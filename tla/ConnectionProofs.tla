-------------------------- MODULE ConnectionProofs --------------------------
(***************************************************************************)
(* Proofs about Connection, for a queue of any length.                     *)
(***************************************************************************)
EXTENDS Connection, TLAPS

Messages == States \cup {"reply"}


(***************************************************************************)
(* Send keeps the queue within its bounds, and unless the connection is    *)
(* done the message is the last in it.                                     *)
(***************************************************************************)
LEMMA SendType ==
  ASSUME NEW before \in Seq(Messages), Len(before) <= SendBuffer,
         NEW m \in Messages, done \in BOOLEAN, Send(before, m)
  PROVE  /\ queue' \in Seq(Messages) /\ Len(queue') <= SendBuffer
         /\ done' \in BOOLEAN
         /\ ~done' => ~done /\ queue' = Append(before, m)
<1> USE SendBufferAssumption
<1>1. CASE done /\ queue' = before /\ UNCHANGED done
  BY <1>1
<1>2. CASE Len(before) < SendBuffer /\ queue' = Append(before, m) /\ UNCHANGED done
  BY <1>2
<1>3. CASE ~done /\ Len(before) = SendBuffer /\ queue' = before /\ done' = TRUE
  BY <1>3
<1> QED
  BY <1>1, <1>2, <1>3 DEF Send

(***************************************************************************)
(* When a new state is sent, everything under way is an old one.           *)
(***************************************************************************)
LEMMA OvertakenType ==
  ASSUME NEW q \in Seq(Messages), NEW before, before = [i \in DOMAIN q |-> Overtaken(q[i])]
  PROVE  before \in Seq(Messages) /\ Len(before) = Len(q)
<1>1. \A m \in Messages : Overtaken(m) \in Messages
  BY DEF Overtaken, Messages, States
<1>2. DOMAIN q = 1..Len(q) /\ Len(q) \in Nat /\ \A i \in 1..Len(q) : q[i] \in Messages
  OBVIOUS
<1>3. before \in [1..Len(q) -> Messages]
  BY <1>1, <1>2
<1> QED
  BY <1>2, <1>3

LEMMA SendStateType ==
  ASSUME ConnectionTypeOK, SendState, UNCHANGED writer
  PROVE  /\ queue' \in Seq(Messages) /\ Len(queue') <= SendBuffer
         /\ done' \in BOOLEAN
         /\ item' \in Messages \cup {"nothing"} /\ (writer' = "writing" <=> item' # "nothing")
         /\ sent' \in States \cup {"nothing"}
         /\ ~done' => CurrentIn(queue')
<1> DEFINE before == [i \in DOMAIN queue |-> Overtaken(queue[i])]
<1>1. before \in Seq(Messages) /\ Len(before) = Len(queue)
  BY OvertakenType DEF ConnectionTypeOK, Messages
<1>2. Send(before, "current")
  BY DEF SendState
<1> HIDE DEF before
<1>3. /\ queue' \in Seq(Messages) /\ Len(queue') <= SendBuffer
      /\ done' \in BOOLEAN
      /\ ~done' => queue' = Append(before, "current")
  BY <1>1, <1>2, SendType DEF ConnectionTypeOK, Messages, States
<1>4. /\ item' \in Messages \cup {"nothing"} /\ (writer' = "writing" <=> item' # "nothing")
      /\ sent' \in States \cup {"nothing"}
  BY DEF SendState, ConnectionTypeOK, Overtaken, Messages, States
<1>5. ASSUME queue' = Append(before, "current")
      PROVE  CurrentIn(queue')
  <2>1. Len(queue') = Len(before) + 1 /\ Len(before) \in Nat
    BY <1>1, <1>5
  <2>2. Len(queue') \in DOMAIN queue' /\ queue'[Len(queue')] = "current"
    BY <1>1, <1>5, <2>1
  <2>3. (Len(queue') + 1)..Len(queue') = {}
    BY <2>1
  <2> QED
    BY <2>2, <2>3 DEF CurrentIn
<1> QED
  BY <1>3, <1>4, <1>5

LEMMA ReplyType ==
  ASSUME ConnectionTypeOK, Reply
  PROVE  /\ queue' \in Seq(Messages) /\ Len(queue') <= SendBuffer
         /\ done' \in BOOLEAN
         /\ UNCHANGED <<item, sent>>
         /\ ~done' => ~done /\ queue' = Append(queue, "reply")
BY SendType DEF Reply, ConnectionTypeOK, Messages, States

(***************************************************************************)
(* Head and tail of the queue.                                             *)
(***************************************************************************)
LEMMA TakesType ==
  ASSUME ConnectionTypeOK, Takes
  PROVE  /\ queue' \in Seq(Messages) /\ Len(queue') <= SendBuffer
         /\ item' \in Messages
BY SendBufferAssumption DEF Takes, ConnectionTypeOK, Messages

-----------------------------------------------------------------------------
LEMMA EmptyQueueType == <<>> \in Seq(States \cup {"reply"}) /\ Len(<<>>) <= SendBuffer
BY SendBufferAssumption

LEMMA NextTyped ==
  ASSUME ConnectionTypeOK, [ConnectionNext]_connectionVars
  PROVE  ConnectionTypeOK'
<1> USE DEF outsideVars, writerVars, Messages
<1>1. CASE Accept
  BY <1>1, EmptyQueueType DEF Accept, ConnectionTypeOK
<1>2. CASE Joins \/ OthersAct
  <2>1. SendState /\ UNCHANGED writer
    BY <1>2 DEF Joins, OthersAct
  <2> QED
    BY <1>2, <2>1, SendStateType DEF Joins, OthersAct, ConnectionTypeOK
<1>3. CASE IsRefused
  <2>1. Reply
    BY <1>3 DEF IsRefused
  <2> QED
    BY <1>3, <2>1, ReplyType DEF IsRefused, ConnectionTypeOK
<1>4. CASE Receives
  <2>1. CASE SendState
    <3>1. UNCHANGED writer
      BY <1>4 DEF Receives
    <3> QED
      BY <1>4, <2>1, <3>1, SendStateType DEF Receives, ConnectionTypeOK
  <2>2. CASE Reply
    BY <1>4, <2>2, ReplyType DEF Receives, ConnectionTypeOK
  <2> QED
    BY <1>4, <2>1, <2>2 DEF Receives
<1>5. CASE ClosesRefused \/ NextRead \/ ReadFails \/ ClosesSocket \/ Leaves
  BY <1>5 DEF ClosesRefused, NextRead, ReadFails, ClosesSocket, Leaves, ConnectionTypeOK
<1>6. CASE Takes
  <2>1. writer' = "writing" /\ item' # "nothing"
    BY <1>6, TakesType DEF Takes, States
  <2> QED
    BY <1>6, <2>1, TakesType DEF Takes, ConnectionTypeOK
<1>7. CASE Writes \/ WriteFails \/ PongArrives \/ PingFails \/ StopsWriting \/ PingIsDue
  BY <1>7 DEF Writes, WriteFails, PongArrives, PingFails, StopsWriting, PingIsDue, ConnectionTypeOK
<1>8. CASE FallsSilent \/ GoesAway \/ ShutsDown
  BY <1>8 DEF FallsSilent, GoesAway, ShutsDown, ConnectionTypeOK
<1>9. CASE UNCHANGED connectionVars
  BY <1>9 DEF connectionVars, ConnectionTypeOK
<1> QED
  BY <1>1, <1>2, <1>3, <1>4, <1>5, <1>6, <1>7, <1>8, <1>9
  DEF ConnectionNext, HandlerSteps, WriterSteps

(***************************************************************************)
(* The queue never holds more than sendBuffer messages, and the writer has *)
(* a message in hand exactly while it is writing.                          *)
(***************************************************************************)
THEOREM ConnectionTyped == ConnectionSpec => []ConnectionTypeOK
<1>1. ConnectionInit => ConnectionTypeOK
  BY EmptyQueueType DEF ConnectionInit, ConnectionTypeOK
<1>2. ConnectionTypeOK /\ [ConnectionNext]_connectionVars => ConnectionTypeOK'
  BY NextTyped
<1> QED
  BY <1>1, <1>2, PTL DEF ConnectionSpec

-----------------------------------------------------------------------------
(***************************************************************************)
(* A reply behind the current state does not hide it.                      *)
(***************************************************************************)
LEMMA ReplyKeepsCurrent ==
  ASSUME NEW q \in Seq(Messages), NEW r, r = Append(q, "reply")
  PROVE  /\ CurrentIn(q) => CurrentIn(r)
         /\ OnlyReplies(q) => OnlyReplies(r)
<1>1. /\ Len(q) \in Nat /\ Len(r) = Len(q) + 1
      /\ DOMAIN q = 1..Len(q) /\ DOMAIN r = 1..(Len(q) + 1)
      /\ \A i \in 1..Len(q) : r[i] = q[i]
      /\ r[Len(q) + 1] = "reply"
  OBVIOUS
<1>2. ASSUME NEW i \in DOMAIN q, q[i] = "current", \A j \in (i + 1)..Len(q) : q[j] = "reply"
      PROVE  CurrentIn(r)
  <2>1. i \in DOMAIN r /\ r[i] = "current"
    BY <1>1, <1>2
  <2>2. \A j \in (i + 1)..Len(r) : r[j] = "reply"
    BY <1>1, <1>2
  <2> QED
    BY <2>1, <2>2 DEF CurrentIn
<1>3. OnlyReplies(q) => OnlyReplies(r)
  BY <1>1 DEF OnlyReplies
<1> QED
  BY <1>2, <1>3 DEF CurrentIn

(***************************************************************************)
(* Taking the first message moves the current state to the writer, or      *)
(* leaves it in the queue, or takes a reply from in front of nothing else. *)
(***************************************************************************)
LEMMA TakingKeepsCurrent ==
  ASSUME NEW q \in Seq(Messages), q # <<>>, NEW r, r = Tail(q)
  PROVE  /\ CurrentIn(q) => CurrentIn(r) \/ (OnlyReplies(r) /\ Head(q) = "current")
         /\ OnlyReplies(q) => OnlyReplies(r) /\ Head(q) = "reply"
<1>1. /\ Len(q) \in Nat \ {0} /\ Len(r) = Len(q) - 1
      /\ DOMAIN q = 1..Len(q) /\ DOMAIN r = 1..(Len(q) - 1)
      /\ \A i \in 1..(Len(q) - 1) : r[i] = q[i + 1]
      /\ Head(q) = q[1]
  OBVIOUS
<1>2. ASSUME NEW i \in DOMAIN q, q[i] = "current", \A j \in (i + 1)..Len(q) : q[j] = "reply"
      PROVE  CurrentIn(r) \/ (OnlyReplies(r) /\ Head(q) = "current")
  <2>1. CASE i = 1
    BY <1>1, <1>2, <2>1 DEF OnlyReplies
  <2>2. CASE i # 1
    <3>1. i - 1 \in DOMAIN r /\ r[i - 1] = "current"
      BY <1>1, <1>2, <2>2
    <3>2. \A j \in ((i - 1) + 1)..Len(r) : r[j] = "reply"
      BY <1>1, <1>2, <2>2
    <3> QED
      BY <3>1, <3>2 DEF CurrentIn
  <2> QED
    BY <2>1, <2>2
<1>3. OnlyReplies(q) => OnlyReplies(r) /\ Head(q) = "reply"
  BY <1>1 DEF OnlyReplies
<1> QED
  BY <1>2, <1>3 DEF CurrentIn

LEMMA NextKeepsCurrent ==
  ASSUME ConnectionTypeOK, CurrentIsOnItsWay, [ConnectionNext]_connectionVars
  PROVE  CurrentIsOnItsWay'
<1> USE DEF outsideVars, writerVars
<1>1. CASE Accept \/ IsRefused \/ ClosesRefused \/ Leaves
  BY <1>1 DEF Accept, IsRefused, ClosesRefused, Leaves, CurrentIsOnItsWay, InLobby
<1>2. CASE ReadFails \/ WriteFails \/ PingFails
  BY <1>2 DEF ReadFails, WriteFails, PingFails, CurrentIsOnItsWay
<1>3. CASE SendState /\ UNCHANGED writer
  BY <1>3, SendStateType DEF CurrentIsOnItsWay
<1>4. ASSUME Receives, Reply
      PROVE  CurrentIsOnItsWay'
  <2>1. InLobby
    BY <1>4 DEF Receives, InLobby
  <2>2. ~done' => ~done /\ queue' = Append(queue, "reply")
    BY <1>4, ReplyType
  <2>3. UNCHANGED <<item, sent>>
    BY <1>4, ReplyType
  <2>4. queue \in Seq(Messages)
    BY DEF ConnectionTypeOK, Messages
  <2> QED
    BY <2>1, <2>2, <2>3, <2>4, ReplyKeepsCurrent DEF CurrentIsOnItsWay
<1>5. CASE NextRead \/ ClosesSocket
  <2>1. InLobby /\ UNCHANGED <<queue, item, sent, done>>
    BY <1>5 DEF NextRead, ClosesSocket, InLobby
  <2> QED
    BY <2>1 DEF CurrentIsOnItsWay
<1>6. CASE Takes
  <2>1. item = "nothing" /\ queue \in Seq(Messages) /\ queue # <<>> /\ queue' = Tail(queue)
    BY <1>6 DEF Takes, ConnectionTypeOK, Messages
  <2>2. item' = Head(queue) /\ UNCHANGED <<handler, done, sent>>
    BY <1>6 DEF Takes
  <2> QED
    BY <2>1, <2>2, TakingKeepsCurrent DEF CurrentIsOnItsWay, InLobby, States
<1>7. CASE Writes
  <2>1. UNCHANGED <<handler, queue, done>> /\ item' = "nothing"
    BY <1>7 DEF Writes
  <2>2. item = "current" => sent' = "current"
    BY <1>7 DEF Writes, States
  <2>3. item \notin States => sent' = sent
    BY <1>7 DEF Writes
  <2> QED
    BY <2>1, <2>2, <2>3 DEF CurrentIsOnItsWay, InLobby, States
<1>8. CASE UNCHANGED <<handler, queue, item, sent, done>>
  BY <1>8 DEF CurrentIsOnItsWay, InLobby
<1> QED
  <2>1. CASE Joins \/ OthersAct
    BY <1>3, <2>1 DEF Joins, OthersAct
  <2>2. CASE Receives
    BY <1>3, <1>4, <2>2 DEF Receives
  <2>3. CASE PongArrives \/ StopsWriting \/ PingIsDue \/ FallsSilent \/ GoesAway \/ ShutsDown
    BY <1>8, <2>3 DEF PongArrives, StopsWriting, PingIsDue, FallsSilent, GoesAway, ShutsDown
  <2>4. CASE UNCHANGED connectionVars
    BY <1>8, <2>4 DEF connectionVars
  <2> QED
    BY <1>1, <1>2, <1>5, <1>6, <1>7, <2>1, <2>2, <2>3, <2>4
    DEF ConnectionNext, HandlerSteps, WriterSteps

(***************************************************************************)
(* However full the queue and however slow the peer: a connection in the   *)
(* lobby has been sent the lobby's current state, or is going to be, or is *)
(* marked as done.                                                         *)
(***************************************************************************)
THEOREM NoStateIsSkipped == ConnectionSpec => []CurrentIsOnItsWay
<1>1. ConnectionInit => CurrentIsOnItsWay
  BY DEF ConnectionInit, CurrentIsOnItsWay, InLobby
<1>2. ConnectionTypeOK /\ CurrentIsOnItsWay /\ [ConnectionNext]_connectionVars => CurrentIsOnItsWay'
  BY NextKeepsCurrent
<1> QED
  BY <1>1, <1>2, ConnectionTyped, PTL DEF ConnectionSpec
=============================================================================
