---------------------------- MODULE Connection -----------------------------
(***************************************************************************)
(* A WebSocket connection on the server, server/internal/transport/ws.go,  *)
(* from the accepted handshake to its end.  Two goroutines serve it: the   *)
(* handler, which joins a lobby, reads commands and leaves it again, and   *)
(* the writer, which sends what is queued and pings the peer.  They, and   *)
(* every other connection of the lobby, share the queue and the channel    *)
(* done; connections do not touch each other otherwise, so there is one    *)
(* here, and the others are the states of the lobby that it is sent.       *)
(*                                                                         *)
(* What is sent matters only as far as a state is the lobby's current one  *)
(* or has been overtaken by another, or is a reply: a pong or an error.    *)
(* Of the WebSocket library: Read returns when the peer closes, the socket *)
(* is closed or the context is cancelled; a Write that times out closes    *)
(* the socket; a Ping that gets no answer in time only reports it, and it  *)
(* is the reader that takes the answer in.                                 *)
(***************************************************************************)
EXTENDS Integers, Sequences

CONSTANT SendBuffer   \* sendBuffer

ASSUME SendBufferAssumption == SendBuffer \in Nat \ {0}

VARIABLES
  handler,    \* where ServeWS and readLoop are; "reading" is the check of done, "blocked" is ws.Read
  writer,     \* where writeLoop is
  queue,      \* conn.out
  item,       \* the message the writer is sending
  done,       \* whether conn.done is closed
  sent,       \* the last state that was written
  peer,       \* the other end: "alive", "silent" (it neither sends nor answers) or "gone"
  socket,     \* "open" or "closed"
  shutdown    \* the base context is cancelled: the process is shutting down

writerVars == <<writer, item, sent>>
outsideVars == <<peer, socket, shutdown>>
connectionVars == <<handler, writerVars, queue, done, outsideVars>>

States == {"old", "current"}

ConnectionInit ==
  /\ handler = "gone" /\ writer = "ended"
  /\ queue = <<>> /\ item = "nothing" /\ sent = "nothing"
  /\ done = FALSE
  /\ peer = "gone" /\ socket = "closed"
  /\ shutdown = FALSE

\* The context of the request: cancelled when the handler returns.
Cancelled == shutdown \/ handler = "gone"

\* From Join to Leave.
InLobby == handler \in {"reading", "blocked", "closing", "leaving"}

-----------------------------------------------------------------------------
\* Mutant: takes one message too many.
SendBeyond(before, m) ==
  \/ done /\ queue' = before /\ UNCHANGED done
  \/ Len(before) <= SendBuffer /\ queue' = Append(before, m) /\ UNCHANGED done
  \/ ~done /\ Len(before) > SendBuffer /\ queue' = before /\ done' = TRUE

\* Mutant: skips the message when the queue is full.
SendIfRoom(before, m) ==
  \/ done /\ queue' = before /\ UNCHANGED done
  \/ Len(before) < SendBuffer /\ queue' = Append(before, m) /\ UNCHANGED done
  \/ ~done /\ Len(before) = SendBuffer /\ queue' = before /\ UNCHANGED done

(***************************************************************************)
(* conn.Send() on a queue that holds before.  Of the cases of a select     *)
(* that are ready one is taken at random.                                  *)
(***************************************************************************)
Send(before, m) ==
  \/ done /\ queue' = before /\ UNCHANGED done
  \/ Len(before) < SendBuffer /\ queue' = Append(before, m) /\ UNCHANGED done
  \/ ~done /\ Len(before) = SendBuffer /\ queue' = before /\ done' = TRUE

Overtaken(m) == IF m = "current" THEN "old" ELSE m

\* The lobby has changed, and sends everybody in it the new state.
SendState ==
  /\ Send([i \in DOMAIN queue |-> Overtaken(queue[i])], "current")
  /\ item' = Overtaken(item)
  /\ sent' = Overtaken(sent)

Reply == Send(queue, "reply") /\ UNCHANGED <<item, sent>>

-----------------------------------------------------------------------------
\* ServeWS has accepted a WebSocket; the writer starts.
Accept ==
  /\ handler = "gone" /\ writer = "ended"
  /\ ~shutdown
  /\ handler' = "joining" /\ writer' = "idle"
  /\ queue' = <<>> /\ item' = "nothing" /\ sent' = "nothing"
  /\ done' = FALSE
  /\ peer' = "alive" /\ socket' = "open"
  /\ UNCHANGED shutdown

Joins ==
  /\ handler = "joining"
  /\ handler' = "reading"
  /\ SendState
  /\ UNCHANGED <<writer, outsideVars>>

\* Join() found no place; the error gets a moment to go out.
IsRefused ==
  /\ handler = "joining"
  /\ handler' = "refused"
  /\ Reply
  /\ UNCHANGED <<writer, outsideVars>>

ClosesRefused ==
  /\ handler = "refused"
  /\ handler' = "gone"
  /\ socket' = "closed"
  /\ UNCHANGED <<writerVars, queue, done, peer, shutdown>>

\* Mutant: goes on reading whether or not the connection is done.
ReadsOn ==
  /\ handler = "reading"
  /\ handler' = "blocked"
  /\ UNCHANGED <<writerVars, queue, done, outsideVars>>

\* readLoop looks at done only before it reads.
NextRead ==
  /\ handler = "reading"
  /\ handler' = IF done THEN "closing" ELSE "blocked"
  /\ UNCHANGED <<writerVars, queue, done, outsideVars>>

(***************************************************************************)
(* A message from the peer: one that changes the lobby, or one that is     *)
(* only replied to (a ping, a malformed or a refused command).             *)
(***************************************************************************)
Receives ==
  /\ handler = "blocked"
  /\ peer = "alive" /\ socket = "open"
  /\ handler' = "reading"
  /\ SendState \/ Reply
  /\ UNCHANGED <<writer, outsideVars>>

\* Mutant: reads without the connection's context.
ReadFailsUncancelled ==
  /\ handler = "blocked"
  /\ peer = "gone" \/ socket = "closed"
  /\ done' = TRUE
  /\ handler' = "closing"
  /\ socket' = "closed"
  /\ UNCHANGED <<writerVars, queue, peer, shutdown>>

ReadFails ==
  /\ handler = "blocked"
  /\ peer = "gone" \/ socket = "closed" \/ Cancelled
  /\ done' = TRUE
  /\ handler' = "closing"
  /\ socket' = "closed"
  /\ UNCHANGED <<writerVars, queue, peer, shutdown>>

\* The deferred calls: first ws.Close() ...
ClosesSocket ==
  /\ handler = "closing"
  /\ handler' = "leaving"
  /\ socket' = "closed"
  /\ UNCHANGED <<writerVars, queue, done, peer, shutdown>>

\* ... then Leave(), and the handler returns.
Leaves ==
  /\ handler = "leaving"
  /\ handler' = "gone"
  /\ UNCHANGED <<writerVars, queue, done, outsideVars>>

\* Another connection changes the lobby.
OthersAct ==
  /\ InLobby
  /\ SendState
  /\ UNCHANGED <<handler, writer, outsideVars>>

-----------------------------------------------------------------------------
\* The writer takes the next message, also when done is closed (a select again).
Takes ==
  /\ writer = "idle"
  /\ queue # <<>>
  /\ writer' = "writing"
  /\ item' = Head(queue)
  /\ queue' = Tail(queue)
  /\ UNCHANGED <<handler, done, sent, outsideVars>>

Writes ==
  /\ writer = "writing"
  /\ socket = "open"
  /\ writer' = "idle"
  /\ sent' = IF item \in States THEN item ELSE sent
  /\ item' = "nothing"
  /\ UNCHANGED <<handler, queue, done, outsideVars>>

\* The socket or the context is gone, or the peer took more than writeTimeout.
WriteFails ==
  /\ writer = "writing"
  /\ writer' = "ended"
  /\ item' = "nothing"
  /\ done' = TRUE
  /\ socket' = "closed"
  /\ UNCHANGED <<handler, queue, sent, peer, shutdown>>

PingIsDue ==
  /\ writer = "idle"
  /\ writer' = "pinging"
  /\ UNCHANGED <<handler, queue, item, sent, done, outsideVars>>

PongArrives ==
  /\ writer = "pinging"
  /\ handler = "blocked"
  /\ peer = "alive" /\ socket = "open"
  /\ writer' = "idle"
  /\ UNCHANGED <<handler, queue, item, sent, done, outsideVars>>

\* No answer in time, which leaves the socket open, or not even the ping could be sent.
PingFails ==
  /\ writer = "pinging"
  /\ writer' = "ended"
  /\ done' = TRUE
  /\ socket' \in {socket, "closed"}
  /\ UNCHANGED <<handler, queue, item, sent, peer, shutdown>>

StopsWriting ==
  /\ writer = "idle"
  /\ done \/ Cancelled
  /\ writer' = "ended"
  /\ UNCHANGED <<handler, queue, item, sent, done, outsideVars>>

-----------------------------------------------------------------------------
\* The peer stalls: a frozen page, a machine asleep behind a proxy that holds the connection.
FallsSilent ==
  /\ peer = "alive"
  /\ peer' = "silent"
  /\ UNCHANGED <<handler, writerVars, queue, done, socket, shutdown>>

\* The connection breaks, or the peer closes it.
GoesAway ==
  /\ peer # "gone"
  /\ peer' = "gone"
  /\ UNCHANGED <<handler, writerVars, queue, done, socket, shutdown>>

\* main(): a signal has arrived; closeConns() cancels the context of every connection.
ShutsDown ==
  /\ ~shutdown
  /\ shutdown' = TRUE
  /\ UNCHANGED <<handler, writerVars, queue, done, peer, socket>>

HandlerSteps == Joins \/ IsRefused \/ ClosesRefused \/ NextRead \/ ReadFails \/ ClosesSocket \/ Leaves
WriterSteps == Takes \/ Writes \/ WriteFails \/ PongArrives \/ PingFails \/ StopsWriting

ConnectionNext ==
  \/ Accept \/ HandlerSteps \/ Receives \/ OthersAct
  \/ WriterSteps \/ PingIsDue
  \/ FallsSilent \/ GoesAway \/ ShutsDown

(***************************************************************************)
(* Only the server's own goroutines are fair: they run as long as they     *)
(* can, and their writes and pings end, at the latest by their timeouts.   *)
(* A Read that could fail again and again, because its context has been    *)
(* cancelled, does not find another message for ever.                      *)
(***************************************************************************)
ConnectionSpec ==
  /\ ConnectionInit /\ [][ConnectionNext]_connectionVars
  /\ WF_connectionVars(HandlerSteps) /\ WF_connectionVars(WriterSteps)
  /\ SF_connectionVars(ReadFails)

-----------------------------------------------------------------------------
ConnectionTypeOK ==
  /\ handler \in {"joining", "refused", "reading", "blocked", "closing", "leaving", "gone"}
  /\ writer \in {"idle", "writing", "pinging", "ended"}
  /\ queue \in Seq(States \cup {"reply"}) /\ Len(queue) <= SendBuffer
  /\ item \in States \cup {"reply", "nothing"}
  /\ writer = "writing" <=> item # "nothing"
  /\ done \in BOOLEAN
  /\ sent \in States \cup {"nothing"}
  /\ peer \in {"alive", "silent", "gone"}
  /\ socket \in {"open", "closed"}
  /\ shutdown \in BOOLEAN

(***************************************************************************)
(* A slow client never misses the state unnoticed: as long as a connection *)
(* that is in the lobby is not marked as done, the lobby's current state   *)
(* is the last it was sent or is on its way to it, behind every older one. *)
(***************************************************************************)
CurrentIn(q) == \E i \in DOMAIN q : q[i] = "current" /\ \A j \in (i + 1)..Len(q) : q[j] = "reply"
OnlyReplies(q) == \A i \in DOMAIN q : q[i] = "reply"

CurrentIsOnItsWay ==
  InLobby /\ ~done =>
    \/ CurrentIn(queue)
    \/ OnlyReplies(queue) /\ item = "current"
    \/ OnlyReplies(queue) /\ item \notin States /\ sent = "current"

(***************************************************************************)
(* A connection marked as done is cut: its handler leaves the lobby and    *)
(* returns, and its writer ends (ws.go: "Laeuft sie voll, ist der Client   *)
(* zu langsam und wird getrennt", "erkennt tote Peers").                   *)
(***************************************************************************)
HasEnded == handler = "gone" /\ writer = "ended"
DoneEnds == done ~> HasEnded

(***************************************************************************)
(* With peers that do their part a connection marked as done is cut: the   *)
(* page sends its pings (app.js, PING_INTERVAL) as long as it is alive,    *)
(* and a connection whose page is not breaks some day.                     *)
(***************************************************************************)
PeersDoTheirPart ==
  /\ WF_connectionVars(Receives)
  /\ WF_connectionVars(peer = "silent" /\ GoesAway)
DoneEndsWithSuchPeers == PeersDoTheirPart => DoneEnds

(***************************************************************************)
(* After a shutdown signal every connection ends, whatever its peer does   *)
(* (main.go: without closeConns() it would hang until the timeout).        *)
(***************************************************************************)
ShutdownEnds == shutdown ~> HasEnded
=============================================================================
