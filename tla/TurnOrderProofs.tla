--------------------------- MODULE TurnOrderProofs ---------------------------
(***************************************************************************)
(* Theorems about TurnOrder, for every group of players, every threshold   *)
(* and every number of removals.                                           *)
(*                                                                         *)
(* The argument is about who waits in the stream: nobody waits twice, so   *)
(* the stream is short and a turn can only repeat where two passes meet;   *)
(* and how long a member waited, with how many are on before it, is        *)
(* bounded by two passes.                                                  *)
(***************************************************************************)
EXTENDS TurnOrder, GameLemmas

All    == Cardinality(Players)
Coming == ToCome(rotation)

-----------------------------------------------------------------------------
(***************************************************************************)
(* The inductive invariant                                                 *)
(***************************************************************************)
\* Nobody waits twice.
NobodyTwice == NobodyWaitsTwice(rotation)

\* As long as nobody was removed, the next turn is somebody else's.
SomebodyElse ==
  removals = 0 => \/ last = NoPlayer
                  \/ Waiting(rotation) >= 1 /\ Coming[1] # last

(***************************************************************************)
(* Whoever waits at place d is on after d - 1 others; whoever does not     *)
(* wait in the stream is in the next pass, once the stream has been used.  *)
(***************************************************************************)
WaitIsBounded ==
  \A p \in Players :
    /\ p \notin members => wait[p] = 0
    /\ \A d \in 1..Waiting(rotation) :
         p \in members /\ Coming[d] = p => wait[p] + d - 1 <= 2 * (All - 1)
    /\ p \in members /\ (\A d \in 1..Waiting(rotation) : Coming[d] # p) =>
         wait[p] + Waiting(rotation) <= All - 1

\* Of a settled group nobody was removed, and nobody else waits.
SettledOrder ==
  settled => removals = 0 /\ \A d \in 1..Waiting(rotation) : Coming[d] \in members

IInv ==
  /\ TypeOK
  /\ rotation.index <= OrderTrimThreshold + 1
  /\ NobodyTwice
  /\ SomebodyElse
  /\ WaitIsBounded
  /\ SettledOrder

-----------------------------------------------------------------------------
LEMMA Group ==
  ASSUME TypeOK
  PROVE  /\ members \in SUBSET Players /\ IsFiniteSet(members) /\ Cardinality(members) >= 2
         /\ Cardinality(members) \in Nat /\ All \in Nat /\ Cardinality(members) <= All
<1>1. members \in SUBSET Players /\ Cardinality(members) >= 2
  BY DEF TypeOK, Groups
<1>2. /\ IsFiniteSet(members) /\ Cardinality(members) <= Cardinality(Players)
  BY <1>1, PlayersAssumption, FS_Subset
<1> QED
  BY <1>1, <1>2, PlayersAssumption, FS_CardinalityType DEF All

LEMMA Stream ==
  ASSUME TypeOK
  PROVE  /\ Waiting(rotation) \in Nat /\ rotation.index \in Nat
         /\ \A d \in 1..Waiting(rotation) : Coming[d] \in Players
<1>1. IsRotation(rotation, Players)
  BY DEF TypeOK
<1>2. /\ Waiting(rotation) \in Nat /\ rotation.index \in Nat
      /\ Coming \in Seq(Players) /\ Len(Coming) = Waiting(rotation)
  BY <1>1, StreamParts DEF Coming
<1> QED
  BY <1>2, ElementOfSeq

\* The stream is short, and if it is as long as the group it is a pass of the group.
LEMMA StreamIsShort ==
  ASSUME TypeOK, NobodyTwice
  PROVE  /\ Waiting(rotation) <= All
         /\ \A S \in SUBSET Players : (\A d \in 1..Waiting(rotation) : Coming[d] \in S) =>
              /\ Waiting(rotation) <= Cardinality(S)
              /\ Waiting(rotation) = Cardinality(S) =>
                   \A p \in S : \E d \in 1..Waiting(rotation) : Coming[d] = p
<1>1. ASSUME NEW S \in SUBSET Players, \A d \in 1..Waiting(rotation) : Coming[d] \in S
      PROVE  /\ Waiting(rotation) <= Cardinality(S)
             /\ Waiting(rotation) = Cardinality(S) =>
                  \A p \in S : \E d \in 1..Waiting(rotation) : Coming[d] = p
  <2>1. IsFiniteSet(S)
    BY PlayersAssumption, FS_Subset
  <2> QED
    BY <1>1, <2>1, Stream, DistinctIsShort DEF NobodyTwice, NobodyWaitsTwice, Coming
<1>2. Waiting(rotation) <= All
  BY <1>1, Stream DEF All
<1> QED
  BY <1>1, <1>2

(***************************************************************************)
(* The three ways a turn can go (TurnToCome), for the group as it is.      *)
(***************************************************************************)
\* n is the size of the group, old and new are who waits before and after.
FirstOfSeveral ==
  /\ Waiting(rotation) >= 2 /\ Waiting(rotation') = Waiting(rotation) - 1
  /\ last' = Coming[1]
  /\ \A i \in 1..Waiting(rotation') : Coming'[i] = Coming[i + 1]

LastOfThePass ==
  /\ Waiting(rotation) = 1 /\ Waiting(rotation') = Cardinality(members)
  /\ last' = Coming[1]
  /\ \E c : /\ Shuffled(c, members) /\ c[1] # Coming[1]
            /\ \A i \in 1..Waiting(rotation') : Coming'[i] = c[i]

FirstOfANewPass ==
  /\ Waiting(rotation) = 0 /\ Waiting(rotation') = Cardinality(members) - 1
  /\ \E c : /\ Shuffled(c, members) /\ last' = c[1]
            /\ \A i \in 1..Waiting(rotation') : Coming'[i] = c[i + 1]

LEMMA TurnCases ==
  ASSUME TypeOK, TakeTurn
  PROVE  /\ last' \in Players /\ IsRotation(rotation', Players)
         /\ rotation'.index <= OrderTrimThreshold + 1
         /\ FirstOfSeveral \/ LastOfThePass \/ FirstOfANewPass
<1>1. PICK turn \in Turns(rotation, members) : last' = turn.player /\ rotation' = turn.rotation
  BY DEF TakeTurn
<1>2. IsRotation(rotation, Players)
  BY DEF TypeOK
<1>3. last' \in Players /\ IsRotation(rotation', Players)
  BY <1>1, <1>2, Group, TurnType
<1>4. LET q == turn.rotation
          n == Cardinality(members)
          old == ToCome(rotation)
          new == ToCome(q)
      IN  /\ q.index <= OrderTrimThreshold + 1
          /\ \/ /\ Waiting(rotation) >= 2 /\ Waiting(q) = Waiting(rotation) - 1
                /\ turn.player = old[1]
                /\ \A i \in 1..Waiting(q) : new[i] = old[i + 1]
             \/ /\ Waiting(rotation) = 1 /\ Waiting(q) = n
                /\ turn.player = old[1]
                /\ \E c : Shuffled(c, members) /\ c[1] # old[1]
                            /\ \A i \in 1..n : new[i] = c[i]
             \/ /\ Waiting(rotation) = 0 /\ Waiting(q) = n - 1
                /\ \E c : /\ Shuffled(c, members) /\ turn.player = c[1]
                          /\ rotation.order # <<>> => c[1] # Last(rotation.order)
                          /\ \A i \in 1..Waiting(q) : new[i] = c[i + 1]
  BY <1>2, Group, TurnToCome
<1> QED
  BY <1>1, <1>3, <1>4 DEF FirstOfSeveral, LastOfThePass, FirstOfANewPass, Coming

-----------------------------------------------------------------------------
(***************************************************************************)
(* A turn                                                                  *)
(***************************************************************************)
LEMMA TurnTypeOK ==
  ASSUME TypeOK, TakeTurn
  PROVE  TypeOK' /\ rotation'.index <= OrderTrimThreshold + 1
<1>1. wait' \in [Players -> Nat]
  BY DEF TypeOK, TakeTurn
<1>2. removals' \in 0..MaxRemovals
  BY PlayersAssumption DEF TypeOK, TakeTurn
<1> QED
  BY <1>1, <1>2, TurnCases DEF TypeOK, TakeTurn

LEMMA TurnOrderKept ==
  ASSUME IInv, TakeTurn
  PROVE  NobodyTwice' /\ SomebodyElse'
<1>1. PICK turn \in Turns(rotation, members) : last' = turn.player /\ rotation' = turn.rotation
  BY DEF TakeTurn
<1>2. TypeOK /\ IsRotation(rotation, Players) /\ NobodyWaitsTwice(rotation)
  BY DEF IInv, TypeOK, NobodyTwice
<1>3. /\ NobodyWaitsTwice(turn.rotation) /\ Waiting(turn.rotation) >= 1
      /\ ToCome(turn.rotation)[1] # turn.player
  BY <1>2, Group, TurnIsNotRepeated
<1> QED
  BY <1>1, <1>3 DEF NobodyTwice, SomebodyElse, Coming

(***************************************************************************)
(* One more turn to wait, one place nearer.                                *)
(***************************************************************************)
LEMMA TurnWait ==
  ASSUME IInv, TakeTurn
  PROVE  WaitIsBounded'
<1> DEFINE W == Waiting(rotation)
           V == Waiting(rotation')
           n == Cardinality(members)
<1>1. TypeOK /\ NobodyTwice /\ WaitIsBounded
  BY DEF IInv
<1>2. /\ W \in Nat /\ n \in Nat /\ n >= 2 /\ All \in Nat /\ n <= All
      /\ IsFiniteSet(members) /\ members \in SUBSET Players
  BY <1>1, Stream, Group
<1>3. /\ IsRotation(rotation', Players) /\ last' \in Players /\ members' = members
      /\ wait' = [p \in Players |-> IF p \in members \ {last'} THEN wait[p] + 1 ELSE 0]
  BY <1>1, TurnCases DEF TakeTurn
<1>4. V \in Nat /\ V <= All
  <2>1. TypeOK' /\ NobodyTwice'
    BY <1>1, TurnTypeOK, TurnOrderKept
  <2>2. V \in Nat
    BY <1>3, StreamParts
  <2>3. CASE FirstOfSeveral
    BY <1>1, <1>2, <2>3, StreamIsShort DEF FirstOfSeveral
  <2>4. CASE LastOfThePass
    BY <1>2, <2>4 DEF LastOfThePass
  <2>5. CASE FirstOfANewPass
    BY <1>2, <2>5 DEF FirstOfANewPass
  <2> QED
    BY <1>1, <2>2, <2>3, <2>4, <2>5, TurnCases
<1>5. \A i, j \in 1..W : i # j => Coming[i] # Coming[j]
  BY <1>1 DEF NobodyTwice, NobodyWaitsTwice, Coming
<1> HIDE DEF W, V, n
<1> SUFFICES ASSUME NEW p \in Players
             PROVE  /\ p \notin members => wait'[p] = 0
                    /\ \A d \in 1..V :
                         p \in members /\ Coming'[d] = p => wait'[p] + d - 1 <= 2 * (All - 1)
                    /\ p \in members /\ (\A d \in 1..V : Coming'[d] # p) =>
                         wait'[p] + V <= All - 1
  BY <1>3 DEF WaitIsBounded, V
<1>6. /\ p \notin members \/ p = last' => wait'[p] = 0
      /\ p \in members /\ p # last' => wait'[p] = wait[p] + 1
  BY <1>3
<1>7. /\ \A d \in 1..W :
           p \in members /\ Coming[d] = p => wait[p] + d - 1 <= 2 * (All - 1)
      /\ p \in members /\ (\A d \in 1..W : Coming[d] # p) =>
           wait[p] + W <= All - 1
      /\ wait[p] \in Nat
  BY <1>1 DEF WaitIsBounded, W, TypeOK
<1>8. ASSUME p = last'
      PROVE  /\ \A d \in 1..V : wait'[p] + d - 1 <= 2 * (All - 1)
             /\ (\A d \in 1..V : Coming'[d] # p) => wait'[p] + V <= All - 1
  <2>1. wait'[p] = 0
    BY <1>6, <1>8
  <2>2. \A d \in 1..V : 0 + d - 1 <= 2 * (All - 1)
    BY <1>2, <1>4
  <2>3. (\A d \in 1..V : Coming'[d] # p) => 0 + V <= All - 1
    <3>1. CASE FirstOfSeveral
      <4>1. W <= All
        BY <1>1, StreamIsShort DEF W
      <4> QED
        BY <1>2, <3>1, <4>1 DEF FirstOfSeveral, W, V
    <3>2. CASE LastOfThePass
      <4>1. PICK c : /\ V = n /\ Shuffled(c, members)
                     /\ \A i \in 1..V : Coming'[i] = c[i]
        BY <3>2 DEF LastOfThePass, V, n
      <4>2. p \in members => \E d \in 1..V : Coming'[d] = p
        BY <1>2, <4>1, ShuffledHasAll DEF n
      <4>3. p \notin members => 0 + V <= All - 1
        <5>1. p \notin members => members # Players /\ Cardinality(members) # Cardinality(Players)
          BY <1>2, PlayersAssumption, FS_Subset
        <5> QED
          BY <1>2, <4>1, <5>1 DEF All, n
      <4> QED
        BY <4>2, <4>3
    <3>3. CASE FirstOfANewPass
      BY <1>2, <3>3 DEF FirstOfANewPass, V, n
    <3> QED
      BY <1>1, <3>1, <3>2, <3>3, TurnCases
  <2> QED
    BY <2>1, <2>2, <2>3
<1>9. ASSUME p \in members, p # last'
      PROVE  /\ \A d \in 1..V : Coming'[d] = p => wait'[p] + d - 1 <= 2 * (All - 1)
             /\ (\A d \in 1..V : Coming'[d] # p) => wait'[p] + V <= All - 1
  <2>1. wait'[p] = wait[p] + 1
    BY <1>6, <1>9
  <2>2. CASE FirstOfSeveral
    <3>1. /\ W >= 2 /\ V = W - 1 /\ last' = Coming[1]
          /\ \A i \in 1..V : Coming'[i] = Coming[i + 1]
      BY <2>2 DEF FirstOfSeveral, W, V
    <3>2. ASSUME NEW d \in 1..V, Coming'[d] = p
          PROVE  wait'[p] + d - 1 <= 2 * (All - 1)
      <4>1. d + 1 \in 1..W /\ Coming[d + 1] = p
        BY <1>2, <3>1, <3>2
      <4>2. wait[p] + (d + 1) - 1 <= 2 * (All - 1)
        BY <1>7, <1>9, <4>1
      <4> QED
        BY <1>2, <1>4, <1>7, <2>1, <4>2
    <3>3. ASSUME \A d \in 1..V : Coming'[d] # p
          PROVE  wait'[p] + V <= All - 1
      <4>1. ASSUME NEW d \in 1..W
            PROVE  Coming[d] # p
        <5>1. CASE d = 1
          BY <1>9, <3>1, <5>1
        <5>2. CASE d # 1
          <6>1. d - 1 \in 1..V /\ (d - 1) + 1 = d
            BY <1>2, <3>1, <5>2
          <6> QED
            BY <3>1, <3>3, <6>1
        <5> QED
          BY <5>1, <5>2
      <4>2. wait[p] + W <= All - 1
        BY <1>7, <1>9, <4>1
      <4> QED
        BY <1>2, <1>7, <2>1, <3>1, <4>2
    <3> QED
      BY <3>2, <3>3
  <2>3. CASE LastOfThePass
    <3>1. PICK c : /\ W = 1 /\ V = n /\ last' = Coming[1] /\ Shuffled(c, members)
                   /\ \A i \in 1..V : Coming'[i] = c[i]
      BY <2>3 DEF LastOfThePass, W, V, n
    <3>2. wait[p] + 1 <= All - 1
      <4>1. \A d \in 1..W : d = 1
        BY <3>1
      <4> QED
        BY <1>7, <1>9, <3>1, <4>1
    <3>3. \E d \in 1..V : Coming'[d] = p
      BY <1>2, <1>9, <3>1, ShuffledHasAll DEF n
    <3>4. \A d \in 1..V : wait'[p] + d - 1 <= 2 * (All - 1)
      BY <1>2, <1>4, <1>7, <2>1, <3>2
    <3> QED
      BY <3>3, <3>4
  <2>4. CASE FirstOfANewPass
    <3>1. PICK c : /\ W = 0 /\ V = n - 1 /\ Shuffled(c, members) /\ last' = c[1]
                   /\ \A i \in 1..V : Coming'[i] = c[i + 1]
      BY <2>4 DEF FirstOfANewPass, W, V, n
    <3>2. wait[p] <= All - 1
      <4>1. \A d \in 1..W : FALSE
        BY <3>1
      <4> QED
        BY <1>2, <1>7, <1>9, <3>1, <4>1
    <3>3. \E d \in 1..V : Coming'[d] = p
      <4>1. PICK i \in 1..n : c[i] = p
        BY <1>2, <1>9, <3>1, ShuffledHasAll DEF n
      <4>2. i # 1
        BY <1>9, <3>1, <4>1
      <4>3. i - 1 \in 1..V /\ (i - 1) + 1 = i
        BY <1>2, <3>1, <4>2
      <4> QED
        BY <3>1, <4>1, <4>3
    <3>4. \A d \in 1..V : wait'[p] + d - 1 <= 2 * (All - 1)
      <4>1. V <= All - 1
        BY <1>2, <3>1
      <4> QED
        BY <1>2, <1>4, <1>7, <2>1, <3>2, <4>1
    <3> QED
      BY <3>3, <3>4
  <2> QED
    BY <1>1, <2>2, <2>3, <2>4, TurnCases
<1> QED
  BY <1>6, <1>8, <1>9

\* Only a pass of the group itself is appended.
LEMMA TurnSettled ==
  ASSUME IInv, TakeTurn
  PROVE  SettledOrder'
<1> SUFFICES ASSUME settled'
             PROVE  removals' = 0 /\ \A d \in 1..Waiting(rotation') : Coming'[d] \in members
  BY DEF SettledOrder, TakeTurn
<1>1. /\ TypeOK /\ settled /\ removals = 0
      /\ \A d \in 1..Waiting(rotation) : Coming[d] \in members
  BY DEF IInv, SettledOrder, TakeTurn
<1>2. removals' = 0
  BY <1>1 DEF TakeTurn
<1>3. /\ Waiting(rotation) \in Nat /\ Cardinality(members) \in Nat /\ Cardinality(members) >= 2
      /\ IsFiniteSet(members)
  BY <1>1, Stream, Group
<1>4. CASE FirstOfSeveral
  BY <1>1, <1>2, <1>3, <1>4 DEF FirstOfSeveral
<1>5. CASE LastOfThePass
  BY <1>2, <1>3, <1>5, ShuffledHasAll DEF LastOfThePass
<1>6. CASE FirstOfANewPass
  <2>1. PICK c : /\ Waiting(rotation') = Cardinality(members) - 1 /\ Shuffled(c, members)
                 /\ \A i \in 1..Waiting(rotation') : Coming'[i] = c[i + 1]
    BY <1>6 DEF FirstOfANewPass
  <2>2. \A i \in 1..Waiting(rotation') : i + 1 \in 1..Cardinality(members)
    BY <1>3, <2>1
  <2> QED
    BY <1>2, <1>3, <2>1, <2>2, ShuffledHasAll
<1> QED
  BY <1>1, <1>4, <1>5, <1>6, TurnCases

-----------------------------------------------------------------------------
(***************************************************************************)
(* Players come and go                                                     *)
(***************************************************************************)
LEMMA GatherStep ==
  ASSUME IInv, NEW S \in Groups, Gather(S)
  PROVE  IInv'
<1>1. TypeOK /\ NobodyTwice /\ SomebodyElse /\ WaitIsBounded
  BY DEF IInv
<1>2. rotation' = rotation /\ last' = last /\ removals' = removals /\ members' = S /\ ~ settled'
  BY DEF Gather
<1>3. wait' = [p \in Players |-> IF p \in S THEN wait[p] ELSE 0]
  BY DEF Gather
<1>4. TypeOK' /\ rotation'.index <= OrderTrimThreshold + 1
  <2>1. wait' \in [Players -> Nat]
    BY <1>1, <1>3 DEF TypeOK
  <2> QED
    BY <1>1, <1>2, <2>1 DEF TypeOK, IInv, Gather
<1>5. NobodyTwice' /\ SomebodyElse' /\ SettledOrder'
  BY <1>1, <1>2 DEF NobodyTwice, NobodyWaitsTwice, SomebodyElse, SettledOrder, Coming
<1>6. WaitIsBounded'
  <2>1. Waiting(rotation) \in Nat /\ All \in Nat /\ Waiting(rotation) <= All
    BY <1>1, Stream, Group, StreamIsShort
  <2> SUFFICES ASSUME NEW p \in Players
               PROVE  /\ p \notin S => wait'[p] = 0
                      /\ \A d \in 1..Waiting(rotation) :
                           p \in S /\ Coming[d] = p => wait'[p] + d - 1 <= 2 * (All - 1)
                      /\ p \in S /\ (\A d \in 1..Waiting(rotation) : Coming[d] # p) =>
                           wait'[p] + Waiting(rotation) <= All - 1
    BY <1>2 DEF WaitIsBounded, Coming
  <2>2. CASE p \notin S
    BY <1>3, <2>2
  <2>3. CASE p \in S /\ p \in members
    BY <1>1, <1>3, <2>3 DEF WaitIsBounded
  <2>4. CASE p \in S /\ p \notin members
    <3>1. wait'[p] = 0
      BY <1>1, <1>3, <2>4 DEF WaitIsBounded
    <3>2. \A d \in 1..Waiting(rotation) : 0 + d - 1 <= 2 * (All - 1)
      BY <2>1
    <3>3. ASSUME \A d \in 1..Waiting(rotation) : Coming[d] # p
          PROVE  0 + Waiting(rotation) <= All - 1
      <4>1. \A d \in 1..Waiting(rotation) : Coming[d] \in Players \ {p}
        BY <1>1, <3>3, Stream
      <4>2. Waiting(rotation) <= Cardinality(Players \ {p})
        BY <1>1, <4>1, StreamIsShort
      <4>3. Cardinality(Players \ {p}) = All - 1
        BY PlayersAssumption, FS_RemoveElement DEF All
      <4> QED
        BY <2>1, <4>2, <4>3
    <3> QED
      BY <3>1, <3>2, <3>3
  <2> QED
    BY <2>2, <2>3, <2>4
<1> QED
  BY <1>4, <1>5, <1>6 DEF IInv

(***************************************************************************)
(* A removed player is out of the order; the others are on no later than   *)
(* they were.                                                              *)
(***************************************************************************)
LEMMA ExpelStep ==
  ASSUME IInv, NEW x \in Players, Expel(x)
  PROVE  IInv'
<1> DEFINE W == Waiting(rotation)
           V == Waiting(rotation')
<1>1. TypeOK /\ NobodyTwice /\ WaitIsBounded
  BY DEF IInv
<1>2. /\ rotation' = Without(rotation, x) /\ last' = last /\ removals' = removals + 1
      /\ members' = members \ {x} /\ ~ settled' /\ wait' = [wait EXCEPT ![x] = 0]
      /\ removals < MaxRemovals /\ members \ {x} \in Groups
  BY DEF Expel
<1>3. IsRotation(rotation, Players)
  BY <1>1 DEF TypeOK
<1>4. /\ IsRotation(rotation', Players \ {x})
      /\ rotation'.index <= rotation.index /\ V <= W
      /\ Thinned(Coming', Coming, x)
  BY <1>2, <1>3, WithoutProperties DEF Coming
<1>5. /\ W \in Nat /\ Len(Coming) = W
      /\ V \in Nat /\ Len(Coming') = V
  BY <1>3, <1>4, StreamParts DEF Coming
<1>6. IsRotation(rotation', Players)
  BY <1>4 DEF IsRotation
<1>7. TypeOK'
  <2>1. wait' \in [Players -> Nat]
    BY <1>1, <1>2 DEF TypeOK
  <2>2. removals' \in 0..MaxRemovals /\ removals' # 0
    BY <1>1, <1>2, PlayersAssumption DEF TypeOK
  <2> QED
    BY <1>1, <1>2, <1>6, <2>1, <2>2 DEF TypeOK, Expel
<1>8. rotation'.index <= OrderTrimThreshold + 1
  <2>1. rotation'.index \in Nat /\ rotation.index \in Nat
    BY <1>3, <1>6, StreamParts
  <2> QED
    BY <1>4, <2>1, TrimAssumption DEF IInv
<1>9. removals' # 0
  BY <1>1, <1>2 DEF TypeOK
<1>10. PICK f \in [1..V -> 1..W] :
         /\ \A k \in 1..V : Coming'[k] = Coming[f[k]] /\ k <= f[k]
         /\ \A k, l \in 1..V : k < l => f[k] < f[l]
         /\ \A i \in 1..W : Coming[i] # x => \E k \in 1..V : f[k] = i
  BY <1>4, <1>5 DEF Thinned
<1>11. NobodyTwice'
  <2> SUFFICES ASSUME NEW i \in 1..V, NEW j \in 1..V, i # j
               PROVE  Coming'[i] # Coming'[j]
    BY DEF NobodyTwice, NobodyWaitsTwice, Coming
  <2>1. f[i] \in 1..W /\ f[j] \in 1..W
    BY <1>10
  <2>2. f[i] # f[j]
    <3>1. i < j \/ j < i
      BY <1>5
    <3>2. f[i] < f[j] \/ f[j] < f[i]
      BY <1>10, <3>1
    <3> QED
      BY <1>5, <2>1, <3>2
  <2> QED
    BY <1>1, <1>10, <2>1, <2>2 DEF NobodyTwice, NobodyWaitsTwice, Coming
<1>12. WaitIsBounded'
  <2>1. All \in Nat
    BY <1>1, Group
  <2> HIDE DEF W, V
  <2> SUFFICES ASSUME NEW p \in Players
               PROVE  /\ p \notin members \ {x} => wait'[p] = 0
                      /\ \A d \in 1..V :
                           p \in members \ {x} /\ Coming'[d] = p =>
                             wait'[p] + d - 1 <= 2 * (All - 1)
                      /\ p \in members \ {x} /\ (\A d \in 1..V : Coming'[d] # p) =>
                           wait'[p] + V <= All - 1
    BY <1>2 DEF WaitIsBounded, V
  <2>2. CASE p = x
    BY <1>1, <1>2, <2>2 DEF TypeOK
  <2>3. CASE p # x
    <3>1. wait'[p] = wait[p] /\ wait[p] \in Nat
      BY <1>1, <1>2, <2>3 DEF TypeOK
    <3>2. /\ p \notin members => wait[p] = 0
          /\ \A d \in 1..W :
               p \in members /\ Coming[d] = p => wait[p] + d - 1 <= 2 * (All - 1)
          /\ p \in members /\ (\A d \in 1..W : Coming[d] # p) =>
               wait[p] + W <= All - 1
      BY <1>1 DEF WaitIsBounded, W
    <3>3. ASSUME NEW d \in 1..V, p \in members, Coming'[d] = p
          PROVE  wait'[p] + d - 1 <= 2 * (All - 1)
      <4>1. f[d] \in 1..W /\ Coming[f[d]] = p /\ d <= f[d]
        BY <1>10, <3>3
      <4>2. wait[p] + f[d] - 1 <= 2 * (All - 1)
        BY <3>2, <3>3, <4>1
      <4> QED
        BY <1>5, <2>1, <3>1, <4>1, <4>2
    <3>4. ASSUME p \in members, \A d \in 1..V : Coming'[d] # p
          PROVE  wait'[p] + V <= All - 1
      <4>1. ASSUME NEW i \in 1..W
            PROVE  Coming[i] # p
        <5>1. CASE Coming[i] = x
          BY <2>3, <5>1
        <5>2. CASE Coming[i] # x
          <6>1. PICK k \in 1..V : f[k] = i
            BY <1>10, <5>2
          <6> QED
            BY <1>10, <3>4, <6>1
        <5> QED
          BY <5>1, <5>2
      <4>2. wait[p] + W <= All - 1
        BY <3>2, <3>4, <4>1
      <4> QED
        BY <1>4, <1>5, <2>1, <3>1, <4>2
    <3> QED
      BY <2>3, <3>1, <3>2, <3>3, <3>4
  <2> QED
    BY <2>2, <2>3
<1> QED
  BY <1>2, <1>7, <1>8, <1>9, <1>11, <1>12 DEF IInv, SomebodyElse, SettledOrder

-----------------------------------------------------------------------------
LEMMA NewIsEmpty ==
  /\ IsRotation(NewRotation, Players)
  /\ NewRotation.index = 0 /\ Waiting(NewRotation) = 0
BY DEF NewRotation, IsRotation, Waiting

Begun ==
  /\ rotation = NewRotation /\ members \in Groups /\ settled = TRUE /\ last = NoPlayer
  /\ wait = [p \in Players |-> 0] /\ removals = 0

LEMMA BegunInv == Begun => IInv
<1> SUFFICES ASSUME Begun
             PROVE  IInv
  OBVIOUS
<1>1. TypeOK /\ rotation.index <= OrderTrimThreshold + 1
  BY NewIsEmpty, PlayersAssumption, TrimAssumption DEF TypeOK, Begun
<1>2. Waiting(rotation) = 0 /\ \A d \in 1..Waiting(rotation) : FALSE
  BY NewIsEmpty DEF Begun
<1>3. WaitIsBounded
  <2>1. All \in Nat /\ All >= 2
    BY <1>1, Group
  <2> QED
    BY <1>2, <2>1 DEF WaitIsBounded, Begun
<1> QED
  BY <1>1, <1>2, <1>3 DEF IInv, NobodyTwice, NobodyWaitsTwice, SomebodyElse, SettledOrder, Begun

LEMMA InitInv == Init => IInv
BY BegunInv DEF Init, Begun

LEMMA NextInv ==
  ASSUME IInv, [Next]_vars
  PROVE  IInv'
<1>1. CASE TakeTurn
  <2>1. TypeOK' /\ rotation'.index <= OrderTrimThreshold + 1
    BY <1>1, TurnTypeOK DEF IInv
  <2> QED
    BY <1>1, <2>1, TurnOrderKept, TurnWait, TurnSettled DEF IInv
<1>2. CASE \E S \in Groups : Gather(S)
  BY <1>2, GatherStep
<1>3. CASE \E p \in Players : Expel(p)
  BY <1>3, ExpelStep
<1>4. CASE Restart
  <2>1. Begun'
    BY <1>4 DEF IInv, TypeOK, Restart, Begun
  <2>2. Begun' => IInv'
    BY BegunInv, PTL
  <2> QED
    BY <2>1, <2>2
<1>5. CASE UNCHANGED vars
  BY <1>5 DEF IInv, TypeOK, NobodyTwice, NobodyWaitsTwice, SomebodyElse,
              WaitIsBounded, SettledOrder, Coming, vars
<1> QED
  BY <1>1, <1>2, <1>3, <1>4, <1>5 DEF Next

LEMMA SpecInv == Spec => []IInv
BY InitInv, NextInv, PTL DEF Spec

-----------------------------------------------------------------------------
(***************************************************************************)
(* The theorems                                                            *)
(***************************************************************************)
\* The rotation of a group is always a stream of its players and an index into it.
THEOREM TurnOrderType == Spec => []TypeOK
<1>1. IInv => TypeOK
  BY DEF IInv
<1> QED
  BY <1>1, SpecInv, PTL

\* What ensure() keeps is bounded, however often players come, go and are removed.
THEOREM StreamStaysShort == Spec => []StreamBounded
<1>1. IInv => StreamBounded
  BY StreamIsShort DEF IInv, StreamBounded, All
<1> QED
  BY <1>1, SpecInv, PTL

(***************************************************************************)
(* Whoever stays in the group is on again after at most two turns of each  *)
(* of the others, whatever Next, ensure and Remove did meanwhile.          *)
(***************************************************************************)
THEOREM EverybodyIsOn == Spec => []NobodyStarves
<1>1. IInv => NobodyStarves
  <2> SUFFICES ASSUME IInv, NEW p \in members
               PROVE  wait[p] <= 2 * (All - 1)
    BY DEF NobodyStarves, All
  <2>1. /\ Waiting(rotation) \in Nat /\ All \in Nat /\ All >= 2
        /\ p \in Players /\ wait[p] \in Nat
    BY Stream, Group DEF IInv, TypeOK
  <2>2. CASE \E d \in 1..Waiting(rotation) : Coming[d] = p
    <3>1. PICK d \in 1..Waiting(rotation) : Coming[d] = p
      BY <2>2
    <3>2. wait[p] + d - 1 <= 2 * (All - 1)
      BY <2>1, <3>1 DEF IInv, WaitIsBounded
    <3> QED
      BY <2>1, <3>2
  <2>3. CASE \A d \in 1..Waiting(rotation) : Coming[d] # p
    <3>1. wait[p] + Waiting(rotation) <= All - 1
      BY <2>1, <2>3 DEF IInv, WaitIsBounded
    <3> QED
      BY <2>1, <3>1
  <2> QED
    BY <2>2, <2>3
<1> QED
  BY <1>1, SpecInv, PTL

(***************************************************************************)
(* A turn goes to the player who had the one before only when a removal    *)
(* has brought two of its entries together.                                *)
(***************************************************************************)
LEMMA TurnIsAnothers ==
  ASSUME IInv, TakeTurn, removals = 0
  PROVE  last' # last
<1>1. TypeOK /\ SomebodyElse /\ last' \in Players /\ NoPlayer \notin Players
  BY TurnCases, PlayersAssumption DEF IInv
<1>2. CASE last = NoPlayer
  BY <1>1, <1>2
<1>3. CASE Waiting(rotation) >= 1 /\ Coming[1] # last
  <2>1. Waiting(rotation) \in Nat
    BY <1>1, Stream
  <2>2. FirstOfSeveral \/ LastOfThePass
    BY <1>1, <1>3, <2>1, TurnCases DEF FirstOfANewPass
  <2> QED
    BY <1>3, <2>2 DEF FirstOfSeveral, LastOfThePass
<1> QED
  BY <1>1, <1>2, <1>3 DEF SomebodyElse

(***************************************************************************)
(* In a group of any size whose players come and go, nobody takes two      *)
(* turns in a row, across refills and trims, except where a removal has    *)
(* brought two of his entries together (Next, ensure, refill, Remove).     *)
(***************************************************************************)
THEOREM NobodyIsOnTwiceInARow == Spec => NeverTwiceInARow
<1>1. IInv /\ [Next]_vars => [TakeTurn /\ last' = last => removals > 0]_vars
  <2> SUFFICES ASSUME IInv, TakeTurn, last' = last
               PROVE  removals > 0
    OBVIOUS
  <2>1. removals # 0 /\ removals \in Nat
    BY TurnIsAnothers, PlayersAssumption DEF IInv, TypeOK
  <2> QED
    BY <2>1
<1> QED
  BY <1>1, SpecInv, PTL DEF Spec, NeverTwiceInARow

(***************************************************************************)
(* The rotation implements FairTurns: a turn of a settled group is one of  *)
(* its turns, anything else a change or a new beginning.                   *)
(***************************************************************************)
\* What the refinement hides of a stream: nothing, unless it is a whole pass.
LEMMA StillToComeIs ==
  TypeOK => StillToCome = IF Waiting(rotation) = Cardinality(members) THEN {}
                          ELSE {Coming[d] : d \in 1..Waiting(rotation)}
<1> SUFFICES ASSUME TypeOK
             PROVE  StillToCome = IF Waiting(rotation) = Cardinality(members) THEN {}
                                  ELSE {Coming[d] : d \in 1..Waiting(rotation)}
  OBVIOUS
<1>1. Coming \in Seq(Players) /\ Len(Coming) = Waiting(rotation)
  BY StreamParts DEF TypeOK, Coming
<1>2. ToSet(Coming) = {Coming[d] : d \in 1..Waiting(rotation)}
  BY <1>1 DEF ToSet
<1> QED
  BY <1>2 DEF StillToCome, Coming

LEMMA BegunIsFair == Begun => Fair!Begun /\ members \in SUBSET Players
<1> SUFFICES ASSUME Begun
             PROVE  Fair!Begun /\ members \in SUBSET Players
  OBVIOUS
<1>1. TypeOK
  BY BegunInv DEF IInv
<1>2. Waiting(rotation) = 0 /\ Cardinality(members) # 0
  BY <1>1, NewIsEmpty, Group DEF Begun
<1>3. StillToCome = {}
  BY <1>1, <1>2, StillToComeIs
<1> QED
  BY <1>1, <1>3, Group DEF Begun, Fair!Begun

LEMMA SettledTurnIsFair ==
  ASSUME IInv, TakeTurn, settled
  PROVE  Fair!Turn(last')
<1> DEFINE W == Waiting(rotation)
           V == Waiting(rotation')
           n == Cardinality(members)
<1>1. TypeOK /\ NobodyTwice /\ TypeOK' /\ NobodyTwice'
  BY TurnTypeOK, TurnOrderKept DEF IInv
<1>2. /\ W \in Nat /\ V \in Nat /\ n \in Nat /\ n >= 2
      /\ IsFiniteSet(members) /\ members \in SUBSET Players
  <2>1. IsRotation(rotation', Players)
    BY <1>1 DEF TypeOK
  <2> QED
    BY <1>1, <2>1, Stream, Group, StreamParts
<1>3. /\ removals = 0 /\ \A d \in 1..W : Coming[d] \in members
      /\ members' = members /\ settled' = settled
  BY DEF IInv, SettledOrder, TakeTurn
<1>4. last' # last
  BY <1>3, TurnIsAnothers
<1>5. /\ StillToCome = IF W = n THEN {} ELSE {Coming[d] : d \in 1..W}
      /\ StillToCome' = IF V = n THEN {} ELSE {Coming'[d] : d \in 1..V}
  <2>1. (TypeOK => StillToCome = IF Waiting(rotation) = Cardinality(members) THEN {}
                                 ELSE {Coming[d] : d \in 1..Waiting(rotation)})'
    BY StillToComeIs, PTL
  <2> QED
    BY <1>1, <1>3, <2>1, StillToComeIs
<1>6. /\ W <= n
      /\ W = n => \A p \in members : \E d \in 1..W : Coming[d] = p
  BY <1>1, <1>2, <1>3, StreamIsShort
<1>7. \A i, j \in 1..W : i # j => Coming[i] # Coming[j]
  BY <1>1 DEF NobodyTwice, NobodyWaitsTwice, Coming
<1> DEFINE pass == IF StillToCome = {} THEN members ELSE StillToCome
<1> HIDE DEF W, V, n
<1>8. last' \in pass /\ StillToCome' = pass \ {last'}
  <2>1. CASE FirstOfSeveral
    <3>1. /\ W >= 2 /\ V = W - 1 /\ last' = Coming[1]
          /\ \A i \in 1..V : Coming'[i] = Coming[i + 1]
      BY <2>1 DEF FirstOfSeveral, W, V
    <3>2. 1 \in 1..W /\ V # n /\ \A i \in 1..V : i + 1 \in 1..W /\ i + 1 # 1
      BY <1>2, <1>6, <3>1
    <3>3. pass = {Coming[d] : d \in 1..W}
      <4>1. CASE W = n
        BY <1>3, <1>5, <1>6, <4>1
      <4>2. CASE W # n
        BY <1>5, <3>2, <4>2
      <4> QED
        BY <4>1, <4>2
    <3>4. {Coming'[d] : d \in 1..V} = {Coming[d] : d \in 1..W} \ {Coming[1]}
      <4>1. \A d \in 1..V : Coming'[d] \in {Coming[e] : e \in 1..W} \ {Coming[1]}
        BY <1>7, <3>1, <3>2
      <4>2. ASSUME NEW e \in 1..W, Coming[e] # Coming[1]
            PROVE  Coming[e] \in {Coming'[d] : d \in 1..V}
        <5>1. e - 1 \in 1..V /\ (e - 1) + 1 = e
          BY <1>2, <3>1, <4>2
        <5> QED
          BY <3>1, <5>1
      <4> QED
        BY <4>1, <4>2
    <3> QED
      BY <1>5, <3>1, <3>2, <3>3, <3>4
  <2>2. CASE LastOfThePass
    <3>1. W = 1 /\ V = n /\ last' = Coming[1]
      BY <2>2 DEF LastOfThePass, W, V, n
    <3>2. StillToCome = {Coming[1]} /\ StillToCome' = {}
      BY <1>2, <1>5, <3>1
    <3> QED
      BY <3>1, <3>2
  <2>3. CASE FirstOfANewPass
    <3>1. PICK c : /\ W = 0 /\ V = n - 1 /\ Shuffled(c, members) /\ last' = c[1]
                   /\ \A i \in 1..V : Coming'[i] = c[i + 1]
      BY <2>3 DEF FirstOfANewPass, W, V, n
    <3>2. /\ \A i \in 1..n : c[i] \in members
          /\ \A p \in members : \E i \in 1..n : c[i] = p
          /\ \A i, j \in 1..n : i # j => c[i] # c[j]
      BY <1>2, <3>1, ShuffledHasAll DEF Shuffled, n
    <3>3. 1 \in 1..n /\ V # n /\ W # n /\ \A i \in 1..V : i + 1 \in 1..n /\ i + 1 # 1
      BY <1>2, <3>1
    <3>4. pass = members
      BY <1>5, <3>1, <3>3
    <3>5. {Coming'[d] : d \in 1..V} = members \ {c[1]}
      <4>1. \A d \in 1..V : Coming'[d] \in members \ {c[1]}
        BY <3>1, <3>2, <3>3
      <4>2. ASSUME NEW p \in members, p # c[1]
            PROVE  p \in {Coming'[d] : d \in 1..V}
        <5>1. PICK i \in 1..n : c[i] = p
          BY <3>2
        <5>2. i - 1 \in 1..V /\ (i - 1) + 1 = i
          BY <1>2, <3>1, <4>2, <5>1
        <5> QED
          BY <3>1, <5>1, <5>2
      <4> QED
        BY <4>1, <4>2
    <3> QED
      BY <1>5, <3>1, <3>2, <3>3, <3>4, <3>5
  <2> QED
    BY <1>1, <2>1, <2>2, <2>3, TurnCases
<1> QED
  BY <1>3, <1>4, <1>8 DEF Fair!Turn

LEMMA StepIsFair ==
  ASSUME IInv, [Next]_vars
  PROVE  [Fair!Next]_<<members, settled, last, StillToCome>>
<1>1. CASE TakeTurn
  <2>1. CASE settled
    <3>1. last' \in Players
      BY <1>1, TurnCases DEF IInv
    <3> QED
      BY <1>1, <2>1, <3>1, SettledTurnIsFair DEF Fair!Next
  <2>2. CASE ~ settled
    <3>1. settled' = FALSE
      BY <1>1, <2>2 DEF IInv, TypeOK, TakeTurn
    <3> QED
      BY <3>1 DEF Fair!Next, Fair!Unsettled
  <2> QED
    BY <2>1, <2>2
<1>2. CASE \E S \in Groups : Gather(S)
  BY <1>2 DEF Gather, Fair!Next, Fair!Unsettled
<1>3. CASE \E p \in Players : Expel(p)
  BY <1>3 DEF Expel, Fair!Next, Fair!Unsettled
<1>4. CASE Restart
  <2>1. Begun' /\ members' = members
    BY <1>4 DEF IInv, TypeOK, Restart, Begun
  <2>2. Begun' => Fair!Begun'
    BY BegunIsFair, PTL
  <2> QED
    BY <2>1, <2>2 DEF Fair!Next, Fair!BeginAnew
<1>5. CASE UNCHANGED vars
  BY <1>5 DEF vars, StillToCome
<1> QED
  BY <1>1, <1>2, <1>3, <1>4, <1>5 DEF Next

(***************************************************************************)
(* A group of any size that stays as it is takes turns in passes: each of  *)
(* its members once, in an order of its own, before anybody is on again    *)
(* (Next, refill).                                                         *)
(***************************************************************************)
THEOREM TurnsAreFair == Spec => ImplementsFairTurns
<1>1. Init => Fair!Init
  BY BegunIsFair DEF Init, Begun, Fair!Init
<1>2. IInv /\ [Next]_vars => [Fair!Next]_Fair!fairVars
  BY StepIsFair DEF Fair!fairVars
<1> QED
  BY <1>1, <1>2, SpecInv, PTL DEF Spec, ImplementsFairTurns, Fair!Spec
=============================================================================
