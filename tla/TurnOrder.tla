----------------------------- MODULE TurnOrder -----------------------------
(***************************************************************************)
(* A Rotation in use: turns are taken by a group whose members come and    *)
(* go, or are removed from the order.  wait counts, for each member, the   *)
(* turns others had since its own last turn or since it joined; removals   *)
(* counts who was removed since the order was begun, less the turns that   *)
(* repeated the one before.                                                *)
(***************************************************************************)
EXTENDS Rotation

CONSTANTS Players, MaxRemovals   \* MaxRemovals: bound, removals that are open at a time

ASSUME PlayersAssumption ==
  IsFiniteSet(Players) /\ NoPlayer \notin Players /\ MaxRemovals \in Nat

VARIABLES rotation, members, settled, last, wait, removals

vars == <<rotation, members, settled, last, wait, removals>>

Groups == {S \in SUBSET Players : Cardinality(S) >= 2}

Init ==
  /\ rotation = NewRotation
  /\ members \in Groups
  /\ settled = TRUE
  /\ last = NoPlayer
  /\ wait = [p \in Players |-> 0]
  /\ removals = 0

TakeTurn ==
  /\ \E turn \in Turns(rotation, members) :
       last' = turn.player /\ rotation' = turn.rotation
  /\ wait' = [p \in Players |-> IF p \in members \ {last'} THEN wait[p] + 1 ELSE 0]
  /\ removals' = IF last' = last /\ removals > 0 THEN removals - 1 ELSE removals
  /\ UNCHANGED <<members, settled>>

\* Players come and go; the order is not told.
Gather(S) ==
  /\ S # members
  /\ members' = S
  /\ settled' = FALSE
  /\ wait' = [p \in Players |-> IF p \in S THEN wait[p] ELSE 0]
  /\ UNCHANGED <<rotation, last, removals>>

\* RemovePlayer() takes a player out of the order too.
Expel(p) ==
  /\ members \ {p} \in Groups
  /\ removals < MaxRemovals
  /\ members' = members \ {p}
  /\ settled' = FALSE
  /\ rotation' = Without(rotation, p)
  /\ wait' = [wait EXCEPT ![p] = 0]
  /\ removals' = removals + 1
  /\ UNCHANGED last

Restart ==
  /\ rotation' = NewRotation
  /\ settled' = TRUE
  /\ last' = NoPlayer
  /\ wait' = [p \in Players |-> 0]
  /\ removals' = 0
  /\ UNCHANGED members

Next ==
  \/ TakeTurn
  \/ \E S \in Groups : Gather(S)
  \/ \E p \in Players : Expel(p)
  \/ Restart

Spec == Init /\ [][Next]_vars

-----------------------------------------------------------------------------
TypeOK ==
  /\ IsRotation(rotation, Players)
  /\ members \in Groups
  /\ settled \in BOOLEAN
  /\ last \in Players \cup {NoPlayer}
  /\ wait \in [Players -> Nat]
  /\ removals \in 0..MaxRemovals

\* The stream stays short: refills and trimming bound what is kept.
StreamBounded ==
  /\ rotation.index <= OrderTrimThreshold + 1
  /\ Waiting(rotation) <= Cardinality(Players)

\* Nobody who stays is passed over for long, whoever comes, goes or is removed
\* meanwhile: all others are on at most twice, once before and once after the passes
\* meet.
NobodyStarves ==
  \A p \in members : wait[p] <= 2 * (Cardinality(Players) - 1)

(***************************************************************************)
(* Nobody is on twice in a row, whoever comes and goes meanwhile.  Only    *)
(* taking a player out of the order can bring two entries of another       *)
(* together where two passes meet, and one removal brings one such pair.   *)
(***************************************************************************)
NeverTwiceInARow == [][TakeTurn /\ last' = last => removals > 0]_vars

(***************************************************************************)
(* The rotation implements FairTurns: of a settled group, the pass in      *)
(* progress has left whoever still waits in the stream, unless a whole new *)
(* pass waits there.                                                       *)
(***************************************************************************)
StillToCome ==
  IF Waiting(rotation) = Cardinality(members) THEN {} ELSE ToSet(ToCome(rotation))

Fair == INSTANCE FairTurns WITH Nobody <- NoPlayer, group <- members, left <- StillToCome
ImplementsFairTurns == Fair!Spec
=============================================================================
