------------------------------ MODULE Rotation ------------------------------
(***************************************************************************)
(* The turn order of a lobby: server/internal/game/rotation.go.            *)
(*                                                                         *)
(* A rotation is a record: a stream of player IDs and the number of them   *)
(* that have had their turn.  Its operations are random, so each is the    *)
(* set of the results the generator can produce.                           *)
(***************************************************************************)
EXTENDS Integers, SequencesExt

CONSTANTS
  NoPlayer,             \* the empty ID
  OrderTrimThreshold    \* consumed entries tolerated before they are dropped

ASSUME TrimAssumption == OrderTrimThreshold \in Nat

\* Mutant: counts the turns from 1.
RotationFromOne == [order |-> <<>>, index |-> 1]

NewRotation == [order |-> <<>>, index |-> 0]

\* Entries whose turn is still to come.
Waiting(r) == Len(r.order) - r.index

\* Mutant: does not look at the end of the stream.
BlindPasses(r, ids) == SetToSeqs(ids)

\* The passes a shuffle can append: every ID once.  When the shuffle starts with
\* the ID the stream ends with, its head is swapped with a random later entry,
\* which yields the permutations with another head and no more.
Passes(r, ids) ==
  {c \in SetToSeqs(ids) :
     Cardinality(ids) > 1 /\ r.order # <<>> => c[1] # Last(r.order)}

\* Mutant: the new pass replaces what waits in the stream.
RefilledAfresh(r, ids) ==
  {[order |-> SubSeq(r.order, 1, r.index) \o c, index |-> r.index] : c \in Passes(r, ids)}

Refilled(r, ids) ==
  {[order |-> r.order \o c, index |-> r.index] : c \in Passes(r, ids)}

\* Mutant: never drops anything.
Untrimmed(r) == r

\* Mutant: drops one entry too many.
TrimmedTooFar(r) ==
  IF r.index > OrderTrimThreshold
  THEN [order |-> SubSeq(r.order, r.index + 2, Len(r.order)), index |-> 0]
  ELSE r

Trimmed(r) ==
  IF r.index > OrderTrimThreshold
  THEN [order |-> SubSeq(r.order, r.index + 1, Len(r.order)), index |-> 0]
  ELSE r

\* ensure() is only reached with two IDs or more, so one refill is enough and
\* its loop never turns twice.
Ensured(r, ids) ==
  {Trimmed(q) : q \in IF Waiting(r) < 2 THEN Refilled(r, ids) ELSE {r}}

Advance(r) == [player |-> r.order[r.index + 1], rotation |-> [r EXCEPT !.index = @ + 1]]

\* Next(): whose turn it is and the rotation afterwards.  The stream may have been
\* filled for other players: ids only matters when it is refilled.
Turns(r, ids) ==
  IF Cardinality(ids) < 2
  THEN {[player |-> p, rotation |-> r] : p \in IF ids = {} THEN {NoPlayer} ELSE ids}
  ELSE {Advance(q) : q \in Ensured(r, ids)}

Upcoming(r) == IF Waiting(r) <= 0 THEN NoPlayer ELSE r.order[r.index + 1]

Played(r)  == SubSeq(r.order, 1, r.index)
ToCome(r)  == SubSeq(r.order, r.index + 1, Len(r.order))

\* The entries of s but those of id, in their order.  The k-th of them is the one with k
\* kept positions up to its own; Remove() of SequencesExt computes the same by recursion.
Rank(P, i) == Cardinality({j \in P : j <= i})
Kept(s, id) ==
  LET P == {i \in DOMAIN s : s[i] # id}
  IN  [k \in 1..Cardinality(P) |-> s[CHOOSE i \in P : Rank(P, i) = k]]

\* Mutant: forgets to move the index back.
WithoutKeepingIndex(r, id) ==
  [order |-> Kept(Played(r), id) \o Kept(ToCome(r), id), index |-> r.index]

Without(r, id) ==
  [order |-> Kept(Played(r), id) \o Kept(ToCome(r), id), index |-> Len(Kept(Played(r), id))]

-----------------------------------------------------------------------------
\* What every rotation of IDs taken from S looks like.
IsRotation(r, S) ==
  /\ r \in [order : Seq(S), index : Nat]
  /\ r.index <= Len(r.order)
=============================================================================
