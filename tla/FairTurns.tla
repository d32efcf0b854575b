----------------------------- MODULE FairTurns -----------------------------
(***************************************************************************)
(* What the turn order promises to a group: as long as nobody comes or     *)
(* goes, each of them gives exactly one hint in every pass, in an order    *)
(* nobody can foresee, and nobody is on twice in a row, not even from one  *)
(* pass to the next (rotation.go: "jeder Spieler pro Durchgang genau       *)
(* einmal dran", "Verhindert, dass jemand am Durchgangswechsel zweimal     *)
(* hintereinander drankommt").  A change of the group ends the promise;    *)
(* beginning the order anew renews it.                                     *)
(***************************************************************************)
CONSTANTS Players, Nobody

VARIABLES
  group,     \* who takes turns
  settled,   \* nobody has come or gone since the order was begun
  last,      \* who gave the last hint
  left       \* who has yet to be on in the current pass

fairVars == <<group, settled, last, left>>

Begun == settled = TRUE /\ last = Nobody /\ left = {}

Init == group \in SUBSET Players /\ Begun

Turn(p) ==
  /\ settled
  /\ p # last
  /\ p \in IF left = {} THEN group ELSE left
  /\ last' = p
  /\ left' = (IF left = {} THEN group ELSE left) \ {p}
  /\ UNCHANGED <<group, settled>>

BeginAnew == Begun' /\ UNCHANGED group

\* Nothing is promised here of a group that changes, or has changed.
Unsettled == settled' = FALSE

Next == (\E p \in Players : Turn(p)) \/ BeginAnew \/ Unsettled

Spec == Init /\ [][Next]_fairVars
=============================================================================
