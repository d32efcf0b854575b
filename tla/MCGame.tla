------------------------------- MODULE MCGame -------------------------------
(***************************************************************************)
(* Small instances of Game.                                                *)
(***************************************************************************)
EXTENDS GameProperties, TLC

CONSTANTS a, b

MCPairs == {a, b}

Centre == [x |-> 50, y |-> 50]
Near   == [x |-> 50, y |-> 60]     \* distance 10: 3 points
Off    == [x |-> 50, y |-> 101]    \* not on the board

MCGuessPoints == {Centre, Near, Off}
MCTargets == {Centre}

Symmetry == Permutations(PlayerIDs)
=============================================================================
