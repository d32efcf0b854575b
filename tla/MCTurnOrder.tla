---------------------------- MODULE MCTurnOrder ----------------------------
(***************************************************************************)
(* Small instances of TurnOrder.                                           *)
(***************************************************************************)
EXTENDS TurnOrder

Symmetry == Permutations(Players)
=============================================================================
