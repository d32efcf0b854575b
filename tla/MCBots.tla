------------------------------- MODULE MCBots -------------------------------
(***************************************************************************)
(* Two to four bots and a server that takes three players.                 *)
(***************************************************************************)
EXTENDS Bots

CONSTANTS a, b, p1, p2, p3, p4

MCPairs == {a, b}
MCClients == 1..4
MCPlayerOf == <<p1, p2, p3, p4>>

Corner == [x |-> 10, y |-> 89]
MCTargets == {Corner}

\* The second guesser may miss the board.
MCStrays == <<{4}, {-13, 13}, {0}, {0}>>

MCGuessPoints == [x : 0..100, y : 0..100]
=============================================================================
