------------------------------ MODULE MCLobby ------------------------------
(***************************************************************************)
(* A small instance of Lobby: c1 and c2 are two tabs of the same player.   *)
(***************************************************************************)
EXTENDS Lobby

CONSTANTS a, b, p1, p2, p3, p4, c1, c2, c3, c4, c5

MCPairs == {a, b}
MCPlayerOf == (c1 :> p1) @@ (c2 :> p1) @@ (c3 :> p2) @@ (c4 :> p3) @@ (c5 :> p4)

Centre == [x |-> 50, y |-> 50]
Far    == [x |-> 10, y |-> 10]

MCTargets == {Centre}
MCGuessPoints == {Centre, Far}

\* The players with one tab are interchangeable, together with their tabs.
Single == <<p2, p3, p4>>
Tab    == <<c3, c4, c5>>
Swapped(s, v) == IF v \in ToSet(Single) THEN Single[s[CHOOSE i \in 1..3 : Single[i] = v]]
                 ELSE Tab[s[CHOOSE i \in 1..3 : Tab[i] = v]]
Symmetry == {[v \in ToSet(Single) \cup ToSet(Tab) |-> Swapped(s, v)] : s \in Permutations(1..3)}
=============================================================================
