-------------------------------- MODULE Deck --------------------------------
(***************************************************************************)
(* The deck of scales: server/internal/game/scales.go, Deck.  A pair of    *)
(* words is an element of Pairs and stands for its PairKey: which of its   *)
(* two words is printed on the left (orient) is left out.  recent is the   *)
(* sequence of the pairs played last, which Draw avoids.                   *)
(***************************************************************************)
EXTENDS Integers, SequencesExt

CONSTANTS
  Pairs,         \* the scales a deck may hold
  SharedWord,    \* the sets of two different pairs with a word in common
  RecentMemory   \* how many played pairs are remembered

\* ValidateScales asks for two different pairs, and at least one slot of memory.
ASSUME DeckAssumption ==
  /\ IsFiniteSet(Pairs) /\ Cardinality(Pairs) >= 2
  /\ \A w \in SharedWord : \E a, b \in Pairs : w = {a, b}
  /\ RecentMemory \in Nat

SharesWord(a, b) == a = b \/ {a, b} \in SharedWord

\* The pairs that are not blocked, or all of them when fewer than two are left.
Pool(deck, recent, alsoBlocked) ==
  LET free == deck \ (ToSet(recent) \cup alsoBlocked)
  IN  IF Cardinality(free) < 2 THEN deck ELSE free

\* Mutant: any other pair will do.
AnyPartners(pool, first) == pool \ {first}

\* The second axis: no word in common with the first if the pool allows it, else
\* any other pair.  The code's last resort, the same pair twice, needs a pool of
\* one pair and cannot occur.
Partners(pool, first) ==
  LET unrelated == {p \in pool : ~ SharesWord(p, first)}
  IN  IF unrelated = {} THEN pool \ {first} ELSE unrelated

\* Draw(): the pairs of axes the generator can produce.
DrawsFrom(deck, recent, alsoBlocked) ==
  LET pool == Pool(deck, recent, alsoBlocked)
  IN  UNION {{[x |-> first, y |-> second] : second \in Partners(pool, first)} : first \in pool}

Draws(recent, alsoBlocked) == DrawsFrom(Pairs, recent, alsoBlocked)

\* Mutant: keeps the oldest entries.
FirstN(s, n) == IF Len(s) > n THEN SubSeq(s, 1, n) ELSE s

\* Mutant: keeps one entry too many.
LastNAndOne(s, n) == IF Len(s) > n THEN SubSeq(s, Len(s) - n, Len(s)) ELSE s

LastN(s, n) == IF Len(s) > n THEN SubSeq(s, Len(s) - n + 1, Len(s)) ELSE s

\* Mutant: only remembers one axis.
RememberX(recent, axes) == LastN(recent \o <<axes.x>>, RecentMemory)

\* Remember(): the axes of a round are appended, the oldest entries fall out.
Remember(recent, axes) == LastN(recent \o <<axes.x, axes.y>>, RecentMemory)
=============================================================================
