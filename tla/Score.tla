------------------------------- MODULE Score -------------------------------
(***************************************************************************)
(* Scoring of a round: server/internal/game/score.go, and the arithmetic   *)
(* of engine.go's reveal().  Coordinates are integers in percent of the    *)
(* board, so a distance is compared through its square: sqrt(d) <= Max     *)
(* holds exactly when d <= Max*Max for the integer band limits.  The       *)
(* colours of a band are left out.                                         *)
(***************************************************************************)
EXTENDS Integers, FiniteSets, Sequences

Point == [x : Int, y : Int]

\* PlaceGuess rejects a marker outside the board.
InBounds(p) == p.x \in 0..100 /\ p.y \in 0..100
Board == {p \in Point : InBounds(p)}

Square(n) == n * n
Distance2(a, b) == Square(a.x - b.x) + Square(a.y - b.y)

\* Sorted from the centre outwards; PointsFor relies on it.
ScoreBands == << [max |->  6, points |-> 4],
                 [max |-> 14, points |-> 3],
                 [max |-> 20, points |-> 2],
                 [max |-> 28, points |-> 1] >>

MaxPoints == 4

\* The first band wide enough for the distance decides.
PointsFor(d2) ==
  LET wide == {i \in 1..4 : d2 <= Square(ScoreBands[i].max)}
  IN  IF wide = {} THEN 0
      ELSE ScoreBands[CHOOSE i \in wide : \A j \in wide : i <= j].points

(***************************************************************************)
(* results is the set of the evaluated guesses of a round.  The code adds  *)
(* their points up one by one; here the sum is taken by value, which needs *)
(* no recursion: k points times the number of guesses that brought k.      *)
(***************************************************************************)
Scoring(results, k) == Cardinality({r \in results : r.points = k})

TotalPoints(results) ==
  Scoring(results, 1) + 2 * Scoring(results, 2) + 3 * Scoring(results, 3) + 4 * Scoring(results, 4)

\* Mutant: rounds down, as an integer division does.
TruncatedAverage(total, n) == total \div n

\* math.Round(total / n) for total >= 0: to the nearest integer, halves up.
RoundedAverage(total, n) == (2 * total + n) \div (2 * n)

\* The clue giver earns the rounded average of the group, 0 without guesses.
ClueGiverPoints(results) ==
  IF results = {} THEN 0 ELSE RoundedAverage(TotalPoints(results), Cardinality(results))
=============================================================================
