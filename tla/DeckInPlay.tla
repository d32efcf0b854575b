----------------------------- MODULE DeckInPlay -----------------------------
(***************************************************************************)
(* A Deck in use: the server process has loaded it, and StartRound,        *)
(* RedrawScales and Reset of a game call it.  played holds the axes of the *)
(* rounds that ended last.                                                 *)
(***************************************************************************)
EXTENDS Deck, Startup

CONSTANT NoPair

\* Pairs has room for every scale file a server accepts.
ASSUME PlayAssumption ==
  /\ NoPair \notin Pairs
  /\ \A file \in {EmbeddedScales} \cup {l.mounted : l \in Launches} :
       file \notin {NoPath, Unreadable} /\ AreValidScales(ScalesOf(file)) =>
         \A i \in DOMAIN file : PairKey(AsPair(file[i])) \in Pairs

\* Rounds whose axes are remembered in full.
RememberedRounds == RecentMemory \div 2

VARIABLES recent, axes, redrawn, played

playVars == <<recent, axes, redrawn, played>>
vars == <<processVars, playVars>>

NoAxes == [x |-> NoPair, y |-> NoPair]

Init == ProcessInit /\ recent = <<>> /\ axes = NoAxes /\ redrawn = {} /\ played = <<>>

\* A new round: the axes of the last one are blocked before the draw.
Deal ==
  /\ stage = "serving"
  /\ recent' = IF axes = NoAxes THEN recent ELSE Remember(recent, axes)
  /\ played' = IF axes = NoAxes THEN played ELSE LastN(Append(played, axes), RememberedRounds)
  /\ axes' \in DrawsFrom(deck, recent', {})
  /\ redrawn' = {}
  /\ UNCHANGED processVars

\* Other words for the same round.
Redraw ==
  /\ stage = "serving" /\ axes # NoAxes
  /\ axes' \in DrawsFrom(deck, recent, {axes.x, axes.y})
  /\ redrawn' = {axes.x, axes.y}
  /\ UNCHANGED <<processVars, recent, played>>

\* A reset forgets the axes but not what the deck remembers.
Restart ==
  /\ stage = "serving"
  /\ axes' = NoAxes
  /\ redrawn' = {}
  /\ UNCHANGED <<processVars, recent, played>>

\* The process runs on; what a game holds is lost when it ends.
Process ==
  /\ ProcessNext
  /\ IF stage' = "exited"
     THEN recent' = <<>> /\ axes' = NoAxes /\ redrawn' = {} /\ played' = <<>>
     ELSE UNCHANGED playVars

Next == Process \/ Deal \/ Redraw \/ Restart

Spec == Init /\ [][Next]_vars

-----------------------------------------------------------------------------
TypeOK ==
  /\ stage \in {"starting", "serving", "draining", "exited"}
  /\ status \in {"running", "ok", "failed"}
  /\ ready <=> stage = "serving"
  /\ deck \subseteq Pairs
  /\ recent \in Seq(deck) /\ Len(recent) <= RecentMemory
  /\ axes \in [x : deck, y : deck] \cup {NoAxes}
  /\ redrawn \in SUBSET deck
  /\ played \in Seq([x : deck, y : deck])

AxisPairs == {axes.x, axes.y}

\* A deck that never runs out of fresh pairs, not even for a second draw.
IsAmple == Cardinality(deck) >= RecentMemory + 4

(***************************************************************************)
(* With an ample deck the words on the board are none of the rounds played *)
(* last, whole rounds of them, and a redraw changes both pairs of words    *)
(* (Remember, Draw).                                                       *)
(***************************************************************************)
FreshWords ==
  IsAmple /\ axes # NoAxes =>
    /\ AxisPairs \cap redrawn = {}
    /\ \A i \in DOMAIN played : AxisPairs \cap {played[i].x, played[i].y} = {}

\* Whatever is blocked, each pair has an unrelated one left.
IsVaried ==
  \A p \in deck :
    Cardinality({q \in deck : SharesWord(p, q)}) + RecentMemory + 2 < Cardinality(deck)

(***************************************************************************)
(* The two axes are never the same pair, with any scale file a server      *)
(* accepts, and never share a word if the deck is varied (sharesWord, and  *)
(* the fallbacks of Draw).                                                 *)
(***************************************************************************)
AxesUnrelated ==
  axes # NoAxes => axes.x # axes.y /\ (IsVaried => ~ SharesWord(axes.x, axes.y))
=============================================================================
