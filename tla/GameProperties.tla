--------------------------- MODULE GameProperties ---------------------------
(***************************************************************************)
(* What the game of a lobby promises, stated over the state of Game.       *)
(***************************************************************************)
EXTENDS Game

Phases == {"LOBBY", "HINT", "GUESS", "REVEAL"}
Running == phase \in {"HINT", "GUESS"}

AllNames == Names \cup {DefaultName, NoName}
Axes == [x : Pairs, y : Pairs]
Result == [playerId : PlayerIDs, name : AllNames, point : Board, points : 0..MaxPoints]
Entries ==
  [round : 1..MaxRounds, axes : Axes, hint : Hints \cup {NoHint}, clueGiver : AllNames,
   target : Board, results : SUBSET Result,
   clueGiverPoints : 0..MaxPoints]

TypeOK ==
  /\ phase \in Phases
  /\ round \in 0..MaxRounds
  /\ axes \in IF round = 0 THEN {NoAxes} ELSE Axes
  /\ target \in Board
  /\ hint \in Hints \cup {NoHint}
  /\ clueGiverID \in PlayerIDs \cup {NoPlayer}
  /\ players \in SUBSET PlayerIDs
  /\ name \in [PlayerIDs -> AllNames]
  /\ score \in [PlayerIDs -> Nat]
  /\ connected \in [PlayerIDs -> BOOLEAN]
  /\ guesses \in [PlayerIDs -> Board \cup {NoGuess}]
  /\ history \in Seq(Entries)
  /\ recent \in Seq(Pairs)
  /\ IsRotation(rotation, PlayerIDs)

-----------------------------------------------------------------------------
(***************************************************************************)
(* Roles.  While a round runs its clue giver is a known player who has no  *)
(* guess on the board, and every guess belongs to a known player; in the   *)
(* lobby phase there is neither a clue giver nor a guess (StartRound,      *)
(* PlaceGuess, RemovePlayer and Reset together).                           *)
(***************************************************************************)
RolesKept ==
  /\ Running => clueGiverID \in players
  /\ clueGiverID \notin Guessers(guesses)
  /\ Guessers(guesses) \subseteq players
  /\ phase = "LOBBY" => clueGiverID = NoPlayer
  /\ phase \in {"LOBBY", "HINT"} => Guessers(guesses) = {}

(***************************************************************************)
(* The only round that can wait for nobody is one without a guess: in the  *)
(* guessing phase, if there is a guess at all, some connected guesser's    *)
(* guess is missing (allGuessesIn is asked again after every guess and     *)
(* every departure).                                                       *)
(***************************************************************************)
NoCompleteRoundWaits == phase = "GUESS" => ~ AllGuessesIn(guesses, connected)

(***************************************************************************)
(* The history is sealed: its rounds are in order, each is there once, and *)
(* until a round is revealed it holds nothing of that round; after the     *)
(* reveal its last entry is the round on the board.  SnapshotFor sends the *)
(* whole history to everybody and the last entry as the results, so this   *)
(* is what keeps a target secret and the results those of this round.      *)
(***************************************************************************)
IsOrdered(h) == \A i, j \in DOMAIN h : i < j => h[i].round < h[j].round

LastIsCurrent(h) ==
  /\ h # <<>>
  /\ LET e == h[Len(h)]
     IN  e.round = round /\ e.target = target /\ e.axes = axes /\ e.hint = hint

HistorySealed ==
  /\ Len(history) <= HistoryLimit
  /\ IsOrdered(history)
  /\ \A i \in DOMAIN history : history[i].round <= round
  /\ Running => \A i \in DOMAIN history : history[i].round < round
  /\ phase = "REVEAL" => LastIsCurrent(history)

(***************************************************************************)
(* The scores and the history are one account: as long as no entry fell    *)
(* out of the history, the scores of all players add up to the points of   *)
(* all guesses and all clue givers in it (reveal books both; Reset and the *)
(* departures must keep them together).  It is about a served game, where  *)
(* nobody is removed and a started round ends revealed or reset.           *)
(***************************************************************************)
PointsPlaced(results) == SumFunction([r \in results |-> r.points])
EntryPoints(e) == PointsPlaced(e.results) + e.clueGiverPoints

ScoresMatchHistory ==
  (history = <<>> \/ history[1].round = 1)
    => SumFunction(score) = SumFunction([i \in DOMAIN history |-> EntryPoints(history[i])])

(***************************************************************************)
(* The bonus of a clue giver is never better than the best guess of the    *)
(* round nor worse than the worst (reveal: "der Hinweisgeber bekommt den   *)
(* Schnitt seiner Gruppe"), and it is the nearest integer to the average.  *)
(***************************************************************************)
BonusIsTheAverage ==
  \A i \in DOMAIN history :
    LET e   == history[i]
        n   == Cardinality(e.results)
        sum == PointsPlaced(e.results)
    IN  /\ n > 0
        /\ 2 * (n * e.clueGiverPoints - sum) \in (-n + 1)..n

(***************************************************************************)
(* Somebody else is announced as the next clue giver, a known player (the  *)
(* isNext badge of SnapshotFor).                                           *)
(***************************************************************************)
SomeoneElseIsNext ==
  phase # "LOBBY" => Upcoming(rotation) \in players \ {clueGiverID}

-----------------------------------------------------------------------------
(***************************************************************************)
(* Scores only move when a round is revealed, then nobody loses a point    *)
(* and nobody wins more than one guess or one bonus can bring; apart from  *)
(* that a score can only fall back to 0 (Reset, RemovePlayer).             *)
(***************************************************************************)
ScoreStep ==
  \A p \in PlayerIDs :
    \/ score'[p] = score[p] \/ score'[p] = 0
    \/ phase = "GUESS" /\ phase' = "REVEAL" /\ score'[p] \in score[p]..(score[p] + MaxPoints)

ScoresMoveAtReveal == [][ScoreStep]_vars

(***************************************************************************)
(* Once the hint is out the board is frozen: words, target, hint and clue  *)
(* giver of a round that guesses are placed in are those it is revealed    *)
(* with.                                                                   *)
(***************************************************************************)
BoardStep == phase = "GUESS" /\ phase' # "LOBBY" => UNCHANGED board

BoardFrozenWhileGuessing == [][BoardStep]_vars

(***************************************************************************)
(* The player announced as next gives the next hint.                       *)
(***************************************************************************)
NextStep == round' > round /\ Upcoming(rotation) # NoPlayer => clueGiverID' = Upcoming(rotation)

AnnouncedNextGoesNext == [][NextStep]_vars

(***************************************************************************)
(* Whoever is to give the hint of a new round is connected ("ein           *)
(* Hinweisgeber und ein Ratender", engine.go).                             *)
(***************************************************************************)
PresentStep == round' > round => connected'[clueGiverID']

ClueGiverIsPresent == [][PresentStep]_vars
=============================================================================
