-------------------------------- MODULE Game --------------------------------
(***************************************************************************)
(* The game of one lobby: server/internal/game/engine.go.  A Game is not   *)
(* safe for concurrent use; the lobby calls it under its lock, so each     *)
(* exported method is one atomic action.  A method that returns an error   *)
(* changes nothing: its conditions are the guards of its action.           *)
(*                                                                         *)
(* The map of players is the set of known players and total functions on   *)
(* PlayerIDs that have a fixed value for an unknown one; the map of        *)
(* guesses is a total function that is NoGuess where the map has no entry. *)
(* Left out: durations, and the join sequence, which orders lists for      *)
(* display and numbers the default names (all of them are DefaultName).    *)
(***************************************************************************)
EXTENDS Score, Rotation, Deck

CONSTANTS
  PlayerIDs,
  Names, DefaultName, NoName,   \* what sanitizeName leaves; NoName if nothing
  Hints, NoHint,                \* hints after trimming and truncation; the empty one is accepted
  NoPair,                       \* the zero value of an axis
  NoGuess,
  Targets,                      \* where targets are rolled
  GuessPoints,                  \* the points clients send, valid or not
  HistoryLimit,
  MaxRounds                     \* bound: no round is started after this one

ASSUME GameAssumption ==
  /\ IsFiniteSet(PlayerIDs) /\ NoPlayer \notin PlayerIDs
  /\ NoName \notin Names \cup {DefaultName}
  /\ NoGuess \notin Point
  /\ GuessPoints \subseteq Point
  \* A margin of 10 % keeps the target out of the corners.
  /\ Targets \subseteq [x : 10..89, y : 10..89] /\ Targets # {}
  /\ HistoryLimit \in Nat \ {0} /\ MaxRounds \in Nat

MinPlayers == 2

VARIABLES
  phase, round, axes, target, hint, clueGiverID,
  players, name, score, connected,
  guesses, history,
  recent,       \* the deck's memory
  rotation

board == <<round, axes, target, hint, clueGiverID>>
deal  == <<recent, rotation>>
vars  == <<phase, board, players, name, score, connected, guesses, history, deal>>

NoGuesses == [p \in PlayerIDs |-> NoGuess]
NoAxes    == [x |-> NoPair, y |-> NoPair]

Init ==
  /\ phase = "LOBBY"
  /\ round = 0
  /\ axes = NoAxes
  /\ target = [x |-> 0, y |-> 0]
  /\ hint = NoHint
  /\ clueGiverID = NoPlayer
  /\ players = {}
  /\ name = [p \in PlayerIDs |-> NoName]
  /\ score = [p \in PlayerIDs |-> 0]
  /\ connected = [p \in PlayerIDs |-> FALSE]
  /\ guesses = NoGuesses
  /\ history = <<>>
  /\ recent = <<>>
  /\ rotation = NewRotation

ConnectedIDs == {p \in players : connected[p]}

-----------------------------------------------------------------------------
(***************************************************************************)
(* Evaluation of a round.                                                  *)
(***************************************************************************)
Guessers(g) == {p \in PlayerIDs : g[p] # NoGuess}

\* Connected players, the clue giver aside, whose guess is missing.
PendingGuessers(g, conn, giver) ==
  {p \in PlayerIDs : conn[p] /\ p # giver /\ g[p] = NoGuess}

AllGuessesIn(g, conn) == Guessers(g) # {} /\ PendingGuessers(g, conn, clueGiverID) = {}

PointsOf(g, p) == PointsFor(Distance2(target, g[p]))

ResultsOf(g) ==
  {[playerId |-> p, name |-> name[p], point |-> g[p], points |-> PointsOf(g, p)] : p \in Guessers(g)}

\* Mutant: the clue giver earns the points of the whole group.
GainOfTheGroup(g, p) ==
  (IF p \in Guessers(g) THEN PointsOf(g, p) ELSE 0)
    + (IF p = clueGiverID /\ p \in players THEN TotalPoints(ResultsOf(g)) ELSE 0)

\* Mutant: the bonus is shown but not booked.
GainWithoutBonus(g, p) == IF p \in Guessers(g) THEN PointsOf(g, p) ELSE 0

\* What the round adds to the score of p.
Gain(g, p) ==
  (IF p \in Guessers(g) THEN PointsOf(g, p) ELSE 0)
    + (IF p = clueGiverID /\ p \in players THEN ClueGiverPoints(ResultsOf(g)) ELSE 0)

Entry(g) ==
  [round |-> round, axes |-> axes, hint |-> hint,
   clueGiver |-> IF clueGiverID \in players THEN name[clueGiverID] ELSE NoName,
   target |-> target, results |-> ResultsOf(g),
   clueGiverPoints |-> ClueGiverPoints(ResultsOf(g))]

\* reveal(), given the guesses and the scores as the calling method left them.
RevealRound(g, scores) ==
  /\ phase' = "REVEAL"
  /\ score' = [p \in PlayerIDs |-> scores[p] + Gain(g, p)]
  /\ history' = LastN(Append(history, Entry(g)), HistoryLimit)

\* Mutant: a departure reveals nothing.
NoAutoReveal(g, conn, scores) == score' = scores /\ UNCHANGED <<phase, history>>

\* maybeAutoReveal(): a departure can leave the round complete.
MaybeAutoReveal(g, conn, scores) ==
  IF phase = "GUESS" /\ AllGuessesIn(g, conn)
  THEN RevealRound(g, scores)
  ELSE score' = scores /\ UNCHANGED <<phase, history>>

-----------------------------------------------------------------------------
(***************************************************************************)
(* Players.                                                                *)
(***************************************************************************)

\* A known player is only marked connected again and keeps the old name when the
\* new one is empty.
AddPlayer(id, n) ==
  /\ players' = players \cup {id}
  /\ connected' = [connected EXCEPT ![id] = TRUE]
  /\ name' = [name EXCEPT ![id] = IF n # NoName THEN n
                                  ELSE IF id \in players THEN @ ELSE DefaultName]
  /\ UNCHANGED <<phase, board, score, guesses, history, deal>>

Rename(id, n) ==
  /\ id \in players
  /\ name' = [name EXCEPT ![id] = IF n # NoName THEN n ELSE @]
  /\ UNCHANGED <<phase, board, players, score, connected, guesses, history, deal>>

Disconnect(id) ==
  LET conn == [connected EXCEPT ![id] = FALSE]
  IN  /\ connected' = conn
      /\ MaybeAutoReveal(guesses, conn, score)
      /\ UNCHANGED <<board, players, name, guesses, deal>>

\* Mutant: the guesses stay on the board.
AbandonKeepingGuesses(scores) ==
  /\ phase' = "LOBBY"
  /\ clueGiverID' = NoPlayer
  /\ score' = scores
  /\ UNCHANGED <<guesses, history>>

\* Without its clue giver an open round cannot be played on.
AbandonRound(scores) ==
  /\ phase' = "LOBBY"
  /\ clueGiverID' = NoPlayer
  /\ guesses' = NoGuesses
  /\ score' = scores
  /\ UNCHANGED history

RemovePlayer(id) ==
  LET conn   == [connected EXCEPT ![id] = FALSE]
      scores == [score EXCEPT ![id] = 0]
      left   == [guesses EXCEPT ![id] = NoGuess]
  IN  /\ players' = players \ {id}
      /\ name' = [name EXCEPT ![id] = NoName]
      /\ connected' = conn
      /\ rotation' = Without(rotation, id)
      /\ IF clueGiverID = id /\ phase # "REVEAL"
         THEN AbandonRound(scores)
         ELSE /\ guesses' = left
              /\ MaybeAutoReveal(left, conn, scores)
              /\ UNCHANGED clueGiverID
      /\ UNCHANGED <<round, axes, target, hint, recent>>

-----------------------------------------------------------------------------
(***************************************************************************)
(* Rounds.                                                                 *)
(***************************************************************************)

\* The conditions under which a command is not an error.
MayStart == phase \in {"LOBBY", "REVEAL"} /\ Cardinality(ConnectedIDs) >= MinPlayers

MayHint(actor) == phase = "HINT" /\ actor = clueGiverID

MayGuess(actor, point) ==
  /\ phase = "GUESS"
  /\ actor # clueGiverID
  /\ actor \in players /\ connected[actor]
  /\ InBounds(point)

StartRound ==
  /\ MayStart
  /\ round < MaxRounds
  /\ recent' = IF round > 0 THEN Remember(recent, axes) ELSE recent
  /\ round' = round + 1
  /\ \E turn \in Turns(rotation, ConnectedIDs) :
       clueGiverID' = turn.player /\ rotation' = turn.rotation
  /\ axes' \in Draws(recent', {})
  /\ target' \in Targets
  /\ hint' = NoHint
  /\ guesses' = NoGuesses
  /\ phase' = "HINT"
  /\ UNCHANGED <<players, name, score, connected, history>>

\* Mutant: also while the others guess.
RedrawAnytime(actor) ==
  /\ phase \in {"HINT", "GUESS"}
  /\ actor = clueGiverID
  /\ axes' \in Draws(recent, {axes.x, axes.y})
  /\ UNCHANGED <<phase, round, target, hint, clueGiverID>>
  /\ UNCHANGED <<players, name, score, connected, guesses, history, deal>>

\* New words; the target stays where it is.
RedrawScales(actor) ==
  /\ MayHint(actor)
  /\ axes' \in Draws(recent, {axes.x, axes.y})
  /\ UNCHANGED <<phase, round, target, hint, clueGiverID>>
  /\ UNCHANGED <<players, name, score, connected, guesses, history, deal>>

SubmitHint(actor, h) ==
  /\ MayHint(actor)
  /\ hint' = h
  /\ phase' = "GUESS"
  /\ UNCHANGED <<round, axes, target, clueGiverID>>
  /\ UNCHANGED <<players, name, score, connected, guesses, history, deal>>

\* Sets or moves the marker of a guesser and reveals once all of them are set.
PlaceGuess(actor, point) ==
  LET placed == [guesses EXCEPT ![actor] = point]
  IN  /\ MayGuess(actor, point)
      /\ guesses' = placed
      /\ IF AllGuessesIn(placed, connected)
         THEN RevealRound(placed, score)
         ELSE UNCHANGED <<phase, score, history>>
      /\ UNCHANGED <<board, players, name, connected, deal>>

\* The clue giver may reveal early, but not without a guess.
Reveal(actor) ==
  /\ phase = "GUESS"
  /\ actor = clueGiverID
  /\ Guessers(guesses) # {}
  /\ RevealRound(guesses, score)
  /\ UNCHANGED <<board, players, name, connected, guesses, deal>>

\* Mutant: the words stay.
ResetKeepingAxes ==
  /\ score' = [p \in PlayerIDs |-> 0]
  /\ phase' = "LOBBY"
  /\ round' = 0
  /\ hint' = NoHint
  /\ clueGiverID' = NoPlayer
  /\ guesses' = NoGuesses
  /\ history' = <<>>
  /\ rotation' = NewRotation
  /\ UNCHANGED <<axes, target, players, name, connected, recent>>

\* The players stay; the target keeps its last value and the deck its memory.
Reset ==
  /\ score' = [p \in PlayerIDs |-> 0]
  /\ phase' = "LOBBY"
  /\ round' = 0
  /\ hint' = NoHint
  /\ clueGiverID' = NoPlayer
  /\ axes' = NoAxes
  /\ guesses' = NoGuesses
  /\ history' = <<>>
  /\ rotation' = NewRotation
  /\ UNCHANGED <<target, players, name, connected, recent>>

-----------------------------------------------------------------------------
\* What a lobby calls.
ServedNext ==
  \/ \E id \in PlayerIDs, n \in Names \cup {NoName} : AddPlayer(id, n)
  \/ \E id \in PlayerIDs, n \in Names \cup {NoName} : Rename(id, n)
  \/ \E id \in PlayerIDs : Disconnect(id)
  \/ StartRound
  \/ \E id \in PlayerIDs : RedrawScales(id)
  \/ \E id \in PlayerIDs, h \in Hints \cup {NoHint} : SubmitHint(id, h)
  \/ \E id \in PlayerIDs, p \in GuessPoints : PlaceGuess(id, p)
  \/ \E id \in PlayerIDs : Reveal(id)
  \/ Reset

\* RemovePlayer is exported too, but no caller in the server uses it.
Next == ServedNext \/ \E id \in PlayerIDs : RemovePlayer(id)

ServedSpec == Init /\ [][ServedNext]_vars
Spec       == Init /\ [][Next]_vars
=============================================================================
