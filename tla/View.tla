-------------------------------- MODULE View --------------------------------
(***************************************************************************)
(* What a player gets to see: server/internal/game/view.go.  The state of  *)
(* the game is cut down for each receiver; a field that is left out of the *)
(* message is Absent.  Left out: the lobby code, MinPlayers and the score  *)
(* bands, which are the same in every snapshot of a lobby.                 *)
(***************************************************************************)
EXTENDS GameProperties

CONSTANT Absent

ASSUME ViewAssumption == Absent \notin Board

GameState ==
  [phase |-> phase, round |-> round, axes |-> axes, target |-> target, hint |-> hint,
   clueGiverID |-> clueGiverID, players |-> players, name |-> name, score |-> score,
   connected |-> connected, guesses |-> guesses, history |-> history, rotation |-> rotation]

\* Mutant: shown to everybody once the hint is out.
MaySeeTargetEarly(g, viewer) == g.phase \in {"GUESS", "REVEAL"} \/ viewer = g.clueGiverID

MaySeeTarget(g, viewer) ==
  \/ g.phase = "REVEAL"
  \/ g.phase \in {"HINT", "GUESS"} /\ viewer # NoPlayer /\ viewer = g.clueGiverID

PlayerView(g, p, viewer) ==
  [name |-> g.name[p], score |-> g.score[p], connected |-> g.connected[p],
   isClueGiver |-> p = g.clueGiverID /\ g.phase # "LOBBY",
   isNext |-> p = Upcoming(g.rotation) /\ g.phase # "LOBBY",
   hasGuessed |-> g.guesses[p] # NoGuess,
   isYou |-> p = viewer]

\* The results of the round on the board are those of the last entry.
Shown(g) == g.phase = "REVEAL" /\ g.history # <<>>

SnapshotFor(g, viewer) ==
  [phase |-> g.phase, round |-> g.round,
   axes |-> IF g.phase # "LOBBY" THEN g.axes ELSE Absent,
   hint |-> g.hint,
   clueGiverID |-> g.clueGiverID,
   you |-> viewer,
   youAreClueGiver |-> viewer # NoPlayer /\ viewer = g.clueGiverID,
   target |-> IF MaySeeTarget(g, viewer) THEN g.target ELSE Absent,
   yourGuess |-> IF g.guesses[viewer] # NoGuess THEN g.guesses[viewer] ELSE Absent,
   players |-> [p \in g.players |-> PlayerView(g, p, viewer)],
   pending |-> Cardinality(PendingGuessers(g.guesses, g.connected, g.clueGiverID)),
   results |-> IF Shown(g) THEN g.history[Len(g.history)].results ELSE Absent,
   clueGiverPoints |-> IF Shown(g) THEN g.history[Len(g.history)].clueGiverPoints ELSE 0,
   history |-> g.history]

-----------------------------------------------------------------------------
(***************************************************************************)
(* Two states of a running round are alike for a guesser when they differ  *)
(* at most in the target and in where the others have put their markers.   *)
(***************************************************************************)
AlikeFor(viewer, g, h) ==
  /\ h.guesses[viewer] = g.guesses[viewer]
  /\ \A p \in PlayerIDs : h.guesses[p] = NoGuess <=> g.guesses[p] = NoGuess
  /\ h = [g EXCEPT !.target = h.target, !.guesses = h.guesses]

\* A round that still runs, seen by someone who does not give the hint.
IsBlind(g, viewer) == g.phase # "REVEAL" /\ viewer # g.clueGiverID
=============================================================================
