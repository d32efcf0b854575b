------------------------------- MODULE Lobby -------------------------------
(***************************************************************************)
(* A lobby: server/internal/lobby/lobby.go.  It owns a game and the set of *)
(* the connections (clients) that are in it; a player may hold several.    *)
(* Join, Leave and Handle run under the lobby's mutex, so each is one      *)
(* action, and every change of the game is broadcast before the mutex is   *)
(* released.  frame is the state each connection was sent last; what       *)
(* happens to it on its way is the matter of the connection, not of the    *)
(* lobby.  A command that is refused, and a ping, are answered to their    *)
(* sender alone and leave the lobby as it is.  Logging is left out, of the *)
(* metrics only the number of rounds is kept.                              *)
(***************************************************************************)
EXTENDS View

CONSTANTS
  Clients,      \* connections
  PlayerOf,     \* the player ID of each connection
  MaxPlayers

ASSUME LobbyAssumption ==
  PlayerOf \in [Clients -> PlayerIDs] /\ MaxPlayers \in Nat \ {0}

\* A connection that was sent nothing.
NoFrame == [phase |-> "NONE"]

VARIABLES
  clients,      \* connections in the lobby
  frame,        \* the last state sent to each of them
  roundsTotal   \* the counter longwave_rounds_total

lobbyVars == <<vars, clients, frame, roundsTotal>>

LobbyInit ==
  /\ Init
  /\ clients = {}
  /\ frame = [c \in Clients |-> NoFrame]
  /\ roundsTotal = 0

\* Everybody gets a state of their own.
BroadcastTo(members) ==
  frame' = [c \in Clients |-> IF c \in members THEN SnapshotFor(GameState', PlayerOf[c]) ELSE NoFrame]

HasClientFor(p, members) == \E c \in members : PlayerOf[c] = p

\* Mutant: one player too many is let in.
JoinBeyond(c, n) ==
  /\ c \notin clients
  /\ PlayerOf[c] \in players \/ Cardinality(players) <= MaxPlayers
  /\ clients' = clients \cup {c}
  /\ AddPlayer(PlayerOf[c], n)
  /\ BroadcastTo(clients')
  /\ UNCHANGED roundsTotal

\* A known player may always come back, also into a full lobby.
HasRoomFor(p) == p \in players \/ Cardinality(players) < MaxPlayers

Join(c, n) ==
  /\ c \notin clients /\ HasRoomFor(PlayerOf[c])
  /\ clients' = clients \cup {c}
  /\ AddPlayer(PlayerOf[c], n)
  /\ BroadcastTo(clients')
  /\ UNCHANGED roundsTotal

\* Mutant: does not look for another tab.
LeaveAtOnce(c) ==
  /\ c \in clients
  /\ clients' = clients \ {c}
  /\ Disconnect(PlayerOf[c])
  /\ BroadcastTo(clients')
  /\ UNCHANGED roundsTotal

\* The player is only disconnected with the last of his connections.
Leave(c) ==
  LET others == clients \ {c}
  IN  /\ c \in clients
      /\ clients' = others
      /\ IF HasClientFor(PlayerOf[c], others) THEN UNCHANGED vars ELSE Disconnect(PlayerOf[c])
      /\ BroadcastTo(others)
      /\ UNCHANGED roundsTotal

\* recordRoundLocked(): a round that this command revealed is counted.
RecordRound == roundsTotal' = IF phase' = "REVEAL" THEN roundsTotal + 1 ELSE roundsTotal

\* The commands of a player; a revealing one is recorded.
PlainCommand(actor) ==
  \/ \E n \in Names \cup {NoName} : Rename(actor, n)
  \/ StartRound /\ roundsTotal < MaxRounds   \* the bound again: Reset restarts the rounds
  \/ RedrawScales(actor)
  \/ \E h \in Hints \cup {NoHint} : SubmitHint(actor, h)
  \/ Reset

GuessingCommand(actor) ==
  \/ \E p \in GuessPoints : PlaceGuess(actor, p)
  \/ Reveal(actor)

Handle(c) ==
  /\ c \in clients
  /\ \/ PlainCommand(PlayerOf[c]) /\ UNCHANGED roundsTotal
     \/ GuessingCommand(PlayerOf[c]) /\ RecordRound
  /\ BroadcastTo(clients)
  /\ UNCHANGED clients

LobbyNext ==
  \/ \E c \in Clients, n \in Names \cup {NoName} : Join(c, n)
  \/ \E c \in Clients : Leave(c)
  \/ \E c \in Clients : Handle(c)

LobbySpec == LobbyInit /\ [][LobbyNext]_lobbyVars

-----------------------------------------------------------------------------
LobbyTypeOK ==
  /\ TypeOK
  /\ clients \in SUBSET Clients
  /\ DOMAIN frame = Clients
  /\ roundsTotal \in Nat

(***************************************************************************)
(* A player counts as connected exactly as long as he holds a connection   *)
(* in this lobby, however often he reloads or opens a second tab.          *)
(***************************************************************************)
ConnectedIffClient ==
  \A p \in PlayerIDs : connected[p] <=> HasClientFor(p, clients)

\* Reconnects do not let a lobby outgrow MAX_PLAYERS.
NotOverfull == Cardinality(players) <= MaxPlayers

(***************************************************************************)
(* Nobody can copy: until the reveal a guesser is sent the same, wherever  *)
(* the target is and wherever the others have put their markers (view.go:  *)
(* "Fremde Tipps bleiben bis zum Aufdecken ebenfalls verborgen, damit      *)
(* niemand abschreibt").                                                   *)
(***************************************************************************)
OtherPlacements(viewer) ==
  {g \in [PlayerIDs -> (GuessPoints \cap Board) \cup {NoGuess}] :
     /\ g[viewer] = guesses[viewer]
     /\ \A p \in PlayerIDs : g[p] = NoGuess <=> guesses[p] = NoGuess}

GuessersAreBlind ==
  \A c \in clients :
    IsBlind(GameState, PlayerOf[c]) =>
      \A t \in GuessPoints, g \in OtherPlacements(PlayerOf[c]) :
        frame[c] = SnapshotFor([GameState EXCEPT !.target = t, !.guesses = g], PlayerOf[c])

(***************************************************************************)
(* Every round that is played to its end is counted, and once (metrics.go: *)
(* "Vollstaendig gespielte und ausgewertete Runden").                      *)
(***************************************************************************)
CountStep == phase # "REVEAL" /\ phase' = "REVEAL" => roundsTotal' = roundsTotal + 1
EveryRoundIsCounted == [][CountStep]_lobbyVars
=============================================================================
