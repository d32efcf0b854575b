----------------------------- MODULE LobbyProofs -----------------------------
(***************************************************************************)
(* Theorems about a lobby, for every number of players and connections,    *)
(* also several of one player, and every MaxPlayers.  A lobby only ever    *)
(* makes the moves of a served game, so what is proved of a game, and of a *)
(* served one, holds in every lobby.  The second half is about the load    *)
(* generator, whose connections are those of a lobby: what is under way to *)
(* a bot shows it nothing too much, and the bots and the server keep to a  *)
(* protocol under which every round is played to its end.  That half alone *)
(* rests on BotsAssumption.                                                *)
(***************************************************************************)
EXTENDS Bots, GameProofs

LEMMA OwnersArePlayers ==
  ASSUME NEW c \in Clients
  PROVE  PlayerOf[c] \in PlayerIDs
BY LobbyAssumption

(***************************************************************************)
(* A command is a step of the game that neither lets anybody in nor marks  *)
(* anybody as present or absent.                                           *)
(***************************************************************************)
LEMMA CommandPlays ==
  ASSUME NEW c \in clients, clients \subseteq Clients,
         PlainCommand(PlayerOf[c]) \/ GuessingCommand(PlayerOf[c])
  PROVE  ServedNext /\ UNCHANGED <<players, connected>>
<1> DEFINE actor == PlayerOf[c]
<1>1. actor \in PlayerIDs
  BY OwnersArePlayers
<1> HIDE DEF actor
<1>2. ASSUME NEW n \in Names \cup {NoName}, Rename(actor, n)
      PROVE  ServedNext /\ UNCHANGED <<players, connected>>
  BY <1>1, <1>2 DEF ServedNext, Rename
<1>3. ASSUME StartRound
      PROVE  ServedNext /\ UNCHANGED <<players, connected>>
  BY <1>3 DEF ServedNext, StartRound
<1>4. ASSUME RedrawScales(actor)
      PROVE  ServedNext /\ UNCHANGED <<players, connected>>
  BY <1>1, <1>4 DEF ServedNext, RedrawScales
<1>5. ASSUME NEW h \in Hints \cup {NoHint}, SubmitHint(actor, h)
      PROVE  ServedNext /\ UNCHANGED <<players, connected>>
  BY <1>1, <1>5 DEF ServedNext, SubmitHint
<1>6. ASSUME Reset
      PROVE  ServedNext /\ UNCHANGED <<players, connected>>
  BY <1>6 DEF ServedNext, Reset
<1>7. ASSUME NEW p \in GuessPoints, PlaceGuess(actor, p)
      PROVE  ServedNext /\ UNCHANGED <<players, connected>>
  BY <1>1, <1>7 DEF ServedNext, PlaceGuess
<1>8. ASSUME Reveal(actor)
      PROVE  ServedNext /\ UNCHANGED <<players, connected>>
  BY <1>1, <1>8 DEF ServedNext, Reveal
<1>9. PlainCommand(actor) \/ GuessingCommand(actor)
  BY DEF actor
<1> QED
  BY <1>2, <1>3, <1>4, <1>5, <1>6, <1>7, <1>8, <1>9 DEF PlainCommand, GuessingCommand

\* Everything a lobby does is a step of the served game, or leaves the game alone.
LEMMA LobbyStepPlays ==
  ASSUME clients \subseteq Clients, [LobbyNext]_lobbyVars
  PROVE  [ServedNext]_vars /\ clients' \subseteq Clients
<1>1. ASSUME NEW c \in Clients, NEW n \in Names \cup {NoName}, Join(c, n)
      PROVE  [ServedNext]_vars /\ clients' \subseteq Clients
  <2>1. AddPlayer(PlayerOf[c], n) /\ clients' = clients \cup {c}
    BY <1>1 DEF Join
  <2>2. ServedNext
    BY <2>1, OwnersArePlayers DEF ServedNext
  <2> QED
    BY <2>1, <2>2
<1>2. ASSUME NEW c \in Clients, Leave(c)
      PROVE  [ServedNext]_vars /\ clients' \subseteq Clients
  <2>1. clients' = clients \ {c}
    BY <1>2 DEF Leave
  <2>2. UNCHANGED vars \/ Disconnect(PlayerOf[c])
    BY <1>2 DEF Leave
  <2>3. Disconnect(PlayerOf[c]) => ServedNext
    BY OwnersArePlayers DEF ServedNext
  <2> QED
    BY <2>1, <2>2, <2>3
<1>3. ASSUME NEW c \in Clients, Handle(c)
      PROVE  [ServedNext]_vars /\ clients' \subseteq Clients
  BY <1>3, CommandPlays DEF Handle
<1>4. CASE UNCHANGED lobbyVars
  BY <1>4 DEF lobbyVars
<1> QED
  BY <1>1, <1>2, <1>3, <1>4 DEF LobbyNext

(***************************************************************************)
(* A lobby plays the served game: joins, departures and commands of its    *)
(* connections are moves of the game or leave it alone (lobby.go, which    *)
(* calls the game nowhere else).                                           *)
(***************************************************************************)
THEOREM LobbyPlaysTheGame == LobbySpec => ServedSpec
<1>1. LobbyInit => Init /\ clients \subseteq Clients
  BY DEF LobbyInit
<1>2. clients \subseteq Clients /\ [LobbyNext]_lobbyVars
        => [ServedNext]_vars /\ (clients \subseteq Clients)'
  BY LobbyStepPlays
<1> QED
  BY <1>1, <1>2, PTL DEF LobbySpec, ServedSpec

(***************************************************************************)
(* Hence no round of a lobby waits for nobody but one without a guess, its *)
(* roles are kept and its history is sealed, whatever its connections do.  *)
(***************************************************************************)
THEOREM LobbyKeepsTheGame ==
  LobbySpec => [](RolesKept /\ NoCompleteRoundWaits /\ HistorySealed)
BY LobbyPlaysTheGame, ServedIsAGame, GameRoles, GameNeverWaits, GameHistorySealed, PTL

(***************************************************************************)
(* Whoever joins, leaves or comes back, and however often: outside of the  *)
(* lobby phase the next clue giver that a lobby announces is one of its    *)
(* players and not the present clue giver (StartRound, Turns, the isNext   *)
(* badge of SnapshotFor).                                                  *)
(***************************************************************************)
THEOREM LobbyAnnouncesAnother == LobbySpec => []SomeoneElseIsNext
BY LobbyPlaysTheGame, ServedSomeoneElse, PTL

(***************************************************************************)
(* And in every lobby the scores and the history stay one account, whoever *)
(* comes and goes while a round is played (reveal, Reset).                 *)
(***************************************************************************)
THEOREM LobbyAccount == LobbySpec => []ScoresMatchHistory
BY LobbyPlaysTheGame, ServedAccount, PTL

-----------------------------------------------------------------------------
LEMMA LobbyTypeInit == LobbyInit => LobbyTypeOK /\ TypeInv
<1>1. LobbyInit => TypeInv
  BY TypeInvInit DEF LobbyInit
<1> QED
  BY <1>1 DEF LobbyInit, LobbyTypeOK, TypeInv

LEMMA LobbyTypeStep ==
  ASSUME LobbyTypeOK, TypeInv, [LobbyNext]_lobbyVars
  PROVE  LobbyTypeOK' /\ TypeInv'
<1>1. TypeInv' /\ TypeOK' /\ clients' \in SUBSET Clients
  <2>1. [ServedNext]_vars /\ clients' \subseteq Clients
    BY LobbyStepPlays DEF LobbyTypeOK
  <2>2. TypeInv'
    BY <2>1, TypeInvStep
  <2> QED
    BY <2>1, <2>2 DEF TypeInv
<1>2. DOMAIN frame' = Clients
  BY DEF LobbyTypeOK, LobbyNext, Join, Leave, Handle, BroadcastTo, lobbyVars
<1>3. roundsTotal' \in Nat
  <2>1. roundsTotal' = roundsTotal \/ RecordRound
    BY DEF LobbyNext, Join, Leave, Handle, lobbyVars
  <2> QED
    BY <2>1 DEF LobbyTypeOK, RecordRound
<1> QED
  BY <1>1, <1>2, <1>3 DEF LobbyTypeOK

(***************************************************************************)
(* Every lobby is well-typed, with any number of connections (lobby.go).   *)
(***************************************************************************)
THEOREM LobbyTyped == LobbySpec => []LobbyTypeOK
<1>1. LobbyTypeOK /\ TypeInv /\ [LobbyNext]_lobbyVars => (LobbyTypeOK /\ TypeInv)'
  BY LobbyTypeStep
<1> QED
  BY <1>1, LobbyTypeInit, PTL DEF LobbySpec

-----------------------------------------------------------------------------
(***************************************************************************)
(* Presence.                                                               *)
(***************************************************************************)
LEMMA PresenceStep ==
  ASSUME LobbyTypeOK, ConnectedIffClient, [LobbyNext]_lobbyVars
  PROVE  ConnectedIffClient'
<1>1. connected \in [PlayerIDs -> BOOLEAN] /\ clients \subseteq Clients
  BY DEF LobbyTypeOK, TypeOK
<1>2. ASSUME NEW c \in Clients, NEW n \in Names \cup {NoName}, Join(c, n)
      PROVE  ConnectedIffClient'
  <2>1. /\ connected' = [connected EXCEPT ![PlayerOf[c]] = TRUE]
        /\ clients' = clients \cup {c}
    BY <1>2 DEF Join, AddPlayer
  <2> QED
    BY <1>1, <2>1, OwnersArePlayers DEF ConnectedIffClient, HasClientFor
<1>3. ASSUME NEW c \in Clients, Leave(c)
      PROVE  ConnectedIffClient'
  <2>1. c \in clients /\ clients' = clients \ {c}
    BY <1>3 DEF Leave
  <2>2. CASE HasClientFor(PlayerOf[c], clients \ {c})
    <3>1. UNCHANGED connected
      BY <1>3, <2>2 DEF Leave, vars
    <3> QED
      BY <2>1, <2>2, <3>1 DEF ConnectedIffClient, HasClientFor
  <2>3. CASE ~ HasClientFor(PlayerOf[c], clients \ {c})
    <3>1. connected' = [connected EXCEPT ![PlayerOf[c]] = FALSE]
      BY <1>3, <2>3 DEF Leave, Disconnect
    <3> QED
      BY <1>1, <2>1, <2>3, <3>1, OwnersArePlayers DEF ConnectedIffClient, HasClientFor
  <2> QED
    BY <2>2, <2>3
<1>4. ASSUME NEW c \in Clients, Handle(c)
      PROVE  ConnectedIffClient'
  <2>1. UNCHANGED <<connected, clients>>
    BY <1>1, <1>4, CommandPlays DEF Handle
  <2> QED
    BY <2>1 DEF ConnectedIffClient, HasClientFor
<1>5. CASE UNCHANGED lobbyVars
  BY <1>5 DEF lobbyVars, vars, ConnectedIffClient, HasClientFor
<1> QED
  BY <1>2, <1>3, <1>4, <1>5 DEF LobbyNext

(***************************************************************************)
(* However many tabs a player opens and closes, and in whatever order, he  *)
(* counts as connected as long as one is left and no longer (Join, Leave,  *)
(* hasClientForLocked).                                                    *)
(***************************************************************************)
THEOREM LobbyPresence == LobbySpec => []ConnectedIffClient
<1>1. LobbyInit => ConnectedIffClient
  BY DEF LobbyInit, Init, ConnectedIffClient, HasClientFor
<1>2. LobbyTypeOK /\ ConnectedIffClient /\ [LobbyNext]_lobbyVars => ConnectedIffClient'
  BY PresenceStep
<1> QED
  BY <1>1, <1>2, LobbyTyped, PTL DEF LobbySpec

-----------------------------------------------------------------------------
(***************************************************************************)
(* The limit of players.                                                   *)
(***************************************************************************)
LEMMA SeatsStep ==
  ASSUME LobbyTypeOK, NotOverfull, [LobbyNext]_lobbyVars
  PROVE  NotOverfull'
<1>1. clients \subseteq Clients /\ players \in SUBSET PlayerIDs
  BY DEF LobbyTypeOK, TypeOK
<1>2. ASSUME NEW c \in Clients, NEW n \in Names \cup {NoName}, Join(c, n)
      PROVE  NotOverfull'
  <2> DEFINE p == PlayerOf[c]
  <2>1. players' = players \cup {p}
    BY <1>2 DEF Join, AddPlayer
  <2>2. p \in players \/ Cardinality(players) < MaxPlayers
    BY <1>2 DEF Join, HasRoomFor
  <2> HIDE DEF p
  <2>3. CASE p \in players
    <3>1. players' = players
      BY <2>1, <2>3
    <3> QED
      BY <3>1 DEF NotOverfull
  <2>4. CASE p \notin players
    <3>1. Cardinality(players \cup {p}) = Cardinality(players) + 1
      BY <1>1, <2>4, FiniteGroup, FS_AddElement
    <3>2. Cardinality(players) \in Nat /\ MaxPlayers \in Nat
      BY <1>1, FiniteGroup, LobbyAssumption
    <3> QED
      BY <2>1, <2>2, <2>4, <3>1, <3>2 DEF NotOverfull
  <2> QED
    BY <2>3, <2>4
<1>3. ASSUME UNCHANGED players
      PROVE  NotOverfull'
  BY <1>3 DEF NotOverfull
<1>4. ASSUME NEW c \in Clients, Leave(c)
      PROVE  UNCHANGED players
  BY <1>4 DEF Leave, Disconnect, vars
<1>5. ASSUME NEW c \in Clients, Handle(c)
      PROVE  UNCHANGED players
  BY <1>1, <1>5, CommandPlays DEF Handle
<1>6. CASE UNCHANGED lobbyVars
  BY <1>3, <1>6 DEF lobbyVars, vars
<1> QED
  BY <1>2, <1>3, <1>4, <1>5, <1>6 DEF LobbyNext

(***************************************************************************)
(* No lobby outgrows MAX_PLAYERS, though known players may always come     *)
(* back into a full one (Join).                                            *)
(***************************************************************************)
THEOREM LobbyHasSeats == LobbySpec => []NotOverfull
<1>1. LobbyInit => NotOverfull
  BY FS_EmptySet, LobbyAssumption DEF LobbyInit, Init, NotOverfull
<1>2. LobbyTypeOK /\ NotOverfull /\ [LobbyNext]_lobbyVars => NotOverfull'
  BY SeatsStep
<1> QED
  BY <1>1, <1>2, LobbyTyped, PTL DEF LobbySpec

-----------------------------------------------------------------------------
(***************************************************************************)
(* What the connections are sent: the last frame of each is its snapshot   *)
(* of the present state.                                                   *)
(***************************************************************************)
FramesAreCurrent ==
  \A c \in Clients :
    frame[c] = IF c \in clients THEN SnapshotFor(GameState, PlayerOf[c]) ELSE NoFrame

LEMMA FramesStep ==
  ASSUME FramesAreCurrent, [LobbyNext]_lobbyVars
  PROVE  FramesAreCurrent'
<1>1. ASSUME BroadcastTo(clients')
      PROVE  FramesAreCurrent'
  BY <1>1 DEF BroadcastTo, FramesAreCurrent
<1>2. LobbyNext => BroadcastTo(clients')
  BY DEF LobbyNext, Join, Leave, Handle
<1>3. CASE UNCHANGED lobbyVars
  <2>1. UNCHANGED <<GameState, clients, frame>>
    BY <1>3 DEF lobbyVars, vars, board, deal, GameState
  <2> QED
    BY <2>1 DEF FramesAreCurrent
<1> QED
  BY <1>1, <1>2, <1>3

LEMMA LobbyKeepsUpToDate == LobbySpec => []FramesAreCurrent
<1>1. LobbyInit => FramesAreCurrent
  BY DEF LobbyInit, FramesAreCurrent
<1>2. FramesAreCurrent /\ [LobbyNext]_lobbyVars => FramesAreCurrent'
  BY FramesStep
<1> QED
  BY <1>1, <1>2, PTL DEF LobbySpec

(***************************************************************************)
(* Before the reveal a snapshot for a player who does not give the hint    *)
(* is a function of what he may know: neither the target nor the place of  *)
(* another marker goes into it.                                            *)
(***************************************************************************)
LEMMA SnapshotIsBlind ==
  ASSUME TypeOK, NEW viewer \in PlayerIDs, IsBlind(GameState, viewer),
         NEW t, NEW g \in OtherPlacements(viewer)
  PROVE  SnapshotFor(GameState, viewer)
           = SnapshotFor([GameState EXCEPT !.target = t, !.guesses = g], viewer)
<1> DEFINE other == [GameState EXCEPT !.target = t, !.guesses = g]
<1>1. /\ other.phase = GameState.phase /\ other.round = GameState.round
      /\ other.axes = GameState.axes /\ other.hint = GameState.hint
      /\ other.clueGiverID = GameState.clueGiverID
      /\ other.players = GameState.players /\ other.name = GameState.name
      /\ other.score = GameState.score /\ other.connected = GameState.connected
      /\ other.history = GameState.history /\ other.rotation = GameState.rotation
      /\ other.guesses = g
  BY DEF GameState
<1>2. /\ g[viewer] = GameState.guesses[viewer]
      /\ \A p \in PlayerIDs : g[p] = NoGuess <=> GameState.guesses[p] = NoGuess
  BY DEF OtherPlacements, GameState
<1>3. GameState.players \subseteq PlayerIDs
  BY DEF GameState, TypeOK
<1>4. GameState.phase # "REVEAL" /\ viewer # GameState.clueGiverID
  BY DEF IsBlind
<1> HIDE DEF other
<1>5. ~ MaySeeTarget(GameState, viewer) /\ ~ MaySeeTarget(other, viewer)
  BY <1>1, <1>4 DEF MaySeeTarget
<1>6. ~ Shown(GameState) /\ ~ Shown(other)
  BY <1>1, <1>4 DEF Shown
<1>7. PendingGuessers(other.guesses, other.connected, other.clueGiverID)
        = PendingGuessers(GameState.guesses, GameState.connected, GameState.clueGiverID)
  BY <1>1, <1>2 DEF PendingGuessers
<1>8. ASSUME NEW p \in GameState.players
      PROVE  PlayerView(other, p, viewer) = PlayerView(GameState, p, viewer)
  BY <1>1, <1>2, <1>3 DEF PlayerView
<1>9. [p \in other.players |-> PlayerView(other, p, viewer)]
        = [p \in GameState.players |-> PlayerView(GameState, p, viewer)]
  BY <1>1, <1>8
<1>10. SnapshotFor(other, viewer) = SnapshotFor(GameState, viewer)
  BY <1>1, <1>2, <1>5, <1>6, <1>7, <1>9 DEF SnapshotFor
<1> QED
  BY <1>10 DEF other

(***************************************************************************)
(* Nobody can copy, however many play: until the reveal the frame of a     *)
(* guesser does not depend on the target or on the markers of the others   *)
(* (SnapshotFor, maySeeTarget, broadcastLocked).                           *)
(***************************************************************************)
THEOREM LobbyHidesTheTarget == LobbySpec => []GuessersAreBlind
<1>1. LobbyTypeOK /\ FramesAreCurrent => GuessersAreBlind
  <2> SUFFICES ASSUME LobbyTypeOK, FramesAreCurrent, NEW c \in clients,
                      IsBlind(GameState, PlayerOf[c]),
                      NEW t \in GuessPoints, NEW g \in OtherPlacements(PlayerOf[c])
               PROVE  frame[c] = SnapshotFor([GameState EXCEPT !.target = t, !.guesses = g],
                                             PlayerOf[c])
    BY DEF GuessersAreBlind
  <2>1. c \in Clients /\ TypeOK
    BY DEF LobbyTypeOK
  <2>2. frame[c] = SnapshotFor(GameState, PlayerOf[c])
    BY <2>1 DEF FramesAreCurrent
  <2> QED
    BY <2>1, <2>2, OwnersArePlayers, SnapshotIsBlind
<1> QED
  BY <1>1, LobbyTyped, LobbyKeepsUpToDate, PTL

-----------------------------------------------------------------------------
(***************************************************************************)
(* The load generator, for every number of bots, rounds and strays: what   *)
(* is under way to a bot never shows it too much.                          *)
(***************************************************************************)
Command ==
  [type : {"join", "start_round"}] \cup [type : {"submit_hint"}, hint : Hints]
    \cup [type : {"place_guess"}, point : Board]

LEMMA BoardIsSquare == Board = [x : 0..100, y : 0..100]
<1>1. ASSUME NEW p \in Board
      PROVE  p \in [x : 0..100, y : 0..100]
  BY DEF Board, Point, InBounds
<1>2. ASSUME NEW p \in [x : 0..100, y : 0..100]
      PROVE  p \in Board
  <2>1. p \in [x : Int, y : Int]
    OBVIOUS
  <2> QED
    BY <2>1 DEF Board, Point, InBounds
<1> QED
  BY <1>1, <1>2

\* A state that leaks nothing; one that shows a target shows a place of the board.
Harmless(s) == ~ IsLeak(s) /\ (s.target = Absent \/ s.target \in Board)

Mail(q) ==
  /\ q \in Seq({q[i] : i \in DOMAIN q})
  /\ \A i \in DOMAIN q : q[i] = Refused \/ Harmless(q[i])

LEMMA MailOfASet ==
  ASSUME NEW S, \A m \in S : m = Refused \/ Harmless(m), NEW q \in Seq(S)
  PROVE  Mail(q)
<1> DEFINE R == {q[i] : i \in DOMAIN q}
<1>1. Len(q) \in Nat /\ q \in [1..Len(q) -> S] /\ DOMAIN q = 1..Len(q)
  BY LenProperties
<1>2. q \in [1..Len(q) -> R]
  BY <1>1
<1>3. q \in Seq(R)
  BY <1>1, <1>2, SeqDef
<1>4. \A i \in DOMAIN q : q[i] \in S
  BY <1>1
<1> QED
  BY <1>3, <1>4 DEF Mail

\* What the server adds to it, and what the program takes out of it.
LEMMA MailMoves ==
  /\ Mail(<<>>)
  /\ \A q, m : Mail(q) /\ (m = Refused \/ Harmless(m)) => Mail(Append(q, m))
  /\ \A q : Mail(q) /\ q # <<>> => Mail(Tail(q)) /\ (Head(q) = Refused \/ Harmless(Head(q)))
<1>1. Mail(<<>>)
  BY EmptySeq DEF Mail
<1>2. ASSUME NEW q, NEW m, Mail(q), m = Refused \/ Harmless(m)
      PROVE  Mail(Append(q, m))
  <2> DEFINE R == {q[i] : i \in DOMAIN q}
             S == R \cup {m}
  <2>1. \A x \in S : x = Refused \/ Harmless(x)
    BY <1>2 DEF Mail
  <2>2. q \in Seq(R)
    BY <1>2 DEF Mail
  <2> HIDE DEF R
  <2>3. q \in Seq(S)
    BY <2>2, SeqMonotonic
  <2>4. Append(q, m) \in Seq(S)
    BY <2>3, AppendProperties
  <2> QED
    BY <2>1, <2>4, MailOfASet
<1>3. ASSUME NEW q, Mail(q), q # <<>>
      PROVE  Mail(Tail(q)) /\ (Head(q) = Refused \/ Harmless(Head(q)))
  <2> DEFINE R == {q[i] : i \in DOMAIN q}
  <2>1. \A x \in R : x = Refused \/ Harmless(x)
    BY <1>3 DEF Mail
  <2>2. q \in Seq(R)
    BY <1>3 DEF Mail
  <2> HIDE DEF R
  <2>3. Head(q) \in R /\ Tail(q) \in Seq(R)
    BY <1>3, <2>2, HeadTailProperties
  <2> QED
    BY <2>1, <2>3, MailOfASet
<1> QED
  BY <1>1, <1>2, <1>3

(***************************************************************************)
(* A lobby phase has no round any more: a game that is served leaves its   *)
(* rounds only by a reset.  Without it the history would give away a round *)
(* that has not begun.                                                     *)
(***************************************************************************)
LobbyIsFresh == phase = "LOBBY" => round = 0

LEMMA FreshStep ==
  ASSUME TypeInv, LobbyIsFresh, [ServedNext]_vars
  PROVE  LobbyIsFresh'
<1>1. ASSUME NEW id \in PlayerIDs, Disconnect(id)
      PROVE  LobbyIsFresh'
  BY <1>1 DEF Disconnect, MaybeAutoReveal, RevealRound, board, LobbyIsFresh
<1>2. ASSUME NEW id \in PlayerIDs, NEW p \in GuessPoints, PlaceGuess(id, p)
      PROVE  LobbyIsFresh'
  BY <1>2 DEF PlaceGuess, RevealRound, board, LobbyIsFresh
<1>3. ASSUME NEW id \in PlayerIDs, Reveal(id)
      PROVE  LobbyIsFresh'
  BY <1>3 DEF Reveal, RevealRound, board, LobbyIsFresh
<1> QED
  BY <1>1, <1>2, <1>3
  DEF ServedNext, AddPlayer, Rename, StartRound, RedrawScales, SubmitHint, Reset, vars, board,
      LobbyIsFresh

(***************************************************************************)
(* What a player is shown of such a game.                                  *)
(***************************************************************************)
LEMMA SnapshotIsHarmless ==
  ASSUME NEW g, NEW viewer, g.phase \in Phases, g.round \in Int, g.target \in Board,
         g.phase = "LOBBY" => g.round = 0,
         g.phase \in {"HINT", "GUESS"}
           => \A i \in DOMAIN g.history : g.history[i].round < g.round /\ g.history[i].round \in Int
  PROVE  Harmless(SnapshotFor(g, viewer))
<1> DEFINE s == SnapshotFor(g, viewer)
<1>1. /\ s.phase = g.phase /\ s.round = g.round /\ s.history = g.history
      /\ s.youAreClueGiver = (viewer # NoPlayer /\ viewer = g.clueGiverID)
      /\ s.target = IF MaySeeTarget(g, viewer) THEN g.target ELSE Absent
  BY DEF SnapshotFor
<1> HIDE DEF s
<1>2. s.target = Absent \/ s.target \in Board
  BY <1>1
<1>3. ASSUME ~ s.youAreClueGiver, s.phase # "REVEAL"
      PROVE  /\ s.target = Absent
             /\ ~ \E i \in DOMAIN s.history : s.history[i].round >= s.round /\ s.round > 0
  <2>1. ~ MaySeeTarget(g, viewer)
    BY <1>1, <1>3 DEF MaySeeTarget
  <2>2. CASE g.phase = "LOBBY"
    BY <1>1, <2>1, <2>2
  <2>3. CASE g.phase \in {"HINT", "GUESS"}
    BY <1>1, <2>1, <2>3
  <2> QED
    BY <1>1, <1>3, <2>2, <2>3 DEF Phases
<1> QED
  BY <1>2, <1>3 DEF Harmless, IsLeak, s
(***************************************************************************)
(* The server's side of the program: it plays the game, and all that it    *)
(* sends is harmless.                                                      *)
(***************************************************************************)
GameInv == TypeInv /\ HistorySealed /\ LobbyIsFresh /\ clients \subseteq Clients

Shipping ==
  /\ commands \in [Clients -> Seq(Command)]
  /\ DOMAIN inbox = Clients
  /\ \A c \in Clients : Mail(inbox[c])

LEMMA GameInvStep ==
  ASSUME GameInv, [ServedNext]_vars, clients' \subseteq Clients
  PROVE  GameInv'
BY TypeInvStep, SealedStep, FreshStep DEF GameInv

LEMMA StatesAreHarmless ==
  ASSUME GameInv', NEW viewer
  PROVE  Harmless(SnapshotFor(GameState', viewer))
<1>1. /\ phase' \in Phases /\ round' \in 0..MaxRounds /\ target' \in Board
      /\ history' \in Seq(Entries)
      /\ phase' = "LOBBY" => round' = 0
      /\ phase' \in {"HINT", "GUESS"} => \A i \in DOMAIN history' : history'[i].round < round'
  BY DEF GameInv, TypeInv, TypeOK, LobbyIsFresh, HistorySealed, Running
<1>2. \A i \in DOMAIN history' : history'[i].round \in Int
  BY <1>1, EntryRounds
<1>3. round' \in Int
  BY <1>1, GameConstants
<1>4. /\ GameState'.phase = phase' /\ GameState'.round = round'
      /\ GameState'.target = target' /\ GameState'.history = history'
  BY DEF GameState
<1> QED
  BY <1>1, <1>2, <1>3, <1>4, SnapshotIsHarmless

LEMMA ObeysPlays ==
  ASSUME NEW c \in Clients, NEW m \in Command, clients \subseteq Clients, Obeys(c, m)
  PROVE  /\ ServedNext /\ clients' \subseteq Clients
         /\ \A d \in clients' : frame'[d] = SnapshotFor(GameState', PlayerOf[d])
<1>1. PlayerOf[c] \in PlayerIDs
  BY OwnersArePlayers
<1>2. ASSUME NEW n \in Names, Join(c, n)
      PROVE  ServedNext /\ clients' = clients \cup {c} /\ BroadcastTo(clients')
  BY <1>1, <1>2 DEF Join, ServedNext
<1>3. ASSUME m.type # "join"
      PROVE  ServedNext
  <2>1. m.type = "submit_hint" => m.hint \in Hints
    BY DEF Command
  <2>2. m.type = "place_guess" => m.point \in GuessPoints
    BY BoardIsSquare, BotsAssumption DEF Command
  <2>3. CASE m.type = "start_round" /\ StartRound
    BY <2>3 DEF ServedNext
  <2>4. CASE m.type = "submit_hint" /\ SubmitHint(PlayerOf[c], m.hint)
    BY <1>1, <2>1, <2>4 DEF ServedNext
  <2>5. CASE m.type = "place_guess" /\ PlaceGuess(PlayerOf[c], m.point)
    BY <1>1, <2>2, <2>5 DEF ServedNext
  <2> QED
    BY <1>3, <2>3, <2>4, <2>5 DEF Obeys
<1>4. /\ ServedNext
      /\ \/ clients' = clients \cup {c} /\ BroadcastTo(clients')
         \/ clients' = clients /\ BroadcastTo(clients)
  BY <1>2, <1>3 DEF Obeys
<1>5. clients' \subseteq Clients /\ BroadcastTo(clients')
  BY <1>4
<1> QED
  BY <1>4, <1>5 DEF BroadcastTo

LEMMA ServesStep ==
  ASSUME GameInv, Shipping, NEW c \in Clients, Serves(c)
  PROVE  [ServedNext]_vars /\ GameInv' /\ Shipping' /\ UNCHANGED driverVars
<1>1. /\ commands[c] # <<>>
      /\ commands' = [commands EXCEPT ![c] = Tail(@)]
      /\ UNCHANGED driverVars
      /\ \/ /\ Obeys(c, Head(commands[c]))
            /\ inbox' = [d \in Clients |-> IF d \in clients' THEN Append(inbox[d], frame'[d])
                                                             ELSE inbox[d]]
         \/ /\ inbox' = [inbox EXCEPT ![c] = Append(@, Refused)]
            /\ UNCHANGED lobbyVars
  BY DEF Serves
<1>2. commands[c] \in Seq(Command)
  BY DEF Shipping
<1>3. Head(commands[c]) \in Command /\ Tail(commands[c]) \in Seq(Command)
  BY <1>1, <1>2, HeadTailProperties
<1>4. commands' \in [Clients -> Seq(Command)]
  BY <1>1, <1>3 DEF Shipping
<1>5. CASE /\ Obeys(c, Head(commands[c]))
           /\ inbox' = [d \in Clients |-> IF d \in clients' THEN Append(inbox[d], frame'[d])
                                                            ELSE inbox[d]]
  <2>1. /\ ServedNext /\ clients' \subseteq Clients
        /\ \A d \in clients' : frame'[d] = SnapshotFor(GameState', PlayerOf[d])
    BY <1>3, <1>5, ObeysPlays DEF GameInv
  <2>2. GameInv'
    BY <2>1, GameInvStep
  <2>3. \A d \in clients' : Harmless(frame'[d])
    BY <2>1, <2>2, StatesAreHarmless
  <2>4. DOMAIN inbox' = Clients
    BY <1>5
  <2>5. \A d \in Clients : Mail(inbox'[d])
    BY <1>5, <2>3, MailMoves DEF Shipping
  <2> QED
    BY <1>1, <1>4, <2>1, <2>2, <2>4, <2>5 DEF Shipping
<1>6. CASE inbox' = [inbox EXCEPT ![c] = Append(@, Refused)] /\ UNCHANGED lobbyVars
  <2>1. UNCHANGED <<vars, clients>>
    BY <1>6 DEF lobbyVars
  <2>2. GameInv'
    BY <2>1, GameInvStep DEF GameInv
  <2>3. DOMAIN inbox' = Clients /\ \A d \in Clients : Mail(inbox'[d])
    BY <1>6, MailMoves DEF Shipping
  <2> QED
    BY <1>1, <1>4, <2>1, <2>2, <2>3 DEF Shipping
<1> QED
  BY <1>1, <1>5, <1>6

LEMMA DepartsStep ==
  ASSUME GameInv, Shipping, NEW c \in Clients, Departs(c)
  PROVE  [ServedNext]_vars /\ GameInv' /\ Shipping' /\ UNCHANGED driverVars
<1>1. Leave(c) /\ inbox' = [d \in Clients |-> <<>>] /\ UNCHANGED <<driverVars, commands>>
  BY DEF Departs
<1>2. [ServedNext]_vars /\ clients' \subseteq Clients
  BY <1>1, LobbyStepPlays DEF LobbyNext, GameInv
<1>3. GameInv'
  BY <1>2, GameInvStep
<1>4. Shipping'
  BY <1>1, MailMoves DEF Shipping
<1> QED
  BY <1>1, <1>2, <1>3, <1>4
(***************************************************************************)
(* The program.  It aims its guesses at the target that the clue giver has *)
(* seen, so that state must stay the one it read: no other bot's is put in *)
(* its place while the clue giver is looked for, and it reads no further   *)
(* before the guesses are out.                                             *)
(***************************************************************************)
DriverSound ==
  /\ playerCount \in 2..Cardinality(Clients)
  /\ at \in Bots
  /\ clueGiver \in 0..playerCount
  /\ aimed \in Seq(Bots \ {clueGiver})
  /\ \A i, j \in 1..Len(aimed) : i # j => aimed[i] # aimed[j]
  /\ DOMAIN state = Clients
  /\ \A c \in Clients : state[c] = NoFrame \/ Harmless(state[c])
  /\ stage = "casting" => clueGiver < at
  /\ stage \in {"casting", "hinting", "briefing"} => aimed = <<>>
  /\ stage \in {"casting", "hinting"} /\ clueGiver # 0 => state[clueGiver] # NoFrame
  /\ stage \in {"briefing", "guessing"}
       => clueGiver # 0 /\ state[clueGiver] # NoFrame /\ state[clueGiver].target # Absent
  /\ leaks = 0

BotsInv == GameInv /\ Shipping /\ DriverSound

LEMMA BotsAreClients ==
  ASSUME playerCount \in 2..Cardinality(Clients)
  PROVE  /\ IsFiniteSet(Clients) /\ Cardinality(Clients) \in Nat
         /\ Clients = 1..Cardinality(Clients)
         /\ playerCount \in Nat /\ 1 \in Bots /\ Bots \subseteq Clients /\ 0 \notin Clients
<1>1. IsFiniteSet(Clients) /\ Clients = 1..Cardinality(Clients)
  BY BotsAssumption
<1>2. Cardinality(Clients) \in Nat
  BY <1>1, FS_CardinalityType
<1>3. playerCount \in Nat /\ playerCount >= 2 /\ playerCount <= Cardinality(Clients)
  BY <1>2
<1>4. 1 \in Bots /\ Bots \subseteq 1..Cardinality(Clients)
  BY <1>2, <1>3 DEF Bots
<1>5. 0 \notin 1..Cardinality(Clients)
  OBVIOUS
<1> QED
  BY <1>1, <1>2, <1>3, <1>4, <1>5

\* A step of the program that neither reads nor sends leaves all but itself alone.
LEMMA StayKeeps ==
  ASSUME GameInv, Stay
  PROVE  UNCHANGED vars /\ GameInv' /\ UNCHANGED playerCount
<1>1. UNCHANGED <<vars, clients, playerCount>>
  BY DEF Stay, lobbyVars
<1> QED
  BY <1>1, GameInvStep DEF GameInv

LEMMA SendsKeeps ==
  ASSUME Shipping, NEW c \in Clients, NEW m \in Command, Sends(c, m), UNCHANGED inbox
  PROVE  Shipping'
<1>1. commands' = [commands EXCEPT ![c] = Append(@, m)]
  BY DEF Sends
<1>2. commands[c] \in Seq(Command)
  BY DEF Shipping
<1>3. Append(commands[c], m) \in Seq(Command)
  BY <1>2, AppendProperties
<1> QED
  BY <1>1, <1>3 DEF Shipping

LEMMA ReadsStep ==
  ASSUME BotsInv, Reads
  PROVE  UNCHANGED vars /\ BotsInv'
<1> USE DEF BotsInv
<1>1. UNCHANGED vars /\ GameInv' /\ UNCHANGED playerCount
  BY StayKeeps DEF Reads
<1>2. at \in Clients /\ Bots \subseteq Clients
  BY BotsAreClients DEF DriverSound
<1> DEFINE m == Head(inbox[at])
<1>3. /\ Mail(inbox[at]) /\ inbox[at] # <<>>
      /\ inbox' = [inbox EXCEPT ![at] = Tail(@)]
      /\ UNCHANGED <<clueGiver, aimed, commands>>
  BY <1>2 DEF Reads, Shipping
<1>4. Mail(Tail(inbox[at])) /\ (m = Refused \/ Harmless(m))
  BY <1>3, MailMoves
<1>5. Shipping'
  BY <1>3, <1>4 DEF Shipping
<1>6. UNCHANGED Bots
  BY <1>1 DEF Bots
<1>7. CASE m = Refused
  <2>1. stage' = "failed" /\ at' = at /\ UNCHANGED <<state, leaks>>
    BY <1>7 DEF Reads, Fails, Goto
  <2>2. DriverSound'
    BY <1>1, <1>3, <1>6, <2>1 DEF DriverSound
  <2> QED
    BY <1>1, <1>5, <2>2
<1>8. CASE m # Refused
  <2>1. /\ state' = [state EXCEPT ![at] = m]
        /\ leaks' = IF IsLeak(m) THEN leaks + 1 ELSE leaks
        /\ UNCHANGED <<stage, at>>
        /\ stage \in {"greeting", "gathering", "casting", "briefing", "judging"}
        /\ ~ IsSatisfied
    BY <1>8 DEF Reads, Watching
  <2>2. leaks' = 0
    BY <1>4, <1>8, <2>1 DEF Harmless, DriverSound
  <2>3. DOMAIN state' = Clients /\ \A c \in Clients : state'[c] = NoFrame \/ Harmless(state'[c])
    BY <1>4, <1>8, <2>1 DEF DriverSound
  <2>4. stage = "briefing" => at # clueGiver
    BY <2>1 DEF IsSatisfied, IsAwaited, DriverSound
  <2>5. stage = "casting" => at # clueGiver
    BY <1>2, BotsAreClients DEF DriverSound, Bots
  <2>6. stage \in {"casting", "briefing"} => state'[clueGiver] = state[clueGiver]
    BY <2>1, <2>4, <2>5
  <2>7. DriverSound'
    BY <1>1, <1>3, <1>6, <2>1, <2>2, <2>3, <2>6 DEF DriverSound
  <2> QED
    BY <1>1, <1>5, <2>7
<1> QED
  BY <1>7, <1>8

LEMMA DialsStep ==
  ASSUME BotsInv, Dials
  PROVE  UNCHANGED vars /\ BotsInv'
<1>1. UNCHANGED vars /\ GameInv' /\ UNCHANGED playerCount
  BY StayKeeps DEF Dials, BotsInv
<1>2. at \in Clients
  BY BotsAreClients DEF DriverSound, BotsInv
<1>3. Shipping'
  BY <1>2, SendsKeeps DEF Dials, Command, BotsInv
<1>4. stage' = "greeting" /\ UNCHANGED <<at, state, clueGiver, aimed, leaks, Bots>>
  BY <1>1 DEF Dials, Goto, Bots
<1>5. DriverSound'
  BY <1>1, <1>4 DEF DriverSound, BotsInv
<1> QED
  BY <1>1, <1>3, <1>5 DEF BotsInv

LEMMA StartsRoundStep ==
  ASSUME BotsInv, StartsRound
  PROVE  UNCHANGED vars /\ BotsInv'
<1>1. UNCHANGED vars /\ GameInv' /\ UNCHANGED playerCount
  BY StayKeeps DEF StartsRound, BotsInv
<1>2. /\ playerCount \in Nat /\ 1 \in Bots /\ 1 \in Clients
  BY BotsAreClients DEF DriverSound, BotsInv
<1>3. Shipping'
  <2>1. CASE Sends(1, [type |-> "start_round"]) /\ UNCHANGED inbox
    BY <1>2, <2>1, SendsKeeps DEF Command, BotsInv
  <2>2. CASE UNCHANGED <<commands, inbox>>
    BY <2>2 DEF Shipping, BotsInv
  <2> QED
    BY <2>1, <2>2 DEF StartsRound
<1>4. /\ stage' \in {"casting", "ok"} /\ at' = 1 /\ clueGiver' = 0 /\ aimed' = <<>>
      /\ UNCHANGED <<state, leaks, Bots>>
  BY <1>1 DEF StartsRound, Goto, Bots
<1>5. aimed' \in Seq(Bots' \ {clueGiver'}) /\ Len(aimed') = 0
  BY <1>4, EmptySeq
<1>6. DriverSound'
  BY <1>1, <1>2, <1>4, <1>5 DEF DriverSound, BotsInv
<1> QED
  BY <1>1, <1>3, <1>6 DEF BotsInv
LEMMA MovesOnStep ==
  ASSUME BotsInv, MovesOn
  PROVE  UNCHANGED vars /\ BotsInv'
<1>1. UNCHANGED vars /\ GameInv' /\ UNCHANGED playerCount
  BY StayKeeps DEF MovesOn, BotsInv
<1>2. Shipping'
  BY DEF MovesOn, Shipping, BotsInv
<1>3. UNCHANGED <<state, aimed, leaks, Bots>> /\ state[at] # NoFrame
  BY <1>1 DEF MovesOn, IsSatisfied, Bots
<1>4. playerCount \in Nat /\ at \in 1..playerCount /\ clueGiver \in 0..playerCount
  BY BotsAreClients DEF DriverSound, BotsInv, Bots
<1>5. at' \in Bots' /\ (at < playerCount => at' = at + 1) /\ (at >= playerCount => at' = 1)
  BY <1>1, <1>4 DEF MovesOn, Goto, Bots
<1>6. CASE stage = "casting"
  <2>1. /\ stage' = IF at < playerCount THEN "casting" ELSE "hinting"
        /\ clueGiver' = IF state[at].youAreClueGiver THEN at ELSE clueGiver
    BY <1>6 DEF MovesOn, Goto
  <2>2. clueGiver' \in 0..playerCount /\ (clueGiver' # 0 => state[clueGiver'] # NoFrame)
    BY <1>3, <1>4, <1>6, <2>1 DEF DriverSound, BotsInv
  <2>3. stage' = "casting" => clueGiver' < at'
    BY <1>4, <1>5, <1>6, <2>1 DEF DriverSound, BotsInv
  <2>4. aimed' = <<>> /\ aimed' \in Seq(Bots' \ {clueGiver'}) /\ Len(aimed') = 0
    BY <1>3, <1>6, EmptySeq DEF DriverSound, BotsInv
  <2>5. DriverSound'
    BY <1>1, <1>3, <1>5, <2>1, <2>2, <2>3, <2>4 DEF DriverSound, BotsInv
  <2> QED
    BY <1>1, <1>2, <2>5 DEF BotsInv
<1>7. CASE stage # "casting"
  <2>1. UNCHANGED clueGiver
    BY <1>7 DEF MovesOn
  <2>2. \/ stage = "greeting"  /\ stage' \in {"dialing", "gathering"}
        \/ stage = "gathering" /\ stage' \in {"gathering", "starting"}
        \/ stage = "briefing"  /\ stage' \in {"briefing", "guessing"}
        \/ stage = "judging"   /\ stage' \in {"judging", "starting"}
    BY <1>7 DEF MovesOn, Watching, Goto
  <2>3. DriverSound'
    BY <1>1, <1>3, <1>5, <2>1, <2>2 DEF DriverSound, BotsInv
  <2> QED
    BY <1>1, <1>2, <2>3 DEF BotsInv
<1> QED
  BY <1>6, <1>7

LEMMA GivesHintStep ==
  ASSUME BotsInv, GivesHint
  PROVE  UNCHANGED vars /\ BotsInv'
<1>1. UNCHANGED vars /\ GameInv' /\ UNCHANGED playerCount
  BY StayKeeps DEF GivesHint, BotsInv
<1>2. UNCHANGED <<state, clueGiver, aimed, leaks, inbox, Bots>>
  BY <1>1 DEF GivesHint, Bots
<1>3. 1 \in Bots /\ Bots \subseteq Clients
  BY BotsAreClients DEF DriverSound, BotsInv
<1>4. CASE clueGiver = 0 \/ state[clueGiver].target = Absent
  <2>1. stage' = "failed" /\ UNCHANGED <<at, commands>>
    BY <1>4 DEF GivesHint, Fails, Goto
  <2>2. DriverSound' /\ Shipping'
    BY <1>1, <1>2, <2>1 DEF DriverSound, Shipping, BotsInv
  <2> QED
    BY <1>1, <2>2 DEF BotsInv
<1>5. CASE ~ (clueGiver = 0 \/ state[clueGiver].target = Absent)
  <2>1. PICK h \in Hints : Sends(clueGiver, [type |-> "submit_hint", hint |-> h])
    BY <1>5 DEF GivesHint
  <2>2. [type |-> "submit_hint", hint |-> h] \in Command
    BY DEF Command
  <2>3. clueGiver \in Clients
    BY <1>3, <1>5 DEF DriverSound, BotsInv, Bots
  <2>4. Shipping'
    BY <1>2, <2>1, <2>2, <2>3, SendsKeeps DEF BotsInv
  <2>5. stage = "hinting" /\ stage' = "briefing" /\ at' = 1
    BY <1>5 DEF GivesHint, Goto
  <2>6. DriverSound'
    BY <1>1, <1>2, <1>3, <1>5, <2>5 DEF DriverSound, BotsInv
  <2> QED
    BY <1>1, <2>4, <2>6 DEF BotsInv
<1> QED
  BY <1>4, <1>5

LEMMA ClampType == ASSUME NEW v \in Int PROVE Clamp(v) \in 0..100
BY DEF Clamp

\* Wherever on the board the target is, a bot aims at the board.
LEMMA ClampedIsOnBoard ==
  ASSUME NEW goal \in Board, NEW i \in Clients, NEW dx \in Strays[i], NEW dy \in Strays[i]
  PROVE  [x |-> Clamp(goal.x + dx), y |-> Clamp(goal.y + dy)] \in Board
<1>1. goal.x \in Int /\ goal.y \in Int
  BY DEF Board, Point
<1>2. dx \in Int /\ dy \in Int
  BY BotsAssumption
<1>3. goal.x + dx \in Int /\ goal.y + dy \in Int
  BY <1>1, <1>2
<1>4. Clamp(goal.x + dx) \in 0..100 /\ Clamp(goal.y + dy) \in 0..100
  BY <1>3, ClampType
<1> QED
  BY <1>4, BoardIsSquare

\* There is always one guesser more than have aimed, so long as one is left.
LEMMA AimsAreFew ==
  ASSUME DriverSound, NEW c \in Bots, c # clueGiver, clueGiver # 0,
         c \notin {aimed[i] : i \in DOMAIN aimed}
  PROVE  Len(aimed) + 1 \in Clients
<1> DEFINE S == Bots \ {clueGiver, c}
           n == Len(aimed)
<1>1. /\ IsFiniteSet(Clients) /\ Cardinality(Clients) \in Nat /\ Clients = 1..Cardinality(Clients)
      /\ playerCount \in Nat /\ Bots \subseteq Clients /\ playerCount <= Cardinality(Clients)
  BY BotsAreClients DEF DriverSound
<1>2. n \in Nat /\ DOMAIN aimed = 1..n /\ \A i \in 1..n : aimed[i] \in Bots \ {clueGiver}
  BY LenProperties, ElementOfSeq DEF DriverSound
<1>3. /\ \A i \in 1..n : aimed[i] \in S
      /\ \A i, j \in 1..n : i # j => aimed[i] # aimed[j]
  BY <1>2 DEF DriverSound
<1>4. IsFiniteSet(Bots) /\ Cardinality(Bots) = playerCount
  BY <1>1, FS_Interval DEF Bots
<1>5. IsFiniteSet(S) /\ Cardinality(S) < playerCount
  <2>1. S \subseteq Bots /\ S # Bots
    OBVIOUS
  <2> HIDE DEF S
  <2> QED
    BY <1>1, <1>4, <2>1, FS_Subset, FS_CardinalityType
<1> HIDE DEF S, n
<1>6. n <= Cardinality(S) /\ Cardinality(S) \in Nat
  BY <1>2, <1>3, <1>5, DistinctIsShort, FS_CardinalityType
<1>7. n + 1 \in 1..Cardinality(Clients)
  BY <1>1, <1>2, <1>5, <1>6
<1> QED
  BY <1>1, <1>7 DEF n

LEMMA AimsStep ==
  ASSUME BotsInv, Aims
  PROVE  UNCHANGED vars /\ BotsInv'
<1> DEFINE left == {c \in Bots : c # clueGiver /\ c \notin {aimed[i] : i \in DOMAIN aimed}}
           next == CHOOSE c \in left : \A d \in left : c <= d
           goal == state[clueGiver].target
<1>1. UNCHANGED vars /\ GameInv' /\ UNCHANGED playerCount
  BY StayKeeps DEF Aims, BotsInv
<1>2. UNCHANGED <<state, clueGiver, leaks, inbox, Bots>>
  BY <1>1 DEF Aims, Bots
<1>3. /\ stage = "guessing" /\ clueGiver # 0 /\ clueGiver \in Clients
      /\ 1 \in Bots /\ Bots \subseteq Clients
      /\ clueGiver \in 0..playerCount
  BY BotsAreClients DEF Aims, DriverSound, BotsInv, Bots
<1>4. CASE left = {}
  <2>1. stage' = "judging" /\ at' = 1 /\ UNCHANGED <<commands, aimed>>
    BY <1>4 DEF Aims, Goto
  <2>2. DriverSound' /\ Shipping'
    BY <1>1, <1>2, <1>3, <2>1 DEF DriverSound, Shipping, BotsInv
  <2> QED
    BY <1>1, <2>2 DEF BotsInv
<1>5. CASE left # {}
  <2>1. next \in left
    <3>1. left \subseteq Nat
      BY BotsAreClients DEF DriverSound, BotsInv, Bots
    <3> HIDE DEF left
    <3>2. \E c \in left : \A d \in left : c <= d
      BY <1>5, <3>1, SmallestNumber
    <3> QED
      BY <3>2
  <2>2. goal \in Board
    BY <1>3 DEF DriverSound, BotsInv, Harmless
  <2>3. Len(aimed) + 1 \in Clients
    BY <1>3, <2>1, AimsAreFew DEF BotsInv
  <2>4. PICK dx, dy \in Strays[Len(aimed) + 1] :
          Sends(next, [type |-> "place_guess",
                       point |-> [x |-> Clamp(goal.x + dx), y |-> Clamp(goal.y + dy)]])
    BY <1>5 DEF Aims
  <2>5. aimed' = Append(aimed, next) /\ UNCHANGED <<stage, at>>
    BY <1>5 DEF Aims
  <2> HIDE DEF goal, next
  <2> DEFINE p == [x |-> Clamp(goal.x + dx), y |-> Clamp(goal.y + dy)]
  <2>6. p \in Board
    BY <2>2, <2>3, ClampedIsOnBoard
  <2> HIDE DEF p
  <2>7. [type |-> "place_guess", point |-> p] \in Command
    BY <2>6 DEF Command
  <2>8. Shipping'
    BY <1>2, <1>3, <2>1, <2>4, <2>7, SendsKeeps DEF BotsInv, p
  <2>9. /\ aimed' \in Seq(Bots \ {clueGiver})
        /\ \A i, j \in 1..Len(aimed') : i # j => aimed'[i] # aimed'[j]
    <3>1. aimed \in Seq(Bots \ {clueGiver}) /\ next \in Bots \ {clueGiver}
      BY <2>1 DEF DriverSound, BotsInv
    <3>2. Len(aimed) \in Nat /\ DOMAIN aimed = 1..Len(aimed)
      BY <3>1, LenProperties
    <3>3. /\ aimed' \in Seq(Bots \ {clueGiver}) /\ Len(aimed') = Len(aimed) + 1
          /\ aimed'[Len(aimed) + 1] = next
          /\ \A i \in 1..Len(aimed) : aimed'[i] = aimed[i]
      BY <2>5, <3>1, AppendProperties
    <3>4. \A i \in 1..Len(aimed) : aimed[i] # next
      BY <2>1, <3>2
    <3>5. \A i, j \in 1..Len(aimed) : i # j => aimed[i] # aimed[j]
      BY DEF DriverSound, BotsInv
    <3>6. \A i \in 1..Len(aimed') : i \in 1..Len(aimed) \/ i = Len(aimed) + 1
      BY <3>2, <3>3
    <3> QED
      BY <3>3, <3>4, <3>5, <3>6
  <2>10. DriverSound'
    BY <1>1, <1>2, <1>3, <2>5, <2>9 DEF DriverSound, BotsInv
  <2> QED
    BY <1>1, <2>8, <2>10 DEF BotsInv
<1> QED
  BY <1>4, <1>5

LEMMA BotsStep ==
  ASSUME BotsInv, [BotsNext]_botsVars
  PROVE  [ServedNext]_vars /\ BotsInv'
<1>1. CASE DriverNext
  BY <1>1, ReadsStep, DialsStep, StartsRoundStep, MovesOnStep, GivesHintStep, AimsStep
  DEF DriverNext
<1>2. ASSUME NEW c \in Clients, Serves(c) \/ Departs(c)
      PROVE  [ServedNext]_vars /\ BotsInv'
  <2>1. [ServedNext]_vars /\ GameInv' /\ Shipping' /\ UNCHANGED driverVars
    BY <1>2, ServesStep, DepartsStep DEF BotsInv
  <2>2. DriverSound'
    BY <2>1 DEF driverVars, DriverSound, BotsInv, Bots
  <2> QED
    BY <2>1, <2>2 DEF BotsInv
<1>3. CASE UNCHANGED botsVars
  <2>1. UNCHANGED <<vars, clients, driverVars, commands, inbox>>
    BY <1>3 DEF botsVars, lobbyVars
  <2>2. GameInv'
    BY <2>1, GameInvStep DEF GameInv, BotsInv
  <2>3. Shipping' /\ DriverSound'
    BY <2>1 DEF Shipping, driverVars, DriverSound, BotsInv, Bots
  <2> QED
    BY <2>1, <2>2, <2>3 DEF BotsInv
<1> QED
  BY <1>1, <1>2, <1>3 DEF BotsNext

LEMMA BotsStart == BotsInit => Init /\ BotsInv
<1> SUFFICES ASSUME BotsInit
             PROVE  Init /\ BotsInv
  OBVIOUS
<1>1. Init /\ TypeInv /\ clients = {}
  BY TypeInvInit DEF BotsInit, LobbyInit
<1>2. HistorySealed /\ LobbyIsFresh
  BY <1>1, EmptySeq, GameConstants DEF Init, HistorySealed, IsOrdered, Running, LobbyIsFresh
<1>3. Shipping
  BY EmptySeq, MailMoves DEF BotsInit, Shipping
<1>4. playerCount \in Nat /\ 1 \in Bots
  BY BotsAreClients DEF BotsInit
<1>5. aimed \in Seq(Bots \ {clueGiver}) /\ Len(aimed) = 0
  BY EmptySeq DEF BotsInit
<1>6. DriverSound
  BY <1>4, <1>5 DEF BotsInit, DriverSound
<1> QED
  BY <1>1, <1>2, <1>3, <1>6 DEF BotsInv, GameInv

(***************************************************************************)
(* The bots play a served game, so every theorem about one holds while     *)
(* they do, however late each of them sees it (runLobby, and the handler   *)
(* of each of its connections).                                            *)
(***************************************************************************)
THEOREM BotsPlayTheGame == BotsSpec => ServedSpec
<1>1. BotsInv /\ [BotsNext]_botsVars => [ServedNext]_vars /\ BotsInv'
  BY BotsStep
<1> QED
  BY <1>1, BotsStart, PTL DEF BotsSpec, ServedSpec

(***************************************************************************)
(* With any number of bots, whatever is under way to whom and however far  *)
(* behind he is, no state he reads shows him the target of a round he      *)
(* guesses in (checkNoLeak, SnapshotFor, maySeeTarget).                    *)
(***************************************************************************)
THEOREM BotsSeeNoTarget == BotsSpec => []NothingLeaks
<1>1. BotsInv => NothingLeaks
  BY DEF BotsInv, DriverSound, NothingLeaks
<1>2. BotsInv /\ [BotsNext]_botsVars => BotsInv'
  BY BotsStep
<1> QED
  BY <1>1, <1>2, BotsStart, PTL DEF BotsSpec

-----------------------------------------------------------------------------
(***************************************************************************)
(* The protocol between the program and the server, for every number of    *)
(* bots and rounds: what has been sent, what is still to be read, and how  *)
(* far the game is, in each stage of the program.  A bot that waits must   *)
(* not have read past the state it waits for, and that state must be on    *)
(* its way to it or the command that brings it about on its way to the     *)
(* server.  So the invariant follows, for each bot, the states it has not  *)
(* read yet: the last of them shows the game as it is now, and the earlier *)
(* ones do not show the phase that is waited for.                          *)
(***************************************************************************)
Stages ==
  {"dialing", "greeting", "gathering", "starting", "casting", "hinting", "briefing",
   "guessing", "judging", "ok", "failed"}

\* What bot c has read last, as number 0, and what it will read next.
Unread(c) == Len(inbox[c])
Seen(c, i) == IF i = 0 THEN state[c] ELSE inbox[c][i]

\* The newest of them would have to show the game as it is.
Current(c) == SnapshotFor(GameState, PlayerOf[c])

\* None but the newest shows phase ph, so what c has read is not past it.
OnlyNewest(c, ph) == \A i \in 0..(Unread(c) - 1) : Seen(c, i).phase # ph

AllRead == \A c \in Bots : inbox[c] = <<>>

\* The commands under way to the server.
Silent == \A c \in Clients : commands[c] = <<>>
Sent(c, type) == Len(commands[c]) = 1 /\ commands[c][1].type = type
Only(c, type) == Sent(c, type) /\ \A d \in Clients \ {c} : commands[d] = <<>>

Joined == Cardinality(players)
Guessing == Bots \ {clueGiver}
Aimed == {aimed[i] : i \in DOMAIN aimed}
Placed == {c \in Bots : guesses[PlayerOf[c]] # NoGuess}

\* The bots join in the order in which they are dialled, and stay.
Population ==
  /\ Joined \in 0..playerCount /\ clients = 1..Joined
  /\ players = {PlayerOf[c] : c \in clients}
  /\ \A p \in PlayerIDs : connected[p] <=> p \in players
  /\ stage \notin {"dialing", "greeting"} => Joined = playerCount
  /\ \A c \in Clients \ clients :
       /\ state[c] = NoFrame
       /\ inbox[c] = <<>> \/ (stage = "greeting" /\ c = at /\ inbox[c] = <<Refused>>)

\* Nobody misses the newest state, and nobody in the lobby is refused anything.
Informed ==
  \A c \in clients :
    /\ Seen(c, Unread(c)) = Current(c)
    /\ \A i \in 1..Unread(c) : Seen(c, i) # Refused

\* The server has counted the rounds that are over.
Counted == roundsTotal = IF Running THEN round - 1 ELSE round

Ground == Population /\ Informed /\ Counted

-----------------------------------------------------------------------------
(***************************************************************************)
(* The stages.                                                             *)
(***************************************************************************)

\* Each state on its way to a bot shows one player more than the one before it.
Filling ==
  /\ phase = "LOBBY" /\ round = 0 /\ played = 0
  /\ \A c \in clients :
       /\ Unread(c) <= Joined
       /\ \A i \in 0..Unread(c) :
            Seen(c, i) # NoFrame
              => Cardinality(DOMAIN Seen(c, i).players) = Joined - (Unread(c) - i)

Dialing == Filling /\ Silent /\ Joined = at - 1

\* The bot has joined, or is about to, or has been turned away.
Greeting ==
  /\ Filling
  /\ \/ Joined = at /\ Silent
     \/ Joined = at - 1 /\ Only(at, "join") /\ inbox[at] = <<>>
     \/ Joined = at - 1 /\ Silent /\ inbox[at] = <<Refused>> /\ Joined >= MaxPlayers

Gathering == Filling /\ Silent /\ \A c \in 1..(at - 1) : inbox[c] = <<>>

\* Nothing of one round is left over in the next.
Starting ==
  /\ Silent /\ AllRead
  /\ phase \in {"LOBBY", "REVEAL"} /\ round = played

InRound == played < Rounds /\ round = played + 1
KnowsGiver == clueGiver # 0 /\ PlayerOf[clueGiver] = clueGiverID

\* Before the round is started, and after.
Casting ==
  \/ /\ Only(1, "start_round") /\ AllRead /\ at = 1 /\ clueGiver = 0
     /\ phase \in {"LOBBY", "REVEAL"} /\ round = played /\ played < Rounds
  \/ /\ Silent /\ phase = "HINT" /\ InRound
     /\ \A c \in Bots : Unread(c) <= 1 /\ OnlyNewest(c, "HINT") /\ (c < at => inbox[c] = <<>>)
     /\ clueGiver # 0 => KnowsGiver
     /\ \A c \in 1..(at - 1) : PlayerOf[c] = clueGiverID => clueGiver = c

Hinting == InRound /\ KnowsGiver /\ Silent /\ AllRead /\ phase = "HINT"

\* Before the hint is given, and after.  The clue giver does not read it.
Briefing ==
  /\ InRound /\ KnowsGiver
  /\ \/ /\ Only(clueGiver, "submit_hint") /\ AllRead /\ phase = "HINT"
        /\ \A c \in 1..(at - 1) : c = clueGiver
     \/ /\ Silent /\ phase = "GUESS" /\ Placed = {}
        /\ \A c \in Bots : /\ Unread(c) <= 1
                           /\ OnlyNewest(c, "GUESS") /\ OnlyNewest(c, "REVEAL")
                           /\ c < at /\ c # clueGiver => inbox[c] = <<>>

\* A guess that was sent is under way or on the board, and the last one ends the round.
Guesses ==
  /\ InRound /\ KnowsGiver
  /\ \A c \in Clients : commands[c] # <<>> => Sent(c, "place_guess") /\ c \in Aimed \ Placed
  /\ \A c \in Aimed : commands[c] = <<>> => c \in Placed
  /\ Placed \subseteq Aimed
  /\ phase = IF Placed = Guessing THEN "REVEAL" ELSE "GUESS"
  /\ \A c \in Bots : /\ OnlyNewest(c, "REVEAL")
                     /\ Unread(c) <= Cardinality(Placed) + (IF c = clueGiver THEN 1 ELSE 0)

Judging ==
  /\ Guesses /\ Aimed = Guessing
  /\ \A c \in 1..(at - 1) : inbox[c] = <<>> /\ phase = "REVEAL"

\* The program fails only on a lobby that is too small for its bots.
Closed ==
  /\ Silent
  /\ stage = "ok" => played = Rounds /\ roundsTotal = Rounds
  /\ stage = "failed" => playerCount > MaxPlayers

Protocol ==
  /\ stage \in Stages
  /\ played \in 0..Rounds
  /\ Open => Population /\ Informed /\ Counted
  /\ stage = "dialing" => Dialing
  /\ stage = "greeting" => Greeting
  /\ stage = "gathering" => Gathering
  /\ stage = "starting" => Starting
  /\ stage = "casting" => Casting
  /\ stage = "hinting" => Hinting
  /\ stage = "briefing" => Briefing
  /\ stage = "guessing" => Guesses
  /\ stage = "judging" => Judging
  /\ ~Open => Closed

Playing == BotsInv /\ RolesKept /\ Protocol

-----------------------------------------------------------------------------
(***************************************************************************)
(* What a state shows, and the queue it is read from.                      *)
(***************************************************************************)

\* What is under way to a bot, counted.
LEMMA MailLength ==
  ASSUME NEW q, Mail(q)
  PROVE  /\ Len(q) \in Nat /\ DOMAIN q = 1..Len(q)
         /\ q = <<>> <=> Len(q) = 0
<1>1. q \in Seq({q[i] : i \in DOMAIN q})
  BY DEF Mail
<1> HIDE DEF Mail
<1> QED
  BY <1>1, LenProperties, EmptySeq

LEMMA MailShortens ==
  ASSUME NEW q, Mail(q), q # <<>>
  PROVE  /\ Head(q) = q[1]
         /\ Len(Tail(q)) = Len(q) - 1
         /\ \A i \in 1..(Len(q) - 1) : Tail(q)[i] = q[i + 1]
<1>1. q \in Seq({q[i] : i \in DOMAIN q})
  BY DEF Mail
<1>2. Len(Tail(q)) = Len(q) - 1 /\ \A i \in 1..Len(Tail(q)) : Tail(q)[i] = q[i + 1]
  BY <1>1, HeadTailProperties
<1>3. Head(q) = q[1]
  BY <1>1
<1> QED
  BY <1>2, <1>3

LEMMA MailGrows ==
  ASSUME NEW q, Mail(q), NEW m, Harmless(m)
  PROVE  /\ Len(Append(q, m)) = Len(q) + 1
         /\ Append(q, m)[Len(q) + 1] = m
         /\ \A i \in 1..Len(q) : Append(q, m)[i] = q[i]
<1> DEFINE R == {q[i] : i \in DOMAIN q} \cup {m}
<1>1. q \in Seq({q[i] : i \in DOMAIN q})
  BY DEF Mail
<1>2. q \in Seq(R)
  BY <1>1, SeqMonotonic
<1> HIDE DEF R
<1>3. m \in R
  BY DEF R
<1> QED
  BY <1>2, <1>3, AppendProperties

\* What a state shows of the game.
LEMMA SnapshotShows ==
  ASSUME NEW g, g.phase \in Phases, NEW viewer
  PROVE  LET s == SnapshotFor(g, viewer)
         IN  /\ s.phase = g.phase /\ DOMAIN s.players = g.players
             /\ s.youAreClueGiver = (viewer # NoPlayer /\ viewer = g.clueGiverID)
             /\ s.target = IF MaySeeTarget(g, viewer) THEN g.target ELSE Absent
             /\ s # NoFrame /\ s # Refused
<1> DEFINE s == SnapshotFor(g, viewer)
<1>1. /\ s.phase = g.phase /\ DOMAIN s.players = g.players
      /\ s.youAreClueGiver = (viewer # NoPlayer /\ viewer = g.clueGiverID)
      /\ s.target = IF MaySeeTarget(g, viewer) THEN g.target ELSE Absent
      /\ "phase" \in DOMAIN s
  BY DEF SnapshotFor
<1> HIDE DEF s
<1>2. s # NoFrame
  BY <1>1 DEF NoFrame, Phases
<1>3. s # Refused
  <2>1. "phase" \notin DOMAIN Refused
    BY DEF Refused
  <2> QED
    BY <1>1, <2>1
<1> QED
  BY <1>1, <1>2, <1>3 DEF s

\* What the state that a connection would be sent now shows.
LEMMA CurrentShows ==
  ASSUME GameInv, NEW c \in Clients
  PROVE  /\ Current(c).phase = phase
         /\ DOMAIN Current(c).players = players
         /\ Current(c).youAreClueGiver <=> PlayerOf[c] = clueGiverID
         /\ Running /\ PlayerOf[c] = clueGiverID => Current(c).target = target /\ target # Absent
         /\ Current(c) # NoFrame /\ Current(c) # Refused
<1> DEFINE g == GameState
           s == SnapshotFor(g, PlayerOf[c])
<1>1. /\ g.phase = phase /\ g.players = players /\ g.clueGiverID = clueGiverID /\ g.target = target
  BY DEF GameState
<1>2. PlayerOf[c] \in PlayerIDs /\ PlayerOf[c] # NoPlayer
  BY OwnersArePlayers, GameConstants
<1>3. phase \in Phases /\ target \in Board /\ target # Absent
  BY ViewAssumption DEF GameInv, TypeInv, TypeOK
<1> HIDE DEF g
<1>4. /\ s.phase = g.phase /\ DOMAIN s.players = g.players
      /\ s.youAreClueGiver = (PlayerOf[c] # NoPlayer /\ PlayerOf[c] = g.clueGiverID)
      /\ s.target = IF MaySeeTarget(g, PlayerOf[c]) THEN g.target ELSE Absent
      /\ s # NoFrame /\ s # Refused
  BY <1>1, <1>3, SnapshotShows
<1>5. Current(c) = s
  BY DEF Current, g
<1> HIDE DEF s
<1>6. Running /\ PlayerOf[c] = clueGiverID => s.target = target
  BY <1>1, <1>2, <1>4 DEF MaySeeTarget, Running
<1> QED
  BY <1>1, <1>2, <1>3, <1>4, <1>5, <1>6

\* And after a step.
LEMMA NextShows ==
  ASSUME GameInv', NEW c
  PROVE  /\ DOMAIN Current(c)'.players = players'
         /\ Current(c)' # NoFrame /\ Current(c)' # Refused
<1>1. GameState'.phase \in Phases /\ GameState'.players = players'
  BY DEF GameInv, TypeInv, TypeOK, GameState
<1> QED
  BY <1>1, SnapshotShows DEF Current

\* The bots, by their places, and their queues.
LEMMA Numbers ==
  ASSUME BotsInv
  PROVE  /\ Clients = 1..Cardinality(Clients) /\ Cardinality(Clients) \in Nat
         /\ playerCount \in Nat /\ playerCount >= 2 /\ playerCount <= Cardinality(Clients)
         /\ Bots = 1..playerCount /\ Bots \subseteq Clients
         /\ at \in 1..playerCount /\ at \in Clients /\ clueGiver \in 0..playerCount
         /\ \A a, b \in Clients : PlayerOf[a] = PlayerOf[b] => a = b
         /\ \A c \in Clients : /\ Mail(inbox[c]) /\ Unread(c) \in Nat
                               /\ inbox[c] = <<>> <=> Unread(c) = 0
<1>1. /\ Clients = 1..Cardinality(Clients) /\ Cardinality(Clients) \in Nat
      /\ playerCount \in Nat /\ Bots \subseteq Clients
  BY BotsAreClients DEF BotsInv, DriverSound
<1>2. playerCount >= 2 /\ playerCount <= Cardinality(Clients)
  BY <1>1 DEF BotsInv, DriverSound
<1>3. at \in Bots /\ clueGiver \in 0..playerCount
  BY DEF BotsInv, DriverSound
<1>4. \A a, b \in Clients : PlayerOf[a] = PlayerOf[b] => a = b
  BY BotsAssumption
<1>5. \A c \in Clients : Mail(inbox[c])
  BY DEF BotsInv, Shipping
<1>6. \A c \in Clients : Unread(c) \in Nat /\ (inbox[c] = <<>> <=> Unread(c) = 0)
  BY <1>5, MailLength DEF Unread
<1> QED
  BY <1>1, <1>2, <1>3, <1>4, <1>5, <1>6 DEF Bots

\* A step of the program leaves the lobby alone.
LEMMA LobbyStays ==
  ASSUME Stay
  PROVE  /\ UNCHANGED <<phase, round, players, connected, guesses, clueGiverID, target>>
         /\ UNCHANGED <<clients, roundsTotal, playerCount, Bots, Joined>>
         /\ (RolesKept => RolesKept') /\ (Running <=> Running')
         /\ \A c : Current(c)' = Current(c)
<1>1. UNCHANGED <<vars, clients, roundsTotal, playerCount>>
  BY DEF Stay, lobbyVars
<1>2. /\ UNCHANGED <<phase, round, players, connected, guesses, clueGiverID, target>>
      /\ UNCHANGED GameState
  BY <1>1 DEF vars, board, deal, GameState
<1>3. \A c : Current(c)' = Current(c)
  BY <1>2 DEF Current
<1> QED
  BY <1>1, <1>2, <1>3 DEF Bots, Joined, RolesKept, Running, Guessers

\* One that reads nothing leaves everybody as informed as he was.
LEMMA GroundStays ==
  ASSUME Ground, Stay, UNCHANGED <<state, inbox>>,
         stage' \notin {"dialing", "greeting"} => Joined = playerCount,
         \A c \in Clients \ clients : inbox[c] = <<>>
  PROVE  Ground'
<1> USE LobbyStays
<1>1. Population'
  BY DEF Ground, Population
<1>2. Informed'
  BY DEF Ground, Informed, Seen, Unread
<1>3. Counted'
  BY DEF Ground, Counted
<1> QED
  BY <1>1, <1>2, <1>3 DEF Ground

-----------------------------------------------------------------------------
(***************************************************************************)
(* The program sends, moves on and reads.                                  *)
(***************************************************************************)

\* A command is the only one of its connection.
LEMMA FirstCommand ==
  ASSUME BotsInv, NEW c \in Clients, NEW m \in Command, Sends(c, m), commands[c] = <<>>
  PROVE  /\ Len(commands'[c]) = 1 /\ commands'[c][1] = m
         /\ \A d \in Clients \ {c} : commands'[d] = commands[d]
<1>1. commands \in [Clients -> Seq(Command)]
  BY DEF BotsInv, Shipping
<1>2. commands'[c] = Append(<<>>, m) /\ \A d \in Clients \ {c} : commands'[d] = commands[d]
  BY <1>1 DEF Sends
<1>3. <<>> \in Seq(Command) /\ Len(<<>>) = 0
  BY EmptySeq
<1>4. Len(Append(<<>>, m)) = 1 /\ Append(<<>>, m)[1] = m
  BY <1>3, AppendProperties
<1> QED
  BY <1>2, <1>4

\* A step that neither reads nor serves leaves the lobby as full as it was.
LEMMA FillingStays ==
  ASSUME Filling, Stay, UNCHANGED <<state, inbox, played>>
  PROVE  Filling'
BY LobbyStays DEF Filling, Seen, Unread

\* A bot is dialled.
LEMMA DialsProtocol ==
  ASSUME Playing, Dials
  PROVE  Protocol'
<1>1. /\ stage = "dialing" /\ stage' = "greeting" /\ at' = at /\ Stay
      /\ Sends(at, [type |-> "join"])
      /\ UNCHANGED <<played, state, clueGiver, aimed, inbox>>
  BY DEF Dials, Goto
<1>2. BotsInv /\ Ground /\ Dialing /\ played \in 0..Rounds
  BY <1>1 DEF Playing, Protocol, Open, Ground
<1>3. Ground'
  BY <1>1, <1>2, GroundStays DEF Ground, Population
<1>4. Filling' /\ Joined' = at' - 1
  BY <1>1, <1>2, FillingStays, LobbyStays DEF Dialing
<1>5. at \in Clients /\ at \notin clients
  BY <1>2, Numbers DEF Dialing, Ground, Population
<1>6. Only(at, "join")'
  <2>1. [type |-> "join"] \in Command
    BY DEF Command
  <2>2. \A c \in Clients : commands[c] = <<>>
    BY <1>2 DEF Dialing, Silent
  <2> QED
    BY <1>1, <1>2, <1>5, <2>1, <2>2, FirstCommand DEF Only, Sent
<1>7. (inbox[at] = <<>>)'
  BY <1>1, <1>2, <1>5 DEF Ground, Population
<1>8. Greeting'
  BY <1>4, <1>6, <1>7 DEF Greeting
<1> QED
  BY <1>1, <1>2, <1>3, <1>8 DEF Protocol, Ground, Stages, Open

\* A round begins, or the last is over.
LEMMA StartsRoundProtocol ==
  ASSUME Playing, StartsRound
  PROVE  Protocol'
<1>1. /\ stage = "starting" /\ Stay /\ at' = 1 /\ clueGiver' = 0
      /\ UNCHANGED <<played, state, inbox>>
  BY DEF StartsRound, Goto
<1>2. BotsInv /\ Ground /\ Starting /\ played \in 0..Rounds
  BY <1>1 DEF Playing, Protocol, Open, Ground
<1>3. CASE played < Rounds
  <2>1. stage' = "casting" /\ Sends(1, [type |-> "start_round"])
    BY <1>3 DEF StartsRound, Goto
  <2>2. Ground'
    BY <1>1, <1>2, <2>1, GroundStays DEF Ground, Population
  <2>3. Only(1, "start_round")'
    <3>1. [type |-> "start_round"] \in Command
      BY DEF Command
    <3>2. \A c \in Clients : commands[c] = <<>>
      BY <1>2 DEF Starting, Silent
    <3>3. 1 \in Clients
      BY <1>2, Numbers
    <3> QED
      BY <1>2, <2>1, <3>1, <3>2, <3>3, FirstCommand DEF Only, Sent
  <2>4. Casting'
    BY <1>1, <1>2, <1>3, <2>3, LobbyStays DEF Casting, Starting, AllRead
  <2> QED
    BY <1>1, <1>2, <2>1, <2>2, <2>4 DEF Protocol, Ground, Stages, Open
<1>4. CASE ~ played < Rounds
  <2>1. stage' = "ok" /\ UNCHANGED commands
    BY <1>4 DEF StartsRound, Goto
  <2>2. played = Rounds
    BY <1>2, <1>4, BotsAssumption
  <2>3. roundsTotal = Rounds
    BY <1>2, <2>2 DEF Ground, Counted, Starting, Running
  <2>4. Closed'
    BY <1>1, <1>2, <2>1, <2>2, <2>3, LobbyStays DEF Closed, Starting, Silent
  <2> QED
    BY <1>1, <1>2, <2>1, <2>4 DEF Protocol, Stages, Open
<1> QED
  BY <1>3, <1>4

\* Who has read everything has seen the state as it is now.
LEMMA ReadIsCurrent ==
  ASSUME Informed, NEW c \in clients, inbox[c] = <<>>
  PROVE  state[c] = Current(c)
BY EmptySeq DEF Informed, Seen, Unread

\* The clue giver has been found, and has seen the target.
LEMMA GivesHintProtocol ==
  ASSUME Playing, GivesHint
  PROVE  Protocol'
<1>1. /\ stage = "hinting" /\ Stay
      /\ UNCHANGED <<played, state, clueGiver, inbox>>
  BY DEF GivesHint
<1>2. BotsInv /\ Ground /\ Hinting /\ played \in 0..Rounds
  BY <1>1 DEF Playing, Protocol, Open, Ground
<1>3. clients = Bots /\ clueGiver # 0 /\ clueGiver \in Bots /\ clueGiver \in Clients
  BY <1>1, <1>2, Numbers DEF Ground, Population, Hinting, KnowsGiver, Bots
<1>4. state[clueGiver] = Current(clueGiver)
  BY <1>2, <1>3, ReadIsCurrent DEF Ground, Hinting, AllRead
<1>5. state[clueGiver].target # Absent
  <2>1. GameInv /\ Running /\ PlayerOf[clueGiver] = clueGiverID
    BY <1>2 DEF Hinting, KnowsGiver, Running, BotsInv
  <2> QED
    BY <1>3, <1>4, <2>1, CurrentShows
<1>6. PICK h \in Hints : Sends(clueGiver, [type |-> "submit_hint", hint |-> h])
  BY <1>3, <1>5 DEF GivesHint
<1>7. stage' = "briefing" /\ at' = 1
  BY <1>3, <1>5 DEF GivesHint, Goto
<1>8. Ground'
  BY <1>1, <1>2, <1>7, GroundStays DEF Ground, Population
<1>9. Only(clueGiver, "submit_hint")'
  <2>1. [type |-> "submit_hint", hint |-> h] \in Command
    BY DEF Command
  <2>2. \A c \in Clients : commands[c] = <<>>
    BY <1>2 DEF Hinting, Silent
  <2> QED
    BY <1>1, <1>2, <1>3, <1>6, <2>1, <2>2, FirstCommand DEF Only, Sent
<1>10. Briefing'
  BY <1>1, <1>2, <1>7, <1>9, LobbyStays DEF Briefing, Hinting, AllRead, InRound, KnowsGiver
<1> QED
  BY <1>1, <1>2, <1>7, <1>8, <1>10 DEF Protocol, Ground, Stages, Open

\* What a guess under way changes for the bots: nothing yet.
\* A step that only sends leaves the guesses on the board alone.
LEMMA GuessesStay ==
  ASSUME Guesses, Stay, UNCHANGED <<played, clueGiver, state, inbox>>
  PROVE  /\ InRound' /\ KnowsGiver' /\ Placed' = Placed /\ Guessing' = Guessing
         /\ phase' = IF Placed' = Guessing' THEN "REVEAL" ELSE "GUESS"
         /\ \A c \in Bots' :
              /\ OnlyNewest(c, "REVEAL")'
              /\ Unread(c)' <= Cardinality(Placed') + (IF c = clueGiver' THEN 1 ELSE 0)
<1>1. /\ UNCHANGED <<phase, round, guesses, clueGiverID, Bots>>
  BY LobbyStays
<1>2. InRound' /\ KnowsGiver' /\ Placed' = Placed /\ Guessing' = Guessing
  BY <1>1 DEF Guesses, InRound, KnowsGiver, Placed, Guessing
<1>3. \A c \in Bots' : /\ OnlyNewest(c, "REVEAL")'
                       /\ Unread(c)' <= Cardinality(Placed') + (IF c = clueGiver' THEN 1 ELSE 0)
  BY <1>1, <1>2 DEF Guesses, OnlyNewest, Seen, Unread
<1> QED
  BY <1>1, <1>2, <1>3 DEF Guesses

\* The bots guess in turn, each once.
LEMMA AimsProtocol ==
  ASSUME Playing, Aims
  PROVE  Protocol'
<1> DEFINE left == {c \in Bots : c # clueGiver /\ c \notin {aimed[i] : i \in DOMAIN aimed}}
           next == CHOOSE c \in left : \A d \in left : c <= d
           goal == state[clueGiver].target
<1>1. /\ stage = "guessing" /\ Stay
      /\ UNCHANGED <<played, state, clueGiver, inbox>>
  BY DEF Aims
<1>2. BotsInv /\ Ground /\ Guesses /\ played \in 0..Rounds
  BY <1>1 DEF Playing, Protocol, Open, Ground
<1>3. aimed \in Seq(Guessing) /\ Aimed \subseteq Guessing
  BY <1>2, ElementOfSeq, LenProperties DEF BotsInv, DriverSound, Guessing, Aimed
<1>4. left = Guessing \ Aimed
  BY DEF Guessing, Aimed
<1>5. CASE left = {}
  <2>1. stage' = "judging" /\ at' = 1 /\ UNCHANGED <<commands, aimed>>
    BY <1>5 DEF Aims, Goto
  <2>2. Ground'
    BY <1>1, <1>2, <2>1, GroundStays DEF Ground, Population
  <2>3. Guesses'
    BY <1>1, <1>2, <2>1, GuessesStay DEF Guesses, Aimed, Sent
  <2>4. (Aimed = Guessing)'
    BY <1>1, <1>2, <1>3, <1>4, <1>5, <2>1, GuessesStay DEF Aimed
  <2>5. Judging'
    BY <2>1, <2>3, <2>4 DEF Judging
  <2> QED
    BY <1>1, <1>2, <2>1, <2>2, <2>5 DEF Protocol, Ground, Stages, Open
<1>6. CASE left # {}
  <2>1. next \in left
    <3>1. left \subseteq Nat
      BY <1>2, Numbers
    <3> HIDE DEF left
    <3>2. \E c \in left : \A d \in left : c <= d
      BY <1>6, <3>1, SmallestNumber
    <3> QED
      BY <3>2
  <2>2. PICK dx, dy \in Strays[Len(aimed) + 1] :
          Sends(next, [type |-> "place_guess",
                       point |-> [x |-> Clamp(goal.x + dx), y |-> Clamp(goal.y + dy)]])
    BY <1>6 DEF Aims
  <2>3. aimed' = Append(aimed, next) /\ UNCHANGED <<stage, at>>
    BY <1>6 DEF Aims
  <2> DEFINE m == [type |-> "place_guess",
                   point |-> [x |-> Clamp(goal.x + dx), y |-> Clamp(goal.y + dy)]]
  <2>4. next \in Guessing /\ next \notin Aimed /\ next \in Clients
    BY <1>2, <1>4, <2>1, Numbers DEF Guessing
  <2> HIDE DEF next, left
  <2>5. m \in Command /\ m.type = "place_guess"
    <3>1. goal \in Board /\ Len(aimed) + 1 \in Clients
      BY <1>1, <1>2, <2>4, Numbers, AimsAreFew
      DEF BotsInv, DriverSound, Harmless, Guesses, KnowsGiver, Guessing, Aimed
    <3> HIDE DEF goal
    <3>2. [x |-> Clamp(goal.x + dx), y |-> Clamp(goal.y + dy)] \in Board
      BY <3>1, ClampedIsOnBoard
    <3> QED
      BY <3>2 DEF Command
  <2> HIDE DEF m, goal
  <2>6. /\ Len(commands'[next]) = 1 /\ commands'[next][1] = m
        /\ \A d \in Clients \ {next} : commands'[d] = commands[d]
    BY <1>2, <2>2, <2>4, <2>5, FirstCommand DEF Guesses, m, goal
  <2>7. Aimed' = Aimed \cup {next}
    <3>1. /\ Len(aimed) \in Nat /\ DOMAIN aimed = 1..Len(aimed)
          /\ Len(aimed') = Len(aimed) + 1 /\ DOMAIN aimed' = 1..Len(aimed')
          /\ aimed'[Len(aimed) + 1] = next
          /\ \A i \in 1..Len(aimed) : aimed'[i] = aimed[i]
      BY <1>3, <2>3, <2>4, AppendProperties, LenProperties
    <3>2. \A i \in 1..Len(aimed') : i \in 1..Len(aimed) \/ i = Len(aimed) + 1
      BY <3>1
    <3>3. 1..Len(aimed) \subseteq 1..Len(aimed') /\ Len(aimed) + 1 \in 1..Len(aimed')
      BY <3>1
    <3> QED
      BY <3>1, <3>2, <3>3 DEF Aimed
  <2>8. Ground'
    BY <1>1, <1>2, <2>3, GroundStays DEF Ground, Population
  <2>9. Guesses'
    <3>1. next \notin Placed' /\ Placed' = Placed
      BY <1>1, <1>2, <2>4, GuessesStay DEF Guesses
    <3>2. \A c \in Clients : commands'[c] # <<>>
            => Sent(c, "place_guess")' /\ c \in Aimed' \ Placed'
      BY <1>2, <2>5, <2>6, <2>7, <3>1 DEF Guesses, Sent
    <3>3. \A c \in Aimed' : commands'[c] = <<>> => c \in Placed'
      <4>1. commands'[next] # <<>>
        BY <2>6, EmptySeq
      <4>2. Aimed \subseteq Clients
        BY <1>2, <1>3, Numbers DEF Guessing
      <4> QED
        BY <1>2, <2>6, <2>7, <3>1, <4>1, <4>2 DEF Guesses
    <3>4. Placed' \subseteq Aimed'
      BY <1>2, <2>7, <3>1 DEF Guesses
    <3> QED
      BY <1>1, <1>2, <3>2, <3>3, <3>4, GuessesStay DEF Guesses
  <2> QED
    BY <1>1, <1>2, <2>3, <2>8, <2>9 DEF Protocol, Ground, Stages, Open
<1> QED
  BY <1>5, <1>6

\* A bot that has already seen what only the newest state shows has nothing left to read.
LEMMA SeenIsNewest ==
  ASSUME BotsInv, NEW c \in Clients, NEW ph, OnlyNewest(c, ph), state[c].phase = ph
  PROVE  inbox[c] = <<>>
<1>1. Unread(c) \in Nat /\ (inbox[c] = <<>> <=> Unread(c) = 0)
  BY Numbers
<1>2. Unread(c) # 0 => 0 \in 0..(Unread(c) - 1)
  BY <1>1
<1> QED
  BY <1>1, <1>2 DEF OnlyNewest, Seen

\* A bot has seen that it is in the lobby.
LEMMA GreetedProtocol ==
  ASSUME Playing, MovesOn, stage = "greeting"
  PROVE  Protocol'
<1>1. /\ Stay /\ UNCHANGED <<played, state, commands, inbox>>
      /\ state[at] # NoFrame
      /\ IF at < playerCount THEN stage' = "dialing" /\ at' = at + 1
                             ELSE stage' = "gathering" /\ at' = 1
  BY DEF MovesOn, IsSatisfied, Goto
<1>2. BotsInv /\ Ground /\ Greeting /\ played \in 0..Rounds
  BY DEF Playing, Protocol, Open, Ground
<1>3. at \in clients /\ Joined = at /\ Silent
  <2>1. at \in clients
    BY <1>1, <1>2, Numbers DEF Ground, Population
  <2>2. at <= Joined /\ Joined \in Nat
    BY <1>2, <2>1, Numbers DEF Ground, Population
  <2> QED
    BY <1>2, <2>1, <2>2, Numbers DEF Greeting
<1>4. Filling' /\ Silent'
  BY <1>1, <1>2, <1>3, FillingStays DEF Greeting, Silent
<1>5. Ground'
  <2>1. \A c \in Clients \ clients : inbox[c] = <<>>
    BY <1>2, <1>3 DEF Ground, Population
  <2>2. stage' \notin {"dialing", "greeting"} => Joined = playerCount
    BY <1>1, <1>2, <1>3, Numbers
  <2> QED
    BY <1>1, <1>2, <2>1, <2>2, GroundStays
<1>6. CASE at < playerCount
  <2>1. Dialing'
    BY <1>1, <1>2, <1>3, <1>4, <1>6, LobbyStays, Numbers DEF Dialing
  <2> QED
    BY <1>1, <1>2, <1>5, <1>6, <2>1 DEF Protocol, Ground, Stages, Open
<1>7. CASE ~ at < playerCount
  <2>1. Gathering'
    BY <1>1, <1>4, <1>7 DEF Gathering
  <2> QED
    BY <1>1, <1>2, <1>5, <1>7, <2>1 DEF Protocol, Ground, Stages, Open
<1> QED
  BY <1>6, <1>7

\* A bot has seen everybody in the lobby.
LEMMA GatheredProtocol ==
  ASSUME Playing, MovesOn, stage = "gathering"
  PROVE  Protocol'
<1>1. /\ Stay /\ UNCHANGED <<played, state, commands, inbox>>
      /\ state[at] # NoFrame /\ Cardinality(DOMAIN state[at].players) >= playerCount
      /\ IF at < playerCount THEN stage' = "gathering" /\ at' = at + 1
                             ELSE stage' = "starting" /\ at' = 1
  BY DEF MovesOn, IsSatisfied, IsAwaited, Goto
<1>2. BotsInv /\ Ground /\ Gathering /\ played \in 0..Rounds
  BY DEF Playing, Protocol, Open, Ground
<1>3. clients = Bots /\ Joined = playerCount
  BY <1>2, Numbers DEF Ground, Population
<1>4. inbox[at] = <<>>
  <2>1. at \in clients /\ Unread(at) \in Nat /\ playerCount \in Nat
    BY <1>2, <1>3, Numbers
  <2>2. Cardinality(DOMAIN state[at].players) = Joined - Unread(at)
    <3>1. /\ 0 \in 0..Unread(at) /\ Seen(at, 0) = state[at]
          /\ Joined - (Unread(at) - 0) = Joined - Unread(at)
      BY <1>3, <2>1 DEF Seen
    <3> QED
      BY <1>1, <1>2, <2>1, <3>1 DEF Gathering, Filling
  <2> QED
    BY <1>1, <1>2, <1>3, <2>1, <2>2, Numbers
<1>5. \A c \in 1..at : inbox[c] = <<>>
  BY <1>2, <1>4, Numbers DEF Gathering
<1>6. Filling' /\ Silent'
  BY <1>1, <1>2, FillingStays DEF Gathering, Silent
<1>7. Ground'
  BY <1>1, <1>2, <1>3, GroundStays DEF Ground, Population
<1>8. CASE at < playerCount
  <2>1. Gathering'
    BY <1>1, <1>2, <1>5, <1>6, <1>8, Numbers DEF Gathering
  <2> QED
    BY <1>1, <1>2, <1>7, <1>8, <2>1 DEF Protocol, Ground, Stages, Open
<1>9. CASE ~ at < playerCount
  <2>1. \A c \in Bots : inbox[c] = <<>>
    BY <1>2, <1>5, <1>9, Numbers
  <2>2. Starting'
    BY <1>1, <1>6, <2>1, LobbyStays DEF Starting, AllRead, Filling
  <2> QED
    BY <1>1, <1>2, <1>7, <1>9, <2>2 DEF Protocol, Ground, Stages, Open
<1> QED
  BY <1>8, <1>9

\* Nobody can see the round before it is started, everybody finds its clue giver when it is.
\* A bot has seen whether it gives the hint.
LEMMA CastProtocol ==
  ASSUME Playing, MovesOn, stage = "casting"
  PROVE  Protocol'
<1>1. /\ Stay /\ UNCHANGED <<played, state, commands, inbox>>
      /\ state[at] # NoFrame /\ state[at].phase = "HINT"
      /\ clueGiver' = IF state[at].youAreClueGiver THEN at ELSE clueGiver
      /\ IF at < playerCount THEN stage' = "casting" /\ at' = at + 1
                             ELSE stage' = "hinting" /\ at' = 1
  BY DEF MovesOn, IsSatisfied, IsAwaited, Goto
<1>2. BotsInv /\ GameInv /\ Ground /\ Casting /\ played \in 0..Rounds /\ RolesKept
  BY DEF Playing, Protocol, Open, Ground, BotsInv
<1>3. clients = Bots /\ Joined = playerCount /\ at \in clients
  BY <1>2, Numbers DEF Ground, Population
<1>4. /\ Silent /\ phase = "HINT" /\ InRound
      /\ \A c \in Bots : Unread(c) <= 1 /\ OnlyNewest(c, "HINT") /\ (c < at => inbox[c] = <<>>)
      /\ clueGiver # 0 => KnowsGiver
      /\ \A c \in 1..(at - 1) : PlayerOf[c] = clueGiverID => clueGiver = c
  <2>1. ASSUME AllRead, phase # "HINT"
        PROVE  FALSE
    <3>1. state[at] = Current(at)
      BY <1>2, <1>3, <2>1, ReadIsCurrent DEF Ground, AllRead
    <3> QED
      BY <1>1, <1>2, <2>1, <3>1, CurrentShows, Numbers
  <2> QED
    BY <1>2, <2>1 DEF Casting
<1>5. inbox[at] = <<>>
  BY <1>1, <1>2, <1>3, <1>4, SeenIsNewest, Numbers
<1>6. state[at].youAreClueGiver <=> PlayerOf[at] = clueGiverID
  <2>1. state[at] = Current(at)
    BY <1>2, <1>3, <1>5, ReadIsCurrent DEF Ground
  <2> QED
    BY <1>2, <2>1, CurrentShows, Numbers
<1>7. \A c \in 1..at : inbox[c] = <<>>
  BY <1>2, <1>4, <1>5, Numbers
<1>8. clueGiver' # 0 => PlayerOf[clueGiver'] = clueGiverID
  BY <1>1, <1>4, <1>6 DEF KnowsGiver
<1>9. \A c \in 1..at : PlayerOf[c] = clueGiverID => clueGiver' = c
  <2> SUFFICES ASSUME NEW c \in 1..at, PlayerOf[c] = clueGiverID
               PROVE  clueGiver' = c
    OBVIOUS
  <2>1. c \in Clients /\ (c = at \/ c \in 1..(at - 1))
    BY <1>2, Numbers
  <2>2. CASE c = at
    BY <1>1, <1>6, <2>2
  <2>3. CASE c \in 1..(at - 1)
    <3>1. c # at
      BY <1>2, <2>3, Numbers
    <3>2. PlayerOf[at] # clueGiverID
      BY <1>2, <2>1, <3>1, Numbers
    <3> QED
      BY <1>1, <1>4, <1>6, <2>3, <3>2
  <2> QED
    BY <2>1, <2>2, <2>3
<1>10. Ground'
  BY <1>1, <1>2, <1>3, GroundStays DEF Ground, Population
<1>11. Silent' /\ InRound' /\ phase' = "HINT" /\ clueGiverID' = clueGiverID /\ Bots' = Bots
  BY <1>1, <1>4, LobbyStays DEF Silent, InRound
<1>12. CASE at < playerCount
  <2>1. \A c \in Bots' : Unread(c)' <= 1 /\ OnlyNewest(c, "HINT")' /\ (c < at' => inbox'[c] = <<>>)
    BY <1>1, <1>2, <1>4, <1>7, <1>11, <1>12, Numbers DEF Unread, OnlyNewest, Seen
  <2>2. Casting'
    BY <1>1, <1>2, <1>8, <1>9, <1>11, <1>12, <2>1, Numbers DEF Casting, KnowsGiver
  <2> QED
    BY <1>1, <1>2, <1>10, <1>12, <2>2 DEF Protocol, Ground, Stages, Open
<1>13. CASE ~ at < playerCount
  <2>1. \A c \in Bots : inbox[c] = <<>> /\ (PlayerOf[c] = clueGiverID => clueGiver' = c)
    BY <1>2, <1>7, <1>9, <1>13, Numbers
  <2>2. clueGiverID \in players
    BY <1>2, <1>4 DEF RolesKept, Running
  <2>3. PICK c \in Bots : PlayerOf[c] = clueGiverID
    BY <1>2, <1>3, <2>2 DEF Ground, Population
  <2>4. clueGiver' # 0
    BY <1>2, <2>1, <2>3, Numbers
  <2>5. Hinting'
    BY <1>1, <1>8, <1>11, <2>1, <2>4 DEF Hinting, KnowsGiver, AllRead
  <2> QED
    BY <1>1, <1>2, <1>10, <1>13, <2>5 DEF Protocol, Ground, Stages, Open
<1> QED
  BY <1>12, <1>13

\* A guesser has seen that it may guess.
LEMMA BriefedProtocol ==
  ASSUME Playing, MovesOn, stage = "briefing"
  PROVE  Protocol'
<1>1. /\ Stay /\ UNCHANGED <<played, state, aimed, commands, inbox, clueGiver>>
      /\ state[at] # NoFrame /\ (at = clueGiver \/ state[at].phase = "GUESS")
      /\ IF at < playerCount THEN stage' = "briefing" /\ at' = at + 1
                             ELSE stage' = "guessing" /\ at' = 1
  BY DEF MovesOn, IsSatisfied, IsAwaited, Goto
<1>2. BotsInv /\ GameInv /\ Ground /\ Briefing /\ played \in 0..Rounds
  BY DEF Playing, Protocol, Open, Ground, BotsInv
<1>3. clients = Bots /\ Joined = playerCount /\ at \in clients
  BY <1>2, Numbers DEF Ground, Population
<1>4. Ground'
  BY <1>1, <1>2, <1>3, GroundStays DEF Ground, Population
<1>5. /\ InRound' /\ KnowsGiver'
      /\ UNCHANGED <<phase, Bots, Placed, Guessing, clueGiver, playerCount>>
  <2>1. UNCHANGED <<phase, round, guesses, clueGiverID, Bots, playerCount>>
    BY <1>1, LobbyStays
  <2> QED
    BY <1>1, <1>2, <2>1 DEF Briefing, InRound, KnowsGiver, Placed, Guessing
<1>6. CASE /\ Only(clueGiver, "submit_hint") /\ AllRead /\ phase = "HINT"
           /\ \A c \in 1..(at - 1) : c = clueGiver
  <2>1. at = clueGiver
    <3>1. state[at] = Current(at)
      BY <1>2, <1>3, <1>6, ReadIsCurrent DEF Ground, AllRead
    <3> QED
      BY <1>1, <1>2, <1>6, <3>1, CurrentShows, Numbers
  <2>2. at < playerCount
    <3>1. at # 1 => 1 \in 1..(at - 1)
      BY <1>2, Numbers
    <3>2. at = 1
      BY <1>6, <2>1, <3>1
    <3> QED
      BY <1>2, <3>2, Numbers
  <2>3. \A c \in 1..(at' - 1) : c = clueGiver'
    BY <1>1, <1>2, <1>5, <1>6, <2>1, <2>2, Numbers
  <2>4. Briefing'
    BY <1>1, <1>5, <1>6, <2>3 DEF Briefing, Only, Sent, AllRead
  <2> QED
    BY <1>1, <1>2, <1>4, <2>2, <2>4 DEF Protocol, Ground, Stages, Open
<1>7. CASE /\ Silent /\ phase = "GUESS" /\ Placed = {}
           /\ \A c \in Bots : /\ Unread(c) <= 1 /\ OnlyNewest(c, "GUESS") /\ OnlyNewest(c, "REVEAL")
                              /\ c < at /\ c # clueGiver => inbox[c] = <<>>
  <2>1. at # clueGiver => inbox[at] = <<>>
    BY <1>1, <1>2, <1>3, <1>7, SeenIsNewest, Numbers
  <2>2. \A c \in 1..at : c # clueGiver => inbox[c] = <<>>
    BY <1>2, <1>7, <2>1, Numbers
  <2>3. \A c : /\ Unread(c)' = Unread(c)
               /\ OnlyNewest(c, "GUESS") => OnlyNewest(c, "GUESS")'
               /\ OnlyNewest(c, "REVEAL") => OnlyNewest(c, "REVEAL")'
    BY <1>1 DEF Unread, OnlyNewest, Seen
  <2>4. CASE at < playerCount
    <3>1. \A c \in Bots' : /\ Unread(c)' <= 1 /\ OnlyNewest(c, "GUESS")' /\ OnlyNewest(c, "REVEAL")'
                           /\ c < at' /\ c # clueGiver' => inbox'[c] = <<>>
      BY <1>1, <1>2, <1>5, <1>7, <2>2, <2>3, <2>4, Numbers
    <3>2. Briefing'
      BY <1>1, <1>5, <1>7, <3>1 DEF Briefing, Silent
    <3> QED
      BY <1>1, <1>2, <1>4, <2>4, <3>2 DEF Protocol, Ground, Stages, Open
  <2>5. CASE ~ at < playerCount
    <3>1. \A c \in Bots : c # clueGiver => inbox[c] = <<>>
      BY <1>2, <2>2, <2>5, Numbers
    <3>2. \A c \in Bots' : OnlyNewest(c, "REVEAL")'
      BY <1>5, <1>7, <2>3
    <3>3. \A c \in Bots' : Unread(c)' <= Cardinality(Placed') + (IF c = clueGiver' THEN 1 ELSE 0)
      BY <1>2, <1>5, <1>7, <2>3, <3>1, Numbers, FS_EmptySet
    <3>4. aimed = <<>> /\ Aimed' = {}
      BY <1>1, <1>2, EmptySeq DEF BotsInv, DriverSound, Aimed
    <3>5. Placed' # Guessing' /\ Placed' = {} /\ phase' = "GUESS"
      BY <1>2, <1>5, <1>7, Numbers DEF Guessing
    <3>6. \A c \in Clients : commands'[c] = <<>>
      BY <1>1, <1>7 DEF Silent
    <3>7. Guesses'
      BY <1>5, <3>2, <3>3, <3>4, <3>5, <3>6 DEF Guesses
    <3> QED
      BY <1>1, <1>2, <1>4, <2>5, <3>7 DEF Protocol, Ground, Stages, Open
  <2> QED
    BY <2>4, <2>5
<1> QED
  BY <1>2, <1>6, <1>7 DEF Briefing

\* A bot has seen the end of the round, and with it all there is to see.
LEMMA JudgedProtocol ==
  ASSUME Playing, MovesOn, stage = "judging"
  PROVE  Protocol'
<1>1. /\ Stay /\ UNCHANGED <<state, aimed, commands, inbox, clueGiver>>
      /\ state[at] # NoFrame /\ state[at].phase = "REVEAL"
      /\ played' = IF at = playerCount THEN played + 1 ELSE played
      /\ IF at < playerCount THEN stage' = "judging" /\ at' = at + 1
                             ELSE stage' = "starting" /\ at' = 1
  BY DEF MovesOn, IsSatisfied, IsAwaited, Goto
<1>2. BotsInv /\ GameInv /\ Ground /\ Judging /\ Guesses /\ played \in 0..Rounds
  BY DEF Playing, Protocol, Open, Ground, BotsInv, Judging
<1>3. clients = Bots /\ Joined = playerCount /\ at \in clients
  BY <1>2, Numbers DEF Ground, Population
<1>4. Ground'
  BY <1>1, <1>2, <1>3, GroundStays DEF Ground, Population
<1>5. inbox[at] = <<>>
  BY <1>1, <1>2, <1>3, SeenIsNewest, Numbers DEF Guesses
<1>6. phase = "REVEAL"
  <2>1. state[at] = Current(at)
    BY <1>2, <1>3, <1>5, ReadIsCurrent DEF Ground
  <2> QED
    BY <1>1, <1>2, <2>1, CurrentShows, Numbers
<1>7. \A c \in 1..at : inbox[c] = <<>> /\ phase = "REVEAL"
  BY <1>2, <1>5, <1>6, Numbers DEF Judging
<1>8. CASE at < playerCount
  <2>1. UNCHANGED played
    BY <1>1, <1>2, <1>8, Numbers
  <2>2. Guesses'
    BY <1>1, <1>2, <2>1, GuessesStay DEF Guesses, Aimed, Sent
  <2>3. (Aimed = Guessing)'
    BY <1>1, <1>2, <2>1, GuessesStay DEF Aimed, Judging
  <2>4. \A c \in 1..(at' - 1) : inbox'[c] = <<>> /\ phase' = "REVEAL"
    BY <1>1, <1>2, <1>7, <1>8, LobbyStays, Numbers
  <2>5. Judging'
    BY <2>2, <2>3, <2>4 DEF Judging
  <2> QED
    BY <1>1, <1>2, <1>4, <1>8, <2>1, <2>5 DEF Protocol, Ground, Stages, Open
<1>9. CASE ~ at < playerCount
  <2>1. played' = played + 1 /\ round = played' /\ played' \in 0..Rounds
    BY <1>1, <1>2, <1>9, BotsAssumption, Numbers DEF Guesses, InRound
  <2>2. \A c \in Bots : inbox[c] = <<>>
    BY <1>2, <1>7, <1>9, Numbers
  <2>3. \A c \in Clients : commands[c] = <<>>
    BY <1>2, <1>6 DEF Guesses, Judging
  <2>4. Starting'
    BY <1>1, <1>6, <2>1, <2>2, <2>3, LobbyStays DEF Starting, Silent, AllRead
  <2> QED
    BY <1>1, <1>4, <1>9, <2>1, <2>4 DEF Protocol, Ground, Stages, Open
<1> QED
  BY <1>8, <1>9

LEMMA MovesOnProtocol ==
  ASSUME Playing, MovesOn
  PROVE  Protocol'
BY GreetedProtocol, GatheredProtocol, CastProtocol, BriefedProtocol, JudgedProtocol
DEF MovesOn, Watching

\* Reading takes the oldest of what is under way to one bot, and nothing else.
LEMMA ReadShifts ==
  ASSUME BotsInv, Reads, Head(inbox[at]) # Refused
  PROVE  /\ Unread(at)' = Unread(at) - 1 /\ Unread(at) >= 1
         /\ \A i \in 0..Unread(at)' : i + 1 \in 1..Unread(at) /\ Seen(at, i)' = Seen(at, i + 1)
         /\ \A c \in Clients \ {at} : /\ inbox'[c] = inbox[c] /\ state'[c] = state[c]
                                      /\ Unread(c)' = Unread(c) /\ \A i : Seen(c, i)' = Seen(c, i)
<1> DEFINE rest == Tail(inbox[at])
<1>1. /\ inbox[at] # <<>> /\ at' = at
      /\ inbox' = [inbox EXCEPT ![at] = Tail(@)]
      /\ state' = [state EXCEPT ![at] = Head(inbox[at])]
  BY DEF Reads
<1>2. DOMAIN inbox = Clients /\ DOMAIN state = Clients /\ at \in Clients
  BY Numbers DEF BotsInv, Shipping, DriverSound
<1>3. /\ Mail(inbox[at]) /\ Unread(at) \in Nat /\ Unread(at) # 0
  BY <1>1, <1>2, Numbers
<1>4. /\ Head(inbox[at]) = inbox[at][1]
      /\ Len(rest) = Unread(at) - 1
      /\ \A i \in 1..(Unread(at) - 1) : rest[i] = inbox[at][i + 1]
  BY <1>1, <1>3, MailShortens DEF Unread
<1>5. /\ inbox'[at'] = rest /\ state'[at'] = inbox[at][1]
      /\ \A c \in Clients \ {at} : inbox'[c] = inbox[c] /\ state'[c] = state[c]
  BY <1>1, <1>2, <1>4
<1> HIDE DEF rest
<1>6. Unread(at)' = Unread(at) - 1 /\ Unread(at) >= 1
  BY <1>1, <1>3, <1>4, <1>5 DEF Unread
<1>7. ASSUME NEW i \in 0..Unread(at)'
      PROVE  i + 1 \in 1..Unread(at) /\ Seen(at, i)' = Seen(at, i + 1)
  <2>1. i \in Nat /\ i + 1 # 0 /\ i + 1 \in 1..Unread(at) /\ (i = 0 \/ i \in 1..(Unread(at) - 1))
    BY <1>3, <1>6
  <2> QED
    BY <1>1, <1>4, <1>5, <2>1 DEF Seen
<1>8. \A c \in Clients \ {at} : Unread(c)' = Unread(c) /\ \A i : Seen(c, i)' = Seen(c, i)
  BY <1>5 DEF Unread, Seen
<1> QED
  BY <1>5, <1>6, <1>7, <1>8

\* Reading on brings nobody past the newest state.
LEMMA ReadNewest ==
  ASSUME BotsInv, Reads, Head(inbox[at]) # Refused, NEW c \in Clients, NEW ph, OnlyNewest(c, ph)
  PROVE  OnlyNewest(c, ph)'
<1>1. Unread(at) \in Nat /\ at \in Clients /\ at' = at
  BY Numbers DEF Reads
<1>2. CASE c = at
  <2> SUFFICES ASSUME NEW i \in 0..(Unread(c)' - 1)
               PROVE  Seen(c, i)'.phase # ph
    BY DEF OnlyNewest
  <2>1. Unread(c)' = Unread(c) - 1 /\ \A j \in 0..Unread(c)' : Seen(c, j)' = Seen(c, j + 1)
    BY <1>1, <1>2, ReadShifts
  <2>2. i \in 0..Unread(c)' /\ i + 1 \in 0..(Unread(c) - 1)
    BY <1>1, <1>2, <2>1
  <2> QED
    BY <2>1, <2>2 DEF OnlyNewest
<1>3. CASE c # at
  BY <1>3, ReadShifts DEF OnlyNewest
<1> QED
  BY <1>2, <1>3

\* A bot that has read more is no less informed.
\* Only who is in the lobby reads a state.
LEMMA ReadGround ==
  ASSUME BotsInv, Ground, Reads, Head(inbox[at]) # Refused
  PROVE  Ground' /\ at \in clients
<1>1. Stay /\ UNCHANGED <<stage, at>> /\ inbox[at] # <<>>
  BY DEF Reads
<1>2. at \in Clients /\ Unread(at) \in Nat /\ Mail(inbox[at])
  BY Numbers
<1>3. at \in clients
  <2> SUFFICES ASSUME at \notin clients
               PROVE  FALSE
    OBVIOUS
  <2>1. inbox[at] = <<Refused>>
    BY <1>1, <1>2 DEF Ground, Population
  <2> QED
    BY <2>1
<1>4. \A c \in Clients \ {at} : inbox'[c] = inbox[c] /\ state'[c] = state[c]
  BY ReadShifts
<1>5. Population'
  BY <1>1, <1>3, <1>4, LobbyStays DEF Ground, Population
<1>6. \A c \in clients : /\ Seen(c, Unread(c))' = Current(c)'
                         /\ \A i \in 1..Unread(c)' : Seen(c, i)' # Refused
  <2> SUFFICES ASSUME NEW c \in clients
               PROVE  /\ Seen(c, Unread(c))' = Current(c)'
                      /\ \A i \in 1..Unread(c)' : Seen(c, i)' # Refused
    OBVIOUS
  <2>1. c \in Clients
    BY Numbers DEF Ground, Population
  <2>2. /\ Seen(c, Unread(c)) = Current(c) /\ Current(c)' = Current(c)
        /\ \A i \in 1..Unread(c) : Seen(c, i) # Refused
    BY <1>1, LobbyStays DEF Ground, Informed
  <2>3. CASE c = at
    <3>1. /\ Unread(c)' = Unread(c) - 1 /\ Unread(c) >= 1 /\ Unread(c) \in Nat
          /\ \A i \in 0..Unread(c)' : i + 1 \in 1..Unread(c) /\ Seen(c, i)' = Seen(c, i + 1)
      BY <1>1, <1>2, <2>3, ReadShifts
    <3>2. Unread(c)' \in 0..Unread(c)' /\ Unread(c)' + 1 = Unread(c)
      BY <3>1
    <3>3. Seen(c, Unread(c))' = Seen(c, Unread(c))
      <4>1. PICK k \in 0..Unread(c)' : k = Unread(c)' /\ k + 1 = Unread(c)
        BY <3>2
      <4>2. Seen(c, k)' = Seen(c, Unread(c))
        BY <3>1, <4>1
      <4>3. Seen(c, Unread(c))' = Seen(c, k)'
        BY <4>1 DEF Seen
      <4> QED
        BY <4>2, <4>3
    <3>4. \A i \in 1..Unread(c)' : Seen(c, i)' # Refused
      BY <2>2, <3>1
    <3> QED
      BY <2>2, <3>3, <3>4
  <2>4. CASE c # at
    BY <2>1, <2>2, <2>4, ReadShifts
  <2> QED
    BY <2>3, <2>4
<1>7. Informed'
  BY <1>1, <1>6, LobbyStays DEF Informed
<1>8. Counted'
  BY <1>1, LobbyStays DEF Ground, Counted
<1> QED
  BY <1>3, <1>5, <1>7, <1>8 DEF Ground

\* The only refusal there is ends a program with more bots than the server takes players.
LEMMA RefusedProtocol ==
  ASSUME Playing, Reads, Head(inbox[at]) = Refused
  PROVE  Protocol'
<1>1. /\ Stay /\ inbox[at] # <<>> /\ Watching /\ stage' = "failed"
      /\ UNCHANGED <<played, commands>>
  BY DEF Reads, Fails, Goto
<1>2. BotsInv /\ Ground /\ played \in 0..Rounds
  BY <1>1 DEF Playing, Protocol, Open, Ground, Watching
<1>3. at \notin clients
  <2>1. Mail(inbox[at]) /\ Unread(at) \in Nat /\ Unread(at) # 0
    BY <1>1, <1>2, Numbers
  <2>2. inbox[at][1] = Refused /\ 1 \in 1..Unread(at)
    BY <1>1, <2>1, MailShortens
  <2> QED
    BY <1>2, <2>2 DEF Ground, Informed, Seen
<1>4. stage = "greeting" /\ Greeting
  BY <1>1, <1>2, <1>3, Numbers DEF Ground, Population, Playing, Protocol
<1>5. Joined = at - 1 /\ Silent /\ Joined >= MaxPlayers
  BY <1>1, <1>2, <1>3, <1>4, Numbers DEF Greeting, Ground, Population
<1>6. playerCount > MaxPlayers
  BY <1>2, <1>5, Numbers, LobbyAssumption
<1>7. Closed'
  BY <1>1, <1>5, <1>6, LobbyStays DEF Closed, Silent
<1> QED
  BY <1>1, <1>2, <1>7 DEF Protocol, Stages, Open

\* The counts of players stay in step with what is left to read.
LEMMA ReadFilling ==
  ASSUME Playing, Reads, Head(inbox[at]) # Refused, Filling
  PROVE  Filling'
<1>1. /\ Stay /\ UNCHANGED played
  BY DEF Reads
<1>2. BotsInv /\ Ground
  BY DEF Playing, Protocol, Open, Ground, Reads, Watching
<1>3. /\ UNCHANGED <<phase, round, clients, Joined>> /\ Joined \in Nat
  BY <1>1, <1>2, LobbyStays, Numbers DEF Ground, Population
<1>4. ASSUME NEW c \in clients
      PROVE  /\ Unread(c)' <= Joined
             /\ \A i \in 0..Unread(c)' :
                  Seen(c, i)' # NoFrame
                    => Cardinality(DOMAIN Seen(c, i)'.players) = Joined - (Unread(c)' - i)
  <2>1. c \in Clients /\ Unread(c) \in Nat
    BY <1>2, Numbers DEF Ground, Population
  <2>2. /\ Unread(c) <= Joined
        /\ \A i \in 0..Unread(c) :
             Seen(c, i) # NoFrame
               => Cardinality(DOMAIN Seen(c, i).players) = Joined - (Unread(c) - i)
    BY DEF Filling
  <2>3. CASE c = at
    <3>1. /\ Unread(c)' = Unread(c) - 1
          /\ \A i \in 0..Unread(c)' : i + 1 \in 1..Unread(c) /\ Seen(c, i)' = Seen(c, i + 1)
      <4>1. at' = at
        BY DEF Reads
      <4> QED
        BY <1>2, <2>3, <4>1, ReadShifts
    <3>2. ASSUME NEW i \in 0..Unread(c)', Seen(c, i)' # NoFrame
          PROVE  Cardinality(DOMAIN Seen(c, i)'.players) = Joined - (Unread(c)' - i)
      <4>1. i + 1 \in 0..Unread(c) /\ Seen(c, i)' = Seen(c, i + 1)
        BY <2>1, <3>1
      <4>2. Cardinality(DOMAIN Seen(c, i + 1).players) = Joined - (Unread(c) - (i + 1))
        BY <2>2, <3>2, <4>1
      <4>3. Joined - (Unread(c) - (i + 1)) = Joined - (Unread(c)' - i)
        BY <1>3, <2>1, <3>1
      <4> QED
        BY <4>1, <4>2, <4>3
    <3> QED
      BY <1>3, <2>1, <2>2, <3>1, <3>2
  <2>4. CASE c # at
    BY <1>2, <2>1, <2>2, <2>4, ReadShifts
  <2> QED
    BY <2>3, <2>4
<1> QED
  BY <1>1, <1>3, <1>4 DEF Filling

LEMMA ReadsProtocol ==
  ASSUME Playing, Reads
  PROVE  Protocol'
<1>1. CASE Head(inbox[at]) = Refused
  BY <1>1, RefusedProtocol
<1>2. CASE Head(inbox[at]) # Refused
  <2>1. /\ Stay /\ inbox[at] # <<>> /\ Watching
        /\ UNCHANGED <<stage, at, played, clueGiver, aimed, commands>>
    BY <1>2 DEF Reads
  <2>2. BotsInv /\ Ground /\ played \in 0..Rounds
    BY <2>1 DEF Playing, Protocol, Open, Ground, Watching
  <2>3. Ground' /\ at \in clients
    BY <1>2, <2>2, ReadGround
  <2>4. /\ UNCHANGED <<phase, round, players, guesses, clueGiverID, playerCount, Bots, Joined>>
        /\ UNCHANGED <<Placed, Guessing, Aimed>>
    <3>1. UNCHANGED guesses
      BY <2>1 DEF Stay, lobbyVars, vars
    <3> QED
      BY <2>1, <3>1, LobbyStays DEF Placed, Guessing, Aimed
  <2>5. \A c \in Bots : Unread(c)' <= Unread(c) /\ Unread(c)' \in Nat /\ Unread(c) \in Nat
    <3>1. \A c \in Bots : c \in Clients /\ Unread(c) \in Nat
      BY <2>2, Numbers
    <3>2. Unread(at)' = Unread(at) - 1 /\ Unread(at) >= 1
      BY <1>2, <2>2, ReadShifts
    <3>3. \A c \in Bots : c # at => Unread(c)' = Unread(c)
      BY <1>2, <2>2, <3>1, ReadShifts
    <3>4. \A c \in Bots : c = at => Unread(c)' = Unread(at)'
      BY <2>1
    <3> QED
      BY <3>1, <3>2, <3>3, <3>4
  <2>6. \A c \in Bots : \A ph : OnlyNewest(c, ph) => OnlyNewest(c, ph)'
    BY <1>2, <2>2, ReadNewest, Numbers
  <2>7. \A c \in Bots : inbox[c] = <<>> => inbox'[c] = <<>>
    BY <1>2, <2>1, <2>2, ReadShifts, Numbers
  <2>8. CASE stage = "greeting"
    <3>1. Greeting /\ Filling
      BY <2>8 DEF Playing, Protocol, Greeting
    <3>2. Filling'
      BY <1>2, <3>1, ReadFilling
    <3>3. Joined = at /\ Silent
      BY <2>1, <2>2, <2>3, <3>1, Numbers DEF Greeting, Ground, Population
    <3>4. Greeting'
      BY <2>1, <2>4, <3>2, <3>3 DEF Greeting, Silent
    <3> QED
      BY <2>1, <2>2, <2>3, <2>8, <3>4 DEF Protocol, Ground, Stages, Open
  <2>9. CASE stage = "gathering"
    <3>1. Gathering /\ Filling
      BY <2>9 DEF Playing, Protocol, Gathering
    <3>2. Filling'
      BY <1>2, <3>1, ReadFilling
    <3>3. \A c \in 1..(at - 1) : c \in Bots
      BY <2>2, Numbers
    <3>4. Gathering'
      BY <2>1, <2>7, <3>1, <3>2, <3>3 DEF Gathering, Silent
    <3> QED
      BY <2>1, <2>2, <2>3, <2>9, <3>4 DEF Protocol, Ground, Stages, Open
  <2>10. CASE stage = "casting"
    <3>1. Casting
      BY <2>10 DEF Playing, Protocol
    <3>2. ~ AllRead
      BY <2>1, <2>2, Numbers DEF AllRead
    <3>3. \A c \in Bots' : /\ Unread(c)' <= 1 /\ OnlyNewest(c, "HINT")'
                           /\ c < at' => inbox'[c] = <<>>
      <4>1. \A c \in Bots : Unread(c) <= 1 /\ OnlyNewest(c, "HINT") /\ (c < at => inbox[c] = <<>>)
        BY <3>1, <3>2 DEF Casting
      <4>2. \A c \in Bots : Unread(c)' <= 1
        BY <2>5, <4>1
      <4> QED
        BY <2>1, <2>4, <2>6, <2>7, <4>1, <4>2
    <3>4. Casting'
      BY <2>1, <2>4, <3>1, <3>2, <3>3 DEF Casting, Silent, InRound, KnowsGiver
    <3> QED
      BY <2>1, <2>2, <2>3, <2>10, <3>4 DEF Protocol, Ground, Stages, Open
  <2>11. CASE stage = "briefing"
    <3>1. Briefing
      BY <2>11 DEF Playing, Protocol
    <3>2. ~ AllRead
      BY <2>1, <2>2, Numbers DEF AllRead
    <3>3. \A c \in Bots' : /\ Unread(c)' <= 1 /\ OnlyNewest(c, "GUESS")' /\ OnlyNewest(c, "REVEAL")'
                           /\ c < at' /\ c # clueGiver' => inbox'[c] = <<>>
      <4>1. \A c \in Bots : /\ Unread(c) <= 1 /\ OnlyNewest(c, "GUESS") /\ OnlyNewest(c, "REVEAL")
                            /\ c < at /\ c # clueGiver => inbox[c] = <<>>
        BY <3>1, <3>2 DEF Briefing
      <4>2. \A c \in Bots : Unread(c)' <= 1
        BY <2>5, <4>1
      <4> QED
        BY <2>1, <2>4, <2>6, <2>7, <4>1, <4>2
    <3>4. Briefing'
      BY <2>1, <2>4, <3>1, <3>2, <3>3 DEF Briefing, Silent, InRound, KnowsGiver
    <3> QED
      BY <2>1, <2>2, <2>3, <2>11, <3>4 DEF Protocol, Ground, Stages, Open
  <2>12. CASE stage = "judging"
    <3>1. Judging /\ Guesses
      BY <2>12 DEF Playing, Protocol, Judging
    <3>2. Cardinality(Placed) \in Nat
      <4>1. Placed \subseteq Bots /\ IsFiniteSet(Bots)
        BY <2>2, Numbers, FS_Interval DEF Placed
      <4> QED
        BY <4>1, FS_Subset, FS_CardinalityType
    <3>3. \A c \in Bots' : /\ OnlyNewest(c, "REVEAL")'
                           /\ Unread(c)' <= Cardinality(Placed') + (IF c = clueGiver' THEN 1 ELSE 0)
      <4>1. \A c \in Bots : /\ OnlyNewest(c, "REVEAL")
                            /\ Unread(c) <= Cardinality(Placed) + (IF c = clueGiver THEN 1 ELSE 0)
        BY <3>1 DEF Guesses
      <4>2. \A c \in Bots : Unread(c)' <= Cardinality(Placed) + (IF c = clueGiver THEN 1 ELSE 0)
        BY <2>5, <3>2, <4>1
      <4> QED
        BY <2>1, <2>4, <2>6, <4>1, <4>2
    <3>4. Guesses'
      BY <2>1, <2>4, <3>1, <3>3 DEF Guesses, Sent, InRound, KnowsGiver
    <3>5. \A c \in 1..(at - 1) : c \in Bots
      BY <2>2, Numbers
    <3>6. Judging'
      BY <2>1, <2>4, <2>7, <3>1, <3>4, <3>5 DEF Judging
    <3> QED
      BY <2>1, <2>2, <2>3, <2>12, <3>6 DEF Protocol, Ground, Stages, Open
  <2> QED
    BY <2>1, <2>8, <2>9, <2>10, <2>11, <2>12 DEF Watching
<1> QED
  BY <1>1, <1>2

-----------------------------------------------------------------------------
(***************************************************************************)
(* The server answers.                                                     *)
(***************************************************************************)

\* A command is carried out, and everybody in the lobby is sent the new state.
Carried(c) ==
  /\ Obeys(c, Head(commands[c]))
  /\ inbox' = [d \in Clients |-> IF d \in clients' THEN Append(inbox[d], frame'[d]) ELSE inbox[d]]

\* And the only one is served, so none is left.
LEMMA LastCommand ==
  ASSUME BotsInv, NEW c \in Clients, Serves(c), Len(commands[c]) = 1
  PROVE  /\ commands'[c] = <<>> /\ \A d \in Clients \ {c} : commands'[d] = commands[d]
         /\ Head(commands[c]) = commands[c][1] /\ Head(commands[c]) \in Command
<1>1. commands' = [commands EXCEPT ![c] = Tail(@)] /\ commands[c] # <<>>
  BY DEF Serves
<1>2. commands \in [Clients -> Seq(Command)]
  BY DEF BotsInv, Shipping
<1>3. /\ Head(commands[c]) \in Command
      /\ Tail(commands[c]) \in Seq(Command) /\ Len(Tail(commands[c])) = 0
  BY <1>1, <1>2, HeadTailProperties
<1>4. Tail(commands[c]) = <<>>
  BY <1>3, EmptySeq
<1>5. Head(commands[c]) = commands[c][1]
  BY <1>2
<1> QED
  BY <1>1, <1>2, <1>3, <1>4, <1>5

\* Everybody in the lobby has one state more to read, and the last is the present one.
LEMMA ServedFrames ==
  ASSUME BotsInv, NEW c \in Clients, Serves(c), Carried(c), Head(commands[c]) \in Command
  PROVE  /\ UNCHANGED <<driverVars, Bots>>
         /\ clients' \subseteq Clients
         /\ \A d \in clients' :
              /\ Unread(d)' = Unread(d) + 1
              /\ \A i \in 0..Unread(d) : Seen(d, i)' = Seen(d, i)
              /\ Seen(d, Unread(d))' = Current(d)'
         /\ \A d \in Clients \ clients' : inbox'[d] = inbox[d]
<1>1. UNCHANGED driverVars
  BY DEF Serves
<1>2. /\ clients' \subseteq Clients /\ ServedNext
      /\ \A d \in clients' : frame'[d] = Current(d)'
  BY ObeysPlays DEF BotsInv, GameInv, Carried, Current
<1>3. GameInv'
  BY <1>2, GameInvStep DEF BotsInv
<1>4. ASSUME NEW d \in clients'
      PROVE  /\ Unread(d)' = Unread(d) + 1
             /\ \A i \in 0..Unread(d) : Seen(d, i)' = Seen(d, i)
             /\ Seen(d, Unread(d))' = Current(d)'
  <2> DEFINE now == Current(d)'
             q   == inbox[d]
             t   == Append(q, now)
  <2>1. d \in Clients /\ Mail(q) /\ Len(q) \in Nat /\ Unread(d) = Len(q)
    BY <1>2, Numbers DEF Unread
  <2>2. inbox'[d] = t
    BY <1>2, <2>1 DEF Carried
  <2>3. Harmless(now)
    BY <1>3, StatesAreHarmless DEF Current
  <2>4. state' = state
    BY <1>1 DEF driverVars
  <2> HIDE DEF now
  <2>5. /\ Len(t) = Len(q) + 1 /\ t[Len(q) + 1] = now
        /\ \A i \in 1..Len(q) : t[i] = q[i]
    BY <2>1, <2>3, MailGrows
  <2> HIDE DEF t, q
  <2>6. Len(q) + 1 # 0 /\ \A i \in 0..Len(q) : i = 0 \/ i \in 1..Len(q)
    BY <2>1
  <2>7. Unread(d)' = Unread(d) + 1
    BY <2>1, <2>2, <2>5 DEF Unread
  <2>8. \A i \in 0..Unread(d) : Seen(d, i)' = Seen(d, i)
    BY <2>1, <2>2, <2>4, <2>5, <2>6 DEF Seen, q
  <2>9. Seen(d, Unread(d))' = now
    <3>1. Len(inbox'[d]) = Len(q) + 1
      BY <2>2, <2>5
    <3> QED
      BY <2>1, <2>2, <2>5, <2>6, <3>1 DEF Seen, Unread
  <2> QED
    BY <2>7, <2>8, <2>9 DEF now
<1>5. \A d \in Clients \ clients' : inbox'[d] = inbox[d]
  BY DEF Carried
<1> QED
  BY <1>1, <1>2, <1>4, <1>5 DEF driverVars, Bots

\* Nobody joins or leaves by other commands.
LEMMA ServedGround ==
  ASSUME BotsInv, Ground, NEW c \in Clients, Serves(c), Carried(c), Head(commands[c]) \in Command,
         GameInv', UNCHANGED <<clients, players, connected>>
  PROVE  Population' /\ Informed'
<1>1. /\ UNCHANGED <<driverVars, Bots>>
      /\ \A d \in clients' :
              /\ Unread(d)' = Unread(d) + 1
              /\ \A i \in 0..Unread(d) : Seen(d, i)' = Seen(d, i)
              /\ Seen(d, Unread(d))' = Current(d)'
      /\ \A d \in Clients \ clients' : inbox'[d] = inbox[d]
  BY ServedFrames
<1>2. Population'
  BY <1>1 DEF Ground, Population, Joined, driverVars
<1>3. ASSUME NEW d \in clients', NEW i \in 1..Unread(d)'
      PROVE  Seen(d, i)' # Refused
  <2>1. d \in clients /\ Unread(d) \in Nat /\ Unread(d)' = Unread(d) + 1
    BY <1>1, <1>3, Numbers DEF Ground, Population
  <2>2. CASE i \in 1..Unread(d)
    BY <1>1, <2>1, <2>2 DEF Ground, Informed
  <2>3. CASE i = Unread(d)'
    <3>1. Seen(d, i)' = Seen(d, Unread(d))'
      BY <2>3 DEF Seen
    <3> QED
      BY <1>1, <3>1, NextShows
  <2> QED
    BY <1>3, <2>1, <2>2, <2>3
<1>4. Informed'
  BY <1>1, <1>3 DEF Informed
<1> QED
  BY <1>2, <1>4

\* What everybody who has read all has seen is out of date, what the others have is no more recent.
\* A state that takes the game on is the only one to show the new phase.
LEMMA ServedNewest ==
  ASSUME BotsInv, Ground, NEW c \in Clients, Serves(c), Carried(c), Head(commands[c]) \in Command,
         NEW d \in clients, d \in clients', NEW ph, phase # ph,
         OnlyNewest(d, ph)
  PROVE  OnlyNewest(d, ph)'
<1>1. d \in Clients /\ Unread(d) \in Nat
  BY Numbers DEF Ground, Population
<1>2. /\ Unread(d)' = Unread(d) + 1
      /\ \A i \in 0..Unread(d) : Seen(d, i)' = Seen(d, i)
  BY ServedFrames
<1>3. Seen(d, Unread(d)).phase # ph
  BY <1>1, CurrentShows DEF Ground, Informed, BotsInv
<1>4. ASSUME NEW i \in 0..(Unread(d)' - 1)
      PROVE  Seen(d, i)'.phase # ph
  <2>1. i \in 0..Unread(d) /\ (i = Unread(d) \/ i \in 0..(Unread(d) - 1))
    BY <1>1, <1>2
  <2> QED
    BY <1>2, <1>3, <2>1 DEF OnlyNewest
<1> QED
  BY <1>4 DEF OnlyNewest

\* Who has nothing to read is behind nobody.
LEMMA NothingUnread ==
  ASSUME NEW c, inbox[c] = <<>>
  PROVE  Unread(c) = 0 /\ \A ph : OnlyNewest(c, ph)
BY EmptySeq DEF Unread, OnlyNewest

\* Both one more.
LEMMA OneMore ==
  ASSUME NEW a \in Nat, NEW b \in Nat, NEW i \in Nat
  PROVE  a - (b - i) = (a + 1) - ((b + 1) - i)
OBVIOUS

\* The bot that was dialled last joins, or finds the lobby full.
LEMMA JoinProtocol ==
  ASSUME Playing, NEW c \in Clients, Serves(c), GameInv', stage = "greeting"
  PROVE  Protocol'
<1>1. BotsInv /\ Ground /\ Greeting /\ played \in 0..Rounds /\ UNCHANGED driverVars
  BY DEF Playing, Protocol, Open, Ground, Serves
<1>2. commands[c] # <<>>
  BY DEF Serves
<1>3. c = at /\ Joined = at - 1 /\ Only(at, "join") /\ inbox[at] = <<>> /\ Filling
  <2>1. ~ Silent
    BY <1>2 DEF Silent
  <2>2. Joined = at - 1 /\ Only(at, "join") /\ inbox[at] = <<>>
    BY <1>1, <2>1 DEF Greeting
  <2>3. c = at
    BY <1>2, <2>2 DEF Only
  <2> QED
    BY <1>1, <2>2, <2>3 DEF Greeting
<1>4. /\ Head(commands[c]).type = "join" /\ Head(commands[c]) \in Command
      /\ \A d \in Clients : commands'[d] = <<>>
  BY <1>1, <1>3, LastCommand DEF Only, Sent
<1>5. /\ c \notin clients /\ clients \subseteq Clients /\ PlayerOf[c] \notin players
      /\ state[c] = NoFrame /\ clients \cup {c} = 1..at
  <2>1. /\ clients = 1..(at - 1) /\ clients \subseteq Clients
        /\ players = {PlayerOf[d] : d \in clients}
    BY <1>1, <1>3, Numbers DEF Ground, Population
  <2>2. c \notin clients /\ clients \cup {c} = 1..at
    BY <1>1, <1>3, <2>1, Numbers
  <2>3. PlayerOf[c] \notin players
    BY <1>1, <2>1, <2>2, Numbers
  <2> QED
    BY <1>1, <2>1, <2>2, <2>3 DEF Ground, Population
<1>6. /\ UNCHANGED <<stage, at, played, playerCount, state>>
  BY <1>1 DEF driverVars
<1>7. CASE Carried(c)
  <2>1. PICK n \in Names : Join(c, n)
    BY <1>4, <1>7 DEF Carried, Obeys
  <2>2. /\ clients' = clients \cup {c} /\ players' = players \cup {PlayerOf[c]}
        /\ connected' = [connected EXCEPT ![PlayerOf[c]] = TRUE]
        /\ UNCHANGED <<phase, round, roundsTotal>>
    BY <2>1 DEF Join, AddPlayer, board
  <2>3. /\ \A d \in clients' :
              /\ Unread(d)' = Unread(d) + 1
              /\ \A i \in 0..Unread(d) : Seen(d, i)' = Seen(d, i)
              /\ Seen(d, Unread(d))' = Current(d)'
        /\ \A d \in Clients \ clients' : inbox'[d] = inbox[d]
    BY <1>1, <1>4, <1>7, ServedFrames
  <2>4. Joined' = at /\ Joined' = Joined + 1 /\ Joined \in Nat
    <3>1. IsFiniteSet(players)
      BY <1>1, FiniteGroup DEF BotsInv, GameInv, TypeInv, TypeOK
    <3>2. Cardinality(players \cup {PlayerOf[c]}) = Cardinality(players) + 1
      BY <1>5, <3>1, FS_AddElement
    <3> QED
      BY <1>1, <1>3, <2>2, <3>2, Numbers DEF Joined
  <2>5. \A d \in Clients : Unread(d) \in Nat
    BY <1>1, Numbers
  <2>6. Population'
    <3>1. Joined' \in 0..playerCount' /\ clients' = 1..Joined'
      BY <1>1, <1>5, <1>6, <2>2, <2>4, Numbers
    <3>2. players' = {PlayerOf[d] : d \in clients'}
      BY <1>1, <2>2 DEF Ground, Population
    <3>3. \A p \in PlayerIDs : connected'[p] <=> p \in players'
      <4>1. connected \in [PlayerIDs -> BOOLEAN] /\ players \subseteq PlayerIDs
        BY <1>1 DEF BotsInv, GameInv, TypeInv, TypeOK
      <4> QED
        BY <1>1, <2>2, <4>1, OwnersArePlayers DEF Ground, Population
    <3>4. \A d \in Clients \ clients' : state'[d] = NoFrame /\ inbox'[d] = <<>>
      BY <1>1, <1>3, <1>6, <2>2, <2>3 DEF Ground, Population
    <3> QED
      BY <1>6, <3>1, <3>2, <3>3, <3>4 DEF Population
  <2>7. Unread(c) = 0
    BY <1>3, NothingUnread
  <2>8. ASSUME NEW d \in clients'
        PROVE  /\ d \in Clients /\ Unread(d)' <= Joined'
               /\ \A i \in 1..Unread(d)' : Seen(d, i)' # Refused
               /\ \A i \in 0..Unread(d)' : Seen(d, i)' # NoFrame =>
                    Cardinality(DOMAIN Seen(d, i)'.players) = Joined' - (Unread(d)' - i)
    <3>1. d \in Clients /\ (d = c \/ d \in clients)
      BY <1>5, <2>2
    <3>2. Unread(d) \in Nat /\ Unread(d)' = Unread(d) + 1
      BY <2>3, <2>5, <3>1
    <3>3. Unread(d)' <= Joined'
      BY <1>3, <2>4, <2>7, <3>1, <3>2 DEF Filling
    <3>4. \A i \in 0..Unread(d)' : i = Unread(d)' \/ i \in 0..Unread(d)
      BY <3>2
    <3>5. ASSUME NEW i \in 0..Unread(d)', i = Unread(d)'
          PROVE  Seen(d, i)' # Refused
                   /\ Cardinality(DOMAIN Seen(d, i)'.players) = Joined' - (Unread(d)' - i)
      <4>1. Seen(d, i)' = Current(d)'
        <5>1. Seen(d, i)' = Seen(d, Unread(d))'
          BY <3>5 DEF Seen
        <5> QED
          BY <2>3, <5>1
      <4>2. DOMAIN Current(d)'.players = players' /\ Current(d)' # Refused
        BY NextShows
      <4>3. Joined' - (Unread(d)' - i) = Joined'
        BY <2>4, <3>2, <3>5
      <4> QED
        BY <4>1, <4>2, <4>3 DEF Joined
    <3>6. ASSUME NEW i \in 0..Unread(d)
          PROVE  /\ i # 0 => Seen(d, i)' # Refused
                 /\ Seen(d, i)' # NoFrame =>
                      Cardinality(DOMAIN Seen(d, i)'.players) = Joined' - (Unread(d)' - i)
      <4>1. Seen(d, i)' = Seen(d, i)
        BY <2>3
      <4>2. CASE d = c
        <5>1. i = 0 /\ Seen(d, i) = NoFrame
          BY <1>5, <2>7, <4>2 DEF Seen
        <5> QED
          BY <4>1, <5>1
      <4>3. CASE d \in clients
        <5>1. /\ i # 0 => Seen(d, i) # Refused
              /\ Seen(d, i) # NoFrame =>
                   Cardinality(DOMAIN Seen(d, i).players) = Joined - (Unread(d) - i)
          BY <1>1, <1>3, <3>2, <4>3 DEF Ground, Informed, Filling
        <5>2. Joined - (Unread(d) - i) = Joined' - (Unread(d)' - i)
          <6>1. i \in Nat /\ Unread(d) \in Nat /\ Joined \in Nat
            BY <2>4, <3>2
          <6>2. Joined' = Joined + 1 /\ Unread(d)' = Unread(d) + 1
            BY <2>4, <3>2
          <6>3. Joined - (Unread(d) - i) = (Joined + 1) - ((Unread(d) + 1) - i)
            BY <6>1, OneMore
          <6> QED
            BY <6>2, <6>3
        <5> QED
          BY <4>1, <5>1, <5>2
      <4> QED
        BY <3>1, <4>2, <4>3
    <3> QED
      BY <3>1, <3>2, <3>3, <3>4, <3>5, <3>6
  <2>9. Informed'
    BY <2>3, <2>8 DEF Informed
  <2>10. Counted' /\ Filling'
    BY <1>1, <1>3, <1>6, <2>2, <2>8 DEF Ground, Counted, Running, Filling
  <2>11. Greeting'
    BY <1>4, <1>6, <2>4, <2>10 DEF Greeting, Silent
  <2> QED
    BY <1>1, <1>6, <2>6, <2>9, <2>10, <2>11 DEF Protocol, Stages, Open
<1>8. CASE ~ Carried(c)
  <2>1. /\ ~ Accepts(c, Head(commands[c]))
        /\ inbox' = [inbox EXCEPT ![c] = Append(@, Refused)] /\ UNCHANGED lobbyVars
    BY <1>8 DEF Serves, Carried
  <2>2. ~ HasRoomFor(PlayerOf[c])
    BY <1>4, <1>5, <2>1 DEF Accepts
  <2>3. Joined >= MaxPlayers
    BY <1>1, <2>2, Numbers, LobbyAssumption DEF HasRoomFor, Joined, Ground, Population
  <2>4. inbox'[c] = <<Refused>> /\ \A d \in Clients \ {c} : inbox'[d] = inbox[d]
    BY <1>1, <1>3, <2>1 DEF BotsInv, Shipping
  <2>5. /\ UNCHANGED <<phase, round, players, connected, clients, roundsTotal, GameState>>
    BY <2>1 DEF lobbyVars, vars, board, deal, GameState
  <2>6. Population'
    BY <1>1, <1>3, <1>6, <2>4, <2>5, Numbers DEF Ground, Population, Joined
  <2>7. \A d \in clients : /\ Unread(d)' = Unread(d) /\ Current(d)' = Current(d)
                           /\ Seen(d, Unread(d))' = Seen(d, Unread(d))
                           /\ \A i : Seen(d, i)' = Seen(d, i)
    BY <1>5, <1>6, <2>4, <2>5 DEF Unread, Seen, Current
  <2>8. Informed' /\ Counted' /\ Filling'
    BY <1>1, <1>3, <1>6, <2>5, <2>7
    DEF Ground, Informed, Counted, Running, Filling, Joined
  <2>9. Greeting'
    BY <1>3, <1>4, <1>6, <2>3, <2>4, <2>5, <2>8 DEF Greeting, Silent, Joined
  <2> QED
    BY <1>1, <1>6, <2>6, <2>8, <2>9 DEF Protocol, Stages, Open
<1> QED
  BY <1>7, <1>8

\* A command that nobody joins with changes neither the players nor the connections.
LEMMA CommandIsCarried ==
  ASSUME BotsInv, Ground, NEW c \in Clients, Serves(c), Head(commands[c]) \in Command,
         c \in clients, Head(commands[c]).type # "join", GameInv',
         Accepts(c, Head(commands[c]))
  PROVE  /\ Carried(c)
         /\ UNCHANGED <<clients, players, connected, driverVars, Bots, Joined>>
         /\ Population' /\ Informed'
<1>1. Carried(c)
  BY DEF Serves, Carried
<1>2. UNCHANGED <<clients, players, connected>>
  <2>1. clients' = clients
    BY <1>1 DEF Carried, Obeys
  <2>2. StartRound => UNCHANGED <<players, connected>>
    BY DEF StartRound
  <2>3. \A a, h : SubmitHint(a, h) => UNCHANGED <<players, connected>>
    BY DEF SubmitHint
  <2>4. \A a, p : PlaceGuess(a, p) => UNCHANGED <<players, connected>>
    BY DEF PlaceGuess
  <2> QED
    BY <1>1, <2>1, <2>2, <2>3, <2>4 DEF Carried, Obeys
<1>3. Population' /\ Informed'
  BY <1>1, <1>2, ServedGround
<1>4. UNCHANGED <<driverVars, Bots>>
  BY <1>1, ServedFrames
<1> QED
  BY <1>1, <1>2, <1>3, <1>4 DEF Joined

\* The round starts: enough are connected, and none is on.
LEMMA StartProtocol ==
  ASSUME Playing, NEW c \in Clients, Serves(c), GameInv', stage = "casting"
  PROVE  Protocol'
<1>1. BotsInv /\ GameInv /\ Ground /\ Casting /\ played \in 0..Rounds /\ UNCHANGED driverVars
  BY DEF Playing, Protocol, Open, Ground, Serves, BotsInv
<1>2. commands[c] # <<>>
  BY DEF Serves
<1>3. clients = Bots /\ Joined = playerCount
  BY <1>1, Numbers DEF Ground, Population
<1>4. /\ c = 1 /\ Only(1, "start_round") /\ AllRead /\ at = 1 /\ clueGiver = 0
      /\ phase \in {"LOBBY", "REVEAL"} /\ round = played /\ played < Rounds
  <2>1. ~ Silent
    BY <1>2 DEF Silent
  <2> QED
    BY <1>1, <1>2, <2>1 DEF Casting, Only
<1>5. /\ Head(commands[c]).type = "start_round" /\ Head(commands[c]) \in Command
      /\ \A d \in Clients : commands'[d] = <<>>
  BY <1>1, <1>4, LastCommand DEF Only, Sent
<1>6. c \in clients
  BY <1>1, <1>3, <1>4, Numbers
<1>7. Accepts(c, Head(commands[c]))
  <2>1. ConnectedIDs = players
    BY <1>1 DEF ConnectedIDs, Ground, Population, GameInv, TypeInv, TypeOK
  <2>2. MayStart
    BY <1>1, <1>3, <1>4, <2>1, Numbers DEF MayStart, MinPlayers, Joined
  <2> QED
    BY <1>5, <1>6, <2>2 DEF Accepts
<1>8. Carried(c) /\ Population' /\ Informed' /\ UNCHANGED <<clients, Bots>>
  BY <1>1, <1>5, <1>6, <1>7, CommandIsCarried
<1>9. phase' = "HINT" /\ round' = round + 1 /\ UNCHANGED roundsTotal
  BY <1>5, <1>8 DEF Carried, Obeys, StartRound
<1>10. UNCHANGED <<stage, at, played, playerCount, clueGiver>>
  BY <1>1 DEF driverVars
<1>11. Counted'
  BY <1>1, <1>4, <1>9, BotsAssumption DEF Ground, Counted, Running
<1>12. \A d \in Bots : Unread(d)' <= 1 /\ OnlyNewest(d, "HINT")'
  <2> SUFFICES ASSUME NEW d \in Bots
               PROVE  Unread(d)' <= 1 /\ OnlyNewest(d, "HINT")'
    OBVIOUS
  <2>1. Unread(d) = 0 /\ OnlyNewest(d, "HINT")
    BY <1>4, NothingUnread DEF AllRead
  <2>2. Unread(d)' = Unread(d) + 1
    BY <1>1, <1>3, <1>5, <1>8, ServedFrames
  <2>3. OnlyNewest(d, "HINT")'
    BY <1>1, <1>3, <1>4, <1>5, <1>8, <2>1, ServedNewest
  <2> QED
    BY <2>1, <2>2, <2>3
<1>13. Casting'
  <2>1. InRound'
    BY <1>4, <1>9, <1>10 DEF InRound
  <2>2. \A d \in Bots' : ~ d < at'
    BY <1>1, <1>4, <1>8, <1>10, Numbers
  <2>3. at' - 1 = 0 /\ clueGiver' = 0
    BY <1>4, <1>10
  <2>4. Silent'
    BY <1>5 DEF Silent
  <2> QED
    BY <1>8, <1>9, <1>12, <2>1, <2>2, <2>3, <2>4 DEF Casting
<1> QED
  BY <1>1, <1>8, <1>10, <1>11, <1>13 DEF Protocol, Stages, Open

\* The clue giver the program has found is the one the server has drawn.
LEMMA HintProtocol ==
  ASSUME Playing, NEW c \in Clients, Serves(c), GameInv', stage = "briefing"
  PROVE  Protocol'
<1>1. /\ BotsInv /\ GameInv /\ RolesKept /\ Ground /\ Briefing /\ played \in 0..Rounds
      /\ UNCHANGED driverVars
  BY DEF Playing, Protocol, Open, Ground, Serves, BotsInv
<1>2. commands[c] # <<>>
  BY DEF Serves
<1>3. clients = Bots /\ Joined = playerCount
  BY <1>1, Numbers DEF Ground, Population
<1>4. /\ c = clueGiver /\ Only(clueGiver, "submit_hint") /\ AllRead /\ phase = "HINT"
      /\ \A d \in 1..(at - 1) : d = clueGiver
      /\ InRound /\ KnowsGiver
  <2>1. ~ Silent
    BY <1>2 DEF Silent
  <2> QED
    BY <1>1, <1>2, <2>1 DEF Briefing, Only
<1>5. /\ Head(commands[c]).type = "submit_hint" /\ Head(commands[c]) \in Command
      /\ \A d \in Clients : commands'[d] = <<>>
  BY <1>1, <1>4, LastCommand DEF Only, Sent
<1>6. c \in clients
  BY <1>1, <1>3, <1>4, Numbers DEF KnowsGiver
<1>7. Accepts(c, Head(commands[c]))
  BY <1>4, <1>5, <1>6 DEF Accepts, MayHint, KnowsGiver
<1>8. Carried(c) /\ Population' /\ Informed' /\ UNCHANGED <<clients, Bots>>
  BY <1>1, <1>5, <1>6, <1>7, CommandIsCarried
<1>9. phase' = "GUESS" /\ UNCHANGED <<round, roundsTotal, clueGiverID, guesses>>
  BY <1>5, <1>8 DEF Carried, Obeys, SubmitHint
<1>10. UNCHANGED <<stage, at, played, playerCount, clueGiver>>
  BY <1>1 DEF driverVars
<1>11. Counted'
  BY <1>1, <1>4, <1>9 DEF Ground, Counted, Running
<1>12. \A d \in Bots : Unread(d)' <= 1 /\ OnlyNewest(d, "GUESS")' /\ OnlyNewest(d, "REVEAL")'
  <2> SUFFICES ASSUME NEW d \in Bots
               PROVE  Unread(d)' <= 1 /\ OnlyNewest(d, "GUESS")' /\ OnlyNewest(d, "REVEAL")'
    OBVIOUS
  <2>1. Unread(d) = 0 /\ OnlyNewest(d, "GUESS") /\ OnlyNewest(d, "REVEAL")
    BY <1>4, NothingUnread DEF AllRead
  <2>2. Unread(d)' = Unread(d) + 1
    BY <1>1, <1>3, <1>5, <1>8, ServedFrames
  <2>3. OnlyNewest(d, "GUESS")' /\ OnlyNewest(d, "REVEAL")'
    BY <1>1, <1>3, <1>4, <1>5, <1>8, <2>1, ServedNewest
  <2> QED
    BY <2>1, <2>2, <2>3
<1>13. Placed' = {}
  <2>1. \A p \in PlayerIDs : guesses[p] = NoGuess
    BY <1>1, <1>4 DEF RolesKept, Guessers
  <2> QED
    BY <1>1, <1>8, <1>9, <2>1, Numbers, OwnersArePlayers DEF Placed
<1>14. Briefing'
  <2>1. InRound' /\ KnowsGiver'
    BY <1>4, <1>9, <1>10 DEF InRound, KnowsGiver
  <2>2. \A d \in Bots' : d < at' => d = clueGiver'
    BY <1>1, <1>4, <1>8, <1>10, Numbers
  <2>3. Silent'
    BY <1>5 DEF Silent
  <2> QED
    BY <1>8, <1>9, <1>12, <1>13, <2>1, <2>2, <2>3 DEF Briefing
<1> QED
  BY <1>1, <1>8, <1>10, <1>11, <1>14 DEF Protocol, Stages, Open

\* A guess that is placed completes the round if it is the last one.
LEMMA GuessIsPlaced ==
  ASSUME BotsInv, Ground, Guesses, NEW c \in Guessing, c \notin Placed, clients = Bots,
         NEW point \in Board, PlaceGuess(PlayerOf[c], point), UNCHANGED <<clueGiver, Bots>>
  PROVE  /\ Placed' = Placed \cup {c}
         /\ Cardinality(Placed') = Cardinality(Placed) + 1 /\ Cardinality(Placed) \in Nat
         /\ phase' = IF Placed' = Guessing THEN "REVEAL" ELSE "GUESS"
         /\ UNCHANGED <<round, clueGiverID>>
<1> DEFINE placed == [guesses EXCEPT ![PlayerOf[c]] = point]
<1>1. /\ \A a, b \in Bots : PlayerOf[a] = PlayerOf[b] => a = b
      /\ \A b \in Bots : PlayerOf[b] \in PlayerIDs
      /\ c \in Bots /\ c # clueGiver /\ clueGiver \in Bots
      /\ PlayerOf[clueGiver] = clueGiverID
  BY Numbers, OwnersArePlayers DEF Guessing, Guesses, KnowsGiver
<1>2. /\ guesses' = placed /\ phase = "GUESS"
      /\ IF AllGuessesIn(placed, connected) THEN phase' = "REVEAL" ELSE phase' = phase
      /\ UNCHANGED <<round, clueGiverID>>
  BY DEF PlaceGuess, MayGuess, RevealRound, board
<1>3. guesses \in [PlayerIDs -> Board \cup {NoGuess}] /\ NoGuess # point
  BY GameConstants DEF BotsInv, GameInv, TypeInv, TypeOK
<1>4. /\ placed \in [PlayerIDs -> Board \cup {NoGuess}]
      /\ placed[PlayerOf[c]] # NoGuess
      /\ \A p \in PlayerIDs \ {PlayerOf[c]} : placed[p] = guesses[p]
  BY <1>1, <1>3
<1> HIDE DEF placed
<1>5. Placed' = {b \in Bots : placed[PlayerOf[b]] # NoGuess}
  BY <1>2 DEF Placed
<1>6. Placed' = Placed \cup {c}
  BY <1>1, <1>4, <1>5 DEF Placed
<1>7. Cardinality(Placed') = Cardinality(Placed) + 1 /\ Cardinality(Placed) \in Nat
  <2>1. Placed \subseteq Bots /\ IsFiniteSet(Bots)
    BY Numbers, FS_Interval DEF Placed
  <2>2. IsFiniteSet(Placed) /\ Cardinality(Placed) \in Nat
    BY <2>1, FS_Subset, FS_CardinalityType
  <2> QED
    BY <1>6, <2>2, FS_AddElement
<1>8. AllGuessesIn(placed, connected) <=> Placed' = Guessing
  <2>1. \A p \in PlayerIDs : connected[p] <=> \E b \in Bots : p = PlayerOf[b]
    BY DEF Ground, Population
  <2>2. PlayerOf[c] \in Guessers(placed)
    BY <1>1, <1>4 DEF Guessers
  <2>3. AllGuessesIn(placed, connected)
          <=> \A b \in Bots : b # clueGiver => placed[PlayerOf[b]] # NoGuess
    BY <1>1, <2>1, <2>2 DEF AllGuessesIn, PendingGuessers
  <2>4. clueGiver \notin Placed'
    <3>1. clueGiver \notin Placed
      <4>1. Aimed \subseteq Guessing
        BY ElementOfSeq, LenProperties DEF BotsInv, DriverSound, Guessing, Aimed
      <4> QED
        BY <4>1 DEF Guesses, Guessing
    <3> QED
      BY <1>1, <1>6, <3>1
  <2> QED
    BY <1>5, <2>3, <2>4 DEF Guessing
<1> QED
  BY <1>2, <1>6, <1>7, <1>8

\* Nobody guesses twice, and nobody but the guessers.
LEMMA GuessProtocol ==
  ASSUME Playing, NEW c \in Clients, Serves(c), GameInv', stage \in {"guessing", "judging"}
  PROVE  Protocol'
<1>1. /\ BotsInv /\ GameInv /\ Ground /\ Guesses /\ played \in 0..Rounds
      /\ (stage = "judging" => Judging) /\ UNCHANGED driverVars
  BY DEF Playing, Protocol, Open, Ground, Serves, BotsInv, Judging
<1>2. commands[c] # <<>>
  BY DEF Serves
<1>3. clients = Bots /\ Joined = playerCount
  BY <1>1, Numbers DEF Ground, Population
<1>4. /\ Sent(c, "place_guess") /\ c \in Aimed \ Placed /\ c \in Guessing
      /\ phase = "GUESS"
  <2>1. Aimed \subseteq Guessing
    BY <1>1, ElementOfSeq, LenProperties DEF BotsInv, DriverSound, Guessing, Aimed
  <2> QED
    BY <1>1, <1>2, <2>1 DEF Guesses
<1>5. /\ Head(commands[c]).type = "place_guess" /\ Head(commands[c]) \in Command
      /\ commands'[c] = <<>> /\ \A d \in Clients \ {c} : commands'[d] = commands[d]
  BY <1>1, <1>4, LastCommand DEF Sent
<1> DEFINE point == Head(commands[c]).point
<1>6. point \in Board
  BY <1>5 DEF Command
<1>7. c \in clients /\ c # clueGiver /\ clueGiver \in Bots
  BY <1>1, <1>3, <1>4, Numbers DEF Guessing, Guesses, KnowsGiver
<1>8. Accepts(c, Head(commands[c]))
  <2>1. PlayerOf[c] # clueGiverID
    BY <1>1, <1>3, <1>7, Numbers DEF Guesses, KnowsGiver
  <2>2. PlayerOf[c] \in players /\ connected[PlayerOf[c]]
    BY <1>1, <1>7, OwnersArePlayers DEF Ground, Population
  <2>3. InBounds(point)
    BY <1>6 DEF Board
  <2> QED
    BY <1>4, <1>5, <1>7, <2>1, <2>2, <2>3 DEF Accepts, MayGuess
<1>9. Carried(c) /\ Population' /\ Informed' /\ UNCHANGED <<clients, Bots>>
  BY <1>1, <1>5, <1>7, <1>8, CommandIsCarried
<1>10. PlaceGuess(PlayerOf[c], point) /\ RecordRound
  BY <1>5, <1>9 DEF Carried, Obeys
<1> HIDE DEF point
<1>11. UNCHANGED <<stage, at, played, playerCount, clueGiver, aimed>>
  BY <1>1 DEF driverVars
<1>12. /\ Placed' = Placed \cup {c}
       /\ Cardinality(Placed') = Cardinality(Placed) + 1 /\ Cardinality(Placed) \in Nat
       /\ phase' = IF Placed' = Guessing THEN "REVEAL" ELSE "GUESS"
       /\ UNCHANGED <<round, clueGiverID>>
  BY <1>1, <1>3, <1>4, <1>6, <1>9, <1>10, <1>11, GuessIsPlaced
<1>13. Counted'
  <2>1. round = played + 1 /\ roundsTotal = round - 1
    BY <1>1, <1>4 DEF Ground, Counted, Running, Guesses, InRound
  <2>2. CASE phase' = "REVEAL"
    BY <1>1, <1>10, <1>12, <2>1, <2>2, BotsAssumption DEF RecordRound, Counted, Running
  <2>3. CASE phase' = "GUESS"
    BY <1>10, <1>12, <2>1, <2>3 DEF RecordRound, Counted, Running
  <2> QED
    BY <1>12, <2>2, <2>3
<1>14. ASSUME NEW d \in Bots
       PROVE  /\ OnlyNewest(d, "REVEAL")'
              /\ Unread(d)' <= Cardinality(Placed') + (IF d = clueGiver THEN 1 ELSE 0)
  <2>1. /\ OnlyNewest(d, "REVEAL") /\ Unread(d) \in Nat
        /\ Unread(d) <= Cardinality(Placed) + (IF d = clueGiver THEN 1 ELSE 0)
    BY <1>1, Numbers DEF Guesses
  <2>2. Unread(d)' = Unread(d) + 1
    BY <1>1, <1>3, <1>5, <1>9, ServedFrames
  <2>3. OnlyNewest(d, "REVEAL")'
    BY <1>1, <1>3, <1>4, <1>5, <1>9, <2>1, ServedNewest
  <2> QED
    BY <1>12, <2>1, <2>2, <2>3
<1>15. UNCHANGED <<Guessing, Aimed>>
  BY <1>9, <1>11 DEF Guessing, Aimed
<1>16. Guesses'
  <2>1. InRound' /\ KnowsGiver'
    BY <1>1, <1>11, <1>12 DEF Guesses, InRound, KnowsGiver
  <2>2. \A d \in Clients : commands'[d] # <<>> => Sent(d, "place_guess")' /\ d \in Aimed' \ Placed'
    BY <1>1, <1>5, <1>12, <1>15 DEF Guesses, Sent
  <2>3. \A d \in Aimed' : commands'[d] = <<>> => d \in Placed'
    <3>1. Aimed \subseteq Clients
      BY <1>1, Numbers, ElementOfSeq, LenProperties DEF BotsInv, DriverSound, Aimed
    <3> QED
      BY <1>1, <1>5, <1>12, <1>15, <3>1 DEF Guesses
  <2>4. Placed' \subseteq Aimed'
    BY <1>1, <1>4, <1>12, <1>15 DEF Guesses
  <2> QED
    BY <1>9, <1>11, <1>12, <1>14, <1>15, <2>1, <2>2, <2>3, <2>4 DEF Guesses
<1>17. CASE stage = "guessing"
  BY <1>1, <1>9, <1>11, <1>13, <1>16, <1>17 DEF Protocol, Stages, Open
<1>18. CASE stage = "judging"
  <2>1. \A d \in 1..(at' - 1) : FALSE
    BY <1>1, <1>4, <1>11, <1>18 DEF Judging
  <2>2. Judging'
    BY <1>1, <1>15, <1>16, <1>18, <2>1 DEF Judging
  <2> QED
    BY <1>1, <1>9, <1>11, <1>13, <1>18, <2>2 DEF Protocol, Stages, Open
<1> QED
  BY <1>17, <1>18

-----------------------------------------------------------------------------
(***************************************************************************)
(* All of it.                                                              *)
(***************************************************************************)

\* Between two waits nothing is under way to the server.
LEMMA ServesProtocol ==
  ASSUME Playing, NEW c \in Clients, Serves(c), GameInv'
  PROVE  Protocol'
<1>1. commands[c] # <<>> /\ Open /\ stage \in Stages
  BY DEF Serves, Playing, Protocol
<1>2. ~ Silent
  BY <1>1 DEF Silent
<1>3. stage \notin {"dialing", "gathering", "starting", "hinting"}
  BY <1>2 DEF Playing, Protocol, Dialing, Gathering, Starting, Hinting
<1>4. stage \in {"greeting", "casting", "briefing", "guessing", "judging"}
  BY <1>1, <1>3 DEF Stages, Open
<1> QED
  BY <1>4, JoinProtocol, StartProtocol, HintProtocol, GuessProtocol

\* The program, in each of its stages.
LEMMA DriverProtocol ==
  ASSUME Playing, DriverNext
  PROVE  Protocol'
BY ReadsProtocol, DialsProtocol, StartsRoundProtocol, MovesOnProtocol, GivesHintProtocol,
   AimsProtocol
DEF DriverNext

\* After the end the connections close.
LEMMA DepartsProtocol ==
  ASSUME Playing, NEW c \in Clients, Departs(c)
  PROVE  Protocol'
<1>1. ~ Open /\ UNCHANGED <<driverVars, commands, roundsTotal>>
  BY DEF Departs, Leave
<1>2. UNCHANGED <<stage, played, playerCount>>
  BY <1>1 DEF driverVars
<1>3. Closed /\ stage \in Stages /\ played \in 0..Rounds
  BY <1>1 DEF Playing, Protocol
<1>4. Closed' /\ ~ Open'
  BY <1>1, <1>2, <1>3 DEF Closed, Silent, Open
<1>5. stage' \in {"ok", "failed"}
  BY <1>4 DEF Open
<1> QED
  BY <1>2, <1>3, <1>4, <1>5 DEF Protocol

LEMMA IdleProtocol ==
  ASSUME Playing, UNCHANGED botsVars
  PROVE  Protocol'
<1>1. UNCHANGED <<vars, clients, frame, roundsTotal, driverVars, commands, inbox>>
  BY DEF botsVars, lobbyVars
<1>2. UNCHANGED <<playerCount, stage, at, played, state, clueGiver, aimed, leaks>>
  BY <1>1 DEF driverVars
<1>3. /\ UNCHANGED <<phase, round, players, connected, guesses, clueGiverID, GameState>>
  BY <1>1 DEF vars, board, deal, GameState
<1>4. /\ UNCHANGED <<Bots, Joined, Placed, Aimed, Guessing, Running, Silent, Open>>
      /\ UNCHANGED <<AllRead, InRound, KnowsGiver>>
  BY <1>1, <1>2, <1>3
  DEF Bots, Joined, Placed, Aimed, Guessing, Running, Silent, Open, AllRead, InRound, KnowsGiver
<1>5. \A c : /\ Unread(c)' = Unread(c) /\ Current(c)' = Current(c)
             /\ \A i : Seen(c, i)' = Seen(c, i)
             /\ Seen(c, Unread(c))' = Seen(c, Unread(c))
  BY <1>1, <1>2, <1>3 DEF Unread, Current, Seen
<1>6. \A c, ph : OnlyNewest(c, ph)' <=> OnlyNewest(c, ph)
  BY <1>5 DEF OnlyNewest
<1>7. \A c, t : (Sent(c, t)' <=> Sent(c, t)) /\ (Only(c, t)' <=> Only(c, t))
  BY <1>1 DEF Sent, Only
<1>8. Population' <=> Population
  BY <1>1, <1>2, <1>3, <1>4 DEF Population
<1>9. (Informed' <=> Informed) /\ (Counted' <=> Counted) /\ (Filling' <=> Filling)
  BY <1>1, <1>2, <1>3, <1>4, <1>5 DEF Informed, Counted, Filling
<1>10. (Guesses' <=> Guesses) /\ (Casting' <=> Casting) /\ (Briefing' <=> Briefing)
  BY <1>1, <1>2, <1>3, <1>4, <1>5, <1>6, <1>7 DEF Guesses, Casting, Briefing
<1>11. (Dialing' <=> Dialing) /\ (Greeting' <=> Greeting) /\ (Gathering' <=> Gathering)
  BY <1>1, <1>2, <1>4, <1>7, <1>9 DEF Dialing, Greeting, Gathering
<1>12. (Starting' <=> Starting) /\ (Hinting' <=> Hinting) /\ (Judging' <=> Judging)
       /\ (Closed' <=> Closed)
  BY <1>1, <1>2, <1>3, <1>4, <1>10 DEF Starting, Hinting, Judging, Closed
<1> QED
  BY <1>2, <1>4, <1>8, <1>9, <1>10, <1>11, <1>12 DEF Protocol, Playing

\* Together.
LEMMA PlayingStep ==
  ASSUME Playing, [BotsNext]_botsVars
  PROVE  Playing'
<1>1. [ServedNext]_vars /\ BotsInv' /\ GameInv'
  BY BotsStep DEF Playing, BotsInv
<1>2. RolesKept'
  BY <1>1, RolesStep DEF Playing, BotsInv, GameInv
<1>3. CASE DriverNext
  BY <1>1, <1>2, <1>3, DriverProtocol DEF Playing
<1>4. ASSUME NEW c \in Clients, Serves(c) \/ Departs(c)
      PROVE  Playing'
  BY <1>1, <1>2, <1>4, ServesProtocol, DepartsProtocol DEF Playing
<1>5. CASE UNCHANGED botsVars
  BY <1>1, <1>2, <1>5, IdleProtocol DEF Playing
<1> QED
  BY <1>3, <1>4, <1>5 DEF BotsNext

LEMMA PlayingStart == BotsInit => Playing
<1> SUFFICES ASSUME BotsInit
             PROVE  Playing
  OBVIOUS
<1>1. BotsInv /\ RolesKept
  BY BotsStart, RolesInit
<1>2. /\ stage = "dialing" /\ at = 1 /\ played = 0 /\ phase = "LOBBY" /\ round = 0
      /\ players = {} /\ clients = {} /\ roundsTotal = 0
      /\ connected = [id \in PlayerIDs |-> FALSE]
      /\ \A c \in Clients : state[c] = NoFrame /\ commands[c] = <<>> /\ inbox[c] = <<>>
  BY DEF BotsInit, LobbyInit, Init
<1>3. Joined = 0
  BY <1>2, FS_EmptySet DEF Joined
<1>4. Population
  BY <1>1, <1>2, <1>3, Numbers DEF Population
<1>5. Informed /\ Counted
  BY <1>2 DEF Informed, Counted, Running
<1>6. Dialing
  BY <1>2, <1>3 DEF Dialing, Filling, Silent
<1>7. played \in 0..Rounds
  BY <1>2, BotsAssumption
<1> QED
  BY <1>1, <1>2, <1>4, <1>5, <1>6, <1>7 DEF Playing, Protocol, Stages, Open

\* A run ends after all its rounds, or because the lobby has no place for all its bots.
PlayedToTheEnd ==
  /\ stage = "ok" => played = Rounds /\ roundsTotal = Rounds /\ playerCount <= MaxPlayers
  /\ stage = "failed" => playerCount > MaxPlayers

\* While a bot waits there is a state for it to read, or a command for the server to serve.
NobodyWaitsInVain ==
  Watching /\ ~IsSatisfied => inbox[at] # <<>> \/ \E c \in Bots : commands[c] # <<>>

\* One guess for each bot but one.
LEMMA FewGuesses ==
  ASSUME BotsInv, Guesses
  PROVE  Cardinality(Placed) \in Nat /\ Cardinality(Placed) + 1 <= playerCount
<1>1. Aimed \subseteq Guessing
  BY ElementOfSeq, LenProperties DEF BotsInv, DriverSound, Guessing, Aimed
<1>2. Placed \subseteq Guessing /\ clueGiver \in Bots /\ clueGiver \notin Guessing
  BY <1>1, Numbers DEF Guesses, KnowsGiver, Guessing
<1>3. IsFiniteSet(Bots) /\ Cardinality(Bots) = playerCount
  BY Numbers, FS_Interval DEF Bots
<1>4. Guessing \subseteq Bots /\ Bots \ {clueGiver} = Guessing
  BY DEF Guessing
<1>5. Cardinality(Guessing) = playerCount - 1 /\ IsFiniteSet(Guessing)
  BY <1>2, <1>3, <1>4, FS_RemoveElement, FS_Subset
<1>6. Cardinality(Placed) <= Cardinality(Guessing) /\ Cardinality(Placed) \in Nat
  BY <1>2, <1>5, FS_Subset, FS_CardinalityType
<1> QED
  BY <1>5, <1>6, Numbers

\* No bot is further behind than there are players.
LEMMA MailsAreFew ==
  ASSUME Playing, Open, NEW c \in Clients
  PROVE  Unread(c) <= playerCount
<1>1. BotsInv /\ Ground /\ stage \in Stages
  BY DEF Playing, Protocol, Ground
<1>2. playerCount >= 2 /\ playerCount \in Nat /\ Joined \in 0..playerCount
  BY <1>1, Numbers DEF Ground, Population
<1>3. CASE c \notin clients
  <2>1. inbox[c] = <<>> \/ inbox[c] = <<Refused>>
    BY <1>1, <1>3 DEF Ground, Population
  <2>2. Len(<<>>) = 0 /\ Len(<<Refused>>) = 1
    OBVIOUS
  <2> QED
    <3>1. Unread(c) = 0 \/ Unread(c) = 1
      BY <2>1, <2>2, Zenon DEF Unread
    <3> QED
      BY <1>2, <3>1
<1>4. CASE c \in clients /\ stage \in {"dialing", "greeting", "gathering"}
  <2>1. Filling
    BY <1>4 DEF Playing, Protocol, Dialing, Greeting, Gathering
  <2>2. Unread(c) <= Joined
    BY <1>4, <2>1 DEF Filling
  <2> QED
    BY <1>1, <1>2, <2>2, Numbers
<1>5. CASE c \in clients /\ stage \in {"starting", "casting", "hinting", "briefing"}
  <2>1. c \in Bots
    BY <1>1, <1>5, Numbers DEF Ground, Population
  <2>2. AllRead \/ Unread(c) <= 1
    BY <1>5, <2>1 DEF Playing, Protocol, Starting, Casting, Hinting, Briefing
  <2> QED
    BY <1>1, <1>2, <2>1, <2>2, Numbers DEF AllRead
<1>6. CASE c \in clients /\ stage \in {"guessing", "judging"}
  <2>1. c \in Bots
    BY <1>1, <1>6, Numbers DEF Ground, Population
  <2>2. Guesses
    BY <1>6 DEF Playing, Protocol, Judging
  <2>3. Unread(c) <= Cardinality(Placed) + (IF c = clueGiver THEN 1 ELSE 0)
    BY <2>1, <2>2 DEF Guesses
  <2>4. Cardinality(Placed) \in Nat /\ Cardinality(Placed) + 1 <= playerCount
    BY <1>1, <2>2, FewGuesses
  <2> QED
    BY <1>1, <1>2, <2>3, <2>4, Numbers
<1>7. stage \notin {"ok", "failed"}
  BY DEF Open
<1> QED
  BY <1>1, <1>3, <1>4, <1>5, <1>6, <1>7 DEF Stages

\* What is under way to the server: one command of each bot at most.
LEMMA CommandsAreFew ==
  ASSUME Playing, NEW c \in Clients
  PROVE  /\ Len(commands[c]) <= 1
         /\ stage \notin {"greeting", "casting", "briefing", "guessing", "judging"}
              => commands[c] = <<>>
<1>1. stage \in Stages
  BY DEF Playing, Protocol
<1>2. commands[c] = <<>> \/ Len(commands[c]) = 1 => Len(commands[c]) <= 1
  <2>1. Len(<<>>) = 0
    OBVIOUS
  <2>2. \A n : n = 0 \/ n = 1 => n <= 1
    OBVIOUS
  <2> QED
    BY <2>1, <2>2, Zenon
<1>3. CASE stage \in {"dialing", "gathering", "starting", "hinting", "ok", "failed"}
  <2>1. Silent
    BY <1>3 DEF Playing, Protocol, Dialing, Gathering, Starting, Hinting, Open, Closed
  <2> QED
    BY <1>3, <1>2, <2>1 DEF Silent
<1>4. CASE stage \in {"greeting", "casting", "briefing"}
  <2>1. Silent \/ \E d, t : Only(d, t)
    BY <1>4 DEF Playing, Protocol, Greeting, Casting, Briefing
  <2>2. commands[c] = <<>> \/ Len(commands[c]) = 1
    BY <2>1, Zenon DEF Silent, Only, Sent
  <2> QED
    BY <1>4, <1>2, <2>2
<1>5. CASE stage \in {"guessing", "judging"}
  <2>1. Guesses
    BY <1>5 DEF Playing, Protocol, Judging
  <2>2. commands[c] = <<>> \/ Len(commands[c]) = 1
    BY <2>1 DEF Guesses, Sent
  <2> QED
    BY <1>5, <1>2, <2>2
<1> QED
  BY <1>1, <1>3, <1>4, <1>5 DEF Stages

LEMMA PlayingTypes == Playing => BotsTypeOK
<1> SUFFICES ASSUME Playing
             PROVE  BotsTypeOK
  OBVIOUS
<1>1. at \in Bots /\ played \in 0..Rounds /\ clueGiver \in 0..playerCount
  BY DEF Playing, Protocol, BotsInv, DriverSound
<1>2. Open => \A c \in Clients : Len(inbox[c]) <= playerCount
  BY MailsAreFew DEF Unread
<1> QED
  BY <1>1, <1>2, CommandsAreFew DEF BotsTypeOK

\* What the bot at hand waits for is on its way.
LEMMA PlayingOn == Playing => NobodyWaitsInVain
<1> SUFFICES ASSUME Playing, Watching, ~ IsSatisfied, inbox[at] = <<>>,
                    \A c \in Bots : commands[c] = <<>>
             PROVE  FALSE
  BY DEF NobodyWaitsInVain
<1>1. BotsInv /\ GameInv /\ Ground
  BY DEF Playing, Protocol, Ground, Watching, Open, BotsInv
<1>2. /\ at \in Bots /\ at \in Clients /\ 1 \in Bots /\ playerCount \in Nat
      /\ Bots \subseteq Clients /\ Bots = 1..playerCount
  BY <1>1, Numbers
<1>3. ASSUME at \in clients
      PROVE  state[at] = Current(at) /\ state[at] # NoFrame
  BY <1>1, <1>2, <1>3, ReadIsCurrent, CurrentShows DEF Ground
<1>4. CASE stage = "greeting"
  <2>1. Joined = at
    <3>1. Greeting
      BY <1>4 DEF Playing, Protocol
    <3>2. ~ Only(at, "join")
      BY <1>2 DEF Only, Sent
    <3>3. inbox[at] # <<Refused>>
      OBVIOUS
    <3> QED
      BY <3>1, <3>2, <3>3 DEF Greeting
  <2>2. at \in clients
    BY <1>1, <1>2, <2>1 DEF Ground, Population
  <2> QED
    BY <1>3, <1>4, <2>2 DEF IsSatisfied, IsAwaited
<1>5. CASE stage # "greeting"
  <2>1. Joined = playerCount /\ at \in clients
    BY <1>1, <1>2, <1>5 DEF Ground, Population, Watching
  <2>2. /\ state[at] = Current(at) /\ state[at] # NoFrame /\ state[at].phase = phase
        /\ DOMAIN state[at].players = players
    BY <1>1, <1>2, <1>3, <2>1, CurrentShows
  <2>3. ~ IsAwaited(state[at])
    BY <2>2 DEF IsSatisfied
  <2>4. stage # "gathering"
    <3>1. Cardinality(DOMAIN state[at].players) = playerCount
      BY <2>1, <2>2 DEF Joined
    <3>2. Cardinality(DOMAIN state[at].players) >= playerCount
      BY <1>2, <3>1
    <3> QED
      BY <2>3, <3>2 DEF IsAwaited
  <2>5. ASSUME stage = "casting"
        PROVE  FALSE
    <3>1. ~ Only(1, "start_round")
      BY <1>2 DEF Only, Sent
    <3>2. phase = "HINT"
      BY <2>5, <3>1 DEF Playing, Protocol, Casting
    <3> QED
      BY <2>2, <2>3, <2>5, <3>2 DEF IsAwaited
  <2>6. ASSUME stage = "briefing"
        PROVE  FALSE
    <3>1. Briefing /\ clueGiver \in Bots
      BY <1>1, <2>6, Numbers DEF Playing, Protocol, Briefing, KnowsGiver
    <3>2. ~ Only(clueGiver, "submit_hint")
      BY <3>1 DEF Only, Sent
    <3>3. phase = "GUESS"
      BY <3>1, <3>2 DEF Briefing
    <3> QED
      BY <2>2, <2>3, <2>6, <3>3 DEF IsAwaited
  <2>7. ASSUME stage = "judging"
        PROVE  FALSE
    <3>1. Judging /\ Guesses
      BY <2>7 DEF Playing, Protocol, Judging
    <3>2. Aimed \subseteq Placed
      <4>1. Aimed \subseteq Bots
        BY <3>1 DEF Judging, Guessing
      <4> QED
        BY <3>1, <4>1 DEF Guesses
    <3>3. phase = "REVEAL"
      <4>1. Placed = Guessing
        BY <3>1, <3>2 DEF Judging, Guesses
      <4> QED
        BY <3>1, <4>1 DEF Guesses
    <3> QED
      BY <2>2, <2>3, <2>7, <3>3 DEF IsAwaited
  <2> QED
    BY <1>5, <2>4, <2>5, <2>6, <2>7 DEF Watching
<1> QED
  BY <1>4, <1>5

\* A command of a bot is one of those the lobby handles: its counter has room for one round
\* more whenever the game has.
LEMMA ObeysHandles ==
  ASSUME Playing, Open, NEW c \in Clients, NEW m \in Command, Obeys(c, m)
  PROVE  LobbyNext
<1>1. CASE m.type = "join"
  BY <1>1 DEF Obeys, LobbyNext
<1>2. CASE m.type # "join"
  <2>1. c \in clients /\ BroadcastTo(clients) /\ UNCHANGED clients
    BY <1>2 DEF Obeys
  <2>2. CASE m.type = "start_round" /\ StartRound /\ UNCHANGED roundsTotal
    <3>1. roundsTotal = round
      BY <2>2 DEF StartRound, MayStart, Playing, Protocol, Counted, Running
    <3>2. PlainCommand(PlayerOf[c])
      BY <2>2, <3>1 DEF StartRound, PlainCommand
    <3> QED
      BY <2>1, <2>2, <3>2 DEF Handle, LobbyNext
  <2>3. CASE m.type = "submit_hint" /\ SubmitHint(PlayerOf[c], m.hint) /\ UNCHANGED roundsTotal
    <3>1. m.hint \in Hints
      BY <2>3 DEF Command
    <3>2. PlainCommand(PlayerOf[c])
      BY <2>3, <3>1 DEF PlainCommand
    <3> QED
      BY <2>1, <2>3, <3>2 DEF Handle, LobbyNext
  <2>4. CASE m.type = "place_guess" /\ PlaceGuess(PlayerOf[c], m.point) /\ RecordRound
    <3>1. m.point \in GuessPoints
      BY <2>4, BoardIsSquare, BotsAssumption DEF Command
    <3>2. GuessingCommand(PlayerOf[c])
      BY <2>4, <3>1 DEF GuessingCommand
    <3> QED
      BY <2>1, <2>4, <3>2 DEF Handle, LobbyNext
  <2> QED
    BY <1>2, <2>2, <2>3, <2>4 DEF Obeys
<1> QED
  BY <1>1, <1>2

LEMMA LobbyMoves ==
  ASSUME Playing, [BotsNext]_botsVars
  PROVE  [LobbyNext]_lobbyVars
<1>1. CASE DriverNext
  <2>1. Stay
    BY <1>1 DEF DriverNext, Reads, Dials, StartsRound, MovesOn, GivesHint, Aims
  <2> QED
    BY <2>1 DEF Stay
<1>2. ASSUME NEW c \in Clients, Serves(c)
      PROVE  [LobbyNext]_lobbyVars
  <2>1. Open /\ commands[c] # <<>> /\ commands[c] \in Seq(Command)
    BY <1>2 DEF Serves, Playing, BotsInv, Shipping
  <2>2. Head(commands[c]) \in Command
    BY <2>1, HeadTailProperties
  <2>3. Obeys(c, Head(commands[c])) \/ UNCHANGED lobbyVars
    BY <1>2 DEF Serves
  <2> QED
    BY <2>1, <2>2, <2>3, ObeysHandles
<1>3. ASSUME NEW c \in Clients, Departs(c)
      PROVE  LobbyNext
  BY <1>3 DEF Departs, LobbyNext
<1>4. CASE UNCHANGED botsVars
  BY <1>4 DEF botsVars
<1> QED
  BY <1>1, <1>2, <1>3, <1>4 DEF BotsNext

\* All the bots of a run that ends well have had a place.
AllSeated == stage = "ok" => Joined = playerCount

LEMMA SeatedStep ==
  ASSUME Playing, AllSeated, [BotsNext]_botsVars
  PROVE  AllSeated'
<1>1. Playing'
  BY PlayingStep
<1>2. CASE DriverNext
  <2>1. Stay
    BY <1>2 DEF DriverNext, Reads, Dials, StartsRound, MovesOn, GivesHint, Aims
  <2>2. stage' = "ok" => stage = "starting"
    BY <1>2
    DEF DriverNext, Reads, Dials, StartsRound, MovesOn, GivesHint, Aims, Goto, Fails, Watching
  <2>3. stage = "starting" => Joined = playerCount
    BY DEF Playing, Protocol, Population, Open
  <2> QED
    BY <2>1, <2>2, <2>3, LobbyStays DEF AllSeated
<1>3. ASSUME NEW c \in Clients, Serves(c)
      PROVE  AllSeated'
  BY <1>3 DEF Serves, Open, driverVars, AllSeated
<1>4. ASSUME NEW c \in Clients, Departs(c)
      PROVE  AllSeated'
  <2>1. UNCHANGED <<stage, playerCount, players>>
    BY <1>4 DEF Departs, driverVars, Leave, Disconnect, vars
  <2> QED
    BY <2>1 DEF AllSeated, Joined
<1>5. CASE UNCHANGED botsVars
  BY <1>5 DEF botsVars, lobbyVars, vars, driverVars, AllSeated, Joined
<1> QED
  BY <1>2, <1>3, <1>4, <1>5 DEF BotsNext

LEMMA BotsPlaying == BotsSpec => []Playing
BY PlayingStart, PlayingStep, PTL DEF BotsSpec

(***************************************************************************)
(* A lobby that is loaded does what any lobby may do, so all that is       *)
(* proved of lobbies holds of it (each connection of a bot has a handler   *)
(* that calls Join, Handle and Leave like any other).                      *)
(***************************************************************************)
THEOREM BotsUseTheLobby == BotsSpec => LobbySpec
<1>1. BotsInit => LobbyInit
  BY DEF BotsInit
<1> QED
  BY <1>1, LobbyMoves, BotsPlaying, PTL DEF BotsSpec, LobbySpec

(***************************************************************************)
(* With any number of bots no connection ever has more than one command    *)
(* under way and none is left over between two rounds, and no bot falls    *)
(* behind by more states than there are bots: for the 12 a lobby takes     *)
(* unless it is told otherwise, fewer than the 32 that are queued for a    *)
(* connection (runLobby, wsClient.Send).                                   *)
(***************************************************************************)
THEOREM BotsTypes == BotsSpec => []BotsTypeOK
BY BotsPlaying, PlayingTypes, PTL

(***************************************************************************)
(* Any number of bots, however late each of them sees the game, plays all  *)
(* its rounds and the server counts each of them once; the program fails   *)
(* if it has more bots than a lobby takes players, and only then, so no    *)
(* command of a round is ever refused (runLobby, waitFor).                 *)
(***************************************************************************)
THEOREM BotsPlayToTheEnd == BotsSpec => []PlayedToTheEnd
<1>1. BotsInit => AllSeated
  BY DEF BotsInit, AllSeated
<1>2. Playing /\ AllSeated /\ NotOverfull => PlayedToTheEnd
  BY DEF Playing, Protocol, Closed, Open, PlayedToTheEnd, AllSeated, NotOverfull, Joined
<1> QED
  BY <1>1, <1>2, SeatedStep, BotsPlaying, BotsUseTheLobby, LobbyHasSeats, PTL DEF BotsSpec

(***************************************************************************)
(* No bot waits for a state that has already passed or never comes: what   *)
(* it waits for is in its queue, or a command is under way to the server   *)
(* (waitFor).  That the queue is read and the command served is fairness,  *)
(* and left to the model checker.                                          *)
(***************************************************************************)
THEOREM BotsNeverWaitInVain == BotsSpec => []NobodyWaitsInVain
BY BotsPlaying, PlayingOn, PTL
=============================================================================
