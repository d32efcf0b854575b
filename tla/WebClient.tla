----------------------------- MODULE WebClient ------------------------------
(***************************************************************************)
(* The page of one player, web/app.js: entering and leaving lobbies, the   *)
(* WebSocket with its reconnect timer, the session that survives a reload, *)
(* and the marker with its lock against a second guess.  JavaScript runs   *)
(* one event handler at a time, so each is one action; what comes between  *)
(* is time: sockets open, break and close when the network says so, and    *)
(* states and guesses are under way while the game goes on.  The server is *)
(* as the page knows it: the phases of each lobby's game, which the others *)
(* drive, and the player IDs it gives out.  A lobby is asked for before it *)
(* is entered, and whatever happens on the page until the answer is there  *)
(* does not keep it from being entered.  Left out: what is drawn, and with *)
(* it who is there; the buttons that only send a command, which the server *)
(* may get from anybody in the lobby; the reset of a game; a lobby that    *)
(* vanishes.                                                               *)
(***************************************************************************)
EXTENDS Integers, Sequences, FiniteSets, FiniteSetsExt

CONSTANTS
  Lobbies, NoLobby,
  Sockets, NoSocket,
  NoFrame, NoClaim,
  MaxRounds,      \* bound: rounds played, in all lobbies together
  MaxInFlight,    \* bound: the games wait while so many states are under way
  MaxTrouble,     \* bound: connections that fail or break, reloads, departures
  MaxRequests,    \* bound: requests for a lobby under way at a time
  MaxIDs          \* bound: no lobby is asked for once so many player IDs are given out

Phases == {"LOBBY", "HINT", "GUESS", "REVEAL"}
Frames == [lobby : Lobbies, you : Nat, round : Nat, phase : Phases,
           youAreClueGiver : BOOLEAN, yourGuess : BOOLEAN]
Claims == [lobby : Lobbies, you : Nat, round : Nat]

ASSUME WebClientAssumption ==
  /\ NoLobby \notin Lobbies /\ NoSocket \notin Sockets
  /\ NoFrame \notin Frames /\ NoClaim \notin Claims
  /\ {MaxRounds, MaxInFlight, MaxTrouble, MaxRequests, MaxIDs} \subseteq Nat

VARIABLES
  ws, leaving, reconnectTimer,          \* the timer holds the lobby of its closure
  session, url,                         \* sessionStorage, and the lobby in the address bar
  asked,                                \* how many requests are under way for each lobby
  screen, snapshot, lastRoundKey,
  pendingGuess, guessSubmitted,
  sock,           \* all sockets of the page, the one in ws and earlier ones
  game, issued,   \* the lobbies' games; the lobby that gave out each player ID
  trouble,
  stray,          \* a socket that is not the page's any more had its handler run
  hasty,          \* since the page was loaded, a lobby was entered with a socket still there
  claim, lost     \* what guessSubmitted was set for; whether that guess got lost

connectionVars == <<ws, leaving, reconnectTimer, sock>>
markerVars     == <<pendingGuess, guessSubmitted, claim, lost>>
viewVars       == <<screen, snapshot, lastRoundKey>>
serverVars     == <<game, issued>>
userVars       == <<asked, hasty>>
vars == <<connectionVars, session, url, userVars, viewVars, markerVars, serverVars, trouble, stray>>

NoID == 0
NoSession == [lobby |-> NoLobby, playerId |-> NoID]
NoRequest == [l \in Lobbies |-> 0]
Closed == [state |-> "closed", lobby |-> NoLobby, playerId |-> NoID, frames |-> <<>>, guesses |-> 0]

Init ==
  /\ ws = NoSocket /\ leaving = FALSE /\ reconnectTimer = NoLobby
  /\ session = NoSession /\ url = NoLobby
  /\ asked = NoRequest /\ hasty = FALSE
  /\ screen = "lobby" /\ snapshot = NoFrame /\ lastRoundKey = <<>>
  /\ pendingGuess = FALSE /\ guessSubmitted = FALSE
  /\ sock = [s \in Sockets |-> Closed]
  /\ game = [l \in Lobbies |-> [round |-> 0, phase |-> "LOBBY", giver |-> NoID, guessed |-> {}]]
  /\ issued = <<>>
  /\ trouble = 0 /\ stray = FALSE /\ claim = NoClaim /\ lost = FALSE

IsOpen(s) == s # NoSocket /\ sock[s].state = "open"
Trouble == trouble < MaxTrouble /\ trouble' = trouble + 1

\* The sockets that have not closed.
Live == {s \in Sockets : sock[s].state # "closed"}

\* Bound: a page with a stray socket is not followed any further.
Followed == ~stray

-----------------------------------------------------------------------------
(***************************************************************************)
(* Connections.                                                            *)
(***************************************************************************)
\* Mutant: the page still counts as leaving.
ClearsTimer == reconnectTimer' = NoLobby /\ UNCHANGED leaving

\* Mutant: a timer outlives the connection it was to make.
KeepsTimer == leaving' = FALSE /\ UNCHANGED reconnectTimer

\* How connect() begins.
ComesBack == reconnectTimer' = NoLobby /\ leaving' = FALSE

\* connect(): a new socket, whatever becomes of the old one.
Connect(l, sockets, id) ==
  /\ ComesBack
  /\ session' = [lobby |-> l, playerId |-> id]
  /\ \E s \in Sockets : sockets[s].state = "closed"
  /\ ws' = CHOOSE s \in Sockets : sockets[s].state = "closed"
  /\ sock' = [sockets EXCEPT ![ws'] = [Closed EXCEPT !.state = "connecting", !.lobby = l, !.playerId = id]]

\* Mutant: whatever lobby it belongs to.
AnyID(l) == session.playerId

\* A new lobby means a new identity.
IDIn(l) == IF session.lobby = l THEN session.playerId ELSE NoID

\* The buttons "create" and "join" and the code's enter key, on the screen that is there
\* until the first state arrives: the server is asked.
Asks(l) ==
  /\ Followed /\ screen = "lobby"
  /\ MapThenSumSet(LAMBDA k : asked[k], Lobbies) < MaxRequests /\ Len(issued) < MaxIDs
  /\ asked' = [asked EXCEPT ![l] = @ + 1]
  /\ UNCHANGED <<connectionVars, session, url, hasty, viewVars, markerVars, serverVars>>
  /\ UNCHANGED <<trouble, stray>>

\* The request fails, or there is no such lobby.
Declines(l) ==
  /\ Followed /\ asked[l] > 0
  /\ asked' = [asked EXCEPT ![l] = @ - 1]
  /\ UNCHANGED <<connectionVars, session, url, hasty, viewVars, markerVars, serverVars>>
  /\ UNCHANGED <<trouble, stray>>

\* The answer is there: enterLobby(), wherever the page is by now.
Enter(l) ==
  /\ Followed /\ asked[l] > 0
  /\ asked' = [asked EXCEPT ![l] = @ - 1]
  /\ hasty' = (hasty \/ Live # {})
  /\ url' = l
  /\ Connect(l, sock, IDIn(l))
  /\ UNCHANGED <<viewVars, markerVars, serverVars, trouble, stray>>

\* The timer of scheduleReconnect().
Reconnect ==
  /\ Followed /\ reconnectTimer # NoLobby
  /\ Connect(reconnectTimer, sock, session.playerId)
  /\ UNCHANGED <<url, userVars, viewVars, markerVars, serverVars, trouble, stray>>

\* Mutant: the timer goes on.
DisconnectOnly ==
  /\ leaving' = TRUE /\ UNCHANGED reconnectTimer
  /\ sock' = [s \in Sockets |-> IF s = ws /\ sock[s].state # "closed"
                                THEN [sock[s] EXCEPT !.state = "closing", !.frames = <<>>] ELSE sock[s]]
  /\ ws' = NoSocket

Disconnect ==
  /\ leaving' = TRUE /\ reconnectTimer' = NoLobby
  /\ sock' = [s \in Sockets |-> IF s = ws /\ sock[s].state # "closed"
                                THEN [sock[s] EXCEPT !.state = "closing", !.frames = <<>>] ELSE sock[s]]
  /\ ws' = NoSocket

\* The button "leave": the session forgets the lobby.
Leave ==
  /\ Followed /\ screen = "game" /\ Trouble
  /\ Disconnect
  /\ session' = NoSession /\ url' = NoLobby
  /\ snapshot' = NoFrame /\ screen' = "lobby"
  /\ UNCHANGED <<userVars, lastRoundKey, markerVars, serverVars, stray>>

\* A reload, an invitation or the bare address opened in the same tab: the sockets are
\* closed, what was asked is forgotten, and boot() starts over with what the session holds.
\* It asks for an invitation's lobby by itself once it knows the player's name.
Load(l) ==
  /\ Followed /\ Trouble
  /\ url' = l /\ hasty' = FALSE
  /\ snapshot' = NoFrame /\ lastRoundKey' = <<>>
  /\ pendingGuess' = FALSE /\ guessSubmitted' = FALSE /\ claim' = NoClaim /\ lost' = FALSE
  /\ IF session.lobby # NoLobby /\ l \in {NoLobby, session.lobby}
     THEN /\ screen' = "game"
          /\ Connect(session.lobby, [s \in Sockets |-> Closed], session.playerId)
          /\ asked' = NoRequest
     ELSE /\ screen' = "lobby"
          /\ ws' = NoSocket /\ leaving' = FALSE /\ reconnectTimer' = NoLobby
          /\ sock' = [s \in Sockets |-> Closed]
          /\ asked' \in {NoRequest} \cup {[NoRequest EXCEPT ![k] = 1] : k \in {l} \ {NoLobby}}
          /\ UNCHANGED session
  /\ UNCHANGED <<serverVars, stray>>

\* The handler of "close": back into the lobby of that socket, unless the page is leaving.
OnClose(s) ==
  /\ reconnectTimer' = IF leaving THEN reconnectTimer ELSE sock[s].lobby
  /\ stray' = (stray \/ (~leaving /\ s # ws))
  /\ sock' = [sock EXCEPT ![s] = Closed]
  /\ UNCHANGED <<ws, leaving, session, url, userVars, viewVars, serverVars>>

\* The connection is refused or breaks; what is under way gets lost.
Breaks(s) ==
  /\ Followed /\ sock[s].state \in {"connecting", "open"} /\ Trouble
  /\ OnClose(s)
  /\ lost' = (lost \/ (sock[s].guesses > 0 /\ guessSubmitted))
  /\ UNCHANGED <<pendingGuess, guessSubmitted, claim>>

\* The peer has answered the close frame, in its own time.
Closes(s) ==
  /\ Followed /\ sock[s].state = "closing" /\ sock[s].guesses = 0
  /\ OnClose(s)
  /\ UNCHANGED <<markerVars, trouble>>

-----------------------------------------------------------------------------
(***************************************************************************)
(* States and the marker.                                                  *)
(***************************************************************************)
FrameFor(l, id, g) ==
  [lobby |-> l, you |-> id, round |-> g.round, phase |-> g.phase,
   youAreClueGiver |-> id = g.giver, yourGuess |-> id \in g.guessed]

\* The round a frame shows, for the player it is for.
RoundOf(f) == [lobby |-> f.lobby, you |-> f.you, round |-> f.round]

IsReset(f) == <<f.round, f.phase>> # lastRoundKey /\ f.phase # "GUESS"

\* Mutant: the lock outlives the round.
KeepsLock(f) ==
  /\ pendingGuess' = (pendingGuess /\ ~IsReset(f))
  /\ guessSubmitted' = (guessSubmitted \/ f.yourGuess)

\* What onState() makes of the marker.
OnStateMarker(f) ==
  /\ pendingGuess' = (pendingGuess /\ ~IsReset(f))
  /\ guessSubmitted' = ((guessSubmitted /\ ~IsReset(f)) \/ f.yourGuess)

\* onState().
Receives(s) ==
  LET f == Head(sock[s].frames)
  IN  /\ Followed /\ IsOpen(s) /\ sock[s].frames # <<>>
      /\ sock' = [sock EXCEPT ![s].frames = Tail(@)]
      /\ session' = [session EXCEPT !.playerId = f.you]
      /\ lastRoundKey' = <<f.round, f.phase>>
      /\ OnStateMarker(f)
      /\ claim' = IF f.yourGuess THEN RoundOf(f) ELSE IF IsReset(f) THEN NoClaim ELSE claim
      /\ lost' = (lost /\ ~IsReset(f) /\ ~f.yourGuess)
      /\ snapshot' = f /\ screen' = "game"
      /\ stray' = (stray \/ s # ws)
      /\ UNCHANGED <<ws, leaving, reconnectTimer, url, userVars, serverVars, trouble>>

MayMark == snapshot # NoFrame /\ snapshot.phase = "GUESS" /\ ~snapshot.youAreClueGiver /\ ~guessSubmitted

\* A click into the grid.
Marks ==
  /\ Followed /\ MayMark
  /\ pendingGuess' = TRUE
  /\ UNCHANGED <<guessSubmitted, claim, lost>>
  /\ UNCHANGED <<connectionVars, session, url, userVars, viewVars, serverVars, trouble, stray>>

\* The button "guess"; send() drops what it cannot send.
Guesses ==
  /\ Followed /\ MayMark /\ pendingGuess
  /\ sock' = [s \in Sockets |-> IF s = ws /\ IsOpen(s) THEN [sock[s] EXCEPT !.guesses = @ + 1] ELSE sock[s]]
  /\ guessSubmitted' = TRUE
  /\ claim' = RoundOf(snapshot) /\ lost' = ~IsOpen(ws)
  /\ UNCHANGED <<pendingGuess, ws, leaving, reconnectTimer>>
  /\ UNCHANGED <<session, url, userVars, viewVars, serverVars, trouble, stray>>

-----------------------------------------------------------------------------
(***************************************************************************)
(* The server.                                                             *)
(***************************************************************************)
\* Every open socket of the lobby is sent a state.
Sent(sockets, l, g) ==
  [s \in Sockets |->
     IF sockets[s].state = "open" /\ sockets[s].lobby = l
     THEN [sockets[s] EXCEPT !.frames = Append(@, FrameFor(l, sockets[s].playerId, g))]
     ELSE sockets[s]]

\* What the server leaves alone on the page.
Untouched ==
  UNCHANGED <<ws, leaving, reconnectTimer, session, url, userVars, viewVars, markerVars, trouble, stray>>

\* A connection without a player ID is given one; who is in the lobby gets a state.
Opens(s) ==
  LET l  == sock[s].lobby
      id == IF sock[s].playerId = NoID THEN Len(issued) + 1 ELSE sock[s].playerId
  IN  /\ Followed /\ sock[s].state = "connecting"
      /\ issued' = IF sock[s].playerId = NoID THEN Append(issued, l) ELSE issued
      /\ sock' = Sent([sock EXCEPT ![s].state = "open", ![s].playerId = id], l, game[l])
      /\ Untouched /\ UNCHANGED game

\* A guess arrives, perhaps in another phase or round than it was placed in; it reveals the
\* round if it was the last one.
Serves(s) ==
  LET l == sock[s].lobby
      served == [sock EXCEPT ![s].guesses = @ - 1]
  IN  /\ Followed /\ sock[s].guesses > 0
      /\ IF game[l].phase = "GUESS" /\ game[l].giver # sock[s].playerId
         THEN \E p \in {"GUESS", "REVEAL"} :
                LET g == [game[l] EXCEPT !.guessed = @ \cup {sock[s].playerId}, !.phase = p]
                IN  game' = [game EXCEPT ![l] = g] /\ sock' = Sent(served, l, g)
         ELSE sock' = served /\ UNCHANGED game
      /\ Untouched /\ UNCHANGED issued

\* The others play on.
Moves(l) ==
  LET g == game[l]
      present == {sock[s].playerId : s \in {t \in Sockets : IsOpen(t) /\ sock[t].lobby = l}}
      next == CASE g.phase = "HINT"  -> {[g EXCEPT !.phase = "GUESS"]}
                [] g.phase = "GUESS" -> {[g EXCEPT !.phase = "REVEAL"]}
                [] OTHER -> {[round |-> g.round + 1, phase |-> "HINT", giver |-> p, guessed |-> {}] :
                               p \in {NoID} \cup present}
  IN  /\ Followed
      /\ MapThenSumSet(LAMBDA k : game[k].round, Lobbies) < MaxRounds \/ g.phase \in {"HINT", "GUESS"}
      /\ \A s \in Sockets : Len(sock[s].frames) < MaxInFlight
      /\ \E h \in next : game' = [game EXCEPT ![l] = h] /\ sock' = Sent(sock, l, h)
      /\ Untouched /\ UNCHANGED issued

-----------------------------------------------------------------------------
UserNext ==
  \/ Leave \/ Marks \/ Guesses
  \/ \E l \in Lobbies : Asks(l)
  \/ \E l \in Lobbies \cup {NoLobby} : Load(l)

Next ==
  \/ UserNext \/ Reconnect
  \/ \E s \in Sockets : Breaks(s) \/ Closes(s) \/ Receives(s) \/ Opens(s) \/ Serves(s)
  \/ \E l \in Lobbies : Enter(l) \/ Declines(l) \/ Moves(l)

\* The network and the timer do their work; nobody has to play on, click or leave, and a
\* request may go unanswered.
Spec ==
  /\ Init /\ [][Next]_vars
  /\ WF_vars(Reconnect)
  /\ \A s \in Sockets :
       WF_vars(Closes(s)) /\ WF_vars(Receives(s)) /\ WF_vars(Opens(s)) /\ WF_vars(Serves(s))

-----------------------------------------------------------------------------
\* A page that is leaving waits for nothing.
WebClientTypeOK ==
  /\ ws \in Sockets \cup {NoSocket} /\ reconnectTimer \in Lobbies \cup {NoLobby}
  /\ session \in [lobby : Lobbies \cup {NoLobby}, playerId : 0..Len(issued)]
  /\ url \in Lobbies \cup {NoLobby} /\ asked \in [Lobbies -> Nat]
  /\ DOMAIN sock = Sockets
  /\ issued \in Seq(Lobbies)
  /\ snapshot # NoFrame => screen = "game"
  /\ leaving => reconnectTimer = NoLobby

(***************************************************************************)
(* The page is in one lobby, the one in its session: its socket and its    *)
(* reconnect belong to it, the player ID was given out by it (enterLobby:  *)
(* "die alte Spieler-ID gehoert zur alten Lobby"), the address bar names   *)
(* it or no lobby, and once its state has arrived, the page shows that.    *)
(* Until then a page that went from one lobby to another still shows the   *)
(* old one.  The one way out of this is a socket the page has let go whose *)
(* handlers still run: they do not ask whether they belong to ws.          *)
(***************************************************************************)
IsInOneLobby ==
  stray \/
    /\ ws # NoSocket => session.lobby # NoLobby /\ url \in {NoLobby, session.lobby}
    /\ session.playerId # NoID => issued[session.playerId] = session.lobby
    /\ ws # NoSocket /\ sock[ws].state # "closed" => sock[ws].lobby = session.lobby
    /\ reconnectTimer \in {NoLobby, session.lobby}
    /\ IsOpen(ws) /\ sock[ws].frames = <<>> =>
         snapshot # NoFrame /\ snapshot.lobby = session.lobby

(***************************************************************************)
(* The page by itself never holds two sockets, and none that it has let go *)
(* disturbs it, whatever timers, closures, reloads and departures overtake *)
(* each other: for that, a lobby must have been entered while a socket was *)
(* still there, which takes a second request, or one right after "leave".  *)
(***************************************************************************)
OneSocketUnlessHasty == hasty \/ (~stray /\ \A s, t \in Live : s = t)

\* Nothing is under way between the page's player and the server.
Settled ==
  /\ IsOpen(ws) /\ sock[ws].frames = <<>>
  /\ \A s \in Sockets : sock[s].playerId = sock[ws].playerId => sock[s].guesses = 0

(***************************************************************************)
(* The lock against a second guess shuts a player out of a round in just   *)
(* two cases: the guess got lost on a connection that was not open or      *)
(* broke, or the lock is left from a round after which the page has seen   *)
(* no other phase.  Otherwise a guesser who is locked has a guess.         *)
(***************************************************************************)
LockedOutOnlyByLoss ==
  Settled /\ snapshot # NoFrame /\ snapshot.phase = "GUESS" /\ guessSubmitted /\ ~snapshot.yourGuess =>
    stray \/ lost \/ claim \notin {NoClaim, RoundOf(snapshot)}

(***************************************************************************)
(* However connections fail, break or are given up and the page is loaded  *)
(* again: once that ends, the page either waits for the user or is in the  *)
(* lobby of its session, connected, and shows the current state of its     *)
(* player (scheduleReconnect).  A socket that a second entry has left open *)
(* stays open, but no state and no guess is under way on it.               *)
(***************************************************************************)
IsAsking == screen = "lobby" /\ ws = NoSocket /\ reconnectTimer = NoLobby

IsHome ==
  /\ Settled
  /\ snapshot = FrameFor(session.lobby, session.playerId, game[session.lobby])
  /\ reconnectTimer = NoLobby
  /\ \A s \in Live \ {ws} :
       hasty /\ sock[s].state = "open" /\ sock[s].frames = <<>> /\ sock[s].guesses = 0

ComesHome == <>[](stray \/ IsAsking \/ IsHome)
=============================================================================
