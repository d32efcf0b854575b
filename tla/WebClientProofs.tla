--------------------------- MODULE WebClientProofs ---------------------------
(***************************************************************************)
(* Theorems about the page of a player, for every number of lobbies and    *)
(* sockets, and without any of the bounds of the runs mattering.  The      *)
(* inductive invariant IInv says what a page that is not led astray has in *)
(* its hands: sockets and player IDs that belong to the lobby it is in,    *)
(* frames that the game has not gone back behind, of which the last one is *)
(* the game as it is, and for its lock a guess that can be traced or a     *)
(* player the page will never be again.                                    *)
(***************************************************************************)
EXTENDS WebClient, SequenceTheorems, TLAPS

-----------------------------------------------------------------------------
(***************************************************************************)
(* The inductive invariant.                                                *)
(***************************************************************************)
Games == [round : Nat, phase : Phases, giver : Nat, guessed : SUBSET Nat]
SocketStates == {"closed", "connecting", "open", "closing"}
SocketRecords ==
  [state : SocketStates, lobby : Lobbies \cup {NoLobby}, playerId : Nat,
   frames : Seq(Frames), guesses : Nat]

PageTyped ==
  /\ ws \in Sockets \cup {NoSocket}
  /\ leaving \in BOOLEAN
  /\ reconnectTimer \in Lobbies \cup {NoLobby}
  /\ session \in [lobby : Lobbies \cup {NoLobby}, playerId : Nat]
  /\ url \in Lobbies \cup {NoLobby} /\ asked \in [Lobbies -> Nat]
  /\ screen \in {"lobby", "game"}
  /\ snapshot \in Frames \cup {NoFrame}
  /\ guessSubmitted \in BOOLEAN
  /\ claim \in Claims \cup {NoClaim}
  /\ lost \in BOOLEAN /\ stray \in BOOLEAN /\ hasty \in BOOLEAN
  /\ leaving => reconnectTimer = NoLobby
  /\ snapshot # NoFrame => screen = "game"

ServerTyped ==
  /\ game \in [Lobbies -> Games]
  /\ issued \in Seq(Lobbies)
  /\ sock \in [Sockets -> SocketRecords]

\* The player ID was given out, by that lobby.
IsIdOf(l, id) == id \in 1..Len(issued) /\ issued[id] = l

\* A socket belongs to a lobby and, once it is open, to one of its players.
SocketSound(s) ==
  /\ sock[s].state = "closed" => sock[s] = Closed
  /\ sock[s].state # "closed" => sock[s].lobby \in Lobbies
  /\ sock[s].state = "open" => sock[s].playerId # NoID
  /\ sock[s].playerId # NoID => IsIdOf(sock[s].lobby, sock[s].playerId)
  /\ sock[s].frames # <<>> => sock[s].playerId # NoID
  /\ sock[s].state = "connecting" => sock[s].guesses = 0 /\ sock[s].frames = <<>>
  /\ sock[s].guesses > 0 => sock[s].playerId # NoID
  /\ \A i \in DOMAIN sock[s].frames :
       sock[s].frames[i].lobby = sock[s].lobby /\ sock[s].frames[i].you = sock[s].playerId

\* A frame shows game g as it was, and g keeps what it shows of its round.
IsBehind(f, g) ==
  \/ f.round < g.round
  \/ /\ f.round = g.round
     /\ f.youAreClueGiver <=> f.you = g.giver
     /\ f.phase = "GUESS" => g.phase \in {"GUESS", "REVEAL"}
     /\ f.yourGuess => f.you \in g.guessed

\* The last frame under way on an open socket is the state as it is now.
UpToDate(s) ==
  sock[s].state = "open" =>
    LET now == FrameFor(sock[s].lobby, sock[s].playerId, game[sock[s].lobby])
    IN  IF sock[s].frames # <<>> THEN sock[s].frames[Len(sock[s].frames)] = now
        ELSE s = ws /\ ~stray => snapshot = now

IdKnown == session.playerId \in 0..Len(issued)

SocketsSound == \A s \in Sockets : SocketSound(s)
SocketsUpToDate == \A s \in Sockets : UpToDate(s)
NothingAhead ==
  /\ \A s \in Sockets : \A i \in DOMAIN sock[s].frames :
       IsBehind(sock[s].frames[i], game[sock[s].frames[i].lobby])
  /\ snapshot # NoFrame => IsBehind(snapshot, game[snapshot.lobby])

\* A player the page was and will not be again: every connect sends the ID in the session
\* or none, and the server gives out new ones.
IsGone(id) ==
  /\ id \in 1..Len(issued) /\ id # session.playerId
  /\ ws # NoSocket => sock[ws].playerId # id

\* What a page has that is not led astray.
PageSound ==
  /\ ws # NoSocket => session.lobby # NoLobby /\ url \in {NoLobby, session.lobby}
  /\ session.playerId # NoID => IsIdOf(session.lobby, session.playerId)
  /\ ws # NoSocket /\ sock[ws].state # "closed" =>
       /\ sock[ws].lobby = session.lobby
       /\ session.playerId # NoID => sock[ws].playerId = session.playerId
  /\ reconnectTimer # NoLobby =>
       reconnectTimer = session.lobby /\ ws # NoSocket /\ sock[ws].state = "closed"
  /\ snapshot # NoFrame =>
       \/ /\ snapshot.lobby = session.lobby
          /\ snapshot.you = session.playerId /\ session.playerId # NoID
       \/ IsGone(snapshot.you)

\* Without haste there is one socket, in ws or just let go by a page that is leaving.
OneAtMost ==
  ~hasty =>
    /\ ~stray
    /\ \A s, t \in Live : s = t
    /\ \A s \in Live : s = ws \/ (ws = NoSocket /\ leaving /\ sock[s].state = "closing")

\* A guess for claim c has nothing to wait for any more in game g, or may still arrive.
IsSettled(c, g) ==
  \/ c.round < g.round
  \/ c.round = g.round /\ (g.phase = "REVEAL" \/ c.you \in g.guessed)

IsAwaited(c, g) == c.round = g.round /\ g.phase = "GUESS" /\ g.giver # c.you

\* Socket record r has a guess for claim c on its way.
Carries(r, c) == r.guesses > 0 /\ r.lobby = c.lobby /\ r.playerId = c.you

\* The guess the lock was set for: on the board, too late, or on its way.
GuessTraced ==
  guessSubmitted =>
    /\ claim # NoClaim
    /\ \/ lost \/ IsGone(claim.you)
       \/ IsSettled(claim, game[claim.lobby])
       \/ IsAwaited(claim, game[claim.lobby]) /\ \E s \in Sockets : Carries(sock[s], claim)

IInv ==
  /\ PageTyped /\ ServerTyped /\ IdKnown
  /\ SocketsSound /\ SocketsUpToDate /\ NothingAhead
  /\ OneAtMost
  /\ stray \/ PageSound
  /\ stray \/ GuessTraced

\* How the game of a lobby moves on.
IsLater(g, h) ==
  \/ g.round < h.round
  \/ /\ g.round = h.round /\ g.giver = h.giver /\ g.guessed \subseteq h.guessed
     /\ g.phase \in {"GUESS", "REVEAL"} => h.phase \in {"GUESS", "REVEAL"}
     /\ g.phase = "REVEAL" => h.phase = "REVEAL"

-----------------------------------------------------------------------------
LEMMA ClosedIsASocket ==
  /\ Closed \in SocketRecords
  /\ Closed.state = "closed" /\ Closed.playerId = NoID
  /\ Closed.frames = <<>> /\ Closed.guesses = 0
BY DEF Closed, SocketRecords, SocketStates, NoID

LEMMA InitSound == Init => IInv
<1> SUFFICES ASSUME Init PROVE IInv
  OBVIOUS
<1>1. PageTyped
  BY WebClientAssumption DEF Init, PageTyped, NoSession, NoID, NoRequest
<1>2. ServerTyped
  BY ClosedIsASocket DEF Init, ServerTyped, Games, Phases, NoID
<1>3. SocketsSound /\ SocketsUpToDate /\ NothingAhead
  BY ClosedIsASocket
  DEF Init, SocketsSound, SocketSound, SocketsUpToDate, UpToDate, NothingAhead
<1>4. PageSound /\ OneAtMost
  BY ClosedIsASocket, WebClientAssumption DEF Init, PageSound, NoSession, OneAtMost, Live
<1>5. GuessTraced /\ IdKnown
  BY DEF Init, GuessTraced, IdKnown, NoSession, NoID
<1> QED
  BY <1>1, <1>2, <1>3, <1>4, <1>5 DEF IInv

\* What connect() makes of the sockets.
LEMMA Connected ==
  ASSUME NEW l \in Lobbies, NEW id \in Nat, NEW sockets \in [Sockets -> SocketRecords],
         Connect(l, sockets, id)
  PROVE  \E s \in Sockets :
           /\ ws' = s /\ sockets[s].state = "closed"
           /\ sock' \in [Sockets -> SocketRecords]
           /\ sock'[s].state = "connecting" /\ sock'[s].lobby = l /\ sock'[s].playerId = id
           /\ sock'[s].frames = <<>> /\ sock'[s].guesses = 0
           /\ \A t \in Sockets \ {s} : sock'[t] = sockets[t]
<1> DEFINE new == [Closed EXCEPT !.state = "connecting", !.lobby = l, !.playerId = id]
<1>1. PICK s \in Sockets :
        ws' = s /\ sockets[s].state = "closed" /\ sock' = [sockets EXCEPT ![s] = new]
  <2>1. ws' \in Sockets /\ sockets[ws'].state = "closed"
    BY DEF Connect
  <2> QED
    BY <2>1 DEF Connect
<1>2. /\ new.state = "connecting" /\ new.lobby = l /\ new.playerId = id
      /\ new.frames = <<>> /\ new.guesses = 0
  BY DEF Closed
<1>3. new \in SocketRecords
  BY ClosedIsASocket DEF SocketRecords, SocketStates
<1> HIDE DEF new
<1> QED
  BY <1>1, <1>2, <1>3

(***************************************************************************)
(* A new connection, as the player of the session or as nobody yet: who is *)
(* not that player any more is gone.                                       *)
(***************************************************************************)
LEMMA ConnectStep ==
  ASSUME IInv, ~stray, NEW l \in Lobbies, NEW id \in Nat,
         Connect(l, sock, id),
         id = NoID \/ (id = session.playerId /\ l = session.lobby),
         url' \in {NoLobby, l}, asked' \in [Lobbies -> Nat],
         hasty' \in BOOLEAN, ~hasty' => Live = {},
         UNCHANGED <<viewVars, markerVars, serverVars, stray>>
  PROVE  IInv'
<1>1. /\ reconnectTimer' = NoLobby /\ leaving' = FALSE
      /\ session' = [lobby |-> l, playerId |-> id]
  BY DEF Connect, ComesBack
<1>3. PICK s \in Sockets :
        /\ ws' = s /\ sock[s].state = "closed"
        /\ sock' \in [Sockets -> SocketRecords]
        /\ sock'[s].state = "connecting" /\ sock'[s].lobby = l /\ sock'[s].playerId = id
        /\ sock'[s].frames = <<>> /\ sock'[s].guesses = 0
        /\ \A t \in Sockets \ {s} : sock'[t] = sock[t]
  BY Connected DEF IInv, ServerTyped
<1>4. UNCHANGED <<screen, snapshot, guessSubmitted, claim, lost, game, issued, stray>>
  BY DEF viewVars, markerVars, serverVars
<1>5. l # NoLobby /\ s # NoSocket /\ PageSound
  BY WebClientAssumption DEF IInv
<1>6. PageTyped'
  BY <1>1, <1>3, <1>4 DEF IInv, PageTyped
<1>7. ServerTyped' /\ IdKnown'
  BY <1>1, <1>3, <1>4 DEF IInv, ServerTyped, IdKnown, NoID
<1>20. id # NoID => IsIdOf(l, id)
  BY <1>5 DEF PageSound
<1>8. SocketsSound'
  BY <1>3, <1>4, <1>20 DEF IInv, SocketsSound, SocketSound, IsIdOf, NoID
<1>9. SocketsUpToDate'
  BY <1>3, <1>4 DEF IInv, SocketsSound, SocketSound, SocketsUpToDate, UpToDate, FrameFor
<1>10. NothingAhead'
  BY <1>3, <1>4 DEF IInv, NothingAhead, IsBehind
<1>21. ASSUME NEW i, IsGone(i)
       PROVE  IsGone(i)'
  <2>1. i \in 1..Len(issued') /\ i # id
    BY <1>4, <1>21 DEF IsGone, NoID
  <2> QED
    BY <1>1, <1>3, <2>1 DEF IsGone
<1>11. PageSound'
  <2>1. /\ session'.lobby = l /\ session'.playerId = id
        /\ reconnectTimer' = NoLobby
    BY <1>1
  <2>2. id # NoID => IsIdOf(l, id)'
    BY <1>4, <1>20 DEF IsIdOf
  <2>3. ASSUME snapshot # NoFrame
        PROVE  (snapshot.lobby = l /\ snapshot.you = id /\ id # NoID) \/ IsGone(snapshot.you)'
    <3>1. CASE snapshot.lobby = session.lobby /\ snapshot.you = session.playerId /\ session.playerId # NoID
      <4>1. CASE id = NoID
        <5>1. snapshot.you \in 1..Len(issued') /\ snapshot.you # id
          BY <1>4, <1>5, <3>1, <4>1 DEF PageSound, IsIdOf
        <5> QED
          BY <1>1, <1>3, <1>4, <5>1 DEF IsGone
      <4>2. CASE id = session.playerId /\ l = session.lobby
        BY <3>1, <4>2
      <4> QED
        BY <4>1, <4>2
    <3>2. CASE IsGone(snapshot.you)
      BY <1>4, <1>21, <3>2
    <3> QED
      BY <1>5, <2>3, <3>1, <3>2 DEF PageSound
  <2> QED
    BY <1>3, <1>4, <1>5, <2>1, <2>2, <2>3 DEF PageSound
<1>12. GuessTraced'
  <2>1. \A c, t : t \in Sockets /\ Carries(sock[t], c) => t # s /\ sock'[t] = sock[t]
    BY <1>3, ClosedIsASocket DEF IInv, Carries, SocketsSound, SocketSound
  <2> QED
    BY <1>4, <1>21, <2>1 DEF IInv, GuessTraced
<1>13. OneAtMost'
  BY <1>3, <1>4, <1>5 DEF IInv, OneAtMost, Live
<1> QED
  BY <1>6, <1>7, <1>8, <1>9, <1>10, <1>11, <1>12, <1>13 DEF IInv

LEMMA AsksStep ==
  ASSUME IInv, NEW l \in Lobbies, Asks(l) \/ Declines(l)
  PROVE  IInv'
<1>1. /\ asked' \in [Lobbies -> Nat]
      /\ UNCHANGED <<connectionVars, session, url, hasty, viewVars, markerVars, serverVars, stray>>
  BY DEF Asks, Declines, IInv, PageTyped
<1>2. UNCHANGED <<ws, leaving, reconnectTimer, sock, session, url, hasty, screen, snapshot,
                  guessSubmitted, claim, lost, game, issued, stray>>
  BY <1>1 DEF connectionVars, viewVars, markerVars, serverVars
<1> QED
  BY <1>1, <1>2 DEF IInv, PageTyped, ServerTyped, IdKnown, SocketsSound, SocketSound, IsIdOf, IsGone,
    SocketsUpToDate, UpToDate, FrameFor, NothingAhead, PageSound, GuessTraced, OneAtMost, Live

LEMMA EnterStep ==
  ASSUME IInv, NEW l \in Lobbies, Enter(l)
  PROVE  IInv'
<1> DEFINE id == IDIn(l)
<1>1. /\ ~stray /\ url' = l /\ Connect(l, sock, id)
      /\ asked[l] > 0 /\ asked' = [asked EXCEPT ![l] = @ - 1]
      /\ hasty' = (hasty \/ Live # {})
      /\ UNCHANGED <<viewVars, markerVars, serverVars, trouble, stray>>
  BY DEF Enter, Followed
<1>2. id \in Nat /\ (id = NoID \/ (id = session.playerId /\ l = session.lobby))
  BY DEF IDIn, IInv, PageTyped, NoID
<1>3. asked' \in [Lobbies -> Nat] /\ hasty' \in BOOLEAN
  BY <1>1 DEF IInv, PageTyped
<1> HIDE DEF id
<1> QED
  BY <1>1, <1>2, <1>3, ConnectStep

LEMMA ReconnectStep ==
  ASSUME IInv, Reconnect
  PROVE  IInv'
<1> DEFINE l == reconnectTimer
           id == session.playerId
<1>1. /\ ~stray /\ l # NoLobby /\ Connect(l, sock, id)
      /\ UNCHANGED <<url, asked, hasty, viewVars, markerVars, serverVars, trouble, stray>>
  BY DEF Reconnect, Followed, userVars
<1>2. PageSound /\ l \in Lobbies /\ id \in Nat
  BY <1>1 DEF IInv, PageTyped
<1>3. l = session.lobby /\ ws # NoSocket /\ sock[ws].state = "closed" /\ url \in {NoLobby, l}
  BY <1>1, <1>2 DEF PageSound
<1>4. asked' \in [Lobbies -> Nat] /\ hasty' \in BOOLEAN
  BY <1>1 DEF IInv, PageTyped
<1>5. ~hasty' => Live = {}
  BY <1>1, <1>3 DEF IInv, OneAtMost, Live
<1> HIDE DEF l
<1>6. url' \in {NoLobby, l} /\ id = session.playerId /\ l = session.lobby
  BY <1>1, <1>3
<1> HIDE DEF id
<1> QED
  BY <1>1, <1>2, <1>4, <1>5, <1>6, ConnectStep

(***************************************************************************)
(* With every socket closed nothing is under way.                          *)
(***************************************************************************)
LEMMA LoadStep ==
  ASSUME IInv, NEW l \in Lobbies \cup {NoLobby}, Load(l)
  PROVE  IInv'
<1> DEFINE back == session.lobby # NoLobby /\ l \in {NoLobby, session.lobby}
           none == [s \in Sockets |-> Closed]
<1>1. /\ ~stray /\ url' = l /\ hasty' = FALSE /\ snapshot' = NoFrame
      /\ guessSubmitted' = FALSE /\ claim' = NoClaim /\ lost' = FALSE
      /\ UNCHANGED <<game, issued, stray>>
  BY DEF Load, Followed, serverVars
<1>2. /\ PageSound
      /\ session \in [lobby : Lobbies \cup {NoLobby}, playerId : Nat]
  BY <1>1 DEF IInv, PageTyped
<1>3. none \in [Sockets -> SocketRecords] /\ \A s \in Sockets : none[s] = Closed
  BY ClosedIsASocket
<1>4. GuessTraced'
  BY <1>1 DEF GuessTraced
<1>7. asked' \in [Lobbies -> Nat]
  BY DEF Load, NoRequest
<1>5. CASE back
  <2> DEFINE id == session.playerId
             m == session.lobby
  <2>1. m \in Lobbies /\ m # NoLobby /\ l \in {NoLobby, m}
    BY <1>2, <1>5
  <2>2. screen' = "game" /\ Connect(m, none, id)
    BY <1>5 DEF Load
  <2>3. /\ reconnectTimer' = NoLobby /\ leaving' = FALSE
        /\ session' = [lobby |-> m, playerId |-> id]
    BY <2>2 DEF Connect, ComesBack
  <2> HIDE DEF none
  <2>4. PICK s \in Sockets :
          /\ ws' = s
          /\ sock' \in [Sockets -> SocketRecords]
          /\ sock'[s].state = "connecting" /\ sock'[s].lobby = m /\ sock'[s].playerId = id
          /\ sock'[s].frames = <<>> /\ sock'[s].guesses = 0
          /\ \A t \in Sockets \ {s} : sock'[t] = none[t]
    BY <1>2, <1>3, <2>1, <2>2, Connected
  <2>5. \A t \in Sockets \ {s} : sock'[t] = Closed
    BY <1>3, <2>4
  <2>6. id # NoID => id \in 1..Len(issued') /\ issued'[id] = m
    BY <1>1, <1>2, <2>1 DEF PageSound, IsIdOf
  <2>7. s # NoSocket /\ id \in Nat
    BY <1>2, <2>1, WebClientAssumption
  <2> HIDE DEF id, m
  <2>8. PageTyped'
    BY <1>1, <1>2, <1>7, <2>1, <2>2, <2>3, <2>4, <2>7 DEF IInv, PageTyped
  <2>9. ServerTyped' /\ IdKnown'
    BY <1>1, <2>3, <2>4 DEF IInv, ServerTyped, IdKnown, id
  <2>10. SocketsSound'
    BY <2>1, <2>4, <2>5, <2>6, ClosedIsASocket DEF SocketsSound, SocketSound, IsIdOf
  <2>11. SocketsUpToDate' /\ NothingAhead'
    BY <1>1, <2>4, <2>5, ClosedIsASocket DEF SocketsUpToDate, UpToDate, NothingAhead
  <2>12. PageSound'
    BY <1>1, <2>1, <2>3, <2>4, <2>6, <2>7 DEF PageSound, IsIdOf
  <2>13. OneAtMost'
    BY <1>1, <2>4, <2>5, ClosedIsASocket DEF OneAtMost, Live
  <2> QED
    BY <1>4, <2>8, <2>9, <2>10, <2>11, <2>12, <2>13 DEF IInv
<1>6. CASE ~back
  <2>1. /\ screen' = "lobby" /\ ws' = NoSocket /\ leaving' = FALSE /\ reconnectTimer' = NoLobby
        /\ sock' = none /\ session' = session
    BY <1>6 DEF Load
  <2>2. PageTyped'
    BY <1>1, <1>2, <1>7, <2>1 DEF IInv, PageTyped
  <2>3. ServerTyped' /\ IdKnown'
    BY <1>1, <1>3, <2>1 DEF IInv, ServerTyped, IdKnown
  <2>4. SocketsSound' /\ SocketsUpToDate' /\ NothingAhead'
    BY <1>1, <2>1, ClosedIsASocket
    DEF SocketsSound, SocketSound, SocketsUpToDate, UpToDate, NothingAhead
  <2>5. PageSound' /\ OneAtMost'
    BY <1>1, <1>2, <2>1, ClosedIsASocket, WebClientAssumption
    DEF PageSound, IsIdOf, OneAtMost, Live
  <2> QED
    BY <1>4, <2>2, <2>3, <2>4, <2>5 DEF IInv
<1> QED
  BY <1>5, <1>6

LEMMA BehindStays ==
  ASSUME NEW f \in Frames, NEW g \in Games, NEW h \in Games, IsBehind(f, g), IsLater(g, h)
  PROVE  IsBehind(f, h)
BY DEF Frames, Games, IsBehind, IsLater

LEMMA SettledStays ==
  ASSUME NEW c \in Claims, NEW g \in Games, NEW h \in Games, IsLater(g, h)
  PROVE  /\ IsSettled(c, g) => IsSettled(c, h)
         /\ IsAwaited(c, g) => IsAwaited(c, h) \/ IsSettled(c, h)
BY DEF Claims, Games, IsSettled, IsAwaited, IsLater

LEMMA LeaveStep ==
  ASSUME IInv, Leave
  PROVE  IInv'
<1>1. /\ ~stray /\ leaving' = TRUE /\ reconnectTimer' = NoLobby /\ ws' = NoSocket
      /\ session' = NoSession /\ url' = NoLobby /\ snapshot' = NoFrame /\ screen' = "lobby"
      /\ UNCHANGED <<asked, hasty, guessSubmitted, claim, lost, game, issued, stray>>
  BY DEF Leave, Followed, Disconnect, markerVars, serverVars, userVars
<1>2. sock' = [s \in Sockets |-> IF s = ws /\ sock[s].state # "closed"
                                 THEN [sock[s] EXCEPT !.state = "closing", !.frames = <<>>]
                                 ELSE sock[s]]
  BY DEF Leave, Disconnect
<1>3. sock \in [Sockets -> SocketRecords]
  BY DEF IInv, ServerTyped
<1>4. sock' \in [Sockets -> SocketRecords]
  <2>1. ASSUME NEW s \in Sockets
        PROVE  [sock[s] EXCEPT !.state = "closing", !.frames = <<>>] \in SocketRecords
    <3>1. sock[s] \in SocketRecords /\ <<>> \in Seq(Frames)
      BY <1>3
    <3> QED
      BY <3>1 DEF SocketRecords, SocketStates
  <2> QED
    BY <1>2, <1>3, <2>1
<1>5. ASSUME NEW s \in Sockets
      PROVE  /\ sock'[s].lobby = sock[s].lobby /\ sock'[s].playerId = sock[s].playerId
             /\ sock'[s].guesses = sock[s].guesses
             /\ \/ sock'[s] = sock[s] /\ (s = ws => sock[s].state = "closed")
                \/ /\ sock[s].state # "closed" /\ sock'[s].state = "closing" /\ s = ws
                   /\ sock'[s].frames = <<>>
  BY <1>2, <1>3 DEF SocketRecords
<1>6. PageTyped'
  BY <1>1 DEF IInv, PageTyped, NoSession, NoID
<1>7. ServerTyped' /\ IdKnown'
  BY <1>1, <1>4 DEF IInv, ServerTyped, IdKnown, NoSession, NoID
<1>8. SocketsSound'
  BY <1>1, <1>5 DEF IInv, SocketsSound, SocketSound, IsIdOf
<1>9. SocketsUpToDate'
  BY <1>1, <1>5, WebClientAssumption DEF IInv, SocketsUpToDate, UpToDate, FrameFor
<1>10. NothingAhead'
  BY <1>1, <1>5 DEF IInv, NothingAhead
<1>11. PageSound'
  BY <1>1, WebClientAssumption DEF PageSound, NoSession
<1>12. GuessTraced'
  <2>1. \A i : IsGone(i) => IsGone(i)'
    BY <1>1 DEF IsGone, NoSession, NoID
  <2>2. \A c, s : s \in Sockets /\ Carries(sock[s], c) => Carries(sock'[s], c)
    BY <1>5 DEF Carries
  <2> QED
    BY <1>1, <2>1, <2>2 DEF IInv, GuessTraced
<1>13. OneAtMost'
  <2>1. Live' = Live /\ \A s \in Live : s = ws => sock'[s].state = "closing"
    BY <1>5 DEF Live
  <2>2. \A s \in Live : s # ws => sock'[s] = sock[s]
    BY <1>5 DEF Live
  <2> QED
    BY <1>1, <2>1, <2>2 DEF IInv, OneAtMost
<1> QED
  BY <1>6, <1>7, <1>8, <1>9, <1>10, <1>11, <1>12, <1>13 DEF IInv

(***************************************************************************)
(* A socket that is closed reconnects the page, unless it is leaving.  A   *)
(* guess that was under way on it is lost.                                 *)
(***************************************************************************)
LEMMA CloseStep ==
  ASSUME IInv, ~stray, NEW s \in Sockets, sock[s].state # "closed", OnClose(s),
         UNCHANGED <<guessSubmitted, claim>>,
         lost' = (lost \/ (sock[s].guesses > 0 /\ guessSubmitted))
  PROVE  IInv'
<1>1. /\ reconnectTimer' = IF leaving THEN reconnectTimer ELSE sock[s].lobby
      /\ stray' = (stray \/ (~leaving /\ s # ws))
      /\ sock' = [sock EXCEPT ![s] = Closed]
      /\ UNCHANGED <<ws, leaving, session, url, asked, hasty, screen, snapshot, game, issued>>
  BY DEF OnClose, userVars, viewVars, serverVars
<1>2. sock \in [Sockets -> SocketRecords]
  BY DEF IInv, ServerTyped
<1>3. /\ sock' \in [Sockets -> SocketRecords] /\ sock'[s] = Closed
      /\ \A t \in Sockets \ {s} : sock'[t] = sock[t]
  BY <1>1, <1>2, ClosedIsASocket
<1>4. sock[s].lobby \in Lobbies
  BY DEF IInv, SocketsSound, SocketSound
<1>5. PageTyped'
  BY <1>1, <1>4 DEF IInv, PageTyped
<1>6. ServerTyped' /\ IdKnown'
  BY <1>1, <1>3 DEF IInv, ServerTyped, IdKnown
<1>7. SocketsSound'
  BY <1>1, <1>3, ClosedIsASocket DEF IInv, SocketsSound, SocketSound, IsIdOf
<1>8. SocketsUpToDate'
  BY <1>1, <1>3, ClosedIsASocket DEF IInv, SocketsUpToDate, UpToDate, FrameFor
<1>9. NothingAhead'
  BY <1>1, <1>3, ClosedIsASocket DEF IInv, NothingAhead
<1>12. \A i : IsGone(i) => IsGone(i)'
  <2>1. ws # NoSocket => sock'[ws].playerId \in {sock[ws].playerId, NoID}
    BY <1>3, ClosedIsASocket DEF IInv, PageTyped
  <2> QED
    BY <1>1, <2>1 DEF IsGone, NoID
<1>10. ASSUME ~stray' PROVE PageSound'
  <2>1. leaving \/ s = ws
    BY <1>1, <1>10
  <2>2. PageSound /\ (leaving => reconnectTimer = NoLobby) /\ (s = ws => ws # NoSocket)
    BY WebClientAssumption DEF IInv, PageTyped
  <2>3. reconnectTimer' # NoLobby =>
          reconnectTimer' = session.lobby /\ ws # NoSocket /\ sock'[ws].state = "closed"
    BY <1>1, <1>3, <2>1, <2>2, ClosedIsASocket DEF PageSound
  <2>5. ws # NoSocket => sock'[ws] = sock[ws] \/ sock'[ws] = Closed
    BY <1>3 DEF IInv, PageTyped
  <2> QED
    BY <1>1, <1>12, <2>2, <2>3, <2>5, ClosedIsASocket DEF PageSound, IsIdOf
<1>11. GuessTraced'
  <2>1. CASE sock[s].guesses > 0
    BY <1>1, <2>1 DEF IInv, GuessTraced
  <2>2. CASE ~(sock[s].guesses > 0)
    BY <1>1, <1>3, <1>12, <2>2 DEF IInv, GuessTraced, Carries
  <2> QED
    BY <2>1, <2>2
<1>13. OneAtMost'
  <2>1. Live' \subseteq Live /\ s \in Live /\ s \notin Live'
    BY <1>3, ClosedIsASocket DEF Live
  <2>2. \A t \in Live' : sock'[t] = sock[t]
    BY <1>3, <2>1 DEF Live
  <2> QED
    BY <1>1, <2>1, <2>2 DEF IInv, OneAtMost
<1> QED
  BY <1>5, <1>6, <1>7, <1>8, <1>9, <1>10, <1>11, <1>13 DEF IInv

LEMMA BreaksStep ==
  ASSUME IInv, NEW s \in Sockets, Breaks(s)
  PROVE  IInv'
BY CloseStep DEF Breaks, Followed

LEMMA ClosesStep ==
  ASSUME IInv, NEW s \in Sockets, Closes(s)
  PROVE  IInv'
<1>1. lost' = (lost \/ (sock[s].guesses > 0 /\ guessSubmitted))
  BY DEF Closes, markerVars, IInv, PageTyped
<1> QED
  BY <1>1, CloseStep DEF Closes, Followed, markerVars

LEMMA MarksStep ==
  ASSUME IInv, Marks \/ UNCHANGED vars
  PROVE  IInv'
<1>1. UNCHANGED <<ws, leaving, reconnectTimer, sock, session, url, asked, hasty, screen, snapshot,
                  guessSubmitted, claim, lost, game, issued, stray>>
  BY DEF Marks, vars, connectionVars, userVars, viewVars, markerVars, serverVars
<1> QED
  BY <1>1 DEF IInv, PageTyped, ServerTyped, IdKnown, SocketsSound, SocketSound, IsIdOf, IsGone,
    SocketsUpToDate, UpToDate, FrameFor, NothingAhead, PageSound, GuessTraced, OneAtMost, Live

LEMMA FrameIsBehind ==
  ASSUME NEW l \in Lobbies, NEW id \in Nat, NEW g \in Games
  PROVE  /\ FrameFor(l, id, g) \in Frames /\ IsBehind(FrameFor(l, id, g), g)
         /\ FrameFor(l, id, g).lobby = l /\ FrameFor(l, id, g).you = id
<1> DEFINE f == FrameFor(l, id, g)
<1>1. /\ f.lobby = l /\ f.you = id /\ f.round = g.round /\ f.phase = g.phase
  BY DEF FrameFor
<1>2. f.yourGuess = (id \in g.guessed)
  BY DEF FrameFor
<1>3. f.youAreClueGiver = (id = g.giver)
  BY DEF FrameFor
<1>4. f \in Frames
  BY DEF FrameFor, Frames, Games
<1> HIDE DEF f
<1>5. IsBehind(f, g)
  <2>1. f.yourGuess => f.you \in g.guessed
    BY <1>1, <1>2
  <2>2. f.youAreClueGiver <=> f.you = g.giver
    BY <1>1, <1>3
  <2> QED
  BY <1>1, <2>1, <2>2 DEF IsBehind
<1> QED
  BY <1>1, <1>4, <1>5 DEF f

(***************************************************************************)
(* A guess that is sent is traced; one that is dropped is lost.            *)
(***************************************************************************)
LEMMA GuessesStep ==
  ASSUME IInv, Guesses
  PROVE  IInv'
<1>1. /\ ~stray /\ snapshot # NoFrame /\ snapshot.phase = "GUESS" /\ ~snapshot.youAreClueGiver
      /\ guessSubmitted' = TRUE /\ claim' = RoundOf(snapshot) /\ lost' = ~IsOpen(ws)
      /\ UNCHANGED <<ws, leaving, reconnectTimer, session, url, asked, hasty, screen, snapshot,
                      game, issued, stray>>
  BY DEF Guesses, Followed, MayMark, userVars, viewVars, serverVars
<1>2. sock' = [s \in Sockets |-> IF s = ws /\ IsOpen(s)
                                 THEN [sock[s] EXCEPT !.guesses = @ + 1] ELSE sock[s]]
  BY DEF Guesses
<1>3. sock \in [Sockets -> SocketRecords]
  BY DEF IInv, ServerTyped
<1>4. sock' \in [Sockets -> SocketRecords]
  <2>2. ASSUME NEW s \in Sockets
        PROVE  [sock[s] EXCEPT !.guesses = @ + 1] \in SocketRecords
    <3> DEFINE r == sock[s]
               n == r.guesses + 1
    <3>1. r \in SocketRecords /\ n \in Nat
      BY <1>3 DEF SocketRecords
    <3>2. [sock[s] EXCEPT !.guesses = @ + 1] = [r EXCEPT !.guesses = n]
      OBVIOUS
    <3> HIDE DEF r, n
    <3>3. [r EXCEPT !.guesses = n] \in SocketRecords
      BY <3>1 DEF SocketRecords
    <3> QED
      BY <3>2, <3>3
  <2> QED
    BY <1>2, <1>3, <2>2
<1>5. ASSUME NEW s \in Sockets
      PROVE  /\ sock'[s].state = sock[s].state /\ sock'[s].lobby = sock[s].lobby
             /\ sock'[s].playerId = sock[s].playerId /\ sock'[s].frames = sock[s].frames
             /\ \/ sock'[s] = sock[s] /\ ~(s = ws /\ IsOpen(s))
                \/ s = ws /\ IsOpen(s) /\ sock[s].state = "open" /\ sock'[s].guesses > 0
  BY <1>2, <1>3 DEF SocketRecords, IsOpen
<1>6. PageSound /\ snapshot \in Frames /\ ws \in Sockets \cup {NoSocket}
  BY <1>1 DEF IInv, PageTyped
<1>7. /\ claim'.lobby = snapshot.lobby /\ claim'.you = snapshot.you /\ claim'.round = snapshot.round
      /\ claim' \in Claims /\ claim' # NoClaim
  BY <1>1, <1>6, WebClientAssumption DEF RoundOf, Frames, Claims
<1>8. PageTyped'
  BY <1>1, <1>7 DEF IInv, PageTyped
<1>9. ServerTyped' /\ IdKnown'
  BY <1>1, <1>4 DEF IInv, ServerTyped, IdKnown
<1>10. SocketsSound'
  BY <1>1, <1>5 DEF IInv, SocketsSound, SocketSound, IsIdOf
<1>11. SocketsUpToDate'
  BY <1>1, <1>5 DEF IInv, SocketsUpToDate, UpToDate, FrameFor
<1>12. NothingAhead'
  BY <1>1, <1>5 DEF IInv, NothingAhead
<1>13. PageSound' /\ OneAtMost' /\ \A i : IsGone(i) => IsGone(i)'
  BY <1>1, <1>5, <1>6 DEF IInv, PageSound, IsIdOf, IsGone, OneAtMost, Live
<1>14. GuessTraced'
  <2>1. CASE ~IsOpen(ws)
    BY <1>1, <1>7, <2>1 DEF GuessTraced
  <2>3. CASE IsGone(snapshot.you)
    BY <1>1, <1>7, <1>13, <2>3 DEF GuessTraced
  <2>2. CASE IsOpen(ws) /\ ~IsGone(snapshot.you)
    <3>1. /\ ws \in Sockets /\ sock'[ws].guesses > 0
          /\ sock'[ws].lobby = claim'.lobby /\ sock'[ws].playerId = claim'.you
      <4>1. ws \in Sockets /\ ws # NoSocket /\ sock[ws].state = "open"
        BY <1>6, <2>2 DEF IsOpen
      <4>2. sock[ws].lobby = snapshot.lobby /\ sock[ws].playerId = snapshot.you
        BY <1>1, <1>6, <2>2, <4>1 DEF PageSound
      <4> QED
        BY <1>5, <1>7, <2>2, <4>1, <4>2
    <3>2. game[snapshot.lobby] \in Games
      BY <1>6 DEF IInv, ServerTyped, Frames
    <3>3. IsBehind(snapshot, game[snapshot.lobby])
      BY <1>1 DEF IInv, NothingAhead
    <3>4. IsSettled(claim', game[snapshot.lobby]) \/ IsAwaited(claim', game[snapshot.lobby])
      BY <1>1, <1>6, <1>7, <3>2, <3>3
      DEF IsSettled, IsAwaited, IsBehind, Games, Frames
    <3> QED
      BY <1>1, <1>7, <3>1, <3>4 DEF GuessTraced, Carries
  <2> QED
    BY <2>1, <2>2, <2>3
<1> QED
  BY <1>8, <1>9, <1>10, <1>11, <1>12, <1>13, <1>14 DEF IInv

(***************************************************************************)
(* What a state that is sent to a lobby makes of the sockets.              *)
(***************************************************************************)
LEMMA SentSockets ==
  ASSUME NEW sockets \in [Sockets -> SocketRecords], NEW l \in Lobbies, NEW h \in Games
  PROVE  /\ Sent(sockets, l, h) \in [Sockets -> SocketRecords]
         /\ \A t \in Sockets :
              /\ Sent(sockets, l, h)[t].state = sockets[t].state
              /\ Sent(sockets, l, h)[t].lobby = sockets[t].lobby
              /\ Sent(sockets, l, h)[t].playerId = sockets[t].playerId
              /\ Sent(sockets, l, h)[t].guesses = sockets[t].guesses
              /\ Sent(sockets, l, h)[t].frames =
                   IF sockets[t].state = "open" /\ sockets[t].lobby = l
                   THEN Append(sockets[t].frames, FrameFor(l, sockets[t].playerId, h))
                   ELSE sockets[t].frames
              /\ sockets[t].state # "open" => Sent(sockets, l, h)[t] = sockets[t]
<1> DEFINE after == Sent(sockets, l, h)
<1>1. ASSUME NEW t \in Sockets
      PROVE  /\ after[t] \in SocketRecords
             /\ after[t].state = sockets[t].state /\ after[t].lobby = sockets[t].lobby
             /\ after[t].playerId = sockets[t].playerId
             /\ after[t].guesses = sockets[t].guesses
             /\ after[t].frames =
                  IF sockets[t].state = "open" /\ sockets[t].lobby = l
                  THEN Append(sockets[t].frames, FrameFor(l, sockets[t].playerId, h))
                  ELSE sockets[t].frames
             /\ sockets[t].state # "open" => after[t] = sockets[t]
  <2> DEFINE r == sockets[t]
             f == FrameFor(l, r.playerId, h)
             q == Append(r.frames, f)
  <2>1. r \in SocketRecords /\ r.playerId \in Nat /\ r.frames \in Seq(Frames)
    BY DEF SocketRecords
  <2>2. f \in Frames
    BY <2>1, FrameIsBehind
  <2>3. after[t] = IF r.state = "open" /\ r.lobby = l THEN [r EXCEPT !.frames = q] ELSE r
    BY DEF Sent
  <2> HIDE DEF f
  <2>4. q \in Seq(Frames)
    BY <2>1, <2>2
  <2> HIDE DEF r, q, after
  <2>5. /\ after[t] \in SocketRecords
        /\ after[t].state = r.state /\ after[t].lobby = r.lobby
        /\ after[t].playerId = r.playerId /\ after[t].guesses = r.guesses
        /\ after[t].frames = IF r.state = "open" /\ r.lobby = l THEN q ELSE r.frames
        /\ r.state # "open" => after[t] = r
    BY <2>1, <2>3, <2>4 DEF SocketRecords
  <2> QED
    BY <2>5 DEF r, q, f
<1>2. after \in [Sockets -> SocketRecords]
  <2>1. DOMAIN after = Sockets /\ after = [t \in DOMAIN after |-> after[t]]
    BY DEF Sent
  <2> HIDE DEF after
  <2> QED
    BY <1>1, <2>1
<1> QED
  BY <1>1, <1>2

LEMMA TracedStays ==
  ASSUME IInv, GuessTraced, UNCHANGED <<guessSubmitted, claim, lost>>,
         game' \in [Lobbies -> Games],
         \A m \in Lobbies : game'[m] = game[m] \/ IsLater(game[m], game'[m]),
         claim \in Claims =>
           /\ IsGone(claim.you) => IsGone(claim.you)'
           /\ \A s \in Sockets :
                Carries(sock[s], claim) /\ IsAwaited(claim, game[claim.lobby])
                  => Carries(sock'[s], claim) \/ IsSettled(claim, game'[claim.lobby])
  PROVE  GuessTraced'
<1> SUFFICES ASSUME guessSubmitted, ~lost, ~IsGone(claim.you)'
             PROVE  /\ claim # NoClaim
                    /\ \/ IsSettled(claim, game'[claim.lobby])
                       \/ /\ IsAwaited(claim, game'[claim.lobby])
                          /\ \E s \in Sockets : Carries(sock'[s], claim)
  BY DEF GuessTraced
<1>1. claim \in Claims /\ claim # NoClaim /\ claim.lobby \in Lobbies
  BY DEF GuessTraced, IInv, PageTyped, Claims
<1> DEFINE g == game[claim.lobby]
           h == game'[claim.lobby]
<1>2. g \in Games /\ h \in Games /\ (h = g \/ IsLater(g, h))
  BY <1>1 DEF IInv, ServerTyped
<1>3. \/ IsSettled(claim, g)
      \/ IsAwaited(claim, g) /\ \E s \in Sockets : Carries(sock[s], claim)
  BY <1>1 DEF GuessTraced
<1>4. \A s \in Sockets : Carries(sock[s], claim) /\ IsAwaited(claim, g)
        => Carries(sock'[s], claim) \/ IsSettled(claim, h)
  BY <1>1
<1> HIDE DEF g, h
<1>5. /\ IsSettled(claim, g) => IsSettled(claim, h)
      /\ IsAwaited(claim, g) => IsAwaited(claim, h) \/ IsSettled(claim, h)
  BY <1>1, <1>2, SettledStays
<1>6. \/ IsSettled(claim, h)
      \/ IsAwaited(claim, h) /\ \E s \in Sockets : Carries(sock'[s], claim)
  BY <1>3, <1>4, <1>5
<1> QED
  BY <1>1, <1>6 DEF h

(***************************************************************************)
(* The server sends the game of a lobby, gone on or not, to all who are in *)
(* it, one of whom may just have come in and have been given an ID.        *)
(***************************************************************************)
LEMMA BroadcastStep ==
  ASSUME IInv, ~stray, NEW l \in Lobbies, NEW h \in Games, IsLater(game[l], h),
         game' = [game EXCEPT ![l] = h],
         NEW sockets \in [Sockets -> SocketRecords],
         sock' = Sent(sockets, l, h),
         issued' \in Seq(Lobbies), Len(issued') >= Len(issued),
         \A i \in 1..Len(issued) : issued'[i] = issued[i],
         \A t \in Sockets :
           /\ sockets[t].lobby = sock[t].lobby /\ sockets[t].frames = sock[t].frames
           /\ sockets[t].guesses <= sock[t].guesses
           /\ sock[t].state = "closed" => sockets[t] = sock[t]
           /\ \/ sockets[t].state = sock[t].state /\ sockets[t].playerId = sock[t].playerId
              \/ /\ sock[t].state = "connecting" /\ sockets[t].state = "open" /\ sock[t].lobby = l
                 /\ sockets[t].playerId \in 1..Len(issued') /\ issued'[sockets[t].playerId] = l
                 /\ \/ sockets[t].playerId = sock[t].playerId
                    \/ sock[t].playerId = NoID /\ sockets[t].playerId > Len(issued),
         claim \in Claims =>
           \A s \in Sockets :
             Carries(sock[s], claim) /\ IsAwaited(claim, game[claim.lobby])
               => Carries(sockets[s], claim) \/ IsSettled(claim, game'[claim.lobby]),
         Untouched
  PROVE  IInv'
<1>1. UNCHANGED <<ws, leaving, reconnectTimer, session, url, asked, hasty, screen, snapshot,
                  guessSubmitted, claim, lost, stray>>
  BY DEF Untouched, userVars, viewVars, markerVars
<1>2. /\ sock \in [Sockets -> SocketRecords] /\ game \in [Lobbies -> Games]
      /\ game' \in [Lobbies -> Games] /\ game'[l] = h
      /\ \A m \in Lobbies \ {l} : game'[m] = game[m]
      /\ issued \in Seq(Lobbies) /\ Len(issued) \in Nat /\ Len(issued') \in Nat
  BY DEF IInv, ServerTyped
<1>3. \A m \in Lobbies : game'[m] = game[m] \/ IsLater(game[m], game'[m])
  BY <1>2
<1>4. ASSUME NEW f \in Frames, IsBehind(f, game[f.lobby])
      PROVE  IsBehind(f, game'[f.lobby])
  <2>1. f.lobby \in Lobbies
    BY DEF Frames
  <2> QED
    BY <1>2, <1>3, <1>4, <2>1, BehindStays
<1>20. /\ sock' \in [Sockets -> SocketRecords]
       /\ \A t \in Sockets :
            /\ sock'[t].state = sockets[t].state /\ sock'[t].lobby = sockets[t].lobby
            /\ sock'[t].playerId = sockets[t].playerId /\ sock'[t].guesses = sockets[t].guesses
            /\ sock'[t].frames = IF sockets[t].state = "open" /\ sockets[t].lobby = l
                                 THEN Append(sockets[t].frames, FrameFor(l, sockets[t].playerId, h))
                                 ELSE sockets[t].frames
            /\ sockets[t].state # "open" => sock'[t] = sockets[t]
  BY SentSockets
<1> DEFINE new(t) == FrameFor(l, sock'[t].playerId, h)
           sent(t) == sock'[t].state = "open" /\ sock'[t].lobby = l
<1>5. ASSUME NEW t \in Sockets
      PROVE  /\ sock[t].frames \in Seq(Frames) /\ sock[t].guesses \in Nat
             /\ sock'[t].guesses \in Nat /\ sock'[t].playerId \in Nat
             /\ sock'[t].guesses <= sock[t].guesses /\ sock'[t].lobby = sock[t].lobby
             /\ sock'[t].frames = IF sent(t) THEN Append(sock[t].frames, new(t)) ELSE sock[t].frames
             /\ sock[t].state = "closed" => sock'[t] = sock[t]
             /\ \/ sock'[t].state = sock[t].state /\ sock'[t].playerId = sock[t].playerId
                \/ /\ sock[t].state = "connecting" /\ sent(t) /\ sock'[t].playerId # NoID
                   /\ sock'[t].playerId \in 1..Len(issued') /\ issued'[sock'[t].playerId] = l
                   /\ \/ sock'[t].playerId = sock[t].playerId
                      \/ sock[t].playerId = NoID /\ sock'[t].playerId > Len(issued)
  BY <1>2, <1>20 DEF SocketRecords, NoID
<1>6. ASSUME NEW t \in Sockets
      PROVE  /\ new(t) \in Frames /\ IsBehind(new(t), h)
             /\ new(t).lobby = l /\ new(t).you = sock'[t].playerId
  BY <1>5, FrameIsBehind
<1>7. ASSUME NEW t \in Sockets
      PROVE  IF sent(t) THEN /\ sock'[t].frames # <<>>
                             /\ DOMAIN sock'[t].frames = 1..(Len(sock[t].frames) + 1)
                             /\ Len(sock'[t].frames) = Len(sock[t].frames) + 1
                             /\ sock'[t].frames[Len(sock[t].frames) + 1] = new(t)
                             /\ \A i \in DOMAIN sock[t].frames :
                                  sock'[t].frames[i] = sock[t].frames[i]
                             /\ DOMAIN sock[t].frames = 1..Len(sock[t].frames)
                             /\ Len(sock[t].frames) \in Nat
             ELSE sock'[t].frames = sock[t].frames
  <2> DEFINE q == sock[t].frames
  <2>1. q \in Seq(Frames) /\ new(t) \in Frames
    BY <1>5, <1>6
  <2>2. sock'[t].frames = IF sent(t) THEN Append(q, new(t)) ELSE q
    BY <1>5
  <2> HIDE DEF q, new, sent
  <2>3. /\ Append(q, new(t)) # <<>> /\ DOMAIN Append(q, new(t)) = 1..(Len(q) + 1)
        /\ Len(Append(q, new(t))) = Len(q) + 1 /\ Append(q, new(t))[Len(q) + 1] = new(t)
        /\ DOMAIN q = 1..Len(q) /\ Len(q) \in Nat
        /\ \A i \in DOMAIN q : Append(q, new(t))[i] = q[i]
    BY <2>1
  <2> QED
    BY <2>2, <2>3 DEF q
<1> HIDE DEF sent
<1>8. ASSUME NEW t \in Sockets, NEW i \in DOMAIN sock'[t].frames
      PROVE  \/ i \in DOMAIN sock[t].frames /\ sock'[t].frames[i] = sock[t].frames[i]
             \/ sent(t) /\ sock'[t].frames[i] = new(t)
  BY <1>7
<1>9. PageTyped'
  BY <1>1 DEF IInv, PageTyped
<1>10. ServerTyped' /\ IdKnown'
  BY <1>1, <1>2, <1>20 DEF IInv, ServerTyped, IdKnown
<1>21. \A m, i : IsIdOf(m, i) => i \in 1..Len(issued') /\ issued'[i] = m
  BY <1>2 DEF IsIdOf
<1>11. SocketsSound'
  <2> SUFFICES ASSUME NEW t \in Sockets PROVE SocketSound(t)'
    BY DEF SocketsSound
  <2>1. SocketSound(t)
    BY DEF IInv, SocketsSound
  <2>2. ASSUME NEW i \in DOMAIN sock'[t].frames
        PROVE  sock'[t].frames[i].lobby = sock'[t].lobby /\ sock'[t].frames[i].you = sock'[t].playerId
    <3>1. CASE i \in DOMAIN sock[t].frames /\ sock'[t].frames[i] = sock[t].frames[i]
      BY <1>5, <2>1, <3>1 DEF SocketSound
    <3>2. CASE sent(t) /\ sock'[t].frames[i] = new(t)
      BY <1>6, <3>2 DEF sent
    <3> QED
      BY <1>8, <3>1, <3>2
  <2>3. sock'[t].frames # sock[t].frames => sock'[t].state = "open"
    BY <1>5 DEF sent
  <2>4. sock'[t].guesses > 0 => sock[t].guesses > 0
    BY <1>5
  <2>5. sock[t].guesses = 0 => sock'[t].guesses = 0
    BY <1>5
  <2>6. sock'[t].playerId # NoID =>
          sock'[t].playerId \in 1..Len(issued') /\ issued'[sock'[t].playerId] = sock'[t].lobby
    <3>1. CASE sock'[t].playerId = sock[t].playerId
      BY <1>5, <1>21, <2>1, <3>1 DEF SocketSound
    <3>2. CASE sock'[t].playerId # sock[t].playerId
      BY <1>5, <3>2 DEF sent
    <3> QED
      BY <3>1, <3>2
  <2>7. sock[t].playerId # NoID => sock'[t].playerId # NoID
    BY <1>5
  <2>8. /\ sock'[t].state = "closed" => sock'[t] = Closed
        /\ sock'[t].state # "closed" => sock'[t].lobby \in Lobbies
        /\ sock'[t].state = "open" => sock'[t].playerId # NoID
        /\ sock'[t].state = "connecting" => sock[t].state = "connecting"
    BY <1>5, <2>1 DEF SocketSound, sent
  <2> HIDE DEF new
  <2> QED
    BY <2>1, <2>2, <2>3, <2>4, <2>5, <2>6, <2>7, <2>8 DEF SocketSound, IsIdOf
<1>12. SocketsUpToDate'
  <2> SUFFICES ASSUME NEW t \in Sockets, sock'[t].state = "open"
               PROVE  UpToDate(t)'
    BY DEF SocketsUpToDate, UpToDate
  <2>1. CASE sent(t)
    BY <1>2, <1>7, <2>1 DEF UpToDate, sent
  <2>2. CASE ~sent(t)
    <3>5. sock[t].state = "open" /\ sock'[t].playerId = sock[t].playerId /\ sock'[t].lobby = sock[t].lobby
      BY <1>5, <2>2
    <3>1. game'[sock[t].lobby] = game[sock[t].lobby]
      BY <1>2, <2>2, <3>5 DEF sent, IInv, SocketsSound, SocketSound
    <3>2. sock'[t].frames = sock[t].frames
      BY <1>7, <2>2
    <3>3. FrameFor(sock'[t].lobby, sock'[t].playerId, game'[sock'[t].lobby])
            = FrameFor(sock[t].lobby, sock[t].playerId, game[sock[t].lobby])
      BY <3>1, <3>5
    <3>4. UpToDate(t)
      BY DEF IInv, SocketsUpToDate
    <3> QED
      BY <1>1, <3>2, <3>3, <3>4, <3>5 DEF UpToDate
  <2> QED
    BY <2>1, <2>2
<1>13. NothingAhead'
  <2>1. ASSUME NEW t \in Sockets, NEW i \in DOMAIN sock'[t].frames
        PROVE  IsBehind(sock'[t].frames[i], game'[sock'[t].frames[i].lobby])
    <3>1. CASE i \in DOMAIN sock[t].frames /\ sock'[t].frames[i] = sock[t].frames[i]
      <4>1. sock[t].frames[i] \in Frames
        BY <1>5, <3>1
      <4>2. IsBehind(sock[t].frames[i], game[sock[t].frames[i].lobby])
        BY <3>1 DEF IInv, NothingAhead
      <4> QED
        BY <1>4, <3>1, <4>1, <4>2
    <3>2. CASE sent(t) /\ sock'[t].frames[i] = new(t)
      BY <1>2, <1>6, <3>2
    <3> QED
      BY <1>8, <3>1, <3>2
  <2>2. snapshot # NoFrame => IsBehind(snapshot, game'[snapshot.lobby])
    BY <1>4 DEF IInv, NothingAhead, PageTyped
  <2> QED
    BY <1>1, <2>1, <2>2 DEF NothingAhead
<1>22. ASSUME NEW i, IsGone(i)
       PROVE  IsGone(i)'
  <2>1. i \in 1..Len(issued') /\ i # session'.playerId
    BY <1>1, <1>2, <1>22 DEF IsGone
  <2>2. ASSUME ws # NoSocket
        PROVE  sock'[ws].playerId # i
    <3>1. ws \in Sockets
      BY <2>2 DEF IInv, PageTyped
    <3> QED
      BY <1>2, <1>5, <1>22, <2>2, <3>1 DEF IsGone
  <2> QED
    BY <1>1, <2>1, <2>2 DEF IsGone
<1>14. PageSound'
  <2>1. PageSound /\ (ws # NoSocket => ws \in Sockets)
    BY DEF IInv, PageTyped
  <2>2. session.playerId # NoID =>
          session.playerId \in 1..Len(issued') /\ issued'[session.playerId] = session.lobby
    BY <1>21, <2>1 DEF PageSound
  <2>3. ASSUME ws # NoSocket, sock'[ws].state # "closed"
        PROVE  /\ sock'[ws].lobby = session.lobby
               /\ session.playerId # NoID => sock'[ws].playerId = session.playerId
    <3>1. sock[ws].state # "closed"
      BY <1>5, <2>1, <2>3
    <3> QED
      BY <1>5, <2>1, <2>3, <3>1 DEF PageSound
  <2>4. ws # NoSocket /\ sock[ws].state = "closed" => sock'[ws].state = "closed"
    BY <1>5, <2>1
  <2>5. snapshot # NoFrame =>
          \/ /\ snapshot.lobby = session.lobby
             /\ snapshot.you = session.playerId /\ session.playerId # NoID
          \/ IsGone(snapshot.you)'
    BY <1>1, <1>22, <2>1 DEF PageSound
  <2> QED
    BY <1>1, <2>1, <2>2, <2>3, <2>4, <2>5 DEF PageSound, IsIdOf
<1>15. GuessTraced'
  <2>1. GuessTraced /\ UNCHANGED <<guessSubmitted, claim, lost>>
    BY <1>1 DEF IInv
  <2>2. \A c, s : s \in Sockets /\ Carries(sockets[s], c) => Carries(sock'[s], c)
    BY <1>20 DEF Carries
  <2> QED
    BY <1>2, <1>3, <1>22, <2>1, <2>2, TracedStays
<1>16. OneAtMost'
  <2>1. Live' = Live
    BY <1>5 DEF Live, sent
  <2>2. \A t \in Sockets : sock[t].state = "closing" => sock'[t].state = "closing"
    BY <1>5
  <2> QED
    BY <1>1, <2>1, <2>2 DEF IInv, OneAtMost, Live
<1> QED
  BY <1>9, <1>10, <1>11, <1>12, <1>13, <1>14, <1>15, <1>16 DEF IInv

LEMMA OpensStep ==
  ASSUME IInv, NEW s \in Sockets, Opens(s)
  PROVE  IInv'
<1>1. PICK l, id :
        /\ l = sock[s].lobby
        /\ id = IF sock[s].playerId = NoID THEN Len(issued) + 1 ELSE sock[s].playerId
  OBVIOUS
<1> DEFINE sockets == [sock EXCEPT ![s].state = "open", ![s].playerId = id]
<1>2. /\ ~stray /\ sock[s].state = "connecting"
      /\ issued' = IF sock[s].playerId = NoID THEN Append(issued, l) ELSE issued
      /\ sock' = Sent(sockets, l, game[l])
      /\ Untouched /\ game' = game
  BY <1>1 DEF Opens, Followed
<1>3. /\ sock \in [Sockets -> SocketRecords] /\ issued \in Seq(Lobbies)
      /\ l \in Lobbies /\ game \in [Lobbies -> Games] /\ game[l] \in Games
  BY <1>1, <1>2 DEF IInv, ServerTyped, SocketsSound, SocketSound
<1>4. /\ issued' \in Seq(Lobbies) /\ Len(issued') \in Nat /\ Len(issued) \in Nat
      /\ Len(issued') >= Len(issued)
      /\ \A i \in 1..Len(issued) : issued'[i] = issued[i]
      /\ id \in 1..Len(issued') /\ issued'[id] = l
      /\ id = sock[s].playerId \/ (id > Len(issued) /\ sock[s].playerId = NoID)
  <2>1. CASE sock[s].playerId = NoID
    BY <1>1, <1>2, <1>3, <2>1
  <2>2. CASE sock[s].playerId # NoID
    BY <1>1, <1>2, <1>3, <2>2 DEF IInv, SocketsSound, SocketSound, IsIdOf
  <2> QED
    BY <2>1, <2>2
<1>5. /\ sockets \in [Sockets -> SocketRecords]
      /\ sockets[s].state = "open" /\ sockets[s].playerId = id /\ sockets[s].lobby = sock[s].lobby
      /\ sockets[s].frames = sock[s].frames /\ sockets[s].guesses = sock[s].guesses
      /\ sock[s].guesses = 0
      /\ \A t \in Sockets \ {s} : sockets[t] = sock[t]
  <2> DEFINE r == sock[s]
  <2>1. r \in SocketRecords /\ id \in Nat
    BY <1>3, <1>4
  <2>2. sockets = [sock EXCEPT ![s] = [r EXCEPT !.state = "open", !.playerId = id]]
    BY <1>3
  <2>3. sock[s].guesses = 0
    BY <1>2 DEF IInv, SocketsSound, SocketSound
  <2> HIDE DEF r, sockets
  <2>4. /\ [r EXCEPT !.state = "open", !.playerId = id] \in SocketRecords
        /\ [r EXCEPT !.state = "open", !.playerId = id].state = "open"
        /\ [r EXCEPT !.state = "open", !.playerId = id].playerId = id
        /\ [r EXCEPT !.state = "open", !.playerId = id].lobby = r.lobby
        /\ [r EXCEPT !.state = "open", !.playerId = id].frames = r.frames
        /\ [r EXCEPT !.state = "open", !.playerId = id].guesses = r.guesses
    BY <2>1 DEF SocketRecords, SocketStates
  <2> QED
    BY <1>3, <2>2, <2>3, <2>4 DEF r
<1> HIDE DEF sockets
<1>6. game' = [game EXCEPT ![l] = game[l]] /\ IsLater(game[l], game[l])
  BY <1>2, <1>3 DEF IsLater
<1>7. \A t \in Sockets : sock[t].guesses \in Nat
  BY <1>3 DEF SocketRecords
<1>8. \A t \in Sockets :
        /\ sockets[t].lobby = sock[t].lobby /\ sockets[t].frames = sock[t].frames
        /\ sockets[t].guesses <= sock[t].guesses
        /\ sock[t].state = "closed" => sockets[t] = sock[t]
        /\ \/ sockets[t].state = sock[t].state /\ sockets[t].playerId = sock[t].playerId
           \/ /\ sock[t].state = "connecting" /\ sockets[t].state = "open" /\ sock[t].lobby = l
              /\ sockets[t].playerId \in 1..Len(issued') /\ issued'[sockets[t].playerId] = l
              /\ \/ sockets[t].playerId = sock[t].playerId
                 \/ sock[t].playerId = NoID /\ sockets[t].playerId > Len(issued)
  BY <1>1, <1>2, <1>4, <1>5, <1>7
<1>9. \A t \in Sockets : Carries(sock[t], claim) => Carries(sockets[t], claim)
  BY <1>5 DEF Carries
<1> QED
  BY <1>2, <1>3, <1>4, <1>5, <1>6, <1>8, <1>9, BroadcastStep

LEMMA MovesStep ==
  ASSUME IInv, NEW l \in Lobbies, Moves(l)
  PROVE  IInv'
<1> DEFINE g == game[l]
           present == {sock[s].playerId : s \in {t \in Sockets : IsOpen(t) /\ sock[t].lobby = l}}
           next == CASE g.phase = "HINT"  -> {[g EXCEPT !.phase = "GUESS"]}
                     [] g.phase = "GUESS" -> {[g EXCEPT !.phase = "REVEAL"]}
                     [] OTHER -> {[round |-> g.round + 1, phase |-> "HINT", giver |-> p, guessed |-> {}] :
                                    p \in {NoID} \cup present}
<1>1. PICK h \in next : game' = [game EXCEPT ![l] = h] /\ sock' = Sent(sock, l, h)
  BY DEF Moves
<1>2. ~stray /\ Untouched /\ UNCHANGED issued
  BY DEF Moves, Followed
<1>3. /\ g \in Games /\ sock \in [Sockets -> SocketRecords] /\ game \in [Lobbies -> Games]
      /\ issued \in Seq(Lobbies) /\ Len(issued) \in Nat
  BY DEF IInv, ServerTyped
<1>4. h \in Games /\ IsLater(g, h)
  <2>1. CASE g.phase = "HINT"
    <3>1. h = [g EXCEPT !.phase = "GUESS"]
      BY <1>1, <2>1
    <3> HIDE DEF g, next
    <3> QED
      BY <1>3, <2>1, <3>1 DEF Games, Phases, IsLater
  <2>2. CASE g.phase = "GUESS"
    <3>1. h = [g EXCEPT !.phase = "REVEAL"]
      BY <1>1, <2>2
    <3> HIDE DEF g, next
    <3> QED
      BY <1>3, <2>2, <3>1 DEF Games, Phases, IsLater
  <2>3. CASE g.phase \notin {"HINT", "GUESS"}
    <3>1. PICK p \in {NoID} \cup present :
            h = [round |-> g.round + 1, phase |-> "HINT", giver |-> p, guessed |-> {}]
      BY <1>1, <2>3
    <3>2. p \in Nat
      BY <1>3 DEF NoID, SocketRecords
    <3> HIDE DEF g, next, present
    <3> QED
      BY <1>3, <3>1, <3>2 DEF Games, Phases, IsLater
  <2> QED
    BY <2>1, <2>2, <2>3
<1> HIDE DEF next, present
<1>5. \A t \in Sockets : sock[t].guesses \in Nat
  BY <1>3 DEF SocketRecords
<1>6. /\ issued' \in Seq(Lobbies) /\ Len(issued') >= Len(issued)
      /\ \A i \in 1..Len(issued) : issued'[i] = issued[i]
  BY <1>2, <1>3
<1>7. game' = [game EXCEPT ![l] = h] /\ sock' = Sent(sock, l, h) /\ IsLater(game[l], h)
  BY <1>1, <1>4
<1>8. h \in Games /\ sock \in [Sockets -> SocketRecords]
  BY <1>3, <1>4
<1>9. \A t \in Sockets :
        /\ sock[t].guesses <= sock[t].guesses
        /\ sock[t].state = sock[t].state /\ sock[t].playerId = sock[t].playerId
  BY <1>5
<1> HIDE DEF g
<1> QED
  BY <1>2, <1>6, <1>7, <1>8, <1>9, BroadcastStep

(***************************************************************************)
(* A guess arrives while the round it was meant for is open, and is on the *)
(* board; or that round is over, or the guess is refused.                  *)
(***************************************************************************)
LEMMA ServesStep ==
  ASSUME IInv, NEW s \in Sockets, Serves(s)
  PROVE  IInv'
<1> DEFINE served == [sock EXCEPT ![s].guesses = @ - 1]
<1>1. /\ ~stray /\ sock[s].guesses > 0 /\ Untouched /\ UNCHANGED issued
  BY DEF Serves, Followed
<1>2. /\ sock \in [Sockets -> SocketRecords] /\ game \in [Lobbies -> Games]
      /\ issued \in Seq(Lobbies) /\ Len(issued) \in Nat
      /\ \A t \in Sockets : sock[t].guesses \in Nat
  BY DEF IInv, ServerTyped, SocketRecords
<1>3. PICK l : l = sock[s].lobby
  OBVIOUS
<1>4. l \in Lobbies /\ game[l] \in Games /\ sock[s].playerId \in Nat
  BY <1>1, <1>2, <1>3, ClosedIsASocket
  DEF IInv, SocketsSound, SocketSound, SocketRecords
<1>5. GuessTraced /\ UNCHANGED <<guessSubmitted, claim, lost>>
  BY <1>1 DEF IInv, Untouched, markerVars
<1>8. /\ served \in [Sockets -> SocketRecords]
      /\ served[s].state = sock[s].state /\ served[s].lobby = sock[s].lobby
      /\ served[s].playerId = sock[s].playerId /\ served[s].frames = sock[s].frames
      /\ served[s].guesses < sock[s].guesses /\ served[s].guesses \in Nat
      /\ sock[s].state \notin {"closed", "connecting"}
      /\ \A t \in Sockets \ {s} : served[t] = sock[t]
  <2>1. sock[s] \in SocketRecords /\ sock[s].guesses - 1 \in Nat
    BY <1>1, <1>2
  <2> DEFINE r == sock[s]
             n == r.guesses - 1
  <2>2. /\ served = [sock EXCEPT ![s] = [r EXCEPT !.guesses = n]]
        /\ r \in SocketRecords /\ n \in Nat /\ n < r.guesses
    BY <1>2, <2>1
  <2> HIDE DEF r, n
  <2>3. /\ [r EXCEPT !.guesses = n] \in SocketRecords
        /\ [r EXCEPT !.guesses = n].state = r.state /\ [r EXCEPT !.guesses = n].lobby = r.lobby
        /\ [r EXCEPT !.guesses = n].playerId = r.playerId
        /\ [r EXCEPT !.guesses = n].frames = r.frames /\ [r EXCEPT !.guesses = n].guesses = n
    BY <2>2 DEF SocketRecords
  <2>4. sock[s].state \notin {"closed", "connecting"}
    BY <1>1, ClosedIsASocket DEF IInv, SocketsSound, SocketSound
  <2> HIDE DEF served
  <2> QED
    BY <1>2, <2>2, <2>3, <2>4 DEF r
<1>6. CASE game[l].phase = "GUESS" /\ game[l].giver # sock[s].playerId
  <2>1. PICK p \in {"GUESS", "REVEAL"} :
          LET h == [game[l] EXCEPT !.guessed = @ \cup {sock[s].playerId}, !.phase = p]
          IN  game' = [game EXCEPT ![l] = h] /\ sock' = Sent(served, l, h)
    BY <1>3, <1>6 DEF Serves
  <2> DEFINE h == [game[l] EXCEPT !.guessed = @ \cup {sock[s].playerId}, !.phase = p]
  <2>2. game' = [game EXCEPT ![l] = h] /\ sock' = Sent(served, l, h)
    BY <2>1
  <2>3. h \in Games /\ IsLater(game[l], h) /\ sock[s].playerId \in h.guessed /\ h.round = game[l].round
    BY <1>4, <1>6 DEF Games, Phases, IsLater
  <2> HIDE DEF h, served
  <2>6. game'[l] = h
    BY <1>2, <1>4, <2>2
  <2>7. ASSUME claim \in Claims, NEW t \in Sockets, Carries(sock[t], claim),
               IsAwaited(claim, game[claim.lobby])
        PROVE  Carries(served[t], claim) \/ IsSettled(claim, game'[claim.lobby])
    <3>1. CASE t = s
      <4>1. claim.lobby = l /\ claim.you = sock[s].playerId
        BY <1>3, <2>7, <3>1 DEF Carries
      <4>2. claim.round = game[l].round
        BY <2>7, <4>1 DEF IsAwaited
      <4> QED
        BY <2>3, <2>6, <4>1, <4>2 DEF IsSettled
    <3>2. CASE t # s
      BY <1>8, <2>7, <3>2 DEF Carries
    <3> QED
      BY <3>1, <3>2
  <2>8. \A t \in Sockets :
          /\ served[t].lobby = sock[t].lobby /\ served[t].frames = sock[t].frames
          /\ served[t].guesses <= sock[t].guesses
          /\ sock[t].state = "closed" => served[t] = sock[t]
          /\ served[t].state = sock[t].state /\ served[t].playerId = sock[t].playerId
    BY <1>2, <1>8
  <2>9. /\ issued' \in Seq(Lobbies) /\ Len(issued') >= Len(issued)
        /\ \A i \in 1..Len(issued) : issued'[i] = issued[i]
    BY <1>1, <1>2
  <2> QED
    BY <1>1, <1>4, <1>8, <2>2, <2>3, <2>7, <2>8, <2>9, BroadcastStep
<1>7. CASE ~(game[l].phase = "GUESS" /\ game[l].giver # sock[s].playerId)
  <2>1. sock' = served /\ UNCHANGED game
    BY <1>3, <1>7 DEF Serves
  <2>2. UNCHANGED <<ws, leaving, reconnectTimer, session, url, asked, hasty, screen, snapshot,
                    guessSubmitted, claim, lost, game, issued, stray>>
    BY <1>1, <2>1 DEF Untouched, userVars, viewVars, markerVars
  <2> HIDE DEF served
  <2>3. /\ sock' \in [Sockets -> SocketRecords]
        /\ sock'[s].state = sock[s].state /\ sock'[s].lobby = sock[s].lobby
        /\ sock'[s].playerId = sock[s].playerId /\ sock'[s].frames = sock[s].frames
        /\ sock[s].state \notin {"closed", "connecting"}
        /\ \A t \in Sockets \ {s} : sock'[t] = sock[t]
    BY <1>8, <2>1
  <2>4. \A t \in Sockets : sock'[t].guesses > 0 => sock[t].guesses > 0
    BY <1>1, <2>3
  <2>5. PageTyped'
    BY <2>2 DEF IInv, PageTyped
  <2>6. ServerTyped' /\ IdKnown'
    BY <2>2, <2>3 DEF IInv, ServerTyped, IdKnown
  <2>7. SocketsSound'
    BY <2>2, <2>3, <2>4 DEF IInv, SocketsSound, SocketSound, IsIdOf
  <2>8. SocketsUpToDate'
    BY <2>2, <2>3 DEF IInv, SocketsUpToDate, UpToDate, FrameFor
  <2>9. NothingAhead'
    BY <2>2, <2>3 DEF IInv, NothingAhead
  <2>10. PageSound' /\ OneAtMost' /\ \A i : IsGone(i) => IsGone(i)'
    <3>1. /\ \A t \in Sockets : /\ sock'[t].state = sock[t].state /\ sock'[t].lobby = sock[t].lobby
                                 /\ sock'[t].playerId = sock[t].playerId
          /\ ws \in Sockets \cup {NoSocket}
      BY <2>3 DEF IInv, PageTyped
    <3>2. \A i : IsGone(i) <=> IsGone(i)'
      BY <2>2, <3>1 DEF IsGone
    <3>3. PageSound'
      BY <1>1, <2>2, <3>1, <3>2 DEF IInv, PageSound, IsIdOf
    <3>4. Live' = Live
      BY <3>1 DEF Live
    <3> QED
      BY <2>2, <3>1, <3>2, <3>3, <3>4 DEF IInv, OneAtMost, Live
  <2>11. GuessTraced'
    <3>1. ASSUME claim \in Claims, NEW t \in Sockets, Carries(sock[t], claim),
                 IsAwaited(claim, game[claim.lobby])
          PROVE  Carries(sock'[t], claim)
      <4>1. t # s
        BY <1>3, <1>7, <3>1 DEF Carries, IsAwaited
      <4> QED
        BY <2>3, <3>1, <4>1
    <3> QED
      BY <1>2, <1>5, <2>1, <2>10, <3>1, TracedStays
  <2> QED
    BY <2>5, <2>6, <2>7, <2>8, <2>9, <2>10, <2>11 DEF IInv
<1> QED
  BY <1>6, <1>7

LEMMA TailParts ==
  ASSUME NEW S, NEW q \in Seq(S), q # <<>>
  PROVE  /\ Head(q) \in S /\ Head(q) = q[1] /\ 1 \in DOMAIN q
         /\ Tail(q) \in Seq(S)
         /\ \A i \in DOMAIN Tail(q) : i + 1 \in DOMAIN q /\ Tail(q)[i] = q[i + 1]
         /\ IF Tail(q) = <<>> THEN Head(q) = q[Len(q)] ELSE Tail(q)[Len(Tail(q))] = q[Len(q)]
<1>1. /\ Head(q) \in S /\ Head(q) = q[1] /\ 1 \in DOMAIN q
      /\ \A i \in DOMAIN Tail(q) : i + 1 \in DOMAIN q /\ Tail(q)[i] = q[i + 1]
  OBVIOUS
<1>2. PICK u : u = Tail(q) /\ u \in Seq(S) /\ Len(u) = Len(q) - 1
  BY HeadTailProperties
<1>3. Len(q) \in Nat /\ Len(u) \in Nat
  BY <1>2
<1>4. u = <<>> => Len(q) = 1
  <2>1. u = <<>> => Len(u) = 0
    BY <1>2, EmptySeq
  <2> QED
    BY <1>2, <1>3, <2>1
<1>5. u # <<>> => Len(u) \in DOMAIN u /\ Len(u) + 1 = Len(q)
  BY <1>2, <1>3
<1> QED
  BY <1>1, <1>2, <1>4, <1>5

(***************************************************************************)
(* A state arrives at the page.                                            *)
(***************************************************************************)
LEMMA ReceivesStep ==
  ASSUME IInv, NEW s \in Sockets, Receives(s)
  PROVE  IInv'
<1> DEFINE q == sock[s].frames
           f == Head(q)
<1>1. /\ ~stray /\ IsOpen(s) /\ q # <<>>
      /\ sock' = [sock EXCEPT ![s].frames = Tail(q)]
      /\ session' = [session EXCEPT !.playerId = f.you]
      /\ guessSubmitted' = ((guessSubmitted /\ ~IsReset(f)) \/ f.yourGuess)
      /\ claim' = IF f.yourGuess THEN RoundOf(f) ELSE IF IsReset(f) THEN NoClaim ELSE claim
      /\ lost' = (lost /\ ~IsReset(f) /\ ~f.yourGuess)
      /\ snapshot' = f /\ screen' = "game"
      /\ stray' = (stray \/ s # ws)
      /\ UNCHANGED <<ws, leaving, reconnectTimer, url, asked, hasty, game, issued>>
  BY DEF Receives, Followed, OnStateMarker, userVars, serverVars
<1>2. /\ sock \in [Sockets -> SocketRecords] /\ game \in [Lobbies -> Games]
      /\ q \in Seq(Frames) /\ sock[s].state = "open" /\ s # NoSocket
      /\ session \in [lobby : Lobbies \cup {NoLobby}, playerId : Nat]
      /\ claim \in Claims \cup {NoClaim} /\ ws \in Sockets \cup {NoSocket}
  BY <1>1 DEF IInv, PageTyped, ServerTyped, SocketRecords, IsOpen
<1>3. /\ f \in Frames /\ f = q[1] /\ 1 \in DOMAIN q /\ Tail(q) \in Seq(Frames)
      /\ \A i \in DOMAIN Tail(q) : i + 1 \in DOMAIN q /\ Tail(q)[i] = q[i + 1]
      /\ IF Tail(q) = <<>> THEN f = q[Len(q)] ELSE Tail(q)[Len(Tail(q))] = q[Len(q)]
  <2> HIDE DEF q
  <2> QED
    BY <1>1, <1>2, TailParts
<1>4. /\ f.lobby = sock[s].lobby /\ f.you = sock[s].playerId /\ f.you # NoID
      /\ IsIdOf(f.lobby, f.you) /\ f.lobby \in Lobbies /\ f.you \in Nat
      /\ IsBehind(f, game[f.lobby])
  BY <1>1, <1>2, <1>3 DEF IInv, SocketsSound, SocketSound, NothingAhead, Frames
<1> HIDE DEF f
<1>5. /\ sock' \in [Sockets -> SocketRecords]
      /\ sock'[s].state = "open" /\ sock'[s].lobby = sock[s].lobby
      /\ sock'[s].playerId = sock[s].playerId /\ sock'[s].frames = Tail(q)
      /\ sock'[s].guesses = sock[s].guesses
      /\ \A t \in Sockets \ {s} : sock'[t] = sock[t]
  <2> DEFINE r == sock[s]
             u == Tail(q)
  <2>1. sock' = [sock EXCEPT ![s] = [r EXCEPT !.frames = u]] /\ r \in SocketRecords /\ u \in Seq(Frames)
    BY <1>1, <1>2, <1>3
  <2> HIDE DEF r, u, q
  <2>2. /\ [r EXCEPT !.frames = u] \in SocketRecords
        /\ [r EXCEPT !.frames = u].state = r.state /\ [r EXCEPT !.frames = u].lobby = r.lobby
        /\ [r EXCEPT !.frames = u].playerId = r.playerId
        /\ [r EXCEPT !.frames = u].guesses = r.guesses /\ [r EXCEPT !.frames = u].frames = u
    BY <2>1 DEF SocketRecords
  <2> QED
    BY <1>2, <2>1, <2>2 DEF r, u
<1>6. session'.lobby = session.lobby /\ session'.playerId = f.you
  BY <1>1, <1>2
<1>7. session' \in [lobby : Lobbies \cup {NoLobby}, playerId : Nat]
  BY <1>1, <1>2, <1>4
<1>8. /\ RoundOf(f) \in Claims /\ RoundOf(f) # NoClaim
      /\ RoundOf(f).lobby = f.lobby /\ RoundOf(f).you = f.you /\ RoundOf(f).round = f.round
      /\ f.yourGuess \in BOOLEAN
  BY <1>3, WebClientAssumption DEF RoundOf, Frames, Claims
<1>9. PageTyped'
  <2>1. claim' \in Claims \cup {NoClaim}
    BY <1>1, <1>2, <1>8
  <2>2. guessSubmitted' \in BOOLEAN /\ lost' \in BOOLEAN /\ stray' \in BOOLEAN
    BY <1>1
  <2> QED
    BY <1>1, <1>3, <1>7, <2>1, <2>2 DEF IInv, PageTyped
<1>10. ServerTyped' /\ IdKnown'
  BY <1>1, <1>4, <1>5, <1>6 DEF IInv, ServerTyped, IdKnown, IsIdOf
<1>11. ASSUME NEW i \in DOMAIN sock'[s].frames
       PROVE  i + 1 \in DOMAIN q /\ sock'[s].frames[i] = q[i + 1]
  BY <1>3, <1>5
<1>12. SocketsSound'
  <2> SUFFICES ASSUME NEW t \in Sockets PROVE SocketSound(t)'
    BY DEF SocketsSound
  <2>1. SocketSound(t) /\ UNCHANGED issued
    BY <1>1 DEF IInv, SocketsSound
  <2>2. CASE t = s
    <3>1. /\ f.lobby = sock'[s].lobby /\ f.you = sock'[s].playerId
          /\ f.you \in 1..Len(issued') /\ issued'[f.you] = f.lobby
      BY <1>4, <1>5, <2>1 DEF IsIdOf
    <3>2. \A i \in DOMAIN sock'[s].frames :
            sock'[s].frames[i].lobby = f.lobby /\ sock'[s].frames[i].you = f.you
      BY <1>4, <1>11, <2>1, <2>2 DEF SocketSound
    <3>3. f.you # NoID /\ f.lobby \in Lobbies
      BY <1>4
    <3> QED
      BY <1>5, <2>2, <3>1, <3>2, <3>3 DEF SocketSound, IsIdOf
  <2>3. CASE t # s
    BY <1>5, <2>1, <2>3 DEF SocketSound, IsIdOf
  <2> QED
    BY <2>2, <2>3
<1>13. SocketsUpToDate'
  <2> SUFFICES ASSUME NEW t \in Sockets PROVE UpToDate(t)'
    BY DEF SocketsUpToDate
  <2>1. UpToDate(t) /\ UNCHANGED <<game, ws>>
    BY <1>1 DEF IInv, SocketsUpToDate
  <2>2. CASE t = s
    <3> DEFINE now == FrameFor(sock[s].lobby, sock[s].playerId, game[sock[s].lobby])
    <3>1. q[Len(q)] = now
      BY <1>1, <1>2, <2>1, <2>2 DEF UpToDate
    <3>2. now = FrameFor(sock'[s].lobby, sock'[s].playerId, game'[sock'[s].lobby])
      BY <1>5, <2>1
    <3> HIDE DEF now
    <3>3. IF Tail(q) = <<>> THEN snapshot' = now ELSE Tail(q)[Len(Tail(q))] = now
      BY <1>1, <1>3, <3>1
    <3> QED
      BY <1>5, <2>2, <3>2, <3>3 DEF UpToDate
  <2>3. CASE t # s
    <3>1. t = ws => stray'
      BY <1>1, <2>3
    <3>2. FrameFor(sock'[t].lobby, sock'[t].playerId, game'[sock'[t].lobby])
            = FrameFor(sock[t].lobby, sock[t].playerId, game[sock[t].lobby])
      BY <1>5, <2>1, <2>3
    <3> QED
      BY <1>5, <2>1, <2>3, <3>1, <3>2 DEF UpToDate
  <2> QED
    BY <2>2, <2>3
<1>14. NothingAhead'
  <2>1. ASSUME NEW t \in Sockets, NEW i \in DOMAIN sock'[t].frames
        PROVE  IsBehind(sock'[t].frames[i], game[sock'[t].frames[i].lobby])
    <3>1. CASE t = s
      BY <1>11, <3>1 DEF IInv, NothingAhead
    <3>2. CASE t # s
      BY <1>5, <3>2 DEF IInv, NothingAhead
    <3> QED
      BY <3>1, <3>2
  <2> QED
    BY <1>1, <1>4, <2>1 DEF NothingAhead
<1>15. ASSUME ~stray' PROVE PageSound' /\ \A i : IsGone(i) => IsGone(i)'
  <2>1. s = ws /\ PageSound
    BY <1>1, <1>15 DEF IInv
  <2>2. session.lobby = f.lobby /\ sock[s].state = "open"
    BY <1>2, <1>4, <2>1 DEF PageSound
  <2>5. session'.playerId \in 1..Len(issued') /\ issued'[session'.playerId] = session'.lobby
    BY <1>1, <1>4, <1>6, <2>2 DEF IsIdOf
  <2>6. reconnectTimer = NoLobby
    BY <2>1, <2>2 DEF PageSound
  <2>7. PageSound'
    BY <1>1, <1>4, <1>5, <1>6, <2>1, <2>2, <2>5, <2>6 DEF PageSound, IsIdOf
  <2>8. \A i : IsGone(i) => IsGone(i)'
    BY <1>1, <1>2, <1>4, <1>5, <1>6, <2>1 DEF IsGone
  <2> QED
    BY <2>7, <2>8
<1>17. OneAtMost'
  <2>1. Live' = Live /\ s \in Live /\ sock[s].state = "open"
    BY <1>2, <1>5 DEF Live
  <2>2. \A t \in Sockets : sock'[t].state = sock[t].state
    BY <1>2, <1>5
  <2> QED
    BY <1>1, <2>1, <2>2 DEF IInv, OneAtMost, Live
<1>16. ASSUME ~stray' PROVE GuessTraced'
  <2>1. CASE f.yourGuess
    <3>1. claim' = RoundOf(f) /\ game' = game
      BY <1>1, <2>1
    <3>2. game[f.lobby] \in Games
      BY <1>2, <1>4
    <3>3. IsSettled(RoundOf(f), game[f.lobby])
      BY <1>3, <1>4, <1>8, <2>1, <3>2 DEF IsSettled, IsBehind, Frames, Games
    <3> QED
      BY <1>8, <3>1, <3>3 DEF GuessTraced
  <2>2. CASE ~f.yourGuess /\ ~IsReset(f)
    <3>1. claim' = claim /\ game' = game /\ (guessSubmitted' => guessSubmitted) /\ (lost => lost')
      BY <1>1, <2>2
    <3>2. \A t \in Sockets : Carries(sock[t], claim) => Carries(sock'[t], claim)
      BY <1>5 DEF Carries
    <3> QED
      BY <1>1, <1>15, <1>16, <3>1, <3>2 DEF IInv, GuessTraced
  <2>3. CASE ~f.yourGuess /\ IsReset(f)
    BY <1>1, <2>3 DEF GuessTraced
  <2> QED
    BY <2>1, <2>2, <2>3
<1> QED
  BY <1>9, <1>10, <1>12, <1>13, <1>14, <1>15, <1>16, <1>17 DEF IInv

-----------------------------------------------------------------------------
LEMMA PageStep ==
  ASSUME IInv, [Next]_vars
  PROVE  IInv'
<1>1. ASSUME NEW l \in Lobbies, Enter(l) PROVE IInv'
  BY <1>1, EnterStep
<1>2. ASSUME NEW l \in Lobbies \cup {NoLobby}, Load(l) PROVE IInv'
  BY <1>2, LoadStep
<1>3. ASSUME NEW s \in Sockets, Breaks(s) \/ Closes(s) \/ Receives(s) \/ Opens(s) \/ Serves(s)
      PROVE  IInv'
  BY <1>3, BreaksStep, ClosesStep, ReceivesStep, OpensStep, ServesStep
<1>4. ASSUME NEW l \in Lobbies, Moves(l) PROVE IInv'
  BY <1>4, MovesStep
<1>5. ASSUME NEW l \in Lobbies, Asks(l) \/ Declines(l) PROVE IInv'
  BY <1>5, AsksStep
<1> QED
  BY <1>1, <1>2, <1>3, <1>4, <1>5, LeaveStep, MarksStep, GuessesStep, ReconnectStep DEF Next, UserNext

LEMMA PageAlways == Spec => []IInv
<1>1. IInv /\ [Next]_vars => IInv'
  BY PageStep
<1> QED
  BY <1>1, InitSound, PTL DEF Spec

(***************************************************************************)
(* Every page is well-typed, and one that is leaving waits for no          *)
(* reconnect (app.js: disconnect, connect, onClose).                       *)
(***************************************************************************)
THEOREM PageTypes == Spec => []WebClientTypeOK
<1>1. IInv => WebClientTypeOK
  BY DEF IInv, PageTyped, ServerTyped, IdKnown, WebClientTypeOK
<1> QED
  BY <1>1, PageAlways, PTL

LEMMA DrainedPageIsCurrent ==
  ASSUME IInv, ~stray, IsOpen(ws), sock[ws].frames = <<>>
  PROVE  /\ snapshot = FrameFor(session.lobby, session.playerId, game[session.lobby])
         /\ snapshot # NoFrame /\ snapshot.lobby = session.lobby
         /\ sock[ws].playerId = session.playerId
<1>1. ws \in Sockets /\ ws # NoSocket /\ sock[ws].state = "open" /\ PageSound
  BY WebClientAssumption DEF IsOpen, IInv, PageTyped
<1>2. snapshot = FrameFor(sock[ws].lobby, sock[ws].playerId, game[sock[ws].lobby])
  BY <1>1 DEF IInv, SocketsUpToDate, UpToDate
<1>3. /\ sock[ws].lobby \in Lobbies /\ sock[ws].playerId \in Nat
      /\ game[sock[ws].lobby] \in Games
  BY <1>1 DEF IInv, SocketsSound, SocketSound, ServerTyped, SocketRecords
<1>4. /\ snapshot # NoFrame /\ snapshot.you = sock[ws].playerId
      /\ snapshot.lobby = sock[ws].lobby
  BY <1>2, <1>3, FrameIsBehind, WebClientAssumption
<1>5. sock[ws].lobby = session.lobby /\ sock[ws].playerId = session.playerId
  BY <1>1, <1>4 DEF PageSound, IsGone
<1> QED
  BY <1>2, <1>4, <1>5

(***************************************************************************)
(* With any number of lobbies, sockets and requests under way, and         *)
(* whatever breaks, is loaded, entered or left, the bare address included: *)
(* as long as no handler of a socket ran that the page had let go, its     *)
(* socket, its reconnect and its player ID belong to the lobby in the      *)
(* session, the address bar names no other, and the page shows that lobby  *)
(* once its state has arrived (enterLobby, connect, scheduleReconnect,     *)
(* boot, onState).                                                         *)
(***************************************************************************)
THEOREM PageIsInOneLobby == Spec => []IsInOneLobby
<1>1. IInv => IsInOneLobby
  <2> SUFFICES ASSUME IInv, ~stray PROVE IsInOneLobby
    BY DEF IsInOneLobby
  <2>1. PageSound
    BY DEF IInv
  <2>2. IsOpen(ws) /\ sock[ws].frames = <<>> => snapshot # NoFrame /\ snapshot.lobby = session.lobby
    BY DrainedPageIsCurrent
  <2> QED
    BY <2>1, <2>2 DEF PageSound, IsIdOf, IsInOneLobby
<1> QED
  BY <1>1, PageAlways, PTL

(***************************************************************************)
(* A second socket, and with it a handler that still runs, needs a lobby   *)
(* entered while a socket is there (enterLobby after createLobby or        *)
(* lobbyExists): neither the reconnect timer nor "leave" nor a load of any *)
(* address brings one about (connect, disconnect, onClose).                *)
(***************************************************************************)
THEOREM PageKeepsOneSocket == Spec => []OneSocketUnlessHasty
<1>1. IInv => OneSocketUnlessHasty
  BY DEF IInv, OneAtMost, OneSocketUnlessHasty
<1> QED
  BY <1>1, PageAlways, PTL

(***************************************************************************)
(* A page with nothing under way shows the game as it is, for its player   *)
(* and in the lobby of its session, whatever the address bar names and     *)
(* whichever other sockets are still there (onState, connect): the states  *)
(* that were lost with a socket are made up for by the next one.           *)
(***************************************************************************)
THEOREM SettledPageIsCurrent ==
  Spec => [](~stray /\ Settled =>
               snapshot = FrameFor(session.lobby, session.playerId, game[session.lobby]))
<1>1. IInv =>
        (~stray /\ Settled =>
           snapshot = FrameFor(session.lobby, session.playerId, game[session.lobby]))
  BY DrainedPageIsCurrent DEF Settled
<1> QED
  BY <1>1, PageAlways, PTL

(***************************************************************************)
(* Whatever is under way between page and server, and over any number of   *)
(* rounds: a guesser whose marker is locked has a guess on the board, was  *)
(* too late with it, lost it with a connection, or is locked since a round *)
(* of whose end the page has seen nothing (onState, the button "guess").   *)
(***************************************************************************)
THEOREM PageLocksOutOnlyByLoss == Spec => []LockedOutOnlyByLoss
<1>1. IInv => LockedOutOnlyByLoss
  <2> SUFFICES ASSUME IInv, Settled, snapshot # NoFrame, snapshot.phase = "GUESS",
                      guessSubmitted, ~snapshot.yourGuess,
                      ~stray, ~lost, claim \in {NoClaim, RoundOf(snapshot)}
               PROVE  FALSE
    BY DEF LockedOutOnlyByLoss
  <2>1. /\ ws \in Sockets /\ ws # NoSocket /\ sock[ws].state = "open"
        /\ IsOpen(ws) /\ sock[ws].frames = <<>>
    BY WebClientAssumption DEF Settled, IsOpen, IInv, PageTyped
  <2>2. snapshot = FrameFor(sock[ws].lobby, sock[ws].playerId, game[sock[ws].lobby])
    BY <2>1 DEF IInv, SocketsUpToDate, UpToDate
  <2>3. sock[ws].playerId = session.playerId
    BY <2>1, DrainedPageIsCurrent
  <2>4. claim = RoundOf(snapshot) /\ claim.you = sock[ws].playerId
    BY <2>2 DEF IInv, GuessTraced, RoundOf, FrameFor
  <2>5. \/ IsSettled(claim, game[claim.lobby])
        \/ \E s \in Sockets : Carries(sock[s], claim)
    BY <2>3, <2>4 DEF IInv, GuessTraced, IsGone
  <2>6. /\ claim.lobby = sock[ws].lobby /\ claim.round = game[claim.lobby].round
        /\ game[claim.lobby].phase = "GUESS" /\ claim.you \notin game[claim.lobby].guessed
    BY <2>2, <2>4 DEF RoundOf, FrameFor
  <2>7. game[claim.lobby].round \in Nat
    BY <2>1, <2>6 DEF IInv, SocketsSound, SocketSound, ServerTyped, Games
  <2>8. ~ IsSettled(claim, game[claim.lobby])
    BY <2>6, <2>7 DEF IsSettled
  <2>9. PICK s \in Sockets : Carries(sock[s], claim)
    BY <2>5, <2>8
  <2> QED
    BY <2>4, <2>9 DEF Carries, Settled
<1> QED
  BY <1>1, PageAlways, PTL
=============================================================================
