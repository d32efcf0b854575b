# Longwave: TLA+ specifications

Longwave is a party game: in every round one player, the clue giver, sees a
target on a two-dimensional scale and gives a hint; the others place a marker
each, and the closer they are the more points everybody gets. A Go server
(`server/`) holds the lobbies in memory and talks to a browser client (`web/`)
over WebSockets. These modules describe the server from its start to its
shutdown, the page that is its client and the program that loads it, and say what
must never go wrong in them. Comments in the modules name the Go
functions they stand for; the source's comments are German and quoted as they are.

## 1. Inventory

| Part | Source | State it keeps | Operations | What makes it correct |
|---|---|---|---|---|
| Game engine | `server/internal/game/engine.go` | phase, round, axes, target, hint, clue giver, players, guesses, history | AddPlayer, Rename, Disconnect, RemovePlayer, StartRound, RedrawScales, SubmitHint, PlaceGuess, Reveal, Reset | roles are kept; a complete round is revealed at once; scores and history are one account; the board is frozen while the others guess |
| Rotation | `rotation.go` | a stream of player IDs and an index | Next, Upcoming, Remove, Reset | once per pass, never twice in a row, nobody is passed over for long, the announced player is the next, the stream stays short |
| Deck | `scales.go` | the keys of the pairs played last | Draw, Remember | no repetition within the memory, unrelated axes, a fallback that always draws |
| Scoring | `score.go` | none | Distance, PointsFor | at most 4 points per guess |
| View | `view.go` | none | SnapshotFor, maySeeTarget | until the reveal, a guesser learns nothing of the target and of the other markers |
| Lobby | `server/internal/lobby/lobby.go` | the game, the set of connections, time of the last activity | Join, Leave, Handle | presence follows the connections; whatever happens is sent to everybody, and nobody waits for it in vain; the limit of players holds; every round is counted |
| Manager | `lobby/manager.go` | the table of lobbies | Create, Get, Reap, RunReaper | no lobby in use is reaped; at most MAX_LOBBIES; a code names one lobby |
| Transport | `server/internal/transport/ws.go` | per connection a queue of 32 messages and a `done` channel | Send, close, writeLoop, readLoop, ServeWS | Send never blocks; the queue is bounded; a dead connection leaves its lobby in the end |
| Configuration and scale file | `server/internal/config`, `server/internal/scales`, `ParseScales` and `ValidateScales` in `scales.go` | none | Load, Parse, Validate | what was set is used or refused, never replaced; the deck can be played on |
| Server process | `server/cmd/server/main.go` | readiness, contexts, the exit code | the admin flags, start, drain, shutdown | only a valid start serves; shutdown ends all connections in time |
| Web client | `web/app.js` | socket, timer, session, last snapshot, optimistic guess | asking for a lobby, entering it, connect, scheduleReconnect, disconnect, onState, clicks, loading an address | it is in one lobby and comes back to it, with one socket; a player who may guess can |
| Load generator | `server/cmd/loadgen/main.go` | per bot the last state it read | dial, waitFor, the rounds, checkNoLeak | it plays to the end against a correct server, and sees leaks |
| Metrics | `server/internal/metrics` | counters and gauges | the record calls | the rounds and the open lobbies are counted right |
| Offline game | `index.html` | the state of one device | buttons | same rules as the server |

How they interact. Each WebSocket connection has two goroutines. The reading one
calls `Lobby.Join`, `Handle` and `Leave`; these take the lobby's mutex, call one
method of the `Game` (which is not safe for concurrent use and needs no lock of
its own), and broadcast a snapshot to every connection through `Send`, which only
puts it into the connection's queue. The writing one empties that queue. The
manager's table has a mutex of its own, which the reaper holds while it asks each
lobby how long it has been idle. The client answers a lost connection with a new
one under the same player ID. The load generator is a client of the same kind, with
all its bots in one sequential program.

What is hard to test here: departures and returns at every moment of a round; a
turn order that is shuffled for one group and used by another; several
connections of one player; limits that cut a history, a stream or a memory right
after it was extended; snapshots that differ per receiver; lookups that are stale
when they are used; queues that are full; answers that arrive when the page is
elsewhere; reconnects, and the sockets they leave behind. `PROJECT.json` lists these
hazards with their lines and the properties that cover them.

## 2. Plan

1. **Game core** (done): `Score`, `Rotation`, `Deck`, `Game`, `GameProperties`,
   their runs, and the first theorems (`GameLemmas`, `GameProofs`).
2. **Parts in use** (done): `TurnOrder` with the abstract `FairTurns`, `DeckInPlay`.
3. **Lobby** (done): `View` and `Lobby`, which composes the game with connections.
4. **Manager** (done): the table of lobbies with lookup and join as two steps and
   the reaper between them; the abstract promise, `Registry`, is a table from which
   a lobby vanishes in one step.
5. **Transport** (done): queue, `done`, read and write loop of a connection around an
   abstract lobby; liveness of the departure under fairness of the server's own
   goroutines only; shutdown.
6. **Server process** (done): `Startup`, from the admin flags and the configuration
   to the exit; `DeckInPlay` plays on the deck it has loaded.
7. **Web client** (done): requests, reconnect, session and marker against a server
   whose games go on.
8. **Load generator** (done): `Bots`, the composition of a client program with
   `Lobby`, with messages under way in both directions.
9. **Proofs** (done): the game with everything it exports and
   its account of points, the turn order of a changing group, the table of lobbies, the
   connection, the lobby with any number of connections and players, the start of the
   process, the deck in play, the page, and the load generator, with what it is shown and
   the protocol it and the server keep to. Every invariant and every action property of
   the runs is proved; what stays with TLC is liveness, see section 5.

## 3. Modules

| Module | Models | Notes |
|---|---|---|
| `Score` | `score.go`, the arithmetic of `reveal` | Distances are compared as squares, so no roots and no reals; the average is rounded with integers. |
| `Rotation` | `rotation.go` | Operators on a record `[order, index]`. A shuffle is the set of its outcomes. The swap at the seam of two passes yields exactly the permutations with another head, which is how `Passes` states it. |
| `Deck` | `scales.go` (`Deck`) | A pair of words is a value; which pairs share a word is the constant `SharedWord`. |
| `Game` | `engine.go` | One variable per field, one action per exported method. A call that returns an error changes nothing, so its conditions are guards. Maps are total functions with a default for absent keys. |
| `GameProperties` | | What the game promises, over `Game`. |
| `TurnOrder`, `FairTurns` | `rotation.go` in use | A group takes turns while members come and go or are taken out of the order (`Expel`); `FairTurns` is the promise to a fixed group, and `ImplementsFairTurns` the refinement: whatever changes the group ends one promise and begins another. |
| `Startup` | `run()` of `cmd/server/main.go`, `config.go`, `internal/scales`, parsing and validation in `scales.go` | `run()` is a chain of checks, so every way out is an action of its own, and so are the start, the drain and the end. A scale file is a sequence of entries, a word its text. |
| `DeckInPlay` | `scales.go` in use | EXTENDS `Deck` and `Startup`: Deal, Redraw and Restart as the game calls the deck, while the process serves. |
| `View` | `view.go` | `SnapshotFor(g, viewer)` is a function of a game state, so that it can be applied to states that differ in what is secret. |
| `Lobby` | `lobby.go` | EXTENDS the game. `clients` is the set of connections, `frame` the state each was sent last, `roundsTotal` the counter of the metrics. |
| `Manager` | `manager.go`, `ServeWS` up to the read loop | One action per call; `Reap` is `BeginSweep`, a `Look` per lobby, `Delete` and `EndSweep`, since it locks each lobby only for the look. `reaper # "sweeping"` is the table's mutex being free. |
| `Registry` | | What the table promises; `ImplementsRegistry` is the refinement. |
| `Connection` | `ws.go` | One connection: its handler goroutine, its writer goroutine, the queue and `done` they share. The rest of the lobby is `OthersAct`, a state that is sent at any time. Messages are reduced to current state, overtaken state and reply. |
| `WebClient` | `app.js` | One player's page. An event handler is an action, because JavaScript runs one at a time; sockets outlive the variable `ws` that points to them, and requests for a lobby (`asked`) whatever the page does until they are answered. The server is what the page can tell of it: a phase and a round per lobby, moved by the others. |
| `Bots` | `loadgen/main.go` | EXTENDS `Lobby`. The driver is one sequential program, each stage a loop over the bots; commands and states are under way on each connection, and the server serves each connection in its own time with the actions of `Lobby`, or with a refusal where their conditions (`Accepts`) do not hold. |
| `MC*` | | Small instances for TLC; `Manager`, `Connection` and `WebClient` need none, their cfgs name them directly. |
| `*Proofs` | | Theorems and their proofs. |

Two specifications exist of the game: `Spec` contains `RemovePlayer`, which is
exported but has no caller in the server, and `ServedSpec` is the game as a lobby
uses it. Theorems about `Spec` hold in both; two properties hold only in a served
game, since taking a player out takes his points along, and may leave nobody or the
clue giver himself to be announced.

Definitions whose comment starts with "Mutant" are no part of the model. Each is
a plausible mistake in the definition that follows it; replacing the definition by
it makes TLC find the property violated that `PROJECT.json` names beside it.

## 4. Runs

| Run | Instance | Shows |
|---|---|---|
| `game` | 3 players, 2 rounds, 2 pairs of words, 3 points (4 points, 3 points, off the board), an empty and a non-empty hint, history of 1, every used turn trimmed at once | `TypeOK`, `RolesKept`, `NoCompleteRoundWaits`, `HistorySealed`, `BonusIsTheAverage`, `ScoresMoveAtReveal`, `BoardFrozenWhileGuessing`, `AnnouncedNextGoesNext` |
| `turn_order` | 4 players, any 2 or more of them present, up to 2 taken out of the order, trim beyond 2 | `TypeOK`, `StreamBounded`, `NobodyStarves`, `NeverTwiceInARow`, `ImplementsFairTurns` |
| `deck` | a file of 8 pairs, 2 of them related, the shortest files that are accepted and near misses, ten odd environments, memory of 3 | `TypeOK`, `FreshWords`, `AxesUnrelated`, `ServesOnlyPlayable`, `NothingIsReplaced` |
| `lobby` | 4 players, 5 connections (2 of one player), 3 places, 2 rounds, history of 2, trim beyond 1 | `LobbyTypeOK`, `ConnectedIffClient`, `NotOverfull`, `GuessersAreBlind`, `ScoresMatchHistory`, `SomeoneElseIsNext` |
| `manager` | 3 codes, 2 of them open at most, 3 lobbies, 2 connections | `ManagerTypeOK`, `GaugeIsExact`, `ImplementsRegistry`, `EmptyLobbiesVanish` |
| `connection` | a queue of 3 | `ConnectionTypeOK`, `CurrentIsOnItsWay`, `DoneEndsWithSuchPeers`, `ShutdownEnds` |
| `bots` | 2 to 4 bots, 3 places, 2 rounds, a target near the rim, history of 1 | `BotsTypeOK`, `NothingLeaks`, `BotsFinish` |
| `web_client` | 2 lobbies, 2 sockets, 2 rounds, 1 state under way before the others wait, 1 request under way at a time, 2 player IDs given out before no more is asked for, 2 failures, loads or departures | `WebClientTypeOK`, `IsInOneLobby`, `OneSocketUnlessHasty`, `LockedOutOnlyByLoss`, `ComesHome` |
| `clue_giver_absent` | 3 players, 3 rounds, served game | finding 1: `ClueGiverIsPresent` is violated |
| `rounds_uncounted` | as `lobby` | finding 2: `EveryRoundIsCounted` is violated |
| `occupied_reaped` | as `manager` | finding 3: `OccupiedLobbiesStay` is violated |
| `silent_peer` | as `connection` | finding 4: `DoneEnds` is violated |

Why the bounds are enough. Three players are the smallest group in which one
gives the hint, one guesses and one leaves in between, so a round can be completed
by a guess, by a departure and by the clue giver. In the lobby a fourth player asks for
the third place, and one player has two tabs. Two markers in different bands
with an odd sum of points make the average round up. Two rounds with a history of one are the smallest instance in which an entry falls
out; the proof of `HistorySealed` is about every limit. Two rounds with a history of
two, in `lobby`, keep the account of scores and history complete, which
`ScoresMatchHistory` needs. `MaxRounds` bounds the rounds between two
resets; resets themselves are not bounded, since everything they leave behind (the
target, the deck's memory) is finite. In the lobby, whose counter a reset does not
touch, `StartRound` is bounded by the counter too. Four players in `TurnOrder` let
the group shrink to two and grow back across the seam of two passes; the bound of
`NobodyStarves`, twice the number of the others, is reached there, so it is tight.
`MaxRemovals` counts the removals whose consequences are still in the stream: taking
a player out can bring two entries of another together, and `NeverTwiceInARow`
allows one repetition for each; two of them let the allowances add up.
`OrderTrimThreshold` is 40 in the code and 0 to 2 here, so that trimming happens at all.
The memory of 3 in `deck` is odd like the code's 5: one round is remembered in
full and half of another; 8 pairs are one more than an ample deck needs. The short
files have 2 and 3 pairs, and each near miss breaks one rule of `ValidateScales`;
each odd environment breaks, or just keeps, one limit of `config.Load`.

Four bots find a server with three places, so the failing run is there as well as
the ones that end well. The target near the rim makes the second guesser's aim cross
both edges, which `clamp` has to catch; the guesses the game takes are there all the
points of the board. The bots' bound on unread states, the number
of players, is reached; it is far below the 32 a connection queues. In `web_client`
two sockets are the fewest with which an abandoned one can still be open while the
next connects; two troubles allow a loss and a return, or a departure and a reload;
two rounds let a flag outlive the round it was set in. One request at a time
(`MaxRequests`) is enough for the answer that comes too late, since a lobby can be asked
for again while the first one connects; with two at a time the run passes as well, in
4.2 million states instead of 1.7. Player IDs never run out, so `MaxIDs` ends the asking
when two have been given out, which is what it takes to have been somebody else before.
The run reaches the page at rest in its lobby with an address bar that names none, at rest
with an idle second connection to another, and with the old lobby on the screen while
the new one connects. `Followed` is a bound as well:
the page is not followed beyond the step in which a stray socket has acted, since from
there on nothing is promised (see below).

Symmetry is used for players (and, in the lobby, for the players with one
connection together with their connections) in runs that check invariants and
action properties. `FairTurns`, to which `turn_order` refines, is of this kind: it has no
fairness and treats all players alike. The run of `manager`, whose properties include
liveness, uses none.

In `manager`, three lobbies let one that was deleted while a connection still
held it be around while two others are open; three codes let the limit of two
bind before the codes run out. A lobby that nothing refers to is used again, as
the garbage collector would, so lobbies come and go without end.

A queue of 3 instead of 32 can hold an overtaken state, the current one and a reply
in every order, and overflow; the proofs are about every length. After a shutdown
the process is over, so `connection`, `silent_peer` and `deck` do not check for
deadlock; nor do `bots`, because the program ends, and `web_client`, because its
bounds and its users may bring it to a stop.

Fairness is assumed in four models. In `Manager` (`ManagerFairness`) time passes in
every lobby, and the reaper goes on. The first is weak because any use of a lobby
starts its time anew, the second is what `RunReaper`'s ticker and Go's scheduler
give, and nobody holds the mutex a sweep needs for longer than one step. In
`Connection` the handler and the writer of the server are fair: they run when they
can, writes and pings end at the latest by `writeTimeout`, and a `Read` whose
context is cancelled fails sooner or later (strong fairness, because messages that
are still buffered may be read before). No peer is assumed to do anything, except
in `DoneEndsWithSuchPeers`, which says so in its premise: the page sends a ping
every 20 seconds while it is alive (`app.js`, `PING_INTERVAL`), and the connection of
a page that is not breaks some day. In `Bots` the driver, the handler of each
connection and each departure are weakly fair: they are goroutines and one program
loop, no user takes part, and nothing in them can be disabled by the others. In
`WebClient` the timer, and the opening, closing, receiving and serving of each
socket are weakly fair; what users, other players and failures do is not, nor is the
answer to a request, so `ComesHome` holds whether or not anybody clicks or plays on. Connections fail
finitely often (`MaxTrouble`), which is the premise of coming home at all. What happens
in a game is up to its players: whatever the server owes them there it does in the
same locked step, so the other runs have no liveness to check.

The behaviour of the WebSocket library in `Connection` is external: `Read` fails when
the peer closes, the socket is closed or the context is cancelled; a `Write` that
times out closes the socket; a `Ping` that gets no answer returns an error and
leaves the socket open; pongs are taken in by the goroutine that reads.

### Findings

1. *The clue giver may be gone* (`clue_giver_absent`). `Rotation.Next` takes the
   next entry of a stream that was shuffled earlier and looks at the players it is
   given only when it refills. `StartRound` counts two connected players and then
   hands the round to a third who left; the two wait in the hint phase. The
   comment at `engine.go:27` speaks of "ein Hinweisgeber und ein Ratender".
2. *A round ended by a departure is not counted* (`rounds_uncounted`).
   `maybeAutoReveal` (`engine.go:327`) drops the result, so `Lobby.Leave` records
   nothing, and `longwave_rounds_total` is not the number of "vollstaendig gespielte
   und ausgewertete Runden" (`metrics.go:42`).

3. *An occupied lobby is reaped* (`occupied_reaped`). `Reap` (`manager.go:138`) gives
   the lobby's mutex back between asking how long it has been idle and deleting it,
   and `ServeWS` joins (`ws.go:212`) a lobby it looked up earlier (`ws.go:173`)
   without asking whether it is still in the table. Whoever comes back just when
   the time to live runs out can end up alone in a lobby whose code is gone.
   `lobby_test.go:353` asks for the opposite: "die besetzte lobby wurde
   abgeraeumt, obwohl clients verbunden sind". The refinement of `Registry` holds
   all the same, because the lobby was idle when it was judged.

4. *A connection that is done stays in its lobby* (`silent_peer`). `close()` only
   closes a channel that `readLoop` looks at between two messages (`ws.go:228`); it
   cancels no context and closes no socket. When the peer has stalled, the handler
   waits in `Read` although the queue overflowed or a ping was not answered
   (`ws.go:28`: "wird getrennt", `ws.go:30`: "erkennt tote Peers"). The player stays
   connected, an open round waits for him, and the lobby is never idle. With peers
   that speak up or break (`DoneEndsWithSuchPeers`) the connection does end.

Other behaviour the models show, which no line of the repository contradicts:

- *A round nobody can end.* If all guessers disconnect before the first guess, neither
  a departure nor the clue giver can end the round (`engine.go:320`,
  `engine.go:340`). It takes a reset or a return. `NoCompleteRoundWaits` says the exact
  converse: the only round that can wait for nobody is one without a guess.
- *Locked out.* The page marks a guess as sent although `send()` drops it while the
  socket is not open (`app.js:605`), or it gets lost on a connection that breaks; and
  after a reconnect into the guessing phase of a later round, or of another lobby, the
  lock of the earlier one is still set (`app.js:235`). The player cannot guess in that
  round. `LockedOutOnlyByLoss` shows that these are all the cases: without the excuse
  `lost`, or without the excuse `claim`, TLC finds the run.
- *Stray sockets.* The handlers of a socket do not ask whether it is still the page's.
  An abandoned one whose `close` arrives after the next `connect()` has reset
  `leaving` schedules a reconnect to its own lobby (`app.js:194`), and one that
  still receives draws its state. `IsInOneLobby` and `ComesHome` hold up to that
  moment, for which their excuse `stray` stands.
- *Hasty entries.* `enterLobby()` runs when a request is answered (`app.js:652`,
  `app.js:678`), and nothing asks where the page is by then. If a socket is still there,
  it stays open beside the new one, in the old lobby or in the same, with its player
  counted as connected, and becomes a stray one with the first thing that happens on it.
  `OneSocketUnlessHasty` shows that this is the only way to a second socket and to a stray
  handler: from any load of the page on, as long as no lobby is entered while a socket is
  still there (`hasty`), there is neither. An entry right after "leave", while the socket
  is still closing, counts as one.
- *An address bar without a lobby.* With a lobby in its session, the bare address takes
  the page back to it and stays in the address bar (`app.js:710`). Therefore
  `IsInOneLobby` and `ComesHome` speak of the lobby in the session.
- *Endless reconnects.* A lobby that vanished answers with 404, which the page cannot
  tell from a break; it goes on trying (`app.js:196`).
- *Guesses without a round.* A guess that arrives in the guessing phase of a later
  round counts there (`engine.go:283`); `WebClient` has the case.

## 5. Proofs

The lemmas about the operators of `Score`, `Rotation` and `Deck`, and about sums, are
in `GameLemmas`. `GameProofs` proves, for every finite set of players, every deck with
two pairs or more, every set of targets and of submitted points, and every
`HistoryLimit`, `RecentMemory`, `OrderTrimThreshold` and `MaxRounds`:

| Theorem | Statement |
|---|---|
| `GameTyped` | `Spec => []TypeOK` |
| `GameRoles` | `Spec => []RolesKept` |
| `GameNeverWaits` | `Spec => []NoCompleteRoundWaits` |
| `GameHistorySealed` | `Spec => []HistorySealed` |
| `GameBonus` | `Spec => []BonusIsTheAverage` |
| `GameScores` | `Spec => ScoresMoveAtReveal` |
| `GameAnnouncement` | `Spec => AnnouncedNextGoesNext` |
| `GameBoardFrozen` | `Spec => BoardFrozenWhileGuessing` |
| `ServedSomeoneElse` | `ServedSpec => []SomeoneElseIsNext` |
| `ServedAccount` | `ServedSpec => []ScoresMatchHistory` |

The assumptions are those of the modules: `GameAssumption`, `DeckAssumption`,
`TrimAssumption`. `GameConstants` unfolds what the proofs use of them.

The argument. Each step lemma goes through the nine operations a lobby calls, and a
lemma of its own adds `RemovePlayer` (`RemovePlayerType`, `RemovePlayerRoles`, and so
on), which may end a round in three ways: by the departure of the last guesser awaited,
of the clue giver, or not at all. `TypeOK` alone is not inductive: the entry a reveal
appends is well-typed only if its axes are words, which they are once the round has a
number, and the clue giver is a player only if the stream of turns holds no one else.
`TypeInv` adds both: `RoundIsOpen` and `IsRotation(rotation, players)`. `TurnType`
carries the turn, `WithoutProperties` what is left of the stream without a player,
`LastNProperties` the cut of a sequence, and `ScoringIsDisjoint` the points: the four
classes of guesses are disjoint, so the total is at most four times their number, and
the rounded average at most four. `RolesKept` is inductive beside `TypeInv`;
`NoCompleteRoundWaits` needs `RolesKept` (a hint opens the guessing phase on an
empty board) and the fact that another connected player is only another one to
wait for. `HistorySealed` needs `TypeInv` (entries have rounds that can be
compared); `RevealAppends` says what a reveal does to the history, and `RevealSeals`
shifts indices through the cut. A score gains at most four points because the clue
giver, who alone gets the bonus, has no guess.

*Turns.* `TurnInv` says that nobody waits twice in the stream (`NobodyWaitsTwice`) and
that during a round somebody else than its clue giver waits first. It survives
`StartRound` by `TurnIsNotRepeated`: a refill, which puts a whole pass behind at most
one entry that waits, never begins with the entry the stream ends with, and a trim only
cuts what has been consumed (`TurnToCome` lists the ways a turn can go). With somebody
in waiting no refill comes before the announced turn, so it is taken from where it was
announced.

*Points.* The sums of the model are folds, over a set in an order that is chosen. An
induction whose hypothesis is an operator cannot be used here, so `SetInduction` states
it of a family of sets: a family that holds the empty set, and every part of a finite
set all of whose parts with one element less it holds, holds the whole. It follows from
the least number of a set of numbers. With it, `SumStepsDown` unfolds the fold once and
`SumWithout` shows that any element may be the one that is taken out, so that the order
does not matter; sums of sums, of a part and under another name of the elements follow.
`PointsAreCounted` then equates the sum over the guesses with the four counts the code
adds up, and `AverageIsNearest` says what its rounding yields. `HistoryBooked` records of
each entry what it was made from: its results are of a finite, non-empty set of players,
each with the points of a band, and its bonus is computed from them. `GameBonus` is a
fact about such entries. For `ServedAccount`, `RevealPays` finds the same points in the
scores (`RevealScores`) and in the entry (`GuessesPay`), and `RevealAddsUp` carries the
account over a reveal. It needs the sealed history: that an old entry fell out shows in
the number of the first one, because rounds are in order, and from then on nothing is
claimed until a reset.

`TurnOrderProofs` proves, for every finite set of players, threshold and `MaxRemovals`:

| Theorem | Statement |
|---|---|
| `TurnOrderType` | `Spec => []TypeOK` |
| `StreamStaysShort` | `Spec => []StreamBounded` |
| `EverybodyIsOn` | `Spec => []NobodyStarves` |
| `NobodyIsOnTwiceInARow` | `Spec => NeverTwiceInARow` |
| `TurnsAreFair` | `Spec => ImplementsFairTurns` |

Its inductive invariant is about who waits in the stream. Nobody waits twice
(`NobodyTwice`), which bounds the stream; without a removal the first to come is not
the one who was on last (`SomebodyElse`). `NobodyStarves` is not inductive: how long a
member may have waited depends on where it stands. `WaitIsBounded` adds that: whoever
waits at place `d` has waited for at most two turns of each of the others less `d - 1`,
and whoever is not in the stream, as after joining or while the stream is consumed, for at
most one of each less what the stream still holds. A turn takes one from the place and
adds one to the wait. `SettledOrder` says that only members wait for a settled group,
which makes the entries to come the rest of the pass; a turn is then a turn of
`FairTurns` in each of the three cases of `TurnToCome` (from a longer stream, the last of
a pass with the next one behind it, the first of a new pass). `GameLemmas`, which this
module EXTENDS, brings the constants of `Deck` along; nothing is said of them.

`LobbyProofs` proves, under `LobbyAssumption`, for any finite set of connections and
any assignment of them to players:

| Theorem | Statement |
|---|---|
| `LobbyPlaysTheGame` | `LobbySpec => ServedSpec` |
| `LobbyKeepsTheGame` | `LobbySpec => [](RolesKept /\ NoCompleteRoundWaits /\ HistorySealed)` |
| `LobbyTyped` | `LobbySpec => []LobbyTypeOK` |
| `LobbyPresence` | `LobbySpec => []ConnectedIffClient` |
| `LobbyHasSeats` | `LobbySpec => []NotOverfull` |
| `LobbyHidesTheTarget` | `LobbySpec => []GuessersAreBlind` |
| `LobbyAnnouncesAnother` | `LobbySpec => []SomeoneElseIsNext` |
| `LobbyAccount` | `LobbySpec => []ScoresMatchHistory` |

The first is a refinement without a mapping: every step of a lobby is a step of the
served game or leaves the game alone, so all that is proved of the game holds in every
lobby; the last two, which run `lobby` checks, are taken over this way. Presence is
inductive: `PresenceStep` follows joins, departures with and without
another tab of the same player, and commands. `SnapshotIsBlind` compares the snapshots
of two game states that differ only in what their viewer may not see, and finds them
equal; since each frame is the snapshot of the present state, which is how `BroadcastTo`
defines it (the lemma `LobbyKeepsUpToDate`), so are the frames. That no state is left out
where one is waited for is a matter of `Bots`, where states are under way
(`NobodyWaitsInVain`, `BotsFinish`).

The second half of `LobbyProofs` is about the load generator, for any number of bots,
rounds and strays, under `BotsAssumption` as well, which nothing else uses, and
`ViewAssumption`, by which a target that is not shown can be told from a point:

| Theorem | Statement |
|---|---|
| `BotsPlayTheGame` | `BotsSpec => ServedSpec` |
| `BotsSeeNoTarget` | `BotsSpec => []NothingLeaks` |
| `BotsTypes` | `BotsSpec => []BotsTypeOK` |
| `BotsUseTheLobby` | `BotsSpec => LobbySpec` |
| `BotsPlayToTheEnd` | `BotsSpec => []PlayedToTheEnd` |
| `BotsNeverWaitInVain` | `BotsSpec => []NobodyWaitsInVain` |

`PlayedToTheEnd` says that a program that ends well has played and the server has counted
all its rounds, with no more bots than `MaxPlayers`, and that one that fails has more.
`NobodyWaitsInVain` says that while the program waits for a state, there is one for its
bot to read or a command for the server to serve.

`NothingLeaks` speaks of a counter, so `BotsInv` has to say what is under way: each
state on its way to a bot is `Harmless`, since it was harmless when it was sent and
nothing changes it afterwards (`Shipping`), commands have the points and hints the game
accepts, and the driver has only read harmless states (`DriverSound`). That a bot's
guess is a point of the game rests on the state in which the clue giver read the target,
which stays the one he has until the guesses are out. A snapshot is harmless because the
history of a running game holds earlier rounds only (`HistorySealed`) and a lobby phase
has no round (`LobbyIsFresh`). Whether a command is obeyed or refused makes no difference
to that argument.

It makes all the difference to the others. `BotsTypeOK` is far from inductive: that
there is one command at most rests on the program waiting, after each, for what it brings
about; that it waits long enough on what each bot has read; and that nothing is refused on
the program and the game being in the same round, with the same clue giver. `Protocol`
says all of this, stage by stage:

- *In every stage* (`Ground`) the bots that have been dialled are the lobby, in that order
  (`Population`), the counter has the rounds that are over (`Counted`), and of each bot
  the last state it has read or will read shows the game as it is, with no refusal on the
  way (`Informed`, over the sequence `Seen` of what a bot has read last and has yet to read).
- *While the lobby fills* (`Filling`) each state under way has one player more than the
  one before, so a bot that counts fewer than all has something to read.
- *When a round starts* nothing is under way in either direction, and the game has as many
  rounds as the program (`Starting`).
- *Then* there is either one command under way and nobody has seen what it brings about, or
  it has been served, and none but the newest state of a bot shows the phase that is
  waited for (`OnlyNewest`). A bot that has seen that phase has therefore read everything,
  which is how `Casting` leads to `Hinting` with empty queues and the right clue giver:
  the bots passed so far have seen the present game, and one of all bots is its clue giver.
- *While guesses are out* (`Guesses`) a guesser that has been sent for is either on its way
  or on the board, never both and never twice; the game is revealed exactly when all are on
  the board, so no guess finds another phase; and a bot has at most one state to read for
  each guess, one more for the clue giver, who did not read the hint.

`PlayingStep` goes through the six actions of the driver (`MovesOn` by stage), a command
that is served by its type, and a connection that closes. `SnapshotShows` says what of the
game a state shows, `ReadShifts` and `ServedFrames` what a read takes from the sequence of
a bot and a served command adds to it. `LobbyMoves` finds each step in `LobbyNext`: the
counter of rounds has room for one more whenever the game has, which is `Counted`. With
that refinement `NotOverfull` is at hand, so all the bots of a run that ends well have had
a place (`AllSeated`). `BotsPlayToTheEnd` and `BotsNeverWaitInVain` are then facts about
states with `Playing`, which is `BotsInv`, `RolesKept` and `Protocol`; together they are
what `BotsFinish` needs of safety, and what is left of it to TLC is that whatever is under
way arrives. So that the proofs need no `ENABLED`, `Serves` names the conditions on which
a command is accepted.

`DeckInPlayProofs` proves, under `StartupAssumption`, `DeckAssumption` and
`PlayAssumption`, for all launches, scale files, decks and memories:

| Theorem | Statement |
|---|---|
| `StartReplacesNothing` | `Spec => []NothingIsReplaced` |
| `StartIsPlayable` | `Spec => []ServesOnlyPlayable` |
| `PlayTyped` | `Spec => []TypeOK` |
| `PlayUnrelated` | `Spec => []AxesUnrelated` |
| `PlayFresh` | `Spec => []FreshWords` |

`ProcessInv` carries the first two: a process that serves has found its environment
usable and its scales valid, and its deck is the set of keys of the file, of which
there are as many as entries because no two are alike. `PlayTyped` needs that the deck
is fixed while rounds are played. For freshness, `Aligned` relates the two
memories: read from their ends, the pairs remembered are those of the rounds played
last. Both are cut at the front and at different moments, so they have to be compared
from the end. That a draw then avoids all of them is counting: the memory and the
pairs in hand are fewer than an ample deck (`MemoryIsSmall`, `FreeIsLarge`), so no
fallback is taken. The same argument with the related pairs added proves
`AxesUnrelated`.

`ManagerProofs` proves, for all sets of codes (finite), lobbies and connections:

| Theorem | Statement |
|---|---|
| `ManagerTyped` | `ManagerSpec => []ManagerTypeOK` |
| `ManagerGauge` | `ManagerSpec => []GaugeIsExact` |
| `ManagerKeepsPromise` | `ManagerSpec => ImplementsRegistry` |

`ManagerTypeOK` is inductive, because it says that a sweep only has open lobbies
before it and that there is nothing before it while the table is free.
`GaugeIsExact` is not: it needs `GaugeInv`, which says of a sweep that the gauge is
exact until something has been removed. The refinement maps the table to `Visible`,
the table without the code that is about to be deleted; `Look` at an idle lobby is
then the step in which it vanishes, `Delete` a stutter, and for `Create` and `Get`
the free table makes `Visible` the table itself.

`ConnectionProofs` proves, for every `SendBuffer`:

| Theorem | Statement |
|---|---|
| `ConnectionTyped` | `ConnectionSpec => []ConnectionTypeOK` |
| `NoStateIsSkipped` | `ConnectionSpec => []CurrentIsOnItsWay` |

Both are inductive, the second beside the first. `SendStateType` is the step that
matters: unless `Send` marks the connection as done, the new state is the last in
the queue and all before it are old; `ReplyKeepsCurrent` and `TakingKeepsCurrent`
follow it through the queue to the writer.

`WebClientProofs` proves, under `WebClientAssumption`, for all sets of lobbies and
sockets, with the bounds of the run left open:

| Theorem | Statement |
|---|---|
| `PageTypes` | `Spec => []WebClientTypeOK` |
| `PageIsInOneLobby` | `Spec => []IsInOneLobby` |
| `PageKeepsOneSocket` | `Spec => []OneSocketUnlessHasty` |
| `SettledPageIsCurrent` | `Spec => [](~stray /\ Settled => snapshot = FrameFor(session.lobby, session.playerId, game[session.lobby]))` |
| `PageLocksOutOnlyByLoss` | `Spec => []LockedOutOnlyByLoss` |

Its inductive invariant has five parts. A socket belongs to one lobby and, once open, to
one of its players (`SocketSound`), whose states it carries in order, the last of them
the present one (`UpToDate`), none of them ahead of the game (`IsBehind`). What the page
holds belongs to the lobby in its session (`PageSound`); what it shows does too, or is
left from a player it will never be again (`IsGone`), which is how a page can still show
the lobby it has just gone from. Without haste there is one socket, in `ws` or closing
while the page leaves (`OneAtMost`); a reconnect is then only due when its socket has
closed. And the lock can be traced (`GuessTraced`): the guess it was set for is on the
board, too late, lost, still on its way, or was that of a player who is gone. `PageSound`
and `GuessTraced` hold until a stray handler has run. All that the server does is one
lemma, `BroadcastStep`: a connection that opens, a guess that arrives and a game that
moves on each change some sockets in a way that keeps the invariant, and then send a
state to everybody in the lobby. `SettledPageIsCurrent` is what `ComesHome` needs of
safety: once nothing is under way, the page shows the game as it is.

Only model-checked is liveness (`EmptyLobbiesVanish`, `DoneEndsWithSuchPeers`,
`ShutdownEnds`, `BotsFinish`, `ComesHome`), which is out of the prover's reach, and with
it that the actions these properties wait for are enabled. In particular, that a command
of the bots that `Accepts` lets through is one that `Obeys` can carry out is a matter of
`ENABLED`: a state without such a step would end run `bots` before its last stage, and
`BotsFinish` with it.

## 6. Not modelled

- *The offline games* (`index.html` and the classic page): they run on one device, one
  click after the other, share no code with the server, and have nothing under way
  that could come in another order. The rotation and the deck of the
  two-dimensional page were ported to the server, where they are modelled.
- *Deployment files, the list of scales as data, the text dump of sources.*
- *Configuration*: `LOG_LEVEL` (it parses or it does not, like a number), `STATIC_DIR`
  and `ALLOWED_ORIGINS`, which no modelled part reads.
- *Server process*: the HTTP routes besides the game's, the request log and the static
  files only answer and keep nothing. `http.Server.Shutdown` does not wait for hijacked
  connections; that they end is `ShutdownEnds` in `Connection`.
- *Metrics* besides the counter of rounds and the gauge of open lobbies. The gauge of
  connected players counts connections, so a player with two tabs counts twice.
- *Load generator*: the REST call that opens the lobby, several lobbies at a time (they
  share only the count of leaks), endless rounds, and the deadline of 20 seconds, which
  would need a server that is slow and not wrong.
- *Web client*: drawing, buttons that only send a command, lobbies that vanish, the
  reset of a game, who else is in a lobby, and addresses that name no existing lobby,
  for which the answer is that there is none (`Declines`).
- *Within the modelled parts*: wall clock times and durations, logging, the order of
  lists for display, the text of names and hints (a set of names with an empty one
  stands for what `sanitizeName` leaves), the orientation of a pair of words, and the
  fields of a snapshot that are the same for everybody.
