-------------------------------- MODULE Bots --------------------------------
(***************************************************************************)
(* The load generator, server/cmd/loadgen/main.go, playing a lobby of the  *)
(* real server: runLobby() dials the bots one after the other and plays    *)
(* rounds with them.  It is one sequential program; what makes it hard is  *)
(* that each bot sees the game late, through a connection of its own, on   *)
(* which commands and answers are under way while the server serves the    *)
(* other bots.  A bot is its place in the slice clients.  Left out: the    *)
(* pauses, the words of the hint, output, and a server that needs more     *)
(* than the 20 seconds of waitFor().                                       *)
(***************************************************************************)
EXTENDS Lobby

CONSTANTS
  Rounds,         \* -rounds, not 0, which is without end
  Strays          \* how far from the target a bot may aim, for its place among the guessers

\* The bots clamp what they aim at, so a guess may come from anywhere on the board.
ASSUME BotsAssumption ==
  /\ IsFiniteSet(Clients) /\ Clients = 1..Cardinality(Clients)
  /\ \A a, b \in Clients : PlayerOf[a] = PlayerOf[b] => a = b
  /\ Rounds \in Nat \ {0} /\ Rounds <= MaxRounds
  /\ \A i \in Clients : Strays[i] \subseteq (0 - (9 * i - 5))..(9 * i - 5)
  /\ [x : 0..100, y : 0..100] \subseteq GuessPoints

\* An error reply.
Refused == [type |-> "error"]

VARIABLES
  playerCount,    \* -players
  stage, at,      \* where the program is, and the bot it is busy with
  played,         \* rounds
  state,          \* the last state each bot has read
  clueGiver,      \* the bot that gives the hint
  aimed,          \* guessers that have sent their guess, in order
  leaks,          \* states that showed a bot too much
  commands, inbox \* what is under way on each connection

driverVars == <<playerCount, stage, at, played, state, clueGiver, aimed, leaks>>
botsVars   == <<lobbyVars, driverVars, commands, inbox>>

Bots == 1..playerCount
Open == stage \notin {"ok", "failed"}

BotsInit ==
  /\ LobbyInit
  /\ playerCount \in 2..Cardinality(Clients)
  /\ stage = "dialing" /\ at = 1 /\ played = 0
  /\ state = [c \in Clients |-> NoFrame]
  /\ clueGiver = 0 /\ aimed = <<>> /\ leaks = 0
  /\ commands = [c \in Clients |-> <<>>]
  /\ inbox = [c \in Clients |-> <<>>]

-----------------------------------------------------------------------------
(***************************************************************************)
(* The driver.  Each stage is a loop over some of the bots.                *)
(***************************************************************************)
Goto(s, c) == stage' = s /\ at' = c
Stay == UNCHANGED <<lobbyVars, playerCount>>
Fails == Goto("failed", at)

Sends(c, m) == commands' = [commands EXCEPT ![c] = Append(@, m)]

\* Mutant: the end of the round is not waited for.
IsAwaitedAtMost(s) ==
  CASE stage = "greeting"  -> TRUE
    [] stage = "gathering" -> Cardinality(DOMAIN s.players) >= playerCount
    [] stage = "casting"   -> s.phase = "HINT"
    [] stage = "briefing"  -> at = clueGiver \/ s.phase = "GUESS"
    [] stage = "judging"   -> s.phase \in {"GUESS", "REVEAL"}

\* What the stage waits for the state of its bot to show.
IsAwaited(s) ==
  CASE stage = "greeting"  -> TRUE
    [] stage = "gathering" -> Cardinality(DOMAIN s.players) >= playerCount
    [] stage = "casting"   -> s.phase = "HINT"
    [] stage = "briefing"  -> at = clueGiver \/ s.phase = "GUESS"
    [] stage = "judging"   -> s.phase = "REVEAL"

Watching == stage \in {"greeting", "gathering", "casting", "briefing", "judging"}
IsSatisfied == state[at] # NoFrame /\ IsAwaited(state[at])

\* checkNoLeak().
IsLeak(s) ==
  /\ ~s.youAreClueGiver /\ s.phase # "REVEAL"
  /\ \/ s.target # Absent
     \/ \E i \in DOMAIN s.history : s.history[i].round >= s.round /\ s.round > 0

\* waitFor() reads on; an error reply ends the program.
Reads ==
  /\ Watching /\ ~IsSatisfied
  /\ inbox[at] # <<>>
  /\ inbox' = [inbox EXCEPT ![at] = Tail(@)]
  /\ IF Head(inbox[at]) = Refused
     THEN Fails /\ UNCHANGED <<state, leaks>>
     ELSE /\ state' = [state EXCEPT ![at] = Head(inbox[at])]
          /\ leaks' = IF IsLeak(Head(inbox[at])) THEN leaks + 1 ELSE leaks
          /\ UNCHANGED <<stage, at>>
  /\ UNCHANGED <<played, clueGiver, aimed, commands>> /\ Stay

\* The connection is accepted before the lobby has been joined.
Dials ==
  /\ stage = "dialing"
  /\ Sends(at, [type |-> "join"])
  /\ Goto("greeting", at)
  /\ UNCHANGED <<played, state, clueGiver, aimed, leaks, inbox>> /\ Stay

StartsRound ==
  /\ stage = "starting"
  /\ IF played < Rounds
     THEN Sends(1, [type |-> "start_round"]) /\ Goto("casting", 1)
     ELSE UNCHANGED commands /\ Goto("ok", 1)
  /\ clueGiver' = 0 /\ aimed' = <<>>
  /\ UNCHANGED <<played, state, leaks, inbox>> /\ Stay

\* The bot at hand has seen what it was to see: on to the next one, or the next loop.
MovesOn ==
  /\ Watching /\ IsSatisfied
  /\ LET s    == IF stage = "greeting" THEN "dialing" ELSE stage
         next == CASE stage = "greeting"  -> "gathering"
                   [] stage = "gathering" -> "starting"
                   [] stage = "casting"   -> "hinting"
                   [] stage = "briefing"  -> "guessing"
                   [] stage = "judging"   -> "starting"
     IN  IF at < playerCount THEN Goto(s, at + 1) ELSE Goto(next, 1)
  /\ clueGiver' = IF stage = "casting" /\ state[at].youAreClueGiver THEN at ELSE clueGiver
  /\ played' = IF stage = "judging" /\ at = playerCount THEN played + 1 ELSE played
  /\ UNCHANGED <<state, aimed, leaks, commands, inbox>> /\ Stay

GivesHint ==
  /\ stage = "hinting"
  /\ IF clueGiver = 0 \/ state[clueGiver].target = Absent
     THEN Fails /\ UNCHANGED commands
     ELSE \E h \in Hints : Sends(clueGiver, [type |-> "submit_hint", hint |-> h]) /\ Goto("briefing", 1)
  /\ UNCHANGED <<played, state, clueGiver, aimed, leaks, inbox>> /\ Stay

\* Mutant: as far as the bots stray.
Unclamped(v) == v

Clamp(v) == IF v < 0 THEN 0 ELSE IF v > 100 THEN 100 ELSE v

\* The guessers aim around the target, the later the wider.
Aims ==
  LET left == {c \in Bots : c # clueGiver /\ c \notin {aimed[i] : i \in DOMAIN aimed}}
      next == CHOOSE c \in left : \A d \in left : c <= d
      goal == state[clueGiver].target
  IN  /\ stage = "guessing"
      /\ IF left = {}
         THEN Goto("judging", 1) /\ UNCHANGED <<commands, aimed>>
         ELSE /\ \E dx, dy \in Strays[Len(aimed) + 1] :
                   Sends(next, [type |-> "place_guess",
                                point |-> [x |-> Clamp(goal.x + dx), y |-> Clamp(goal.y + dy)]])
              /\ aimed' = Append(aimed, next)
              /\ UNCHANGED <<stage, at>>
      /\ UNCHANGED <<played, state, clueGiver, leaks, inbox>> /\ Stay

DriverNext == Reads \/ Dials \/ StartsRound \/ MovesOn \/ GivesHint \/ Aims

-----------------------------------------------------------------------------
(***************************************************************************)
(* The server: the handler of each connection, as the lobby has it.        *)
(***************************************************************************)
Obeys(c, m) ==
  \/ m.type = "join" /\ \E n \in Names : Join(c, n)
  \/ /\ m.type # "join" /\ c \in clients
     /\ \/ m.type = "start_round" /\ StartRound /\ UNCHANGED roundsTotal
        \/ m.type = "submit_hint" /\ SubmitHint(PlayerOf[c], m.hint) /\ UNCHANGED roundsTotal
        \/ m.type = "place_guess" /\ PlaceGuess(PlayerOf[c], m.point) /\ RecordRound
     /\ BroadcastTo(clients)
     /\ UNCHANGED clients

\* The conditions of the handler and of the methods it calls.
Accepts(c, m) ==
  CASE m.type = "join"        -> c \notin clients /\ HasRoomFor(PlayerOf[c])
    [] m.type = "start_round" -> c \in clients /\ MayStart
    [] m.type = "submit_hint" -> c \in clients /\ MayHint(PlayerOf[c])
    [] m.type = "place_guess" -> c \in clients /\ MayGuess(PlayerOf[c], m.point)

\* Everybody in the lobby is sent the new state; a refusal goes to the sender alone.
Serves(c) ==
  /\ Open /\ commands[c] # <<>>
  /\ commands' = [commands EXCEPT ![c] = Tail(@)]
  /\ \/ /\ Obeys(c, Head(commands[c]))
        /\ inbox' = [d \in Clients |-> IF d \in clients' THEN Append(inbox[d], frame'[d]) ELSE inbox[d]]
     \/ /\ ~ Accepts(c, Head(commands[c]))
        /\ inbox' = [inbox EXCEPT ![c] = Append(@, Refused)]
        /\ UNCHANGED lobbyVars
  /\ UNCHANGED driverVars

\* The program has closed its connections: nobody reads what is still under way.
Departs(c) ==
  /\ ~Open /\ Leave(c)
  /\ inbox' = [d \in Clients |-> <<>>]
  /\ UNCHANGED <<driverVars, commands>>

BotsNext == DriverNext \/ \E c \in Clients : Serves(c) \/ Departs(c)

BotsSpec ==
  /\ BotsInit /\ [][BotsNext]_botsVars
  /\ WF_botsVars(DriverNext)
  /\ \A c \in Clients : WF_botsVars(Serves(c)) /\ WF_botsVars(Departs(c))

-----------------------------------------------------------------------------
(***************************************************************************)
(* No connection has more than one command under way, and none is left    *)
(* over between two rounds; no bot falls behind by more states than there  *)
(* are players, within the 32 the server queues for each connection.       *)
(***************************************************************************)
BotsTypeOK ==
  /\ at \in Bots /\ played \in 0..Rounds /\ clueGiver \in 0..playerCount
  /\ \A c \in Clients : Len(commands[c]) <= 1
  /\ stage \in {"greeting", "casting", "briefing", "guessing", "judging"}
       \/ \A c \in Clients : commands[c] = <<>>
  /\ Open => \A c \in Clients : Len(inbox[c]) <= playerCount

(***************************************************************************)
(* Whatever is under way to whom: no bot is ever shown the target of a     *)
(* round it guesses in, neither on the board nor in the history            *)
(* (checkNoLeak, the purpose of the program).                              *)
(***************************************************************************)
NothingLeaks == leaks = 0

(***************************************************************************)
(* The bots play all their rounds, no bot waits for a state that has       *)
(* already passed or never comes, and no command is refused; only a lobby  *)
(* that is too small for them makes the program fail.  Either way the      *)
(* lobby is empty in the end.                                              *)
(***************************************************************************)
BotsFinish ==
  <>[](/\ stage = IF playerCount <= MaxPlayers THEN "ok" ELSE "failed"
       /\ clients = {}
       /\ stage = "ok" => roundsTotal = Rounds)
=============================================================================
