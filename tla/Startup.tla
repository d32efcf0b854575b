------------------------------ MODULE Startup ------------------------------
(***************************************************************************)
(* The life of the server process: run() in cmd/server/main.go with        *)
(* config.Load (internal/config), scales.Load (internal/scales) and        *)
(* ParseScales (internal/game/scales.go).  A launch is what the process    *)
(* finds: the admin flag, the environment variables that are set and not   *)
(* empty, and the scale file SCALES_PATH names, if any.  A word is its     *)
(* text; no word contains the "|" of PairKey, so a key is the set of the   *)
(* two words.  Left out: LOG_LEVEL, which only fails or not like a number; *)
(* STATIC_DIR, ALLOWED_ORIGINS, logging and the other HTTP routes.         *)
(***************************************************************************)
EXTENDS Integers, Sequences, FiniteSets

CONSTANTS
  Launches,       \* [command, env, mounted]
  Unparsable,     \* a value Atoi or ParseDuration does not take
  Unreadable,     \* a file that cannot be read, or is no JSON
  NoPath,         \* SCALES_PATH is not set
  EmbeddedScales, \* scales.json: a sequence of entries, each a sequence of words
  BlankWords,     \* the words that are white space only, the empty one among them
  EmptyWord

Defaults ==
  [port |-> 8080, maxPlayers |-> 12, maxLobbies |-> 500,
   lobbyTTL |-> 1800, shutdownTimeout |-> 10, logFormat |-> "json"]

Durations == {"lobbyTTL", "shutdownTimeout"}
Ports     == 1..65535

\* The variables of config.go and no others, numbers but for the format of the log;
\* a scale file that can be read is a JSON array.
ASSUME StartupAssumption ==
  /\ \A l \in Launches :
       /\ DOMAIN l.env \subseteq DOMAIN Defaults
       /\ \A k \in DOMAIN l.env \ {"logFormat"} : l.env[k] = Unparsable \/ l.env[k] \in Int
  /\ NoPath # Unreadable /\ EmbeddedScales \notin {NoPath, Unreadable}
  /\ \A file \in {EmbeddedScales} \cup {l.mounted : l \in Launches} :
       file \notin {NoPath, Unreadable} => Len(file) \in Nat /\ DOMAIN file = 1..Len(file)

VARIABLES launch, stage, status, settings, deck, ready

processVars == <<launch, stage, status, settings, deck, ready>>

-----------------------------------------------------------------------------
\* Mutant: what does not parse is replaced by the default.
ConfiguredSomehow(env) ==
  [k \in DOMAIN Defaults |->
     IF k \in DOMAIN env /\ env[k] # Unparsable THEN env[k] ELSE Defaults[k]]

\* Load(): a variable that is set counts, the others have their defaults.
Configured(env) == [k \in DOMAIN Defaults |-> IF k \in DOMAIN env THEN env[k] ELSE Defaults[k]]

IsUsable(env) ==
  LET c == Configured(env)
  IN  /\ \A k \in DOMAIN c : c[k] # Unparsable
      /\ \A k \in Durations : c[k] > 0
      /\ c.logFormat \in {"json", "text"}
      /\ c.port \in Ports
      /\ c.maxPlayers >= 2
      /\ c.maxLobbies >= 1

\* encoding/json fills a Pair from an array: missing words are empty, further ones dropped.
AsPair(entry) == [i \in 1..2 |-> IF i <= Len(entry) THEN entry[i] ELSE EmptyWord]

PairKey(pair) == {pair[1], pair[2]}

ScalesOf(file) == [i \in DOMAIN file |-> AsPair(file[i])]

\* Mutant: does not look for duplicates.
AreWordsValid(pairs) ==
  /\ Len(pairs) >= 2
  /\ \A i \in DOMAIN pairs :
       PairKey(pairs[i]) \cap BlankWords = {} /\ pairs[i][1] # pairs[i][2]

\* ValidateScales().
AreValidScales(pairs) ==
  /\ Len(pairs) >= 2
  /\ \A i \in DOMAIN pairs :
       /\ PairKey(pairs[i]) \cap BlankWords = {}
       /\ pairs[i][1] # pairs[i][2]
       /\ \A j \in 1..(i - 1) : PairKey(pairs[i]) # PairKey(pairs[j])

\* A file that was asked for is not replaced by the embedded one.
Source == IF launch.mounted = NoPath THEN EmbeddedScales ELSE launch.mounted

AreScalesUsable == Source # Unreadable /\ AreValidScales(ScalesOf(Source))

-----------------------------------------------------------------------------
ProcessInit ==
  /\ launch \in Launches
  /\ stage = "starting"
  /\ status = "running"
  /\ settings = Defaults
  /\ deck = {}
  /\ ready = FALSE

\* Nobody answers /readyz any more.
Exit(outcome) ==
  /\ stage' = "exited"
  /\ status' = outcome
  /\ ready' = FALSE
  /\ UNCHANGED <<launch, settings, deck>>

\* run() up to the server, step by step: the first that applies decides.
PrintsVersion == launch.command = "version" /\ Exit("ok")
RefusesConfig == launch.command # "version" /\ ~IsUsable(launch.env) /\ Exit("failed")

\* Writing to stdout may fail.
DumpsScales ==
  /\ launch.command = "dump-scales" /\ IsUsable(launch.env)
  /\ \E outcome \in {"ok", "failed"} : Exit(outcome)

RefusesScales ==
  /\ launch.command \in {"validate-scales", "serve"} /\ IsUsable(launch.env)
  /\ ~AreScalesUsable
  /\ Exit("failed")

ApprovesScales ==
  /\ launch.command = "validate-scales" /\ IsUsable(launch.env)
  /\ AreScalesUsable
  /\ Exit("ok")

StartsServing ==
  /\ launch.command = "serve" /\ IsUsable(launch.env)
  /\ AreScalesUsable
  /\ stage' = "serving"
  /\ settings' = Configured(launch.env)
  /\ deck' = {PairKey(ScalesOf(Source)[i]) : i \in DOMAIN Source}
  /\ ready' = TRUE
  /\ UNCHANGED <<launch, status>>

Starting ==
  /\ stage = "starting"
  /\ \/ PrintsVersion \/ RefusesConfig \/ DumpsScales
     \/ RefusesScales \/ ApprovesScales \/ StartsServing

\* The port is taken, or the listener breaks.
ListenFails == stage = "serving" /\ Exit("failed")

\* A signal: /readyz answers 503 from now on, then every connection is cancelled.
Drains ==
  /\ stage = "serving"
  /\ stage' = "draining"
  /\ ready' = FALSE
  /\ UNCHANGED <<launch, status, settings, deck>>

\* Shutdown() is done, or SHUTDOWN_TIMEOUT has passed and Close() ends the rest.
EndsServing == stage = "draining" /\ \E outcome \in {"ok", "failed"} : Exit(outcome)

ProcessNext == Starting \/ ListenFails \/ Drains \/ EndsServing

-----------------------------------------------------------------------------
(***************************************************************************)
(* A server that has started can be played on: its settings and its deck   *)
(* are what the other modules assume of them (LobbyAssumption,             *)
(* ManagerAssumption, DeckAssumption), and every pair is two real words.   *)
(***************************************************************************)
ServesOnlyPlayable ==
  stage \in {"serving", "draining"} =>
    /\ settings.maxPlayers >= 2 /\ settings.maxLobbies \in Nat
    /\ settings.lobbyTTL > 0 /\ settings.shutdownTimeout > 0
    /\ Cardinality(deck) >= 2
    /\ \A pair \in deck : Cardinality(pair) = 2 /\ pair \cap BlankWords = {}

(***************************************************************************)
(* Nothing that was asked for is silently replaced (config.go: "dann       *)
(* startet der Prozess lieber gar nicht, statt still etwas anderes zu      *)
(* tun"): a server that has started uses every value that was set, and has *)
(* one scale for each entry of the file that was mounted.                  *)
(***************************************************************************)
NothingIsReplaced ==
  stage \in {"serving", "draining"} =>
    /\ \A k \in DOMAIN launch.env : settings[k] = launch.env[k]
    /\ launch.mounted # NoPath => Cardinality(deck) = Len(launch.mounted)
=============================================================================
