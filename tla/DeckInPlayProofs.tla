-------------------------- MODULE DeckInPlayProofs --------------------------
(***************************************************************************)
(* Theorems about the server process and the deck it loads, for every      *)
(* launch, every scale file and every memory of the deck.                  *)
(***************************************************************************)
EXTENDS DeckInPlay, GameLemmas

LEMMA FilesAreSequences ==
  ASSUME launch \in Launches, AreScalesUsable
  PROVE  /\ Source \in {EmbeddedScales} \cup {l.mounted : l \in Launches}
         /\ Source \notin {NoPath, Unreadable}
         /\ Len(Source) \in Nat /\ DOMAIN Source = 1..Len(Source)
<1>1. Source \in {EmbeddedScales} \cup {l.mounted : l \in Launches}
  BY DEF Source
<1>2. Source # NoPath /\ Source # Unreadable
  BY StartupAssumption DEF Source, AreScalesUsable
<1> QED
  BY <1>1, <1>2, StartupAssumption

(***************************************************************************)
(* Before it serves, a process holds nothing; a process that serves or     *)
(* drains has accepted its environment and its scales, and uses them.      *)
(***************************************************************************)
Holds == stage \in {"serving", "draining"}

LoadedKeys == {PairKey(ScalesOf(Source)[i]) : i \in DOMAIN Source}

ProcessInv ==
  /\ launch \in Launches
  /\ stage \in {"starting", "serving", "draining", "exited"}
  /\ status \in {"running", "ok", "failed"}
  /\ ready <=> stage = "serving"
  /\ stage = "starting" => deck = {}
  /\ Holds =>
       /\ IsUsable(launch.env) /\ AreScalesUsable
       /\ settings = Configured(launch.env)
       /\ deck = LoadedKeys
  /\ deck \subseteq Pairs

LEMMA LoadedKeysType ==
  ASSUME launch \in Launches, AreScalesUsable
  PROVE  LoadedKeys \subseteq Pairs
<1>1. /\ Source \in {EmbeddedScales} \cup {l.mounted : l \in Launches}
      /\ Source \notin {NoPath, Unreadable}
  BY FilesAreSequences
<1>2. AreValidScales(ScalesOf(Source))
  BY DEF AreScalesUsable
<1>3. \A i \in DOMAIN Source : PairKey(AsPair(Source[i])) \in Pairs
  BY <1>1, <1>2, PlayAssumption
<1> QED
  BY <1>3 DEF LoadedKeys, ScalesOf

LEMMA ProcessInvInit == Init => ProcessInv
BY DEF Init, ProcessInit, ProcessInv, Holds

LEMMA ExitKeeps ==
  ASSUME ProcessInv, NEW outcome \in {"ok", "failed"}, Exit(outcome)
  PROVE  ProcessInv'
BY DEF Exit, ProcessInv, Holds

LEMMA ProcessInvStep ==
  ASSUME ProcessInv, [Next]_vars
  PROVE  ProcessInv'
<1>1. CASE UNCHANGED processVars
  BY <1>1 DEF processVars, ProcessInv, Holds, LoadedKeys, Source, AreScalesUsable
<1>2. CASE StartsServing
  <2>1. /\ stage' = "serving" /\ ready' = TRUE
        /\ IsUsable(launch.env) /\ AreScalesUsable
        /\ settings' = Configured(launch.env)
        /\ deck' = LoadedKeys
        /\ UNCHANGED <<launch, status>>
    BY <1>2 DEF StartsServing, LoadedKeys
  <2>2. deck' \subseteq Pairs
    BY <2>1, LoadedKeysType DEF ProcessInv
  <2> QED
    BY <2>1, <2>2 DEF ProcessInv, Holds, LoadedKeys, Source, AreScalesUsable
<1>3. CASE Drains
  BY <1>3 DEF Drains, ProcessInv, Holds, LoadedKeys, Source, AreScalesUsable
<1>4. ASSUME ProcessNext, ~ StartsServing, ~ Drains
      PROVE  \E outcome \in {"ok", "failed"} : Exit(outcome)
  BY <1>4 DEF ProcessNext, Starting, PrintsVersion, RefusesConfig, DumpsScales,
              RefusesScales, ApprovesScales, ListenFails, EndsServing
<1>5. CASE Process
  BY <1>2, <1>3, <1>4, <1>5, ExitKeeps DEF Process
<1>6. CASE Deal \/ Redraw \/ Restart
  BY <1>1, <1>6 DEF Deal, Redraw, Restart
<1>7. CASE UNCHANGED vars
  BY <1>1, <1>7 DEF vars
<1> QED
  BY <1>5, <1>6, <1>7 DEF Next

\* An accepted file becomes a deck with one pair per entry.
LEMMA DeckIsTheFile ==
  ASSUME launch \in Launches, AreScalesUsable
  PROVE  /\ IsFiniteSet(LoadedKeys)
         /\ Cardinality(LoadedKeys) = Len(Source)
         /\ Len(Source) \in Nat
<1> DEFINE n == Len(Source)
           keyOf == [i \in 1..n |-> PairKey(ScalesOf(Source)[i])]
<1>1. n \in Nat /\ DOMAIN Source = 1..n
  BY FilesAreSequences
<1>2. DOMAIN ScalesOf(Source) = 1..n
  BY <1>1 DEF ScalesOf
<1>3. \A i \in 1..n : \A j \in 1..(i - 1) :
        PairKey(ScalesOf(Source)[i]) # PairKey(ScalesOf(Source)[j])
  BY <1>2 DEF AreScalesUsable, AreValidScales
<1>4. LoadedKeys = {PairKey(ScalesOf(Source)[i]) : i \in 1..n}
  BY <1>1 DEF LoadedKeys
<1>5. keyOf \in Surjection(1..n, LoadedKeys)
  BY <1>4 DEF Surjection
<1>6. keyOf \in Injection(1..n, LoadedKeys)
  <2>1. ASSUME NEW i \in 1..n, NEW j \in 1..n, keyOf[i] = keyOf[j]
        PROVE  i = j
    <3>1. ~ (j \in 1..(i - 1)) /\ ~ (i \in 1..(j - 1))
      BY <1>3, <2>1
    <3>2. i \in Int /\ j \in Int /\ i >= 1 /\ j >= 1
      BY <1>1
    <3> QED
      BY <3>1, <3>2
  <2> HIDE DEF keyOf
  <2> QED
    BY <1>5, <2>1 DEF Injection, IsInjective, Surjection
<1>7. IsFiniteSet(1..n) /\ Cardinality(1..n) = n
  <2>1. IsFiniteSet(1..n) /\ Cardinality(1..n) = IF 1 > n THEN 0 ELSE n - 1 + 1
    BY <1>1, FS_Interval
  <2> QED
    BY <1>1, <2>1
<1> HIDE DEF keyOf
<1>8. IsFiniteSet(LoadedKeys) /\ Cardinality(LoadedKeys) = n
  BY <1>5, <1>6, <1>7, FS_Surjection
<1> QED
  BY <1>1, <1>8

\* What a usable environment configures.
LEMMA UsableSettings ==
  ASSUME NEW env, IsUsable(env)
  PROVE  /\ Configured(env).maxPlayers >= 2 /\ Configured(env).maxLobbies >= 1
         /\ Configured(env).lobbyTTL > 0 /\ Configured(env).shutdownTimeout > 0
         /\ Configured(env).maxLobbies # Unparsable
<1> DEFINE cfg == Configured(env)
<1>1. \A k \in DOMAIN cfg : cfg[k] # Unparsable
  BY DEF IsUsable
<1>2. \A k \in Durations : cfg[k] > 0
  BY DEF IsUsable
<1>3. cfg.maxPlayers >= 2 /\ cfg.maxLobbies >= 1
  BY DEF IsUsable
<1>4. "maxLobbies" \in DOMAIN cfg
  BY DEF Configured, Defaults
<1>5. "lobbyTTL" \in Durations /\ "shutdownTimeout" \in Durations
  BY DEF Durations
<1> HIDE DEF cfg
<1>6. cfg["maxLobbies"] # Unparsable /\ cfg["lobbyTTL"] > 0 /\ cfg["shutdownTimeout"] > 0
  BY <1>1, <1>2, <1>4, <1>5
<1> QED
  BY <1>3, <1>6 DEF cfg

(***************************************************************************)
(* A server never runs on a value nobody asked for, whatever is set and    *)
(* whatever file is mounted (config.Load, scales.Load, ParseScales).       *)
(***************************************************************************)
THEOREM StartReplacesNothing == Spec => []NothingIsReplaced
<1>1. ProcessInv => NothingIsReplaced
  <2> SUFFICES ASSUME ProcessInv, Holds
               PROVE  /\ \A k \in DOMAIN launch.env : settings[k] = launch.env[k]
                      /\ launch.mounted # NoPath => Cardinality(deck) = Len(launch.mounted)
    BY DEF NothingIsReplaced, Holds
  <2>1. \A k \in DOMAIN launch.env : settings[k] = launch.env[k]
    <3>1. DOMAIN launch.env \subseteq DOMAIN Defaults
      BY StartupAssumption DEF ProcessInv
    <3>2. settings = Configured(launch.env)
      BY DEF ProcessInv
    <3> QED
      BY <3>1, <3>2 DEF Configured
  <2>2. launch.mounted # NoPath => Source = launch.mounted
    BY DEF Source
  <2>3. Cardinality(deck) = Len(Source)
    BY DeckIsTheFile DEF ProcessInv
  <2> QED
    BY <2>1, <2>2, <2>3
<1>2. ProcessInv /\ [Next]_vars => ProcessInv'
  BY ProcessInvStep
<1> QED
  BY <1>1, <1>2, ProcessInvInit, PTL DEF Spec

(***************************************************************************)
(* Every server that has started has the settings and the deck the other   *)
(* modules assume: two players and one lobby at least, positive durations, *)
(* two scales at least, each of two different words (Load, ParseScales,    *)
(* ValidateScales).                                                        *)
(***************************************************************************)
THEOREM StartIsPlayable == Spec => []ServesOnlyPlayable
<1>1. ProcessInv => ServesOnlyPlayable
  <2> SUFFICES ASSUME ProcessInv, Holds
               PROVE  /\ settings.maxPlayers >= 2 /\ settings.maxLobbies \in Nat
                      /\ settings.lobbyTTL > 0 /\ settings.shutdownTimeout > 0
                      /\ Cardinality(deck) >= 2
                      /\ \A pair \in deck : Cardinality(pair) = 2 /\ pair \cap BlankWords = {}
    BY DEF ServesOnlyPlayable, Holds
  <2>1. /\ launch \in Launches /\ AreScalesUsable /\ IsUsable(launch.env)
        /\ settings = Configured(launch.env) /\ deck = LoadedKeys
    BY DEF ProcessInv
  <2>2. /\ settings.maxPlayers >= 2 /\ settings.maxLobbies >= 1
        /\ settings.lobbyTTL > 0 /\ settings.shutdownTimeout > 0
        /\ settings.maxLobbies # Unparsable
    BY <2>1, UsableSettings
  <2>3. settings.maxLobbies \in Int
    <3>1. CASE "maxLobbies" \in DOMAIN launch.env
      <4>1. settings.maxLobbies = launch.env["maxLobbies"]
        BY <2>1, <3>1 DEF Configured, Defaults
      <4>2. launch.env["maxLobbies"] = Unparsable \/ launch.env["maxLobbies"] \in Int
        BY <2>1, <3>1, StartupAssumption
      <4> QED
        BY <2>2, <4>1, <4>2
    <3>2. CASE "maxLobbies" \notin DOMAIN launch.env
      BY <2>1, <3>2 DEF Configured, Defaults
    <3> QED
      BY <3>1, <3>2
  <2>4. settings.maxLobbies \in Nat
    BY <2>2, <2>3
  <2>5. DOMAIN ScalesOf(Source) = DOMAIN Source
    BY DEF ScalesOf
  <2>6. AreValidScales(ScalesOf(Source))
    BY <2>1 DEF AreScalesUsable
  <2>7. Cardinality(deck) >= 2
    <3>1. Len(ScalesOf(Source)) >= 2
      BY <2>6 DEF AreValidScales
    <3>2. Len(Source) \in Nat /\ DOMAIN Source = 1..Len(Source)
      BY <2>1, FilesAreSequences
    <3>3. Len(ScalesOf(Source)) = Len(Source)
      <4> DEFINE S == {AsPair(Source[i]) : i \in 1..Len(Source)}
      <4>1. ScalesOf(Source) \in [1..Len(Source) -> S]
        BY <3>2 DEF ScalesOf
      <4> HIDE DEF S
      <4> QED
        BY <3>2, <4>1
    <3> QED
      BY <2>1, <3>1, <3>3, DeckIsTheFile
  <2>8. ASSUME NEW pair \in deck
        PROVE  Cardinality(pair) = 2 /\ pair \cap BlankWords = {}
    <3>1. PICK i \in DOMAIN Source : pair = PairKey(ScalesOf(Source)[i])
      BY <2>1 DEF LoadedKeys
    <3>2. /\ PairKey(ScalesOf(Source)[i]) \cap BlankWords = {}
          /\ ScalesOf(Source)[i][1] # ScalesOf(Source)[i][2]
      BY <2>5, <2>6 DEF AreValidScales
    <3> DEFINE a == ScalesOf(Source)[i][1]
               b == ScalesOf(Source)[i][2]
    <3>3. pair = {a, b} /\ a # b
      BY <3>1, <3>2 DEF PairKey
    <3> HIDE DEF a, b
    <3>4. Cardinality({a, b}) = 2
      <4>1. IsFiniteSet({a}) /\ Cardinality({a}) = 1
        BY FS_Singleton
      <4>2. Cardinality({a} \cup {b}) = Cardinality({a}) + 1
        BY <3>3, <4>1, FS_AddElement
      <4>3. {a, b} = {a} \cup {b}
        OBVIOUS
      <4> QED
        BY <4>1, <4>2, <4>3
    <3> QED
      BY <3>1, <3>2, <3>3, <3>4
  <2> QED
    BY <2>2, <2>4, <2>7, <2>8
<1>2. ProcessInv /\ [Next]_vars => ProcessInv'
  BY ProcessInvStep
<1> QED
  BY <1>1, <1>2, ProcessInvInit, PTL DEF Spec

-----------------------------------------------------------------------------
(***************************************************************************)
(* What a game holds of the deck.  Only a serving process holds anything,  *)
(* so nothing is left of a deck when another one is loaded.                *)
(***************************************************************************)
Empty == recent = <<>> /\ axes = NoAxes /\ redrawn = {} /\ played = <<>>

PlayInv ==
  /\ ~ Holds => Empty
  /\ recent \in Seq(deck) /\ Len(recent) <= RecentMemory
  /\ axes \in [x : deck, y : deck] \cup {NoAxes}
  /\ redrawn \in SUBSET deck
  /\ redrawn # {} => \E a, b \in deck : redrawn = {a, b}
  /\ played \in Seq([x : deck, y : deck])

LEMMA EmptyIsTyped ==
  ASSUME NEW D
  PROVE  <<>> \in Seq(D) /\ Len(<<>>) <= RecentMemory /\ <<>> \in Seq([x : D, y : D])
<1>1. RecentMemory \in Nat
  BY DeckAssumption
<1> QED
  BY <1>1, EmptySeq

LEMMA PlayInvInit == Init => PlayInv
BY EmptyIsTyped DEF Init, ProcessInit, PlayInv, Holds, Empty

LEMMA RememberedRoundsType == RememberedRounds \in Nat /\ 2 * RememberedRounds <= RecentMemory
BY DeckAssumption DEF RememberedRounds

LEMMA DealTypes ==
  ASSUME PlayInv, Deal
  PROVE  /\ recent' \in Seq(deck) /\ Len(recent') <= RecentMemory
         /\ axes' \in [x : deck, y : deck]
         /\ played' \in Seq([x : deck, y : deck])
         /\ redrawn' = {} /\ Holds'
<1>1. recent' \in Seq(deck) /\ Len(recent') <= RecentMemory
  BY RememberIn DEF Deal, PlayInv
<1>2. axes' \in [x : deck, y : deck]
  BY DrawsFromType DEF Deal
<1>3. played' \in Seq([x : deck, y : deck])
  <2>1. CASE axes = NoAxes
    BY <2>1 DEF Deal, PlayInv
  <2>2. CASE axes # NoAxes
    <3>1. Append(played, axes) \in Seq([x : deck, y : deck])
      BY <2>2, AppendProperties DEF PlayInv
    <3>2. played' = LastN(Append(played, axes), RememberedRounds)
      BY <2>2 DEF Deal
    <3> QED
      BY <3>1, <3>2, RememberedRoundsType, LastNProperties
  <2> QED
    BY <2>1, <2>2
<1> QED
  BY <1>1, <1>2, <1>3 DEF Deal, Holds, processVars

LEMMA RedrawTypes ==
  ASSUME PlayInv, Redraw
  PROVE  /\ axes \in [x : deck, y : deck] /\ axes' \in [x : deck, y : deck]
         /\ redrawn' = {axes.x, axes.y} /\ axes.x \in deck /\ axes.y \in deck
<1>1. axes \in [x : deck, y : deck]
  BY DEF Redraw, PlayInv
<1>2. axes' \in [x : deck, y : deck]
  BY DrawsFromType DEF Redraw
<1> QED
  BY <1>1, <1>2 DEF Redraw

\* A process holds on to its deck while a game holds anything of it.
LEMMA ProcessStepTypes ==
  ASSUME PlayInv, Process
  PROVE  /\ Empty' \/ (UNCHANGED playVars /\ (Holds => UNCHANGED deck))
         /\ ~ Holds' => Empty'
<1>1. CASE stage' = "exited"
  BY <1>1 DEF Process, Empty, NoAxes
<1>2. CASE stage' # "exited"
  <2>1. UNCHANGED playVars
    BY <1>2 DEF Process
  <2>2. StartsServing \/ Drains
    BY <1>2 DEF Process, ProcessNext, Starting, PrintsVersion, RefusesConfig, DumpsScales,
                RefusesScales, ApprovesScales, ListenFails, EndsServing, Exit
  <2>3. Holds'
    BY <2>2 DEF StartsServing, Drains, Holds
  <2>4. Holds => UNCHANGED deck
    BY <2>2, <1>2 DEF Process, ProcessNext, Starting, PrintsVersion, RefusesConfig, DumpsScales,
                      RefusesScales, ApprovesScales, StartsServing, ListenFails, Drains,
                      EndsServing, Exit, Holds
  <2> QED
    BY <2>1, <2>3, <2>4
<1> QED
  BY <1>1, <1>2

LEMMA EmptyPlayInvNext ==
  ASSUME Empty'
  PROVE  PlayInv'
BY EmptyIsTyped DEF PlayInv, Empty

LEMMA PlayInvStep ==
  ASSUME PlayInv, [Next]_vars
  PROVE  PlayInv'
<1>1. CASE Process
  <2>1. CASE Empty'
    BY <2>1, EmptyPlayInvNext
  <2>2. CASE ~ Empty'
    <3>1. UNCHANGED playVars /\ Holds'
      BY <1>1, <2>2, ProcessStepTypes
    <3>2. ~ Empty
      BY <2>2, <3>1 DEF Empty, playVars, NoAxes
    <3>3. UNCHANGED deck
      BY <1>1, <2>2, <3>2, ProcessStepTypes DEF PlayInv
    <3> QED
      BY <3>1, <3>3 DEF PlayInv, playVars, NoAxes
  <2> QED
    BY <2>1, <2>2
<1>2. CASE Deal
  <2>1. UNCHANGED <<stage, deck>>
    BY <1>2 DEF Deal, processVars
  <2> QED
    BY <1>2, <2>1, DealTypes DEF PlayInv, Holds
<1>3. CASE Redraw
  <2>1. UNCHANGED <<stage, deck, recent, played>> /\ stage = "serving"
    BY <1>3 DEF Redraw, processVars
  <2>2. redrawn' \in SUBSET deck' /\ \E a, b \in deck' : redrawn' = {a, b}
    BY <1>3, <2>1, RedrawTypes
  <2> QED
    BY <1>3, <2>1, <2>2, RedrawTypes DEF PlayInv, Holds
<1>4. CASE Restart
  <2>1. UNCHANGED <<stage, deck, recent, played>> /\ stage = "serving"
    BY <1>4 DEF Restart, processVars
  <2> QED
    BY <1>4, <2>1 DEF PlayInv, Holds, Restart, NoAxes
<1>5. CASE UNCHANGED vars
  BY <1>5 DEF vars, processVars, playVars, PlayInv, Holds, Empty, NoAxes
<1> QED
  BY <1>1, <1>2, <1>3, <1>4, <1>5 DEF Next

(***************************************************************************)
(* Memory and board only ever hold pairs of the deck that is loaded, and   *)
(* the memory is never longer than RecentMemory: nothing of one deck is    *)
(* left when a process loads another (StartRound, RedrawScales, Reset).    *)
(***************************************************************************)
THEOREM PlayTyped == Spec => []TypeOK
<1>1. ProcessInv /\ PlayInv => TypeOK
  BY DEF ProcessInv, PlayInv, TypeOK
<1>2. ProcessInv /\ PlayInv /\ [Next]_vars => (ProcessInv /\ PlayInv)'
  BY ProcessInvStep, PlayInvStep
<1> QED
  BY <1>1, <1>2, ProcessInvInit, PlayInvInit, PTL DEF Spec

-----------------------------------------------------------------------------
LEMMA DeckIsFinite ==
  ASSUME deck \subseteq Pairs
  PROVE  IsFiniteSet(deck)
BY DeckAssumption, FS_Subset

LEMMA TwoAtMost ==
  ASSUME NEW a, NEW b
  PROVE  IsFiniteSet({a, b}) /\ Cardinality({a, b}) <= 2
<1>1. IsFiniteSet({a}) /\ Cardinality({a}) = 1
  BY FS_Singleton
<1>2. IsFiniteSet({b}) /\ Cardinality({b}) = 1
  BY FS_Singleton
<1>3. {a, b} = {a} \cup {b}
  OBVIOUS
<1> QED
  BY <1>1, <1>2, <1>3, UnionIsSmall

LEMMA UnrelatedStep ==
  ASSUME ProcessInv, PlayInv, AxesUnrelated, [Next]_vars
  PROVE  AxesUnrelated'
<1>1. IsFiniteSet(deck)
  BY DeckIsFinite DEF ProcessInv
<1>2. recent \in Seq(deck) /\ Len(recent) <= RecentMemory
  BY DEF PlayInv
<1>3. CASE Process
  <2>1. CASE Empty'
    BY <2>1 DEF Empty, AxesUnrelated, NoAxes
  <2>2. CASE ~ Empty'
    <3>1. UNCHANGED playVars /\ UNCHANGED deck
      BY <1>3, <2>2, ProcessStepTypes DEF PlayInv, Empty, playVars, NoAxes
    <3> QED
      BY <3>1 DEF AxesUnrelated, IsVaried, playVars, NoAxes
  <2> QED
    BY <2>1, <2>2
<1>4. CASE Deal
  <2>1. axes' \in DrawsFrom(deck, recent', {}) /\ UNCHANGED deck
    BY <1>4 DEF Deal, processVars
  <2>2. recent' \in Seq(deck) /\ Len(recent') <= RecentMemory
    BY <1>4, DealTypes
  <2>3. IsFiniteSet({}) /\ Cardinality({}) <= 2
    BY FS_EmptySet
  <2>4. axes'.x # axes'.y
    BY <2>1, DrawsDiffer
  <2>5. IsVaried => ~ SharesWord(axes'.x, axes'.y)
    BY <1>1, <2>1, <2>2, <2>3, DrawsUnrelated DEF IsVaried
  <2> QED
    BY <2>1, <2>4, <2>5 DEF AxesUnrelated, IsVaried
<1>5. CASE Redraw
  <2>1. axes' \in DrawsFrom(deck, recent, {axes.x, axes.y}) /\ UNCHANGED deck
    BY <1>5 DEF Redraw, processVars
  <2>2. IsFiniteSet({axes.x, axes.y}) /\ Cardinality({axes.x, axes.y}) <= 2
    BY TwoAtMost
  <2>3. axes'.x # axes'.y
    BY <2>1, DrawsDiffer
  <2>4. IsVaried => ~ SharesWord(axes'.x, axes'.y)
    BY <1>1, <1>2, <2>1, <2>2, DrawsUnrelated DEF IsVaried
  <2> QED
    BY <2>1, <2>3, <2>4 DEF AxesUnrelated, IsVaried
<1>6. CASE Restart
  BY <1>6 DEF Restart, AxesUnrelated, NoAxes
<1>7. CASE UNCHANGED vars
  BY <1>7 DEF vars, processVars, playVars, AxesUnrelated, IsVaried, NoAxes
<1> QED
  BY <1>3, <1>4, <1>5, <1>6, <1>7 DEF Next

(***************************************************************************)
(* On every deck a server accepts the two axes differ, and on every varied *)
(* one they have no word in common, whatever was played before and however *)
(* often the words are redrawn (Draw, sharesWord).                         *)
(***************************************************************************)
THEOREM PlayUnrelated == Spec => []AxesUnrelated
<1>1. Init => AxesUnrelated
  BY DEF Init, AxesUnrelated
<1>2. ProcessInv /\ PlayInv /\ AxesUnrelated /\ [Next]_vars
        => (ProcessInv /\ PlayInv /\ AxesUnrelated)'
  BY ProcessInvStep, PlayInvStep, UnrelatedStep
<1> QED
  BY <1>1, <1>2, ProcessInvInit, PlayInvInit, PTL DEF Spec

-----------------------------------------------------------------------------
(***************************************************************************)
(* The rounds played last and the memory, both read from their ends: the   *)
(* axes of the round j rounds ago are the memory's entries 2j+1 and 2j     *)
(* before its last.                                                        *)
(***************************************************************************)
Aligned(memory, rounds) ==
  /\ 2 * Len(rounds) <= Len(memory)
  /\ \A j \in Nat : j < Len(rounds) =>
       /\ memory[Len(memory) - (2 * j + 1)] = rounds[Len(rounds) - j].x
       /\ memory[Len(memory) - 2 * j] = rounds[Len(rounds) - j].y

LEMMA AlignedCovers ==
  ASSUME NEW T, NEW memory \in Seq(T), NEW rounds \in Seq([x : T, y : T]),
         Aligned(memory, rounds), NEW i \in DOMAIN rounds
  PROVE  {rounds[i].x, rounds[i].y} \subseteq ToSet(memory)
<1> DEFINE m == Len(rounds)
           n == Len(memory)
           j == m - i
<1>1. /\ m \in Nat /\ n \in Nat /\ i \in 1..m
      /\ DOMAIN memory = 1..n
  BY LenProperties
<1>2. j \in Nat /\ j < m /\ m - j = i
  BY <1>1
<1>3. /\ 2 * m <= n
      /\ memory[n - (2 * j + 1)] = rounds[m - j].x
      /\ memory[n - 2 * j] = rounds[m - j].y
  BY <1>2 DEF Aligned
<1> HIDE DEF m, n, j
<1>4. n - (2 * j + 1) \in 1..n /\ n - 2 * j \in 1..n
  BY <1>1, <1>2, <1>3
<1> QED
  BY <1>1, <1>2, <1>3, <1>4 DEF ToSet

LEMMA AlignedStep ==
  ASSUME NEW T, NEW memory \in Seq(T), NEW rounds \in Seq([x : T, y : T]),
         NEW last \in [x : T, y : T], Aligned(memory, rounds)
  PROVE  Aligned(Remember(memory, last), LastN(Append(rounds, last), RememberedRounds))
<1> DEFINE n      == Len(memory)
           m      == Len(rounds)
           longer == Append(rounds, last)
           kept   == Remember(memory, last)
           played2 == LastN(longer, RememberedRounds)
           k      == Len(kept)
           r      == Len(played2)
<1>1. n \in Nat /\ m \in Nat /\ RecentMemory \in Nat
  BY LenProperties, DeckAssumption
<1>2. /\ longer \in Seq([x : T, y : T]) /\ Len(longer) = m + 1
      /\ longer[m + 1] = last
      /\ \A i \in 1..m : longer[i] = rounds[i]
  BY AppendProperties
<1>3. RememberedRounds \in Nat /\ 2 * RememberedRounds <= RecentMemory
  BY RememberedRoundsType
<1> HIDE DEF longer
<1>4. /\ played2 \in Seq([x : T, y : T]) /\ r <= RememberedRounds /\ r <= m + 1
      /\ \A i \in 1..r : played2[i] = longer[i + (m + 1) - r]
  <2>1. /\ played2 \in Seq([x : T, y : T]) /\ r <= RememberedRounds /\ r <= Len(longer)
        /\ \A i \in 1..r : played2[i] = longer[i + Len(longer) - r]
    BY <1>2, <1>3, LastNProperties
  <2> HIDE DEF played2, r, m
  <2> QED
    BY <1>2, <2>1
<1>5. r \in Nat
  BY <1>4, LenProperties
<1>6. /\ n + 2 <= RecentMemory => k = n + 2
      /\ n + 2 > RecentMemory => k = RecentMemory
      /\ k >= 1 => kept[k] = last.y
      /\ k >= 2 => kept[k - 1] = last.x
      /\ \A j \in Nat : j >= 2 /\ j < k => kept[k - j] = memory[n - (j - 2)]
  BY RememberFromTheEnd
<1>7. /\ 2 * m <= n
      /\ \A j \in Nat : j < m =>
           /\ memory[n - (2 * j + 1)] = rounds[m - j].x
           /\ memory[n - 2 * j] = rounds[m - j].y
  BY DEF Aligned
<1> HIDE DEF n, m, kept, played2, k, r
<1>8. 2 * r <= k /\ k \in Nat
  BY <1>1, <1>3, <1>4, <1>5, <1>6, <1>7
<1>9. ASSUME NEW j \in Nat, j < r
      PROVE  kept[k - (2 * j + 1)] = played2[r - j].x /\ kept[k - 2 * j] = played2[r - j].y
  <2>1. played2[r - j] = longer[m + 1 - j]
    <3>1. r - j \in 1..r /\ (r - j) + (m + 1) - r = m + 1 - j
      BY <1>1, <1>5, <1>9
    <3> QED
      BY <1>4, <3>1
  <2>2. CASE j = 0
    <3>1. /\ k >= 2 /\ k >= 1
          /\ k - (2 * j + 1) = k - 1 /\ k - 2 * j = k /\ m + 1 - j = m + 1
      BY <1>1, <1>5, <1>8, <1>9, <2>2
    <3> QED
      BY <1>2, <1>6, <2>1, <3>1
  <2>3. CASE j # 0
    <3> DEFINE h == j - 1
    <3>1. /\ h \in Nat /\ h < m
          /\ m + 1 - j = m - h /\ m - h \in 1..m
      BY <1>1, <1>4, <1>5, <1>9, <2>3
    <3>2. /\ 2 * j + 1 \in Nat /\ 2 * j + 1 >= 2 /\ 2 * j + 1 < k
          /\ 2 * j \in Nat /\ 2 * j >= 2 /\ 2 * j < k
          /\ n - ((2 * j + 1) - 2) = n - (2 * h + 1) /\ n - (2 * j - 2) = n - 2 * h
      BY <1>1, <1>5, <1>8, <1>9, <2>3
    <3> HIDE DEF h
    <3>3. kept[k - (2 * j + 1)] = memory[n - (2 * h + 1)] /\ kept[k - 2 * j] = memory[n - 2 * h]
      BY <1>6, <3>2
    <3>4. memory[n - (2 * h + 1)] = rounds[m - h].x /\ memory[n - 2 * h] = rounds[m - h].y
      BY <1>7, <3>1
    <3>5. played2[r - j] = rounds[m - h]
      BY <1>2, <2>1, <3>1
    <3> QED
      BY <3>3, <3>4, <3>5
  <2> QED
    BY <2>2, <2>3
<1> QED
  BY <1>8, <1>9 DEF Aligned, k, r, kept, played2, longer

(***************************************************************************)
(* Words on the board are neither remembered nor those just replaced, and  *)
(* the rounds played last are remembered.                                  *)
(***************************************************************************)
FreshInv ==
  /\ IsAmple /\ axes # NoAxes => AxisPairs \cap (ToSet(recent) \cup redrawn) = {}
  /\ Aligned(recent, played)

LEMMA EmptyIsAligned == Aligned(<<>>, <<>>)
<1>1. Len(<<>>) = 0
  BY EmptySeq
<1> QED
  BY <1>1 DEF Aligned

LEMMA FreshStep ==
  ASSUME ProcessInv, PlayInv, FreshInv, [Next]_vars
  PROVE  FreshInv'
<1>1. IsFiniteSet(deck)
  BY DeckIsFinite DEF ProcessInv
<1>2. recent \in Seq(deck) /\ Len(recent) <= RecentMemory
  BY DEF PlayInv
<1>3. CASE Process
  <2>1. CASE Empty'
    BY <2>1, EmptyIsAligned DEF Empty, FreshInv, NoAxes
  <2>2. CASE ~ Empty'
    <3>1. UNCHANGED playVars /\ UNCHANGED deck
      BY <1>3, <2>2, ProcessStepTypes DEF PlayInv, Empty, playVars, NoAxes
    <3> QED
      BY <3>1 DEF FreshInv, IsAmple, AxisPairs, playVars, NoAxes
  <2> QED
    BY <2>1, <2>2
<1>4. CASE Deal
  <2>1. axes' \in DrawsFrom(deck, recent', {}) /\ redrawn' = {} /\ UNCHANGED deck
    BY <1>4 DEF Deal, processVars
  <2>2. recent' \in Seq(deck) /\ Len(recent') <= RecentMemory
    BY <1>4, DealTypes
  <2>3. IsFiniteSet({}) /\ Cardinality({}) <= 2
    BY FS_EmptySet
  <2>4. IsAmple => {axes'.x, axes'.y} \cap (ToSet(recent') \cup {}) = {}
    BY <1>1, <2>1, <2>2, <2>3, DrawsFresh DEF IsAmple
  <2>5. Aligned(recent', played')
    <3>1. CASE axes = NoAxes
      BY <1>4, <3>1 DEF Deal, FreshInv
    <3>2. CASE axes # NoAxes
      <4>1. axes \in [x : deck, y : deck] /\ played \in Seq([x : deck, y : deck])
        BY <3>2 DEF PlayInv
      <4>2. Aligned(Remember(recent, axes), LastN(Append(played, axes), RememberedRounds))
        BY <1>2, <4>1, AlignedStep DEF FreshInv
      <4> QED
        BY <1>4, <3>2, <4>2 DEF Deal
    <3> QED
      BY <3>1, <3>2
  <2> QED
    BY <2>1, <2>4, <2>5 DEF FreshInv, IsAmple, AxisPairs
<1>5. CASE Redraw
  <2>1. /\ axes' \in DrawsFrom(deck, recent, {axes.x, axes.y})
        /\ redrawn' = {axes.x, axes.y} /\ UNCHANGED <<deck, recent, played>>
    BY <1>5 DEF Redraw, processVars
  <2>2. IsFiniteSet({axes.x, axes.y}) /\ Cardinality({axes.x, axes.y}) <= 2
    BY TwoAtMost
  <2>3. IsAmple => {axes'.x, axes'.y} \cap (ToSet(recent) \cup {axes.x, axes.y}) = {}
    BY <1>1, <1>2, <2>1, <2>2, DrawsFresh DEF IsAmple
  <2> QED
    BY <2>1, <2>3 DEF FreshInv, IsAmple, AxisPairs
<1>6. CASE Restart
  BY <1>6 DEF Restart, FreshInv, NoAxes
<1>7. CASE UNCHANGED vars
  BY <1>7 DEF vars, processVars, playVars, FreshInv, IsAmple, AxisPairs, NoAxes
<1> QED
  BY <1>3, <1>4, <1>5, <1>6, <1>7 DEF Next

(***************************************************************************)
(* For every memory, odd or even, and every deck of four pairs more: no    *)
(* word of the rounds played last comes back, and a redraw replaces both   *)
(* pairs (Remember, Draw, StartRound, RedrawScales).                       *)
(***************************************************************************)
THEOREM PlayFresh == Spec => []FreshWords
<1>1. Init => FreshInv
  BY EmptyIsAligned DEF Init, FreshInv
<1>2. ProcessInv /\ PlayInv /\ FreshInv /\ [Next]_vars => (ProcessInv /\ PlayInv /\ FreshInv)'
  BY ProcessInvStep, PlayInvStep, FreshStep
<1>3. PlayInv /\ FreshInv => FreshWords
  <2> SUFFICES ASSUME PlayInv, FreshInv, IsAmple, axes # NoAxes
               PROVE  /\ AxisPairs \cap redrawn = {}
                      /\ \A i \in DOMAIN played : AxisPairs \cap {played[i].x, played[i].y} = {}
    BY DEF FreshWords
  <2>1. AxisPairs \cap (ToSet(recent) \cup redrawn) = {}
    BY DEF FreshInv
  <2>2. \A i \in DOMAIN played : {played[i].x, played[i].y} \subseteq ToSet(recent)
    BY AlignedCovers DEF PlayInv, FreshInv
  <2> QED
    BY <2>1, <2>2
<1> QED
  BY <1>1, <1>2, <1>3, ProcessInvInit, PlayInvInit, PTL DEF Spec
=============================================================================
