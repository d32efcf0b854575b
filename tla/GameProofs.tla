----------------------------- MODULE GameProofs -----------------------------
(***************************************************************************)
(* Theorems about the game of a lobby, for every number of players, every  *)
(* deck, every set of targets and guesses and every limit.                 *)
(*                                                                         *)
(* The steps are proved for what a lobby calls (ServedNext) and for        *)
(* RemovePlayer apart; together they are the theorems about Spec, the game *)
(* with everything it exports.  ServedSpec, the game as the lobby uses it, *)
(* inherits those, and two more hold only there.                           *)
(***************************************************************************)
EXTENDS GameProperties, GameLemmas

LEMMA GameConstants ==
  /\ IsFiniteSet(PlayerIDs) /\ NoPlayer \notin PlayerIDs
  /\ GuessPoints \subseteq Point
  /\ Targets \subseteq Board
  /\ HistoryLimit \in Nat \ {0}
  /\ MaxRounds \in Nat
  /\ NoGuess \notin Board
<1>1. Targets \subseteq [x : 10..89, y : 10..89]
  BY GameAssumption
<1>2. [x : 10..89, y : 10..89] \subseteq Board
  BY DEF Board, Point, InBounds
<1> QED
  BY <1>1, <1>2, GameAssumption DEF Board

LEMMA FiniteGroup ==
  ASSUME NEW S \in SUBSET PlayerIDs
  PROVE  IsFiniteSet(S) /\ Cardinality(S) \in Nat
BY GameConstants, FS_Subset, FS_CardinalityType

(***************************************************************************)
(* Guesses and results.                                                    *)
(***************************************************************************)
Placements == [PlayerIDs -> Board \cup {NoGuess}]

LEMMA PointsOfType ==
  ASSUME target \in Board, NEW g \in Placements, NEW p \in Guessers(g)
  PROVE  p \in PlayerIDs /\ g[p] \in Board /\ PointsOf(g, p) \in 0..MaxPoints
<1>1. p \in PlayerIDs /\ g[p] \in Board
  BY DEF Guessers, Placements
<1>2. Distance2(target, g[p]) \in Int
  BY <1>1, DistanceType DEF Board
<1> QED
  BY <1>1, <1>2, PointsForType DEF PointsOf

LEMMA ResultsType ==
  ASSUME target \in Board, name \in [PlayerIDs -> AllNames], NEW g \in Placements
  PROVE  ResultsOf(g) \in SUBSET Result /\ IsFiniteSet(ResultsOf(g))
<1>1. ResultsOf(g) \in SUBSET Result
  BY PointsOfType DEF ResultsOf, Result
<1>2. IsFiniteSet(ResultsOf(g))
  <2> DEFINE f == [p \in Guessers(g) |->
                     [playerId |-> p, name |-> name[p], point |-> g[p], points |-> PointsOf(g, p)]]
  <2>1. f \in Surjection(Guessers(g), ResultsOf(g))
    BY DEF Surjection, ResultsOf
  <2>2. IsFiniteSet(Guessers(g))
    BY FiniteGroup DEF Guessers
  <2> HIDE DEF f
  <2> QED
    BY <2>1, <2>2, FS_Surjection
<1> QED
  BY <1>1, <1>2

LEMMA GainType ==
  ASSUME target \in Board, name \in [PlayerIDs -> AllNames], NEW g \in Placements,
         NEW p \in PlayerIDs
  PROVE  /\ Gain(g, p) \in Nat
         /\ clueGiverID \notin Guessers(g) => Gain(g, p) <= MaxPoints
<1>1. ClueGiverPoints(ResultsOf(g)) \in 0..MaxPoints
  BY ResultsType, ClueGiverPointsType
<1>2. p \in Guessers(g) => PointsOf(g, p) \in 0..MaxPoints
  BY PointsOfType
<1> QED
  BY <1>1, <1>2 DEF Gain, MaxPoints

LEMMA EntryType ==
  ASSUME TypeOK, round > 0, NEW g \in Placements
  PROVE  Entry(g) \in Entries
<1>1. round \in 1..MaxRounds
  BY GameConstants DEF TypeOK
<1>2. axes \in Axes
  BY DEF TypeOK
<1>3. (IF clueGiverID \in players THEN name[clueGiverID] ELSE NoName) \in AllNames
  BY DEF TypeOK, AllNames
<1>4. ResultsOf(g) \in SUBSET Result /\ ClueGiverPoints(ResultsOf(g)) \in 0..MaxPoints
  BY ResultsType, ClueGiverPointsType DEF TypeOK
<1> QED
  BY <1>1, <1>2, <1>3, <1>4 DEF Entry, Entries, TypeOK

(***************************************************************************)
(* What an evaluation may do to the phase, the scores and the history.     *)
(***************************************************************************)
LEMMA RevealType ==
  ASSUME TypeOK, round > 0, NEW g \in Placements, NEW scores \in [PlayerIDs -> Nat],
         RevealRound(g, scores)
  PROVE  /\ phase' = "REVEAL"
         /\ score' \in [PlayerIDs -> Nat]
         /\ history' \in Seq(Entries)
<1>1. phase' = "REVEAL"
  BY DEF RevealRound
<1>2. score' \in [PlayerIDs -> Nat]
  BY GainType DEF RevealRound, TypeOK
<1>3. Append(history, Entry(g)) \in Seq(Entries)
  BY EntryType, AppendProperties DEF TypeOK
<1>4. history' \in Seq(Entries)
  BY <1>3, LastNProperties, GameConstants DEF RevealRound
<1> QED
  BY <1>1, <1>2, <1>4

\* A round that is open has a number.
RoundIsOpen == phase # "LOBBY" => round > 0

LEMMA AutoRevealType ==
  ASSUME TypeOK, RoundIsOpen, NEW g \in Placements, NEW scores \in [PlayerIDs -> Nat],
         NEW conn, MaybeAutoReveal(g, conn, scores)
  PROVE  /\ phase' \in Phases /\ (phase' # "LOBBY" => phase # "LOBBY")
         /\ score' \in [PlayerIDs -> Nat]
         /\ history' \in Seq(Entries)
<1>1. CASE phase = "GUESS" /\ AllGuessesIn(g, conn)
  <2>1. RevealRound(g, scores)
    BY <1>1 DEF MaybeAutoReveal
  <2> QED
    BY <1>1, <2>1, RevealType DEF RoundIsOpen, Phases
<1>2. CASE ~ (phase = "GUESS" /\ AllGuessesIn(g, conn))
  BY <1>2 DEF MaybeAutoReveal, TypeOK
<1> QED
  BY <1>1, <1>2

-----------------------------------------------------------------------------
(***************************************************************************)
(* Type correctness.  A round has a number as long as it is open, which is *)
(* what makes its axes words of the deck, and the players in the stream of *)
(* turns are known ones.                                                   *)
(***************************************************************************)
TypeInv ==
  /\ TypeOK
  /\ RoundIsOpen
  /\ IsRotation(rotation, players)

LEMMA RotationGrows ==
  ASSUME NEW S, NEW T, S \subseteq T, NEW r, IsRotation(r, S)
  PROVE  IsRotation(r, T)
<1>1. Seq(S) \subseteq Seq(T)
  BY SeqMonotonic
<1> QED
  BY <1>1 DEF IsRotation

LEMMA StartRoundType ==
  ASSUME TypeInv, StartRound
  PROVE  TypeInv'
<1> USE DEF TypeInv
<1>1. PICK turn \in Turns(rotation, ConnectedIDs) :
        clueGiverID' = turn.player /\ rotation' = turn.rotation
  BY DEF StartRound
<1>2. ConnectedIDs \in SUBSET players /\ IsFiniteSet(ConnectedIDs)
  BY FiniteGroup DEF ConnectedIDs, TypeOK
<1>3. turn.player \in players /\ IsRotation(turn.rotation, players)
  BY <1>2, TurnType DEF StartRound, MayStart, MinPlayers
<1>4. recent' \in Seq(Pairs)
  BY RememberType DEF StartRound, TypeOK, Axes
<1>5. axes' \in Axes
  BY DrawsType DEF StartRound, Axes
<1>6. round' \in 0..MaxRounds /\ round' # 0
  BY GameConstants DEF StartRound, MayStart, TypeOK
<1>7. target' \in Board /\ guesses' \in Placements /\ hint' = NoHint /\ phase' = "HINT"
  BY GameConstants DEF StartRound, NoGuesses, Placements
<1>8. IsRotation(rotation', PlayerIDs)
  BY <1>1, <1>3, RotationGrows DEF TypeOK
<1>9. TypeOK'
  BY <1>1, <1>3, <1>4, <1>5, <1>6, <1>7, <1>8 DEF StartRound, TypeOK, Phases, Placements
<1> QED
  BY <1>1, <1>3, <1>6, <1>9 DEF StartRound, RoundIsOpen

LEMMA TypeInvStep ==
  ASSUME TypeInv, [ServedNext]_vars
  PROVE  TypeInv'
<1> USE DEF TypeInv
<1>1. ASSUME NEW id \in PlayerIDs, NEW n \in Names \cup {NoName}, AddPlayer(id, n)
      PROVE  TypeInv'
  <2>1. players' \in SUBSET PlayerIDs /\ IsRotation(rotation, players')
    BY <1>1, RotationGrows DEF AddPlayer, TypeOK
  <2>2. name' \in [PlayerIDs -> AllNames] /\ connected' \in [PlayerIDs -> BOOLEAN]
    BY <1>1 DEF AddPlayer, TypeOK, AllNames
  <2> QED
    BY <1>1, <2>1, <2>2 DEF AddPlayer, TypeOK, RoundIsOpen, board, deal
<1>2. ASSUME NEW id \in PlayerIDs, NEW n \in Names \cup {NoName}, Rename(id, n)
      PROVE  TypeInv'
  <2>1. name' \in [PlayerIDs -> AllNames]
    BY <1>2 DEF Rename, TypeOK, AllNames
  <2> QED
    BY <1>2, <2>1 DEF Rename, TypeOK, RoundIsOpen, board, deal
<1>3. ASSUME NEW id \in PlayerIDs, Disconnect(id)
      PROVE  TypeInv'
  <2>1. connected' \in [PlayerIDs -> BOOLEAN]
    BY <1>3 DEF Disconnect, TypeOK
  <2>2. /\ phase' \in Phases /\ (phase' # "LOBBY" => phase # "LOBBY")
        /\ score' \in [PlayerIDs -> Nat]
        /\ history' \in Seq(Entries)
    BY <1>3, AutoRevealType DEF Disconnect, TypeOK, Placements
  <2> QED
    BY <1>3, <2>1, <2>2 DEF Disconnect, TypeOK, RoundIsOpen, board, deal
<1>4. ASSUME StartRound
      PROVE  TypeInv'
  BY <1>4, StartRoundType
<1>5. ASSUME NEW id \in PlayerIDs, RedrawScales(id)
      PROVE  TypeInv'
  <2>1. round # 0 /\ axes' \in Axes
    BY <1>5, DrawsType DEF RedrawScales, MayHint, Axes, RoundIsOpen
  <2> QED
    BY <1>5, <2>1 DEF RedrawScales, TypeOK, RoundIsOpen, deal
<1>6. ASSUME NEW id \in PlayerIDs, NEW h \in Hints \cup {NoHint}, SubmitHint(id, h)
      PROVE  TypeInv'
  BY <1>6 DEF SubmitHint, MayHint, TypeOK, RoundIsOpen, deal, Phases
<1>7. ASSUME NEW id \in PlayerIDs, NEW p \in GuessPoints, PlaceGuess(id, p)
      PROVE  TypeInv'
  <2> DEFINE placed == [guesses EXCEPT ![id] = p]
  <2>1. placed \in Placements
    BY <1>7, GameConstants DEF PlaceGuess, MayGuess, TypeOK, Placements, Board
  <2>2. guesses' = placed
    BY <1>7 DEF PlaceGuess
  <2>3. \/ RevealRound(placed, score)
        \/ UNCHANGED <<phase, score, history>>
    BY <1>7 DEF PlaceGuess
  <2> HIDE DEF placed
  <2>4. /\ phase' \in Phases
        /\ score' \in [PlayerIDs -> Nat]
        /\ history' \in Seq(Entries)
    BY <1>7, <2>1, <2>3, RevealType DEF PlaceGuess, MayGuess, TypeOK, RoundIsOpen, Phases
  <2> QED
    BY <1>7, <2>1, <2>2, <2>4 DEF PlaceGuess, MayGuess, TypeOK, RoundIsOpen, board, deal, Placements
<1>8. ASSUME NEW id \in PlayerIDs, Reveal(id)
      PROVE  TypeInv'
  <2>1. /\ phase' = "REVEAL"
        /\ score' \in [PlayerIDs -> Nat]
        /\ history' \in Seq(Entries)
    BY <1>8, RevealType DEF Reveal, TypeOK, RoundIsOpen, Placements
  <2> QED
    BY <1>8, <2>1 DEF Reveal, TypeOK, RoundIsOpen, board, deal, Phases
<1>9. ASSUME Reset
      PROVE  TypeInv'
  <2>1. \A S : IsRotation(NewRotation, S)
    BY EmptySeq DEF IsRotation, NewRotation
  <2>2. 0 \in 0..MaxRounds /\ <<>> \in Seq(Entries)
    BY GameConstants, EmptySeq
  <2> QED
    BY <1>9, <2>1, <2>2 DEF Reset, TypeOK, RoundIsOpen, Phases, NoGuesses
<1>10. CASE UNCHANGED vars
  BY <1>10 DEF vars, board, deal, TypeOK, RoundIsOpen
<1> QED
  BY <1>1, <1>2, <1>3, <1>4, <1>5, <1>6, <1>7, <1>8, <1>9, <1>10 DEF ServedNext

LEMMA RemovePlayerType ==
  ASSUME TypeInv, NEW id \in PlayerIDs, RemovePlayer(id)
  PROVE  TypeInv'
<1> USE DEF TypeInv
<1> DEFINE conn   == [connected EXCEPT ![id] = FALSE]
           scores == [score EXCEPT ![id] = 0]
           left   == [guesses EXCEPT ![id] = NoGuess]
<1>1. /\ conn \in [PlayerIDs -> BOOLEAN] /\ scores \in [PlayerIDs -> Nat]
      /\ left \in Placements /\ NoGuesses \in Placements
  BY DEF TypeOK, Placements, NoGuesses
<1>2. /\ players' = players \ {id} /\ connected' = conn /\ rotation' = Without(rotation, id)
      /\ UNCHANGED <<round, axes, target, hint, recent>>
      /\ name' \in [PlayerIDs -> AllNames]
  BY DEF RemovePlayer, TypeOK, AllNames
<1>3. IsRotation(rotation', players') /\ IsRotation(rotation', PlayerIDs)
  <2>1. IsRotation(rotation', players')
    BY <1>2, WithoutProperties
  <2>2. players' \subseteq PlayerIDs
    BY <1>2 DEF TypeOK
  <2> QED
    BY <2>1, <2>2, RotationGrows
<1>4. \/ AbandonRound(scores)
      \/ guesses' = left /\ MaybeAutoReveal(left, conn, scores) /\ UNCHANGED clueGiverID
  BY DEF RemovePlayer
<1> HIDE DEF conn, scores, left
<1>5. /\ phase' \in Phases /\ (phase' # "LOBBY" => phase # "LOBBY")
      /\ score' \in [PlayerIDs -> Nat] /\ history' \in Seq(Entries)
      /\ guesses' \in Placements /\ clueGiverID' \in PlayerIDs \cup {NoPlayer}
  <2>1. CASE AbandonRound(scores)
    BY <1>1, <2>1 DEF AbandonRound, TypeOK, Phases
  <2>2. CASE guesses' = left /\ MaybeAutoReveal(left, conn, scores) /\ UNCHANGED clueGiverID
    BY <1>1, <2>2, AutoRevealType DEF TypeOK
  <2> QED
    BY <1>4, <2>1, <2>2
<1> QED
  BY <1>1, <1>2, <1>3, <1>5 DEF TypeOK, RoundIsOpen, Placements

LEMMA GameTypeStep ==
  ASSUME TypeInv, [Next]_vars
  PROVE  TypeInv'
BY TypeInvStep, RemovePlayerType DEF Next

LEMMA TypeInvInit == Init => TypeInv
<1>1. \A S : IsRotation(NewRotation, S)
  BY EmptySeq DEF IsRotation, NewRotation
<1>2. 0 \in 0..MaxRounds /\ <<>> \in Seq(Entries) /\ <<>> \in Seq(Pairs)
  BY GameConstants, EmptySeq
<1>3. [x |-> 0, y |-> 0] \in Board
  BY DEF Board, Point, InBounds
<1> QED
  BY <1>1, <1>2, <1>3
  DEF Init, TypeInv, TypeOK, RoundIsOpen, Phases, AllNames, NoGuesses

(***************************************************************************)
(* Every game is well-typed: what a round deals, what a guess earns and    *)
(* what the history keeps stay in their ranges, in games of every size,    *)
(* also when players are removed (engine.go, all exported methods).        *)
(***************************************************************************)
THEOREM GameTyped == Spec => []TypeOK
<1>1. TypeInv /\ [Next]_vars => TypeInv'
  BY GameTypeStep
<1>2. TypeInv => TypeOK
  BY DEF TypeInv
<1> QED
  BY <1>1, <1>2, TypeInvInit, PTL DEF Spec

\* A lobby plays a game of its own, without the one method it never calls.
LEMMA ServedIsAGame == ServedSpec => Spec
<1>1. [ServedNext]_vars => [Next]_vars
  BY DEF Next
<1> QED
  BY <1>1, PTL DEF ServedSpec, Spec

-----------------------------------------------------------------------------
(***************************************************************************)
(* Roles.                                                                  *)
(***************************************************************************)
LEMMA NobodyGuessed == Guessers(NoGuesses) = {}
BY DEF Guessers, NoGuesses

\* An evaluation, and its absence, leave a running round running or revealed.
LEMMA AutoRevealPhase ==
  ASSUME NEW g, NEW conn, NEW scores, MaybeAutoReveal(g, conn, scores)
  PROVE  phase' = phase \/ (phase = "GUESS" /\ phase' = "REVEAL")
BY DEF MaybeAutoReveal, RevealRound

LEMMA RolesStep ==
  ASSUME TypeInv, RolesKept, [ServedNext]_vars
  PROVE  RolesKept'
<1> USE DEF RolesKept, Running, Guessers
<1>1. ASSUME NEW id \in PlayerIDs, NEW n \in Names \cup {NoName}, AddPlayer(id, n)
      PROVE  RolesKept'
  BY <1>1 DEF AddPlayer, board
<1>2. ASSUME NEW id \in PlayerIDs, NEW n \in Names \cup {NoName}, Rename(id, n)
      PROVE  RolesKept'
  BY <1>2 DEF Rename, board
<1>3. ASSUME NEW id \in PlayerIDs, Disconnect(id)
      PROVE  RolesKept'
  BY <1>3, AutoRevealPhase DEF Disconnect, board
<1>4. ASSUME StartRound
      PROVE  RolesKept'
  <2>1. PICK turn \in Turns(rotation, ConnectedIDs) : clueGiverID' = turn.player
    BY <1>4 DEF StartRound
  <2>2. ConnectedIDs \in SUBSET players /\ IsFiniteSet(ConnectedIDs)
    BY FiniteGroup DEF ConnectedIDs, TypeInv, TypeOK
  <2>3. clueGiverID' \in players
    BY <1>4, <2>1, <2>2, TurnType DEF StartRound, MayStart, MinPlayers, TypeInv
  <2> QED
    BY <1>4, <2>3, NobodyGuessed DEF StartRound
<1>5. ASSUME NEW id \in PlayerIDs, RedrawScales(id)
      PROVE  RolesKept'
  BY <1>5 DEF RedrawScales
<1>6. ASSUME NEW id \in PlayerIDs, NEW h \in Hints \cup {NoHint}, SubmitHint(id, h)
      PROVE  RolesKept'
  BY <1>6 DEF SubmitHint, MayHint
<1>7. ASSUME NEW id \in PlayerIDs, NEW p \in GuessPoints, PlaceGuess(id, p)
      PROVE  RolesKept'
  <2>1. phase' \in {"GUESS", "REVEAL"}
    BY <1>7 DEF PlaceGuess, MayGuess, RevealRound
  <2> QED
    BY <1>7, <2>1 DEF PlaceGuess, MayGuess, board, TypeInv, TypeOK
<1>8. ASSUME NEW id \in PlayerIDs, Reveal(id)
      PROVE  RolesKept'
  BY <1>8 DEF Reveal, RevealRound, board
<1>9. ASSUME Reset
      PROVE  RolesKept'
  BY <1>9, NobodyGuessed, GameConstants DEF Reset
<1>10. CASE UNCHANGED vars
  BY <1>10 DEF vars, board
<1> QED
  BY <1>1, <1>2, <1>3, <1>4, <1>5, <1>6, <1>7, <1>8, <1>9, <1>10 DEF ServedNext

LEMMA RemovePlayerRoles ==
  ASSUME TypeInv, RolesKept, NEW id \in PlayerIDs, RemovePlayer(id)
  PROVE  RolesKept'
<1> DEFINE conn   == [connected EXCEPT ![id] = FALSE]
           scores == [score EXCEPT ![id] = 0]
           left   == [guesses EXCEPT ![id] = NoGuess]
<1>1. players' = players \ {id}
  BY DEF RemovePlayer
<1>2. CASE clueGiverID = id /\ phase # "REVEAL"
  <2>1. phase' = "LOBBY" /\ clueGiverID' = NoPlayer /\ guesses' = NoGuesses
    BY <1>2 DEF RemovePlayer, AbandonRound
  <2> QED
    BY <2>1, NobodyGuessed, GameConstants DEF RolesKept, Running, Guessers
<1>3. CASE ~ (clueGiverID = id /\ phase # "REVEAL")
  <2>1. guesses' = left /\ clueGiverID' = clueGiverID /\ MaybeAutoReveal(left, conn, scores)
    BY <1>3 DEF RemovePlayer
  <2>2. phase' = phase \/ (phase = "GUESS" /\ phase' = "REVEAL")
    BY <2>1, AutoRevealPhase
  <2>3. \A p \in PlayerIDs : left[p] # NoGuess => p # id /\ guesses[p] # NoGuess
    BY DEF TypeInv, TypeOK
  <2>4. Guessers(guesses') \subseteq Guessers(guesses) \ {id}
    BY <2>1, <2>3 DEF Guessers
  <2> QED
    BY <1>1, <1>3, <2>1, <2>2, <2>4 DEF RolesKept, Running
<1> QED
  BY <1>2, <1>3

LEMMA GameRolesStep ==
  ASSUME TypeInv, RolesKept, [Next]_vars
  PROVE  RolesKept'
BY RolesStep, RemovePlayerRoles DEF Next

LEMMA RolesInit == Init => RolesKept
BY NobodyGuessed, GameConstants DEF Init, RolesKept, Running, Guessers

-----------------------------------------------------------------------------
(***************************************************************************)
(* No round waits for nobody.                                              *)
(***************************************************************************)

\* Who is connected on top of the others can only be another one to wait for.
LEMMA MoreConnectedMorePending ==
  ASSUME NEW g, NEW conn, NEW more,
         \A p \in PlayerIDs : conn[p] => more[p],
         AllGuessesIn(g, more)
  PROVE  AllGuessesIn(g, conn)
BY DEF AllGuessesIn, PendingGuessers

LEMMA NoCompleteRoundStep ==
  ASSUME TypeInv, RolesKept, NoCompleteRoundWaits, [ServedNext]_vars
  PROVE  NoCompleteRoundWaits'
<1> USE DEF NoCompleteRoundWaits
<1>1. ASSUME NEW id \in PlayerIDs, NEW n \in Names \cup {NoName}, AddPlayer(id, n)
      PROVE  NoCompleteRoundWaits'
  <2>1. \A p \in PlayerIDs : connected[p] => connected'[p]
    BY <1>1 DEF AddPlayer, TypeInv, TypeOK
  <2>2. UNCHANGED <<phase, guesses, clueGiverID>>
    BY <1>1 DEF AddPlayer, board
  <2>3. AllGuessesIn(guesses, connected)' => AllGuessesIn(guesses, connected)
    BY <2>1, <2>2 DEF AllGuessesIn, PendingGuessers, Guessers
  <2> QED
    BY <2>2, <2>3
<1>2. ASSUME NEW id \in PlayerIDs, NEW n \in Names \cup {NoName}, Rename(id, n)
      PROVE  NoCompleteRoundWaits'
  BY <1>2 DEF Rename, board, AllGuessesIn, PendingGuessers, Guessers
<1>3. ASSUME NEW id \in PlayerIDs, Disconnect(id)
      PROVE  NoCompleteRoundWaits'
  <2>1. phase' = "GUESS" => phase = "GUESS" /\ ~ AllGuessesIn(guesses, connected')
    BY <1>3 DEF Disconnect, MaybeAutoReveal, RevealRound
  <2>2. UNCHANGED <<guesses, clueGiverID>>
    BY <1>3 DEF Disconnect, board
  <2> QED
    BY <2>1, <2>2 DEF AllGuessesIn, PendingGuessers, Guessers
<1>4. ASSUME StartRound
      PROVE  NoCompleteRoundWaits'
  BY <1>4 DEF StartRound
<1>5. ASSUME NEW id \in PlayerIDs, RedrawScales(id)
      PROVE  NoCompleteRoundWaits'
  BY <1>5 DEF RedrawScales, MayHint
<1>6. ASSUME NEW id \in PlayerIDs, NEW h \in Hints \cup {NoHint}, SubmitHint(id, h)
      PROVE  NoCompleteRoundWaits'
  <2>1. Guessers(guesses') = {}
    BY <1>6 DEF SubmitHint, MayHint, RolesKept
  <2> QED
    BY <2>1 DEF AllGuessesIn, Guessers
<1>7. ASSUME NEW id \in PlayerIDs, NEW p \in GuessPoints, PlaceGuess(id, p)
      PROVE  NoCompleteRoundWaits'
  <2>1. phase' = "GUESS" => ~ AllGuessesIn(guesses', connected)
    BY <1>7 DEF PlaceGuess, RevealRound
  <2>2. UNCHANGED <<connected, clueGiverID>>
    BY <1>7 DEF PlaceGuess, board
  <2> QED
    BY <2>1, <2>2 DEF AllGuessesIn, PendingGuessers, Guessers
<1>8. ASSUME NEW id \in PlayerIDs, Reveal(id)
      PROVE  NoCompleteRoundWaits'
  BY <1>8 DEF Reveal, RevealRound
<1>9. ASSUME Reset
      PROVE  NoCompleteRoundWaits'
  BY <1>9 DEF Reset
<1>10. CASE UNCHANGED vars
  BY <1>10 DEF vars, board, AllGuessesIn, PendingGuessers, Guessers
<1> QED
  BY <1>1, <1>2, <1>3, <1>4, <1>5, <1>6, <1>7, <1>8, <1>9, <1>10 DEF ServedNext

LEMMA RemovePlayerNeverWaits ==
  ASSUME NEW id \in PlayerIDs, RemovePlayer(id)
  PROVE  NoCompleteRoundWaits'
<1> DEFINE conn   == [connected EXCEPT ![id] = FALSE]
           scores == [score EXCEPT ![id] = 0]
           left   == [guesses EXCEPT ![id] = NoGuess]
<1>1. CASE clueGiverID = id /\ phase # "REVEAL"
  BY <1>1 DEF RemovePlayer, AbandonRound, NoCompleteRoundWaits
<1>2. CASE ~ (clueGiverID = id /\ phase # "REVEAL")
  <2>1. /\ guesses' = left /\ connected' = conn /\ clueGiverID' = clueGiverID
        /\ MaybeAutoReveal(left, conn, scores)
    BY <1>2 DEF RemovePlayer
  <2> HIDE DEF left, conn, scores
  <2>2. phase' = "GUESS" => ~ AllGuessesIn(left, conn)
    BY <2>1 DEF MaybeAutoReveal, RevealRound
  <2> QED
    BY <2>1, <2>2 DEF NoCompleteRoundWaits, AllGuessesIn, PendingGuessers, Guessers
<1> QED
  BY <1>1, <1>2

LEMMA RolesAlways == Spec => [](TypeInv /\ RolesKept)
<1>1. TypeInv /\ RolesKept /\ [Next]_vars => (TypeInv /\ RolesKept)'
  BY GameTypeStep, GameRolesStep
<1> QED
  BY <1>1, TypeInvInit, RolesInit, PTL DEF Spec

(***************************************************************************)
(* In a game of any size the roles are kept: a running round has a known   *)
(* player as its clue giver, who never guesses, and nobody who is gone has *)
(* a guess on the board (StartRound, PlaceGuess, RemovePlayer).            *)
(***************************************************************************)
THEOREM GameRoles == Spec => []RolesKept
BY RolesAlways, PTL

(***************************************************************************)
(* However many play and whoever leaves or is removed when, a round all of *)
(* whose present guessers have guessed is revealed at once: it never waits *)
(* in the guessing phase (PlaceGuess, Disconnect, RemovePlayer,            *)
(* maybeAutoReveal).                                                       *)
(***************************************************************************)
THEOREM GameNeverWaits == Spec => []NoCompleteRoundWaits
<1>1. Init => NoCompleteRoundWaits
  BY DEF Init, NoCompleteRoundWaits
<1>2. TypeInv /\ RolesKept /\ NoCompleteRoundWaits /\ [Next]_vars => NoCompleteRoundWaits'
  BY NoCompleteRoundStep, RemovePlayerNeverWaits DEF Next
<1> QED
  BY <1>1, <1>2, RolesAlways, PTL DEF Spec

-----------------------------------------------------------------------------
(***************************************************************************)
(* The history.                                                            *)
(***************************************************************************)
SealedBefore ==
  /\ IsOrdered(history)
  /\ \A i \in DOMAIN history : history[i].round < round

LEMMA EntryRounds ==
  ASSUME NEW h \in Seq(Entries)
  PROVE  \A i \in DOMAIN h : h[i].round \in Int
<1>1. ASSUME NEW i \in DOMAIN h
      PROVE  h[i].round \in Int
  <2>1. i \in 1..Len(h)
    BY LenProperties
  <2>2. h[i] \in Entries
    BY <2>1, ElementOfSeq
  <2>3. h[i].round \in 1..MaxRounds
    BY <2>2 DEF Entries
  <2> QED
    BY <2>3, GameConstants
<1> QED
  BY <1>1

\* new, of length m, ends with e, before it the last entries of old, of length n.
Appended(old, new, e, n, m) ==
  /\ DOMAIN old = 1..n /\ DOMAIN new = 1..m
  /\ m <= n + 1
  /\ new[m] = e
  /\ \A i \in 1..(m - 1) : new[i] = old[i + n + 1 - m]

\* An evaluation appends the round on the board to the earlier ones it keeps.
LEMMA RevealAppends ==
  ASSUME TypeOK, round > 0, NEW g \in Placements, NEW scores, RevealRound(g, scores)
  PROVE  \E n \in Nat, m \in Nat \ {0} :
           /\ m = Len(history') /\ m <= HistoryLimit
           /\ Appended(history, history', Entry(g), n, m)
<1> DEFINE longer == Append(history, Entry(g))
           n == Len(history)
           m == Len(history')
<1>1. n \in Nat /\ history \in Seq(Entries)
  BY LenProperties DEF TypeOK
<1>2. /\ longer \in Seq(Entries) /\ Len(longer) = n + 1
      /\ longer[n + 1] = Entry(g)
      /\ \A i \in 1..n : longer[i] = history[i]
  BY <1>1, EntryType, AppendProperties
<1>3. history' = LastN(longer, HistoryLimit)
  BY DEF RevealRound
<1> HIDE DEF longer, n
<1>4. /\ history' \in Seq(Entries)
      /\ Len(history') <= HistoryLimit /\ Len(history') <= Len(longer)
      /\ Len(history') > 0
      /\ \A i \in 1..Len(history') : history'[i] = longer[i + Len(longer) - Len(history')]
  <2>1. HistoryLimit \in Nat /\ HistoryLimit >= 1
    BY GameConstants
  <2>2. /\ history' \in Seq(Entries)
        /\ Len(history') <= HistoryLimit /\ Len(history') <= Len(longer)
        /\ \A i \in 1..Len(history') : history'[i] = longer[i + Len(longer) - Len(history')]
    BY <1>2, <1>3, <2>1, LastNProperties
  <2>3. Len(longer) <= HistoryLimit => history' = longer
    BY <1>2, <1>3, <2>1, LastNProperties
  <2>4. Len(longer) > HistoryLimit => Len(history') = HistoryLimit
    BY <1>2, <1>3, <2>1, LastNProperties
  <2>5. Len(history') > 0
    BY <1>1, <1>2, <2>1, <2>3, <2>4
  <2> QED
    BY <2>2, <2>5
<1>5. m \in Nat /\ m >= 1 /\ m <= n + 1 /\ DOMAIN history' = 1..m /\ DOMAIN history = 1..n
  BY <1>1, <1>2, <1>4, LenProperties DEF n
<1>6. history'[m] = Entry(g) /\ \A i \in 1..(m - 1) : history'[i] = history[i + n + 1 - m]
  <2>1. history'[m] = Entry(g)
    BY <1>1, <1>2, <1>4, <1>5
  <2>2. ASSUME NEW i \in 1..(m - 1)
        PROVE  history'[i] = history[i + n + 1 - m]
    <3>1. i \in 1..m /\ i + n + 1 - m \in 1..n
      BY <1>1, <1>5
    <3>2. i + Len(longer) - m = i + n + 1 - m
      BY <1>1, <1>2, <1>5, <3>1
    <3>3. history'[i] = longer[i + n + 1 - m]
      BY <1>4, <3>1, <3>2
    <3> QED
      BY <1>2, <3>1, <3>3
  <2> QED
    BY <2>1, <2>2
<1>7. m <= HistoryLimit
  BY <1>4
<1>8. m = Len(history')
  OBVIOUS
<1> HIDE DEF m
<1>9. Appended(history, history', Entry(g), n, m)
  BY <1>5, <1>6 DEF Appended
<1>10. m \in Nat \ {0}
  BY <1>5
<1> QED
  BY <1>1, <1>7, <1>8, <1>9, <1>10

LEMMA RevealSeals ==
  ASSUME TypeOK, round > 0, SealedBefore, NEW g \in Placements, NEW scores,
         RevealRound(g, scores), UNCHANGED board
  PROVE  HistorySealed'
<1>1. PICK n \in Nat, m \in Nat \ {0} :
           /\ m = Len(history') /\ m <= HistoryLimit
           /\ Appended(history, history', Entry(g), n, m)
  BY RevealAppends
<1>2. n \in Nat /\ m \in Nat /\ m >= 1 /\ m <= n + 1
  BY <1>1 DEF Appended
<1>3. /\ DOMAIN history = 1..n /\ DOMAIN history' = 1..m
      /\ m = Len(history') /\ m <= HistoryLimit
      /\ history'[m] = Entry(g)
      /\ \A i \in 1..(m - 1) : history'[i] = history[i + n + 1 - m]
  BY <1>1 DEF Appended
<1>4. Entry(g).round = round /\ Entry(g).target = target /\ Entry(g).axes = axes /\ Entry(g).hint = hint
  BY DEF Entry
<1>5. \A i \in 1..n : history[i].round < round
  BY <1>3 DEF SealedBefore
<1>6. \A i \in 1..n : history[i].round \in Int
  BY <1>3, EntryRounds DEF TypeOK
<1>7. round \in Int
  BY GameConstants DEF TypeOK
<1>8. \A i \in 1..m : history'[i].round <= round
  <2>1. ASSUME NEW i \in 1..m
        PROVE  history'[i].round <= round
    <3>1. CASE i = m
      BY <1>3, <1>4, <1>7, <3>1
    <3>2. CASE i # m
      <4>1. i \in 1..(m - 1) /\ i + n + 1 - m \in 1..n
        BY <1>2, <3>2
      <4> QED
        BY <1>3, <1>5, <1>6, <1>7, <4>1
    <3> QED
      BY <3>1, <3>2
  <2> QED
    BY <2>1
<1>9. \A i, j \in 1..m : i < j => history'[i].round < history'[j].round
  <2>1. ASSUME NEW i \in 1..m, NEW j \in 1..m, i < j
        PROVE  history'[i].round < history'[j].round
    <3>1. i \in 1..(m - 1) /\ i + n + 1 - m \in 1..n
      BY <1>2, <2>1
    <3>2. CASE j = m
      BY <1>3, <1>4, <1>5, <3>1, <3>2
    <3>3. CASE j # m
      <4>1. j \in 1..(m - 1) /\ j + n + 1 - m \in 1..n /\ i + n + 1 - m < j + n + 1 - m
        BY <1>2, <2>1, <3>3
      <4> QED
        BY <1>3, <3>1, <4>1 DEF SealedBefore, IsOrdered
    <3> QED
      BY <3>2, <3>3
  <2> QED
    BY <2>1
<1>10. UNCHANGED <<round, axes, target, hint>>
  BY DEF board
<1>11. phase' = "REVEAL"
  BY DEF RevealRound
<1>12. IsOrdered(history')
  BY <1>3, <1>9 DEF IsOrdered
<1>13. LastIsCurrent(history)'
  BY <1>3, <1>4, <1>10 DEF LastIsCurrent
<1> QED
  BY <1>3, <1>8, <1>10, <1>11, <1>12, <1>13 DEF HistorySealed, Running

LEMMA SealedStep ==
  ASSUME TypeInv, HistorySealed, [ServedNext]_vars
  PROVE  HistorySealed'
<1>1. phase = "GUESS" => SealedBefore /\ round > 0
  BY DEF HistorySealed, Running, SealedBefore, TypeInv, RoundIsOpen
<1>2. ASSUME UNCHANGED <<phase, board, history>>
      PROVE  HistorySealed'
  BY <1>2 DEF HistorySealed, IsOrdered, LastIsCurrent, Running, board
<1>3. ASSUME NEW id \in PlayerIDs, NEW n \in Names \cup {NoName}, AddPlayer(id, n)
      PROVE  HistorySealed'
  BY <1>2, <1>3 DEF AddPlayer
<1>4. ASSUME NEW id \in PlayerIDs, NEW n \in Names \cup {NoName}, Rename(id, n)
      PROVE  HistorySealed'
  BY <1>2, <1>4 DEF Rename
<1>5. ASSUME NEW id \in PlayerIDs, Disconnect(id)
      PROVE  HistorySealed'
  <2>1. UNCHANGED board /\ guesses \in Placements
    BY <1>5 DEF Disconnect, TypeInv, TypeOK, Placements
  <2>2. CASE phase = "GUESS" /\ RevealRound(guesses, score)
    BY <1>1, <2>1, <2>2, RevealSeals DEF TypeInv
  <2>3. CASE UNCHANGED <<phase, history>>
    BY <1>2, <2>1, <2>3
  <2> QED
    BY <1>5, <2>2, <2>3 DEF Disconnect, MaybeAutoReveal
<1>6. ASSUME StartRound
      PROVE  HistorySealed'
  <2>1. phase' = "HINT" /\ round' = round + 1 /\ history' = history /\ round \in Int
    BY <1>6, GameConstants DEF StartRound, TypeInv, TypeOK
  <2>2. \A i \in DOMAIN history : history[i].round \in Int
    BY EntryRounds DEF TypeInv, TypeOK
  <2> QED
    BY <2>1, <2>2 DEF HistorySealed, IsOrdered, Running
<1>7. ASSUME NEW id \in PlayerIDs, RedrawScales(id)
      PROVE  HistorySealed'
  BY <1>7 DEF RedrawScales, MayHint, HistorySealed, IsOrdered, Running
<1>8. ASSUME NEW id \in PlayerIDs, NEW h \in Hints \cup {NoHint}, SubmitHint(id, h)
      PROVE  HistorySealed'
  BY <1>8 DEF SubmitHint, MayHint, HistorySealed, IsOrdered, Running
<1>9. ASSUME NEW id \in PlayerIDs, NEW p \in GuessPoints, PlaceGuess(id, p)
      PROVE  HistorySealed'
  <2>1. [guesses EXCEPT ![id] = p] \in Placements
    BY <1>9, GameConstants DEF PlaceGuess, MayGuess, TypeInv, TypeOK, Placements, Board
  <2>2. UNCHANGED board /\ phase = "GUESS"
    BY <1>9 DEF PlaceGuess, MayGuess
  <2>3. CASE RevealRound([guesses EXCEPT ![id] = p], score)
    BY <1>1, <2>1, <2>2, <2>3, RevealSeals DEF TypeInv
  <2>4. CASE UNCHANGED <<phase, history>>
    BY <1>2, <2>2, <2>4
  <2> QED
    BY <1>9, <2>3, <2>4 DEF PlaceGuess
<1>10. ASSUME NEW id \in PlayerIDs, Reveal(id)
      PROVE  HistorySealed'
  BY <1>1, <1>10, RevealSeals DEF Reveal, TypeInv, TypeOK, Placements
<1>11. ASSUME Reset
      PROVE  HistorySealed'
  BY <1>11, EmptySeq, GameConstants DEF Reset, HistorySealed, IsOrdered, Running
<1>12. CASE UNCHANGED vars
  BY <1>2, <1>12 DEF vars
<1> QED
  BY <1>3, <1>4, <1>5, <1>6, <1>7, <1>8, <1>9, <1>10, <1>11, <1>12 DEF ServedNext

LEMMA RemovePlayerSeals ==
  ASSUME TypeInv, HistorySealed, NEW id \in PlayerIDs, RemovePlayer(id)
  PROVE  HistorySealed'
<1> DEFINE conn   == [connected EXCEPT ![id] = FALSE]
           scores == [score EXCEPT ![id] = 0]
           left   == [guesses EXCEPT ![id] = NoGuess]
<1>1. UNCHANGED <<round, axes, target, hint>>
  BY DEF RemovePlayer
<1>2. CASE clueGiverID = id /\ phase # "REVEAL"
  <2>1. phase' = "LOBBY" /\ history' = history
    BY <1>2 DEF RemovePlayer, AbandonRound
  <2> QED
    BY <1>1, <2>1 DEF HistorySealed, IsOrdered, Running
<1>3. CASE ~ (clueGiverID = id /\ phase # "REVEAL")
  <2>1. UNCHANGED board /\ left \in Placements /\ MaybeAutoReveal(left, conn, scores)
    BY <1>1, <1>3 DEF RemovePlayer, board, TypeInv, TypeOK, Placements
  <2>2. CASE phase = "GUESS" /\ RevealRound(left, scores)
    <3>1. SealedBefore /\ round > 0
      BY <2>2 DEF HistorySealed, Running, SealedBefore, TypeInv, RoundIsOpen
    <3> QED
      BY <2>1, <2>2, <3>1, RevealSeals DEF TypeInv
  <2>3. CASE UNCHANGED <<phase, history>>
    BY <1>1, <2>3 DEF HistorySealed, IsOrdered, LastIsCurrent, Running
  <2> QED
    BY <2>1, <2>2, <2>3 DEF MaybeAutoReveal
<1> QED
  BY <1>2, <1>3

(***************************************************************************)
(* For every HistoryLimit the history stays sealed: nothing of a running   *)
(* round is in it, and after the reveal its last entry is the round on the *)
(* board, although old entries fall out (reveal, StartRound, Reset,        *)
(* RemovePlayer).                                                          *)
(***************************************************************************)
THEOREM GameHistorySealed == Spec => []HistorySealed
<1>1. Init => HistorySealed
  BY EmptySeq, GameConstants DEF Init, HistorySealed, IsOrdered, Running
<1>2. TypeInv /\ HistorySealed /\ [Next]_vars => (TypeInv /\ HistorySealed)'
  BY GameTypeStep, SealedStep, RemovePlayerSeals DEF Next
<1> QED
  BY <1>1, <1>2, TypeInvInit, PTL DEF Spec

-----------------------------------------------------------------------------
(***************************************************************************)
(* The scores.                                                             *)
(***************************************************************************)
LEMMA RevealScores ==
  ASSUME TypeInv, NEW g \in Placements, clueGiverID \notin Guessers(g),
         NEW scores \in [PlayerIDs -> Nat], RevealRound(g, scores), NEW p \in PlayerIDs
  PROVE  score'[p] \in scores[p]..(scores[p] + MaxPoints)
<1>1. score'[p] = scores[p] + Gain(g, p)
  BY DEF RevealRound
<1>2. Gain(g, p) \in Nat /\ Gain(g, p) <= MaxPoints
  BY GainType DEF TypeInv, TypeOK
<1>3. scores[p] \in Nat
  OBVIOUS
<1> QED
  BY <1>1, <1>2, <1>3 DEF MaxPoints

LEMMA RevealIsScoreStep ==
  ASSUME TypeInv, NEW g \in Placements, clueGiverID \notin Guessers(g),
         RevealRound(g, score), phase = "GUESS"
  PROVE  ScoreStep
<1>1. \A p \in PlayerIDs : score'[p] \in score[p]..(score[p] + MaxPoints)
  BY RevealScores DEF TypeInv, TypeOK
<1> QED
  BY <1>1 DEF ScoreStep, RevealRound

LEMMA ScoreStepLemma ==
  ASSUME TypeInv, RolesKept, [ServedNext]_vars
  PROVE  ScoreStep
<1>1. ASSUME UNCHANGED score
      PROVE  ScoreStep
  BY <1>1 DEF ScoreStep
<1>2. guesses \in Placements /\ clueGiverID \notin Guessers(guesses)
  BY DEF TypeInv, TypeOK, Placements, RolesKept
<1>3. ASSUME NEW id \in PlayerIDs, Disconnect(id)
      PROVE  ScoreStep
  <2>1. CASE phase = "GUESS" /\ RevealRound(guesses, score)
    BY <1>2, <2>1, RevealIsScoreStep
  <2> QED
    BY <1>1, <1>3, <2>1 DEF Disconnect, MaybeAutoReveal
<1>4. ASSUME NEW id \in PlayerIDs, NEW p \in GuessPoints, PlaceGuess(id, p)
      PROVE  ScoreStep
  <2> DEFINE placed == [guesses EXCEPT ![id] = p]
  <2>1. placed \in Placements
    BY <1>4, GameConstants DEF PlaceGuess, MayGuess, TypeInv, TypeOK, Placements, Board
  <2>2. clueGiverID \notin Guessers(placed)
    BY <1>2, <1>4 DEF PlaceGuess, MayGuess, Guessers, Placements
  <2>3. RevealRound(placed, score) \/ UNCHANGED score
    BY <1>4 DEF PlaceGuess
  <2>4. phase = "GUESS"
    BY <1>4 DEF PlaceGuess, MayGuess
  <2> HIDE DEF placed
  <2> QED
    BY <1>1, <2>1, <2>2, <2>3, <2>4, RevealIsScoreStep
<1>5. ASSUME NEW id \in PlayerIDs, Reveal(id)
      PROVE  ScoreStep
  BY <1>2, <1>5, RevealIsScoreStep DEF Reveal
<1>6. ASSUME Reset
      PROVE  ScoreStep
  BY <1>6 DEF Reset, ScoreStep
<1> QED
  BY <1>1, <1>3, <1>4, <1>5, <1>6
  DEF ServedNext, AddPlayer, Rename, StartRound, RedrawScales, SubmitHint, vars

\* The points of a removed player are gone, whether or not the round is revealed then.
LEMMA RemovePlayerScores ==
  ASSUME TypeInv, RolesKept, NEW id \in PlayerIDs, RemovePlayer(id)
  PROVE  ScoreStep
<1> DEFINE conn   == [connected EXCEPT ![id] = FALSE]
           scores == [score EXCEPT ![id] = 0]
           left   == [guesses EXCEPT ![id] = NoGuess]
<1>1. /\ scores \in [PlayerIDs -> Nat] /\ left \in Placements
      /\ scores[id] = 0 /\ left[id] = NoGuess
      /\ \A p \in PlayerIDs \ {id} : scores[p] = score[p]
  BY DEF TypeInv, TypeOK, Placements
<1>2. CASE phase = "GUESS" /\ clueGiverID # id /\ RevealRound(left, scores)
  <2>1. \A p \in PlayerIDs : left[p] # NoGuess => guesses[p] # NoGuess
    BY DEF TypeInv, TypeOK
  <2>2. clueGiverID \notin Guessers(left)
    BY <2>1 DEF RolesKept, Guessers
  <2> HIDE DEF left, scores
  <2>3. score'[id] = 0
    <3>1. Gain(left, id) = 0
      BY <1>1, <1>2 DEF Gain, Guessers
    <3> QED
      BY <1>1, <1>2, <3>1 DEF RevealRound
  <2>4. \A p \in PlayerIDs \ {id} : score'[p] \in score[p]..(score[p] + MaxPoints)
    BY <1>1, <1>2, <2>2, RevealScores
  <2>5. phase' = "REVEAL"
    BY <1>2 DEF RevealRound
  <2> QED
    BY <1>2, <2>3, <2>4, <2>5 DEF ScoreStep
<1>3. CASE score' = scores
  BY <1>1, <1>3 DEF ScoreStep
<1> QED
  BY <1>2, <1>3 DEF RemovePlayer, AbandonRound, MaybeAutoReveal

(***************************************************************************)
(* However many guess, a score only moves when a round is revealed, by at  *)
(* most MaxPoints, or falls back to 0: the clue giver, who has no guess of *)
(* his own, earns the bonus alone (reveal, PlaceGuess, Reset,              *)
(* RemovePlayer).                                                          *)
(***************************************************************************)
THEOREM GameScores == Spec => ScoresMoveAtReveal
<1>1. TypeInv /\ RolesKept /\ [Next]_vars => [ScoreStep]_vars
  BY ScoreStepLemma, RemovePlayerScores DEF Next
<1> QED
  BY <1>1, RolesAlways, PTL DEF Spec, ScoresMoveAtReveal

-----------------------------------------------------------------------------
(***************************************************************************)
(* The order of turns.  Nobody waits twice in the stream, and while a      *)
(* round is open somebody else than its clue giver waits first.            *)
(***************************************************************************)
TurnInv ==
  /\ NobodyWaitsTwice(rotation)
  /\ phase # "LOBBY" => Waiting(rotation) >= 1 /\ ToCome(rotation)[1] # clueGiverID

LEMMA FreshOrder == NobodyWaitsTwice(NewRotation)
BY DEF NobodyWaitsTwice, NewRotation, Waiting

LEMMA PresentGroup ==
  ASSUME TypeInv, StartRound
  PROVE  /\ ConnectedIDs \in SUBSET players /\ IsFiniteSet(ConnectedIDs)
         /\ Cardinality(ConnectedIDs) >= 2
         /\ IsRotation(rotation, players)
BY FiniteGroup DEF ConnectedIDs, TypeInv, TypeOK, StartRound, MayStart, MinPlayers

LEMMA StartRoundTurns ==
  ASSUME TypeInv, TurnInv, StartRound
  PROVE  TurnInv'
<1>1. PICK turn \in Turns(rotation, ConnectedIDs) :
        clueGiverID' = turn.player /\ rotation' = turn.rotation
  BY DEF StartRound
<1>2. /\ NobodyWaitsTwice(turn.rotation) /\ Waiting(turn.rotation) >= 1
      /\ ToCome(turn.rotation)[1] # turn.player
  BY PresentGroup, TurnIsNotRepeated DEF TurnInv
<1> QED
  BY <1>1, <1>2 DEF TurnInv

\* Of what a lobby calls, only a start and a reset touch the order and the clue giver.
LEMMA TurnStep ==
  ASSUME TypeInv, TurnInv, [ServedNext]_vars
  PROVE  TurnInv'
<1>1. ASSUME UNCHANGED <<rotation, clueGiverID>>, phase' # "LOBBY" => phase # "LOBBY"
      PROVE  TurnInv'
  BY <1>1 DEF TurnInv
<1>2. ASSUME NEW id \in PlayerIDs, NEW n \in Names \cup {NoName}, AddPlayer(id, n)
      PROVE  TurnInv'
  BY <1>1, <1>2 DEF AddPlayer, board, deal
<1>3. ASSUME NEW id \in PlayerIDs, NEW n \in Names \cup {NoName}, Rename(id, n)
      PROVE  TurnInv'
  BY <1>1, <1>3 DEF Rename, board, deal
<1>4. ASSUME NEW id \in PlayerIDs, Disconnect(id)
      PROVE  TurnInv'
  BY <1>1, <1>4, AutoRevealPhase DEF Disconnect, board, deal
<1>5. ASSUME NEW id \in PlayerIDs, RedrawScales(id)
      PROVE  TurnInv'
  BY <1>1, <1>5 DEF RedrawScales, deal
<1>6. ASSUME NEW id \in PlayerIDs, NEW h \in Hints \cup {NoHint}, SubmitHint(id, h)
      PROVE  TurnInv'
  BY <1>1, <1>6 DEF SubmitHint, MayHint, deal
<1>7. ASSUME NEW id \in PlayerIDs, NEW p \in GuessPoints, PlaceGuess(id, p)
      PROVE  TurnInv'
  BY <1>1, <1>7 DEF PlaceGuess, MayGuess, board, deal
<1>8. ASSUME NEW id \in PlayerIDs, Reveal(id)
      PROVE  TurnInv'
  BY <1>1, <1>8 DEF Reveal, board, deal
<1>9. ASSUME Reset
      PROVE  TurnInv'
  BY <1>9, FreshOrder DEF Reset, TurnInv
<1>10. CASE UNCHANGED vars
  BY <1>1, <1>10 DEF vars, board, deal
<1> QED
  BY <1>2, <1>3, <1>4, <1>5, <1>6, <1>7, <1>8, <1>9, <1>10, StartRoundTurns DEF ServedNext

LEMMA TurnInit == Init => TurnInv
BY FreshOrder DEF Init, TurnInv

(***************************************************************************)
(* With any number of players and any threshold, whoever is announced as   *)
(* the next clue giver is a known player and not the one who is on: never  *)
(* the same player twice in a row (rotation.go, ensure, Upcoming).         *)
(***************************************************************************)
THEOREM ServedSomeoneElse == ServedSpec => []SomeoneElseIsNext
<1>1. TypeInv /\ TurnInv /\ [ServedNext]_vars => (TypeInv /\ TurnInv)'
  BY TypeInvStep, TurnStep
<1>2. TypeInv /\ TurnInv => SomeoneElseIsNext
  <2> SUFFICES ASSUME TypeInv, TurnInv, phase # "LOBBY"
               PROVE  Upcoming(rotation) \in players \ {clueGiverID}
    BY DEF SomeoneElseIsNext
  <2>1. /\ Waiting(rotation) \in Nat
        /\ ToCome(rotation) \in Seq(players) /\ Len(ToCome(rotation)) = Waiting(rotation)
        /\ \A i \in 1..Waiting(rotation) : ToCome(rotation)[i] = rotation.order[rotation.index + i]
    BY StreamParts DEF TypeInv
  <2>2. 1 \in 1..Waiting(rotation) /\ ToCome(rotation)[1] # clueGiverID
    BY <2>1 DEF TurnInv
  <2>3. Upcoming(rotation) = ToCome(rotation)[1]
    BY <2>1, <2>2 DEF Upcoming
  <2> QED
    BY <2>1, <2>2, <2>3, ElementOfSeq
<1> QED
  BY <1>1, <1>2, TypeInvInit, TurnInit, PTL DEF ServedSpec

-----------------------------------------------------------------------------
(***************************************************************************)
(* The announced player, with no more than a stream of known players.      *)
(***************************************************************************)
LEMMA StartTakesTheNext ==
  ASSUME TypeInv, StartRound
  PROVE  NextStep
<1>1. PICK turn \in Turns(rotation, ConnectedIDs) :
        clueGiverID' = turn.player /\ rotation' = turn.rotation
  BY DEF StartRound
<1>4. Waiting(rotation) >= 1 => turn.player = ToCome(rotation)[1]
  BY PresentGroup, TurnToCome
<1>5. Upcoming(rotation) # NoPlayer =>
        /\ Waiting(rotation) >= 1
        /\ Upcoming(rotation) = ToCome(rotation)[1]
  <2>1. /\ Waiting(rotation) \in Nat
        /\ \A i \in 1..Waiting(rotation) : ToCome(rotation)[i] = rotation.order[rotation.index + i]
    BY PresentGroup, StreamParts
  <2> QED
    BY <2>1 DEF Upcoming
<1> QED
  BY <1>1, <1>4, <1>5 DEF NextStep

LEMMA NextStepLemma ==
  ASSUME TypeInv, [Next]_vars
  PROVE  NextStep
<1>1. ASSUME round' = round \/ round' = 0
      PROVE  NextStep
  <2>1. round \in Nat
    BY GameConstants DEF TypeInv, TypeOK
  <2> QED
    BY <1>1, <2>1 DEF NextStep
<1> QED
  BY <1>1, StartTakesTheNext
  DEF Next, ServedNext, AddPlayer, Rename, Disconnect, RedrawScales, SubmitHint, PlaceGuess,
      Reveal, Reset, RemovePlayer, board, vars

(***************************************************************************)
(* The announcement is kept: the next round is given to the player the     *)
(* snapshots announced, also when the stream was refilled or trimmed in    *)
(* between, and whoever came, left or was removed (StartRound, Next,       *)
(* Remove).                                                                *)
(***************************************************************************)
THEOREM GameAnnouncement == Spec => AnnouncedNextGoesNext
<1>1. TypeInv /\ [Next]_vars => TypeInv' /\ [NextStep]_vars
  BY GameTypeStep, NextStepLemma
<1> QED
  BY <1>1, TypeInvInit, PTL DEF Spec, AnnouncedNextGoesNext

-----------------------------------------------------------------------------
(***************************************************************************)
(* Once the hint is out, no move of the game changes the words, the        *)
(* target, the hint or the clue giver of the round but a reset, or the     *)
(* removal of that clue giver, which ends it (all exported methods).       *)
(***************************************************************************)
THEOREM GameBoardFrozen == Spec => BoardFrozenWhileGuessing
<1>1. [Next]_vars => [BoardStep]_vars
  BY DEF Next, ServedNext, AddPlayer, Rename, Disconnect, StartRound, MayStart, RedrawScales, SubmitHint, MayHint,
         PlaceGuess, MayGuess, Reveal, Reset, RemovePlayer, AbandonRound, board, BoardStep, vars
<1> QED
  BY <1>1, PTL DEF Spec, BoardFrozenWhileGuessing
-----------------------------------------------------------------------------
(***************************************************************************)
(* The accounts.                                                           *)
(***************************************************************************)

\* What reveal puts into an entry: there are guesses, and the bonus is theirs.
Booked(e) ==
  /\ e.results # {} /\ IsFiniteSet(e.results)
  /\ \A r \in e.results : r.points \in 0..MaxPoints
  /\ e.clueGiverPoints = ClueGiverPoints(e.results)

HistoryBooked == \A i \in DOMAIN history : Booked(history[i])

LEMMA EntryIsBooked ==
  ASSUME TypeOK, NEW g \in Placements, Guessers(g) # {}
  PROVE  Booked(Entry(g))
<1>1. ResultsOf(g) \in SUBSET Result /\ IsFiniteSet(ResultsOf(g))
  BY ResultsType DEF TypeOK
<1>2. ResultsOf(g) # {}
  BY DEF ResultsOf
<1>3. \A r \in ResultsOf(g) : r.points \in 0..MaxPoints
  BY <1>1 DEF Result
<1>4. /\ Entry(g).results = ResultsOf(g)
      /\ Entry(g).clueGiverPoints = ClueGiverPoints(ResultsOf(g))
  BY DEF Entry
<1> QED
  BY <1>1, <1>2, <1>3, <1>4 DEF Booked

LEMMA RevealBooks ==
  ASSUME TypeOK, round > 0, HistoryBooked, NEW g \in Placements, Guessers(g) # {}, NEW scores,
         RevealRound(g, scores)
  PROVE  HistoryBooked'
<1>1. PICK n \in Nat, m \in Nat \ {0} : Appended(history, history', Entry(g), n, m)
  BY RevealAppends
<1>2. /\ DOMAIN history = 1..n /\ DOMAIN history' = 1..m /\ m <= n + 1
      /\ history'[m] = Entry(g)
      /\ \A i \in 1..(m - 1) : history'[i] = history[i + n + 1 - m]
  BY <1>1 DEF Appended
<1>3. ASSUME NEW i \in 1..m
      PROVE  Booked(history'[i])
  <2>1. CASE i = m
    BY <1>2, <2>1, EntryIsBooked
  <2>2. CASE i # m
    <3>1. m <= n + 1
      BY <1>2
    <3>2. i \in 1..(m - 1) /\ i + n + 1 - m \in 1..n
      BY <2>2, <3>1
    <3> QED
      BY <1>2, <3>2 DEF HistoryBooked
  <2> QED
    BY <2>1, <2>2
<1> QED
  BY <1>2, <1>3 DEF HistoryBooked

(***************************************************************************)
(* What the calls of a lobby do to the books: nothing, an evaluation of    *)
(* the guesses that are there, or a reset.                                 *)
(***************************************************************************)
Evaluated ==
  \E g \in Placements :
    /\ phase = "GUESS" /\ UNCHANGED board
    /\ Guessers(g) # {} /\ clueGiverID \notin Guessers(g)
    /\ RevealRound(g, score)

LEMMA BookStep ==
  ASSUME TypeInv, RolesKept, [ServedNext]_vars
  PROVE  \/ UNCHANGED <<score, history>>
         \/ Evaluated
         \/ score' = [p \in PlayerIDs |-> 0] /\ history' = <<>>
<1>1. guesses \in Placements /\ clueGiverID \notin Guessers(guesses)
  BY DEF TypeInv, TypeOK, Placements, RolesKept
<1>2. ASSUME NEW id \in PlayerIDs, Disconnect(id)
      PROVE  UNCHANGED <<score, history>> \/ Evaluated
  BY <1>1, <1>2 DEF Disconnect, MaybeAutoReveal, AllGuessesIn, Evaluated
<1>3. ASSUME NEW id \in PlayerIDs, NEW p \in GuessPoints, PlaceGuess(id, p)
      PROVE  UNCHANGED <<score, history>> \/ Evaluated
  <2> DEFINE placed == [guesses EXCEPT ![id] = p]
  <2>1. placed \in Placements
    BY <1>1, <1>3, GameConstants DEF PlaceGuess, MayGuess, Placements, Board
  <2>2. clueGiverID \notin Guessers(placed)
    BY <1>1, <1>3 DEF PlaceGuess, MayGuess, Guessers, Placements
  <2> QED
    BY <1>3, <2>1, <2>2 DEF PlaceGuess, MayGuess, AllGuessesIn, Evaluated
<1>4. ASSUME NEW id \in PlayerIDs, Reveal(id)
      PROVE  Evaluated
  BY <1>1, <1>4 DEF Reveal, Evaluated
<1> QED
  BY <1>2, <1>3, <1>4
  DEF ServedNext, AddPlayer, Rename, StartRound, RedrawScales, SubmitHint, Reset, vars

LEMMA BookedStep ==
  ASSUME TypeInv, RolesKept, HistoryBooked, [Next]_vars
  PROVE  HistoryBooked'
<1>1. phase = "GUESS" => round > 0
  BY DEF TypeInv, RoundIsOpen
<1>2. ASSUME UNCHANGED history
      PROVE  HistoryBooked'
  BY <1>2 DEF HistoryBooked
<1>3. CASE [ServedNext]_vars
  <2>1. CASE Evaluated
    BY <1>1, <2>1, RevealBooks DEF Evaluated, TypeInv
  <2>2. CASE history' = <<>>
    BY <2>2 DEF HistoryBooked
  <2> QED
    BY <1>2, <1>3, <2>1, <2>2, BookStep
<1>4. ASSUME NEW id \in PlayerIDs, RemovePlayer(id)
      PROVE  HistoryBooked'
  <2> DEFINE conn   == [connected EXCEPT ![id] = FALSE]
             scores == [score EXCEPT ![id] = 0]
             left   == [guesses EXCEPT ![id] = NoGuess]
  <2>1. left \in Placements
    BY DEF TypeInv, TypeOK, Placements
  <2>2. UNCHANGED history \/ (phase = "GUESS" /\ AllGuessesIn(left, conn) /\ RevealRound(left, scores))
    BY <1>4 DEF RemovePlayer, AbandonRound, MaybeAutoReveal
  <2>3. CASE phase = "GUESS" /\ AllGuessesIn(left, conn) /\ RevealRound(left, scores)
    BY <1>1, <2>1, <2>3, RevealBooks DEF AllGuessesIn, TypeInv
  <2> QED
    BY <1>2, <2>2, <2>3
<1> QED
  BY <1>3, <1>4 DEF Next

LEMMA PointsPlacedAreCounted ==
  ASSUME NEW R, IsFiniteSet(R), \A r \in R : r.points \in 0..MaxPoints
  PROVE  PointsPlaced(R) = TotalPoints(R)
BY PointsAreCounted DEF PointsPlaced, SumFunction

(***************************************************************************)
(* The bonus of every clue giver is the nearest integer to the average of  *)
(* the guesses of that round, for every group and every board, and also    *)
(* when a departure or a removal ended the round (reveal).                 *)
(***************************************************************************)
THEOREM GameBonus == Spec => []BonusIsTheAverage
<1>1. Init => HistoryBooked
  BY DEF Init, HistoryBooked
<1>2. TypeInv /\ RolesKept /\ HistoryBooked /\ [Next]_vars => HistoryBooked'
  BY BookedStep
<1>3. HistoryBooked => BonusIsTheAverage
  <2>1. ASSUME NEW e, Booked(e)
        PROVE  /\ Cardinality(e.results) > 0
               /\ 2 * (Cardinality(e.results) * e.clueGiverPoints - PointsPlaced(e.results))
                    \in (-Cardinality(e.results) + 1)..Cardinality(e.results)
    <3> DEFINE n == Cardinality(e.results)
               total == TotalPoints(e.results)
    <3>1. n \in Nat \ {0}
      BY <2>1, FS_CardinalityType, FS_EmptySet DEF Booked
    <3>2. total \in Nat
      BY <2>1, ScoringIsDisjoint DEF Booked, TotalPoints
    <3>3. PointsPlaced(e.results) = total
      BY <2>1, PointsPlacedAreCounted DEF Booked
    <3>4. e.clueGiverPoints = RoundedAverage(total, n)
      BY <2>1 DEF Booked, ClueGiverPoints
    <3> HIDE DEF n, total
    <3>5. n > 0 /\ 2 * (n * RoundedAverage(total, n) - total) \in (-n + 1)..n
      BY <3>1, <3>2, AverageIsNearest
    <3> QED
      BY <3>3, <3>4, <3>5 DEF n
  <2> QED
    BY <2>1 DEF HistoryBooked, BonusIsTheAverage
<1> QED
  BY <1>1, <1>2, <1>3, RolesAlways, PTL DEF Spec
(***************************************************************************)
(* What the players gain in an evaluation is what its entry says.          *)
(***************************************************************************)
LEMMA GuessesPay ==
  ASSUME TypeOK, NEW g \in Placements
  PROVE  SumFunctionOnSet([p \in PlayerIDs |-> IF p \in Guessers(g) THEN PointsOf(g, p) ELSE 0],
                          PlayerIDs)
           = PointsPlaced(ResultsOf(g))
<1> DEFINE paid == [p \in PlayerIDs |-> IF p \in Guessers(g) THEN PointsOf(g, p) ELSE 0]
           result == [p \in PlayerIDs |-> [playerId |-> p, name |-> name[p], point |-> g[p],
                                           points |-> PointsOf(g, p)]]
           points == [r \in ResultsOf(g) |-> r.points]
<1>1. /\ IsFiniteSet(PlayerIDs) /\ Guessers(g) \subseteq PlayerIDs
      /\ IsFiniteSet(Guessers(g))
  BY FiniteGroup, GameConstants DEF Guessers
<1>2. \A p \in PlayerIDs : paid[p] \in Int /\ (p \notin Guessers(g) => paid[p] = 0)
  BY PointsOfType DEF TypeOK, MaxPoints
<1>3. SumFunctionOnSet(paid, PlayerIDs) = SumFunctionOnSet(paid, Guessers(g))
  <2> HIDE DEF paid
  <2> QED
    BY <1>1, <1>2, SumOfAPart
<1>4. {result[p] : p \in Guessers(g)} = ResultsOf(g)
  BY <1>1 DEF ResultsOf
<1>5. \A p, q \in Guessers(g) : result[p] = result[q] => p = q
  BY <1>1
<1>6. \A p \in Guessers(g) : points[result[p]] = paid[p]
  <2>1. ASSUME NEW p \in Guessers(g)
        PROVE  points[result[p]] = paid[p]
    <3>1. result[p] \in ResultsOf(g)
      BY <1>4
    <3>2. result[p].points = PointsOf(g, p)
      BY <1>1
    <3>3. points[result[p]] = result[p].points
      BY <3>1
    <3>4. paid[p] = PointsOf(g, p)
      BY <1>1
    <3> QED
      BY <3>2, <3>3, <3>4
  <2> QED
    BY <2>1
<1> HIDE DEF paid, result, points
<1>7. SumFunctionOnSet(points, {result[p] : p \in Guessers(g)})
        = SumFunctionOnSet(paid, Guessers(g))
  BY <1>1, <1>2, <1>5, <1>6, SumOfRenamed
<1>8. PointsPlaced(ResultsOf(g)) = SumFunctionOnSet(points, ResultsOf(g))
  BY DEF PointsPlaced, SumFunction, points
<1> QED
  BY <1>3, <1>4, <1>7, <1>8 DEF paid

LEMMA RevealPays ==
  ASSUME TypeOK, NEW g \in Placements, clueGiverID \in players, RevealRound(g, score)
  PROVE  /\ SumFunction(score) \in Int
         /\ EntryPoints(Entry(g)) \in Int
         /\ SumFunction(score') = SumFunction(score) + EntryPoints(Entry(g))
<1> DEFINE bonus == ClueGiverPoints(ResultsOf(g))
           paid  == [p \in PlayerIDs |-> IF p \in Guessers(g) THEN PointsOf(g, p) ELSE 0]
           thanked == [p \in PlayerIDs |-> IF p = clueGiverID THEN bonus ELSE 0]
           gain  == [p \in PlayerIDs |-> Gain(g, p)]
           Sum(f) == SumFunctionOnSet(f, PlayerIDs)
<1>1. IsFiniteSet(PlayerIDs) /\ clueGiverID \in PlayerIDs
  BY GameConstants DEF TypeOK
<1>2. bonus \in Int
  <2>1. IsFiniteSet(ResultsOf(g))
    BY ResultsType DEF TypeOK
  <2>2. ClueGiverPoints(ResultsOf(g)) \in 0..MaxPoints
    BY <2>1, ClueGiverPointsType
  <2> QED
    BY <2>2 DEF MaxPoints
<1>3. \A p \in PlayerIDs : p \in Guessers(g) => PointsOf(g, p) \in Int
  <2>1. \A p \in Guessers(g) : PointsOf(g, p) \in 0..MaxPoints
    BY PointsOfType DEF TypeOK
  <2> QED
    BY <2>1 DEF MaxPoints
<1>4. \A p \in PlayerIDs : gain[p] = paid[p] + thanked[p] /\ paid[p] \in Int /\ thanked[p] \in Int
  <2> HIDE DEF bonus
  <2>1. \A p \in PlayerIDs :
          Gain(g, p) = (IF p \in Guessers(g) THEN PointsOf(g, p) ELSE 0)
                       + (IF p = clueGiverID THEN bonus ELSE 0)
    BY DEF Gain, bonus
  <2> QED
    BY <1>2, <1>3, <2>1
<1>5. \A p \in PlayerIDs :
        score'[p] = score[p] + gain[p] /\ score[p] \in Int /\ gain[p] \in Int
  <2>1. \A p \in PlayerIDs : gain[p] \in Int
    BY <1>4
  <2>2. \A p \in PlayerIDs : score'[p] = score[p] + gain[p]
    BY DEF RevealRound
  <2> HIDE DEF gain
  <2> QED
    BY <2>1, <2>2 DEF TypeOK
<1>6. Sum(thanked) = bonus
  <2>1. Sum(thanked) = SumFunctionOnSet(thanked, {clueGiverID})
    <3>1. \A p \in PlayerIDs : thanked[p] \in Int /\ (p \notin {clueGiverID} => thanked[p] = 0)
      BY <1>2
    <3>2. {clueGiverID} \subseteq PlayerIDs
      BY <1>1
    <3> HIDE DEF thanked
    <3> QED
      BY <1>1, <3>1, <3>2, SumOfAPart
  <2>2. SumFunctionOnSet(thanked, {clueGiverID})
          = thanked[clueGiverID] + SumFunctionOnSet(thanked, {clueGiverID} \ {clueGiverID})
    <3>1. IsFiniteSet({clueGiverID}) /\ \A p \in {clueGiverID} : thanked[p] \in Int
      BY <1>1, <1>2, FS_Singleton
    <3> HIDE DEF thanked
    <3> QED
      BY <3>1, SumWithout
  <2>3. {clueGiverID} \ {clueGiverID} = {}
    OBVIOUS
  <2>4. thanked[clueGiverID] = bonus
    BY <1>1
  <2> HIDE DEF thanked, bonus
  <2> QED
    BY <1>2, <2>1, <2>2, <2>3, <2>4, SumOfNothing
<1>7. Sum(paid) = PointsPlaced(ResultsOf(g))
  BY GuessesPay
<1> HIDE DEF bonus, paid, thanked, gain
<1>8. Sum(gain) = Sum(paid) + Sum(thanked)
  BY <1>1, <1>4, SumOfSums
<1>9. Sum(score') = Sum(score) + Sum(gain)
  BY <1>1, <1>5, SumOfSums
<1>10. Sum(score) \in Int /\ Sum(paid) \in Int
  <2>1. \A p \in PlayerIDs : score[p] \in Int /\ paid[p] \in Int
    BY <1>4, <1>5
  <2> QED
    BY <1>1, <2>1, SumType
<1>11. EntryPoints(Entry(g)) = Sum(paid) + Sum(thanked)
  BY <1>6, <1>7 DEF EntryPoints, Entry, bonus
<1>12. SumFunction(score) = Sum(score) /\ SumFunction(score') = Sum(score')
  <2>1. DOMAIN score = PlayerIDs /\ DOMAIN score' = PlayerIDs
    BY DEF RevealRound, TypeOK
  <2> QED
    BY <2>1 DEF SumFunction
<1> HIDE DEF Sum
<1> QED
  BY <1>2, <1>6, <1>8, <1>9, <1>10, <1>11, <1>12

(***************************************************************************)
(* The points in the history, and how an entry adds to them as long as no  *)
(* earlier one falls out.                                                  *)
(***************************************************************************)
Booking == SumFunction([i \in DOMAIN history |-> EntryPoints(history[i])])

LEMMA EntryPointsType ==
  ASSUME NEW e, Booked(e)
  PROVE  EntryPoints(e) \in Int
<1>1. PointsPlaced(e.results) = TotalPoints(e.results)
  BY PointsPlacedAreCounted DEF Booked
<1>2. TotalPoints(e.results) \in Int
  BY ScoringIsDisjoint DEF Booked, TotalPoints
<1>3. e.clueGiverPoints \in Int
  BY ClueGiverPointsType DEF Booked, MaxPoints
<1> QED
  BY <1>1, <1>2, <1>3 DEF EntryPoints

LEMMA RevealAddsUp ==
  ASSUME TypeOK, round > 0, SealedBefore, HistoryBooked,
         NEW g \in Placements, Guessers(g) # {}, clueGiverID \in players,
         RevealRound(g, score), ScoresMatchHistory
  PROVE  ScoresMatchHistory'
<1>1. PICK n \in Nat, m \in Nat \ {0} :
        /\ m = Len(history') /\ m <= HistoryLimit
        /\ Appended(history, history', Entry(g), n, m)
  BY RevealAppends
<1>2. /\ DOMAIN history = 1..n /\ DOMAIN history' = 1..m
      /\ history'[m] = Entry(g)
      /\ \A i \in 1..(m - 1) : history'[i] = history[i + n + 1 - m]
  BY <1>1 DEF Appended
<1>3. m <= n + 1 /\ m >= 1 /\ m \in Nat
  BY <1>1 DEF Appended
<1>4. history \in Seq(Entries)
  BY DEF TypeOK
<1>5. \A i \in 1..n : history[i].round \in Int /\ history[i].round >= 1
  <2>1. n = Len(history)
    BY <1>2, <1>4, LenProperties
  <2>2. \A i \in 1..n : history[i] \in Entries
    BY <1>4, <2>1, ElementOfSeq
  <2>3. \A e \in Entries : e.round \in 1..MaxRounds
    BY DEF Entries
  <2> QED
    BY <2>2, <2>3, GameConstants
<1>6. Entry(g).round = round /\ round \in Int
  BY GameConstants DEF Entry, TypeOK
<1>7. ASSUME history'[1].round = 1
      PROVE  m = n + 1 /\ (n > 0 => history[1].round = 1)
  <2>1. ASSUME m # n + 1
        PROVE  FALSE
    <3>1. 1 \in 1..n
      BY <1>3, <2>1
    <3>2. CASE m = 1
      BY <1>2, <1>5, <1>6, <1>7, <3>1, <3>2 DEF SealedBefore
    <3>3. CASE m # 1
      <4>1. 1 \in 1..(m - 1) /\ 1 + n + 1 - m \in 1..n /\ 1 < 1 + n + 1 - m
        BY <1>3, <2>1, <3>3
      <4>2. history'[1] = history[1 + n + 1 - m]
        BY <1>2, <4>1
      <4>3. history[1].round < history[1 + n + 1 - m].round
        BY <1>2, <3>1, <4>1 DEF SealedBefore, IsOrdered
      <4> QED
        BY <1>5, <1>7, <3>1, <4>1, <4>2, <4>3
    <3> QED
      BY <3>2, <3>3
  <2>2. ASSUME n > 0, m = n + 1
        PROVE  history[1].round = 1
    <3>1. 1 \in 1..(m - 1) /\ 1 + n + 1 - m = 1
      BY <2>2
    <3> QED
      BY <1>2, <1>7, <3>1
  <2> QED
    BY <2>1, <2>2
<1>8. SUFFICES ASSUME history' = <<>> \/ history'[1].round = 1
               PROVE  SumFunction(score') = Booking'
  BY DEF ScoresMatchHistory, Booking
<1>9. history'[1].round = 1
  <2>1. history' # <<>>
    BY <1>1, <1>3, EmptySeq
  <2> QED
    BY <1>8, <2>1
<1>10. m = n + 1
  BY <1>7, <1>9
<1>11. SumFunction(score) = Booking
  <2>1. CASE n = 0
    <3>1. history = <<>>
      BY <1>2, <1>4, <2>1, EmptySeq, LenProperties
    <3> QED
      BY <3>1 DEF ScoresMatchHistory, Booking
  <2>2. CASE n > 0
    BY <1>7, <1>9, <2>2 DEF ScoresMatchHistory, Booking
  <2> QED
    BY <2>1, <2>2
<1> DEFINE old == [i \in 1..n |-> EntryPoints(history[i])]
           new == [i \in 1..m |-> EntryPoints(history'[i])]
<1>12. Booking = SumFunctionOnSet(old, 1..n)
  BY <1>2 DEF Booking, SumFunction
<1>13. Booking' = SumFunctionOnSet(new, 1..m)
  BY <1>2 DEF Booking, SumFunction
<1>14. \A i \in 1..n : old[i] \in Int /\ new[i] = old[i]
  <2>1. ASSUME NEW i \in 1..n
        PROVE  old[i] \in Int /\ new[i] = old[i]
    <3>1. i \in 1..(m - 1) /\ i \in 1..m /\ i + n + 1 - m = i
      BY <1>10
    <3>2. history'[i] = history[i]
      BY <1>2, <3>1
    <3>3. EntryPoints(history[i]) \in Int
      BY <1>2, EntryPointsType DEF HistoryBooked
    <3> QED
      BY <3>1, <3>2, <3>3
  <2> QED
    BY <2>1
<1>15. new[m] = EntryPoints(Entry(g)) /\ new[m] \in Int
  <2>1. new[m] = EntryPoints(history'[m])
    BY <1>3
  <2>2. EntryPoints(Entry(g)) \in Int
    BY EntryIsBooked, EntryPointsType
  <2> QED
    BY <1>2, <2>1, <2>2
<1> HIDE DEF old, new
<1>16. SumFunctionOnSet(new, 1..m) = new[m] + SumFunctionOnSet(new, 1..n)
  <2>1. \A i \in 1..m : new[i] \in Int
    BY <1>10, <1>14, <1>15
  <2>2. IsFiniteSet(1..m)
    BY <1>3, FS_Interval
  <2>3. m \in 1..m /\ (1..m) \ {m} = 1..n
    BY <1>3, <1>10
  <2>4. SumFunctionOnSet(new, 1..m) = new[m] + SumFunctionOnSet(new, (1..m) \ {m})
    BY <2>1, <2>2, <2>3, SumWithout
  <2> QED
    BY <2>3, <2>4
<1>17. SumFunctionOnSet(old, 1..n) = SumFunctionOnSet(new, 1..n)
  <2>1. IsFiniteSet(1..n) /\ \A i \in 1..n : old[i] = new[i] /\ old[i] \in Int
    BY <1>14, FS_Interval
  <2> QED
    BY <2>1, SumIsExtensional
<1>18. /\ SumFunction(score) \in Int /\ EntryPoints(Entry(g)) \in Int
       /\ SumFunction(score') = SumFunction(score) + EntryPoints(Entry(g))
  BY RevealPays
<1> QED
  BY <1>11, <1>12, <1>13, <1>15, <1>16, <1>17, <1>18

LEMMA NobodyHasPoints ==
  ASSUME NEW s, s = [p \in PlayerIDs |-> 0], NEW h, h = <<>>
  PROVE  SumFunction(s) = SumFunction([i \in DOMAIN h |-> EntryPoints(h[i])])
<1>1. SumFunctionOnSet(s, PlayerIDs) = SumFunctionOnSet(s, {})
  <2>1. \A p \in PlayerIDs : s[p] \in Int /\ (p \notin {} => s[p] = 0)
    OBVIOUS
  <2> QED
    BY <2>1, GameConstants, SumOfAPart
<1>2. SumFunction(s) = SumFunctionOnSet(s, PlayerIDs)
  BY DEF SumFunction
<1>3. DOMAIN h = {}
  OBVIOUS
<1>4. SumFunction([i \in DOMAIN h |-> EntryPoints(h[i])]) = 0
  BY <1>3, SumOfNothing DEF SumFunction
<1> QED
  BY <1>1, <1>2, <1>4, SumOfNothing

LEMMA AccountStep ==
  ASSUME TypeInv, RolesKept, HistorySealed, HistoryBooked, ScoresMatchHistory, [ServedNext]_vars
  PROVE  ScoresMatchHistory'
<1>1. CASE UNCHANGED <<score, history>>
  BY <1>1 DEF ScoresMatchHistory
<1>2. CASE Evaluated
  <2>1. PICK g \in Placements :
          /\ phase = "GUESS" /\ Guessers(g) # {} /\ RevealRound(g, score)
    BY <1>2 DEF Evaluated
  <2>2. SealedBefore /\ round > 0 /\ clueGiverID \in players
    BY <2>1 DEF HistorySealed, Running, SealedBefore, TypeInv, RoundIsOpen, RolesKept
  <2> QED
    BY <2>1, <2>2, RevealAddsUp DEF TypeInv
<1>3. CASE score' = [p \in PlayerIDs |-> 0] /\ history' = <<>>
  BY <1>3, NobodyHasPoints DEF ScoresMatchHistory
<1> QED
  BY <1>1, <1>2, <1>3, BookStep

(***************************************************************************)
(* The scores and the history are one account, for every number of players *)
(* and every limit of the history: as long as its first round is in it,    *)
(* the scores add up to the points of all its guesses and clue givers.     *)
(* It needs the sealed history: that an entry fell out shows in the number *)
(* of the first one, because the rounds are in order (reveal, Reset).      *)
(***************************************************************************)
THEOREM ServedAccount == ServedSpec => []ScoresMatchHistory
<1>1. Init => HistorySealed /\ HistoryBooked /\ ScoresMatchHistory
  <2>1. Init => HistorySealed
    BY EmptySeq, GameConstants DEF Init, HistorySealed, IsOrdered, Running
  <2>2. Init => HistoryBooked
    BY DEF Init, HistoryBooked
  <2>3. Init => ScoresMatchHistory
    BY NobodyHasPoints DEF Init, ScoresMatchHistory
  <2> QED
    BY <2>1, <2>2, <2>3
<1>2. TypeInv /\ RolesKept /\ HistorySealed /\ HistoryBooked /\ ScoresMatchHistory /\ [ServedNext]_vars
        => (HistorySealed /\ HistoryBooked /\ ScoresMatchHistory)'
  <2>1. TypeInv /\ RolesKept /\ HistoryBooked /\ [ServedNext]_vars => HistoryBooked'
    BY BookedStep DEF Next
  <2> QED
    BY <2>1, SealedStep, AccountStep
<1> QED
  BY <1>1, <1>2, ServedIsAGame, RolesAlways, PTL DEF ServedSpec
=============================================================================
