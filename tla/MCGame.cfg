CONSTANTS
  PlayerIDs = {p1, p2, p3}
  NoPlayer = NoPlayer
  Names = {n1}
  DefaultName = n1
  NoName = NoName
  Hints = {h1}
  NoHint = NoHint
  a = a
  b = b
  Pairs <- MCPairs
  NoPair = NoPair
  SharedWord = {}
  RecentMemory = 1
  NoGuess = NoGuess
  Targets <- MCTargets
  GuessPoints <- MCGuessPoints
  HistoryLimit = 1
  MaxRounds = 2
  OrderTrimThreshold = 0
SYMMETRY Symmetry
SPECIFICATION Spec
INVARIANTS TypeOK RolesKept NoCompleteRoundWaits HistorySealed BonusIsTheAverage
PROPERTIES ScoresMoveAtReveal BoardFrozenWhileGuessing AnnouncedNextGoesNext
