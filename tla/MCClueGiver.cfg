CONSTANTS
  PlayerIDs = {p1, p2, p3}
  NoPlayer = NoPlayer
  Names = {n1}
  DefaultName = n1
  NoName = NoName
  Hints = {}
  NoHint = NoHint
  a = a
  b = b
  Pairs <- MCPairs
  NoPair = NoPair
  SharedWord = {}
  RecentMemory = 0
  NoGuess = NoGuess
  Targets <- MCTargets
  GuessPoints <- MCGuessPoints
  HistoryLimit = 2
  MaxRounds = 3
  OrderTrimThreshold = 1
SYMMETRY Symmetry
SPECIFICATION ServedSpec
PROPERTIES ClueGiverIsPresent
