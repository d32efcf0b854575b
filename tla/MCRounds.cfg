CONSTANTS
  p1 = p1
  p2 = p2
  p3 = p3
  p4 = p4
  c1 = c1
  c2 = c2
  c3 = c3
  c4 = c4
  c5 = c5
  a = a
  b = b
  PlayerIDs = {p1, p2, p3, p4}
  Clients = {c1, c2, c3, c4, c5}
  PlayerOf <- MCPlayerOf
  MaxPlayers = 3
  NoPlayer = NoPlayer
  Names = {n1}
  DefaultName = n1
  NoName = NoName
  Hints = {}
  NoHint = NoHint
  Pairs <- MCPairs
  NoPair = NoPair
  SharedWord = {}
  RecentMemory = 0
  NoGuess = NoGuess
  Absent = Absent
  Targets <- MCTargets
  GuessPoints <- MCGuessPoints
  HistoryLimit = 1
  MaxRounds = 2
  OrderTrimThreshold = 1
SYMMETRY Symmetry
SPECIFICATION LobbySpec
PROPERTIES EveryRoundIsCounted
