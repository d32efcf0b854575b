CONSTANTS
  p1 = p1
  p2 = p2
  p3 = p3
  p4 = p4
  a = a
  b = b
  PlayerIDs = {p1, p2, p3, p4}
  PlayerOf <- MCPlayerOf
  MaxPlayers = 3
  NoPlayer = NoPlayer
  Names = {n1}
  DefaultName = n1
  NoName = NoName
  NoHint = NoHint
  Pairs <- MCPairs
  NoPair = NoPair
  SharedWord = {}
  RecentMemory = 0
  NoGuess = NoGuess
  Absent = Absent
  Targets <- MCTargets
  GuessPoints <- MCGuessPoints
  MaxRounds = 2
  OrderTrimThreshold = 1
  HistoryLimit = 1
  Clients <- MCClients
  Hints = {h1}
  Rounds = 2
  Strays <- MCStrays
SPECIFICATION BotsSpec
INVARIANTS BotsTypeOK NothingLeaks
PROPERTIES BotsFinish
CHECK_DEADLOCK FALSE
