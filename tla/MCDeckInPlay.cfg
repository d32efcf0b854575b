CONSTANTS
  Unparsable = Unparsable
  Unreadable = Unreadable
  NoPath = NoPath
  NoPair = NoPair
  Launches <- MCLaunches
  EmbeddedScales <- Embedded
  LastOfLongFile = 8
  BlankWords = {"", " "}
  EmptyWord = ""
  Pairs <- MCPairs
  SharedWord <- MCSharedWord
  RecentMemory = 3
SPECIFICATION Spec
INVARIANTS TypeOK FreshWords AxesUnrelated ServesOnlyPlayable NothingIsReplaced
CHECK_DEADLOCK FALSE
