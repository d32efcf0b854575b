CONSTANTS
  Lobbies = {A, B}
  NoLobby = NoLobby
  Sockets = {s1, s2}
  NoSocket = NoSocket
  NoFrame = NoFrame
  NoClaim = NoClaim
  MaxRounds = 2
  MaxInFlight = 1
  MaxTrouble = 2
  MaxRequests = 1
  MaxIDs = 2
SPECIFICATION Spec
INVARIANTS WebClientTypeOK IsInOneLobby OneSocketUnlessHasty LockedOutOnlyByLoss
PROPERTIES ComesHome
CHECK_DEADLOCK FALSE
