CONSTANT SendBuffer = 3
SPECIFICATION ConnectionSpec
INVARIANTS ConnectionTypeOK CurrentIsOnItsWay
PROPERTIES DoneEndsWithSuchPeers ShutdownEnds
CHECK_DEADLOCK FALSE
