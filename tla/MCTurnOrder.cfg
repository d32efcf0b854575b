CONSTANTS
  Players = {p1, p2, p3, p4}
  NoPlayer = NoPlayer
  OrderTrimThreshold = 2
  MaxRemovals = 2
SYMMETRY Symmetry
SPECIFICATION Spec
INVARIANTS TypeOK StreamBounded NobodyStarves
PROPERTIES NeverTwiceInARow ImplementsFairTurns
