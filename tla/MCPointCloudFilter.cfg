CONSTANTS
  p1 = p1
  p2 = p2
  Points = {p1, p2}
  Clusterings <- MCClusterings
  Offsets <- MCOffsets
  HoldTicks = 2
  MaxHistory = 4
SPECIFICATION Spec
INVARIANTS TypeOK HistoryReturned
