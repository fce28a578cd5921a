SPECIFICATION Spec
CONSTANTS
  p1 = p1
  p2 = p2
  e1 = e1
  e2 = e2
  Profiles = {p1, p2}
  Allocations <- MCAllocations
  Equities = {400, 500}
  MaxEdits = 2
  Entries = {e1, e2}
  OwnerOf <- MCOwnerOf
  Units = {1, 2}
  Profits <- MCProfits
  Rate = 10
  TotalRate = 15
  MarginRate = 700
  MarginOfLot = 60
  Step = 2
  MinLots = 2
  MaxLots = 4
  MaxOpenPositions = 2
CHECK_DEADLOCK FALSE
SYMMETRY SymmetryOfEntries
INVARIANTS
  SizeIsLargest
  LossWithinRate
  OverrunIsUncounted
  SharesFit
