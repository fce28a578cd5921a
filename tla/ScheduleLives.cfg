SPECIFICATION FairSpec
CONSTANTS
  w1 = w1
  w2 = w2
  w3 = w3
  None = None
  Workers = {w1, w2, w3}
  Last = 1
  BatchSize = 1
  MaxRetries = 1
  Overlap = FALSE
  OwnerEdits = TRUE
  OwnerRetries = FALSE
CHECK_DEADLOCK FALSE
PROPERTIES
  EndedStays
  DispatchEnds
  ScheduleMoves
