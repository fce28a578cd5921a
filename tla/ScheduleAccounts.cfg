SPECIFICATION Spec
CONSTANTS
  w1 = w1
  w2 = w2
  w3 = w3
  None = None
  Workers = {w1, w2}
  Last = 3
  BatchSize = 1
  MaxRetries = 0
  Overlap = TRUE
  OwnerEdits = FALSE
  OwnerRetries = TRUE
CHECK_DEADLOCK FALSE
SYMMETRY Symmetry
INVARIANTS
  OccurrencesAccounted
  MisfiredNeverRan
