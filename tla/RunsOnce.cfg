SPECIFICATION ControlledSpec
CONSTANTS
  c1 = c1
  c2 = c2
  c3 = c3
  k1 = k1
  p1 = p1
  p2 = p2
  None = None
  RunKeys = {k1}
  Callers = {c1, c2, c3}
  Previews = {p1, p2}
  Schedulers = {c1, c2}
SYMMETRY Symmetry
INVARIANTS
  OneSubmissionPerRun
  TradeHasOrder
PROPERTIES
  NoRetryAfterSend
  StoppedOrdersNothing
