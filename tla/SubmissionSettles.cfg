SPECIFICATION FairSpec
CONSTANTS
  c1 = c1
  c2 = c2
  p1 = p1
  p2 = p2
  k1 = k1
  k2 = k2
  o1 = o1
  o2 = o2
  setupA = setupA
  setupB = setupB
  eurusd = eurusd
  gbpusd = gbpusd
  None = None
  Setups = {setupA, setupB}
  Instruments = {eurusd, gbpusd}
  Callers = {c1}
  Previews = {p1, p2}
  Keys = {k1, k2}
  OrderIds = {o1, o2}
  SetupOf <- DistinctSetups
  InstrumentOf <- TwoInstruments
  Origin <- AllManual
  MaxOpenPositions = 1
  MaxPendingOrders = 1
  MaxNewEntries = 2
  Protections <- AnyBool
  Echoes <- OnlyFalse
  CallsMayDie = FALSE
  SwitchesMove = FALSE
  DocumentsExpire = FALSE
CHECK_DEADLOCK FALSE
PROPERTIES
  ClaimIsAnswered
