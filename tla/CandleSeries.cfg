SPECIFICATION FairSpec
CONSTANTS
  c1 = c1
  c2 = c2
  None = None
  Calls = {c1, c2}
  LeaseTime = 2
  MinInterval = 1
  MaxBackoff = 1
  MaxTries = 2
  MaxCooldown = 2
  Requests <- MCRequests
  Closed = {1}
  Opening = 2
  Horizon = 3
  PageBars = 2
  MaxStale = 1
  Reach = 2
  Lead = 1
INVARIANTS
  FreshIsCurrent
  OneWithinLease
  CacheIsFinal
  WholeReply
PROPERTIES
  CooldownIsKept
  CallsAnswered
