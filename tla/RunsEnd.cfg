SPECIFICATION FairSpec
CONSTANTS
  c1 = c1
  c2 = c2
  k1 = k1
  k2 = k2
  p1 = p1
  p2 = p2
  None = None
  RunKeys = {k1, k2}
  Callers = {c1, c2}
  Previews = {p1, p2}
  Schedulers = {c1}
PROPERTIES
  RunEnds
