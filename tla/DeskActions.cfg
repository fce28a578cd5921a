SPECIFICATION Spec
CONSTANTS
  c1 = c1
  c2 = c2
  a1 = a1
  a2 = a2
  a3 = a3
  p1 = p1
  p2 = p2
  None = None
  Connections = {c1, c2}
  Accounts = {a1, a2, a3}
  ConnOf <- TwoAndOne
  Routes = {r1, r2}
  Asks = {k1}
  Targets = {t1}
  AccountOf <- FirstAccount
  Previews = {p1, p2}
  Keys = {key1}
  Calls = {s1, s2}
CHECK_DEADLOCK FALSE
CONSTRAINT SmallDesk
SYMMETRY Symmetry
INVARIANTS
  DefaultAgrees
  SentOnce
  RoutedAsReviewed
  VerifiedIsGone
PROPERTIES
  DiscoveryPreserves
  ImplementsCommand
