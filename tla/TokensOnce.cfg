SPECIFICATION Spec
CONSTANTS
  u1 = u1
  u2 = u2
  x1 = x1
  a1 = a1
  a2 = a2
  a3 = a3
  a4 = a4
  t1 = t1
  t2 = t2
  t3 = t3
  None = None
  Users = {u1, u2}
  Clients = {k1, k2}
  Scopes = {read, execute}
  Transactions = {x1}
  Assertions = {a1, a2, a3, a4}
  UserOf <- UserOfFour
  TxOf <- OneRequest
  Calls = {c1, c2}
  Codes = {d1, d2}
  Tokens = {t1, t2, t3}
CHECK_DEADLOCK FALSE
SYMMETRY Symmetry
INVARIANTS
  OneGrantPerRequest
  OneHead
  ReuseEndsFamily
  ToolsWithinGrant
PROPERTIES
  AssertionOnce
  ImplementsGrants
