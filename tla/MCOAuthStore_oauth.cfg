\* A registration and an old client, two token requests and a probe.
CONSTANTS
  None = None
  a = a  b = b  k1 = k1  p0 = p0  p1 = p1  p2 = p2  p3 = p3  u1 = u1
  Clients = {a, b}
  Codes = {k1}
  Pairs = {p0, p1, p2}
  Probes = {u1}
  OldClient = a
  OldPair = p0
  SingleClient = TRUE
  RequireApproval = TRUE
  CodeTTL = 1
  AccessTTL = 0
  RefreshTTL = 1
  Grace = 0
  MaxSpent = 1
  MaxTime = 2
  MaxMishaps = 1
  MaxCommands = 1
SPECIFICATION Spec
CONSTRAINT OneDisturbanceLate
SYMMETRY PairSymmetry
INVARIANTS GrantUsedOnce ApprovalGate ReplayDetectable RevokedStaysDead
PROPERTIES LockdownHolds
CHECK_DEADLOCK FALSE
