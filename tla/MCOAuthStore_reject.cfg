\* The operator rejects a client while the server rewrites the same files: no
\* crash, no damaged file, one command.
CONSTANTS
  None = None
  a = a  b = b  k1 = k1  p0 = p0  p1 = p1  p2 = p2  p3 = p3  u1 = u1
  Clients = {a, b}
  Codes = {k1}
  Pairs = {p0, p1}
  Probes = {u1}
  OldClient = a
  OldPair = p0
  SingleClient = TRUE
  RequireApproval = TRUE
  CodeTTL = 1
  AccessTTL = 0
  RefreshTTL = 1
  Grace = 0
  MaxSpent = 2
  MaxTime = 2
  MaxMishaps = 0
  MaxCommands = 1
SPECIFICATION Spec
SYMMETRY PairSymmetry
INVARIANTS RejectionFinal
CHECK_DEADLOCK FALSE
