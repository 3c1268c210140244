\* Two installs of two targets with three failures; a log of three records kept
\* for one rotation, one mishap, one approval.
SPECIFICATION Spec
CONSTANTS
  Parts = {"installer", "evidence"}
  Targets = {t1, t2}
  Torn = Torn
  Absent = Absent
  MaxInstalls = 2
  MaxFailures = 3
  RetainSegments = 1
  MaxCheckpoints = 9
  None = None
  MaxRecords = 3
  MaxMishaps = 1
  MaxApprovals = 1
CONSTRAINT ApprovedLate
INVARIANTS Recoverable GapRefused HonestAccepted
PROPERTIES RecoveryCompletes RemoteNeverRolledBack
CHECK_DEADLOCK FALSE
