\* The checkpoint file at its limit: one entry for every hourly run crowds out
\* the boundary of the archive that logrotate pruned last.
SPECIFICATION Spec
CONSTANTS
  Parts = {"evidence"}
  Targets = {t1}
  Torn = Torn
  Absent = Absent
  MaxInstalls = 0
  MaxFailures = 0
  RetainSegments = 1
  MaxCheckpoints = 3
  None = None
  MaxRecords = 5
  MaxMishaps = 0
  MaxApprovals = 0
INVARIANT HonestAccepted
CHECK_DEADLOCK FALSE
