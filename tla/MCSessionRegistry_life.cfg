\* Three spawns for two places, one recv: admission, sweep, teardown.
CONSTANTS
  None = None
  s1 = s1  s2 = s2  s3 = s3  r1 = r1  r2 = r2  r3 = r3
  Sids = {s1, s2, s3}
  Recvs = {r1}
  MaxSessions = 2
  BufferCap = 1
  MaxTake = 1
  MaxProduced = 1
  Starts <- MCStarts
SPECIFICATION Spec
SYMMETRY SidSymmetry
INVARIANTS NoOrphan SessionsBounded SweepSparesWaiters
CHECK_DEADLOCK FALSE
