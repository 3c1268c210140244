\* One session with a three-byte buffer, read by three concurrent recv calls.
CONSTANTS
  None = None
  s1 = s1  s2 = s2  s3 = s3  r1 = r1  r2 = r2  r3 = r3
  Sids = {s1}
  Recvs = {r1, r2, r3}
  MaxSessions = 1
  BufferCap = 3
  MaxTake = 2
  MaxProduced = 7
  Starts <- MCStarts
SPECIFICATION FairSpec
INVARIANTS NoLostWakeup BytesConserved
PROPERTIES CharactersWhole TeardownCompletes
CHECK_DEADLOCK FALSE
