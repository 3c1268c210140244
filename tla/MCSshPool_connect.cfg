\* Three callers and a close_all over two keys, strict host keys.
CONSTANTS
  None = None
  r1 = r1  r2 = r2  r3 = r3  s1 = s1  f1 = f1  f2 = f2  x1 = x1  z1 = z1
  k1 = k1  k2 = k2
  Runs = {r1, r2, r3}
  Spawns = {}
  Forwarders = {}
  Closers = {}
  Shutdowns = {z1}
  Keys = {k1, k2}
  MaxConns = 1
  MaxForwards = 1
  IdleEviction = TRUE
  AcceptNew = FALSE
  Cancellable = {r1, r2, r3}
SPECIFICATION FairSpec
INVARIANTS SingleFlight NoConnLeak
PROPERTIES CapExceededOnlyByPins WaitersAnswered
