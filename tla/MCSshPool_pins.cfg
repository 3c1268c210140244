\* Two forwards race for one slot while a session and a close_forward share the
\* connections with a close_all; any call but close_all may be cancelled.
CONSTANTS
  None = None
  r1 = r1  r2 = r2  r3 = r3  s1 = s1  f1 = f1  f2 = f2  x1 = x1  z1 = z1
  k1 = k1  k2 = k2
  Runs = {}
  Spawns = {s1}
  Forwarders = {f1, f2}
  Closers = {x1}
  Shutdowns = {z1}
  Keys = {k1, k2}
  MaxConns = 1
  MaxForwards = 1
  IdleEviction = TRUE
  AcceptNew = TRUE
  Cancellable = {s1, f1, f2, x1}
SPECIFICATION Spec
SYMMETRY ForwardKeySymmetry
INVARIANTS SlotIffOpen PinsCoverHolders ForwardsAccounted HolderNotEvicted
