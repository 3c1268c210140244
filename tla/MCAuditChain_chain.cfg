CONSTANTS
  loop = loop
  supervisor = supervisor
  None = None
  Writers = {loop, supervisor}
  MaxRecords = 4
  MaxFaults = 3
  MaxCrashes = 2
  MaxRotations = 2
SPECIFICATION Spec
SYMMETRY Symmetry
INVARIANTS ChainIntact LossNoticed
CHECK_DEADLOCK FALSE
