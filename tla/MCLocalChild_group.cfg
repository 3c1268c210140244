\* An executor call whose timeout expires after the command itself has ended.
CONSTANTS
  Parts = {"child"}
  Cap = 1
  MaxCalls = 0
  MaxFaults = 0
SPECIFICATION MCSpec
INVARIANTS GroupKilled
CHECK_DEADLOCK FALSE
