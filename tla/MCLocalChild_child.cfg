\* An executor call or a PTY session, monitored or not, with one job, three
\* notified calls against a cap of one, and two faults; every system call through
\* the filter.
CONSTANTS
  Parts = {"child", "filter"}
  Cap = 1
  MaxCalls = 3
  MaxFaults = 2
SPECIFICATION MCSpec
INVARIANTS ObservesOnly NobodyLeft FilterExact
PROPERTIES CallsAnswered CallEnds
CHECK_DEADLOCK FALSE
