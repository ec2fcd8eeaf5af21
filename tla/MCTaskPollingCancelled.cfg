SPECIFICATION Spec
CONSTANTS
  Interval = 2
  Timeout = 11
  Latency = 1
  MaxTime = 13
INVARIANT TerminalStatusEndsPolling
CHECK_DEADLOCK FALSE
