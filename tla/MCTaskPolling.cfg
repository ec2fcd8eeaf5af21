SPECIFICATION FairSpec
CONSTANTS
  Interval = 2
  Timeout = 8
  Latency = 1
  MaxTime = 10
INVARIANT TypeOK
INVARIANT NoMissedEnd
PROPERTY PollsArePaced
PROPERTY ImplementsWait
PROPERTY PollReturns
CHECK_DEADLOCK FALSE
