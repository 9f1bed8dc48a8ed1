SPECIFICATION FairSpec
CONSTANTS
  r1 = r1
  w1 = w1
  Requests = {r1}
  Workers = {w1}
  Sweeper = Sweeper
  Operator = Operator
  NoProc = NoProc
  Rates = {1}
  InitialRate = 1
  Period = 2
  Durations = {1}
  Horizon = 1
  MaxBatch = 2
  MaxAttempts = 1
  Links = 2
  TaskCount = 0
  MaxGame = 2
  MaxEpoch = 1
  MaxFaults = 1
PROPERTIES DueIsApplied
CHECK_DEADLOCK FALSE
