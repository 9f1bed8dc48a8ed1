SPECIFICATION Spec
CONSTANTS
  r1 = r1
  w1 = w1
  Requests = {r1}
  Workers = {w1}
  Sweeper = Sweeper
  Operator = Operator
  NoProc = NoProc
  Rates = {0, 1, 2}
  InitialRate = 2
  Period = 3
  Durations = {2}
  Horizon = 2
  MaxBatch = 2
  MaxAttempts = 1
  Links = 2
  TaskCount = 1
  MaxGame = 4
  MaxEpoch = 2
  MaxFaults = 1
INVARIANTS NeverEarly AlarmSet SweepChain AlarmsHaveRows
CONSTRAINT OneTrouble
CHECK_DEADLOCK FALSE
