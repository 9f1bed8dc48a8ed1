SPECIFICATION SyncSpec
CONSTANTS
  e1 = e1
  e2 = e2
  c1 = c1
  o1 = o1
  o2 = o2
  Entities = {e1, e2}
  Callers = {c1}
  Others = {}
  RingCapacity = 3
  MaxLive = 2
  MaxAdvance = 2
  MaxBody = 1
  MaxSeq = 3
  MaxClocks = 0
  MaxFaults = 0
INVARIANTS PagesAscend
CHECK_DEADLOCK FALSE
