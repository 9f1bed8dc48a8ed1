SPECIFICATION FairSyncSpec
CONSTANTS
  e1 = e1
  e2 = e2
  c1 = c1
  o1 = o1
  o2 = o2
  Entities = {e1, e2}
  Callers = {c1}
  Others = {}
  RingCapacity = 1
  MaxLive = 1
  MaxAdvance = 2
  MaxBody = 1
  MaxSeq = 2
  MaxClocks = 1
  MaxFaults = 1
INVARIANTS SnapshotNotBehind
PROPERTIES MissedOnlyByJump KnownGapCloses HelloCatchesUp
CHECK_DEADLOCK FALSE
