SPECIFICATION FlowsSpec
CONSTANTS
  Writers = {w1, w2}
  PageSize = 1
  MaxId = 3
  Commands = 1
  Schedules = {s1, s2}
  Workers = {v1, v2}
  Periods = {1, 2}
  BatchSize = 1
  Skew = 0
  MaxTime = 3
  MaxManual = 1
  Payloads = {m1, m2, g1}
  Garbled = {g1}
  Producers = {p1, p2}
  MaxSeq = 3
  BufSize = 1
  MaxChanges = 2
  MaxDrops = 1
INVARIANTS
  SavedIsDone
  FiredOnce
  MemMirrorsDisk
  WakeOnItsWay
PROPERTIES
  
  DueFires
  RefinesFifo
  Drains
  WorkIsListed
CHECK_DEADLOCK FALSE
