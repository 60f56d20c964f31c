CONSTANTS
  m = m
  t1 = t1
  t2 = t2
  Threads = {m, t1, t2}
  Main = m
  LargeIds = {}
  MAXVECTOR = 3
  INITCAPACITY = 1
  MaxActions = 5
  MaxAccesses = 3
  MaxPending = 1
SPECIFICATION Spec
SYMMETRY Symmetry
INVARIANTS RecordsExact NoRaceIsMissed NoFalseAlarm
CHECK_DEADLOCK FALSE
