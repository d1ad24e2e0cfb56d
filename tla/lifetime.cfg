\* One call in time.
SPECIFICATION Spec
CONSTANTS
  t1 = t1
  t2 = t2
  RefreshTimes = {2, 4}
  Intervals = {0, 1, 3}
  Latency = 1
  LongestRefresh = 4
  Half = 5
  TimerIds = {t1, t2}
  Slots = {1, 2}
  NoAcr = NoAcr
SYMMETRY TimerSymmetry
INVARIANTS
  TypeOK
  KeptWhileActive
  EndedCallFades
  IntervalKept
