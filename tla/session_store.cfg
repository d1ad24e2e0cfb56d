\* Three calls with similar keys, two of them equal; two callers, a store that fails.
SPECIFICATION Spec
CONSTANTS
  c1 = c1
  c2 = c2
  s1 = s1
  t1 = t1
  Callers = {c1, c2}
  Ids <- NearIds
  ToDigits <- DigitsOf
  SessionIds = {s1}
  CcfLists <- TwoCcfs
  TimerIds = {t1}
  RefreshTimes = {2, 3}
  Half = 2
  Foreign <- ForeignDocs
  Unreliable = TRUE
  CasMissStatus = "DATA_CONTENTION"
  MaxCas = 3
  Garbage = Garbage
  NoSession = NoSession
  Unreadable = Unreadable
SYMMETRY CallerSymmetry
INVARIANTS
  TypeOK
PROPERTIES
  IsMap
