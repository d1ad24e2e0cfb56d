\* One site whose store may lose the record and whose nodes may crash: requests
\* race for the record.
SPECIFICATION Spec
CONSTANTS
  m1 = m1
  m2 = m2
  m3 = m3
  m4 = m4
  siteA = siteA
  siteB = siteB
  ccf1 = ccf1
  t1 = t1
  t2 = t2
  Msgs = {m1, m2, m3, m4}
  Sites = {siteA}
  FrontSites = {siteA}
  StoreOrder <- OneSite
  TimerIds = {t1}
  CcfLists <- OneCcf
  RefreshTimes = {2}
  Intervals = {1}
  Unreliable = {}
  Lossy = {siteA}
  Crashing = {siteA}
  CasMissStatus = "DATA_CONTENTION"
  ChronosFails = FALSE
  NoSession = NoSession
SYMMETRY MsgSymmetry
INVARIANTS
  TypeOK
  UniqueAcrs
  StopIsHighest
  DenseNumbers
  StoppedStaysGone
PROPERTIES
  NoLostUpdate
