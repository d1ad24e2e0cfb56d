\* Two reliable sites: a STOP overtakes the remote writes of its START.
SPECIFICATION Spec
CONSTANTS
  m1 = m1
  m2 = m2
  m3 = m3
  m4 = m4
  siteA = siteA
  siteB = siteB
  ccf1 = ccf1
  t1 = t1
  t2 = t2
  Msgs = {m1, m2}
  Sites = {siteA, siteB}
  FrontSites = {siteA}
  StoreOrder <- OtherSites
  TimerIds = {t1}
  CcfLists <- OneCcf
  RefreshTimes = {2}
  Intervals = {1}
  Unreliable = {}
  Lossy = {}
  Crashing = {}
  CasMissStatus = "DATA_CONTENTION"
  ChronosFails = FALSE
  NoSession = NoSession
SYMMETRY MsgSymmetry
INVARIANTS
  StopRemovesFromAllStores
