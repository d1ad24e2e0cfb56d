\* Two sites, stores and Chronos fail.
SPECIFICATION Spec
CONSTANTS
  m1 = m1
  m2 = m2
  m3 = m3
  m4 = m4
  siteA = siteA
  siteB = siteB
  ccf1 = ccf1
  t1 = t1
  t2 = t2
  Msgs = {m1, m2, m3}
  Sites = {siteA, siteB}
  FrontSites = {siteA}
  StoreOrder <- OtherSites
  TimerIds = {t1}
  CcfLists <- OneCcf
  RefreshTimes = {0, 2}
  Intervals = {1}
  Unreliable = {siteA}
  Lossy = {siteA}
  Crashing = {}
  CasMissStatus = "DATA_CONTENTION"
  ChronosFails = TRUE
  NoSession = NoSession
SYMMETRY MsgSymmetry
INVARIANTS
  OnlyAcceptedSessions
  SitesAgree
  FirstIsLowest
PROPERTIES
  NoLostUpdate
  OnlySproutSetsTimers
