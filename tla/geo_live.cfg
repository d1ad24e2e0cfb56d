\* Two sites: every request is dealt with if a CAS write of an absent record
\* is an error.
SPECIFICATION FairSpec
CONSTANTS
  m1 = m1
  m2 = m2
  m3 = m3
  m4 = m4
  siteA = siteA
  siteB = siteB
  ccf1 = ccf1
  t1 = t1
  t2 = t2
  Msgs = {m1, m2, m3}
  Sites = {siteA, siteB}
  FrontSites = {siteA}
  StoreOrder <- OtherSites
  TimerIds = {}
  CcfLists <- OneCcf
  RefreshTimes = {2}
  Intervals = {0}
  Unreliable = {}
  Lossy = {siteA}
  Crashing = {}
  CasMissStatus = "ERROR"
  ChronosFails = FALSE
  NoSession = NoSession
PROPERTIES
  Handled
