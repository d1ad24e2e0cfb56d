\* Requests of one call fail over between two CCFs.
SPECIFICATION FairSpec
CONSTANTS
  m1 = m1
  m2 = m2
  m3 = m3
  ccf1 = ccf1
  ccf2 = ccf2
  Msgs = {m1, m2}
  Ccfs = {ccf1, ccf2}
  CcfLists <- OneOrTwoCcfs
  Down = {ccf1, ccf2}
  NoSession = NoSession
INVARIANTS
  TypeOK
  SessionIsOpen
  GivesUpLast
PROPERTIES
  Delivers
