\* A CCF that missed the START answers 5002 after it is back.
SPECIFICATION Spec
CONSTANTS
  m1 = m1
  m2 = m2
  m3 = m3
  ccf1 = ccf1
  ccf2 = ccf2
  Msgs = {m1, m2}
  Ccfs = {ccf1, ccf2}
  CcfLists <- TwoCcfs
  Down = {ccf1, ccf2}
  NoSession = NoSession
PROPERTIES
  DeletedSessionIsUnknown
