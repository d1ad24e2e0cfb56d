\* One request with any body; the HTTP and the Diameter thread race.
SPECIFICATION FairSpec
CONSTANTS
  m1 = m1
  ccf1 = ccf1
  Msgs = {m1}
  Ccfs = {ccf1}
  NotString = NotString
  Missing = Missing
  Bodies <- SomeBodies
  NoMessage = NoMessage
  Value = Value
  Half = 1000
  Unfit = Unfit
  Known <- SomeNames
INVARIANTS
  TypeOK
  ObjectsAreOwned
  AcrHasCcf
  ApiIsKept
  TimerPopsAreInterims
  AcrMirrorsEvent
PROPERTIES
  Settles
