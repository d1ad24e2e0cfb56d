\* The process from start to end, with signals at any moment.
SPECIFICATION FairSpec
CONSTANTS
  NoText = ""
  Numbers <- SomeNumbers
  CommandLines <- SomeCommandLines
  HttpWorkers = {"http1", "http2"}
  MaxSignals = 2
  MaxAcrs = 1
INVARIANTS
  TypeOK
  LimitsPositive
  OptionsAsGiven
  SemaphoreUsable
  NoUseAfterDelete
  ThreadsJoined
PROPERTIES
  TermEnds
