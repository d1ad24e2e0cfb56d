\* The command line of the init script with ACR logging.
SPECIFICATION Spec
CONSTANTS
  NoText = ""
  Numbers <- SomeNumbers
  CommandLines <- AcrLogging
  HttpWorkers = {"http1"}
  MaxSignals = 1
  MaxAcrs = 1
INVARIANTS
  UsageIsKept
