\* One daemon and checks it can run, killed and restarted at will.
SPECIFICATION FairSpec
CONSTANTS
  NULL = NULL
  Daemons = {d1}
  Runs = {}
  Checks <- TwoChecks
  Cred <- Plain
  CredId <- OwnCred
  Sinks = {}
  Webhooks = {}
  Addressless = {}
  Interval = 2
  Retention = 1
  MaxConcurrency = 1
  MaxClock = 3
INVARIANTS
  TypeOK
PROPERTIES
  IntervalIsKept
  KeepsPromise
  CyclesEnd
CHECK_DEADLOCK FALSE
