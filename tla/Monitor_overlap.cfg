\* A daemon and a single run beside it; a credential, a webhook and a missing
\* address.
SPECIFICATION Spec
CONSTANTS
  NULL = NULL
  Daemons = {d1}
  Runs = {m1}
  Checks <- OneCheck
  Cred <- OneGood
  CredId <- OwnCred
  Sinks = {1}
  Webhooks = {1}
  Addressless = {1}
  Interval = 1
  Retention = 1
  MaxConcurrency = 1
  MaxClock = 1
INVARIANTS
  LastIsRecorded
PROPERTIES
  EventsAreAnnounced
CHECK_DEADLOCK FALSE
