\* Checks of one host, its first use included; its key changes.
SPECIFICATION Spec
CONSTANTS
  NULL = NULL
  Hosts = {h1}
  Keys = {k1, k2}
  Checks = {c1, c2, c3}
INVARIANTS
  TypeOK
  OnePin
  ChangedKeysAreRefused
CHECK_DEADLOCK FALSE
