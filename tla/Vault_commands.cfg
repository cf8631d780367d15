\* One init at a time and no import beside it, everything else at once.
SPECIFICATION Spec
CONSTANTS
  NULL = NULL
  Inits = {i1, i2}
  Importers = {m1}
  Adders = {a1, a2}
  Users = {u1}
  Removers = {r1}
  Enablers = {e1}
  Passwords = {good, bad}
  Labels = {l1, l2}
  Overlapping = FALSE
INVARIANTS
  TypeOK
  SecretsOpen
  ChecksHaveCredentials
  ChecksUseWhatWasNamed
CHECK_DEADLOCK FALSE
