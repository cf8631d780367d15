\* One init at a time, beside scans and backups; anything may die.
SPECIFICATION Spec
CONSTANTS
  NULL = NULL
  i1 = i1
  i2 = i2
  i3 = i3
  d1 = d1
  d2 = d2
  Migrations <- TwoMigrations
  Release <- MixedReleases
  Edited <- ThirdEdited
  Inits = {i1, i2}
  Daemons = {}
  Scans = {s1}
  Manuals = {b1}
  Pruners = {}
  Rows = {u1, u2}
  Window = 2
  Keep = 1
  Overlapping = FALSE
  MaxClock = 1
INVARIANTS
  DataIsSnapshotted

CHECK_DEADLOCK FALSE
