\* Inits of three releases run at the same time; one ships an edited migration.
SPECIFICATION Spec
CONSTANTS
  NULL = NULL
  i1 = i1
  i2 = i2
  i3 = i3
  d1 = d1
  d2 = d2
  Migrations <- TwoMigrations
  Release <- MixedReleases
  Edited <- ThirdEdited
  Inits = {i1, i2, i3}
  Daemons = {d1}
  Scans = {}
  Manuals = {}
  Pruners = {r1}
  Rows = {u1}
  Window = 2
  Keep = 0
  Overlapping = TRUE
  MaxClock = 0
INVARIANTS
  TypeOK
  VersionIsApplied
  SchemaIsAsShipped
PROPERTIES
  VersionNeverFalls
CHECK_DEADLOCK FALSE
