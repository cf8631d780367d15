\* One command at a time; daemons die and ids are reused.
SPECIFICATION Spec
CONSTANTS
  NULL = NULL
  Pids = {p1, p2, p3}
  Starters = {s1, s2}
  Stoppers = {k1, k2}
  Foreground = TRUE
  Mortal = {p1, p2, p3}
  Overlapping = FALSE
INVARIANTS
  TypeOK
  OneDaemon
  RunningIsRecorded

CHECK_DEADLOCK FALSE
