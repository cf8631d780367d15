\* Three scans and an add against two review sessions.
SPECIFICATION Spec
CONSTANTS
  NULL = NULL
  Values <- MCValues
  Macs = {"m1"}
  ScanAttrs = {}
  CuratedAttrs = {}
  Scans = {s1, s2, s3}
  Netboxes = {}
  Lansweepers = {}
  Adds = {a1}
  Reviewers = {r1, r2}
  ScanBatches <- SameScanBatch
  NetboxBatches <- MCNetboxBatches
  LansweeperBatches <- MCLansweeperBatches
  AddRows <- OneAddRow
  Overrides = {"h2"}
INVARIANTS
  IInv
PROPERTIES
  OnlyTheOvertakenOverrule
  KeepsPromise
SYMMETRY Interchangeable
CHECK_DEADLOCK FALSE
