\* A scan overwrites what an import has just curated.
SPECIFICATION Spec
CONSTANTS
  NULL = NULL
  Values <- MCValues
  Macs = {"m1"}
  ScanAttrs = {}
  CuratedAttrs = {}
  Scans = {s1, s2}
  Netboxes = {}
  Lansweepers = {l1}
  Adds = {}
  Reviewers = {}
  ScanBatches <- MCScanBatches
  NetboxBatches <- MCNetboxBatches
  LansweeperBatches <- MCLansweeperBatches
  AddRows <- MCAddRows
  Overrides = {}

PROPERTIES
  HumanDisposes
CHECK_DEADLOCK FALSE
