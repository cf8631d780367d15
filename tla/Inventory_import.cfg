\* A scan and both imports racing an add, and a review session.
SPECIFICATION Spec
CONSTANTS
  NULL = NULL
  Values <- MCValues
  Macs = {"m1"}
  ScanAttrs = {}
  CuratedAttrs = {}
  Scans = {s1}
  Netboxes = {n1}
  Lansweepers = {l1}
  Adds = {a1}
  Reviewers = {r1}
  ScanBatches <- FewScanBatches
  NetboxBatches <- MCNetboxBatches
  LansweeperBatches <- MCLansweeperBatches
  AddRows <- FewAddRows
  Overrides = {}
INVARIANTS
  
  TxnKeepsCurated
  ConflictOnlyByRace
  BatchIsAtomic
PROPERTIES
  KeepsPromise
  ConflictsAreProposed
  MacNeverMoves
CHECK_DEADLOCK FALSE
