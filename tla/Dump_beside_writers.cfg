\* One export beside scans, edits and notes; imports beside another command.
SPECIFICATION Spec
CONSTANTS
  NULL = NULL
  Fields = {"hostname"}
  Macs = {"m1"}
  MaxCommits = 4
  MaxRivals = 1
INVARIANTS
  TypeOK
  ReferencesResolve
  CorrectionsStayOnTheirAsset
PROPERTIES
  RoundTrips
CHECK_DEADLOCK FALSE
