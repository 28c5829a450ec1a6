SPECIFICATION Spec
CONSTANTS
  Pages = {p1, p2}
  Calls = {c1, c2}
  Contents = {f1, f2}
  None = None
  MaxKeys = 2
  MaxPuts = 2
  MaxFaults = 2
CHECK_DEADLOCK FALSE
SYMMETRY Symmetry
INVARIANTS
  RecordsHaveTheirObjects
  AnsweredIsRecorded
  OneRecordPerObject
  OrphansComeFromFaults
