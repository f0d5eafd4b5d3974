SPECIFICATION Spec
CONSTANTS
  Calls = {c1, c2, c3}
  MaxSeq = 3
  MaxBatch = 2
  Absent = Absent
  Nobody = Nobody
  MaxFaults = 2
  MaxCloses = 1
INVARIANTS
  Recoverable
  AcknowledgedSurvive
PROPERTIES
  Implements
SYMMETRY Symmetric
CHECK_DEADLOCK FALSE
