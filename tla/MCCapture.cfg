CONSTANTS
  Procs = {p1, p2}
  Expected <- MCExpected
  MaxCaptures = 2
  MaxVerifies = 1
  MaxRecords = 2
  MaxFaults = 1
  Letters = {"a", "b"}
  Secrets <- MCSecrets
  MaxText = 5
SPECIFICATION Spec
SYMMETRY MCSymmetry
INVARIANTS
  RecordingIsOrdered
  OldestLast
  WholeFixture
  RedactionIgnoresCuts
CHECK_DEADLOCK FALSE
