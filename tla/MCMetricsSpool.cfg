\* Two processes, two runs, a clock that outlives the retention, every fault.
CONSTANTS
  Procs = {p1, p2}
  MaxRuns = 2
  MaxTime = 2
  Retention = 1
  Faults = {"write", "open", "commit", "remove", "crash"}
SPECIFICATION SpoolSpec
SYMMETRY Symmetric
INVARIANTS NothingForgotten ErasedStaysErased StatusCoversDurable
PROPERTIES ImplementsLedger
