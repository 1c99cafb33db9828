\* Two processes that store, list and purge; two artifacts where one is kept, one incident.
CONSTANTS
  Procs = {p1, p2}
  MaxArtifacts = 1
  MaxAge = 0
  MaxStores = 2
  MaxOthers = 2
  MaxTime = 1
  MaxIncidents = 1
SPECIFICATION Spec
SYMMETRY MCSymmetry
INVARIANTS
  Bounded
  ListIsFaithful
CHECK_DEADLOCK FALSE
