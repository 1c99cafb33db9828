CONSTANTS
  Procs = {p1, p2}
  Nobody = Nobody
  a = a
  b = b
  Files = {1, 2}
  Aliases = {a, b}
  Target <- MCTarget
  MaxVersion = 2
  Shipped <- MCShipped
  Kinds = {"bootstrap", "rewrite", "upgrade"}
  MaxStarts = 2
  MaxIncidents = 2
  Platforms = {"unix", "windows"}
  MayRace = FALSE
SPECIFICATION Spec
SYMMETRY MCSymmetry
INVARIANTS
  OneHolder
  AliasHasFilter
  SettledStays
  BinarySurvives
  UpgradeIsEffective
PROPERTIES
  AddingKeeps
CHECK_DEADLOCK FALSE
