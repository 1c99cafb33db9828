CONSTANTS
  Procs = {p1, p2}
  Nobody = Nobody
  a = a
  b = b
  Files = {1, 2}
  Aliases = {a, b}
  Target <- MCTarget
  MaxVersion = 2
  Shipped <- MCShipped
  Kinds = {"upgrade"}
  MaxStarts = 2
  MaxIncidents = 0
  Platforms = {"unix"}
  MayRace = TRUE
SPECIFICATION Spec
PROPERTY NoDowngrade
CHECK_DEADLOCK FALSE
