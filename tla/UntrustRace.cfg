\* Two commands of two projects at a time.
CONSTANTS
  Projects = {r1, r2}
  Edited = {r1}
  Procs = {p1, p2}
  a = a
  b = b
  Tools <- MCTools
  FileCount = 3
  Exact <- MCExact
  Layouts <- MCLayouts
  Home <- MCHome
  MaxSteps = 2
  Options = {"output", "plain"}
  Values = {"v", "w"}
  Letters = {"C"}
  ValueFlags <- MCValueFlags
  Whens <- MCWhens
  Additions <- MCAdditions
  MaxArgs = 0
  MaxLine = 0
SPECIFICATION TrustSpec
SYMMETRY Symmetric
INVARIANT UntrustedStaysUntrusted
CHECK_DEADLOCK FALSE
