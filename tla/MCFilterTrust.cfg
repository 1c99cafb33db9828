\* Two projects, two processes; three edits and commands in any mixture.  Arguments: up to two
\* around an option; lines of one or two arguments with four characters.
CONSTANTS
  Projects = {r1, r2}
  Edited = {r1}
  Procs = {p1, p2}
  a = a
  b = b
  Tools <- MCTools
  FileCount = 3
  Exact <- MCExact
  Layouts <- MCLayouts
  Home <- MCHome
  MaxSteps = 3
  Options = {"output", "plain"}
  Values = {"v", "w"}
  Letters = {"C"}
  ValueFlags <- MCValueFlags
  Whens <- MCWhens
  Additions <- MCAdditions
  MaxArgs = 2
  MaxLine = 4
SPECIFICATION TrustSpec
SYMMETRY Symmetric
INVARIANTS OnlyApprovedRuns TidySourcesAgree AliasBindsInItsSource FormsAgree RecordedIsRead
CHECK_DEADLOCK FALSE
