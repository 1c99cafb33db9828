\* Two projects and a directory below one of them, three runs, one command at a time.
CONSTANTS
  Day = 1
  Calendar <- MCCalendar
  MissedLimit = 1
  Roots = {"r1", "r2"}
  Subs = {"r1/s"}
  RootOf <- MCRootOf
  Shapes <- MCShapes
  Kinds = {"report", "purge", "uninstall"}
  Requests <- MCRequests
  Calls <- MCCalls
  Windows = {1}
  MaxInits = 1
  MaxTime = 2
SPECIFICATION Spec
CHECK_DEADLOCK FALSE
INVARIANTS GlobalIsOneHistory EachRunOnce RegisteredAreErased UninstallFindsAll
