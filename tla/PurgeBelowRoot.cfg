\* A purge given below the root of a project leaves the spool's runs, which come back.
CONSTANTS
  Day = 1
  Calendar <- MCCalendar
  MissedLimit = 1
  Roots = {"r1", "r2"}
  Subs = {"r1/s"}
  RootOf <- MCRootOf
  Shapes <- MCShapes
  Kinds = {"purge"}
  Requests <- MCRequests
  Calls <- MCCalls
  Windows = {1}
  MaxInits = 1
  MaxTime = 2
SPECIFICATION Spec
CHECK_DEADLOCK FALSE
INVARIANT PurgedStaysPurged
