\* One execution, two lines of which the second always exceeds the limit, failing destinations
\* and an interrupt: everything ends.
CONSTANTS
  Cases <- SplitOnly
  RenderSizes = {1}
  Sizes = {1, 2}
  BufferLimit = 1
  ExitCodes = {0, 1}
  MaxLines = 2
  PipeCapacity = 1
  HardKillCode = 137
  SignalCode = 130
  RecoveryEnabled = TRUE
  Modes = {"filtered", "raw", "attached"}
  Confidential = {TRUE, FALSE}
  MaxGrowth = 3
  MaxArtifactSize = 1
  Faults = {"write", "signal"}
SPECIFICATION RunnerSpec
CHECK_DEADLOCK FALSE
PROPERTIES ExitEndsTheRun SignalEndsTheRun PipesAreDrained
