\* One execution, three lines, a limit the third one exceeds, every fault the code handles,
\* an interrupt and a cancellation.
CONSTANTS
  Cases <- FewCases
  RenderSizes = {1}
  Sizes = {1}
  BufferLimit = 2
  ExitCodes = {0, 1, 137}
  MaxLines = 3
  PipeCapacity = 1
  HardKillCode = 137
  SignalCode = 130
  RecoveryEnabled = TRUE
  Modes = {"filtered", "raw", "attached"}
  Confidential = {TRUE, FALSE}
  MaxGrowth = 3
  MaxArtifactSize = 1
  Faults = {"read", "write", "wait", "recovery", "metrics", "audit", "signal", "cancel"}
SPECIFICATION RunnerSpec
CHECK_DEADLOCK FALSE
INVARIANTS InOrderUnlessOverflow FailureIsRecoverable WrittenOnce SuccessIsComplete MetricIsHonest
