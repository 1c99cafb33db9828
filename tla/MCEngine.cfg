\* The engine against every kind of case, a limit that the lines can reach.
CONSTANTS
  Cases <- AllCases
  RenderSizes = {1, 3}
  Sizes = {1, 2}
  BufferLimit = 5
  ExitCodes = {0, 1}
  MaxLines = 4
SPECIFICATION MCSpec
CHECK_DEADLOCK FALSE
INVARIANTS
  NothingLost GivingUpIsVerbatim EverythingRecoverable
  ReaderIsTold StreamIsKept
PROPERTIES HandedBackOnce GivingUpIsFinal
