SPECIFICATION ProgramSpec
CONSTANTS
  PageSize = 2
  NumPages = 2
  Bits <- MCBits
  LENGTH = 2
  Files <- ReliableFiles
  InitialFlash <- MCInitialFlash
  LossyBus = FALSE
  SleepCovers = TRUE
  Garbage <- MCGarbage
INVARIANT FastChecksWritten
CHECK_DEADLOCK FALSE
