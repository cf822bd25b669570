SPECIFICATION Spec
CONSTANTS
  PageSize = 2
  NumPages = 3
  Bits <- MCBits
  LENGTH = 2
  Files <- AscendingFiles
  InitialFlash <- MCInitialFlash
  LossyBus = FALSE
  SleepCovers = TRUE
INVARIANT Written
CHECK_DEADLOCK FALSE
