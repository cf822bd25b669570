SPECIFICATION FairSpec
CONSTANTS
  PageSize = 2
  NumPages = 3
  Bits <- MCBits
  LENGTH = 2
  Files <- WritableFiles
  InitialFlash <- MCInitialFlash
  LossyBus = FALSE
  SleepCovers = TRUE
INVARIANTS TypeOK PageCoherent Written
PROPERTIES StoresImage Ends
CHECK_DEADLOCK FALSE
