SPECIFICATION MCSpec
CONSTANTS
  PageSize = 2
  NumPages = 2
  Bits <- MCBits
  LENGTH = 2
  Files <- AllFiles
  InitialFlash <- MCInitialFlash
  LossyBus = TRUE
  SleepCovers = FALSE
  Garbage <- MCGarbage
INVARIANTS ProgramTypeOK StrictCheckIsProof FastCheckIsProof NoFalseAlarm
PROPERTY Verdict
CHECK_DEADLOCK FALSE
