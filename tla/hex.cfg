SPECIFICATION FairEeprom
CONSTANTS
  Sources <- MCSources
  Heap <- MCHeap
  n = 16
  UINT32_MAX = 33554431
  EepromSize = 16
  MaxLost = 1
INVARIANTS EepromTypeOK ParsesIntact AcceptedComplete StoredInArray DamageDetected RangeHoldsData CopyIsImage StoredInBuffer EepromHoldsFile
PROPERTY Ends
CHECK_DEADLOCK FALSE
