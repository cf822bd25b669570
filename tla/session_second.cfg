SPECIFICATION Spec
CONSTANTS
  CommandLines <- EraseThenWrite
  Devices <- MCDevices
  Targets <- RightTarget
  FuseBytes <- MCFuseBytes
  LossyBus = FALSE
  MaxLost = 3
  MaxLate = 2
INVARIANT RightChipAccepted
CHECK_DEADLOCK FALSE
