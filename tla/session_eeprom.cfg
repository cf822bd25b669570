SPECIFICATION Spec
CONSTANTS
  CommandLines <- EepromLine
  Devices <- MCDevices
  Targets <- RightTarget
  FuseBytes <- MCFuseBytes
  LossyBus = FALSE
  MaxLost = 3
  MaxLate = 2
INVARIANT EepromWritten
CHECK_DEADLOCK FALSE
