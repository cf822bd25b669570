SPECIFICATION Spec
CONSTANTS
  PacketLength = 4
  Lengths = {0, 1, 3, 4, 7}
  MaxCalls = 1
  Overrun = 3
  Faults = {"short_read"}
INVARIANT OutBounded
CHECK_DEADLOCK FALSE
