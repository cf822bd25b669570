SPECIFICATION FairReader
CONSTANTS
  PacketLength = 4
  Lengths = {0, 4, 20, 24, 28, 32}
  MaxCalls = 2
  Overrun = 0
  Faults = {"write_error", "read_error"}
  CounterMod = 8
  EepromBytes = 6
  Requests = {0, 1, 5, 7, 8}
  MaxCommands = 10
INVARIANTS ReaderTypeOK ReadsMemory FailsWithPrefix
PROPERTIES ReadReturns
CHECK_DEADLOCK FALSE
