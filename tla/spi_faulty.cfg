SPECIFICATION FairSpec
CONSTANTS
  PacketLength = 4
  Lengths = {0, 1, 3, 4, 7}
  MaxCalls = 2
  Overrun = 3
  Faults = {"write_error", "read_error", "short_read"}
INVARIANTS TypeOK InBounded WholeTransfer OwnAnswers
PROPERTY CallReturns
CHECK_DEADLOCK FALSE
