SPECIFICATION FairSpec
CONSTANTS
  PacketLength = 6
  MaxPackets = 3
  Lengths = {0, 1, 2, 5, 6, 7, 8, 12, 14, 20}
  Start = 3
  Faults = {"in_submit", "out_submit", "in_error", "out_error", "cs_error", "ctrl_c"}
INVARIANTS TypeOK StoredInPlace ReadWhole IdleWhenReused
PROPERTY Returns
CHECK_DEADLOCK FALSE
