\* A file whose last block is shorter than the window: its end may stay unwritten.
SPECIFICATION Spec
INVARIANTS
  DoneMeansWritten
CONSTANTS
  NAK_SIZE = 2
  INACTIVE = 63
  SLOTS = 4
  SINGLE_LENGTH = 2
  Length = 19
  ChanCap = 4
  MaxFaults = 2
  Reorders = {}
  SOFT_WIND = 3
  HARD_WIND = 4
  LOST_GAP = 2
  MaxLost = 8
\* The transfer ends, or the receiver waits for a sender that has died.
CHECK_DEADLOCK FALSE
