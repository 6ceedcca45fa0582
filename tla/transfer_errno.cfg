\* A refused port fails the assertion on errno in UDP::recv.
SPECIFICATION Spec
INVARIANTS
  NoAssertFails
CONSTANTS
  NAK_SIZE = 2
  INACTIVE = 63
  SLOTS = 4
  SINGLE_LENGTH = 2
  Length = 16
  ChanCap = 4
  MaxFaults = 1
  Reorders = {"data"}
  SOFT_WIND = 3
  HARD_WIND = 4
  LOST_GAP = 2
  MaxLost = 8
\* The transfer ends, or the receiver waits for a sender that has died.
CHECK_DEADLOCK FALSE
