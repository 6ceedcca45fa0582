\* A file of twelve packets, a multiple of the block; datagrams are lost, late and overtaken.
SPECIFICATION FairSpec
INVARIANTS
  TypeOK
  ReadsInWindow
  LossRemembered
PROPERTIES
  ViewGrows
  Delivered
  SenderHears
  ImplementsFileCopy
CONSTANTS
  NAK_SIZE = 2
  INACTIVE = 63
  SLOTS = 4
  SINGLE_LENGTH = 2
  Length = 23
  ChanCap = 4
  MaxFaults = 2
  Reorders = {"data"}
  SOFT_WIND = 3
  HARD_WIND = 4
  LOST_GAP = 2
  MaxLost = 12
\* The transfer ends, or the receiver waits for a sender that has died.
CHECK_DEADLOCK FALSE
