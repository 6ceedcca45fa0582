\* Acknowledgements are overtaken as well, and one nak is not enough for what is sent.
SPECIFICATION Spec
INVARIANTS
  FileIsPrefix
  AckedIsHeld
  EndsComplete
  SenderDoneSound
PROPERTIES
  AcksGrow
CONSTANTS
  NAK_SIZE = 1
  INACTIVE = 63
  SLOTS = 4
  SINGLE_LENGTH = 2
  Length = 19
  ChanCap = 3
  MaxFaults = 3
  Reorders = {"data", "ack"}
  SOFT_WIND = 3
  HARD_WIND = 4
  LOST_GAP = 2
  MaxLost = 8
\* The transfer ends, or the receiver waits for a sender that has died.
CHECK_DEADLOCK FALSE
