\* update, turn by turn, on an array of three naks and ten packets.
SPECIFICATION LoopSpec
INVARIANTS
  LoopAgrees
  TakesOne
  LoopWellFormed
CONSTANTS
  NAK_SIZE = 3
  INACTIVE = 63
  MaxIndex = 9
