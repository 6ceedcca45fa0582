SPECIFICATION Spec
CONSTANTS
  Sessions = {k1, k2, k3}
  MaxFd = 3
  MaxName = 2
  MaxPass = 1
  MaxNick = 1
  MaxMsg = 2
  Long = {1}
  Registered = {1, 2}
  MaxRestarts = 1
  Commands = {"LoginIn", "SendMessage", "P2PRequest", "FindActiveRequest"}
  MaxCommands = 3
  Tears = {}
  Patient = TRUE
SYMMETRY Symmetry
INVARIANTS
  TypeOK
  OnlineHasNoMail
  GivenInOrder
  KeptOrGiven
  OnlyTheReceiver
CHECK_DEADLOCK FALSE
