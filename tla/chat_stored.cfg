SPECIFICATION Spec
CONSTANTS
  Sessions = {k1, k2}
  MaxFd = 2
  MaxName = 2
  MaxPass = 1
  MaxNick = 1
  MaxMsg = 2
  Long = {1}
  Registered = {1, 2}
  MaxRestarts = 0
  Commands = {"LoginIn", "SendMessage"}
  MaxCommands = 4
  Tears = {}
  Patient = TRUE
SYMMETRY Symmetry
INVARIANTS
  StoredAsSent
CHECK_DEADLOCK FALSE
