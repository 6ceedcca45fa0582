SPECIFICATION Spec
CONSTANTS
  Peers = {a, b}
  MaxConns = 1
  MaxFd = 3
  Commands = {"send", "p2p"}
  MaxCommands = 2
  Self = {}
  MaxStops = 0
INVARIANT
  NoFakeSymbol
CHECK_DEADLOCK FALSE
