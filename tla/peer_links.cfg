SPECIFICATION FairSpec
CONSTANTS
  User1 = User1
  User2 = User2
  Peers <- MCPeers
  MaxConns = 2
  MaxFd = 5
  Commands = {"send", "p2p", "filesend", "fileAC"}
  MaxCommands = 3
  Self <- MCSelf
  MaxStops = 1
INVARIANTS
  TypeOK
  LookupIsThePeer
  LinkIsMutual
  OnlyTheReceiver
  ConnectedReadsFrames
  TransferWasOffered
PROPERTIES
  EverythingIsRead
  Linked
CHECK_DEADLOCK FALSE
