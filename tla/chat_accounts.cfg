SPECIFICATION FairSpec
CONSTANTS
  Sessions = {k1, k2}
  MaxFd = 2
  MaxName = 1
  MaxPass = 2
  MaxNick = 1
  MaxMsg = 2
  Long = {1}
  Registered = {}
  MaxRestarts = 0
  Commands = {"Registion", "LoginIn", "RecoverPassword", "SendMessage"}
  MaxCommands = 3
  Tears = {"Registion"}
  Patient = TRUE
INVARIANTS
  LookupIsTheUser
  AnsweredOnce
PROPERTIES
  Answered
  MailHandedOver
  ImplementsMailbox
CHECK_DEADLOCK FALSE
