CONSTANTS
  LocalUserSize = 1
  MaxConn = 2
  MaxFd = 2
SPECIFICATION LiveSpec
INVARIANTS
  UsersInv
PROPERTIES
  HungUpLeaves
  LoginEnds
  BroadcastEnds
CHECK_DEADLOCK FALSE
