SPECIFICATION FairSpec
CONSTANTS
  LocalID = 2
  LocalAS = 2
  RemoteAS = 1
  RemoteIDs = {1}
  HoldTimes = {1}
  Writers = {w1}
INVARIANTS
  TypeOK
  ReaderHasConn
  HoldRunning
  KeepaliveArmed
  ConnectProgress
  NothingLeft
  StrayOnlyOnStop
PROPERTIES
  ImplementsFSM
  Exits
  WriteReturns
  GoroutinesEnd
