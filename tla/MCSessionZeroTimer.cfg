SPECIFICATION Spec
CONSTANTS
  LocalID = 2
  LocalAS = 2
  RemoteAS = 1
  RemoteIDs = {1}
  HoldTimes = {0, 1}
  Writers = {w1}
INVARIANT ZeroHoldHasTimer
CHECK_DEADLOCK FALSE
