SPECIFICATION FairSpec
CONSTANTS
  LocalID = 2
  LocalAS = 2
  RemoteAS = 1
  RemoteIDs = {1}
  Passive = FALSE
PROPERTIES
  StopReturns
  ConnTaken
  HoldDownEnds
  FSMAnswered
