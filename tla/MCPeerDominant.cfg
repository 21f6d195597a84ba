SPECIFICATION Spec
CONSTANTS
  LocalID = 2
  LocalAS = 2
  RemoteAS = 1
  RemoteIDs = {3}
  Passive = FALSE
INVARIANT DominantKept
