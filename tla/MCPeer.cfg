SPECIFICATION Spec
CONSTANTS
  LocalID = 2
  LocalAS = 2
  RemoteAS = 1
  RemoteIDs = {1, 2, 3}
  Passive = FALSE
INVARIANTS
  SessionExclusive
  OnePastCollision
  HoldDownQuiet
  NeverDark
  ViewLagsOneStep
  Registered
PROPERTY PluginOrder
