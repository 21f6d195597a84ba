SPECIFICATION ReceiveSpec
CONSTANTS
  W = 8
  ASLen = 1
  MaxUint16 = 6
  asTrans = 5
  CAP_FOUR_OCTET_AS = 5
  ASNs = {1, 5, 7}
  IDs = {1, 2, 3}
  Multicast = {3}
  LocalID = 1
  LocalAS = 1
  Alphabet = {0, 1, 2, 5, 7}
  Given <- MCGiven
  Bodies <- MCBodies
  Tuples <- MCTuples
  Updates <- MCUpdates
  Garbled <- MCGarbled
  PluginErrs <- MCPluginErrs
  BadHeaders <- MCBadHeaders
  Notifications <- MCNotifications
  NotificationBodies <- MCNotificationBodies
INVARIANTS
  ReceiveTypeOK
  NoPanic
  NothingLost
  OpenUnderstood
  OneAS
  UpdateUnderstood
  RoutesKnown
  AttributedIfAny
  Severest
  NotificationUnderstood
PROPERTIES
  ResetStops
  Shrinks
