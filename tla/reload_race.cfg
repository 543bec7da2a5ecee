SPECIFICATION Spec
CONSTANTS
  b1 = b1
  Bridge = {b1}
  NoBridge = NoBridge
  None = None
  Unseen = Unseen
  Unread = Unread
  Gone = Gone
  Ring <- MCRing
  Dist <- MCDist
  HashPlace <- MCHashPlace
  Content <- RaceContent
  Authorities = 2
  IgnoreNetworkstatus = TRUE
  PoolSize = 2
  MaxReloads = 2
  MaxUpdates = 0
INVARIANTS PreviousRingIsLeft
CHECK_DEADLOCK FALSE
