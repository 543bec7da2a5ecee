SPECIFICATION FairSpec
CONSTANTS
  b1 = b1
  Bridge = {b1}
  NoBridge = NoBridge
  None = None
  Unseen = Unseen
  Unread = Unread
  Gone = Gone
  Ring <- MCRing
  Dist <- MCDist
  HashPlace <- MCHashPlace
  Content <- MCContent
  Authorities = 2
  IgnoreNetworkstatus = FALSE
  PoolSize = 2
  MaxReloads = 2
  MaxUpdates = 1
INVARIANTS TypeOK QuietIsConsistent QuietMatchesStore
PROPERTIES ImplementsStagedReload NeverBackwards LoadedIsServed SIGHUPIsAnswered
CHECK_DEADLOCK FALSE
