SPECIFICATION Spec
CONSTANTS
  b1 = b1
  b2 = b2
  Bridge = {b1, b2}
  Unseen = Unseen
  RingOrder <- MCRingOrder
  Request <- MCRequest
  Digest <- MCDigest
  Share = {1, 2}
  Authorities = 2
INVARIANTS TypeOK PositionIsValid SharesAreKept LatestRequestHonoured HeldIsRecorded
