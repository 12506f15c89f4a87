SPECIFICATION FairSpec
CONSTANTS
  Codes       = {c1, c2}
  Users       = {u1, u2}
  None        = None
  Workers     = {w1}
  MaxRequests = 3
  MaxAttempts = 2
  ExpireBatch = 1
  Horizon     = 2
  Deadlines   = {1}
INVARIANTS
  OwnershipIsFinal
PROPERTIES
  OwnerOnly
  DeletedForGood
  EnabledIsLive
  ExpiredGetsDisabled
CHECK_DEADLOCK FALSE
