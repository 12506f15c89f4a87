SPECIFICATION FairSpec
CONSTANTS
  Readers = {r1}
  Claimers = {k1, k2}
  Kinds = {"good", "poison", "malformed"}
  MaxMsgs = 3
  MaxLen = 2
  BatchSize = 2
  MaxAttempts = 2
  MaxFaults = 1
INVARIANTS
  TypeOK
  NothingLost
  DropsAreEarned
PROPERTIES
  ImplementsDelivery
  Drains
CHECK_DEADLOCK FALSE
