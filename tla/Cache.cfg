SPECIFICATION FairSpec
CONSTANTS
  Processes  = {p1, p2}
  TTL        = 2
  NegTTLs    = {0, 1}
  Fetch      = 1
  MaxVersion = 2
  MaxFaults  = 1
INVARIANTS
  TypeOK
  StaleIsBounded
  StaleForAReason
PROPERTIES
  ShowsRecent
  SelfHeals
