SPECIFICATION Spec
CONSTANTS
  Processes  = {p1, p2}
  TTL        = 2
  NegTTLs    = {0, 1}
  Fetch      = 1
  MaxVersion = 1
  MaxFaults  = 0
INVARIANT
  CreatedMeansConsistent
