SPECIFICATION Spec
CONSTANTS
  Readers = {r1}
  Claimers = {k1}
  Kinds = {"good", "poison"}
  MaxMsgs = 2
  MaxLen = 2
  BatchSize = 2
  MaxAttempts = 5
  MaxFaults = 0
INVARIANTS OnlyPoisonDropped
CHECK_DEADLOCK FALSE
