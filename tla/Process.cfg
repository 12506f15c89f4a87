SPECIFICATION BootFairSpec
CONSTANTS
  Requests = {r1, r2, r3, r4}
  QueueSize = 2
  Roles = {"api", "api+worker", "worker"}
  MaxBackoff = 4
  BootWindow = 12
  MaxOpen = 1
INVARIANTS
  EveryClickCounted
  GracefulExitCountsAll
  BootInv
  ClosesLast
PROPERTY
  EndsOnSignal
CHECK_DEADLOCK FALSE
