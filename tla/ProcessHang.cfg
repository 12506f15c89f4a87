SPECIFICATION BootFairSpec
CONSTANTS
  Requests = {r1}
  QueueSize = 1
  Roles = {"api", "api+worker", "worker"}
  MaxBackoff = 4
  BootWindow = 12
  MaxOpen = 1
INVARIANTS
  CancelledBeforeStop
CHECK_DEADLOCK FALSE
