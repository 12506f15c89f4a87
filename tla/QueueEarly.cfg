SPECIFICATION Spec
CONSTANTS
  Requests = {r1,r2}
  QueueSize = 2
SYMMETRY Symmetry
INVARIANTS DrainWaitsForRequests
CHECK_DEADLOCK FALSE
