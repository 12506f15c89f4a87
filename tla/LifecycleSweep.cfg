SPECIFICATION Spec
CONSTANTS
  Codes       = {c1}
  Users       = {u1}
  None        = None
  Workers     = {w1}
  MaxRequests = 2
  MaxAttempts = 2
  ExpireBatch = 1
  Horizon     = 2
  Deadlines   = {1, 2}
PROPERTY
  ExpiresOnlyDue
CHECK_DEADLOCK FALSE
