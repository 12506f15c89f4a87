SPECIFICATION FairSpec
CONSTANTS
  Codes = {a, b}
  Workers = {w1, w2}
  Pipelines = {p1}
  None = None
  DirtyBatchSize = 2
  MaxClicks = 1
  MaxFaults = 2
PROPERTIES Settles
CHECK_DEADLOCK FALSE
