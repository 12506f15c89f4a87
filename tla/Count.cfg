SPECIFICATION TotalsSpec
CONSTANTS
  Codes = {a}
  Workers = {w1, w2}
  Pipelines = {p1}
  None = None
  DirtyBatchSize = 1
  MaxClicks = 2
  MaxFaults = 1
SYMMETRY Symmetry
INVARIANTS
  Conservation
  NoIdentityConflict
  NothingForgotten
  TotalsTypeOK
  ExactAtSnapshot
  NeverOverstates
PROPERTIES
  CreditsStoredBatch
  Implements
CHECK_DEADLOCK FALSE
