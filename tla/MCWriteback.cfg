SPECIFICATION WritebackSpec
CONSTANTS
  Texts = {"a", "b"}
  MaxPendingBatches = 2
  MaxBatches = 4
CHECK_DEADLOCK FALSE
INVARIANTS
  DrainedIsEmpty
