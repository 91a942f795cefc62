SPECIFICATION Spec
CONSTANTS
  j1 = j1
  b1 = b1
  Jobs <- MCJobs
  Batches <- MCBatches
  MaxSweeps = 2
  MaxPending = 1
  MaxRetained = 0
  NoJob = NoJob
  NoBatch = NoBatch
INVARIANTS
  ThrownIsNoResult
