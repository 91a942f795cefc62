SPECIFICATION DeliverySpec
CONSTANTS
  j1 = j1
  j2 = j2
  b1 = b1
  b2 = b2
  west = west
  east = east
  Trunk = Trunk
  Jobs <- MCJobs
  Batches <- MCBatches
  Branches <- MCBranches
  QueueSurvives = TRUE
  HostLoses = TRUE
  MaxSweeps = 1
  MaxPending = 1
  MaxRetained = 1
  NoJob = NoJob
  NoBatch = NoBatch
SYMMETRY Symmetric
INVARIANTS
  NothingLost
