SPECIFICATION FairDeliverySpec
CONSTANTS
  j1 = j1
  j2 = j2
  b1 = b1
  b2 = b2
  west = west
  east = east
  Trunk = Trunk
  Jobs <- MCJobs
  Batches <- LiveBatches
  Branches <- MCBranches
  QueueSurvives = FALSE
  HostLoses = FALSE
  MaxSweeps = 1
  MaxPending = 1
  MaxRetained = 0
  NoJob = NoJob
  NoBatch = NoBatch
INVARIANTS
  NothingStuck
PROPERTIES
  NoRepeat
  EventuallyDelivered
