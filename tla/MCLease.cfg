SPECIFICATION FairSpec

CONSTANTS
  MaxRuntimes = 2
  MaxOpens = 2
  MaxGeneration = 2
  MaxFaults = 1
  PollsFirst = TRUE
  Faults = {"launch", "close", "observe", "list", "report", "reload", "leave"}

INVARIANT OneRuntime
INVARIANT StopIsConfirmed
INVARIANT BoundToTheWriter
PROPERTY EndIsRecorded

CHECK_DEADLOCK FALSE
