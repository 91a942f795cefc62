SPECIFICATION FairSpec

CONSTANTS
  MaxRuntimes = 2
  MaxOpens = 2
  MaxGeneration = 2
  MaxFaults = 1
  PollsFirst = TRUE
  Faults = {"list"}

PROPERTY AlwaysRecorded

CHECK_DEADLOCK FALSE
