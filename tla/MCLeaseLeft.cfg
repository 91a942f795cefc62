SPECIFICATION Spec

CONSTANTS
  MaxRuntimes = 2
  MaxOpens = 2
  MaxGeneration = 2
  MaxFaults = 1
  PollsFirst = TRUE
  Faults = {"leave"}

PROPERTY LeftIsLeftAlone

CHECK_DEADLOCK FALSE
