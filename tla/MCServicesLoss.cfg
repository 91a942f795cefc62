SPECIFICATION ServicesSpec
CONSTANTS
  bash = bash
  agents = agents
  other = other
  Channels <- MCChannels
  MaxEvents = 4
  Resources = 2
  MaxCells = 3
  MaxKernels = 3
  MaxOpens = 2
  MaxAttempts = 2
  MaxEra = 3
  WritesFail = FALSE
CHECK_DEADLOCK FALSE
INVARIANTS
  LossIsTold
