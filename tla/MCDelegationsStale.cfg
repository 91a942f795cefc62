SPECIFICATION Spec
CONSTANTS
  d1 = d1
  d2 = d2
  d3 = d3
  None = None
  Delegations = {d1, d2, d3}
  Compactions = {}
  Outcomes = {"done"}
  MaxTurns = 2
  MaxAsks = 0
  Faults = {}
  MaxFaults = 0
PROPERTY NoStaleAnswer
CHECK_DEADLOCK FALSE
