SPECIFICATION Spec
CONSTANTS
  c1 = c1
  ask = ask
  say = say
  ping = ping
  old = old
  new = new
  Children <- MCChildren
  Requests <- MCRequests
  Reports <- MCReports
  Events <- MCEvents
  Transports <- MCTransports
  Of <- MCOf
  MaxClaim = 2
  MaxEvents = 1
  WritesFail = FALSE
  None = None
CHECK_DEADLOCK FALSE
INVARIANTS
  ReportRunsOnce
