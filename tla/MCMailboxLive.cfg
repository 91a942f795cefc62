SPECIFICATION FairSpec
CONSTANTS
  c1 = c1
  say = say
  e1 = e1
  e2 = e2
  old = old
  new = new
  Children <- MCChildren
  Requests = {}
  Reports <- MCReports
  Events <- MCEvents
  Transports <- MCTransports
  Of <- MCOf
  MaxClaim = 1
  MaxEvents = 1
  WritesFail = TRUE
  None = None
CHECK_DEADLOCK FALSE
INVARIANTS
  BacklogIsBounded
PROPERTIES
  WaitEnds
  SentIsTaken
