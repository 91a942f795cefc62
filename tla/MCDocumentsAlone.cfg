SPECIFICATION DocumentsSpec
CONSTANTS
  o1 = o1
  r1 = r1
  r2 = r2
  Observations = {o1}
  Critical = {}
  Reflections = {r1, r2}
  Past <- MCPast
  MaxLog = 5
  MaxRuns = 2
  MaxGeneration = 3
  p1 = p1
  p2 = p2
  a = a
  b = b
  c = c
  e1 = e1
  e2 = e2
  f1 = f1
  base = base
  Nowhere = Nowhere
  Missing = Missing
  Patches <- MCPatches
  Paths <- MCPaths
  Script <- MCScript
  Original <- MCOriginal
  Foreign <- MCForeign
  MaxRemovals = 1
CHECK_DEADLOCK FALSE
INVARIANTS
  PublishesAlone
