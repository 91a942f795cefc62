SPECIFICATION CompactionSpec
CONSTANTS
  MaxAttempts = 2
  MaxEra = 1
CHECK_DEADLOCK FALSE
INVARIANTS
  CompactsAlone
