SPECIFICATION FairCompactionSpec
CONSTANTS
  MaxAttempts = 3
  MaxEra = 3
CHECK_DEADLOCK FALSE
INVARIANTS
  FlagHasHolder
  OneHook
PROPERTIES
  FlagIsGivenBack
