SPECIFICATION FairSpec
CONSTANTS
  MaxUnits = 2
  MaxCalls = 3
  MaxRestarts = 1
  Races = {}
INVARIANTS NoOrphan ServingConsistent RetryPlanned TimersFollowState
PROPERTIES DisposedIsFinal ShutdownSettles
CHECK_DEADLOCK FALSE
