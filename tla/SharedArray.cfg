SPECIFICATION Spec
CONSTANTS
  Threads = {a1, a2}
  Length = 2
  Observers = {a1}
  NoValue = NoValue
  Values <- MCValues
  MaxWrites = 2
  MaxDead = 1
INVARIANTS
  FreshMeansShown
  ScannedMeansShown
PROPERTIES
  WatcherCatchesUp
CHECK_DEADLOCK FALSE
