SPECIFICATION Spec
CONSTANTS
  MaxBegins = 3
  MaxGeneration = 4
  BeginDuringBegin = FALSE
  DisposeDuringBegin = FALSE
INVARIANTS LatestOnly NothingLeaks
CHECK_DEADLOCK FALSE
