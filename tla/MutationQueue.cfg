SPECIFICATION FairSpec
CONSTANTS
  t1 = t1
  t2 = t2
  t3 = t3
  t4 = t4
  o1 = o1
  o2 = o2
  Task <- FourTasks
  Owner = {o1, o2}
  NoOwner = NoOwner
  ownerOf <- OwnerOfFour
  Hole = Hole
  CompactionFloor = 1
  CancelMayFail = TRUE
  SinkEnqueues = FALSE
INVARIANTS SingleFlight ArrayConsistent
PROPERTIES EverySubmissionSettles ImplementsFifoExecutor
CHECK_DEADLOCK FALSE
