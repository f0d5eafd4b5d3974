SPECIFICATION FairSpec
CONSTANTS
  MaxUnits = 2
  MaxRate = 2
  MaxRequests = 3
INVARIANTS CapacityHolds RateHolds LeasesMatch
PROPERTIES FifoAdmission CloseIsFinal EveryRequestAnswered
CHECK_DEADLOCK FALSE
