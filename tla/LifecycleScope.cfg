SPECIFICATION FairSpec
CONSTANTS
  Resource = {a, b}
  Descriptor <- Descriptors
  Policy = {"throw", "collect", "report", "firstError"}
  MaxOwn = 3
  GetterMay = {}
INVARIANTS OnePlace DegradeChain FailuresSurface
PROPERTIES ImplementsReleaseLedger DisposeSettles
CHECK_DEADLOCK FALSE
