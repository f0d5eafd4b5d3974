SPECIFICATION Spec
CONSTANTS
  Agents = {a1, a2}
  Top = 2
  Values <- MCValues
  Fn <- MCFn
  Idle = Idle
  NoValue = NoValue
  MaxSeq = 4
  MaxDead = 1
INVARIANTS
  Exclusion
PROPERTIES
  Implements
  CallsEnd
