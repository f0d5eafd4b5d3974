SPECIFICATION Spec
CONSTANTS
  Cursors = {k1, k2}
  Slots = {1, 2}
  Plugin = Plugin
  Owner = Owner
  NoTask = NoTask
  MaxAppends = 2
  MaxCuts = 1
INVARIANTS
  ToldTheTruth
CHECK_DEADLOCK FALSE
