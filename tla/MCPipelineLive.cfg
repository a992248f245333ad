CONSTANTS
  MaxTakes = 1
  MaxAborts = 2
  Targets = {en, fr}
  NoTarget = NoTarget
SPECIFICATION OrderlyFairSpec
CHECK_DEADLOCK FALSE
INVARIANT AckedTargetIsUsed
PROPERTIES
  EndsInTheEnd
