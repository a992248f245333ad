CONSTANTS
  MaxTakes = 2
  MaxAborts = 1
  Targets = {}
  NoTarget = NoTarget
SPECIFICATION Spec
CHECK_DEADLOCK FALSE
PROPERTY CancelledInPolishIsNotOutput
