CONSTANTS
  MaxTakes = 1
  MaxAborts = 1
  Targets = {}
  NoTarget = NoTarget
SPECIFICATION Spec
CHECK_DEADLOCK FALSE
PROPERTY AbortStopsCapture
