CONSTANTS
  MaxTakes = 2
  MaxAborts = 0
  Targets = {}
  NoTarget = NoTarget
SPECIFICATION Spec
CHECK_DEADLOCK FALSE
INVARIANT TranscriptIsOwn
