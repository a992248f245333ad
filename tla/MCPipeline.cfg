CONSTANTS
  MaxTakes = 2
  MaxAborts = 1
  Targets = {}
  NoTarget = NoTarget
SPECIFICATION FollowedSpec
CHECK_DEADLOCK FALSE
INVARIANTS
  TypeOK
  StopOwnsSetup
  ErrorIsOwn
  TranscriptIsOwnUnlessLate
  NothingOrphaned
  DurationIsOwn
  NothingStuck
PROPERTIES
  FailedIsNotHeard
  KeepsThePromise
