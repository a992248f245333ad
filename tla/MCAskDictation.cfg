CONSTANTS
  MaxAttempts = 2
  Hotkey = TRUE
SPECIFICATION Spec
INVARIANTS
  TypeOK
  OneStage
  AbortedLatestStaysSilent
  LostOnlyAfterAbort
  NothingStuck
