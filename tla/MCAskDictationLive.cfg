CONSTANTS
  MaxAttempts = 2
  Hotkey = FALSE
SPECIFICATION FairSpec
PROPERTIES
  EndsInTheEnd
  FailureIsNotSilent
