CONSTANTS
  MaxAttempts = 2
  Hotkey = FALSE
SPECIFICATION Spec
INVARIANT AbortedStaysSilent
