CONSTANTS
  MaxAttempts = 1
  Hotkey = TRUE
SPECIFICATION Spec
INVARIANT PressIsHonoured
