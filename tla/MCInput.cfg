SPECIFICATION InputSpec
CONSTANTS
  Configs <- MCConfigs
  FirstConfig <- C1
  NativeOf <- MCNativeOf
  Supported = {"fn"}
  ModifierOf <- MCModifierOf
  CodeOf <- MCCodeOf
  FastRetryLimit = 3
  MaxCommands = 3
  MaxUpsets = 1
  MaxTasks = 3
  MaxAsks = 1
  MaxRuns = 2
INVARIANTS InputTypeOK  HoldsAreKept KeysUpNothingRecords OneVoiceOperation SessionsDoNotMix
PROPERTIES PausedRegistersNothing InputRegistrationSettles DroppedIsGone ServiceGetsFree
CHECK_DEADLOCK FALSE
