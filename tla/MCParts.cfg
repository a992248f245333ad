SPECIFICATION PartsSpec
CONSTANTS
  MaxOutputs = 2
  MaxCopies = 1
  MaxCaptures = 1
  Units = 2
  Utterances <- MCUtterances
  Chunks = 2
  MaxMoves = 2
  MaxTargets = 2
  Stores <- MCStores
  PlainStores <- MCPlainStores
  Wishes <- MCWishes
  MaxSaves = 2
  MaxStops = 1
  MaxKeys = 1
  MaxChunks = 3
  Block = 2
  MaxBuffer = 2
  MaxInbox = 2
  StoredMappings <- MCMappings
  MaxSnapshots = 2
  MaxMappings = 2
  MaxFocus = 1
  Policies <- MCPolicies
  Backups <- MCBackups
  Files <- MCFiles
  MaxOps = 3
  MaxDays = 2
  MaxStarts = 1
  MaxRuns = 2
  MaxEdits = 1
INVARIANTS
  PartsTypeOK
  ClipboardComesBack
  NeverTwice
  PlacedWhereAllowed
  NothingLost
  SecretsKept
  EditSurvives
  HeardOnceInFull
  NothingOfAnotherApp
  LibraryIsWhole
  SpokenTextStaysInItsField
  NothingListensUnasked
VIEW PartsView
CHECK_DEADLOCK FALSE
