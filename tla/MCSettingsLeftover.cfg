SPECIFICATION SettingsSpec
CONSTANTS
  Stores <- LeftoverStores
  Wishes <- NoEdits
  MaxSaves = 0
  MaxStops = 1
  MaxKeys = 0
  MaxTargets = 2
INVARIANT MigrationLosesNothing
