SPECIFICATION SettingsSpec
CONSTANTS
  Values = {a, b, c}
  Initial = a
  Unknown = Unknown
  MaxUpdates = 4
  MaxReplaced = 2
  MaxFailures = 2
INVARIANTS
  SettingsTypeOK
  SettingsInvariant
PROPERTIES
  SettlesUnlessSkipped
CHECK_DEADLOCK FALSE
