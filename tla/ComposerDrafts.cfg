SPECIFICATION DraftsSpec
CONSTANTS
  DesktopKeys = {a, b}
  PageKeys = {c, d}
  None = None
  MaxTexts = 3
  MaxActs = 3
  MaxFailed = 1
INVARIANTS
  DraftsInvariant
PROPERTIES
  NothingResurfaces
SYMMETRY KeysMayBeExchanged
CHECK_DEADLOCK FALSE
