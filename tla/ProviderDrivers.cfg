SPECIFICATION FairDriversSpec
CONSTANTS
  m1 = m1
  m2 = m2
  Asks <- AsksOf
  Messages = {m1, m2}
  Kinds = {"Claude", "Amp", "OpenCode", "Cursor", "Grok", "Codex", "Pi", "DeepSeek"}
  MaxCalls = 1
  MaxEvents = 1
  MaxPursuits = 1
  MaxBreaks = 1
INVARIANTS
  DriversTypeOK
PROPERTIES
  KeepsContract
  SteersAreReported
  TurnsEnd
CHECK_DEADLOCK FALSE
