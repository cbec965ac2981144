SPECIFICATION DesktopSpec
CONSTANTS
  Messages = {m1, m2}
  NoMessage = NoMessage
  Providers = {"Claude"}
  m1 = m1
  m2 = m2
  Texts <- TextsOf
  Noise <- Quiet
  MaxTurns <- TurnsOf
  MaxPursued = 0
  MaxUnread = 1
  Forgoes = FALSE
  MaxEvents = 3
  MaxCalls = 1
INVARIANTS
  PreparedTurnStands
CHECK_DEADLOCK FALSE
