SPECIFICATION FairDesktopSpec
CONSTANTS
  Messages = {m1, m2}
  NoMessage = NoMessage
  Providers = {"Amp", "Claude", "Codex", "OhMyPi"}
  m1 = m1
  m2 = m2
  Texts <- TextsOf
  Noise <- NoiseOf
  MaxTurns <- TurnsOf
  MaxPursued = 1
  MaxUnread = 1
  Forgoes = FALSE
  MaxEvents = 2
  MaxCalls = 1
INVARIANTS
  DesktopTypeOK
  NeverSentTwice
  SteersAreAnswered
PROPERTIES
  CheckpointsPrecedePrompts
  QueueResumes
CHECK_DEADLOCK FALSE
