SPECIFICATION TaskSpec
CONSTANTS
  Sessions = {s}
  NoTask = NoTask
  Clients = {1}
  Titles = {old, new}
  NoRewind = NoRewind
  MaxEdits = 2
  MaxSent = 1
  MaxFaults = 0
  MaxSeconds = 0
PROPERTIES
  HistoryKept
SYMMETRY TitlesMayBeExchanged
CHECK_DEADLOCK FALSE
