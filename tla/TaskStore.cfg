SPECIFICATION MCTaskSpec
CONSTANTS
  Sessions = {s}
  NoTask = NoTask
  Clients = {1, 2}
  Titles = {old, new}
  NoRewind = NoRewind
  MaxEdits = 1
  MaxSent = 3
  MaxFaults = 1
  MaxSeconds = 1
INVARIANTS
  TaskTypeOK
  WrittenIsStored
  CleanIsStored
  RemovedStaysRemoved
PROPERTIES
  CheckpointKept
  NeverFallsBehind
SYMMETRY TitlesMayBeExchanged
CHECK_DEADLOCK FALSE
