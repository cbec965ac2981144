SPECIFICATION HubSpec
CONSTANTS
  Sessions = {s1, s2}
  Runtimes = {r1, r2}
  NoRuntime = NoRuntime
  Connections = {c1}
  Payloads = {p}
  MaxReplay = 2
  MaxSequence = 3
  MaxEpoch = 1
SYMMETRY MCSymmetry
INVARIANTS
  HubTypeOK
  JournalIsNewest
  StreamOrdered
  ResumeComplete
CHECK_DEADLOCK FALSE
