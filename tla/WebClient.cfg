SPECIFICATION WebSpec
CONSTANTS
  Sessions = {s}
  Session = s
  Runtimes = {r1, r2}
  NoRuntime = NoRuntime
  Connections = {1, 2, 3}
  NoSocket = 0
  Payloads = {event, exited}
  Exited = exited
  MaxReplay = 1
  MaxSequence = 2
  MaxEpoch = 1
  MaxBuffered = 1
  MaxRequests = 3
  MaxFaults = 2
INVARIANTS
  WebInvariant
PROPERTIES
  ConnectionStands
SYMMETRY RuntimesMayBeExchanged
CHECK_DEADLOCK FALSE
