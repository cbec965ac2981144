SPECIFICATION MCFairSpec
CONSTANTS
  Sessions = {s}
  Session = s
  Runtimes = {r1, r2}
  Followed = r1
  NoRuntime = NoRuntime
  Connections = {1, 2, 3}
  NoConnection = 0
  Payloads = {event, exited}
  Exited = exited
  MaxReplay = 1
  MaxSequence = 2
  MaxEpoch = 1
  MaxBuffered = 1
  AttachTimesOut = FALSE
INVARIANTS
  DeliveryInvariant
PROPERTIES
  ImplementsStream
  AttachedCatchesUp
  AwaitingEnds
CHECK_DEADLOCK FALSE
