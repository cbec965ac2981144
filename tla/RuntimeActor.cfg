SPECIFICATION FairActorSpec
CONSTANTS
  Runtimes = {r1, r2}
  NoRuntime = NoRuntime
  NilRuntime = NilRuntime
  MaxCached = 2
  MaxRequests = 4
  MaxPanics = 1
INVARIANTS
  ActorTypeOK
  RuntimesAgree
  MailboxInOrder
  RequestsIdempotent
PROPERTIES
  EveryRequestServed
CHECK_DEADLOCK FALSE
