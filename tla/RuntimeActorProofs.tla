------------------------- MODULE RuntimeActorProofs -------------------------
(***************************************************************************)
(* Proofs about RuntimeActor, for any runtimes, any number of requests and *)
(* panics and any size of the response cache: its types, that the backend, *)
(* the hub and the worker agree on what the session runs, that the mailbox *)
(* keeps dispatch order, and that resent requests are carried out once.    *)
(***************************************************************************)
EXTENDS RuntimeActor, SequenceTheorems, TLAPS

\* The worker is between taking a request and having answered it ...
Executing == {"handling", "launching", "answering"}

\* ... or has yet to settle it.
Busy == Executing \cup {"settling"}

\* Only a start carries a runtime of its own, only a request of a runtime's
\* handle goes without an id, and what dispatch_independent runs are goals.
RequestsWellFormed ==
  /\ \A n \in 1..Len(requests) :
       /\ requests[n].command = "start" => requests[n].runtime \in Runtimes
       /\ requests[n].command \in OfHandle => requests[n].id = 0 /\ requests[n].runtime \in Runtimes
  /\ \A n \in independent : ~ IsActorRequest(n)

\* A worker runs exactly while its mailbox is open, and what it handles and
\* what waits are requests of the mailbox.
WorkerHasMailbox ==
  /\ worker = "none" <=> mailbox # "open"
  /\ mailbox # "open" => queue = << >>
  /\ \A i \in 1..Len(queue) : IsActorRequest(queue[i])
  /\ worker \in Busy <=> current # 0
  /\ current # 0 => IsActorRequest(current)
  /\ worker = "launching" => Command = "start"

-----------------------------------------------------------------------------

\* The hub streams the runtime the backend has.
HubStreams == backend # NoRuntime => streaming = backend

\* Backend, hub and worker agree, if nothing disturbed them.
AllAgree == undisturbed => streaming = backend /\ supervised = backend

(***************************************************************************)
(* What the backend has done for the current request, which the worker has *)
(* yet to follow: Settle brings both back to agreement.                    *)
(***************************************************************************)
Returned ==
  /\ Command = "start" =>
       IF outcome.ok
         THEN backend = RuntimeId /\ streaming = RuntimeId
         ELSE /\ backend = NoRuntime
              /\ streaming = IF worker = "answering" THEN RuntimeId ELSE NoRuntime
  /\ Command = "attach" => HubStreams /\ AllAgree /\ outcome.runtime = backend
  /\ Command = "prompt" => HubStreams /\ AllAgree /\ (outcome.ok => backend = RuntimeId)
  /\ Command = "close" =>
       /\ HubStreams /\ backend # RuntimeId
       /\ undisturbed =>
            /\ streaming = supervised
            /\ backend = IF supervised = RuntimeId THEN NoRuntime ELSE supervised
  /\ Command = "remove" => IF outcome.ok THEN backend = NoRuntime ELSE HubStreams /\ AllAgree
  /\ Command = "rewind" => HubStreams /\ AllAgree /\ (outcome.ok => ~ undisturbed)

AgreeAtEveryStage ==
  /\ Settled => HubStreams /\ AllAgree
  /\ worker = "retiring" => supervised = NoRuntime
  /\ worker = "none" /\ undisturbed => supervised = NoRuntime
  /\ worker = "handling" =>
       IF Command = "start" THEN streaming = RuntimeId ELSE HubStreams /\ AllAgree
  /\ worker = "launching" => backend = NoRuntime /\ streaming = RuntimeId
  /\ worker \in {"answering", "settling"} => Returned

-----------------------------------------------------------------------------

\* What waits was dispatched after what was taken, and waits in that order.
QueueInOrder ==
  /\ \A i, j \in 1..Len(queue) : i < j => queue[i] < queue[j]
  /\ \A i \in 1..Len(handled), j \in 1..Len(queue) :
       IsActorRequest(handled[i]) => handled[i] < queue[j]

-----------------------------------------------------------------------------

\* The cache holds one response of an id, and none of what is being executed.
CachedOnce ==
  /\ \A i, j \in 1..Len(responses) : responses[i].id = responses[j].id => i = j
  /\ worker \in Executing /\ RequestId # 0 =>
       \A i \in 1..Len(responses) : responses[i].id # RequestId

\* Every answer is in the cache, unless its id has been evicted.
AnsweredIsCached ==
  \A n \in 1..Len(requests) :
    answered[n] # NoAnswer /\ requests[n].id \notin evicted =>
      \E i \in 1..Len(responses) :
        responses[i].id = requests[n].id /\ responses[i].outcome = answered[n]

\* What was carried out under an id is answered, or being executed, or died.
HandledIsAnswered ==
  \A i \in 1..Len(handled) :
    requests[handled[i]].id # 0 =>
      \/ handled[i] \in discarded \/ answered[handled[i]] # NoAnswer
      \/ worker \in Executing /\ handled[i] = current

\* No two requests of an id still cached were both carried out.
HandledOnce ==
  \A i, j \in 1..Len(handled) :
    LET m == handled[i]  n == handled[j] IN
    /\ m # n /\ requests[m].id = requests[n].id
    /\ {m, n} \cap discarded = {}
    => requests[m].id \in {0} \cup evicted

ActorIInv ==
  /\ ActorTypeOK /\ RequestsWellFormed /\ WorkerHasMailbox
  /\ AgreeAtEveryStage
  /\ QueueInOrder /\ MailboxInOrder
  /\ CachedOnce /\ AnsweredIsCached /\ HandledIsAnswered /\ HandledOnce

-----------------------------------------------------------------------------

NewRequest == NewRequests \cup NotificationRequests \cup ResentRequests

\* No outcome is taken for the absence of one.
LEMMA NoAnswerIsNoOutcome == NoAnswer \notin Outcome
<1>1. ASSUME NoAnswer \in Outcome  PROVE FALSE
  <2>1. DOMAIN NoAnswer = {"ok", "runtime"}
    BY <1>1 DEF Outcome
  <2>2. DOMAIN NoAnswer = {"none"}
    BY DEF NoAnswer
  <2> QED  BY <2>1, <2>2
<1> QED  BY <1>1

\* The outcomes Backend::handle returns.
LEMMA OutcomesAreTyped ==
  /\ Ok \in Outcome /\ Failed \in Outcome
  /\ \A r \in Runtimes \cup {NoRuntime} : Attached(r) \in Outcome
BY DEF Ok, Failed, Attached, Outcome

\* Whatever a client sends is a request, and as well-formed as those before it.
LEMMA NewRequestsAreTyped ==
  ASSUME ActorTypeOK, NEW request \in NewRequest
  PROVE  request \in Request
<1> USE DEF ActorTypeOK
<1>1. CASE request \in NewRequests
  BY <1>1 DEF NewRequests, Request, Actions, OfHandle
<1>2. CASE request \in NotificationRequests
  <2>1. Used \subseteq Runtimes \cup {NilRuntime}
    <3>1. \A n \in 1..Len(requests) : requests[n] \in Request
      BY ElementOfSeq
    <3> QED  BY <3>1 DEF Used, Request
  <2> QED  BY <1>2, <2>1 DEF NotificationRequests, Request, Actions, OfHandle
<1>3. CASE request \in ResentRequests
  BY <1>3 DEF ResentRequests
<1> QED  BY <1>1, <1>2, <1>3 DEF NewRequest

\* The backend's commands: the worker goes on, and nothing but the backend's
\* own state, the outcome and the history of disturbances changes.
LEMMA BackendFrame ==
  ASSUME BackendNext
  PROVE  /\ worker \in {"handling", "launching"} /\ worker' \in {"launching", "answering"}
         /\ worker' = "launching" => Command = "start"
         /\ UNCHANGED <<requests, mailbox, queue, current, supervised, independent, streaming,
                        responses, handled, answered, discarded, evicted, panics>>
<1> USE DEF Handling, Return
<1>1. CASE ReplacePrevious
  BY <1>1 DEF ReplacePrevious
<1>2. CASE Launch
  BY <1>2 DEF Launch
<1>3. CASE AttachSession
  BY <1>3 DEF AttachSession
<1>4. CASE DriverCommand
  BY <1>4 DEF DriverCommand
<1>5. CASE CloseSession
  BY <1>5 DEF CloseSession
<1>6. CASE RemoveSession
  BY <1>6 DEF RemoveSession
<1>7. CASE RewindSession
  BY <1>7 DEF RewindSession
<1> QED  BY <1>1, <1>2, <1>3, <1>4, <1>5, <1>6, <1>7 DEF BackendNext

-----------------------------------------------------------------------------

\* The backend's commands keep the types.
LEMMA BackendTypeStep ==
  ASSUME ActorTypeOK, RequestsWellFormed, WorkerHasMailbox, BackendNext
  PROVE  ActorTypeOK'
<1>1. /\ worker' \in {"launching", "answering"}
      /\ UNCHANGED <<requests, mailbox, queue, current, supervised, independent, streaming,
                     responses, handled, answered, discarded, evicted, panics>>
  BY BackendFrame
<1>2. /\ backend' \in Runtimes \cup {NoRuntime} /\ outcome' \in Outcome
      /\ undisturbed' \in BOOLEAN
  <2> USE OutcomesAreTyped DEF ActorTypeOK, Handling, Return
  <2>1. CASE ReplacePrevious
    BY <2>1 DEF ReplacePrevious
  <2>2. CASE Launch
    <3>1. current \in 1..Len(requests) /\ Command = "start"
      BY <2>2 DEF Launch, WorkerHasMailbox, Busy, Executing
    <3>2. RuntimeId \in Runtimes
      BY <3>1 DEF RequestsWellFormed, RuntimeId, Command
    <3> QED  BY <2>2, <3>2 DEF Launch
  <2>3. CASE AttachSession
    BY <2>3 DEF AttachSession
  <2>4. CASE DriverCommand
    BY <2>4 DEF DriverCommand
  <2>5. CASE CloseSession
    BY <2>5 DEF CloseSession
  <2>6. CASE RemoveSession
    BY <2>6 DEF RemoveSession
  <2>7. CASE RewindSession
    BY <2>7 DEF RewindSession
  <2> QED  BY <2>1, <2>2, <2>3, <2>4, <2>5, <2>6, <2>7 DEF BackendNext
<1> QED  BY <1>1, <1>2 DEF ActorTypeOK

\* A dispatched request keeps the types.
LEMMA DispatchTypeStep ==
  ASSUME ActorTypeOK, NEW request \in NewRequest, Dispatch(request)
  PROVE  ActorTypeOK'
<1> USE DEF ActorTypeOK
<1>1. request \in Request
  BY NewRequestsAreTyped
<1> DEFINE n == Len(requests) + 1
<1>2. /\ requests' \in Seq(Request) /\ Len(requests') = Len(requests) + 1
      /\ answered' \in Seq(Outcome \cup {NoAnswer}) /\ Len(answered') = Len(requests')
  BY <1>1 DEF Dispatch
<1>3. /\ 1..Len(requests) \subseteq 1..Len(requests') /\ Len(requests) + 1 \in 1..Len(requests')
      /\ 0..Len(requests) \subseteq 0..Len(requests')
  BY <1>2
<1>4. Seq(1..Len(requests)) \subseteq Seq(1..Len(requests'))
  BY <1>3
<1>5. queue \in Seq(1..Len(requests')) /\ handled \in Seq(1..Len(requests'))
  BY <1>4
<1>6. CASE TargetsRuntime(request.command)
  <2>1. /\ queue' \in Seq(1..Len(requests')) /\ mailbox' \in {"none", "open", "dead"}
        /\ worker' \in {"none", "waiting", "handling", "launching", "answering", "settling",
                        "retiring"}
        /\ supervised' \in Runtimes \cup {NoRuntime, NilRuntime}
    <3>1. CASE mailbox = "open"
      <4>1. Append(queue, n) \in Seq(1..Len(requests'))
        BY <1>3, <1>5, AppendProperties
      <4> QED  BY <1>6, <3>1, <4>1 DEF Dispatch, Enqueue
    <3>2. CASE mailbox # "open"
      <4>1. <<n>> \in Seq(1..Len(requests'))
        BY <1>3
      <4> QED  BY <1>6, <3>2, <4>1 DEF Dispatch, Enqueue
    <3> QED  BY <3>1, <3>2
  <2> QED  BY <1>2, <1>3, <1>5, <1>6, <2>1 DEF Dispatch, runtimeVars
<1>7. CASE ~ TargetsRuntime(request.command)
  BY <1>2, <1>3, <1>5, <1>7 DEF Dispatch, runtimeVars
<1> QED  BY <1>6, <1>7

\* Every step keeps the types.
LEMMA TypeStep ==
  ASSUME ActorTypeOK, RequestsWellFormed, WorkerHasMailbox, [ActorNext]_actorVars
  PROVE  ActorTypeOK'
<1>1. ASSUME NEW request \in NewRequest, Dispatch(request)  PROVE ActorTypeOK'
  BY <1>1, DispatchTypeStep
<1>2. CASE TakeRequest
  <2>1. Head(queue) \in 1..Len(requests) /\ Tail(queue) \in Seq(1..Len(requests))
    BY <1>2 DEF TakeRequest, ActorTypeOK
  <2>2. CachedOutcomes(requests[Head(queue)].id) \subseteq Outcome
    <3>1. \A i \in 1..Len(responses) : responses[i] \in [id: Nat, outcome: Outcome]
      BY ElementOfSeq DEF ActorTypeOK
    <3> QED  BY <3>1 DEF CachedOutcomes
  <2>3. requests[Head(queue)].command = "start" => requests[Head(queue)].runtime \in Runtimes
    BY <2>1 DEF RequestsWellFormed
  <2>4. CASE requests[Head(queue)].id # 0 /\ CachedOutcomes(requests[Head(queue)].id) # {}
    <3>1. PICK answer \in Outcome : answered' = [answered EXCEPT ![Head(queue)] = answer]
      BY <1>2, <2>2, <2>4 DEF TakeRequest
    <3>2. answered' \in Seq(Outcome \cup {NoAnswer}) /\ Len(answered') = Len(answered)
      <4>1. Head(queue) \in 1..Len(answered) /\ answer \in Outcome \cup {NoAnswer}
        BY <2>1 DEF ActorTypeOK
      <4> QED  BY <3>1, <4>1, ExceptSeq DEF ActorTypeOK
    <3>3. worker' \in {"retiring", "waiting"} /\ UNCHANGED <<current, streaming, handled>>
      BY <1>2, <2>4 DEF TakeRequest
    <3>4. /\ queue' = Tail(queue)
          /\ UNCHANGED <<requests, mailbox, outcome, supervised, independent, backend, responses,
                         discarded, evicted, panics, undisturbed>>
      BY <1>2 DEF TakeRequest
    <3> QED  BY <2>1, <3>2, <3>3, <3>4 DEF ActorTypeOK
  <2>5. CASE ~ (requests[Head(queue)].id # 0 /\ CachedOutcomes(requests[Head(queue)].id) # {})
    <3>1. Append(handled, Head(queue)) \in Seq(1..Len(requests))
      BY <2>1 DEF ActorTypeOK
    <3>2. streaming' \in Runtimes \cup {NoRuntime}
      BY <1>2, <2>3, <2>5 DEF TakeRequest, ActorTypeOK
    <3>3. /\ current' = Head(queue) /\ worker' = "handling" /\ UNCHANGED answered
          /\ handled' = Append(handled, Head(queue))
      BY <1>2, <2>5 DEF TakeRequest
    <3>4. /\ queue' = Tail(queue)
          /\ UNCHANGED <<requests, mailbox, outcome, supervised, independent, backend, responses,
                         discarded, evicted, panics, undisturbed>>
      BY <1>2 DEF TakeRequest
    <3> QED  BY <2>1, <3>1, <3>2, <3>3, <3>4 DEF ActorTypeOK
  <2> QED  BY <2>4, <2>5
<1>3. CASE BackendNext
  BY <1>3, BackendTypeStep
<1>4. CASE Answer
  <2> USE DEF ActorTypeOK
  <2>1. current \in 1..Len(requests)
    BY <1>4 DEF Answer, WorkerHasMailbox, Busy, Executing
  <2>2. requests[current] \in Request
    BY <2>1
  <2>3. RequestId \in Nat
    BY <2>2 DEF RequestId, Request
  <2>4. CASE RequestId # 0
    <3> DEFINE cached == Append(responses, [id |-> RequestId, outcome |-> outcome])
    <3>1. cached \in Seq([id: Nat, outcome: Outcome]) /\ Len(cached) = Len(responses) + 1
      BY <2>3
    <3> HIDE DEF cached
    <3>2. /\ Tail(cached) \in Seq([id: Nat, outcome: Outcome])
          /\ Len(Tail(cached)) = Len(responses)
          /\ Head(cached) \in [id: Nat, outcome: Outcome]
      <4> DEFINE Response == [id: Nat, outcome: Outcome]
      <4>1. cached \in Seq(Response) /\ cached # << >> /\ Len(responses) \in Nat
        BY <3>1
      <4> HIDE DEF Response
      <4>2. /\ Tail(cached) \in Seq(Response) /\ Head(cached) \in Response
            /\ Len(Tail(cached)) = Len(cached) - 1
        BY <4>1, HeadTailProperties
      <4> QED  BY <3>1, <4>1, <4>2 DEF Response
    <3>3. /\ responses' \in Seq([id: Nat, outcome: Outcome]) /\ Len(responses') <= MaxCached
          /\ evicted' \subseteq Nat
      <4>2. CASE Len(cached) > MaxCached
        <5>1. responses' = Tail(cached) /\ evicted' = evicted \cup {Head(cached).id}
          BY <1>4, <2>4, <4>2 DEF Answer, CacheResponse, cached
        <5> QED  BY <3>2, <5>1
      <4>3. CASE ~ (Len(cached) > MaxCached)
        <5>1. responses' = cached /\ evicted' = evicted
          BY <1>4, <2>4, <4>3 DEF Answer, CacheResponse, cached
        <5> QED  BY <3>1, <4>3, <5>1, MaxCachedAssumption
      <4> QED  BY <4>2, <4>3
    <3>4. answered' \in Seq(Outcome \cup {NoAnswer}) /\ Len(answered') = Len(requests)
      <4>1. answered' = [answered EXCEPT ![current] = outcome]
        BY <1>4, <2>4 DEF Answer
      <4> QED  BY <2>1, <4>1
    <3> QED  BY <1>4, <3>3, <3>4 DEF Answer
  <2>5. CASE RequestId = 0
    BY <1>4, <2>5 DEF Answer
  <2> QED  BY <2>4, <2>5
<1>5. CASE Settle
  <2> USE DEF ActorTypeOK
  <2>1. current \in 1..Len(requests)
    BY <1>5 DEF Settle, WorkerHasMailbox, Busy, Executing
  <2>2. RuntimeId \in Runtimes \cup {NilRuntime}
    <3>1. requests[current] \in Request
      BY <2>1
    <3> QED  BY <3>1 DEF RuntimeId, Request
  <2>3. SupervisedNext \in Runtimes \cup {NoRuntime, NilRuntime}
    BY <2>2 DEF SupervisedNext, Outcome
  <2> QED  BY <1>5, <2>3 DEF Settle, historyVars
<1>6. CASE TakeQueuedOrRetire
  BY <1>6 DEF TakeQueuedOrRetire, ActorTypeOK, runtimeVars, historyVars
<1>7. ASSUME NEW n \in independent, IndependentRuns(n)  PROVE ActorTypeOK'
  BY <1>7 DEF IndependentRuns, ActorTypeOK, workerVars, runtimeVars
<1>8. CASE WorkerPanics
  <2> USE DEF ActorTypeOK
  <2>1. current \in 1..Len(requests)
    BY <1>8 DEF WorkerPanics, WorkerHasMailbox, Busy, Executing
  <2>2. discarded' \subseteq 1..Len(requests)
    <3>1. {queue[i] : i \in 1..Len(queue)} \subseteq 1..Len(requests)
      OBVIOUS
    <3> QED  BY <1>8, <2>1, <3>1 DEF WorkerPanics
  <2>3. << >> \in Seq(1..Len(requests))
    OBVIOUS
  <2>4. panics' \in Nat /\ undisturbed' \in BOOLEAN
    <3>1. panics' = panics + 1 /\ undisturbed' = FALSE
      BY <1>8 DEF WorkerPanics
    <3>2. panics \in Nat
      OBVIOUS
    <3>3. panics' \in Nat
      BY <3>1, <3>2
    <3>4. undisturbed' \in BOOLEAN
      BY <3>1
    <3> QED  BY <3>3, <3>4
  <2> QED  BY <1>8, <2>2, <2>3, <2>4 DEF WorkerPanics, runtimeVars
<1>9. CASE UNCHANGED actorVars
  BY <1>9 DEF ActorTypeOK, actorVars, workerVars, runtimeVars, historyVars
<1> QED
  BY <1>1, <1>2, <1>3, <1>4, <1>5, <1>6, <1>7, <1>8, <1>9
  DEF ActorNext, ClientNext, NewRequest, WorkerNext, IndependentNext

-----------------------------------------------------------------------------

\* Dispatch appends to the requests and the answers and keeps the others.
LEMMA DispatchAppends ==
  ASSUME ActorTypeOK, NEW request \in NewRequest, Dispatch(request)
  PROVE  /\ Len(requests) \in Nat /\ Len(requests') = Len(requests) + 1
         /\ \A n \in 1..Len(requests) : requests'[n] = requests[n] /\ answered'[n] = answered[n]
         /\ requests'[Len(requests) + 1] = request
         /\ answered'[Len(requests) + 1] = NoAnswer
<1>1. request \in Request
  BY NewRequestsAreTyped
<1>2. requests' = Append(requests, request) /\ answered' = Append(answered, NoAnswer)
  BY DEF Dispatch
<1>3. /\ requests \in Seq(Request) /\ answered \in Seq(Outcome \cup {NoAnswer})
      /\ Len(answered) = Len(requests)
  BY DEF ActorTypeOK
<1>4. Len(requests) \in Nat
  BY <1>3, LenProperties
<1> QED  BY <1>1, <1>2, <1>3, <1>4, AppendProperties

\* What clients send is as well-formed as what they have sent.
LEMMA NewRequestsWellFormed ==
  ASSUME ActorTypeOK, RequestsWellFormed, NEW request \in NewRequest
  PROVE  /\ request.command = "start" => request.runtime \in Runtimes
         /\ request.command \in OfHandle => request.id = 0 /\ request.runtime \in Runtimes
<1>1. CASE request \in NewRequests
  BY <1>1 DEF NewRequests, OfHandle
<1>2. CASE request \in NotificationRequests
  <2>1. \A n \in 1..Len(requests) : requests[n] \in Request
    BY ElementOfSeq DEF ActorTypeOK
  <2>2. Used \subseteq Runtimes \cup {NilRuntime}
    BY <2>1 DEF Used, Request
  <2> QED  BY <1>2, <2>2 DEF NotificationRequests, OfHandle
<1>3. CASE request \in ResentRequests
  BY <1>3 DEF ResentRequests, RequestsWellFormed
<1> QED  BY <1>1, <1>2, <1>3 DEF NewRequest

\* Every step keeps the requests well-formed.
LEMMA WellFormedStep ==
  ASSUME ActorTypeOK, RequestsWellFormed, [ActorNext]_actorVars
  PROVE  RequestsWellFormed'
<1>1. ASSUME NEW request \in NewRequest, Dispatch(request)  PROVE RequestsWellFormed'
  <2>1. /\ Len(requests) \in Nat /\ Len(requests') = Len(requests) + 1
        /\ \A n \in 1..Len(requests) : requests'[n] = requests[n]
        /\ requests'[Len(requests) + 1] = request
    BY <1>1, DispatchAppends
  <2>2. /\ request.command = "start" => request.runtime \in Runtimes
        /\ request.command \in OfHandle => request.id = 0 /\ request.runtime \in Runtimes
    BY NewRequestsWellFormed
  <2>3. \A n \in 1..Len(requests') : n \in 1..Len(requests) \/ n = Len(requests) + 1
    BY <2>1
  <2>4. \A n \in 1..Len(requests') :
          /\ requests'[n].command = "start" => requests'[n].runtime \in Runtimes
          /\ requests'[n].command \in OfHandle =>
               requests'[n].id = 0 /\ requests'[n].runtime \in Runtimes
    BY <2>1, <2>2, <2>3 DEF RequestsWellFormed
  <2>5. \A n \in independent' : ~ IsActorRequest(n)'
    <3>1. \A n \in independent : n \in 1..Len(requests) /\ requests[n].command = "goal"
      BY DEF ActorTypeOK, RequestsWellFormed, IsActorRequest
    <3>2. \A n \in independent' \ independent :
            n = Len(requests) + 1 /\ request.command = "goal"
      BY <1>1 DEF Dispatch, TargetsRuntime
    <3> QED  BY <2>1, <3>1, <3>2 DEF IsActorRequest
  <2> QED  BY <2>4, <2>5 DEF RequestsWellFormed
<1>2. ASSUME UNCHANGED requests, independent' \subseteq independent  PROVE RequestsWellFormed'
  BY <1>2 DEF RequestsWellFormed, IsActorRequest
<1>3. CASE BackendNext
  BY <1>2, <1>3, BackendFrame
<1>4. CASE TakeRequest
  BY <1>2, <1>4 DEF TakeRequest
<1>5. CASE Answer
  BY <1>2, <1>5 DEF Answer
<1>6. CASE Settle
  BY <1>2, <1>6 DEF Settle
<1>7. CASE TakeQueuedOrRetire
  BY <1>2, <1>7 DEF TakeQueuedOrRetire
<1>8. ASSUME NEW n \in independent, IndependentRuns(n)  PROVE RequestsWellFormed'
  BY <1>2, <1>8 DEF IndependentRuns
<1>9. CASE WorkerPanics
  BY <1>2, <1>9 DEF WorkerPanics
<1>10. CASE UNCHANGED actorVars
  BY <1>2, <1>10 DEF actorVars
<1> QED
  BY <1>1, <1>3, <1>4, <1>5, <1>6, <1>7, <1>8, <1>9, <1>10
  DEF ActorNext, ClientNext, NewRequest, WorkerNext, IndependentNext

\* Every step keeps worker and mailbox together, and other requests out of it.
LEMMA MailboxStep ==
  ASSUME ActorTypeOK, RequestsWellFormed, WorkerHasMailbox, [ActorNext]_actorVars
  PROVE  WorkerHasMailbox'
<1> USE DEF WorkerHasMailbox, Busy, Executing
<1>1. ASSUME NEW request \in NewRequest, Dispatch(request)  PROVE WorkerHasMailbox'
  <2> DEFINE n == Len(requests) + 1
  <2>1. /\ Len(requests) \in Nat
        /\ \A m \in 1..Len(requests) : requests'[m] = requests[m]
        /\ requests'[n] = request
    BY <1>1, DispatchAppends
  <2>2. /\ current \in 0..Len(requests) /\ current' = current
        /\ queue \in Seq(1..Len(requests))
    BY <1>1 DEF ActorTypeOK, Dispatch
  <2>3. current # 0 => current \in 1..Len(requests)
    BY <2>1, <2>2
  <2>4. /\ current' # 0 => IsActorRequest(current)'
        /\ current # 0 => Command' = Command
    BY <2>1, <2>2, <2>3 DEF IsActorRequest, Command
  <2>5. \A i \in 1..Len(queue) :
          queue[i] \in 1..Len(requests) /\ requests'[queue[i]].command # "goal"
    BY <2>1, <2>2, ElementOfSeq DEF IsActorRequest
  <2>6. CASE ~ TargetsRuntime(request.command)
    <3>1. UNCHANGED <<mailbox, queue, worker>>
      BY <1>1, <2>6 DEF Dispatch
    <3> QED  BY <2>2, <2>4, <2>5, <3>1 DEF IsActorRequest
  <2>7. CASE TargetsRuntime(request.command)
    <3>1. requests'[n].command # "goal"
      BY <2>1, <2>7 DEF TargetsRuntime
    <3>2. CASE mailbox = "open"
      <4>1. queue' = Append(queue, n) /\ UNCHANGED <<mailbox, worker>>
        BY <1>1, <2>7, <3>2 DEF Dispatch, Enqueue
      <4>2. queue \in Seq(Nat) /\ n \in Nat
        BY <2>1, <2>2, SeqMonotonic
      <4>3. /\ Len(queue') = Len(queue) + 1 /\ Len(queue) \in Nat /\ queue'[Len(queue) + 1] = n
            /\ \A i \in 1..Len(queue) : queue'[i] = queue[i]
        BY <4>1, <4>2, AppendProperties, LenProperties
      <4>4. \A i \in 1..Len(queue') : i \in 1..Len(queue) \/ i = Len(queue) + 1
        BY <4>3
      <4>5. \A i \in 1..Len(queue') : IsActorRequest(queue[i])'
        BY <2>5, <3>1, <4>3, <4>4 DEF IsActorRequest
      <4> QED  BY <2>2, <2>4, <3>2, <4>1, <4>5
    <3>3. CASE mailbox # "open"
      <4>1. mailbox' = "open" /\ queue' = <<n>> /\ worker' = "waiting" /\ current' = 0
        BY <1>1, <2>2, <2>7, <3>3 DEF Dispatch, Enqueue
      <4>2. \A i \in 1..Len(queue') : IsActorRequest(queue[i])'
        BY <3>1, <4>1 DEF IsActorRequest
      <4> QED  BY <4>1, <4>2
    <3> QED  BY <3>2, <3>3
  <2> QED  BY <2>6, <2>7
<1>2. CASE BackendNext
  BY <1>2, BackendFrame DEF IsActorRequest, Command
<1>3. CASE TakeRequest
  <2>1. /\ worker = "waiting" /\ queue # << >> /\ queue' = Tail(queue)
        /\ UNCHANGED <<requests, mailbox>>
    BY <1>3 DEF TakeRequest
  <2>2. /\ queue \in Seq(1..Len(requests)) /\ Head(queue) \in 1..Len(requests)
        /\ Head(queue) = queue[1] /\ 1 \in 1..Len(queue)
        /\ Len(Tail(queue)) = Len(queue) - 1 /\ Len(queue) \in Nat
        /\ \A i \in 1..Len(Tail(queue)) : Tail(queue)[i] = queue[i + 1] /\ i + 1 \in 1..Len(queue)
    BY <2>1, HeadTailProperties DEF ActorTypeOK
  <2>3. \A i \in 1..Len(queue') : IsActorRequest(queue[i])'
    BY <2>1, <2>2 DEF IsActorRequest
  <2>4. \/ worker' = "handling" /\ current' = Head(queue)
        \/ worker' \in {"retiring", "waiting"} /\ UNCHANGED current
    BY <1>3 DEF TakeRequest
  <2> QED  BY <2>1, <2>2, <2>3, <2>4 DEF IsActorRequest
<1>4. CASE Answer
  BY <1>4 DEF Answer, IsActorRequest
<1>5. CASE Settle
  BY <1>5 DEF Settle, IsActorRequest
<1>6. CASE TakeQueuedOrRetire
  BY <1>6 DEF TakeQueuedOrRetire, IsActorRequest
<1>7. ASSUME NEW n \in independent, IndependentRuns(n)  PROVE WorkerHasMailbox'
  BY <1>7 DEF IndependentRuns, workerVars, IsActorRequest, Command
<1>8. CASE WorkerPanics
  BY <1>8 DEF WorkerPanics
<1>9. CASE UNCHANGED actorVars
  BY <1>9 DEF actorVars, workerVars, IsActorRequest, Command
<1> QED
  BY <1>1, <1>2, <1>3, <1>4, <1>5, <1>6, <1>7, <1>8, <1>9
  DEF ActorNext, ClientNext, NewRequest, WorkerNext, IndependentNext

-----------------------------------------------------------------------------

\* What the backend has done when it returns is what Settle expects.
LEMMA BackendAgreeStep ==
  ASSUME ActorTypeOK, RequestsWellFormed, WorkerHasMailbox, AgreeAtEveryStage, BackendNext
  PROVE  AgreeAtEveryStage'
<1> USE DEF Handling, Return, HubStreams, AllAgree
<1>1. /\ UNCHANGED <<Command, RuntimeId, streaming, supervised>>
      /\ current # 0 /\ current \in 0..Len(requests)
  BY BackendFrame DEF Command, RuntimeId, WorkerHasMailbox, Busy, Executing, ActorTypeOK
<1>2. Command \in {"start", "prompt", "close"} => RuntimeId \in Runtimes
  <2>1. current \in 1..Len(requests)
    BY <1>1
  <2> QED  BY <2>1 DEF RequestsWellFormed, RuntimeId, Command, OfHandle
<1>3. CASE ReplacePrevious
  BY <1>1, <1>3 DEF ReplacePrevious, AgreeAtEveryStage, Settled
<1>4. SUFFICES ASSUME worker' = "answering"  PROVE Returned'
  BY <1>3, <1>4, BackendFrame
  DEF AgreeAtEveryStage, Settled, BackendNext, Launch, AttachSession, DriverCommand, CloseSession,
      RemoveSession, RewindSession
<1> USE DEF Ok, Failed, Attached
<1>5. CASE Launch
  BY <1>1, <1>4, <1>5 DEF Launch, AgreeAtEveryStage, Returned, WorkerHasMailbox
<1>6. CASE AttachSession
  BY <1>1, <1>4, <1>6 DEF AttachSession, AgreeAtEveryStage, Returned
<1>7. CASE DriverCommand
  BY <1>1, <1>4, <1>7 DEF DriverCommand, AgreeAtEveryStage, Returned
<1>8. CASE CloseSession
  BY <1>1, <1>2, <1>4, <1>8, ActorRuntimeAssumption
  DEF CloseSession, AgreeAtEveryStage, Returned
<1>9. CASE RemoveSession
  BY <1>1, <1>4, <1>9 DEF RemoveSession, AgreeAtEveryStage, Returned
<1>10. CASE RewindSession
  BY <1>1, <1>4, <1>10 DEF RewindSession, AgreeAtEveryStage, Returned
<1> QED  BY <1>3, <1>4, <1>5, <1>6, <1>7, <1>8, <1>9, <1>10 DEF BackendNext, ReplacePrevious

\* Backend, hub and worker agree again whenever a request is settled.
LEMMA AgreeStep ==
  ASSUME ActorTypeOK, RequestsWellFormed, WorkerHasMailbox, AgreeAtEveryStage,
         [ActorNext]_actorVars
  PROVE  AgreeAtEveryStage'
<1> USE DEF HubStreams, AllAgree, Settled
<1>1. worker \in Busy => current \in 1..Len(requests) /\ Command \in Actions \ {"goal"}
  <2>1. worker \in Busy => current \in 1..Len(requests)
    BY DEF WorkerHasMailbox, ActorTypeOK
  <2>2. current \in 1..Len(requests) => requests[current] \in Request
    BY ElementOfSeq DEF ActorTypeOK
  <2> QED  BY <2>1, <2>2 DEF WorkerHasMailbox, IsActorRequest, Command, Request
<1>2. worker \in Busy /\ Command \in {"start", "prompt", "close"} => RuntimeId \in Runtimes
  BY <1>1 DEF RequestsWellFormed, RuntimeId, Command, OfHandle
<1>3. ASSUME NEW request \in NewRequest, Dispatch(request)  PROVE AgreeAtEveryStage'
  <2>1. UNCHANGED <<current, outcome, backend, streaming, undisturbed>>
    BY <1>3 DEF Dispatch, runtimeVars
  <2>2. worker \in Busy => UNCHANGED <<Command, RuntimeId>>
    BY <1>1, <1>3, <2>1, DispatchAppends DEF Command, RuntimeId
  <2>3. CASE UNCHANGED <<worker, supervised>>
    BY <2>1, <2>2, <2>3 DEF AgreeAtEveryStage, Returned, Busy, Executing
  <2>4. CASE worker = "none" /\ worker' = "waiting" /\ supervised' = NoRuntime
    BY <2>1, <2>4 DEF AgreeAtEveryStage
  <2> QED  BY <1>3, <2>3, <2>4 DEF Dispatch, Enqueue, WorkerHasMailbox
<1>4. CASE TakeRequest
  <2>1. worker = "waiting" /\ UNCHANGED <<requests, supervised, backend, undisturbed>>
    BY <1>4 DEF TakeRequest
  <2>2. HubStreams /\ AllAgree
    BY <2>1 DEF AgreeAtEveryStage
  <2>3. CASE /\ worker' = IF supervised = NoRuntime THEN "retiring" ELSE "waiting"
             /\ UNCHANGED streaming
    BY <2>1, <2>2, <2>3 DEF AgreeAtEveryStage
  <2>4. CASE /\ worker' = "handling" /\ current' = Head(queue)
             /\ streaming' = IF requests[Head(queue)].command = "start"
                               THEN requests[Head(queue)].runtime ELSE streaming
    BY <2>1, <2>2, <2>4 DEF AgreeAtEveryStage, Command, RuntimeId
  <2> QED  BY <1>4, <2>3, <2>4 DEF TakeRequest
<1>5. CASE BackendNext
  BY <1>5, BackendAgreeStep
<1>6. CASE Answer
  <2>1. /\ worker = "answering" /\ worker' = "settling" /\ Returned
        /\ UNCHANGED <<Command, RuntimeId, outcome, backend, supervised, undisturbed>>
    BY <1>6 DEF Answer, AgreeAtEveryStage, Command, RuntimeId
  <2>2. streaming' = IF Command = "start" /\ ~ outcome.ok /\ streaming = RuntimeId
                       THEN NoRuntime ELSE streaming
    BY <1>6 DEF Answer
  <2>3. Returned'
    BY <2>1, <2>2 DEF Returned
  <2> QED  BY <2>1, <2>3 DEF AgreeAtEveryStage
<1>7. CASE Settle
  <2>1. /\ worker = "settling" /\ Returned
        /\ UNCHANGED <<backend, undisturbed>>
        /\ worker' = IF SupervisedNext = NoRuntime THEN "retiring" ELSE "waiting"
        /\ supervised' = SupervisedNext
        /\ streaming' = IF \/ Command = "remove" /\ outcome.ok
                           \/ Command = "close" /\ supervised = RuntimeId /\ streaming = RuntimeId
                          THEN NoRuntime ELSE streaming
    BY <1>7 DEF Settle, AgreeAtEveryStage, historyVars
  <2>2. Command \in Actions \ {"goal"}
    BY <1>1, <2>1 DEF Busy
  <2>3. HubStreams' /\ AllAgree'
    <3>1. CASE Command = "start"
      BY <2>1, <3>1 DEF Returned, SupervisedNext
    <3>2. CASE Command = "attach"
      BY <2>1, <3>2 DEF Returned, SupervisedNext
    <3>3. CASE Command = "prompt"
      BY <1>2, <2>1, <3>3, ActorRuntimeAssumption DEF Returned, SupervisedNext, Busy
    <3>4. CASE Command = "close"
      BY <1>2, <2>1, <3>4, ActorRuntimeAssumption DEF Returned, SupervisedNext, Busy
    <3>5. CASE Command = "remove"
      BY <2>1, <3>5 DEF Returned, SupervisedNext
    <3>6. CASE Command = "rewind"
      BY <2>1, <3>6 DEF Returned, SupervisedNext
    <3> QED  BY <2>2, <3>1, <3>2, <3>3, <3>4, <3>5, <3>6 DEF Actions
  <2> QED  BY <2>1, <2>3 DEF AgreeAtEveryStage
<1>8. CASE TakeQueuedOrRetire
  BY <1>8 DEF TakeQueuedOrRetire, AgreeAtEveryStage, runtimeVars, historyVars
<1>9. ASSUME UNCHANGED <<requests, worker, current, outcome, supervised, backend, streaming,
                         undisturbed>>
      PROVE  AgreeAtEveryStage'
  BY <1>9 DEF AgreeAtEveryStage, Returned, Command, RuntimeId
<1>10. ASSUME NEW n \in independent, IndependentRuns(n)  PROVE AgreeAtEveryStage'
  BY <1>9, <1>10 DEF IndependentRuns, workerVars, runtimeVars
<1>11. CASE WorkerPanics
  BY <1>11 DEF WorkerPanics, runtimeVars, AgreeAtEveryStage
<1>12. CASE UNCHANGED actorVars
  BY <1>9, <1>12 DEF actorVars, workerVars, runtimeVars, historyVars
<1> QED
  BY <1>3, <1>4, <1>5, <1>6, <1>7, <1>8, <1>10, <1>11, <1>12
  DEF ActorNext, ClientNext, NewRequest, WorkerNext, IndependentNext

-----------------------------------------------------------------------------

\* A list that grows by one element: what held of every pair holds still, if
\* it holds of the new one.  The lists of this model grow so, by Append.
LEMMA AppendedElements ==
  ASSUME NEW S, NEW s \in Seq(S), NEW e \in S
  PROVE  /\ Append(s, e) \in Seq(S) /\ Len(s) \in Nat
         /\ \A i \in 1..Len(Append(s, e)) :
              \/ i \in 1..Len(s) /\ Append(s, e)[i] = s[i]
              \/ i = Len(s) + 1 /\ Append(s, e)[i] = e
<1>1. Len(s) \in Nat
  BY LenProperties
<1> QED  BY <1>1, AppendProperties

\* The kinds of the requests known so far do not change.
LEMMA KindsKept ==
  ASSUME ActorTypeOK, [ActorNext]_actorVars
  PROVE  /\ Len(requests) \in Nat /\ Len(requests) <= Len(requests')
         /\ \A n \in 1..Len(requests) : requests'[n] = requests[n]
<1>1. Len(requests) \in Nat
  BY LenProperties DEF ActorTypeOK
<1>2. ASSUME NEW request \in NewRequest, Dispatch(request)
      PROVE  /\ Len(requests) <= Len(requests')
             /\ \A n \in 1..Len(requests) : requests'[n] = requests[n]
  BY <1>1, <1>2, DispatchAppends
<1>3. ASSUME UNCHANGED requests
      PROVE  /\ Len(requests) <= Len(requests')
             /\ \A n \in 1..Len(requests) : requests'[n] = requests[n]
  BY <1>1, <1>3
<1>4. (\E request \in NewRequest : Dispatch(request)) \/ UNCHANGED requests
  BY BackendFrame
  DEF ActorNext, ClientNext, NewRequest, WorkerNext, IndependentNext, TakeRequest, Answer, Settle,
      TakeQueuedOrRetire, IndependentRuns, WorkerPanics, actorVars
<1> QED  BY <1>1, <1>2, <1>3, <1>4

\* Every step keeps dispatch order, of what waits and of what is carried out.
LEMMA OrderStep ==
  ASSUME ActorTypeOK, RequestsWellFormed, WorkerHasMailbox, QueueInOrder, MailboxInOrder,
         [ActorNext]_actorVars
  PROVE  QueueInOrder' /\ MailboxInOrder'
<1>1. /\ Len(requests) \in Nat
      /\ \A n \in 1..Len(requests) : requests'[n] = requests[n]
  BY KindsKept
<1>2. /\ queue \in Seq(1..Len(requests)) /\ handled \in Seq(1..Len(requests))
      /\ Len(queue) \in Nat /\ Len(handled) \in Nat
      /\ \A i \in 1..Len(queue) : queue[i] \in 1..Len(requests)
      /\ \A i \in 1..Len(handled) : handled[i] \in 1..Len(requests)
  BY LenProperties, ElementOfSeq DEF ActorTypeOK
<1>3. \A i \in 1..Len(handled) :
        requests'[handled[i]].command # "goal" => IsActorRequest(handled[i])
  BY <1>1, <1>2 DEF IsActorRequest
<1>4. ASSUME UNCHANGED <<queue, handled>>  PROVE QueueInOrder' /\ MailboxInOrder'
  BY <1>3, <1>4 DEF QueueInOrder, MailboxInOrder, IsActorRequest
<1>5. ASSUME UNCHANGED handled, queue' = << >>  PROVE QueueInOrder' /\ MailboxInOrder'
  BY <1>3, <1>5 DEF QueueInOrder, MailboxInOrder, IsActorRequest
<1>6. ASSUME NEW request \in NewRequest, Dispatch(request)  PROVE QueueInOrder' /\ MailboxInOrder'
  <2> DEFINE n == Len(requests) + 1
  <2>1. UNCHANGED handled
    BY <1>6 DEF Dispatch
  <2>2. MailboxInOrder'
    BY <1>3, <2>1 DEF MailboxInOrder, IsActorRequest
  <2>3. CASE queue' = queue
    BY <1>4, <2>1, <2>3
  <2>4. CASE queue' = Append(queue, n)
    <3>1. queue \in Seq(Nat) /\ n \in Nat
      BY <1>1, <1>2, SeqMonotonic
    <3>2. \A i \in 1..Len(queue') :
            \/ i \in 1..Len(queue) /\ queue'[i] = queue[i]
            \/ i = Len(queue) + 1 /\ queue'[i] = n
      BY <2>4, <3>1, AppendedElements
    <3>3. ASSUME NEW i \in 1..Len(queue'), NEW j \in 1..Len(queue'), i < j
          PROVE  queue'[i] < queue'[j]
      <4>1. i \in 1..Len(queue) /\ queue'[i] = queue[i] /\ queue[i] < n
        BY <1>1, <1>2, <3>2, <3>3
      <4>2. CASE j \in 1..Len(queue) /\ queue'[j] = queue[j]
        BY <3>3, <4>1, <4>2 DEF QueueInOrder
      <4>3. CASE queue'[j] = n
        BY <4>1, <4>3
      <4> QED  BY <3>2, <4>2, <4>3
    <3>4. ASSUME NEW i \in 1..Len(handled), NEW j \in 1..Len(queue'),
                 requests'[handled[i]].command # "goal"
          PROVE  handled[i] < queue'[j]
      <4>1. IsActorRequest(handled[i]) /\ handled[i] < n
        BY <1>1, <1>2, <1>3, <3>4
      <4>2. CASE j \in 1..Len(queue) /\ queue'[j] = queue[j]
        BY <4>1, <4>2 DEF QueueInOrder
      <4>3. CASE queue'[j] = n
        BY <4>1, <4>3
      <4> QED  BY <3>2, <4>2, <4>3
    <3> QED  BY <2>1, <2>2, <3>3, <3>4 DEF QueueInOrder, IsActorRequest
  <2>5. CASE queue' = <<n>>
    <3>1. \A i \in 1..Len(queue') : i = 1 /\ queue'[i] = n
      BY <2>5
    <3>2. \A i \in 1..Len(handled), j \in 1..Len(queue') : handled[i] < queue'[j]
      BY <1>1, <1>2, <3>1
    <3> QED  BY <2>1, <2>2, <3>1, <3>2 DEF QueueInOrder
  <2> QED  BY <1>6, <2>3, <2>4, <2>5 DEF Dispatch, Enqueue
<1>7. CASE TakeRequest
  <2>1. queue # << >> /\ queue' = Tail(queue) /\ UNCHANGED requests
    BY <1>7 DEF TakeRequest
  <2>2. /\ Head(queue) = queue[1] /\ 1 \in 1..Len(queue) /\ Head(queue) \in 1..Len(requests)
        /\ Len(queue') = Len(queue) - 1
        /\ \A i \in 1..Len(queue') : queue'[i] = queue[i + 1] /\ i + 1 \in 1..Len(queue)
    BY <1>2, <2>1, HeadTailProperties
  <2>3. \A i, j \in 1..Len(queue') : i < j => queue'[i] < queue'[j]
    BY <2>2 DEF QueueInOrder
  <2>4. \A i \in 1..Len(handled), j \in 1..Len(queue') :
          IsActorRequest(handled[i]) => handled[i] < queue'[j]
    BY <2>2 DEF QueueInOrder
  <2>5. CASE UNCHANGED handled
    BY <2>1, <2>3, <2>4, <2>5 DEF QueueInOrder, MailboxInOrder, IsActorRequest
  <2>6. CASE handled' = Append(handled, Head(queue))
    <3>1. \A i \in 1..Len(handled') :
            \/ i \in 1..Len(handled) /\ handled'[i] = handled[i]
            \/ i = Len(handled) + 1 /\ handled'[i] = Head(queue)
      BY <1>2, <2>2, <2>6, AppendedElements
    <3>2. \A j \in 1..Len(queue') : Head(queue) < queue'[j]
      BY <2>2 DEF QueueInOrder
    <3>3. \A i \in 1..Len(handled) : IsActorRequest(handled[i]) => handled[i] < Head(queue)
      BY <2>2 DEF QueueInOrder
    <3>4. QueueInOrder'
      BY <2>1, <2>3, <2>4, <3>1, <3>2 DEF QueueInOrder, IsActorRequest
    <3>5. MailboxInOrder'
      <4> SUFFICES ASSUME NEW i \in 1..Len(handled'), NEW j \in 1..Len(handled'), i < j,
                          IsActorRequest(handled[i])', IsActorRequest(handled[j])'
                   PROVE  handled'[i] < handled'[j]
        BY DEF MailboxInOrder
      <4>1. /\ i \in 1..Len(handled) /\ handled'[i] = handled[i]
            /\ IsActorRequest(handled[i])
        <5>1. j \in 1..Len(handled) \/ j = Len(handled) + 1
          BY <3>1
        <5>2. i # Len(handled) + 1
          BY <1>2, <5>1
        <5>3. i \in 1..Len(handled) /\ handled'[i] = handled[i]
          BY <3>1, <5>2
        <5> QED  BY <2>1, <5>3 DEF IsActorRequest
      <4>2. CASE j \in 1..Len(handled) /\ handled'[j] = handled[j]
        BY <2>1, <4>1, <4>2 DEF MailboxInOrder, IsActorRequest
      <4>3. CASE handled'[j] = Head(queue)
        BY <3>3, <4>1, <4>3
      <4> QED  BY <3>1, <4>2, <4>3
    <3> QED  BY <3>4, <3>5
  <2> QED  BY <1>7, <2>5, <2>6 DEF TakeRequest
<1>8. CASE BackendNext
  BY <1>4, <1>8, BackendFrame
<1>9. CASE Answer
  BY <1>4, <1>9 DEF Answer
<1>10. CASE Settle
  BY <1>4, <1>10 DEF Settle, historyVars
<1>11. CASE TakeQueuedOrRetire
  BY <1>4, <1>11 DEF TakeQueuedOrRetire, historyVars
<1>12. ASSUME NEW n \in independent, IndependentRuns(n)  PROVE QueueInOrder' /\ MailboxInOrder'
  <2>1. n \in 1..Len(requests) /\ ~ IsActorRequest(n)
    BY <1>12 DEF ActorTypeOK, RequestsWellFormed
  <2>2. handled' = Append(handled, n) /\ UNCHANGED <<requests, queue>>
    BY <1>12 DEF IndependentRuns, workerVars
  <2>3. \A i \in 1..Len(handled') :
          \/ i \in 1..Len(handled) /\ handled'[i] = handled[i]
          \/ i = Len(handled) + 1 /\ ~ IsActorRequest(n) /\ handled'[i] = n
    BY <1>2, <2>1, <2>2, AppendedElements
  <2> QED  BY <2>2, <2>3 DEF QueueInOrder, MailboxInOrder, IsActorRequest
<1>13. CASE WorkerPanics
  BY <1>5, <1>13 DEF WorkerPanics
<1>14. CASE UNCHANGED actorVars
  BY <1>4, <1>14 DEF actorVars, workerVars, historyVars
<1> QED
  BY <1>6, <1>7, <1>8, <1>9, <1>10, <1>11, <1>12, <1>13, <1>14
  DEF ActorNext, ClientNext, NewRequest, WorkerNext, IndependentNext

-----------------------------------------------------------------------------

\* What the worker has taken is a request.
LEMMA CurrentIsRequest ==
  ASSUME ActorTypeOK, WorkerHasMailbox, worker \in Busy
  PROVE  current \in 1..Len(requests) /\ RequestId \in Nat
<1>1. current \in 1..Len(requests)
  BY DEF ActorTypeOK, WorkerHasMailbox
<1>2. requests[current] \in Request
  BY <1>1, ElementOfSeq DEF ActorTypeOK
<1> QED  BY <1>1, <1>2 DEF RequestId, Request

\* A response is put at the end of the cache; d is 1 if the oldest goes.
LEMMA CacheGrows ==
  ASSUME ActorTypeOK, RequestId \in Nat, CacheResponse
  PROVE  \E d \in {0, 1} :
           LET cached == Append(responses, [id |-> RequestId, outcome |-> outcome]) IN
           /\ Len(cached) = Len(responses) + 1 /\ Len(responses') = Len(cached) - d
           /\ \A i \in 1..Len(responses') : responses'[i] = cached[i + d]
           /\ evicted' = IF d = 0 THEN evicted ELSE evicted \cup {cached[1].id}
<1> DEFINE Response == [id: Nat, outcome: Outcome]
           entry == [id |-> RequestId, outcome |-> outcome]
           cached == Append(responses, entry)
<1>1. responses \in Seq(Response) /\ entry \in Response
  BY DEF ActorTypeOK
<1>2. IF Len(cached) > MaxCached
        THEN responses' = Tail(cached) /\ evicted' = evicted \cup {Head(cached).id}
        ELSE responses' = cached /\ UNCHANGED evicted
  BY DEF CacheResponse
<1> HIDE DEF Response, entry
<1>3. /\ cached \in Seq(Response) /\ cached # << >> /\ Len(cached) = Len(responses) + 1
      /\ Len(responses) \in Nat
  BY <1>1, AppendProperties, LenProperties
<1> HIDE DEF cached
<1>4. /\ Len(Tail(cached)) = Len(cached) - 1 /\ Head(cached) = cached[1]
      /\ \A i \in 1..Len(Tail(cached)) : Tail(cached)[i] = cached[i + 1]
  BY <1>3, HeadTailProperties
<1>5. CASE Len(cached) > MaxCached
  <2>1. responses' = Tail(cached) /\ evicted' = evicted \cup {cached[1].id}
    BY <1>2, <1>4, <1>5
  <2> WITNESS 1 \in {0, 1}
  <2> QED  BY <1>3, <1>4, <2>1 DEF cached, entry
<1>6. CASE ~ (Len(cached) > MaxCached)
  <2>1. responses' = cached /\ evicted' = evicted
    BY <1>2, <1>6
  <2>2. \A i \in 1..Len(responses') : i + 0 = i
    BY <1>3, <2>1
  <2> WITNESS 0 \in {0, 1}
  <2> QED  BY <1>3, <2>1, <2>2 DEF cached, entry
<1> QED  BY <1>5, <1>6

\* Caching a response keeps one response of an id and what was answered before.
LEMMA AnswerCacheStep ==
  ASSUME ActorTypeOK, WorkerHasMailbox, CachedOnce, AnsweredIsCached, Answer
  PROVE  CachedOnce' /\ AnsweredIsCached'
<1>1. current \in 1..Len(requests) /\ RequestId \in Nat
  BY CurrentIsRequest DEF Answer, Busy, Executing
<1>2. worker = "answering" /\ worker' = "settling" /\ UNCHANGED <<requests, current>>
  BY DEF Answer
<1>3. CASE RequestId = 0
  <2>1. UNCHANGED <<responses, evicted, answered>>
    BY <1>3 DEF Answer
  <2> QED  BY <1>2, <2>1 DEF CachedOnce, AnsweredIsCached, Executing
<1>4. CASE RequestId # 0
  <2> DEFINE entry == [id |-> RequestId, outcome |-> outcome]
             cached == Append(responses, entry)
             last == Len(responses) + 1
  <2>1. CacheResponse /\ answered' = [answered EXCEPT ![current] = outcome]
    BY <1>4 DEF Answer
  <2>2. PICK d \in {0, 1} :
          /\ Len(cached) = Len(responses) + 1 /\ Len(responses') = Len(cached) - d
          /\ \A i \in 1..Len(responses') : responses'[i] = cached[i + d]
          /\ evicted' = IF d = 0 THEN evicted ELSE evicted \cup {cached[1].id}
    BY <1>1, <2>1, CacheGrows
  <2>3. /\ Len(responses) \in Nat
        /\ \A i \in 1..Len(responses) : cached[i] = responses[i]
        /\ cached[last].id = RequestId /\ cached[last].outcome = outcome
    BY LenProperties, AppendProperties, <1>1 DEF ActorTypeOK
  <2> HIDE DEF entry, cached
  <2>4. \A i \in 1..last : i \in 1..Len(responses) \/ i = last
    BY <2>3
  <2>5. \A i \in 1..Len(responses) : responses[i].id # RequestId
    BY <1>2, <1>4 DEF CachedOnce, Executing
  <2>6. \A i, j \in 1..last : cached[i].id = cached[j].id => i = j
    BY <2>3, <2>4, <2>5 DEF CachedOnce
  <2>7. \A i \in 1..Len(responses') : i + d \in 1..last
    BY <2>2, <2>3
  <2>8. CachedOnce'
    <3>1. \A i, j \in 1..Len(responses') : responses'[i].id = responses'[j].id => i + d = j + d
      BY <2>2, <2>6, <2>7
    <3>2. \A i, j \in 1..Len(responses') : responses'[i].id = responses'[j].id => i = j
      BY <2>2, <2>3, <3>1
    <3> QED  BY <1>2, <3>2 DEF CachedOnce, Executing
  <2>9. AnsweredIsCached'
    <3> SUFFICES ASSUME NEW n \in 1..Len(requests), answered'[n] # NoAnswer,
                        requests[n].id \notin evicted'
                 PROVE  \E i \in 1..Len(responses') :
                          /\ responses'[i].id = requests[n].id
                          /\ responses'[i].outcome = answered'[n]
      BY <1>2 DEF AnsweredIsCached
    <3>1. answered'[n] = IF n = current THEN outcome ELSE answered[n]
      BY <2>1, ExceptSeq DEF ActorTypeOK
    <3>2. PICK k \in 1..last :
            cached[k].id = requests[n].id /\ cached[k].outcome = answered'[n]
      <4>1. CASE n = current
        BY <2>3, <3>1, <4>1 DEF RequestId
      <4>2. CASE n # current
        <5>1. answered[n] # NoAnswer /\ requests[n].id \notin evicted
          BY <2>2, <3>1, <4>2
        <5>2. PICK k \in 1..Len(responses) :
                responses[k].id = requests[n].id /\ responses[k].outcome = answered[n]
          BY <5>1 DEF AnsweredIsCached
        <5> QED  BY <2>3, <3>1, <4>2, <5>2
      <4> QED  BY <4>1, <4>2
    <3>3. k - d \in 1..Len(responses')
      <4>1. d = 1 => k # 1
        BY <2>2, <3>2
      <4> QED  BY <2>2, <2>3, <4>1
    <3>4. responses'[k - d] = cached[k]
      <4>1. (k - d) + d = k
        BY <2>2, <2>3
      <4> QED  BY <2>2, <3>3, <4>1
    <3> QED  BY <3>2, <3>3, <3>4
  <2> QED  BY <2>8, <2>9
<1> QED  BY <1>3, <1>4

\* Every step keeps one response of an id, and the answers cached.
LEMMA CacheStep ==
  ASSUME ActorTypeOK, WorkerHasMailbox, CachedOnce, AnsweredIsCached, [ActorNext]_actorVars
  PROVE  CachedOnce' /\ AnsweredIsCached'
<1>1. ASSUME UNCHANGED <<requests, current, responses, answered, evicted>>,
             worker' \in Executing => worker \in Executing
      PROVE  CachedOnce' /\ AnsweredIsCached'
  BY <1>1 DEF CachedOnce, AnsweredIsCached, RequestId
<1>2. ASSUME NEW request \in NewRequest, Dispatch(request)
      PROVE  CachedOnce' /\ AnsweredIsCached'
  <2>1. /\ Len(requests) \in Nat /\ Len(requests') = Len(requests) + 1
        /\ \A n \in 1..Len(requests) : requests'[n] = requests[n] /\ answered'[n] = answered[n]
        /\ answered'[Len(requests) + 1] = NoAnswer
    BY <1>2, DispatchAppends
  <2>2. UNCHANGED <<current, responses, evicted>>
    BY <1>2 DEF Dispatch
  <2>3. worker' \in Executing => worker \in Executing
    BY <1>2 DEF Dispatch, Enqueue, Executing
  <2>4. worker \in Executing => RequestId' = RequestId
    BY <2>1, <2>2, CurrentIsRequest DEF Busy, RequestId
  <2>5. \A n \in 1..Len(requests') : n \in 1..Len(requests) \/ n = Len(requests) + 1
    BY <2>1
  <2>6. CachedOnce'
    BY <2>2, <2>3, <2>4 DEF CachedOnce
  <2>7. AnsweredIsCached'
    BY <2>1, <2>2, <2>5 DEF AnsweredIsCached
  <2> QED  BY <2>6, <2>7
<1>3. CASE TakeRequest
  <2> DEFINE n == Head(queue)
  <2>1. /\ worker = "waiting" /\ n \in 1..Len(requests)
        /\ UNCHANGED <<requests, responses, evicted>>
    BY <1>3, HeadTailProperties DEF TakeRequest, ActorTypeOK
  <2>2. CASE requests[n].id # 0 /\ CachedOutcomes(requests[n].id) # {}
    <3>1. PICK answer \in CachedOutcomes(requests[n].id) :
            answered' = [answered EXCEPT ![n] = answer]
      BY <1>3, <2>2 DEF TakeRequest
    <3>2. PICK k \in 1..Len(responses) :
            responses[k].id = requests[n].id /\ responses[k].outcome = answer
      BY <3>1 DEF CachedOutcomes
    <3>3. \A m \in 1..Len(requests) : answered'[m] = IF m = n THEN answer ELSE answered[m]
      BY <2>1, <3>1, SMTT(30) DEF ActorTypeOK
    <3>4. worker' \notin Executing
      BY <1>3, <2>2 DEF TakeRequest, Executing
    <3>5. AnsweredIsCached'
      BY <2>1, <3>2, <3>3 DEF AnsweredIsCached
    <3> QED  BY <2>1, <3>4, <3>5 DEF CachedOnce
  <2>3. CASE ~ (requests[n].id # 0 /\ CachedOutcomes(requests[n].id) # {})
    <3>1. current' = n /\ UNCHANGED answered
      BY <1>3, <2>3 DEF TakeRequest
    <3>2. requests[n].id # 0 => \A i \in 1..Len(responses) : responses[i].id # requests[n].id
      BY <2>3 DEF CachedOutcomes
    <3> QED  BY <2>1, <3>1, <3>2 DEF CachedOnce, AnsweredIsCached, RequestId
  <2> QED  BY <2>2, <2>3
<1>4. CASE BackendNext
  BY <1>1, <1>4, BackendFrame DEF Executing
<1>5. CASE Answer
  BY <1>5, AnswerCacheStep
<1>6. ASSUME UNCHANGED <<requests, responses, answered, evicted>>, worker' \notin Executing
      PROVE  CachedOnce' /\ AnsweredIsCached'
  BY <1>6 DEF CachedOnce, AnsweredIsCached
<1>7. CASE Settle
  BY <1>6, <1>7 DEF Settle, historyVars, Executing
<1>8. CASE TakeQueuedOrRetire
  BY <1>6, <1>8 DEF TakeQueuedOrRetire, historyVars, Executing
<1>9. ASSUME NEW n \in independent, IndependentRuns(n)  PROVE CachedOnce' /\ AnsweredIsCached'
  BY <1>1, <1>9 DEF IndependentRuns, workerVars
<1>10. CASE WorkerPanics
  BY <1>6, <1>10 DEF WorkerPanics, Executing
<1>11. CASE UNCHANGED actorVars
  BY <1>1, <1>11 DEF actorVars, workerVars, historyVars
<1> QED
  BY <1>2, <1>3, <1>4, <1>5, <1>7, <1>8, <1>9, <1>10, <1>11
  DEF ActorNext, ClientNext, NewRequest, WorkerNext, IndependentNext

-----------------------------------------------------------------------------

\* Answers, deaths and evictions are never taken back.
LEMMA AnswersKept ==
  ASSUME ActorTypeOK, WorkerHasMailbox, [ActorNext]_actorVars
  PROVE  /\ discarded \subseteq discarded' /\ evicted \subseteq evicted'
         /\ \A n \in 1..Len(requests) : answered[n] # NoAnswer => answered'[n] # NoAnswer
<1>1. ASSUME UNCHANGED <<answered, evicted>>, discarded \subseteq discarded'
      PROVE  /\ discarded \subseteq discarded' /\ evicted \subseteq evicted'
             /\ \A n \in 1..Len(requests) : answered[n] # NoAnswer => answered'[n] # NoAnswer
  BY <1>1
<1> DEFINE Goal ==
      /\ discarded \subseteq discarded' /\ evicted \subseteq evicted'
      /\ \A n \in 1..Len(requests) : answered[n] # NoAnswer => answered'[n] # NoAnswer
<1>2. ASSUME NEW request \in NewRequest, Dispatch(request)  PROVE Goal
  BY <1>2, DispatchAppends DEF Dispatch
<1>3. CASE TakeRequest
  <2>1. CASE UNCHANGED answered
    BY <1>3, <2>1 DEF TakeRequest
  <2>2. CASE \E answer \in CachedOutcomes(requests[Head(queue)].id) :
               answered' = [answered EXCEPT ![Head(queue)] = answer]
    <3>1. \A i \in 1..Len(responses) : responses[i] \in [id: Nat, outcome: Outcome]
      BY ElementOfSeq DEF ActorTypeOK
    <3>2. PICK answer \in Outcome : answered' = [answered EXCEPT ![Head(queue)] = answer]
      BY <2>2, <3>1 DEF CachedOutcomes
    <3>3. \A n \in 1..Len(requests) :
            answered'[n] = IF n = Head(queue) THEN answer ELSE answered[n]
      BY <3>2 DEF ActorTypeOK
    <3> QED  BY <1>3, <3>2, <3>3, NoAnswerIsNoOutcome DEF TakeRequest
  <2> QED  BY <1>3, <2>1, <2>2 DEF TakeRequest
<1>4. CASE BackendNext
  BY <1>1, <1>4, BackendFrame
<1>5. CASE Answer
  <2>1. evicted \subseteq evicted'
    BY <1>5 DEF Answer, CacheResponse
  <2>2. outcome # NoAnswer
    BY NoAnswerIsNoOutcome DEF ActorTypeOK
  <2>3. \A n \in 1..Len(requests) : answered'[n] \in {outcome, answered[n]}
    BY <1>5 DEF Answer, ActorTypeOK
  <2> QED  BY <1>5, <2>1, <2>2, <2>3 DEF Answer
<1>6. CASE Settle
  BY <1>1, <1>6 DEF Settle, historyVars
<1>7. CASE TakeQueuedOrRetire
  BY <1>1, <1>7 DEF TakeQueuedOrRetire, historyVars
<1>8. ASSUME NEW n \in independent, IndependentRuns(n)  PROVE Goal
  BY <1>1, <1>8 DEF IndependentRuns
<1>9. CASE WorkerPanics
  BY <1>1, <1>9 DEF WorkerPanics
<1>10. CASE UNCHANGED actorVars
  BY <1>1, <1>10 DEF actorVars, historyVars
<1> QED
  BY <1>2, <1>3, <1>4, <1>5, <1>6, <1>7, <1>8, <1>9, <1>10
  DEF ActorNext, ClientNext, NewRequest, WorkerNext, IndependentNext

\* Every step keeps what was carried out answered, and carried out once.
LEMMA HandledStep ==
  ASSUME ActorTypeOK, RequestsWellFormed, WorkerHasMailbox, AnsweredIsCached,
         HandledIsAnswered, HandledOnce, [ActorNext]_actorVars
  PROVE  HandledIsAnswered' /\ HandledOnce'
<1>1. /\ \A n \in 1..Len(requests) : requests'[n] = requests[n]
      /\ discarded \subseteq discarded' /\ evicted \subseteq evicted'
      /\ \A n \in 1..Len(requests) : answered[n] # NoAnswer => answered'[n] # NoAnswer
  BY KindsKept, AnswersKept
<1>2. /\ handled \in Seq(1..Len(requests))
      /\ \A i \in 1..Len(handled) : handled[i] \in 1..Len(requests)
  BY ElementOfSeq DEF ActorTypeOK
<1>3. ASSUME UNCHANGED handled  PROVE HandledOnce'
  BY <1>1, <1>2, <1>3 DEF HandledOnce
<1>4. ASSUME UNCHANGED <<handled, current>>, worker \in Executing => worker' \in Executing
      PROVE  HandledIsAnswered' /\ HandledOnce'
  BY <1>1, <1>2, <1>3, <1>4 DEF HandledIsAnswered
<1>5. ASSUME UNCHANGED handled, worker \notin Executing
      PROVE  HandledIsAnswered' /\ HandledOnce'
  BY <1>1, <1>2, <1>3, <1>5 DEF HandledIsAnswered
<1>6. ASSUME NEW request \in NewRequest, Dispatch(request)
      PROVE  HandledIsAnswered' /\ HandledOnce'
  <2>1. worker \in Executing => worker' \in Executing
    BY <1>6 DEF Dispatch, Enqueue, WorkerHasMailbox, Executing
  <2> QED  BY <1>4, <1>6, <2>1 DEF Dispatch
<1>7. CASE TakeRequest
  <2> DEFINE n == Head(queue)
  <2>1. worker = "waiting" /\ UNCHANGED <<requests, responses, discarded, evicted>>
    BY <1>7 DEF TakeRequest
  <2>2. CASE UNCHANGED handled
    BY <1>5, <2>1, <2>2 DEF Executing
  <2>3. CASE /\ handled' = Append(handled, n) /\ worker' = "handling" /\ current' = n
             /\ ~ (requests[n].id # 0 /\ CachedOutcomes(requests[n].id) # {})
    <3>1. n \in 1..Len(requests)
      BY <1>7, HeadTailProperties DEF TakeRequest, ActorTypeOK
    <3>2. \A i \in 1..Len(handled') :
            \/ i \in 1..Len(handled) /\ handled'[i] = handled[i]
            \/ handled'[i] = n
      BY <1>2, <2>3, <3>1, AppendedElements
    <3>3. \A i \in 1..Len(handled) :
            requests[handled[i]].id # 0 =>
              handled[i] \in discarded \/ answered[handled[i]] # NoAnswer
      BY <2>1 DEF HandledIsAnswered, Executing
    <3>4. HandledIsAnswered'
      BY <1>1, <1>2, <2>1, <2>3, <3>2, <3>3 DEF HandledIsAnswered, Executing
    <3>5. \A i \in 1..Len(handled) :
            requests[handled[i]].id = requests[n].id /\ handled[i] \notin discarded =>
              requests[n].id \in {0} \cup evicted
      <4> SUFFICES ASSUME NEW i \in 1..Len(handled), requests[handled[i]].id = requests[n].id,
                          handled[i] \notin discarded, requests[n].id \notin {0} \cup evicted
                   PROVE  FALSE
        OBVIOUS
      <4>1. answered[handled[i]] # NoAnswer /\ handled[i] \in 1..Len(requests)
        BY <1>2, <3>3
      <4>2. \E k \in 1..Len(responses) : responses[k].id = requests[n].id
        BY <4>1 DEF AnsweredIsCached
      <4> QED  BY <2>3, <4>2 DEF CachedOutcomes
    <3>6. HandledOnce'
      <4> SUFFICES ASSUME NEW i \in 1..Len(handled'), NEW j \in 1..Len(handled'),
                          handled'[i] # handled'[j],
                          requests[handled'[i]].id = requests[handled'[j]].id,
                          {handled'[i], handled'[j]} \cap discarded = {}
                   PROVE  requests[handled'[i]].id \in {0} \cup evicted
        BY <2>1 DEF HandledOnce
      <4>1. CASE i \in 1..Len(handled) /\ handled'[i] = handled[i]
        <5>1. CASE j \in 1..Len(handled) /\ handled'[j] = handled[j]
          BY <4>1, <5>1 DEF HandledOnce
        <5>2. CASE handled'[j] = n
          BY <3>5, <4>1, <5>2
        <5> QED  BY <3>2, <5>1, <5>2
      <4>2. CASE handled'[i] = n
        <5>1. j \in 1..Len(handled) /\ handled'[j] = handled[j]
          BY <3>2, <4>2
        <5> QED  BY <3>5, <4>2, <5>1
      <4> QED  BY <3>2, <4>1, <4>2
    <3> QED  BY <3>4, <3>6
  <2> QED  BY <1>7, <2>2, <2>3 DEF TakeRequest
<1>8. CASE BackendNext
  BY <1>4, <1>8, BackendFrame DEF Executing
<1>9. CASE Answer
  <2>1. current \in 1..Len(requests) /\ UNCHANGED <<requests, handled, current, discarded>>
    BY <1>9, CurrentIsRequest DEF Answer, Busy, Executing
  <2>2. RequestId # 0 => answered'[current] # NoAnswer
    BY <1>9, <2>1, NoAnswerIsNoOutcome DEF Answer, ActorTypeOK
  <2>3. HandledIsAnswered'
    BY <1>1, <1>2, <2>1, <2>2 DEF HandledIsAnswered, RequestId
  <2> QED  BY <1>3, <2>1, <2>3
<1>10. CASE Settle
  BY <1>5, <1>10 DEF Settle, historyVars, Executing
<1>11. CASE TakeQueuedOrRetire
  BY <1>5, <1>11 DEF TakeQueuedOrRetire, historyVars, Executing
<1>12. ASSUME NEW n \in independent, IndependentRuns(n)
       PROVE  HandledIsAnswered' /\ HandledOnce'
  <2>1. /\ n \in 1..Len(requests) /\ requests[n].id = 0
    <3>1. n \in 1..Len(requests) /\ requests[n].command = "goal"
      BY DEF ActorTypeOK, RequestsWellFormed, IsActorRequest
    <3> QED  BY <3>1 DEF RequestsWellFormed, OfHandle
  <2>2. /\ handled' = Append(handled, n)
        /\ UNCHANGED <<requests, worker, current, answered, discarded, evicted>>
    BY <1>12 DEF IndependentRuns, workerVars
  <2>3. \A i \in 1..Len(handled') :
          \/ i \in 1..Len(handled) /\ handled'[i] = handled[i]
          \/ handled'[i] = n
    BY <1>2, <2>1, <2>2, AppendedElements
  <2>4. HandledIsAnswered'
    BY <2>1, <2>2, <2>3 DEF HandledIsAnswered
  <2>5. HandledOnce'
    BY <2>1, <2>2, <2>3 DEF HandledOnce
  <2> QED  BY <2>4, <2>5
<1>13. CASE WorkerPanics
  <2>1. UNCHANGED <<requests, handled, answered>> /\ current \in discarded'
    BY <1>13 DEF WorkerPanics
  <2>2. HandledIsAnswered'
    BY <1>1, <2>1 DEF HandledIsAnswered
  <2> QED  BY <1>3, <2>1, <2>2
<1>14. CASE UNCHANGED actorVars
  BY <1>4, <1>14 DEF actorVars, workerVars, historyVars
<1> QED
  BY <1>6, <1>7, <1>8, <1>9, <1>10, <1>11, <1>12, <1>13, <1>14
  DEF ActorNext, ClientNext, NewRequest, WorkerNext, IndependentNext

-----------------------------------------------------------------------------

(***************************************************************************)
(* The inductive invariant of the session's actor (run_runtime_mailbox,    *)
(* handle_request and the dispatchers): the stages of the current request, *)
(* dispatch order, and the response cache.                                 *)
(***************************************************************************)
THEOREM ActorInductive == ActorSpec => []ActorIInv
<1>1. ActorInit => ActorIInv
  <2> SUFFICES ASSUME ActorInit  PROVE ActorIInv
    OBVIOUS
  <2> USE DEF ActorInit
  <2>1. ActorTypeOK
    BY OutcomesAreTyped, MaxCachedAssumption DEF ActorTypeOK
  <2>2. RequestsWellFormed /\ WorkerHasMailbox /\ AgreeAtEveryStage
    BY DEF RequestsWellFormed, WorkerHasMailbox, Busy, Executing, AgreeAtEveryStage, HubStreams,
           AllAgree
  <2>3. QueueInOrder /\ MailboxInOrder
    BY DEF QueueInOrder, MailboxInOrder
  <2>4. CachedOnce /\ AnsweredIsCached /\ HandledIsAnswered /\ HandledOnce
    BY DEF CachedOnce, Executing, AnsweredIsCached, HandledIsAnswered, HandledOnce
  <2> QED  BY <2>1, <2>2, <2>3, <2>4 DEF ActorIInv
<1>2. ActorIInv /\ [ActorNext]_actorVars => ActorIInv'
  BY TypeStep, WellFormedStep, MailboxStep, AgreeStep, OrderStep, CacheStep, HandledStep
  DEF ActorIInv
<1> QED  BY <1>1, <1>2, PTL DEF ActorSpec

\* The types of the requests, the mailbox, its worker and the response cache.
THEOREM ActorTypeCorrect == ActorSpec => []ActorTypeOK
<1>1. ActorIInv => ActorTypeOK
  BY DEF ActorIInv
<1> QED  BY <1>1, ActorInductive, PTL

(***************************************************************************)
(* Between two requests the hub streams what the backend holds, and if no  *)
(* rewind and no panic came since the last start the worker agrees, over   *)
(* every order of starts, closes, removals and resent requests.            *)
(***************************************************************************)
THEOREM RuntimesCorrect == ActorSpec => []RuntimesAgree
<1>1. ActorIInv => RuntimesAgree
  BY DEF ActorIInv, RuntimesAgree, AgreeAtEveryStage, HubStreams, AllAgree
<1> QED  BY <1>1, ActorInductive, PTL

(***************************************************************************)
(* The mailbox carries requests out in dispatch order (server.rs:168-172), *)
(* whenever workers retire, die or are replaced.                           *)
(***************************************************************************)
THEOREM OrderCorrect == ActorSpec => []MailboxInOrder
<1>1. ActorIInv => MailboxInOrder
  BY DEF ActorIInv
<1> QED  BY <1>1, ActorInductive, PTL

(***************************************************************************)
(* A resent request is neither carried out twice nor answered differently, *)
(* while the cache holds its response and its worker has not panicked      *)
(* (cached_response, cache_response).                                      *)
(***************************************************************************)
THEOREM IdempotenceCorrect == ActorSpec => []RequestsIdempotent
<1>1. ActorIInv => RequestsIdempotent
  <2> SUFFICES ASSUME ActorIInv, NEW m \in 1..Len(requests), NEW n \in 1..Len(requests),
                      m # n, requests[m].id = requests[n].id,
                      requests[m].id \notin {0} \cup evicted
               PROVE  /\ NoAnswer \notin {answered[m], answered[n]} => answered[m] = answered[n]
                      /\ ~ \E i, j \in 1..Len(handled) :
                             handled[i] = m /\ handled[j] = n /\ {m, n} \cap discarded = {}
    BY DEF RequestsIdempotent
  <2>1. ASSUME NoAnswer \notin {answered[m], answered[n]}  PROVE answered[m] = answered[n]
    <3>1. PICK i \in 1..Len(responses) :
            responses[i].id = requests[m].id /\ responses[i].outcome = answered[m]
      BY <2>1 DEF ActorIInv, AnsweredIsCached
    <3>2. PICK j \in 1..Len(responses) :
            responses[j].id = requests[n].id /\ responses[j].outcome = answered[n]
      BY <2>1 DEF ActorIInv, AnsweredIsCached
    <3>3. i = j
      BY <3>1, <3>2 DEF ActorIInv, CachedOnce
    <3> QED  BY <3>1, <3>2, <3>3
  <2>2. ASSUME NEW i \in 1..Len(handled), NEW j \in 1..Len(handled),
               handled[i] = m, handled[j] = n, {m, n} \cap discarded = {}
        PROVE  FALSE
    BY <2>2 DEF ActorIInv, HandledOnce
  <2> QED  BY <2>1, <2>2
<1> QED  BY <1>1, ActorInductive, PTL
=============================================================================
