---------------------------- MODULE RuntimeActor ----------------------------
(***************************************************************************)
(* How the daemon carries out the commands of one session                  *)
(* (crates/waku-core/src/server.rs): connection threads dispatch them to   *)
(* the session's mailbox, whose worker thread handles one at a time,       *)
(* retires when the session runs nothing, and is replaced when needed.     *)
(*                                                                         *)
(* `backend` is the session's entry of WakuBackend::sessions (daemon.rs)   *)
(* and `streaming` that of HubState::active_runtimes.  They are kept in    *)
(* step by the order in which the worker updates them, under no common     *)
(* lock.  What the hub does with an event is in EventHub.                  *)
(***************************************************************************)
EXTENDS Integers, Sequences, FiniteSets

CONSTANTS
  Runtimes,    \* runtime ids
  NoRuntime,   \* no entry
  NilRuntime,  \* the nil runtime id, which attach, rewind and remove carry
  MaxCached,   \* MAX_CACHED_RESPONSES
  MaxRequests, \* bound of a run: requests sent, resent ones included
  MaxPanics    \* bound of a run: panics of the worker thread

ASSUME ActorRuntimeAssumption ==
  /\ NoRuntime \notin Runtimes /\ NilRuntime \notin Runtimes
  /\ NoRuntime # NilRuntime
ASSUME MaxCachedAssumption == MaxCached \in Nat \ {0}
ASSUME ActorBoundsAssumption == MaxRequests \in Nat /\ MaxPanics \in Nat

VARIABLES
  requests,    \* every request sent to the session, in dispatch order
  mailbox,     \* its entry in runtime_mailboxes: none, open, dead (no receiver)
  queue,       \* requests in the mailbox: positions in `requests`
  worker,      \* run_runtime_mailbox: none, waiting, handling, launching, answering,
               \* settling, retiring
  current,     \* the request the worker handles, 0 if none
  outcome,     \* its ResponseOutcome
  supervised,  \* active_runtime_id of the worker
  independent, \* requests on threads of their own (dispatch_independent)
  backend,     \* the runtime WakuBackend::sessions holds
  streaming,   \* the runtime HubState::active_runtimes holds
  responses,   \* HubState::responses
  \* History:
  handled,     \* the requests in the order the backend carried them out
  answered,    \* answered[n]: the outcome sent for request n, or NoAnswer
  discarded,   \* requests that died with a worker
  evicted,     \* ids the response cache has dropped
  panics,
  undisturbed  \* no rewind and no panic since the last start

workerVars == <<mailbox, queue, worker, current, outcome, supervised>>
runtimeVars == <<backend, streaming>>
historyVars == <<handled, answered, discarded, evicted, panics, undisturbed>>
actorVars == <<requests, workerVars, independent, runtimeVars, responses, historyVars>>

Actions == {"start", "attach", "prompt", "goal", "close", "rewind", "remove"}

\* A runtime's handle sends these as notifications: a nil request id, here 0,
\* and no response.
OfHandle == {"prompt", "goal", "close"}

Request == [id: Nat, command: Actions, runtime: Runtimes \cup {NilRuntime}]

\* Ok or Error, and the runtime of an attach's SessionRuntime payload.
Outcome == [ok: BOOLEAN, runtime: Runtimes \cup {NoRuntime}]

Ok == [ok |-> TRUE, runtime |-> NoRuntime]
Failed == [ok |-> FALSE, runtime |-> NoRuntime]
Attached(r) == [ok |-> TRUE, runtime |-> r]
NoAnswer == [none |-> TRUE]

Command == requests[current].command
RuntimeId == requests[current].runtime
RequestId == requests[current].id

Used == {requests[n].runtime : n \in 1..Len(requests)}

ActorInit ==
  /\ requests = << >>
  /\ mailbox = "none" /\ queue = << >>
  /\ worker = "none" /\ current = 0 /\ outcome = Ok /\ supervised = NoRuntime
  /\ independent = {}
  /\ backend = NoRuntime /\ streaming = NoRuntime
  /\ responses = << >>
  /\ handled = << >> /\ answered = << >> /\ discarded = {} /\ evicted = {}
  /\ panics = 0 /\ undisturbed = TRUE

-----------------------------------------------------------------------------
\* Clients and the dispatcher.

\* A request of a new id, or of an earlier one: clients may resend a request.
NewRequests ==
  {q \in [id: {Len(requests) + 1}, command: Actions \ OfHandle,
          runtime: Runtimes \cup {NilRuntime}] :
     IF q.command = "start" THEN q.runtime \in Runtimes \ Used ELSE q.runtime = NilRuntime}

\* The desktop removes a session by a notification, the web app by a request.
NotificationRequests ==
  [id: {0}, command: OfHandle, runtime: Used \ {NilRuntime}]
    \cup {[id |-> 0, command |-> "remove", runtime |-> NilRuntime]}

ResentRequests == {requests[n] : n \in {m \in 1..Len(requests) : requests[m].id # 0}}

\* The request n enters the mailbox, whose entry is looked up, replaced when
\* its receiver is gone, and sent to under the one lock of runtime_mailboxes.
Enqueue(n) ==
  IF mailbox = "open"
    THEN /\ queue' = Append(queue, n)
         /\ UNCHANGED <<mailbox, worker, supervised>>
    ELSE /\ mailbox' = "open" /\ queue' = <<n>>
         /\ worker' = "waiting" /\ supervised' = NoRuntime

\* command_targets_runtime that misses CloseSession too.
TargetsAllButClose(command) == command \notin {"goal", "close"}

\* command_targets_runtime: of these commands it misses Goal.
TargetsRuntime(command) == command # "goal"

\* dispatch: to the mailbox, or to a thread of its own.
Dispatch(request) ==
  LET n == Len(requests) + 1 IN
  /\ requests' = Append(requests, request)
  /\ answered' = Append(answered, NoAnswer)
  /\ IF TargetsRuntime(request.command)
       THEN Enqueue(n) /\ UNCHANGED independent
       ELSE /\ independent' = independent \cup {n}
            /\ UNCHANGED <<mailbox, queue, worker, supervised>>
  /\ UNCHANGED <<current, outcome, runtimeVars, responses, handled, discarded, evicted,
                 panics, undisturbed>>

-----------------------------------------------------------------------------
\* handle_request.

CachedOutcomes(id) ==
  {responses[i].outcome : i \in {j \in 1..Len(responses) : responses[j].id = id}}

\* Taking a request without looking for its cached response.
TakeUncached ==
  /\ worker = "waiting" /\ queue # << >>
  /\ current' = Head(queue) /\ queue' = Tail(queue)
  /\ worker' = "handling"
  /\ streaming' = IF requests[Head(queue)].command = "start"
                    THEN requests[Head(queue)].runtime ELSE streaming
  /\ handled' = Append(handled, Head(queue))
  /\ UNCHANGED <<requests, mailbox, outcome, supervised, independent, backend,
                 responses, answered, discarded, evicted, panics, undisturbed>>

\* The worker takes a request.  A cached response is sent again and nothing is
\* executed; otherwise a start begins its runtime in the hub first.
TakeRequest ==
  LET n == Head(queue)
      cached == CachedOutcomes(requests[n].id)
  IN
  /\ worker = "waiting" /\ queue # << >>
  /\ queue' = Tail(queue)
  /\ IF requests[n].id # 0 /\ cached # {}
       THEN /\ \E answer \in cached : answered' = [answered EXCEPT ![n] = answer]
            /\ worker' = IF supervised = NoRuntime THEN "retiring" ELSE "waiting"
            /\ UNCHANGED <<current, streaming, handled>>
       ELSE /\ current' = n
            /\ worker' = "handling"
            /\ streaming' = IF requests[n].command = "start" THEN requests[n].runtime
                                                             ELSE streaming
            /\ handled' = Append(handled, n)
            /\ UNCHANGED answered
  /\ UNCHANGED <<requests, mailbox, outcome, supervised, independent, backend,
                 responses, discarded, evicted, panics, undisturbed>>

\* Backend::handle returns.
Return(answer) ==
  /\ outcome' = answer
  /\ worker' = "answering"

Handling(command) ==
  /\ worker = "handling" /\ Command = command
  /\ UNCHANGED <<requests, mailbox, queue, current, supervised, independent, streaming, responses,
                 handled, answered, discarded, evicted, panics>>

\* Command::Start drops the session's previous driver ...
ReplacePrevious ==
  /\ Handling("start")
  /\ backend' = NoRuntime
  /\ worker' = "launching"
  /\ UNCHANGED <<outcome, undisturbed>>

\* ... then starts the new one and registers it.
Launch ==
  /\ worker = "launching"
  /\ \/ /\ backend' = RuntimeId
        /\ undisturbed' = TRUE
        /\ Return(Ok)
     \/ UNCHANGED <<backend, undisturbed>> /\ Return(Failed)
  /\ UNCHANGED <<requests, mailbox, queue, current, supervised, independent, streaming,
                 responses, handled, answered, discarded, evicted, panics>>

AttachSession ==
  /\ Handling("attach")
  /\ Return(Attached(backend))
  /\ UNCHANGED <<backend, undisturbed>>

\* Any command of the catch-all arm: refused unless the runtime is resident.
DriverCommand ==
  /\ Handling("prompt")
  /\ Return(IF backend = RuntimeId THEN Ok ELSE Failed)
  /\ UNCHANGED <<backend, undisturbed>>

CloseSession ==
  /\ Handling("close")
  /\ backend' = IF backend = RuntimeId THEN NoRuntime ELSE backend
  /\ Return(Ok)
  /\ UNCHANGED undisturbed

\* Saving the task state can fail before the driver is removed ...
RemoveSession ==
  /\ Handling("remove")
  /\ \/ backend' = NoRuntime /\ Return(Ok)
     \/ UNCHANGED backend /\ Return(Failed)
  /\ UNCHANGED undisturbed

\* ... and a rewind can fail before that and, saving, after it.
RewindSession ==
  /\ Handling("rewind")
  /\ \/ backend' = NoRuntime /\ (Return(Ok) \/ Return(Failed))
        /\ undisturbed' = FALSE
     \/ UNCHANGED <<backend, undisturbed>> /\ Return(Failed)

\* push_back without the limit.
CacheEveryResponse ==
  /\ responses' = Append(responses, [id |-> RequestId, outcome |-> outcome])
  /\ UNCHANGED evicted

\* push_back, then pop_front while over the limit.
CacheResponse ==
  LET cached == Append(responses, [id |-> RequestId, outcome |-> outcome]) IN
  IF Len(cached) > MaxCached
    THEN responses' = Tail(cached) /\ evicted' = evicted \cup {Head(cached).id}
    ELSE responses' = cached /\ UNCHANGED evicted

\* Cache the outcome, end a runtime that did not start, and respond.
Answer ==
  /\ worker = "answering"
  /\ IF RequestId # 0
       THEN /\ CacheResponse
            /\ answered' = [answered EXCEPT ![current] = outcome]
       ELSE UNCHANGED <<responses, evicted, answered>>
  /\ streaming' = IF Command = "start" /\ ~ outcome.ok /\ streaming = RuntimeId
                    THEN NoRuntime ELSE streaming
  /\ worker' = "settling"
  /\ UNCHANGED <<requests, mailbox, queue, current, outcome, supervised, independent, backend,
                 handled, discarded, panics, undisturbed>>

-----------------------------------------------------------------------------
\* run_runtime_mailbox after handle_request.

\* active_runtime_id after the current request.
SupervisedNext ==
  CASE Command = "start" -> IF outcome.ok THEN RuntimeId ELSE NoRuntime
    [] Command = "attach" -> IF outcome.runtime # NoRuntime THEN outcome.runtime ELSE supervised
    [] Command = "close" -> IF supervised = RuntimeId THEN NoRuntime ELSE supervised
    [] Command = "remove" -> IF outcome.ok THEN NoRuntime ELSE supervised
    [] OTHER -> IF supervised = NoRuntime /\ outcome.ok THEN RuntimeId ELSE supervised

\* A close that leaves the hub's runtime in place.
SettleWithoutEnding ==
  /\ worker = "settling"
  /\ supervised' = SupervisedNext
  /\ worker' = IF SupervisedNext = NoRuntime THEN "retiring" ELSE "waiting"
  /\ current' = 0
  /\ UNCHANGED <<requests, mailbox, queue, outcome, independent, runtimeVars, responses,
                 historyVars>>

\* A close of the runtime the worker supervises, and a removal, end the hub's
\* runtime: end_runtime(Some(runtime_id)) and end_runtime(None).
Settle ==
  /\ worker = "settling"
  /\ streaming' = IF \/ Command = "remove" /\ outcome.ok
                     \/ Command = "close" /\ supervised = RuntimeId /\ streaming = RuntimeId
                    THEN NoRuntime ELSE streaming
  /\ supervised' = SupervisedNext
  /\ worker' = IF SupervisedNext = NoRuntime THEN "retiring" ELSE "waiting"
  /\ current' = 0
  /\ UNCHANGED <<requests, mailbox, queue, outcome, independent, backend, responses,
                 historyVars>>

\* Retirement that does not look into the mailbox again.
RetireUnlooked ==
  /\ worker = "retiring"
  /\ mailbox' = "none" /\ worker' = "none"
  /\ queue' = << >>
  /\ UNCHANGED <<requests, current, outcome, supervised, independent, runtimeVars, responses,
                 historyVars>>

\* take_queued_request_or_retire: the mailbox is looked into and removed under
\* the lock dispatchers send under.
TakeQueuedOrRetire ==
  /\ worker = "retiring"
  /\ IF queue # << >>
       THEN worker' = "waiting" /\ UNCHANGED mailbox
       ELSE mailbox' = "none" /\ worker' = "none"
  /\ UNCHANGED <<requests, queue, current, outcome, supervised, independent, runtimeVars,
                 responses, historyVars>>

\* A panic in the backend ends the thread; what waits in its mailbox is gone.
\* Nothing in a start can panic before the previous driver is removed.
WorkerPanics ==
  /\ \/ worker = "launching"
     \/ worker = "handling" /\ Command # "start"
  /\ panics' = panics + 1
  /\ worker' = "none" /\ mailbox' = "dead" /\ current' = 0
  /\ queue' = << >>
  /\ discarded' = discarded \cup {current} \cup {queue[i] : i \in 1..Len(queue)}
  /\ undisturbed' = FALSE
  /\ UNCHANGED <<requests, outcome, supervised, independent, runtimeVars, responses, handled,
                 answered, evicted>>

-----------------------------------------------------------------------------
\* Other threads.

\* Goal, on its own thread: no mailbox orders it.
IndependentRuns(n) ==
  /\ n \in independent
  /\ independent' = independent \ {n}
  /\ handled' = Append(handled, n)
  /\ UNCHANGED <<requests, workerVars, runtimeVars, responses, answered, discarded, evicted,
                 panics, undisturbed>>

Settled == worker \in {"none", "waiting", "retiring"}

-----------------------------------------------------------------------------
BackendNext ==
  \/ ReplacePrevious \/ Launch \/ AttachSession \/ DriverCommand \/ CloseSession
  \/ RemoveSession \/ RewindSession

WorkerNext ==
  TakeRequest \/ BackendNext \/ Answer \/ Settle \/ TakeQueuedOrRetire

IndependentNext == \E n \in independent : IndependentRuns(n)

ClientNext ==
  /\ Len(requests) < MaxRequests
  /\ \E request \in NewRequests \cup NotificationRequests \cup ResentRequests : Dispatch(request)

ActorNext ==
  \/ ClientNext
  \/ WorkerNext
  \/ IndependentNext
  \/ panics < MaxPanics /\ WorkerPanics

ActorSpec == ActorInit /\ [][ActorNext]_actorVars

\* The worker and the request threads run; the backend's calls return.
FairActorSpec ==
  ActorSpec /\ WF_actorVars(WorkerNext) /\ WF_actorVars(IndependentNext)

-----------------------------------------------------------------------------
(***************************************************************************)
(* Properties.                                                             *)
(***************************************************************************)

\* The type of every variable.
ActorTypeOK ==
  /\ requests \in Seq(Request)
  /\ mailbox \in {"none", "open", "dead"}
  /\ queue \in Seq(1..Len(requests))
  /\ worker \in {"none", "waiting", "handling", "launching", "answering", "settling", "retiring"}
  /\ current \in 0..Len(requests)
  /\ outcome \in Outcome
  /\ supervised \in Runtimes \cup {NoRuntime, NilRuntime}
  /\ independent \subseteq 1..Len(requests)
  /\ backend \in Runtimes \cup {NoRuntime} /\ streaming \in Runtimes \cup {NoRuntime}
  /\ responses \in Seq([id: Nat, outcome: Outcome])
  /\ Len(responses) <= MaxCached
  /\ handled \in Seq(1..Len(requests))
  /\ answered \in Seq(Outcome \cup {NoAnswer})
  /\ Len(answered) = Len(requests)
  /\ discarded \subseteq 1..Len(requests)
  /\ evicted \subseteq Nat
  /\ panics \in Nat
  /\ undisturbed \in BOOLEAN

(***************************************************************************)
(* Between two requests the hub streams the runtime the session holds: no  *)
(* event of it is dropped, whatever was resent, failed or panicked before. *)
(* Unless a rewind or a panic came since the last start, the backend, the  *)
(* hub and the worker (active_runtime_id) also agree on what the session   *)
(* runs, so that a worker retires only when it runs nothing.               *)
(***************************************************************************)
RuntimesAgree ==
  Settled =>
    /\ backend # NoRuntime => streaming = backend
    /\ undisturbed => streaming = backend /\ supervised = backend

IsActorRequest(n) == requests[n].command # "goal"

(***************************************************************************)
(* server.rs:168-172: "One mailbox per session preserves lifecycle order": *)
(* the commands of the mailbox are carried out in the order they were      *)
(* dispatched, also when one worker retires and the next takes over.       *)
(***************************************************************************)
MailboxInOrder ==
  \A i, j \in 1..Len(handled) :
    i < j /\ IsActorRequest(handled[i]) /\ IsActorRequest(handled[j]) => handled[i] < handled[j]

(***************************************************************************)
(* A request resent with its id is carried out again only if its worker    *)
(* panicked or the cache dropped its response, and is answered as before   *)
(* (cached_response, cache_response; README "stable UUIDs for             *)
(* idempotency").                                                          *)
(***************************************************************************)
RequestsIdempotent ==
  \A m, n \in 1..Len(requests) :
    m # n /\ requests[m].id = requests[n].id /\ requests[m].id \notin {0} \cup evicted =>
      /\ NoAnswer \notin {answered[m], answered[n]} => answered[m] = answered[n]
      /\ ~ \E i, j \in 1..Len(handled) :
             handled[i] = m /\ handled[j] = n /\ {m, n} \cap discarded = {}

Served(n) ==
  \/ n \in discarded \/ answered[n] # NoAnswer
  \/ \E i \in 1..Len(handled) : handled[i] = n

(***************************************************************************)
(* Every request dispatched is carried out or answered, unless its worker  *)
(* panicked: once clients send no more, none is left, in the mailbox of a  *)
(* worker that retired or anywhere else.                                   *)
(***************************************************************************)
EveryRequestServed == []<>(\A n \in 1..Len(requests) : Served(n))
=============================================================================
