------------------------------ MODULE WebClient ------------------------------
(***************************************************************************)
(* The web page as a client of the daemon: WakuClient, which keeps one     *)
(* WebSocket at a time and resumes events over the next                    *)
(* (packages/waku-client/src/client.ts), and the page's attachment to the  *)
(* runtime of one task: its listener, what it applied to the task, its     *)
(* starts and prompts (apps/web/src/lib/runtime-context.tsx), over the     *)
(* daemon's hub (EventHub).                                                *)
(*                                                                         *)
(* A browser runs one callback at a time: each socket event, timer and     *)
(* user act is one action, with the promises it settles; what sendPrompt   *)
(* does after an await is a step of its own.  The client may be connected  *)
(* again whenever it is disconnected.  (The page does so only before it    *)
(* has noticed a loss, daemon-context.tsx, and opens a new client          *)
(* otherwise: Reload.)                                                     *)
(***************************************************************************)
EXTENDS EventHub, FiniteSets, SequencesExt

CONSTANTS
  Session,
  NoSocket,
  Exited,        \* the payload of a processExited event
  MaxBuffered,   \* MAX_BUFFERED_EVENTS_PER_RUNTIME
  MaxRequests,   \* bound of a run: requests the page sends
  MaxFaults      \* bound of a run: other acts of users, and failures

ASSUME WebSessionAssumption == Session \in Sessions /\ Exited \in Payloads
ASSUME WebSocketsAssumption == Connections \subseteq Nat /\ NoSocket \notin Connections
ASSUME WebBoundsAssumption == MaxBuffered \in Nat \ {0} /\ {MaxRequests, MaxFaults} \subseteq Nat

VARIABLES
  \* Each socket, and the daemon's end of it:
  link,           \* readyState; "broken", "errored": what is left to fire is error, close
  accepted,       \* the daemon: "no", "greeted", "answered", "rejected", "subscribed"
  resumeFrom,     \* the cursors of its Hello, until it subscribes
  received,       \* frames of outgoing[c][Session] the page has taken
  requests,       \* requests on the way to the session's mailbox
  answers,        \* responses on the way back, each after the event number `at`
  \* WakuClient:
  state,          \* disconnected, connecting, connected
  socket,         \* this.socket
  current,        \* the socket of connectionGeneration; disconnect leaves none
  settled,        \* sockets whose handshakeSettled is set
  pending,        \* the requests that wait for a response
  sequences,      \* the newest event seen of each runtime, as a cursor
  pendingEvents,  \* events of runtimes without a listener
  \* The page:
  page,           \* the task's entry, its listeners in subscriptions, the events applied to
                  \* the cached session, whether its cursor is "local", that of a turn which
                  \* failed on the page, and the events its listeners were called with
  stored,         \* the events applied in the daemon's projection of the task
  prompting,      \* sendPrompt: no, attaching, preparing, asked, started
  captured,       \* `runtime` of sendPrompt
  held,           \* the events applied in the `session` it holds
  heldLocal,      \* the cursor of that one is local
  \* History and bounds:
  published,      \* every event of the session the hub accepted
  lost,           \* those the journal or the buffer dropped before the page had them
  used,           \* runtime ids drawn
  asked,          \* requests sent
  faults          \* acts of users and others, and failures

socketVars == <<link, accepted, resumeFrom, received, requests, answers>>
clientVars == <<state, socket, current, settled, sequences, pendingEvents>>
pageVars == <<page, stored, prompting, captured, held, heldLocal>>
historyVars == <<published, lost, used>>
boundVars == <<asked, faults>>
webVars == <<hubVars, socketVars, clientVars, pending, pageVars, historyVars, boundVars>>

NoCursor == [epoch |-> 0, sequence |-> 0]
NoPage == [entry |-> NoRuntime, listeners |-> [r \in Runtimes |-> 0],
           applied |-> << >>, local |-> FALSE, heard |-> {}]

WebInit ==
  /\ HubInit
  /\ link = [c \in Connections |-> "none"] /\ accepted = [c \in Connections |-> "no"]
  /\ resumeFrom = [c \in Connections |-> [r \in Runtimes |-> NoCursor]]
  /\ received = [c \in Connections |-> 0]
  /\ requests = [c \in Connections |-> << >>] /\ answers = [c \in Connections |-> << >>]
  /\ state = "disconnected" /\ socket = NoSocket /\ current = NoSocket /\ settled = {}
  /\ pending = {}
  /\ sequences = [r \in Runtimes |-> NoCursor]
  /\ pendingEvents = [r \in Runtimes |-> << >>]
  /\ page = NoPage /\ stored = << >> /\ prompting = "no" /\ captured = NoRuntime
  /\ held = << >> /\ heldLocal = FALSE
  /\ published = << >> /\ lost = {} /\ used = {} /\ asked = 0 /\ faults = 0

-----------------------------------------------------------------------------
\* What the bounds of a run count, besides requests.
Fault == faults < MaxFaults /\ faults' = faults + 1

-----------------------------------------------------------------------------
\* What the page does with an event.

\* Every event is taken for a new one.
NeverApplied(p, event) == FALSE

\* runtimeEventAlreadyApplied: the task's runtime_event_cursor is of its last event, or of epoch
\* "local", which no event is of.
AlreadyApplied(p, event) ==
  /\ p.applied # << >> /\ ~p.local
  /\ LET cursor == Last(p.applied) IN
     /\ cursor.runtime = event.runtime /\ cursor.epoch = event.epoch
     /\ cursor.sequence >= event.sequence

\* removeRuntime.
RemoveRuntime(p) ==
  IF p.entry = NoRuntime
    THEN p
    ELSE [p EXCEPT !.entry = NoRuntime, !.listeners[p.entry] = @ - 1]

\* The listener the page registers: processExited removes the runtime.
ApplyEvent(p, event) ==
  LET heard == [p EXCEPT !.heard = @ \cup {event}]
      applied == [heard EXCEPT !.applied = Append(@, event), !.local = FALSE]
  IN
  IF AlreadyApplied(p, event)
    THEN heard
    ELSE IF event.payload = Exited THEN RemoveRuntime(applied) ELSE applied

\* cacheSession of the session sendPrompt holds, whatever the cache has by now.
CacheHeld(p) == [p EXCEPT !.applied = held, !.local = heldLocal]

\* A start or a prompt is rejected after the turn was saved: the runtime goes, and the session is
\* reduced by a turnFinished the page makes up, whose epoch and number become its cursor.
TurnFailed(p, session) == [RemoveRuntime(p) EXCEPT !.applied = session, !.local = TRUE]

\* The page's subscribe, with what WakuClient.subscribe hands over.
Subscribed(p, r) ==
  FoldLeft(ApplyEvent, [p EXCEPT !.entry = r, !.listeners[r] = @ + 1], pendingEvents[r])

\* ... which keeps them no longer.
ForgetBuffer(r) == pendingEvents' = [pendingEvents EXCEPT ![r] = << >>]

-----------------------------------------------------------------------------
\* Requests.

\* requireSocket.
HasSocket == state = "connected" /\ socket # NoSocket /\ link[socket] = "open"

AwaitsAttach == \E request \in pending : request.kind = "attach"

\* WakuClient.request.
Request(kind, r) ==
  LET request == [id |-> asked + 1, kind |-> kind, runtime |-> r] IN
  /\ asked < MaxRequests
  /\ asked' = asked + 1
  /\ pending' = pending \cup {request}
  /\ requests' = [requests EXCEPT ![socket] = Append(@, request)]

\* Requests of sendPrompt that are rejected end it.
Rejected(failed) ==
  /\ page' = IF \E request \in failed : request.kind \in {"start", "prompt"}
               THEN TurnFailed(page, held) ELSE page
  /\ prompting' = IF \/ \E request \in failed : request.kind \in {"start", "prompt"}
                     \/ prompting = "attaching" /\ \E request \in failed : request.kind = "attach"
                    THEN "no" ELSE prompting
  /\ held' = IF prompting' = "no" THEN << >> ELSE held
  /\ heldLocal' = (prompting' # "no" /\ heldLocal)

\* A request of its preparation that is rejected: the task is as it was when sendPrompt began.
PreparationRejected ==
  page' = CacheHeld(page) /\ prompting' = "no" /\ held' = << >> /\ heldLocal' = FALSE

\* markDisconnected.
MarkDisconnected ==
  /\ state' = "disconnected" /\ socket' = NoSocket
  /\ pending' = {}
  /\ IF prompting = "preparing" THEN PreparationRejected ELSE Rejected(pending)

\* The timer of a request.
TimeOut(request) ==
  /\ Fault
  /\ request \in pending
  /\ pending' = pending \ {request}
  /\ Rejected({request})
  /\ UNCHANGED <<hubVars, socketVars, clientVars, stored, captured, historyVars, asked>>

\* Callbacks of a socket that was given up are not told from the present one's.
EverySocket(c) == TRUE

\* generation === this.connectionGeneration.
IsCurrent(c) == c = current

\* connect, of a new client or again.
Connect(c) ==
  /\ state = "disconnected"
  /\ link[c] = "none" /\ \A d \in Connections : d < c => link[d] # "none"
  /\ state' = "connecting" /\ socket' = c /\ current' = c
  /\ link' = [link EXCEPT ![c] = "connecting"]
  /\ UNCHANGED <<hubVars, accepted, resumeFrom, received, requests, answers, settled, pending,
                 sequences, pendingEvents, pageVars, historyVars, boundVars>>

\* The open event: Hello, with the cursors of this moment.
Opened(c) ==
  /\ link[c] = "connecting"
  /\ link' = [link EXCEPT ![c] = "open"]
  /\ IF IsCurrent(c)
       THEN /\ accepted' = [accepted EXCEPT ![c] = "greeted"]
            /\ resumeFrom' = [resumeFrom EXCEPT ![c] = sequences]
       ELSE UNCHANGED <<accepted, resumeFrom>>
  /\ UNCHANGED <<hubVars, received, requests, answers, clientVars, pending, pageVars,
                 historyVars, boundVars>>

\* failHandshake, of one that is not settled.
FailHandshake(c) == settled' = settled \cup {c} /\ state' = "disconnected"

\* Messages that arrived before the end of a socket are heard before it.
Readable(c) == link[c] \in {"open", "closing", "broken"}

\* The first message: the daemon's Hello, or Rejected, on which the client closes.
HandshakeMessage(c) ==
  /\ Readable(c) /\ IsCurrent(c) /\ c \notin settled
  /\ \/ /\ accepted[c] \in {"answered", "subscribed"}
        /\ settled' = settled \cup {c} /\ state' = "connected"
        /\ UNCHANGED link
     \/ /\ accepted[c] = "rejected"
        /\ FailHandshake(c)
        /\ link' = [link EXCEPT ![c] = IF @ = "open" THEN "closing" ELSE @]
  /\ UNCHANGED <<hubVars, accepted, resumeFrom, received, requests, answers, socket, current,
                 pending, sequences, pendingEvents, pageVars, historyVars, boundVars>>

\* Frames are heard in order: a response after the events that were put in before it.
AnswerIsNext(c) == answers[c] # << >> /\ Head(answers[c]).at = received[c]

IsNews(event) ==
  LET previous == sequences[event.runtime] IN
  ~ (previous.epoch = event.epoch /\ event.sequence <= previous.sequence)

\* push, then splice off what is over the limit.
Buffer(event) ==
  LET buffered == Append(pendingEvents[event.runtime], event) IN
  IF Len(buffered) > MaxBuffered
    THEN /\ pendingEvents' = [pendingEvents EXCEPT ![event.runtime] = Tail(buffered)]
         /\ lost' = lost \cup {Head(buffered)}
    ELSE /\ pendingEvents' = [pendingEvents EXCEPT ![event.runtime] = buffered]
         /\ UNCHANGED lost

\* handleMessage of an event: every listener is called, or it is kept.
EventMessage(c) ==
  /\ Readable(c) /\ IsCurrent(c) /\ c \in settled
  /\ received[c] < Len(outgoing[c][Session]) /\ ~ AnswerIsNext(c)
  /\ received' = [received EXCEPT ![c] = @ + 1]
  /\ LET event == outgoing[c][Session][received[c] + 1]
         listeners == page.listeners[event.runtime]
     IN
     IF IsNews(event)
       THEN /\ sequences' = [sequences EXCEPT ![event.runtime] =
                               [epoch |-> event.epoch, sequence |-> event.sequence]]
            /\ IF listeners > 0
                 THEN /\ page' = FoldLeft(ApplyEvent, page, [i \in 1..listeners |-> event])
                      /\ UNCHANGED <<pendingEvents, lost>>
                 ELSE Buffer(event) /\ UNCHANGED page
       ELSE UNCHANGED <<sequences, pendingEvents, page, lost>>
  /\ UNCHANGED <<hubVars, link, accepted, resumeFrom, requests, answers, state, socket, current,
                 settled, pending, stored, prompting, captured, held, heldLocal, published, used, boundVars>>

\* What follows the response to a request in the page.  The turn of a prompt that waited for an
\* attachment begins in the session as it was before.
Settle(request, answer) ==
  CASE request.kind = "attach" ->
         LET attached == IF answer.runtime = NoRuntime \/ page.entry # NoRuntime
                           THEN page ELSE Subscribed(page, answer.runtime)
         IN
         /\ page' = IF prompting = "attaching" THEN CacheHeld(attached) ELSE attached
         /\ IF answer.runtime = NoRuntime \/ page.entry # NoRuntime
              THEN UNCHANGED pendingEvents
              ELSE ForgetBuffer(answer.runtime)
         /\ IF prompting = "attaching"
              THEN prompting' = "preparing" /\ captured' = attached.entry
              ELSE UNCHANGED <<prompting, captured>>
         /\ UNCHANGED <<held, heldLocal>>
    [] request.kind = "start" /\ answer.ok ->
         prompting' = "started" /\ UNCHANGED <<page, pendingEvents, captured, held, heldLocal>>
    [] request.kind = "prompt" /\ answer.ok ->
         /\ prompting' = "no" /\ held' = << >> /\ heldLocal' = FALSE
         /\ UNCHANGED <<page, pendingEvents, captured>>
    [] request.kind = "close" ->
         /\ page' = RemoveRuntime(page)
         /\ UNCHANGED <<prompting, pendingEvents, captured, held, heldLocal>>
    [] OTHER -> Rejected({request}) /\ UNCHANGED <<pendingEvents, captured>>

\* handleMessage of a response; one that is not awaited any more is ignored.
ResponseMessage(c) ==
  /\ Readable(c) /\ IsCurrent(c) /\ c \in settled /\ AnswerIsNext(c)
  /\ answers' = [answers EXCEPT ![c] = Tail(@)]
  /\ LET answer == Head(answers[c])
         awaited == {request \in pending : request.id = answer.id}
     IN /\ pending' = pending \ awaited
        /\ IF awaited = {}
             THEN UNCHANGED <<page, pendingEvents, prompting, captured, held, heldLocal>>
             ELSE \A request \in awaited : Settle(request, answer)
  /\ UNCHANGED <<hubVars, link, accepted, resumeFrom, received, requests, state, socket, current,
                 settled, sequences, stored, historyVars, boundVars>>

\* The connection ends, after the client's close or not; the daemon unsubscribes it.
ConnectionEnds(c) ==
  /\ link[c] \in {"connecting", "open", "closing"}
  /\ link' = [link EXCEPT ![c] = "broken"]
  /\ IF link[c] = "closing" THEN UNCHANGED boundVars ELSE Fault /\ UNCHANGED asked
  /\ IF c \in subscribers THEN Unsubscribe(c) ELSE UNCHANGED hubVars
  /\ UNCHANGED <<accepted, resumeFrom, received, requests, answers, clientVars, pending, pageVars,
                 historyVars>>

\* The error event, which may precede the close event; it does not ask for the generation, and
\* changes nothing once the handshake is settled.
SocketErrors(c) ==
  /\ link[c] = "broken" /\ c \notin settled
  /\ link' = [link EXCEPT ![c] = "errored"]
  /\ FailHandshake(c)
  /\ UNCHANGED <<hubVars, accepted, resumeFrom, received, requests, answers, socket, current,
                 pending, sequences, pendingEvents, pageVars, historyVars, boundVars>>

\* The close event; what was not heard by then is not heard any more.
SocketCloses(c) ==
  /\ link[c] \in {"broken", "errored"}
  /\ link' = [link EXCEPT ![c] = "closed"]
  /\ answers' = [answers EXCEPT ![c] = << >>]
  /\ IF IsCurrent(c)
       THEN settled' = settled \cup {c} /\ MarkDisconnected
       ELSE UNCHANGED <<settled, state, socket, pending, page, prompting, held, heldLocal>>
  /\ UNCHANGED <<hubVars, accepted, resumeFrom, received, requests, current, sequences,
                 pendingEvents, stored, captured, historyVars, boundVars>>

\* disconnect: no socket's callbacks count any more; a handshake under way has failed.
GiveUp ==
  /\ current' = NoSocket
  /\ settled' = IF state = "connecting" THEN settled \cup {current} ELSE settled
  /\ link' = [c \in Connections |->
               IF c = socket /\ link[c] \in {"connecting", "open"} THEN "closing" ELSE link[c]]

Disconnect ==
  /\ Fault
  /\ current # NoSocket
  /\ GiveUp /\ MarkDisconnected
  /\ UNCHANGED <<hubVars, accepted, resumeFrom, received, requests, answers, sequences,
                 pendingEvents, stored, captured, historyVars, asked>>

\* The page is loaded or connected anew: a new client, and the task as the daemon stores it.
Reload ==
  /\ Fault
  /\ GiveUp
  /\ state' = "disconnected" /\ socket' = NoSocket /\ pending' = {}
  /\ sequences' = [r \in Runtimes |-> NoCursor]
  /\ pendingEvents' = [r \in Runtimes |-> << >>]
  /\ page' = [NoPage EXCEPT !.applied = stored]
  /\ prompting' = "no" /\ captured' = NoRuntime /\ held' = << >> /\ heldLocal' = FALSE
  /\ UNCHANGED <<hubVars, accepted, resumeFrom, received, requests, answers, stored,
                 historyVars, asked>>

-----------------------------------------------------------------------------
\* The page.

\* What SaveTaskState leaves stored: session_projection_precedes keeps a projection of the active
\* runtime, and the later one of the same runtime; of others the one updated last, by the clock.
Projections(incoming) ==
  LET OfActive(events) == events # << >> /\ Last(events).runtime = activeRuntimes[Session]
      OfOneRuntime == /\ stored # << >> /\ incoming # << >>
                      /\ Last(stored).runtime = Last(incoming).runtime
                      /\ Last(stored).epoch = Last(incoming).epoch
  IN
  IF OfActive(stored) # OfActive(incoming)
    THEN {IF OfActive(stored) THEN stored ELSE incoming}
    ELSE IF OfOneRuntime
      THEN {IF Last(incoming).sequence < Last(stored).sequence THEN stored ELSE incoming}
      ELSE {stored, incoming}

\* attachSession, for a task that looks busy or is shown.
AttachSession ==
  /\ page.entry = NoRuntime /\ ~ AwaitsAttach /\ HasSocket
  /\ Request("attach", NoRuntime)
  /\ UNCHANGED <<hubVars, link, accepted, resumeFrom, received, answers, clientVars, pageVars,
                 historyVars, faults>>

\* sendPrompt of a task that is not busy, up to its first await.
SendPrompt ==
  /\ prompting = "no" /\ state = "connected"
  /\ held' = page.applied /\ heldLocal' = page.local
  /\ IF page.entry # NoRuntime
       THEN /\ prompting' = "preparing" /\ captured' = page.entry
            /\ UNCHANGED <<pending, requests, asked>>
       ELSE /\ prompting' = "attaching"
            /\ IF AwaitsAttach
                 THEN UNCHANGED <<pending, requests, asked>>
                 ELSE HasSocket /\ Request("attach", NoRuntime)
            /\ UNCHANGED captured
  /\ UNCHANGED <<hubVars, link, accepted, resumeFrom, received, answers, clientVars, page, stored,
                 historyVars, faults>>

\* Its worktree is made, its checkpoint taken, the turn saved; or one of these fails.  A session
\* with a local cursor is no message to the daemon, which takes an epoch for a UUID and ignores
\* what it cannot parse: the request that saves it times out.
PreparationFails ==
  /\ prompting = "preparing"
  /\ IF heldLocal THEN UNCHANGED faults ELSE Fault
  /\ PreparationRejected
  /\ UNCHANGED <<hubVars, socketVars, clientVars, pending, stored, captured, historyVars, asked>>

\* The projection the save answers with is cached.
Prepared(projection) ==
  prompting = "preparing" /\ ~heldLocal /\ projection \in Projections(held)

CacheSaved(projection) == [page EXCEPT !.applied = projection, !.local = FALSE]

\* ... then the page listens to a new runtime before it asks for its start ...
StartRuntime(r, projection) ==
  /\ Prepared(projection) /\ captured = NoRuntime
  /\ r \notin used
  /\ used' = used \cup {r} /\ captured' = r
  /\ stored' = projection
  /\ IF HasSocket
       THEN /\ page' = Subscribed(CacheSaved(projection), r)
            /\ prompting' = "asked" /\ held' = projection
            /\ Request("start", r)
       ELSE /\ page' = TurnFailed(Subscribed(CacheSaved(projection), r), projection)
            /\ prompting' = "no" /\ held' = << >>
            /\ UNCHANGED <<pending, requests, asked>>
  /\ ForgetBuffer(r)
  /\ UNCHANGED <<hubVars, link, accepted, resumeFrom, received, answers, state, socket, current,
                 settled, sequences, heldLocal, published, lost, faults>>

\* ... and sends the prompt to the runtime it had ...
PromptRuntime(projection) ==
  /\ Prepared(projection) /\ captured # NoRuntime
  /\ stored' = projection
  /\ IF HasSocket
       THEN /\ page' = CacheSaved(projection)
            /\ prompting' = "asked" /\ held' = projection
            /\ Request("prompt", captured)
       ELSE /\ page' = TurnFailed(CacheSaved(projection), projection)
            /\ prompting' = "no" /\ held' = << >>
            /\ UNCHANGED <<pending, requests, asked>>
  /\ UNCHANGED <<hubVars, link, accepted, resumeFrom, received, answers, clientVars, captured,
                 heldLocal, historyVars, faults>>

\* ... or has started.
PromptStarted ==
  /\ prompting = "started"
  /\ IF HasSocket
       THEN Request("prompt", captured) /\ prompting' = "asked" /\ UNCHANGED <<page, held>>
       ELSE /\ page' = TurnFailed(page, held) /\ prompting' = "no" /\ held' = << >>
            /\ UNCHANGED <<pending, requests, asked>>
  /\ UNCHANGED <<hubVars, link, accepted, resumeFrom, received, answers, clientVars, stored,
                 captured, heldLocal, historyVars, faults>>

\* closeSession.
CloseSession ==
  /\ page.entry # NoRuntime /\ HasSocket
  /\ Request("close", page.entry)
  /\ UNCHANGED <<hubVars, link, accepted, resumeFrom, received, answers, clientVars, pageVars,
                 historyVars, faults>>

\* scheduleProjectionPersist and its timer, and the save of a turn that has settled; one with a
\* local cursor is not heard.
PersistProjection ==
  /\ HasSocket /\ stored # page.applied /\ ~page.local
  /\ stored' \in Projections(page.applied)
  /\ UNCHANGED <<hubVars, socketVars, clientVars, pending, page, prompting, captured, held,
                 heldLocal, historyVars, boundVars>>

\* useSession fetches the task again: the cache is what the daemon stores, though the client has
\* heard more.
RefetchSession ==
  /\ HasSocket /\ (stored # page.applied \/ page.local)
  /\ page' = [page EXCEPT !.applied = stored, !.local = FALSE]
  /\ UNCHANGED <<hubVars, socketVars, clientVars, pending, stored, prompting, captured, held,
                 heldLocal, historyVars, boundVars>>

-----------------------------------------------------------------------------
\* The daemon and its other clients.

\* handle_connection answers Hello ...
AnswerHello(c) ==
  /\ accepted[c] = "greeted" /\ link[c] \in {"open", "closing"}
  /\ \/ accepted' = [accepted EXCEPT ![c] = "answered"] /\ UNCHANGED faults
     \/ accepted' = [accepted EXCEPT ![c] = "rejected"] /\ Fault
  /\ UNCHANGED <<hubVars, link, resumeFrom, received, requests, answers, clientVars, pending,
                 pageVars, historyVars, asked>>

HelloCursors(c) == [s \in Sessions |-> IF s = Session THEN resumeFrom[c]
                                    ELSE [r \in Runtimes |-> NoCursor]]

\* ... and then subscribes: what the journal no longer holds for the client is lost.
SubscribeConnection(c) ==
  /\ accepted[c] = "answered" /\ link[c] \in {"open", "closing"}
  /\ Subscribe(c, HelloCursors(c))
  /\ accepted' = [accepted EXCEPT ![c] = "subscribed"]
  /\ resumeFrom' = [resumeFrom EXCEPT ![c] = [r \in Runtimes |-> NoCursor]]
  /\ LET r == activeRuntimes[Session] IN
     lost' = lost \cup
       {event \in ToSet(published) :
          /\ event.runtime = r /\ event.epoch = epoch
          /\ event.sequence > ResumePoint(HelloCursors(c), Session, r)
          /\ event.sequence <= EvictedUpTo(Session, r)}
  /\ UNCHANGED <<link, received, requests, answers, clientVars, pending, pageVars,
                 published, used, boundVars>>

\* The mailbox worker, after the connection has ended too; Start replaces what runs.
HandleRequest(c) ==
  /\ requests[c] # << >> /\ accepted[c] = "subscribed"
  /\ requests' = [requests EXCEPT ![c] = Tail(@)]
  /\ LET request == Head(requests[c])
         active == activeRuntimes[Session]
         Answer(ok, r) ==
           answers' = IF c \in subscribers
                        THEN [answers EXCEPT ![c] = Append(@,
                               [id |-> request.id, ok |-> ok, runtime |-> r,
                                at |-> Len(outgoing[c][Session])])]
                        ELSE answers
     IN
     CASE request.kind = "attach" -> Answer(TRUE, active) /\ UNCHANGED hubVars
       [] request.kind = "start" -> BeginRuntime(Session, request.runtime) /\ Answer(TRUE, active)
       [] request.kind = "prompt" -> Answer(active = request.runtime, active) /\ UNCHANGED hubVars
       [] request.kind = "close" ->
            /\ Answer(TRUE, active)
            /\ IF active = request.runtime THEN EndRuntime(Session, active) ELSE UNCHANGED hubVars
  /\ UNCHANGED <<link, accepted, resumeFrom, received, clientVars, pending, pageVars,
                 historyVars, boundVars>>

\* A Start that fails ends the runtime it began.
StartFails(c) ==
  /\ Fault
  /\ requests[c] # << >> /\ accepted[c] = "subscribed"
  /\ LET request == Head(requests[c]) IN
     /\ request.kind = "start"
     /\ Fresh(request.runtime)
     /\ activeRuntimes' = [activeRuntimes EXCEPT ![Session] = NoRuntime]
     /\ ForgetSession(Session)
     /\ begun' = [begun EXCEPT ![Session] = Append(@, request.runtime)]
     /\ answers' = IF c \in subscribers
                     THEN [answers EXCEPT ![c] = Append(@,
                            [id |-> request.id, ok |-> FALSE, runtime |-> NoRuntime,
                             at |-> Len(outgoing[c][Session])])]
                     ELSE answers
  /\ requests' = [requests EXCEPT ![c] = Tail(@)]
  /\ UNCHANGED <<epoch, subscribers, opened, outgoing, emitted, resumedAt, link, accepted,
                 resumeFrom, received, clientVars, pending, pageVars, historyVars, asked>>

\* An event of the runtime; processExited is its last.
Publication(r, payload) ==
  /\ nextSequences[Session][r] < MaxSequence
  /\ \A event \in ToSet(published) : event.runtime = r => event.payload # Exited
  /\ Emit(Session, r, payload, TRUE)
  /\ published' = Append(published, [runtime |-> r, epoch |-> epoch,
                                     sequence |-> SequenceOfNext(Session, r),
                                     payload |-> payload])
  /\ UNCHANGED <<socketVars, clientVars, pending, pageVars, lost, used, boundVars>>

\* Another client starts a runtime of the task, or closes the one that runs.
StartedElsewhere(r) ==
  /\ Fault
  /\ r \notin used
  /\ used' = used \cup {r}
  /\ BeginRuntime(Session, r)
  /\ UNCHANGED <<socketVars, clientVars, pending, pageVars, published, lost, asked>>

ClosedElsewhere ==
  /\ Fault
  /\ activeRuntimes[Session] # NoRuntime
  /\ EndRuntime(Session, activeRuntimes[Session])
  /\ UNCHANGED <<socketVars, clientVars, pending, pageVars, historyVars, asked>>

\* A new daemon: every connection ends, requests that wait are gone.
DaemonRestart ==
  /\ Fault
  /\ epoch < MaxEpoch
  /\ Restart
  /\ link' = [c \in Connections |->
               IF link[c] \in {"connecting", "open", "closing"} THEN "broken" ELSE link[c]]
  /\ requests' = [c \in Connections |-> << >>]
  /\ UNCHANGED <<accepted, resumeFrom, received, answers, clientVars, pending, pageVars,
                 historyVars, asked>>

-----------------------------------------------------------------------------

ClientNext ==
  \/ \E c \in Connections :
       \/ Connect(c) \/ Opened(c) \/ HandshakeMessage(c) \/ EventMessage(c) \/ ResponseMessage(c)
       \/ SocketErrors(c) \/ SocketCloses(c)
  \/ \E request \in pending : TimeOut(request)
  \/ Disconnect \/ Reload

PageNext ==
  \/ AttachSession \/ SendPrompt \/ PreparationFails \/ PromptStarted
  \/ CloseSession \/ PersistProjection \/ RefetchSession
  \/ \E projection \in Projections(held) :
       PromptRuntime(projection) \/ \E r \in Runtimes : StartRuntime(r, projection)

DaemonNext ==
  \/ \E c \in Connections :
       ConnectionEnds(c) \/ AnswerHello(c) \/ SubscribeConnection(c) \/ HandleRequest(c)
         \/ StartFails(c)
  \/ \E r \in Runtimes :
       StartedElsewhere(r) \/ \E payload \in Payloads : Publication(r, payload)
  \/ ClosedElsewhere \/ DaemonRestart

WebNext == ClientNext \/ PageNext \/ DaemonNext

WebSpec == WebInit /\ [][WebNext]_webVars

-----------------------------------------------------------------------------
(***************************************************************************)
(* Properties.                                                             *)
(***************************************************************************)

\* The type of every variable.
WebTypeOK ==
  /\ link \in [Connections -> {"none", "connecting", "open", "closing", "broken", "errored",
                               "closed"}]
  /\ accepted \in [Connections -> {"no", "greeted", "answered", "rejected", "subscribed"}]
  /\ state \in {"disconnected", "connecting", "connected"}
  /\ {socket, current} \subseteq Connections \cup {NoSocket} /\ settled \subseteq Connections
  /\ pending \subseteq [id : 1..MaxRequests, kind : {"attach", "start", "prompt", "close"},
                        runtime : Runtimes \cup {NoRuntime}]
  /\ {sequences} \cup {resumeFrom[c] : c \in Connections} \subseteq [Runtimes -> Cursor]
  /\ pendingEvents \in [Runtimes -> Seq(Event)]
  /\ page.entry \in Runtimes \cup {NoRuntime} /\ page.listeners \in [Runtimes -> Nat]
  /\ {page.applied, stored, held, published} \subseteq Seq(Event)
  /\ prompting \in {"no", "attaching", "preparing", "asked", "started"}
  /\ captured \in Runtimes \cup {NoRuntime} /\ {page.local, heldLocal} \subseteq BOOLEAN

\* Whatever the sockets, reloads and listeners before, the task has the session's events in the
\* order they were published, and none twice.
AppliedInOrder ==
  \A i, j \in 1..Len(page.applied) :
    i < j => \E m, n \in 1..Len(published) :
               m < n /\ published[m] = page.applied[i] /\ published[n] = page.applied[j]

\* What the client counts as seen, and will not ask for again, was given to the page's listener,
\* waits for one, or was dropped by one of the two limits.
NothingSkipped ==
  \A event \in ToSet(published) :
    /\ sequences[event.runtime].epoch = event.epoch
    /\ event.sequence <= sequences[event.runtime].sequence
    => event \in page.heard \cup ToSet(pendingEvents[event.runtime]) \cup lost

\* The page hears the runtime it has an entry for, and nothing of one it hears is kept back.
EntryIsHeard ==
  /\ page.entry # NoRuntime => page.listeners[page.entry] > 0
  /\ \A r \in Runtimes : page.listeners[r] > 0 => pendingEvents[r] = << >>

\* No promise waits for a socket that is gone, and sendPrompt always has one to wait for.
RequestsAreAwaited ==
  /\ pending # {} => state = "connected"
  /\ prompting = "attaching" => AwaitsAttach
  /\ prompting = "asked" => \E request \in pending : request.kind \in {"start", "prompt"}

(***************************************************************************)
(* In every state: the types; the cached task has events in order and      *)
(* once, though the page caches older copies of it over newer ones; the    *)
(* client skips no event (client.ts, "reconnects while replaying events    *)
(* after the last seen sequence") but what a limit explains; the page      *)
(* hears its runtime; its requests are awaited on the present connection.  *)
(***************************************************************************)
WebInvariant ==
  /\ WebTypeOK /\ AppliedInOrder /\ NothingSkipped
  /\ EntryIsHeard /\ RequestsAreAwaited

(***************************************************************************)
(* A connected client is disconnected only by its user or by the end of    *)
(* its own socket: late events of a socket given up before (a handshake    *)
(* that failed, a disconnect) do not take the connection that followed.    *)
(***************************************************************************)
ConnectionStands ==
  [][state = "connected" /\ state' # "connected"
       => current' = NoSocket \/ link'[current] = "closed"]_webVars
=============================================================================
