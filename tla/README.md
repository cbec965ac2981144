# Piwaku in TLA+

Models, TLC runs and TLAPS proofs about the concurrent core of Piwaku: the
daemon that owns the provider runtimes, the provider drivers, the client that
follows them over connections that break, the desktop's turns and follow-up
queue, and the threads in between. Paths are relative to the repository. `WC` is
`crates/waku-core/src`, `CL` is `crates/waku-client/src`.

## 1. The system

Piwaku's desktop (Rust, GPUI) and web app are clients of a *daemon*. The daemon
runs provider CLIs (Codex, Claude, OpenCode, Pi, ...), each session having at
most one live *runtime*, stores the tasks, and streams the runtimes' events to
every connected client. A client that loses its connection reconnects and
resumes with cursors. Everything inside the daemon and the client is threads,
mutexes and channels; nothing is async.

```
 provider CLI -> driver -> event thread -> Hub ---journal/subscribers---> connection
                              ^             ^                                 |
 RequestDispatcher -> mailbox worker -> WakuBackend                     run_client (reader)
        ^                                   |                                 |
   connection threads                 task store, pools        pending_events / subscription
                                                                              |
 DaemonSupervisor: monitor, settings writer ----clients----> forwarder -> desktop UI
```

### Components

| component | state | operations | made correct by |
|---|---|---|---|
| event hub (`WC/server.rs`, `Hub`) | active runtime, sequence counter and journal of each session, subscribers, epoch | begin/end runtime, emit, subscribe, unsubscribe | subscribers get an ordered, repeat-free, hole-free stream from their cursor on |
| event path (`CL/client.rs`, `CL/process.rs`, `src/driver/mod.rs`) | last sequences, pending buffer and senders of a connection; target and client channel of the supervisor; the forwarder's position | read a frame, subscribe, disconnect, reconnect, publish the new client, attach, forward | the desktop sees the runtime's events in order, once, and its end only when it ended |
| request dispatcher, runtime mailbox (`WC/server.rs`, `WC/daemon.rs`) | mailboxes and workers, response cache, `WakuBackend::sessions`, the hub's active runtime | dispatch, handle, cache, supervise, retire | commands of a session in order, once, none lost; backend and hub agree |
| provider server pools (`WC/opencode_pool.rs`, `WC/deepseek_pool.rs`) | slot state, weak reference, handles, child process | acquire, replace, start, release, destroy | one process, never stopped in use, never left behind |
| settings writer (`CL/process.rs`) | wanted and persisted settings, channel | update, refresh, write, retry | the daemon ends up with the last wish |
| task store and catalogue (`WC/daemon.rs`, `WC/server.rs`) | sessions, removed ids, revisions | save projections, remove, rewind, fork, capture | a stale projection never undoes newer state |
| desktop turn queue (`src/app/runtime.rs`, `streaming.rs`, `sessions.rs`, `goal_dialog.rs`) | composer, turns, queued and steering messages, captures, preparations, goal and fork starts in flight | submit, steer, edit, queue, drain, stop, set a goal, fork, handle an event | each message sent once and at the right time, none left waiting |
| provider drivers (`WC/driver`) | a command channel, a writer's and a reader's position, what is pending of a turn: a flag, prompts, requests, steers, a turn id, a place in a log | take a call, write it, read an answer, announce and finish a turn, answer a steer, report the exit | calls in order; turns announced and finished once and only when asked for; every steer answered |
| web client (`packages/waku-client/src/client.ts`, `apps/web/src/lib/runtime-context.tsx`) | socket, connection generation, pending requests, cursors, listeners, buffered events; a task's entry, cached session, what `sendPrompt` holds | connect, handshake, resume, request, listen, disconnect; attach, start, prompt, close, save, fetch again | no event skipped, applied twice or out of order; an old socket never disturbs the present one |
| session model (`crates/waku-protocol/src/model.rs`) | session, turns, entries | turn begin/finish, truncate | turns and entries stay consistent |
| persistence, drafts (`CL/persistence.rs`, `WC/persistence.rs`) | tables, dirty sets, what was written, draft generations | save, load, hydrate | what is not dirty is stored; no lost or reverted write |

Not protocol, and left out: the wording of the drivers' line protocols, terminals, git
operations, transcript importers, usage/model/skill queries, blob store,
rendering and widgets, the web client's reducer, website and assets.
`PROJECT.json` lists every component with its status.

### What is hard here

* Replay and live events meet in `Hub::subscribe`; a driver's event thread may
  emit after its runtime was replaced; a daemon restart starts numbering anew.
* An event may arrive before its subscriber, and a connection may break at any
  point of an attachment. The client buffers, remembers cursors, and the
  forwarder has to leave a dead connection for one that the supervisor may
  publish before or after it looks.
* `WakuBackend::sessions`, `HubState::active_runtimes` and the worker's
  `active_runtime_id` are three copies of one fact under three locks, updated in
  sequence by a worker that retires, panics and is replaced.
* A pooled server dies in a destructor that races the next acquire.
* `persisted_settings` is compared on the UI thread while the writer works.
* Every desktop edits its own copy of a task and sends the whole of it, in
  notifications that run on a thread each; the daemon has to tell the newer copy
  from the older by runtime, event cursor and a clock in seconds, while it
  captures checkpoints and rewinds without keeping its lock.
* A message a user sends passes through the composer, the queue, a steer and back,
  a preparation on a background thread, the driver's channel and the provider,
  and eight kinds of provider report differently that its turn began and ended.
  What sends the next one is whatever ends last: the turn, its checkpoint, a goal's
  start or a fork.
* A driver's writer waits for answers while its reader reports ends and failures
  of the same turn; the provider may answer late, twice, after a cancel, for a
  request that was given up, or die at any of these points.
* A web page keeps a task in a cache that a listener, `sendPrompt` after several
  awaits, and a query that fetches again all write; its client's cursors, listeners
  and buffer outlive a socket, and old sockets still call back.
* A list row and a loaded task are one type; a save that fails leaves memory and
  tables apart.

`PROJECT.json` lists 40 hazards with their lines and the properties on them.

## 2. Modules

| module | models | state and actions |
|---|---|---|
| `EventHub` | the hub | one variable per field of `HubState`; every method is one action because it runs under the one mutex. A connection's channel and socket are one FIFO, `outgoing`. `begun`, `emitted`, `resumedAt` are history. |
| `EventStream` | abstract: what the desktop is promised about one runtime | publish, deliver a later event, report an end that happened |
| `EventDelivery` | hub + client reader + supervisor + forwarder | extends `EventHub`; a step of each thread per action; `forwarder` and `monitor` are program counters at the points where those threads block or take a lock |
| `RuntimeActor` | dispatcher, mailbox worker, backend table | `worker` is the worker's program counter; `backend`, `streaming`, `supervised` the three copies; `requests` is the dispatch order |
| `ServerPool` | one pool slot | `phase` is each thread's program counter in `acquire_with_start` and `PoolInner::drop`; `handle` its strong reference |
| `SettingsWriter` | supervisor's settings, three threads | each lock region and channel operation is an action |
| `StateStore` | the daemon's database and `PersistedState` | `listed`, `details`, `messageRows` are the tables; `tasks`, `dirty` the state in memory; `persisted`, `written` what the connection remembers. `SaveCommits` and `SaveFails` are the two outcomes of `save`, `Hydrated` and `LoadTasks` the reads |
| `TaskStore` | the daemon's tasks and the desktops that edit them | extends `StateStore`; `local`, `unsaved`, `attached` are a desktop's; `sent` and `saving` are the `SaveTaskState` notifications before and after they have read the active runtimes; `rewinding` and `capturing` the two operations that leave the lock |
| `DriverEvents` | `DriverHandle`'s calls and the `DriverEvent`s about turns | constant definitions |
| `TurnStream` | abstract: what a desktop may rely on of any driver | `calls` and `events` are the two channels; `starts`, `finishes`, `steering` what the driver still owes; `Serve` takes a call or pays one, `Exit` is last |
| `DesktopTurn` | one task on the desktop | extends `TurnStream`. `task` is a record of the task's entries in `Waku`'s maps and its session; each UI handler, and each report of a background task, is one action, because it runs to its end on the UI thread, and an operator on `task`, because handlers call one another |
| `DriverFrame` | what the drivers have in common | a provider process (`agent`), its wire, the position of the writer (`server`) and of the reader (`reader`), what both know of the turn (`turn`) |
| `FlagDrivers` | `claude.rs`, `amp.rs`, `opencode.rs` | a `turn_active` flag; OpenCode asks over HTTP and may resume a running turn |
| `AcpDriver` | `acp.rs`: Cursor, Grok, Kimi, Fx | `PendingPrompts`, steers as further prompts, the extension's notices |
| `CodexDriver` | `codex.rs` | waits for a thread id; a turn id; steers pending by request; turns a goal begins |
| `PiDriver` | `pi.rs`: Pi, OhMyPi | RPCs with a timeout; the session's opening; turns a goal begins |
| `DeepSeekDriver` | `deepseek.rs`, `deepseek_session.rs` | an event log with sequence numbers, a downlink that breaks, recovery by fetching |
| `ComposerDrafts` | unsent composer text of a desktop and a web page, and the daemon's document | the desktop's debounce and generations (`generation`, `armed`, `jobs`), what it believes stored (`snapshot`, `saved`); the page's `timers` by key and its chain of `writes`; a request's failure is carried out or not |
| `WebClient` | `WakuClient` and one task of the page, over the hub | extends `EventHub`. `link` and `accepted` are the two ends of each socket, `current` and `settled` the generation and `handshakeSettled`; `prompting` is the position of `sendPrompt` at its awaits, `held` the session it holds there; `page` the entry, listeners and cached events. One callback of the browser is one action |
| `ProviderDrivers` | `start_local`: one driver of any kind | composes the five by INSTANCE; `Contract == INSTANCE TurnStream WITH ...` is the refinement |
| `EventHubProofs`, `EventDeliveryProofs`, `RuntimeActorProofs`, `DraftsSettingsPoolProofs`, `TaskStoreProofs`, `DesktopTurnProofs`, `ProviderDriversProofs`, `WebClientProofs` | TLAPS proofs about the module of that name (`ComposerDrafts`, `SettingsWriter` and `ServerPool` share one) | invariants and lemmas only, no state of their own |
| `MC*` | the instances for TLC | |

`EventDelivery` composes the hub with the client side by EXTENDS and conjoins
hub actions with `UNCHANGED` of its own variables; it refines `EventStream`
through `Stream == INSTANCE EventStream WITH ...`. `RuntimeActor` and `EventHub`
meet in the runtime begin and end, which the first drives by its commands and
the second accepts at any time. `TaskStore` composes the daemon's handlers with
the store by EXTENDS: a handler changes the tasks and names the ones it marks,
and `SaveTasks` is the `save` at its end. It takes from the rest of the system
that one runtime at a time serves a task and that a desktop receives its events
in order, which is what the other modules show.

`TurnStream` is the joint between the desktop and the drivers. `DesktopTurn` is
checked over it, with every freedom it leaves; `ProviderDrivers` is shown to
refine it, kind by kind. What differs between the kinds is in four of its
variables, fixed at the start of a runtime: how often a prompt may be announced
(`attempts`: 2 where an RPC that timed out may still be carried out), whether a
turn may begin or end that the desktop did not ask for (`starts`, `finishes`: a
resumed one), and whether the driver hears the provider before it has written
(`eager`). `DesktopTurn` sets `Forgoes` to FALSE (a driver serves what it can
before it exits), which only matters for liveness. Definitions whose comment says a check or reset
is missing (`EmitFromAnyRuntime`, `KeepSuperseded`, ...) are plausible mistakes,
next to the correct operator; no specification uses them, they show which
property notices.

## 3. Runs

| run | instance | checks |
|---|---|---|
| `EventHub.cfg` | 2 sessions, 2 runtimes, 1 connection, journal of 2, 3 events per runtime, 1 restart | types; `JournalIsNewest`; `StreamOrdered`; `ResumeComplete` |
| `EventDelivery.cfg` | journal and buffer of 1, 2 events, fair threads; 3 successive connections and 1 restart, or 2 connections and another client replacing the runtime | `DeliveryInvariant` (types, no silent gap); refinement `ImplementsStream`; `AttachedCatchesUp`; `AwaitingEnds` |
| `RuntimeActor.cfg` | 2 runtimes, 4 requests of all kinds, resent ones included, 1 panic, cache of 2 | types; `RuntimesAgree`; `MailboxInOrder`; `RequestsIdempotent`; `EveryRequestServed` |
| `ServerPool.cfg` | 3 sessions, 4 acquires, 4 servers, any crash | types; `OneServer`; `HeldServerRuns`; `AcquireEnds`; `UnusedServerEnds` |
| `SettingsWriter.cfg` | 3 values, 4 updates, 2 replacements, 2 failures | types; `SettingsInvariant` (what counts as persisted is what the daemon has, and at rest the daemon has the last wish); `SettlesUnlessSkipped` |
| `TaskStore.cfg` | 1 task, 1 edit, clock of 0 and 1; 2 desktops with 1 save under way, or 1 desktop with 3 saves under way and 1 failed save or restart | types; `WrittenIsStored`; `CleanIsStored`; `RemovedStaysRemoved`; `CheckpointKept`; `NeverFallsBehind` |
| `DesktopTurn.cfg` | 1 task of Amp, Claude, Codex or OhMyPi, 2 messages (Codex 1), up to 2 turns or a goal's, 1 call and 2 events under way | types; `NeverSentTwice`; `SteersAreAnswered`; `CheckpointsPrecedePrompts`; `QueueResumes` |
| `ComposerDrafts.cfg` | 2 keys of each client, 3 texts, 3 other acts (navigation, clearing, sending, removing, quitting), 1 failed request | `DraftsInvariant` (types, what was saved is stored); `NothingResurfaces` |
| `WebClient.cfg` | 1 task, 2 runtimes of 2 events, 3 sockets, 3 requests, journal and buffer of 1, 2 faults (a lost connection, rejected handshake, timeout, failure, disconnect, reload, daemon restart, another client's start or close) | `WebInvariant` (types, order, nothing skipped, listeners, awaited requests); `ConnectionStands` |
| `ProviderDrivers.cfg` | each of eight kinds, 2 messages each prompted and steered, Stop, a goal, one broken link, a death anywhere | types; refinement `KeepsContract`; `SteersAreReported`; `TurnsEnd` |

Two runs are expected to violate their property and document a disagreement
between the code and what it says of itself:

| run | what it shows |
|---|---|
| `TaskStoreSkeleton.cfg` | `detail_loaded` is not on the wire (`model.rs:988`). A task renamed in the list without having been opened reaches the daemon as a loaded task without history, replaces the stored one (`daemon.rs:571`), counts as not started, and its rows are deleted. |
| `DesktopTurnPrepared.cfg` | `TurnFinished` acts on the active turn without asking whether it has begun (`streaming.rs:544`). After Stop the user sends again; the end of the stopped turn arrives while the new one is prepared, finishes it, and `finish_submission_preparation` drops the prompt, taking it for a session that was replaced (`runtime.rs:3361-3363`). |

### Known disagreements without a run

Met while modelling. The models do what the code does; the properties either do
not speak of these or exclude them by name, and say so.

* `DaemonClient::subscribe` accepts a subscriber after `run_client` has dropped
  the senders (`client.rs:128`, `355-359`): its receiver never closes and the
  forwarder never hands off.
* A timed-out `AttachSession` on a live connection leaves the forwarder waiting
  (`src/driver/mod.rs:190`; set `AttachTimesOut` to TRUE in
  `EventDelivery.cfg` and `AwaitingEnds` fails).
* A rewind drops the driver but leaves the hub's active runtime
  (`daemon.rs:1284`), so late events are streamed, which the comment above it
  excludes. `RuntimesAgree` leaves rewinds out.
* `Goal` is missing from `command_targets_runtime` (`server.rs:672`) and
  overtakes the mailbox.
* An update skipped because it equals `persisted_settings` while another one is
  being written leaves the daemon with the other (`process.rs:488`);
  `SettlesUnlessSkipped` excludes it.
* `write_messages` deletes only positions past the end (`persistence.rs:1636`). A
  prompt edited and submitted again before a save leaves the old prompt's row at
  the same position, and the next hydration shows both.
* Desktop: when a second preparation of a task is under way the first report
  sends its message under the newer turn; `ProcessExited` drops the steers it
  still awaits; a failed preparation of a task that is not selected loses its
  prompt, and one of the selected task overwrites what was typed since; `Error`
  while Connecting leaves a running turn with status Failed; the unwinding of a
  goal's turn drains no queue; with goals, a deferred drain can be taken by an
  older capture and the goal's turn begins while a capture is pending; a fork does
  not look at a goal's start, nor the reverse, and two providers are launched.
* Desktop: handing over a prompt forgets every steer whose answer is still to come
  (`runtime.rs:3405`). A rejection that arrives after that is taken for the oldest
  steer given since (`streaming.rs:415-421`): that one is queued although its own
  answer is still to come, the rejected one is lost, and when the second steer is
  rejected too it is sent twice. `task.misread` records the confusion and
  `NeverSentTwice` ends there.
* Drafts: a desktop's save that was carried out but not answered leaves
  `save_state.snapshot` as it was. When the draft is then sent or cleared, the next
  save finds no difference to that snapshot, sends nothing and records its
  generation (`CL/persistence.rs`), and the daemon keeps the sent draft, contrary
  to `drafts.rs:178-180`. `SavedIsStored` exempts such a key, `NothingResurfaces`
  such a desktop.
* Web client: `sendPrompt` and `finalizeSettledTurn` cache and save the session
  they captured before their awaits (`runtime-context.tsx:343`, `650-714`,
  `765-772`), and `useSession` a stored one, over what was queued or applied
  meanwhile: the client's cursors have passed those events and nothing replays
  them. `WebClient` does the same (`CacheHeld`, `RefetchSession`), and
  `NothingSkipped` is about the events handed to the page, not those its cache
  keeps. Two sends before the attachment resolves both begin a turn; steer answers
  are matched to messages by order.
* Web client: a start or prompt that fails is reduced as an event the page makes up
  (`runtime-context.tsx:763-775`, `1420-1433`), of epoch `'local'` and number 0, which
  becomes the session's cursor (`event-reducer.ts:66-70`; `page.local`, `heldLocal`
  and `TurnFailed` in the model). The daemon's cursor has a `Uuid` there
  (`model.rs:903-907`), so it cannot read a message with such a session and ignores it
  (`server.rs:617-619`). The failed turn is not stored, every save of the task and the
  preparation of its next prompt time out after two minutes, and so on until an event
  of a runtime is applied or the task is fetched again.
* Web client: `attachSession` trusts an existing entry (`runtime-context.tsx:578`),
  so a runtime that ended while the page was disconnected is never reported to it.
  A runtime whose process exited stays in the daemon's table (`daemon.rs:970`), the
  page attaches to it again, its prompt is acknowledged and no turn begins or ends.
  A start that overtakes an attachment overwrites the entry without unsubscribing
  its listener (`runtime-context.tsx:449`).
* Drivers: an Amp result with `is_error` never finishes its turn; a Codex prompt
  whose thread does not open within its deadline, or cannot be written, gives an
  `Error` and no `TurnFinished`, and its pending steers die with the process; the
  result of a cancelled turn takes the next prompt's `turn_active` (Claude, Amp,
  OpenCode); a Pi or DeepSeek request that timed out is reported failed and may
  still run, ending its turn twice; DeepSeek jumps over what it could not fetch.
* OpenCode: the worker posts a prompt (`opencode.rs:387-403`) while another thread
  is still opening the event stream (`300-308`). A `session.idle` told before that is
  heard by nobody: the snapshot that follows reads `/permission` only (`314-330`),
  `turn_active` stays set, and the announced turn never ends, although
  `opencode.rs:392-394` says that "completion arrives as `session.idle` on the event
  stream". `AgentEnds` has this end and records it in `history.lost`; without that
  exception TLC finds `TurnsEnd` violated for OpenCode.

### Bounds, and why they are enough

* Journal and buffer limits of 1 or 2 are exceeded by 2 or 3 events, so eviction
  and overflow happen; larger limits only repeat them.
* Two sessions show that begin and end touch one session only; two runtimes that
  one replaces another; the hub's connections never influence each other, so one
  suffices there. Three successive connections are the least with one that breaks
  between two others, the case of a cursor inherited from a connection nobody read.
* Four requests cover start, a command, close or remove, and a start or resend
  after it, around a retirement and a panic; a cache of two evicts by then.
* Four acquires by three threads allow a dead server that is still held, its
  replacement, and a third thread that waits.
* One edit (create, submit, submit again, rename, remove or a browser's rewind)
  beside any number of refreshes, hydrations, attachments, events, saves and
  captures of an old task with one turn: two desktops suffice for a stale
  projection, three saves of one for every order of an old, a middle and a new
  one. A clock of two values has equal and unequal stamps. Sessions touch each
  other nowhere in these handlers, so one suffices; titles are only compared and
  are a symmetry. A second prompt on one runtime needs two edits, which only
  `TaskStoreSkeleton.cfg` has.
* The instances of `EventDelivery` and `TaskStore` are unions of two smaller ones
  (`WithinInstance` in their `MC` modules), because what each adds is independent.
  In the first only steps of the environment are limited, so that fairness of the
  threads is met.
* Three sockets are one in use, one given up and one made since; two faults let
  one break the connection and another the handshake or request that follows. Three
  requests are an attachment, a start and a prompt. The events of two runtimes
  exceed a buffer and a journal of one.
* Two keys of a client let a timer, a job and a write of one pass those of the
  other; three texts are an old, a middle and a new one across two clients.
* The confusion of steers `task.misread` records needs four messages (a prompt, a
  steer, the next prompt, the next steer) and is out of this instance: here
  `NeverSentTwice` holds without the exception. With a Claude task of four messages
  and four turns, without forks, failures and exits, TLC finds the message sent
  twice when the exception is taken away; with it, nothing was found in the 22 million
  states searched (not the whole graph; with three turns, 5.5 million, it is).
* Two messages are the least with one queued, steered or edited behind another,
  and every order of their ends, answers and checkpoints. Codex has the goals
  and the turns it begins itself, and gets one message; OhMyPi has the attempts, the
  ends nobody asked for and the forks that start or close a driver; Amp loses its
  runtime on Stop; Claude has none of this. DeepSeek, which in addition hears before
  it writes, Pi and OpenCode are combinations of these and too large or add nothing
  (OpenCode and DeepSeek were run alone, the latter not to its end). `MaxTurns` and `MaxPursued` bound the turns, `MaxCalls` and `MaxEvents`
  the channels; a driver may send `MaxUnread` events that are about no turn.
* Drivers are asked for each call once, DeepSeek for three at a time (`Asks`);
  `MaxPursuits` turns are begun by a goal, `MaxBreaks` links break. That is two
  turns that overlap at the provider, a steer into either, and a cancel between.
  Kimi and Fx run Cursor's control and OhMyPi runs Pi's; they are kinds of the
  module and left out of the instance.
* `MaxTexts`, `MaxActs`, `MaxFailed`, `MaxEdits`, `MaxSent`, `MaxFaults`, `MaxSeconds`, `MaxSequence`, `MaxEpoch`, `MaxRequests`, `MaxPanics`, `MaxAcquires`,
  `MaxUpdates`, `MaxReplaced`, `MaxFailures` are bounds of the instance and in
  the guards of environment actions, the clock, and the outcomes that fail. `MaxReplay`, `MaxBuffered` and
  `MaxCached` are limits of the code.
* `CHECK_DEADLOCK FALSE` everywhere: clients and providers may stop acting, and
  the bounds end every behaviour.

### Fairness

Weak fairness is on threads and never on the environment (users, clients,
providers, crashes, lost connections):

* reader, monitor and forwarder (`EventDelivery`): each is a loop around a
  blocking receive; no lock is kept across one. That a reconnection attempt
  succeeds once tried is part of the bound on connections.
* mailbox worker and request threads (`RuntimeActor`): backend calls return.
* pool threads (`ServerPool`): `start` has a deadline (`SERVER_START_TIMEOUT`),
  `shutdown` another one before it kills; releasing a handle is not fair.
* UI, refresh and writer thread (`SettingsWriter`): requests end, with a timeout
  if nothing else; a failed one is retried, which `MaxFailures` bounds.
* the event pump, once woken, runs; preparations, captures, goal starts and forks
  end and report (`DesktopTurn`): each is a background task the desktop starts at
  once, whose git and process calls end. Nothing is assumed of the driver.
* the writer and reader threads and the downlink of a driver; a provider reads
  what was written, and begins, answers and ends what it read, or dies
  (`ProviderDrivers`). A provider that hangs for ever hangs its turn, and Stop is
  the code's remedy; nothing else could be promised. Deaths, breaks and calls are
  not fair.

## 4. Proofs

Eight modules, named after what they are about, prove for all values of the
constants, and from the named assumptions of the modules only, what the runs
check on instances. Each component has its inductive invariant, whose parts are the
conjuncts named below, a lemma per part or per action that says the part is
kept, and theorems that read the properties off it.

**Event hub.** `HubTypeCorrect`, `JournalCorrect`, `StreamCorrect`,
`ResumeCorrect`, the last three from `HubInvariant`. None of the three
properties is inductive: that a new event extends a subscriber's ordered stream
needs that all earlier ones of the runtime are counted and that the active
runtime began last. `HubIInv` therefore adds to them:

* `BegunOnce`, `ActiveIsLatest`: runtimes begin once, and the active one last;
* `EmittedCounted`: what a runtime emitted is increasing and not ahead of its counter;
* `StreamCounted`: what was sent is of runtimes that began and not ahead of them;
* `ResumeCounted`: no subscriber resumes ahead of the counter.

The proof has a lemma per action and conjunct. `Subscribe` is the delicate one:
the replay is the part of the journal above a cut, and `JournalIsNewest` relates
the journal to everything emitted.

**Server pool.** `PoolTypeCorrect`, `OneServerCorrect`, `HeldServerCorrect` from
`PoolInvariant`. `OneServer` is not inductive: a launch is safe only because the
slot is `starting`, which one thread at a time can claim (`OneStarter`), and
because any process that runs is the slot's or the starter's (`AliveIsSlots`).
`HeldServerRuns` needs in addition that the last handle's destructor and a holder
exclude each other (`HeldIsShared`) and that a server being started is known to
nobody else (`StartingIsOwn`, `KnownIsLaunched`).

**Event delivery.** `DeliveryCorrect` and, for the refinement,
`DeliveryImplementsStream`: hub, connections, supervisor and forwarder together
implement `EventStream`, from the initial state and step by step, a step of a
thread being a step of the stream or a stutter. Both are read off
`DeliveryInductive`. The module extends `EventHubProofs` and cites its lemmas about
`Emit`, `Subscribe` and the runtime begin and end. That no event is skipped is a
chain of places, each with a part of the invariant of its own: the journal is the
newest part of what was published (`HubFollowsPublished`); a frame not yet read has
every earlier event seen, unread before it, or lost (`UnreadWithoutGap`); a client
holds back or hands over in order, and a later connection has seen at least as much
as an earlier one (`HeldInOrder`, `LaterIsNewer`), which is why cursors may be
inherited; one receiver at a time belongs to the forwarder, which moves to a
connection no older than its own (`ForwarderMovesOn`).

**Runtime mailbox.** `ActorTypeCorrect`, `RuntimesCorrect`, `OrderCorrect` and
`IdempotenceCorrect` from `ActorInductive`. `RuntimesAgree` speaks of the moments
between two requests; `Returned` says what backend and hub are while the worker has
yet to follow, command by command and for success and failure, so that settling
restores agreement. `MailboxInOrder` needs that what waits was dispatched after what
was taken (`QueueInOrder`), also when a worker retires. `RequestsIdempotent` needs
that every answer is cached until its id is evicted, and that nothing cached is being
executed (`CachedOnce`, `AnsweredIsCached`, `HandledIsAnswered`).

**Settings writer.** `SettingsTypeCorrect` and `SettingsCorrect` from
`SettingsInductive`, which adds what the daemon has between its answer and the
writer's record of it (`AppliedIsWritten`), and that with nothing queued the writer
is writing, or has written, what the user wants (`OnItsWay`).

**Composer drafts.** `DraftsCorrect` from `DraftsInductive`. A client that settled
has its drafts stored because of what is under way before that: the newest
generation is armed, in a job, or saved, and has what the user sees (`JobsInOrder`);
the snapshot the comparison starts from is what is stored, but for keys changed
without an answer (`SnapshotIsStored`); the desktop's snapshots never differ on the
page's keys (`DesktopKeepsPages`), which is what the daemon's keyed changes are for;
and the last thing under way about a key of the page is what it shows
(`PageIsOnItsWay`). `DraftsStayGone` proves the action property `NothingResurfaces`
from `LinesInductive`, which orders the documents the daemon is still to hold: the
desktop's snapshot, its waiting saves by generation and the screen (`DesktopLine`);
and the page's drafts after each write of its chain, had none failed (`PageLine`,
which therefore speaks of some such versions and not of the store's). A text that is
in one document of a line and not in a later one is in none after that, what waits
for a timer is in no document yet (`OnlyTyped`), and no text is of both clients
(`Owned`). TLC checked the three with the versions built from each possible first one,
with up to two failures.

**Task store.** `RemovedCorrect` and the action properties `CheckpointsCorrect` and
`ProjectionsCorrect`. All use `TaskInductive`: tasks, projections under way, desktops'
copies and rewinds are of the shape the handlers expect, in particular a task known
only from its list row has no turns and no cursor (`RowIsBare`), so that hydrating it
overwrites nothing. `RemovedStaysRemoved` also needs `UnpersistedHasNoRows`: until a
save fails, a task the connection does not know to be stored has no rows, so the save
after a removal leaves none. The action properties are proved from `OneTaskStep`,
the six things one step may do to a task.

`TaskTypesCorrect`, `WrittenCorrect` and `CleanCorrect` are about the tables. Their
invariant is `Filling`: what the daemon, the desktops, the wire and the rows hold are
tasks whose messages have been made (`Minted`: numbered below `nextId`, each there
once), and what a connection believes to be written is in its table. That every
message is there once is needed for the transcript to be read back: rows are found by
id and put in order by position, so two rows of one message would hide each other. With
it, `WriteMessages` leaves a row for each message at its position (`WriteMessagesRows`)
and `InOrder` shows them in that order (`TranscriptRecovered`). `CleanIsKept` is what
`CleanIsStored` needs from one save to the next: a task not marked was stored when it
was last marked, or has only been read since. What the filters (`Among`) and the sort
by position (`InOrder`) do is induction over sequences; it is done with `LeastNumber`,
`Induction` and `Recursion`, which speak of a set of numbers and of a function of steps
where the library's theorems take operators.

**Desktop turn.** `DesktopTypes`, `SentOnce`, `SteersAnswered` and the action property
`PromptsWait`, from `DesktopInductive`. Its heart is `InOnePlace`: some function from
the messages to places (not typed yet, composer, queue, preparing, sent, the three
stages of a steer, gone) fits the task, the history of prompts, the driver's calls, the
steers it took and the answers that wait, and none of these holds a message twice. The
places are quantified and not read off the state, because a rejected steer, a taken-back
follow-up or a failed preparation moves a message between all of them. It holds until a
rejection is taken for another steer's (`misread`), as the two properties say. The other
part is `Settled`: captures are of the last turn, and there are none while a turn runs,
which is what makes a prompt wait for them. Every handler is an operator on the task, so
each has a lemma that says how it moves messages, and handlers that call others cite
theirs: `Quiet` (none move), `Receives` and `Follows` (inside the task), `Handles` (from
answers into the task), `Renews` (the steers may be forgotten). `HandleEventsOK` is by
induction over the unread events; the lemma `Induction` states it for a set of numbers,
where the library's takes an operator. TLC checked the invariant on the run's instance.

**Provider drivers.** `DriversTypesCorrect` and the refinement `DriversKeepContract`,
from `DriversInductive`: whatever the provider and its client do, each of the five
families of `start_local` implements `TurnStream`, for any messages, calls and bounds
and for any kinds of the eleven. The contract counts announcements and ends that are
still due. That a step changes these counts only as the contract allows depends on
which call is served where, so `DriversInv` has a part for each family:

* `FlagOwn`, `AcpOwn`, `PiOwn`, `CodexOwn`, `DeepSeekOwn`: the position of the writer
  agrees with the call it holds;
* an ACP request, or a steer Codex still awaits, is of a message that is neither in the
  channel nor yet to be sent (`Waiting`), so that settling it settles no other; this
  needs that a client sends each message once (`OnceEach`, which is what the desktop's
  `NeverSentTwice` and its steers give a driver);
* a session of Pi that is not open serves nothing, and a run that works is active;
* what DeepSeek's worker has seen is in the log (`Bounded`), what its stream carries is
  about entries of the log (`Numbered`), and a turn it has not heard of has its start
  still ahead.

The proof has one lemma per step of the contract (`TakesPrompt`, `Announces`,
`Finishes`, `AnswersSteer`, `Resumes`, `Forgoes`, ...) and, per family, lemmas that say
what is due in terms of its threads (`AcpDues`, `CodexDues`, ...) and which step of the
contract each action is. Counting the lines on a wire or the entries of a log that are
not heard of yet is done on sets of positions (`WireCounted`, `LaterCounted`).

**Web client.** `WebCorrect` and the action property `ConnectionsStand`, from
`WebInductive`; the module extends `EventHubProofs`, as the delivery's does. `WebInvariant`
speaks of what the page has, and depends on everything that is still to come to it:

* `HubFollows`: runtimes publish one after the other, each numbers its events upwards, the
  journal is the newest part of what the active one published, and each socket carries
  published events in their order;
* `StartsOnce`: a runtime the page drew is asked for once, and publishes only after that, so
  that a page which listens before it asks misses nothing;
* `OnTheWay`: an answer waits behind the frames that were sent before it;
* `Sockets`: the stages of a socket come in order, nothing is sent on one that did not
  subscribe, a Hello that waits has the cursors the client still has, and a socket whose
  handshake is not settled is the present one, of a client that connects;
* `Copies`: the page has four places where the task's events are (cache, daemon's projection,
  the session `sendPrompt` holds, the buffers of runtimes without a listener), and puts older
  ones over newer. All of them are in order, and none has an event that is later than, and of
  another runtime than, the next frame of the present socket or the runtime the next answer
  names. So whatever is cached, appending to it keeps the order;
* `NoGap`, `CursorsFollow`: an event before the next frame, and of its runtime, was heard, is
  buffered, was dropped by a limit, or is in an earlier frame that waits; and a cursor is that
  of a published event. This is why a cursor may move on to the number of a frame, and why
  the next Hello, with that cursor, is answered with what is missing.
* `LocalTurns`: with a local cursor (`page.local`) every event counts as new, and what may still
  be handed over must be new by itself: a client asks for no event it has counted as seen, and a
  new client (`Reload`) begins with the stored task, whose cursor is the daemon's, because a
  local one is never stored. `FramesAreNewer`: the frames on the present socket after the place
  where the page begins to listen (`Marks`) are newer than all the page has of their runtime.
  `ActiveIsSeen`: what it has of the runtime that runs is counted as seen, or gets so before
  that place. `AnswersTell`: a runtime the page may attach to after an answer that did not name
  it had published nothing. `BufferIsNewer`: what is kept for a listener is newer than what the
  copies have.

Steps are sorted by what they touch: `CopiesGain` (only an event brings the copies anything),
`CoverageKept` (only a reload forgets what was seen), `ElsewhereNext` (no socket is touched),
`Still` (nothing is heard, sent or published). What several listeners, or buffered events,
make of the page is a fold; `FoldSteps` unrolls it by induction over a set of numbers. TLC
checked the invariant with the bounds of the run.

The assumptions are those of the modules: bounds are naturals, limits positive,
placeholders (`None`, `NoRuntime`, `NoTask`, ...) differ from the values they stand beside,
the two clients of `ComposerDrafts` edit different keys, and the drivers are those of
`start_local` (`KindsAssumption`), called for what `DriverHandle` offers (`AsksAssumption`).

Only model-checked: every liveness property (the prover does no fairness and no
ENABLED), `SettlesUnlessSkipped`, `QueueResumes`, `SteersAreReported` and `TurnsEnd`
among them. Every safety property of the runs that pass, and both refinements, are proved.

## 5. Abstractions and assumptions

* Events carry a payload of the least kind a property needs: one for the hub,
  `event` and `exited` for the delivery. The followed runtime publishes its exit
  last.
* `EventHub` accepts any begin, end and emit; a start draws a runtime id that was
  not used in this daemon process (UUIDs); restarts reuse ids.
* A broken connection keeps what was sent before, in order, up to an arbitrary
  point at which the reader stops.
* `EventDelivery` assumes that `AttachSession` is answered or its connection
  breaks (`AttachTimesOut` is FALSE in every configuration).
* In `RuntimeActor` driver starts, saves and rewinds fail at will, panics happen
  where the backend runs; spawning a thread never fails. Terminals use the same
  code under a second key and forks do not touch the live runtime; neither is an
  action. Clients send fresh ids in practice; the resent requests are what the
  response cache is for.
* `ServerPool` has no dedicated servers (no slot, nothing shared) and no panic
  inside `start`.
* In `SettingsWriter` a replacement daemon reads the settings the earlier one
  stored.

* In `TaskStore` a message is its id and a turn its id and checkpoint; "native"
  stands for a known `provider_cursor`. A prompt is answered by two events, one
  with text and one that ends the turn. Each desktop mints its own message id for
  the answer. Notifications are carried out on threads of their own, in any
  order, and `SaveTaskState` in two steps, because it reads the active runtimes
  before it takes the lock. A failed save may have told `persisted_sessions` of
  any part of its rows. A desktop that loses the race for a task's runtime stops
  following it at once. Projects, queued messages, forks, the desktop's own
  files and the catalogue's revisions are left out.
* `NeverFallsBehind` leaves out saves which read the runtimes before the present
  one started: those accept an older projection (`daemon.rs:529`).
* In `DesktopTurn` a submission is a message, a turn the messages it began with
  and was steered by; text, blocks, titles, plans and usage are `Output`, which
  only tells that the provider works. Permissions are one event and one answer. A
  handler that fails half-way does not exist: they return nothing. Selecting
  another task is the choice whether a failed preparation finds its task selected.
  One task: handlers touch no other, but for the drains a pass takes together.
* In `ComposerDrafts` a draft is the number of the text typed, 0 for none; the
  daemon's document is a function of keys. Whole snapshots sent by older clients,
  a load that fails at startup, a page that moves to another address and
  attachments are left out.
* In `WebClient` a session is the events applied to it; what a user or the page
  itself writes into it is left out. The client may be connected again whenever it
  is disconnected; the page does so only within the second before it notices a
  loss, and otherwise opens a new client with an empty cache (`Reload`; an empty
  cache after `Disconnect` is observed by nothing before that). A task may be sent
  a prompt whenever no `sendPrompt` is under way, busy or not, and one `sendPrompt`
  at a time. Its preparation is one await, ended by the save; a save is carried out
  and answered at once, a fetch too; a save of a task with a local cursor is not heard,
  and a preparation that makes one fails. Of two projections of different runtimes, none
  the active one, either may have been updated last. Invalid JSON and another
  protocol version count as a rejected handshake, a shutdown as a lost connection.
  `AttachSession` answers the hub's runtime, which the daemon's table agrees with
  (`RuntimesAgree`) but for rewinds.
* In the driver modules a provider that answers and the reader that hears it are
  one step, except where the reader itself takes several; a pipe fails to take a
  line when its process is dead, an HTTP request at any time, and may have been
  carried out. OpenCode may end a turn before its event stream is open, unheard; a
  stream that is lost later counts as its server's death. The
  errors that precede `ProcessExited` with a process's last words are left out, as
  are permissions, options, background work, titles, usage and `Connected`, none
  of which moves a turn. Pi's initialisation is one request; Codex's two lines
  for a goal that is cleared and set are one. DeepSeek's client calls follow its
  start.

## 6. Not modelled

* Most of the repository by lines is rendering, input, layout, markdown, parsers
  of provider output and transcripts, git plumbing and data types; it keeps no
  state two actors disagree about, and a model of it would be a transliteration.
  The share of lines the models map is therefore small, and the share of the
  control (locks, channels, retries, turns, queues) large.
* `TaskStore`: forks, projects, catalogue revisions and the browser's confirmed
  saves.
* `DesktopTurn`: rewinds while a turn runs, user-input requests, and the frame
  timing of streamed text, which delays events but reorders none.
* The web client's reducer, its turn and queue bookkeeping, steering, goals, forks
  and rewinds; terminals; daemon supervision as a process tree.

## 7. Running

In this directory: `tlc -config EventHub.cfg MCEventHub` (each configuration
belongs to the `MC` module its name begins with), `tlapm EventHubProofs.tla`.
