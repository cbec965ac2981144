------------------------------ MODULE TaskStore ------------------------------
(***************************************************************************)
(* The tasks of a daemon and the desktops that edit them                   *)
(* (crates/waku-core/src/daemon.rs over StateStore, with the sides of the  *)
(* protocol in src/app and crates/waku-client/src/persistence.rs).         *)
(*                                                                         *)
(* Every desktop keeps its own projection of a task, edits it, and sends   *)
(* it whole in SaveTaskState, a notification carried out on a thread of    *)
(* its own: notifications may be carried out in any order.  The daemon     *)
(* decides which projection is newer, keeps the checkpoints it captured    *)
(* itself, and refuses tasks it has removed.                               *)
(*                                                                         *)
(* A turn is its id and its ending checkpoint, a checkpoint the id of the  *)
(* turn it was captured for.  A turn's prompt is the message <<turn, 0>>;  *)
(* its answer becomes a message <<turn, n>> at each desktop that follows   *)
(* the runtime.                                                            *)
(***************************************************************************)
EXTENDS StateStore, Bags

CONSTANTS
  Clients,       \* desktops, numbered from 1
  Titles,
  NoRewind,
  MaxEdits,      \* bounds of a run: what users do,
  MaxSent,       \*   notifications on their way at once,
  MaxFaults,     \*   saves that fail and daemon processes that end,
  MaxSeconds     \*   the clock

ASSUME ClientsAssumption == Clients \subseteq Nat \ {0}
ASSUME SecondsAssumption == MaxSeconds \in Nat

VARIABLES
  removed,    \* removed_session_ids
  active,     \* WakuBackend::sessions: the runtime of each task, 0 if none
  asked,      \* prompts that runtime was sent; it answers each with one event
  capturing,  \* the holders of a checkpoint_capture_lock
  rewinding,  \* rewind_session_to_message: the task it read, and the turns to keep
  local,      \* each desktop's PersistedState::sessions
  unsaved,    \* its dirty_sessions
  attached,   \* the tasks whose runtime it follows
  sent,       \* SaveTaskState notifications the daemon has not begun with
  saving,     \* those it has: the tasks, and the runtimes found active
  removals,   \* RemoveSession not yet carried out
  seconds, nextId, nextRuntime, created, edits, faults

daemonVars == <<removed, active, asked, capturing, rewinding>>
clientVars == <<local, unsaved, attached>>
wireVars == <<sent, saving, removals>>
boundVars == <<seconds, nextId, nextRuntime, created, edits, faults>>
taskVars == <<storeVars, daemonVars, clientVars, wireVars, boundVars>>

NoCheckpoint == 0

\* A task with one answered turn.
OldTask(title) ==
  [loaded |-> TRUE, title |-> title, at |-> 0, busy |-> FALSE, native |-> TRUE, cursor |-> NoCursor,
   turns |-> <<[id |-> 1, checkpoint |-> NoCheckpoint]>>, messages |-> <<<<1, 0>>, <<1, 1>>>>]

OldRows == <<[id |-> <<1, 0>>, position |-> 1], [id |-> <<1, 1>>, position |-> 2]>>

\* A daemon that has loaded an earlier process's tables, and no desktop yet.
TaskInit ==
  \E stored \in SUBSET Sessions, title \in Titles :
    LET old == OldTask(title)
        ifStored(x, y) == [s \in Sessions |-> IF s \in stored THEN x ELSE y]
    IN  /\ listed = ifStored(Row(old), NoTask)
        /\ details = ifStored(Detail(old), NoTask)
        /\ messageRows = ifStored(OldRows, << >>)
        /\ tasks = ifStored(Skeleton(Row(old)), NoTask)
        /\ dirty = {} /\ persisted = stored /\ written = [s \in Sessions |-> {}]
        /\ removed = {} /\ capturing = {}
        /\ active = [s \in Sessions |-> 0] /\ asked = [s \in Sessions |-> 0]
        /\ rewinding = [s \in Sessions |-> NoRewind]
        /\ local = [c \in Clients |-> [s \in Sessions |-> NoTask]]
        /\ unsaved = [c \in Clients |-> {}] /\ attached = [c \in Clients |-> {}]
        /\ sent = EmptyBag /\ saving = EmptyBag /\ removals = {}
        /\ seconds = 0 /\ nextId = 2 /\ nextRuntime = 1 /\ created = stored
        /\ edits = 0 /\ faults = 0

\* The clock is read when a task is stamped with it, and has moved on at will since.
Clock == seconds' \in seconds..MaxSeconds

Edit == edits < MaxEdits /\ edits' = edits + 1 /\ Clock

Fault == faults < MaxFaults /\ faults' = faults + 1

SaveOutcome(ok) ==
  IF ok THEN UNCHANGED faults ELSE Fault

-----------------------------------------------------------------------------
\* Desktops.

ListProjection(task) ==
  [task EXCEPT !.loaded = FALSE, !.native = FALSE, !.cursor = NoCursor, !.turns = << >>, !.messages = << >>]

\* detail_loaded is not serialized; a task read from the wire counts as loaded.
OnWire(task) == [task EXCEPT !.loaded = TRUE]

\* LoadTaskState, and merge_remote_session_catalog of one task.
Merged(c, s) ==
  LET mine == local[c][s]  theirs == tasks[s]
  IN  CASE theirs = NoTask /\ mine # NoTask -> IF HasStarted(mine) THEN NoTask ELSE mine
        [] theirs = NoTask /\ mine = NoTask -> NoTask
        [] theirs # NoTask /\ mine = NoTask -> ListProjection(theirs)
        [] OTHER -> IF s \in attached[c] THEN [mine EXCEPT !.title = theirs.title]
                    ELSE [mine EXCEPT !.title = theirs.title, !.at = theirs.at,
                                      !.busy = theirs.busy]

Refresh(c) ==
  /\ local' = [local EXCEPT ![c] = [s \in Sessions |-> Merged(c, s)]]
  /\ attached' = [attached EXCEPT ![c] = {s \in @ : Merged(c, s) # NoTask}]
  /\ UNCHANGED <<storeVars, daemonVars, unsaved, wireVars, boundVars>>

\* HydrateSession, and ensure_session_loaded with its answer.
Hydrate(c, s) ==
  /\ local[c][s] # NoTask /\ ~local[c][s].loaded /\ tasks[s] # NoTask
  /\ tasks' = [tasks EXCEPT ![s] = Hydrated(s)]
  /\ local' = [local EXCEPT ![c][s] = OnWire(Hydrated(s))]
  /\ UNCHANGED <<diskVars, dirty, persisted, written, daemonVars, unsaved, attached, wireVars,
                 boundVars>>

\* attach_driver and finish_runtime_attachment: hydrate again, and follow the runtime.
Attach(c, s) ==
  /\ local[c][s] # NoTask /\ tasks[s] # NoTask
  /\ active[s] # 0 /\ s \notin attached[c]
  /\ tasks' = [tasks EXCEPT ![s] = Hydrated(s)]
  /\ local' = [local EXCEPT ![c][s] = OnWire(Hydrated(s))]
  /\ attached' = [attached EXCEPT ![c] = @ \cup {s}]
  /\ UNCHANGED <<diskVars, dirty, persisted, written, daemonVars, unsaved, wireVars, boundVars>>

\* create_session_for: a draft.
Create(c, s, title) ==
  /\ Edit
  /\ s \notin created
  /\ created' = created \cup {s}
  /\ local' = [local EXCEPT ![c][s] =
                 [loaded |-> TRUE, title |-> title, at |-> seconds', busy |-> FALSE,
                  native |-> FALSE, cursor |-> NoCursor, turns |-> << >>, messages |-> << >>]]
  /\ unsaved' = [unsaved EXCEPT ![c] = @ \cup {s}]
  /\ UNCHANGED <<storeVars, daemonVars, attached, wireVars, nextId, nextRuntime,
                 faults>>

WithTurn(task) ==
  [task EXCEPT !.turns = Append(@, [id |-> nextId, checkpoint |-> NoCheckpoint]),
               !.messages = Append(@, <<nextId, 0>>), !.busy = TRUE, !.at = seconds']

\* Some agents rewind to nothing by starting another conversation.
Resets(keep) == IF keep = 0 THEN BOOLEAN ELSE {FALSE}

\* truncate_after_turn, and what the rewind makes of provider_cursor.
Truncated(task, keep, reset) ==
  LET kept == {task.turns[k].id : k \in 1..keep}
  IN  [task EXCEPT !.turns = SubSeq(@, 1, keep), !.messages = Among(@, kept \X Nat),
                   !.native = @ /\ ~reset, !.busy = FALSE, !.at = seconds']

\* ending_checkpoint_pending: the desktop waits for the checkpoint of turn k.
AwaitsCheckpoint(c, s, k) == \E x \in capturing : x.client = c /\ x.session = s /\ x.turn = k

\* A turn is begun on `task`: by the runtime the desktop follows, or by a new one.
BeginTurn(c, s, task) ==
  /\ Edit
  /\ ~AwaitsCheckpoint(c, s, Len(task.turns))
  /\ local' = [local EXCEPT ![c][s] = WithTurn(task)]
  /\ unsaved' = [unsaved EXCEPT ![c] = @ \cup {s}]
  /\ nextId' = nextId + 1
  /\ IF s \in attached[c]
     THEN /\ asked' = [asked EXCEPT ![s] = @ + 1]
          /\ UNCHANGED <<active, attached, nextRuntime>>
     ELSE /\ active' = [active EXCEPT ![s] = nextRuntime]
          /\ asked' = [asked EXCEPT ![s] = 1]
          /\ attached' = [d \in Clients |-> IF d = c THEN attached[d] \cup {s}
                                            ELSE attached[d] \ {s}]
          /\ nextRuntime' = nextRuntime + 1
  /\ UNCHANGED <<storeVars, removed, capturing, rewinding, wireVars, created,
                 faults>>

Editable(c, s) == local[c][s] # NoTask /\ local[c][s].loaded /\ ~local[c][s].busy

\* submit_submission_for_session.
Submit(c, s) == Editable(c, s) /\ BeginTurn(c, s, local[c][s])

\* submit_message_edit: rewind to before turn k and submit again, without a save between.
Resubmit(c, s, k) ==
  /\ Editable(c, s) /\ local[c][s].native /\ k \in DOMAIN local[c][s].turns
  /\ \E reset \in Resets(k - 1) : BeginTurn(c, s, Truncated(local[c][s], k - 1, reset))

\* The next event of the runtime.  The first of a prompt brings the answer, the second ends the
\* turn; here no turn may be running any more, or yet, and they are dropped.
Answer(c, s) ==
  LET mine == local[c][s]
      next == IF mine.cursor.runtime = active[s] THEN mine.cursor.sequence + 1 ELSE 1
      moved == [mine EXCEPT !.native = TRUE, !.cursor = [runtime |-> active[s], sequence |-> next]]
      running == mine.busy /\ mine.turns # << >>
      turn == mine.turns[Len(mine.turns)].id
  IN  /\ s \in attached[c] /\ active[s] # 0 /\ next <= 2 * asked[s]
      /\ \/ /\ running /\ next % 2 = 1
            /\ local' = [local EXCEPT ![c][s] =
                           [moved EXCEPT !.messages = Append(@, <<turn, nextId>>)]]
            /\ nextId' = nextId + 1
            /\ UNCHANGED seconds
         \/ /\ running /\ next % 2 = 0
            /\ Clock
            /\ local' = [local EXCEPT ![c][s] = [moved EXCEPT !.busy = FALSE, !.at = seconds']]
            /\ UNCHANGED nextId
         \/ /\ ~running
            /\ local' = [local EXCEPT ![c][s] = moved]
            /\ UNCHANGED <<nextId, seconds>>
      /\ unsaved' = [unsaved EXCEPT ![c] = @ \cup {s}]
      /\ UNCHANGED <<storeVars, daemonVars, attached, wireVars, nextRuntime, created, edits,
                     faults>>

\* The notification StateStore::save of a desktop sends for its tasks `mine`.
Projections(mine, changed) ==
  [s \in {x \in changed : mine[x] # NoTask} |-> OnWire(mine[s])]

SendSave(c, mine, changed) ==
  /\ BagCardinality(sent) + BagCardinality(saving) < MaxSent
  /\ sent' = sent (+) SetToBag({Projections(mine, changed)})
  /\ unsaved' = [unsaved EXCEPT ![c] = {}]

Save(c) ==
  /\ unsaved[c] # {}
  /\ SendSave(c, local[c], unsaved[c])
  /\ UNCHANGED <<storeVars, daemonVars, local, attached, saving, removals, boundVars>>

\* commit_session_rename: any row of the list, loaded or not.
Rename(c, s, title) ==
  /\ Edit
  /\ local[c][s] # NoTask /\ local[c][s].title # title
  /\ local' = [local EXCEPT ![c][s].title = title, ![c][s].at = seconds']
  /\ SendSave(c, local'[c], unsaved[c] \cup {s})
  /\ UNCHANGED <<storeVars, daemonVars, attached, saving, removals, nextId, nextRuntime,
                 created, faults>>

\* remove_session.
Remove(c, s) ==
  /\ Edit
  /\ local[c][s] # NoTask
  /\ local' = [local EXCEPT ![c][s] = NoTask]
  /\ attached' = [attached EXCEPT ![c] = @ \ {s}]
  /\ removals' = removals \cup {s}
  /\ UNCHANGED <<storeVars, daemonVars, unsaved, sent, saving, nextId, nextRuntime, created,
                 faults>>

-----------------------------------------------------------------------------
\* The daemon.

\* session_projection_precedes.
PrecedesByTime(existing, incoming, runtime) == incoming.at < existing.at

Precedes(existing, incoming, runtime) ==
  LET e == existing.cursor  i == incoming.cursor
  IN  IF runtime # 0 /\ (e.runtime = runtime) # (i.runtime = runtime)
      THEN e.runtime = runtime
      ELSE IF e # NoCursor /\ e.runtime = i.runtime THEN i.sequence < e.sequence
      ELSE IF e # NoCursor /\ i = NoCursor /\ existing.busy THEN TRUE
      ELSE incoming.at < existing.at

\* merge_stale_session_metadata.
MergeStale(existing, incoming) ==
  IF incoming.at >= existing.at
  THEN [existing EXCEPT !.title = incoming.title, !.at = incoming.at]
  ELSE existing

\* preserve_daemon_checkpoints: turns are matched by their number.
Captured(task, k) == k \in DOMAIN task.turns /\ task.turns[k].checkpoint # NoCheckpoint

PreserveNone(existing, incoming) == incoming

PreserveCheckpoints(existing, incoming) ==
  [incoming EXCEPT !.turns =
     [k \in DOMAIN @ |-> IF Captured(existing, k)
                         THEN [@[k] EXCEPT !.checkpoint = existing.turns[k].checkpoint]
                         ELSE @[k]]]

Accept(existing, incoming, runtime) ==
  IF existing = NoTask THEN incoming
  ELSE IF Precedes(existing, incoming, runtime) THEN MergeStale(existing, incoming)
  ELSE PreserveCheckpoints(existing, incoming)

\* SaveTaskState begins: the active runtimes are read before task_state is locked.
SaveBegins(m) ==
  /\ sent' = sent (-) SetToBag({m})
  /\ saving' = saving (+) SetToBag({[tasks |-> m, runtimes |-> active]})
  /\ UNCHANGED <<storeVars, daemonVars, clientVars, removals, boundVars>>

AcceptAll(m) == DOMAIN m

NotRemoved(m) == DOMAIN m \ removed

SaveTaskState(n, ok) ==
  LET accepted == NotRemoved(n.tasks)
  IN  /\ SaveOutcome(ok)
      /\ saving' = saving (-) SetToBag({n})
      /\ SaveTasks([s \in Sessions |->
                      IF s \in accepted THEN Accept(tasks[s], n.tasks[s], n.runtimes[s])
                      ELSE tasks[s]],
                   dirty \cup accepted, ok)
      /\ UNCHANGED <<daemonVars, clientVars, sent, removals, seconds, nextId, nextRuntime,
                     created, edits>>

DriverEnds(s) == active' = [active EXCEPT ![s] = 0] /\ asked' = [asked EXCEPT ![s] = 0]

\* RemoveSession; when the save fails the driver stays.
RemoveSession(s, ok) ==
  /\ s \in removals /\ rewinding[s] = NoRewind
  /\ SaveOutcome(ok)
  /\ removals' = removals \ {s}
  /\ removed' = removed \cup {s}
  /\ SaveTasks([tasks EXCEPT ![s] = NoTask], dirty, ok)
  /\ IF ok THEN DriverEnds(s) ELSE UNCHANGED <<active, asked>>
  /\ UNCHANGED <<capturing, rewinding, clientVars, sent, saving, seconds, nextId, nextRuntime,
                 created, edits>>

\* CloseSession, of a runtime nobody needs.
CloseSession(s) ==
  /\ active[s] # 0
  /\ DriverEnds(s)
  /\ attached' = [c \in Clients |-> attached[c] \ {s}]
  /\ UNCHANGED <<storeVars, removed, capturing, rewinding, local, unsaved, wireVars,
                 boundVars>>

\* A desktop asks for the ending checkpoint of its newest turn, which has none.
AsksCapture(c, s, k) ==
  /\ Editable(c, s)
  /\ k = Len(local[c][s].turns) /\ k # 0 /\ ~Captured(local[c][s], k)

\* A desktop receives the checkpoint of turn k.
Received(c, s, k, checkpoint) ==
  IF local[c][s] # NoTask /\ k \in DOMAIN local[c][s].turns
  THEN /\ local' = [local EXCEPT ![c][s].turns[k].checkpoint = checkpoint]
       /\ unsaved' = [unsaved EXCEPT ![c] = @ \cup {s}]
  ELSE UNCHANGED <<local, unsaved>>

CaptureLockFree(s, k) == ~ \E x \in capturing : x.session = s /\ x.turn = k

\* capture_turn_checkpoint, a turn the daemon has a checkpoint of.
CaptureKnown(c, s, k) ==
  /\ AsksCapture(c, s, k) /\ CaptureLockFree(s, k)
  /\ tasks[s] # NoTask /\ Captured(Hydrated(s), k)
  /\ tasks' = [tasks EXCEPT ![s] = Hydrated(s)]
  /\ Received(c, s, k, Hydrated(s).turns[k].checkpoint)
  /\ UNCHANGED <<diskVars, dirty, persisted, written, daemonVars, attached, wireVars, boundVars>>

\* capture_turn_checkpoint, up to the snapshot, which is taken without task_state.
CaptureStarts(c, s, k) ==
  /\ AsksCapture(c, s, k) /\ CaptureLockFree(s, k)
  /\ tasks[s] # NoTask => ~Captured(Hydrated(s), k)
  /\ tasks' = IF tasks[s] = NoTask THEN tasks ELSE [tasks EXCEPT ![s] = Hydrated(s)]
  /\ capturing' = capturing \cup {[client |-> c, session |-> s, turn |-> k,
                                   checkpoint |-> local[c][s].turns[k].id]}
  /\ UNCHANGED <<diskVars, dirty, persisted, written, removed, active, asked, rewinding,
                 clientVars, wireVars, boundVars>>

\* The rest of it: the checkpoint is stored if its turn is there, and answered.
CaptureEnds(x, ok) ==
  LET s == x.session
      there == tasks[s] # NoTask /\ x.turn \in DOMAIN Hydrated(s).turns
  IN  /\ capturing' = capturing \ {x}
      /\ IF there
         THEN /\ SaveOutcome(ok)
              /\ SaveTasks([tasks EXCEPT ![s] =
                              [Hydrated(s) EXCEPT !.turns[x.turn].checkpoint = x.checkpoint]],
                           dirty \cup {s}, ok)
         ELSE /\ ok
              /\ tasks' = IF tasks[s] = NoTask THEN tasks ELSE [tasks EXCEPT ![s] = Hydrated(s)]
              /\ UNCHANGED <<diskVars, dirty, persisted, written, faults>>
      /\ Received(x.client, s, x.turn, IF ok THEN x.checkpoint ELSE NoCheckpoint)
      /\ UNCHANGED <<removed, active, asked, rewinding, attached, wireVars, seconds, nextId,
                     nextRuntime, created, edits>>

\* retained_turn_count, of a rewind to before turn k.
RetainedOneLess(k) == k - 2

Retained(k) == k - 1

\* rewind_session_to_message, asked for by a browser: the task is read,
RewindReads(s, k) ==
  /\ Edit
  /\ rewinding[s] = NoRewind /\ tasks[s] # NoTask
  /\ ~Hydrated(s).busy /\ Hydrated(s).native /\ k \in DOMAIN Hydrated(s).turns
  /\ tasks' = [tasks EXCEPT ![s] = Hydrated(s)]
  /\ rewinding' = [rewinding EXCEPT ![s] = [task |-> Hydrated(s), keep |-> Retained(k)]]
  /\ UNCHANGED <<diskVars, dirty, persisted, written, removed, active, asked, capturing,
                 clientVars, wireVars, nextId, nextRuntime, created, faults>>

\* and written back when the worktree and the provider have been rewound.
RewindStores(s, ok) ==
  /\ rewinding[s] # NoRewind /\ Clock
  /\ rewinding' = [rewinding EXCEPT ![s] = NoRewind]
  /\ DriverEnds(s)
  /\ attached' = [c \in Clients |-> attached[c] \ {s}]
  /\ IF tasks[s] = NoTask
     THEN ok /\ UNCHANGED <<storeVars, faults>>
     ELSE /\ SaveOutcome(ok)
          /\ \E reset \in Resets(rewinding[s].keep) :
               SaveTasks([tasks EXCEPT ![s] =
                            Truncated(rewinding[s].task, rewinding[s].keep, reset)],
                         dirty \cup {s}, ok)
  /\ UNCHANGED <<removed, capturing, local, unsaved, wireVars, nextId,
                 nextRuntime, created, edits>>

\* The daemon ends, and another one loads the tables.
Restart ==
  /\ Fault
  /\ LoadTasks
  /\ removed' = {} /\ capturing' = {} /\ removals' = {} /\ sent' = EmptyBag /\ saving' = EmptyBag
  /\ active' = [s \in Sessions |-> 0] /\ asked' = [s \in Sessions |-> 0]
  /\ rewinding' = [s \in Sessions |-> NoRewind]
  /\ attached' = [c \in Clients |-> {}]
  /\ UNCHANGED <<local, unsaved, seconds, nextId, nextRuntime, created, edits>>

-----------------------------------------------------------------------------
Desktop(c) ==
  \/ Refresh(c) \/ Save(c)
  \/ \E s \in Sessions :
       \/ Hydrate(c, s) \/ Attach(c, s) \/ Submit(c, s) \/ Answer(c, s) \/ Remove(c, s)
       \/ \E title \in Titles : Create(c, s, title) \/ Rename(c, s, title)
       \/ \E k \in 1..(MaxEdits + 1) :
            Resubmit(c, s, k) \/ CaptureKnown(c, s, k) \/ CaptureStarts(c, s, k)

Daemon ==
  \/ \E ok \in BOOLEAN :
       \/ \E n \in BagToSet(saving) : SaveTaskState(n, ok)
       \/ \E x \in capturing : CaptureEnds(x, ok)
       \/ \E s \in Sessions : RemoveSession(s, ok) \/ RewindStores(s, ok)
  \/ \E m \in BagToSet(sent) : SaveBegins(m)
  \/ \E s \in Sessions : CloseSession(s)
  \/ \E s \in Sessions, k \in 1..(MaxEdits + 1) : RewindReads(s, k)

TaskNext == (\E c \in Clients : Desktop(c)) \/ Daemon \/ Restart

TaskSpec == TaskInit /\ [][TaskNext]_taskVars

-----------------------------------------------------------------------------
Cursors == [runtime : Nat, sequence : Nat]
Messages == Nat \X Nat
Turns == [id : Nat, checkpoint : Nat]
Tasks == [loaded : BOOLEAN, title : Titles, at : Nat, busy : BOOLEAN, native : BOOLEAN, cursor : Cursors,
          turns : Seq(Turns), messages : Seq(Messages)]

\* A row that is not there is not a row with details.
ASSUME NoTaskAssumption ==
  NoTask \notin [turns : Seq(Turns), native : BOOLEAN, cursor : Cursors]

\* The states of the daemon, its tables and the desktops are well formed.
TaskTypeOK ==
  /\ listed \in [Sessions -> [title : Titles, at : Nat, busy : BOOLEAN] \cup {NoTask}]
  /\ details \in [Sessions -> [turns : Seq(Turns), native : BOOLEAN, cursor : Cursors] \cup {NoTask}]
  /\ messageRows \in [Sessions -> Seq([id : Messages, position : Nat])]
  /\ tasks \in [Sessions -> Tasks \cup {NoTask}]
  /\ dirty \subseteq Sessions /\ persisted \subseteq Sessions /\ removed \subseteq Sessions
  /\ \A s \in Sessions : written[s] \subseteq [id : Messages, position : Nat]
  /\ active \in [Sessions -> Nat] /\ asked \in [Sessions -> Nat]
  /\ rewinding \in [Sessions -> [task : Tasks, keep : Nat] \cup {NoRewind}]
  /\ capturing \subseteq [client : Clients, session : Sessions, turn : Nat, checkpoint : Nat]
  /\ local \in [Clients -> [Sessions -> Tasks \cup {NoTask}]]
  /\ unsaved \in [Clients -> SUBSET Sessions] /\ attached \in [Clients -> SUBSET Sessions]
  /\ removals \subseteq Sessions /\ created \subseteq Sessions

(***************************************************************************)
(* A task a daemon has removed does not come back while that daemon runs,  *)
(* whatever projections of it are on their way, and unless a save has      *)
(* failed nothing of it is left in the tables (daemon.rs:549-553, 600-626).*)
(***************************************************************************)
RemovedStaysRemoved ==
  \A s \in removed :
    /\ tasks[s] = NoTask
    /\ faults = 0 => listed[s] = NoTask /\ details[s] = NoTask /\ messageRows[s] = << >>

(***************************************************************************)
(* A checkpoint the daemon has in memory is not lost to a projection that  *)
(* was made before it, in whatever order projections and captures come     *)
(* (daemon.rs:1067-1069).  Only a capture and a rewind, which puts back    *)
(* the task it has read, may change it.                                    *)
(***************************************************************************)
CheckpointKept ==
  [][\A s \in Sessions : \A k \in 1..(MaxEdits + 1) :
       /\ tasks[s] # NoTask /\ tasks'[s] # NoTask
       /\ Captured(tasks[s], k) /\ tasks'[s].loaded /\ k \in DOMAIN tasks'[s].turns
       /\ rewinding'[s] = rewinding[s] /\ capturing' = capturing
       => tasks'[s].turns[k].checkpoint = tasks[s].turns[k].checkpoint]_taskVars

(***************************************************************************)
(* While one runtime serves a task, the daemon's task never falls behind   *)
(* in that runtime's events, whichever desktop's projection arrives last:  *)
(* session_projection_precedes (daemon.rs:1013-1038).  A save that read    *)
(* the active runtimes before this one began does not know better.         *)
(***************************************************************************)
NeverFallsBehind ==
  [][\A s \in Sessions :
       /\ active[s] # 0 /\ active'[s] = active[s]
       /\ \A n \in BagToSet(saving) : n.runtimes[s] = active[s]
       /\ tasks[s] # NoTask /\ tasks'[s] # NoTask
       /\ tasks[s].cursor.runtime = active[s]
       => /\ tasks'[s].cursor.runtime = active[s]
          /\ tasks'[s].cursor.sequence >= tasks[s].cursor.sequence]_taskVars

(***************************************************************************)
(* A stored transcript is deleted with its task, or by a rewind: a list    *)
(* row's empty transcript is one that was not fetched (model.rs:985-987,   *)
(* persistence.rs:1338-1341).                                              *)
(***************************************************************************)
HistoryKept ==
  [][\A s \in Sessions :
       details[s] # NoTask /\ details'[s] = NoTask /\ rewinding'[s] = rewinding[s]
       => s \in removed']_taskVars
=============================================================================
