--------------------------- MODULE TaskStoreProofs ---------------------------
(***************************************************************************)
(* Proofs about TaskStore, for any desktops, tasks, edits, notifications   *)
(* under way, failed saves and restarts: that a removed task stays         *)
(* removed, that no captured checkpoint is overwritten, that a task never  *)
(* falls behind in the events of its runtime, and that what the daemon     *)
(* thinks it has written is in its tables.                                 *)
(***************************************************************************)
EXTENDS TaskStore, SequenceTheorems, FiniteSetTheorems, TLAPS

Fields == {"loaded", "title", "at", "busy", "native", "cursor", "turns", "messages"}

\* A task, whatever its title, time and messages.
IsTask(task) ==
  /\ DOMAIN task = Fields /\ task.loaded \in BOOLEAN
  /\ task.cursor \in Cursors /\ task.turns \in Seq(Turns)

\* A list row knows of no turn and no event.
RowIsBare(task) == ~ task.loaded => task.turns = << >> /\ task.cursor = NoCursor

IsDetail(row) == row.cursor \in Cursors /\ row.turns \in Seq(Turns)

\* The tasks of a SaveTaskState: on the wire every one counts as loaded.
IsProjections(m) == DOMAIN m \subseteq Sessions /\ \A s \in DOMAIN m : IsTask(m[s]) /\ m[s].loaded

IsRewind(r) == IsTask(r.task) /\ r.task.loaded /\ r.keep \in 0..Len(r.task.turns)

IsCapture(x) ==
  x.client \in Clients /\ x.session \in Sessions /\ x.turn \in Nat /\ x.checkpoint \in Nat

TypedTasks(now) ==
  /\ DOMAIN now = Sessions
  /\ \A s \in Sessions : now[s] = NoTask \/ (IsTask(now[s]) /\ RowIsBare(now[s]))

TasksTyped == TypedTasks(tasks)

DetailsTyped == \A s \in Sessions : details[s] = NoTask \/ IsDetail(details[s])

WorkTyped ==
  /\ DOMAIN rewinding = Sessions
  /\ \A s \in Sessions : rewinding[s] = NoRewind \/ IsRewind(rewinding[s])
  /\ \A x \in capturing : IsCapture(x)

LocalTyped ==
  /\ DOMAIN local = Clients
  /\ \A c \in Clients :
       /\ DOMAIN local[c] = Sessions
       /\ \A s \in Sessions : local[c][s] = NoTask \/ IsTask(local[c][s])

\* What a desktop follows it has.
FollowedIsThere ==
  /\ DOMAIN attached = Clients
  /\ \A c \in Clients : attached[c] \subseteq Sessions /\ \A s \in attached[c] : IsTask(local[c][s])

WireTyped ==
  /\ \A m \in BagToSet(sent) : IsProjections(m)
  /\ \A n \in BagToSet(saving) : IsProjections(n.tasks)

CountersTyped ==
  /\ active \in [Sessions -> Nat] /\ nextId \in Nat /\ nextRuntime \in Nat /\ faults \in Nat
  /\ DOMAIN asked = Sessions /\ unsaved \in [Clients -> SUBSET Sessions]

Typed ==
  /\ TasksTyped /\ DetailsTyped /\ WorkTyped /\ LocalTyped /\ FollowedIsThere /\ WireTyped
  /\ CountersTyped

-----------------------------------------------------------------------------
(* Bags of notifications. *)

LEMMA BagGrows ==
  ASSUME NEW bag, NEW e
  PROVE  BagToSet(bag (+) SetToBag({e})) = BagToSet(bag) \cup {e}
BY DEF BagToSet, SetToBag, (+)

LEMMA BagShrinks ==
  ASSUME NEW bag, NEW e
  PROVE  BagToSet(bag (-) SetToBag({e})) \subseteq BagToSet(bag)
BY DEF BagToSet, SetToBag, (-)

-----------------------------------------------------------------------------
(* What the operators make of a task. *)

LEMMA NothingTyped ==
  /\ NoCursor \in Cursors /\ << >> \in Seq(Turns)
  /\ NoCheckpoint \in Nat
BY EmptySeq DEF NoCursor, Cursors, NoCheckpoint

LEMMA OnWireTyped ==
  ASSUME NEW task, IsTask(task)
  PROVE  IsTask(OnWire(task)) /\ OnWire(task).loaded
         /\ OnWire(task).turns = task.turns /\ OnWire(task).cursor = task.cursor
BY DEF IsTask, OnWire, Fields

LEMMA ListProjectionTyped ==
  ASSUME NEW task, IsTask(task)
  PROVE  IsTask(ListProjection(task))
BY NothingTyped DEF IsTask, ListProjection, Fields

LEMMA SkeletonTyped ==
  ASSUME NEW row
  PROVE  IsTask(Skeleton(row)) /\ RowIsBare(Skeleton(row))
BY NothingTyped DEF IsTask, RowIsBare, Skeleton, Fields

LEMMA HydratedTyped ==
  ASSUME TasksTyped, DetailsTyped, NEW s \in Sessions, tasks[s] # NoTask
  PROVE  /\ IsTask(Hydrated(s)) /\ Hydrated(s).loaded
         /\ tasks[s].loaded => Hydrated(s) = tasks[s]
<1>1. IsTask(tasks[s])
  BY DEF TasksTyped, TypedTasks
<1>2. CASE tasks[s].loaded
  BY <1>1, <1>2 DEF Hydrated
<1>3. CASE ~ tasks[s].loaded /\ details[s] = NoTask
  BY <1>1, <1>3 DEF Hydrated, IsTask, Fields
<1>4. CASE ~ tasks[s].loaded /\ details[s] # NoTask
  <2>1. IsDetail(details[s])
    BY <1>4 DEF DetailsTyped
  <2>2. Hydrated(s) = [tasks[s] EXCEPT !.loaded = TRUE, !.turns = details[s].turns,
                        !.native = details[s].native, !.cursor = details[s].cursor,
                        !.messages = InOrder(messageRows[s])]
    BY <1>4 DEF Hydrated
  <2> QED  BY <1>1, <1>4, <2>1, <2>2 DEF IsTask, Fields, IsDetail
<1> QED  BY <1>1, <1>2, <1>3, <1>4 DEF IsTask

\* A checkpoint comes to a turn.
LEMMA CheckpointTyped ==
  ASSUME NEW turns \in Seq(Turns), NEW k \in DOMAIN turns, NEW checkpoint \in Nat
  PROVE  /\ [turns EXCEPT ![k].checkpoint = checkpoint] \in Seq(Turns)
         /\ DOMAIN [turns EXCEPT ![k].checkpoint = checkpoint] = DOMAIN turns
<1>1. k \in 1..Len(turns) /\ turns[k] \in Turns
  BY LenProperties, ElementOfSeq
<1>2. [turns[k] EXCEPT !.checkpoint = checkpoint] \in Turns
  BY <1>1 DEF Turns
<1> QED  BY <1>1, <1>2, ExceptSeq

LEMMA PreservedTyped ==
  ASSUME NEW existing, NEW incoming, IsTask(existing), IsTask(incoming), incoming.loaded
  PROVE  /\ IsTask(PreserveCheckpoints(existing, incoming))
         /\ PreserveCheckpoints(existing, incoming).cursor = incoming.cursor
         /\ PreserveCheckpoints(existing, incoming).loaded
         /\ DOMAIN PreserveCheckpoints(existing, incoming).turns = DOMAIN incoming.turns
         /\ \A k \in DOMAIN incoming.turns : Captured(existing, k) =>
              PreserveCheckpoints(existing, incoming).turns[k].checkpoint = existing.turns[k].checkpoint
<1> DEFINE turns == [k \in DOMAIN incoming.turns |->
                       IF Captured(existing, k)
                         THEN [incoming.turns[k] EXCEPT !.checkpoint = existing.turns[k].checkpoint]
                         ELSE incoming.turns[k]]
<1>1. /\ existing.turns \in Seq(Turns) /\ incoming.turns \in Seq(Turns)
      /\ Len(incoming.turns) \in Nat /\ DOMAIN incoming.turns = 1..Len(incoming.turns)
  BY LenProperties DEF IsTask
<1>2. \A k \in DOMAIN incoming.turns : incoming.turns[k] \in Turns
  BY <1>1, ElementOfSeq
<1>3. \A k \in DOMAIN existing.turns : existing.turns[k] \in Turns
  BY <1>1, ElementOfSeq, LenProperties
<1>4. \A k \in DOMAIN incoming.turns : turns[k] \in Turns
  BY <1>2, <1>3 DEF Captured, Turns
<1>5. turns \in [1..Len(incoming.turns) -> Turns]
  BY <1>1, <1>4
<1>6. turns \in Seq(Turns)
  BY <1>1, <1>5, SeqDef
<1>7. PreserveCheckpoints(existing, incoming) = [incoming EXCEPT !.turns = turns]
  BY DEF PreserveCheckpoints
<1>8. \A k \in DOMAIN incoming.turns : Captured(existing, k) =>
        turns[k].checkpoint = existing.turns[k].checkpoint
  BY <1>2 DEF Turns
<1>9. DOMAIN turns = DOMAIN incoming.turns
  OBVIOUS
<1> HIDE DEF turns
<1> QED  BY <1>6, <1>7, <1>8, <1>9 DEF IsTask, Fields

LEMMA MergedTyped ==
  ASSUME NEW existing, NEW incoming, IsTask(existing)
  PROVE  /\ IsTask(MergeStale(existing, incoming))
         /\ MergeStale(existing, incoming).turns = existing.turns
         /\ MergeStale(existing, incoming).cursor = existing.cursor
         /\ MergeStale(existing, incoming).loaded = existing.loaded
BY DEF MergeStale, IsTask, Fields
LEMMA TruncatedTyped ==
  ASSUME NEW task, IsTask(task), NEW keep \in 0..Len(task.turns), NEW reset
  PROVE  IsTask(Truncated(task, keep, reset)) /\ Truncated(task, keep, reset).loaded = task.loaded
<1>1. task.turns \in Seq(Turns) /\ Len(task.turns) \in Nat
  BY LenProperties DEF IsTask
<1>2. \A i \in 1..keep : task.turns[i] \in Turns
  BY <1>1, ElementOfSeq
<1>3. SubSeq(task.turns, 1, keep) \in Seq(Turns)
  BY <1>1, <1>2, SubSeqProperties
<1> QED  BY <1>3 DEF IsTask, Truncated, Fields

LEMMA WithTurnTyped ==
  ASSUME NEW task, IsTask(task), nextId \in Nat
  PROVE  IsTask(WithTurn(task))
<1>1. [id |-> nextId, checkpoint |-> NoCheckpoint] \in Turns
  BY NothingTyped DEF Turns
<1>2. Append(task.turns, [id |-> nextId, checkpoint |-> NoCheckpoint]) \in Seq(Turns)
  BY <1>1, AppendProperties DEF IsTask
<1> QED  BY <1>2 DEF IsTask, WithTurn, Fields

\* The projection the daemon keeps of the two.
LEMMA AcceptedTyped ==
  ASSUME TasksTyped, NEW s \in Sessions, NEW incoming, IsTask(incoming), incoming.loaded, NEW runtime
  PROVE  IsTask(Accept(tasks[s], incoming, runtime)) /\ RowIsBare(Accept(tasks[s], incoming, runtime))
<1>1. tasks[s] # NoTask => IsTask(tasks[s]) /\ RowIsBare(tasks[s])
  BY DEF TasksTyped, TypedTasks
<1>2. CASE tasks[s] = NoTask
  BY <1>2 DEF Accept, RowIsBare
<1>3. CASE tasks[s] # NoTask /\ Precedes(tasks[s], incoming, runtime)
  BY <1>1, <1>3, MergedTyped DEF Accept, RowIsBare
<1>4. CASE tasks[s] # NoTask /\ ~ Precedes(tasks[s], incoming, runtime)
  BY <1>1, <1>4, PreservedTyped DEF Accept, RowIsBare
<1> QED  BY <1>2, <1>3, <1>4

-----------------------------------------------------------------------------
(* What a step does to the tasks and their tables. *)

LEMMA SaveTyped ==
  ASSUME DetailsTyped, NEW now, TypedTasks(now), NEW marked, NEW ok, SaveTasks(now, marked, ok)
  PROVE  TasksTyped' /\ DetailsTyped' /\ tasks' = now
<1>1. tasks' = now
  BY DEF SaveTasks, SaveCommits, SaveFails
<1>2. TasksTyped'
  BY <1>1 DEF TasksTyped, TypedTasks
<1>3. \A s \in Whole(now, marked) : IsDetail(Detail(now[s]))
  BY DEF Whole, Live, TypedTasks, IsTask, Detail, IsDetail
<1>4. DetailsTyped'
  BY <1>3 DEF DetailsTyped, SaveTasks, SaveCommits, SaveFails, diskVars
<1> QED  BY <1>1, <1>2, <1>4

\* The daemon's handlers hydrate a task to look at it, ...
Reads(s) ==
  /\ tasks[s] # NoTask /\ tasks' = [tasks EXCEPT ![s] = Hydrated(s)]
  /\ UNCHANGED <<diskVars, dirty, persisted, written, removed, faults>>

\* ... and change one and save.
Stores(s, task, ok) ==
  /\ SaveOutcome(ok) /\ removed' = removed
  /\ tasks[s] # NoTask /\ SaveTasks([tasks EXCEPT ![s] = task], dirty \cup {s}, ok)

LEMMA StoreSteps ==
  ASSUME WorkTyped, [TaskNext]_taskVars
  PROVE  \/ UNCHANGED <<storeVars, removed, faults>>
         \/ \E s \in Sessions : Reads(s)
         \/ \E n \in BagToSet(saving), ok \in BOOLEAN : SaveTaskState(n, ok)
         \/ \E s \in Sessions, ok \in BOOLEAN : RemoveSession(s, ok)
         \/ \E x \in capturing, ok \in BOOLEAN :
              /\ CaptureEnds(x, ok) /\ x.turn \in DOMAIN Hydrated(x.session).turns
              /\ Stores(x.session, [Hydrated(x.session) EXCEPT !.turns[x.turn].checkpoint = x.checkpoint], ok)
         \/ \E s \in Sessions, ok \in BOOLEAN, reset \in BOOLEAN :
              /\ RewindStores(s, ok)
              /\ Stores(s, Truncated(rewinding[s].task, rewinding[s].keep, reset), ok)
         \/ Restart
<1> DEFINE Nothing == UNCHANGED <<storeVars, removed, faults>>
           Looks == \E s \in Sessions : Reads(s)
<1>1. CASE UNCHANGED taskVars
  BY <1>1 DEF taskVars, daemonVars, boundVars
<1>2. ASSUME NEW c \in Clients, Refresh(c) \/ Save(c)  PROVE Nothing
  BY <1>2 DEF Refresh, Save, daemonVars, boundVars
<1>3. ASSUME NEW c \in Clients, NEW s \in Sessions, Hydrate(c, s) \/ Attach(c, s)  PROVE Looks
  BY <1>3 DEF Hydrate, Attach, Reads, daemonVars, boundVars
<1>4. ASSUME NEW c \in Clients, NEW s \in Sessions, Submit(c, s) \/ Answer(c, s) \/ Remove(c, s)  PROVE Nothing
  BY <1>4 DEF Submit, BeginTurn, Answer, Remove, daemonVars
<1>5. ASSUME NEW c \in Clients, NEW s \in Sessions, NEW title \in Titles, Create(c, s, title) \/ Rename(c, s, title)
      PROVE  Nothing
  BY <1>5 DEF Create, Rename, daemonVars
<1>6. ASSUME NEW c \in Clients, NEW s \in Sessions, NEW k, Resubmit(c, s, k)  PROVE Nothing
  BY <1>6 DEF Resubmit, BeginTurn
<1>7. ASSUME NEW c \in Clients, NEW s \in Sessions, NEW k, CaptureKnown(c, s, k) \/ CaptureStarts(c, s, k)
      PROVE  Nothing \/ Looks
  BY <1>7 DEF CaptureKnown, CaptureStarts, Reads, daemonVars, boundVars, storeVars, diskVars
<1>8. ASSUME NEW x \in capturing, NEW ok \in BOOLEAN, CaptureEnds(x, ok)
      PROVE  \/ Nothing \/ Looks
             \/ /\ x.turn \in DOMAIN Hydrated(x.session).turns
                /\ Stores(x.session, [Hydrated(x.session) EXCEPT !.turns[x.turn].checkpoint = x.checkpoint], ok)
  <2>1. x.session \in Sessions
    BY DEF WorkTyped, IsCapture
  <2>2. CASE tasks[x.session] # NoTask /\ x.turn \in DOMAIN Hydrated(x.session).turns
    BY <1>8, <2>2 DEF CaptureEnds, Stores
  <2>3. CASE ~ (tasks[x.session] # NoTask /\ x.turn \in DOMAIN Hydrated(x.session).turns)
    BY <1>8, <2>1, <2>3 DEF CaptureEnds, Reads, storeVars, diskVars
  <2> QED  BY <2>2, <2>3
<1>9. ASSUME NEW s \in Sessions, NEW ok \in BOOLEAN, RewindStores(s, ok)
      PROVE  \/ Nothing
             \/ \E reset \in BOOLEAN : Stores(s, Truncated(rewinding[s].task, rewinding[s].keep, reset), ok)
  BY <1>9 DEF RewindStores, Resets, Stores
<1>10. ASSUME NEW m, SaveBegins(m)  PROVE Nothing
  BY <1>10 DEF SaveBegins, daemonVars, boundVars
<1>11. ASSUME NEW s \in Sessions, CloseSession(s)  PROVE Nothing
  BY <1>11 DEF CloseSession, boundVars
<1>12. ASSUME NEW s \in Sessions, NEW k, RewindReads(s, k)  PROVE Looks
  BY <1>12 DEF RewindReads, Reads
<1> QED
  BY <1>1, <1>2, <1>3, <1>4, <1>5, <1>6, <1>7, <1>8, <1>9, <1>10, <1>11, <1>12 DEF TaskNext, Desktop, Daemon

\* One task changes.
LEMMA OneTaskTyped ==
  ASSUME TasksTyped, NEW s \in Sessions, NEW task, task = NoTask \/ (IsTask(task) /\ RowIsBare(task))
  PROVE  TypedTasks([tasks EXCEPT ![s] = task])
BY DEF TasksTyped, TypedTasks

LEMMA ReadTyped ==
  ASSUME TasksTyped, DetailsTyped, NEW s \in Sessions, Reads(s)
  PROVE  TasksTyped' /\ DetailsTyped'
<1>1. IsTask(Hydrated(s)) /\ RowIsBare(Hydrated(s))
  BY HydratedTyped DEF Reads, RowIsBare
<1>2. TypedTasks([tasks EXCEPT ![s] = Hydrated(s)]) /\ tasks' = [tasks EXCEPT ![s] = Hydrated(s)]
  BY <1>1, OneTaskTyped DEF Reads
<1>3. TasksTyped'
  BY <1>2 DEF TasksTyped, TypedTasks
<1>4. DetailsTyped'
  BY DEF Reads, DetailsTyped, diskVars
<1> QED  BY <1>3, <1>4

LEMMA StoreTyped ==
  ASSUME TasksTyped, DetailsTyped, NEW s \in Sessions, NEW task, IsTask(task), task.loaded, NEW ok,
         Stores(s, task, ok)
  PROVE  TasksTyped' /\ DetailsTyped' /\ tasks' = [tasks EXCEPT ![s] = task]
<1>1. TypedTasks([tasks EXCEPT ![s] = task])
  BY OneTaskTyped DEF RowIsBare
<1> QED  BY <1>1, SaveTyped DEF Stores

\* What a capture puts into the daemon's task.
LEMMA CapturedTyped ==
  ASSUME TasksTyped, DetailsTyped, WorkTyped, NEW x \in capturing, tasks[x.session] # NoTask,
         x.turn \in DOMAIN Hydrated(x.session).turns
  PROVE  LET task == [Hydrated(x.session) EXCEPT !.turns[x.turn].checkpoint = x.checkpoint]
         IN  /\ IsTask(task) /\ task.loaded
             /\ task.cursor = Hydrated(x.session).cursor
<1>1. IsCapture(x) /\ x.session \in Sessions
  BY DEF WorkTyped, IsCapture
<1>2. IsTask(Hydrated(x.session)) /\ Hydrated(x.session).loaded
  BY <1>1, HydratedTyped
<1>3. [Hydrated(x.session).turns EXCEPT ![x.turn].checkpoint = x.checkpoint] \in Seq(Turns)
  BY <1>1, <1>2, CheckpointTyped DEF IsTask, IsCapture
<1> QED  BY <1>2, <1>3 DEF IsTask, Fields

LEMMA TasksStep ==
  ASSUME TasksTyped, DetailsTyped, WorkTyped, WireTyped, [TaskNext]_taskVars
  PROVE  TasksTyped' /\ DetailsTyped'
<1>1. CASE UNCHANGED <<storeVars, removed, faults>>
  BY <1>1 DEF storeVars, TasksTyped, TypedTasks, DetailsTyped
<1>2. ASSUME NEW n \in BagToSet(saving), NEW ok, SaveTaskState(n, ok)
      PROVE  TasksTyped' /\ DetailsTyped'
  <2> DEFINE now == [s \in Sessions |-> IF s \in NotRemoved(n.tasks)
                                         THEN Accept(tasks[s], n.tasks[s], n.runtimes[s]) ELSE tasks[s]]
  <2>1. SaveTasks(now, dirty \cup NotRemoved(n.tasks), ok)
    BY <1>2 DEF SaveTaskState
  <2>2. \A s \in NotRemoved(n.tasks) : IsTask(n.tasks[s]) /\ n.tasks[s].loaded
    BY DEF WireTyped, IsProjections, NotRemoved
  <2>3. TypedTasks(now)
    BY <2>2, AcceptedTyped DEF TypedTasks, TasksTyped
  <2> HIDE DEF now
  <2> QED  BY <2>1, <2>3, SaveTyped
<1>3. ASSUME NEW s \in Sessions, NEW ok, RemoveSession(s, ok)
      PROVE  TasksTyped' /\ DetailsTyped'
  BY <1>3, OneTaskTyped, SaveTyped DEF RemoveSession
<1>4. ASSUME NEW x \in capturing, NEW ok, x.turn \in DOMAIN Hydrated(x.session).turns,
             Stores(x.session, [Hydrated(x.session) EXCEPT !.turns[x.turn].checkpoint = x.checkpoint], ok)
      PROVE  TasksTyped' /\ DetailsTyped'
  <2>1. x.session \in Sessions /\ tasks[x.session] # NoTask
    BY <1>4 DEF WorkTyped, IsCapture, Stores
  <2> QED  BY <1>4, <2>1, CapturedTyped, StoreTyped
<1>5. ASSUME NEW s \in Sessions, NEW ok, NEW reset, RewindStores(s, ok),
             Stores(s, Truncated(rewinding[s].task, rewinding[s].keep, reset), ok)
      PROVE  TasksTyped' /\ DetailsTyped'
  <2>1. IsRewind(rewinding[s])
    BY <1>5 DEF RewindStores, WorkTyped
  <2> QED  BY <1>5, <2>1, TruncatedTyped, StoreTyped DEF IsRewind
<1>6. CASE Restart
  BY <1>6, SkeletonTyped DEF Restart, LoadTasks, TasksTyped, TypedTasks, DetailsTyped, diskVars
<1> QED
  BY <1>1, <1>2, <1>3, <1>4, <1>5, <1>6, ReadTyped, StoreSteps

-----------------------------------------------------------------------------
(* What the daemon works on without its lock. *)

\* What a desktop leaves to the daemon.
LEMMA DesktopStep ==
  ASSUME NEW c \in Clients, Desktop(c)
  PROVE  /\ UNCHANGED <<rewinding, faults>>
         /\ capturing' = capturing \/ \E s \in Sessions, k \in 1..(MaxEdits + 1) : CaptureStarts(c, s, k)
         /\ \/ UNCHANGED <<sent, saving>>
            \/ Save(c) \/ \E s \in Sessions, title \in Titles : Rename(c, s, title)
<1> DEFINE Leaves == UNCHANGED <<rewinding, faults, capturing, sent, saving>>
<1>1. Refresh(c) => Leaves
  BY DEF Refresh, daemonVars, wireVars, boundVars
<1>2. ASSUME NEW s \in Sessions, Hydrate(c, s) \/ Attach(c, s) \/ Remove(c, s)  PROVE Leaves
  BY <1>2 DEF Hydrate, Attach, Remove, daemonVars, wireVars, boundVars
<1>3. ASSUME NEW s \in Sessions, Submit(c, s)  PROVE Leaves
  BY <1>3 DEF Submit, BeginTurn, wireVars
<1>4. ASSUME NEW s \in Sessions, Answer(c, s)  PROVE Leaves
  BY <1>4 DEF Answer, daemonVars, wireVars
<1>5. ASSUME NEW s \in Sessions, NEW title, Create(c, s, title)  PROVE Leaves
  BY <1>5 DEF Create, daemonVars, wireVars
<1>6. ASSUME NEW s \in Sessions, NEW k, Resubmit(c, s, k)  PROVE Leaves
  BY <1>6 DEF Resubmit, BeginTurn, wireVars
<1>7. ASSUME NEW s \in Sessions, NEW k, CaptureKnown(c, s, k)  PROVE Leaves
  BY <1>7 DEF CaptureKnown, daemonVars, wireVars, boundVars
<1>8. ASSUME NEW s \in Sessions, NEW k, CaptureStarts(c, s, k)  PROVE UNCHANGED <<rewinding, faults, sent, saving>>
  BY <1>8 DEF CaptureStarts, wireVars, boundVars
<1>9. ASSUME NEW s \in Sessions, NEW title, Rename(c, s, title)
      PROVE  UNCHANGED <<rewinding, faults, capturing>>
  BY <1>9 DEF Rename, daemonVars, boundVars
<1>10. Save(c) => UNCHANGED <<rewinding, faults, capturing>>
  BY DEF Save, daemonVars, boundVars
<1> QED  BY <1>1, <1>2, <1>3, <1>4, <1>5, <1>6, <1>7, <1>8, <1>9, <1>10 DEF Desktop

LEMMA WorkStep ==
  ASSUME Typed, [TaskNext]_taskVars
  PROVE  WorkTyped'
<1> USE DEF Typed
<1>1. CASE UNCHANGED <<capturing, rewinding>>
  BY <1>1 DEF WorkTyped
<1>2. ASSUME NEW c \in Clients, NEW s \in Sessions, NEW k, CaptureStarts(c, s, k)  PROVE WorkTyped'
  <2>1. /\ IsTask(local[c][s]) /\ k = Len(local[c][s].turns) /\ k # 0
        /\ capturing' = capturing \cup {[client |-> c, session |-> s, turn |-> k,
                                         checkpoint |-> local[c][s].turns[k].id]}
        /\ rewinding' = rewinding
    BY <1>2 DEF CaptureStarts, AsksCapture, Editable, LocalTyped
  <2>2. local[c][s].turns \in Seq(Turns) /\ Len(local[c][s].turns) \in Nat
    BY <2>1, LenProperties DEF IsTask
  <2>3. k \in Nat /\ local[c][s].turns[k] \in Turns
    BY <2>1, <2>2, ElementOfSeq
  <2>4. local[c][s].turns[k].id \in Nat
    BY <2>3 DEF Turns
  <2>5. IsCapture([client |-> c, session |-> s, turn |-> k, checkpoint |-> local[c][s].turns[k].id])
    BY <2>3, <2>4 DEF IsCapture
  <2> QED  BY <2>1, <2>5 DEF WorkTyped
<1>3. ASSUME NEW x \in capturing, NEW ok, CaptureEnds(x, ok)  PROVE WorkTyped'
  BY <1>3 DEF CaptureEnds, WorkTyped
<1>4. ASSUME NEW s \in Sessions, NEW k, RewindReads(s, k)  PROVE WorkTyped'
  <2>1. /\ tasks[s] # NoTask /\ k \in DOMAIN Hydrated(s).turns /\ capturing' = capturing
        /\ rewinding' = [rewinding EXCEPT ![s] = [task |-> Hydrated(s), keep |-> Retained(k)]]
    BY <1>4 DEF RewindReads
  <2>2. IsTask(Hydrated(s)) /\ Hydrated(s).loaded
    BY <2>1, HydratedTyped
  <2>3. Hydrated(s).turns \in Seq(Turns)
    BY <2>2 DEF IsTask
  <2>4. k \in 1..Len(Hydrated(s).turns) /\ Len(Hydrated(s).turns) \in Nat
    BY <2>1, <2>3, LenProperties
  <2>5. Retained(k) \in 0..Len(Hydrated(s).turns)
    BY <2>4 DEF Retained
  <2>6. IsRewind([task |-> Hydrated(s), keep |-> Retained(k)])
    BY <2>2, <2>5 DEF IsRewind
  <2> QED  BY <2>1, <2>6 DEF WorkTyped
<1>5. ASSUME NEW s \in Sessions, NEW ok, RewindStores(s, ok)  PROVE WorkTyped'
  BY <1>5 DEF RewindStores, WorkTyped
<1>6. CASE Restart
  BY <1>6 DEF Restart, WorkTyped
<1>7. ASSUME NEW c \in Clients, Desktop(c), \A s \in Sessions, k \in 1..(MaxEdits + 1) : ~ CaptureStarts(c, s, k)
      PROVE  UNCHANGED <<capturing, rewinding>>
  BY <1>7, DesktopStep
<1>8. ASSUME Daemon,
             \A ok \in BOOLEAN : /\ \A x \in capturing : ~ CaptureEnds(x, ok)
                                 /\ \A s \in Sessions : ~ RewindStores(s, ok),
             \A s \in Sessions, k \in 1..(MaxEdits + 1) : ~ RewindReads(s, k)
      PROVE  UNCHANGED <<capturing, rewinding>>
  BY <1>8 DEF Daemon, SaveTaskState, RemoveSession, SaveBegins, CloseSession, daemonVars
<1>9. UNCHANGED taskVars => UNCHANGED <<capturing, rewinding>>
  BY DEF taskVars, daemonVars
<1> QED  BY <1>1, <1>2, <1>3, <1>4, <1>5, <1>6, <1>7, <1>8, <1>9 DEF TaskNext

-----------------------------------------------------------------------------
(* The desktops' tasks. *)

\* A desktop's task changes.
LEMMA LocalSet ==
  ASSUME LocalTyped, FollowedIsThere, NEW c \in Clients, NEW s \in Sessions, NEW task, IsTask(task),
         local' = [local EXCEPT ![c][s] = task],
         DOMAIN attached' = Clients,
         \A d \in Clients : attached'[d] \subseteq attached[d] \cup (IF d = c THEN {s} ELSE {})
  PROVE  LocalTyped' /\ FollowedIsThere'
<1>1. \A d \in Clients : DOMAIN local'[d] = Sessions
  BY DEF LocalTyped
<1>2. \A d \in Clients, x \in Sessions : local'[d][x] = IF d = c /\ x = s THEN task ELSE local[d][x]
  BY DEF LocalTyped
<1>3. LocalTyped'
  BY <1>1, <1>2 DEF LocalTyped
<1>4. FollowedIsThere'
  BY <1>2 DEF FollowedIsThere
<1> QED  BY <1>3, <1>4

\* A checkpoint reaches the desktop that asked for it.
LEMMA ReceivedTyped ==
  ASSUME LocalTyped, FollowedIsThere, NEW c \in Clients, NEW s \in Sessions, NEW k,
         NEW checkpoint \in Nat, Received(c, s, k, checkpoint), attached' = attached
  PROVE  LocalTyped' /\ FollowedIsThere'
<1>1. CASE UNCHANGED local
  BY <1>1 DEF LocalTyped, FollowedIsThere
<1>2. CASE /\ local[c][s] # NoTask /\ k \in DOMAIN local[c][s].turns
           /\ local' = [local EXCEPT ![c][s].turns[k].checkpoint = checkpoint]
  <2> DEFINE task == [local[c][s] EXCEPT !.turns[k].checkpoint = checkpoint]
  <2>1. IsTask(local[c][s])
    BY <1>2 DEF LocalTyped
  <2>2. [local[c][s].turns EXCEPT ![k].checkpoint = checkpoint] \in Seq(Turns)
    BY <1>2, <2>1, CheckpointTyped DEF IsTask
  <2>3. IsTask(task)
    BY <2>1, <2>2 DEF IsTask, Fields
  <2>4. local' = [local EXCEPT ![c][s] = task]
    BY <1>2
  <2> HIDE DEF task
  <2>5. DOMAIN attached' = Clients /\ \A d \in Clients : attached'[d] \subseteq attached[d]
    BY DEF FollowedIsThere
  <2> QED  BY <2>3, <2>4, <2>5, LocalSet
<1> QED  BY <1>1, <1>2 DEF Received

\* A turn begins, on the runtime the desktop follows or on a new one.
LEMMA BeginTyped ==
  ASSUME LocalTyped, FollowedIsThere, CountersTyped, NEW c \in Clients, NEW s \in Sessions, NEW task,
         IsTask(task), BeginTurn(c, s, task)
  PROVE  LocalTyped' /\ FollowedIsThere'
<1>1. IsTask(WithTurn(task)) /\ local' = [local EXCEPT ![c][s] = WithTurn(task)]
  BY WithTurnTyped DEF BeginTurn, CountersTyped
<1>2. DOMAIN attached' = Clients
  BY DEF BeginTurn, FollowedIsThere
<1>3. \A d \in Clients : attached'[d] \subseteq attached[d] \cup (IF d = c THEN {s} ELSE {})
  BY DEF BeginTurn
<1> QED  BY <1>1, <1>2, <1>3, LocalSet

LEMMA LocalStep ==
  ASSUME Typed, [TaskNext]_taskVars
  PROVE  LocalTyped' /\ FollowedIsThere'
<1> USE DEF Typed
<1>1. CASE UNCHANGED local /\ DOMAIN attached' = Clients /\ \A c \in Clients : attached'[c] \subseteq attached[c]
  BY <1>1 DEF LocalTyped, FollowedIsThere
<1>2. ASSUME UNCHANGED attached
      PROVE  /\ DOMAIN attached' = Clients
             /\ \A c \in Clients : attached'[c] \subseteq attached[c]
             /\ \A s : \A c, d \in Clients :
                  attached'[d] \subseteq attached[d] \cup (IF d = c THEN {s} ELSE {})
  BY <1>2 DEF FollowedIsThere
<1>3. ASSUME NEW c \in Clients, Refresh(c)  PROVE LocalTyped' /\ FollowedIsThere'
  <2>1. \A s \in Sessions : Merged(c, s) = NoTask \/ IsTask(Merged(c, s))
    <3> SUFFICES ASSUME NEW s \in Sessions  PROVE Merged(c, s) = NoTask \/ IsTask(Merged(c, s))
      OBVIOUS
    <3>1. local[c][s] # NoTask => IsTask(local[c][s])
      BY DEF LocalTyped
    <3>2. tasks[s] # NoTask => IsTask(ListProjection(tasks[s]))
      BY ListProjectionTyped DEF TasksTyped, TypedTasks
    <3>3. CASE local[c][s] = NoTask \/ tasks[s] = NoTask
      BY <3>1, <3>2, <3>3 DEF Merged
    <3>4. CASE local[c][s] # NoTask /\ tasks[s] # NoTask
      <4>1. Merged(c, s) = IF s \in attached[c] THEN [local[c][s] EXCEPT !.title = tasks[s].title]
                           ELSE [local[c][s] EXCEPT !.title = tasks[s].title, !.at = tasks[s].at,
                                                    !.busy = tasks[s].busy]
        BY <3>4 DEF Merged
      <4> QED  BY <3>1, <3>4, <4>1 DEF IsTask, Fields
    <3> QED  BY <3>3, <3>4
  <2>2. /\ local' = [local EXCEPT ![c] = [s \in Sessions |-> Merged(c, s)]]
        /\ attached' = [attached EXCEPT ![c] = {s \in @ : Merged(c, s) # NoTask}]
    BY <1>3 DEF Refresh
  <2>3. LocalTyped'
    BY <2>1, <2>2 DEF LocalTyped
  <2>4. FollowedIsThere'
    BY <2>1, <2>2 DEF LocalTyped, FollowedIsThere
  <2> QED  BY <2>3, <2>4
<1>4. ASSUME NEW c \in Clients, NEW s \in Sessions, Hydrate(c, s) \/ Attach(c, s)
      PROVE  LocalTyped' /\ FollowedIsThere'
  <2>1. IsTask(OnWire(Hydrated(s)))
    BY <1>4, HydratedTyped, OnWireTyped DEF Hydrate, Attach
  <2>2. /\ local' = [local EXCEPT ![c][s] = OnWire(Hydrated(s))]
        /\ attached' = attached \/ attached' = [attached EXCEPT ![c] = @ \cup {s}]
    BY <1>4 DEF Hydrate, Attach
  <2>3. /\ DOMAIN attached' = Clients
        /\ \A d \in Clients : attached'[d] \subseteq attached[d] \cup (IF d = c THEN {s} ELSE {})
    BY <2>2 DEF FollowedIsThere
  <2> QED  BY <2>1, <2>2, <2>3, LocalSet
<1>5. ASSUME NEW c \in Clients, NEW s \in Sessions, Submit(c, s)  PROVE LocalTyped' /\ FollowedIsThere'
  BY <1>5, BeginTyped DEF Submit, Editable, LocalTyped
<1>6. ASSUME NEW c \in Clients, NEW s \in Sessions, NEW k, Resubmit(c, s, k)  PROVE LocalTyped' /\ FollowedIsThere'
  <2>1. IsTask(local[c][s]) /\ k \in DOMAIN local[c][s].turns
    BY <1>6 DEF Resubmit, Editable, LocalTyped
  <2>2. k \in 1..Len(local[c][s].turns) /\ Len(local[c][s].turns) \in Nat
    BY <2>1, LenProperties DEF IsTask
  <2>3. k - 1 \in 0..Len(local[c][s].turns)
    BY <2>2
  <2> QED  BY <1>6, <2>1, <2>3, TruncatedTyped, BeginTyped DEF Resubmit
<1>7. ASSUME NEW c \in Clients, NEW s \in Sessions, Answer(c, s)  PROVE LocalTyped' /\ FollowedIsThere'
  <2> DEFINE next == IF local[c][s].cursor.runtime = active[s] THEN local[c][s].cursor.sequence + 1 ELSE 1
             cursor == [runtime |-> active[s], sequence |-> next]
             moved == [local[c][s] EXCEPT !.native = TRUE, !.cursor = cursor]
  <2>1. IsTask(local[c][s]) /\ active[s] \in Nat /\ attached' = attached
    BY <1>7 DEF Answer, FollowedIsThere, CountersTyped
  <2>2. cursor \in Cursors
    BY <2>1 DEF IsTask, Cursors
  <2> HIDE DEF cursor
  <2>3. IsTask(moved)
    BY <2>1, <2>2 DEF IsTask, Fields
  <2>4. \E task : IsTask(task) /\ local' = [local EXCEPT ![c][s] = task]
    <3>1. \/ local' = [local EXCEPT ![c][s] = moved]
          \/ \E x : local' = [local EXCEPT ![c][s] = [moved EXCEPT !.messages = x]]
          \/ \E x : local' = [local EXCEPT ![c][s] = [moved EXCEPT !.busy = FALSE, !.at = x]]
      BY <1>7 DEF Answer, cursor
    <3> HIDE DEF moved
    <3>2. \A x : IsTask([moved EXCEPT !.messages = x]) /\ IsTask([moved EXCEPT !.busy = FALSE, !.at = x])
      BY <2>3 DEF IsTask, Fields
    <3> QED  BY <2>3, <3>1, <3>2
  <2> QED  BY <1>2, <2>1, <2>4, LocalSet
<1>8. ASSUME NEW c \in Clients, NEW s \in Sessions, Remove(c, s)  PROVE LocalTyped' /\ FollowedIsThere'
  <2>1. /\ local' = [local EXCEPT ![c][s] = NoTask] /\ attached' = [attached EXCEPT ![c] = @ \ {s}]
    BY <1>8 DEF Remove
  <2>2. \A d \in Clients : DOMAIN local'[d] = Sessions /\
          \A x \in Sessions : local'[d][x] = IF d = c /\ x = s THEN NoTask ELSE local[d][x]
    BY <2>1 DEF LocalTyped
  <2>3. LocalTyped'
    BY <2>1, <2>2 DEF LocalTyped
  <2> QED  BY <2>1, <2>2, <2>3 DEF FollowedIsThere
<1>9. ASSUME NEW c \in Clients, NEW s \in Sessions, NEW title, Create(c, s, title)
      PROVE  LocalTyped' /\ FollowedIsThere'
  <2> DEFINE task == [loaded |-> TRUE, title |-> title, at |-> seconds', busy |-> FALSE,
                      native |-> FALSE, cursor |-> NoCursor, turns |-> << >>, messages |-> << >>]
  <2>1. IsTask(task)
    BY NothingTyped DEF IsTask, Fields
  <2>2. local' = [local EXCEPT ![c][s] = task] /\ attached' = attached
    BY <1>9 DEF Create
  <2> HIDE DEF task
  <2> QED  BY <1>2, <2>1, <2>2, LocalSet
<1>10. ASSUME NEW c \in Clients, NEW s \in Sessions, NEW title, Rename(c, s, title)
       PROVE  LocalTyped' /\ FollowedIsThere'
  <2> DEFINE task == [local[c][s] EXCEPT !.title = title, !.at = seconds']
  <2>1. IsTask(local[c][s])
    BY <1>10 DEF Rename, LocalTyped
  <2>2. IsTask(task)
    BY <2>1 DEF IsTask, Fields
  <2>3. local' = [local EXCEPT ![c][s] = task] /\ attached' = attached
    BY <1>10, <2>1 DEF Rename
  <2> HIDE DEF task
  <2> QED  BY <1>2, <2>2, <2>3, LocalSet
<1>11. ASSUME NEW c \in Clients, NEW s \in Sessions, NEW k, CaptureKnown(c, s, k)
       PROVE  LocalTyped' /\ FollowedIsThere'
  <2>1. /\ tasks[s] # NoTask /\ Captured(Hydrated(s), k) /\ attached' = attached
        /\ Received(c, s, k, Hydrated(s).turns[k].checkpoint)
    BY <1>11 DEF CaptureKnown
  <2>2. Hydrated(s).turns \in Seq(Turns) /\ k \in DOMAIN Hydrated(s).turns
    BY <2>1, HydratedTyped DEF IsTask, Captured
  <2>3. Hydrated(s).turns[k] \in Turns
    BY <2>2, ElementOfSeq, LenProperties
  <2>4. Hydrated(s).turns[k].checkpoint \in Nat
    BY <2>3 DEF Turns
  <2> QED  BY <2>1, <2>4, ReceivedTyped
<1>12. ASSUME NEW x \in capturing, NEW ok \in BOOLEAN, CaptureEnds(x, ok)  PROVE LocalTyped' /\ FollowedIsThere'
  <2>1. IsCapture(x)
    BY DEF WorkTyped
  <2>2. (IF ok THEN x.checkpoint ELSE NoCheckpoint) \in Nat
    BY <2>1, NothingTyped DEF IsCapture
  <2>3. /\ Received(x.client, x.session, x.turn, IF ok THEN x.checkpoint ELSE NoCheckpoint)
        /\ attached' = attached
    BY <1>12 DEF CaptureEnds
  <2> QED  BY <2>1, <2>2, <2>3, ReceivedTyped DEF IsCapture
<1>13. ASSUME NEW c \in Clients, Save(c)  PROVE LocalTyped' /\ FollowedIsThere'
  BY <1>1, <1>2, <1>13 DEF Save
<1>14. ASSUME NEW c \in Clients, NEW s \in Sessions, NEW k, CaptureStarts(c, s, k)
       PROVE  LocalTyped' /\ FollowedIsThere'
  BY <1>1, <1>2, <1>14 DEF CaptureStarts, clientVars
<1>15. ASSUME NEW s \in Sessions, NEW ok, CloseSession(s) \/ RewindStores(s, ok)
       PROVE  LocalTyped' /\ FollowedIsThere'
  <2>1. local' = local /\ attached' = [c \in Clients |-> attached[c] \ {s}]
    BY <1>15 DEF CloseSession, RewindStores
  <2> QED  BY <1>1, <2>1
<1>16. CASE Restart
  <2>1. local' = local /\ attached' = [c \in Clients |-> {}]
    BY <1>16 DEF Restart
  <2> QED  BY <1>1, <2>1
<1>17. ASSUME NEW n, NEW s, NEW ok, NEW k,
              SaveTaskState(n, ok) \/ RemoveSession(s, ok) \/ SaveBegins(n) \/ RewindReads(s, k)
       PROVE  LocalTyped' /\ FollowedIsThere'
  BY <1>1, <1>2, <1>17 DEF SaveTaskState, RemoveSession, SaveBegins, RewindReads, clientVars
<1>18. CASE UNCHANGED taskVars
  BY <1>1, <1>2, <1>18 DEF taskVars, clientVars
<1>19. ASSUME NEW c \in Clients, Desktop(c)  PROVE LocalTyped' /\ FollowedIsThere'
  BY <1>3, <1>4, <1>5, <1>6, <1>7, <1>8, <1>9, <1>10, <1>11, <1>13, <1>14, <1>19 DEF Desktop
<1>20. CASE Daemon
  BY <1>12, <1>15, <1>17, <1>20 DEF Daemon
<1> QED  BY <1>16, <1>18, <1>19, <1>20 DEF TaskNext

-----------------------------------------------------------------------------
(* The notifications under way. *)

LEMMA ProjectionsTyped ==
  ASSUME NEW mine, NEW changed \in SUBSET Sessions, \A s \in Sessions : mine[s] = NoTask \/ IsTask(mine[s])
  PROVE  IsProjections(Projections(mine, changed))
<1>1. \A s \in Sessions : mine[s] # NoTask => IsTask(OnWire(mine[s])) /\ OnWire(mine[s]).loaded
  BY OnWireTyped DEF OnWire, IsTask, Fields
<1> QED  BY <1>1 DEF IsProjections, Projections

LEMMA SentTyped ==
  ASSUME WireTyped, NEW c, NEW mine, NEW changed \in SUBSET Sessions, SendSave(c, mine, changed), saving' = saving,
         \A s \in Sessions : mine[s] = NoTask \/ IsTask(mine[s])
  PROVE  WireTyped'
<1>1. IsProjections(Projections(mine, changed)) /\ sent' = sent (+) SetToBag({Projections(mine, changed)})
  BY ProjectionsTyped DEF SendSave
<1>2. BagToSet(sent') = BagToSet(sent) \cup {Projections(mine, changed)}
  BY <1>1, BagGrows
<1> QED  BY <1>1, <1>2 DEF WireTyped

LEMMA WireStep ==
  ASSUME Typed, LocalTyped', [TaskNext]_taskVars
  PROVE  WireTyped'
<1> USE DEF Typed
<1>1. CASE UNCHANGED <<sent, saving>>
  BY <1>1 DEF WireTyped
<1>2. ASSUME NEW c \in Clients, Save(c)  PROVE WireTyped'
  <2>1. unsaved[c] \in SUBSET Sessions /\ \A s \in Sessions : local[c][s] = NoTask \/ IsTask(local[c][s])
    BY DEF CountersTyped, LocalTyped
  <2> QED  BY <1>2, <2>1, SentTyped DEF Save
<1>3. ASSUME NEW c \in Clients, NEW s \in Sessions, NEW title, Rename(c, s, title)  PROVE WireTyped'
  <2>1. /\ unsaved[c] \cup {s} \in SUBSET Sessions
        /\ \A x \in Sessions : local'[c][x] = NoTask \/ IsTask(local'[c][x])
    BY DEF CountersTyped, LocalTyped
  <2> QED  BY <1>3, <2>1, SentTyped DEF Rename
<1>4. ASSUME NEW m \in BagToSet(sent), SaveBegins(m)  PROVE WireTyped'
  <2> DEFINE n == [tasks |-> m, runtimes |-> active]
  <2>1. sent' = sent (-) SetToBag({m}) /\ saving' = saving (+) SetToBag({n})
    BY <1>4 DEF SaveBegins
  <2>2. IsProjections(n.tasks)
    BY DEF WireTyped
  <2> HIDE DEF n
  <2>3. BagToSet(sent') \subseteq BagToSet(sent) /\ BagToSet(saving') = BagToSet(saving) \cup {n}
    BY <2>1, BagShrinks, BagGrows
  <2> QED  BY <2>2, <2>3 DEF WireTyped
<1>5. ASSUME NEW n, NEW ok, SaveTaskState(n, ok)  PROVE WireTyped'
  <2>1. sent' = sent /\ saving' = saving (-) SetToBag({n})
    BY <1>5 DEF SaveTaskState
  <2>2. BagToSet(saving') \subseteq BagToSet(saving)
    BY <2>1, BagShrinks
  <2> QED  BY <2>1, <2>2 DEF WireTyped
<1>6. CASE Restart
  BY <1>6 DEF Restart, WireTyped, EmptyBag, BagToSet, SetToBag
<1>7. ASSUME NEW c \in Clients, Desktop(c), ~ Save(c), \A s \in Sessions, title \in Titles : ~ Rename(c, s, title)
      PROVE  UNCHANGED <<sent, saving>>
  BY <1>7, DesktopStep
<1>8. ASSUME Daemon, \A n, ok : ~ SaveTaskState(n, ok), \A m \in BagToSet(sent) : ~ SaveBegins(m)
      PROVE  UNCHANGED <<sent, saving>>
  BY <1>8 DEF Daemon, CaptureEnds, RemoveSession, RewindStores, RewindReads, CloseSession, wireVars
<1>9. UNCHANGED taskVars => UNCHANGED <<sent, saving>>
  BY DEF taskVars, wireVars
<1> QED  BY <1>1, <1>2, <1>3, <1>4, <1>5, <1>6, <1>7, <1>8, <1>9 DEF TaskNext

LEMMA CountersStep ==
  ASSUME Typed, [TaskNext]_taskVars
  PROVE  CountersTyped'
<1> USE DEF Typed
<1>1. faults' \in Nat
  <2>1. faults' = faults \/ faults' = faults + 1
    <3>1. ASSUME NEW c \in Clients, Desktop(c)  PROVE faults' = faults
      BY <3>1, DesktopStep
    <3>2. ASSUME Daemon  PROVE faults' = faults \/ faults' = faults + 1
      BY <3>2 DEF Daemon, SaveTaskState, CaptureEnds, RemoveSession, RewindStores, RewindReads, CloseSession,
                  SaveBegins, SaveOutcome, Fault, boundVars
    <3> QED  BY <3>1, <3>2 DEF TaskNext, Restart, Fault, taskVars, boundVars
  <2> QED  BY <2>1 DEF CountersTyped
<1>2. /\ active' \in [Sessions -> Nat] /\ nextId' \in Nat /\ nextRuntime' \in Nat
      /\ DOMAIN asked' = Sessions
  <2>1. CASE UNCHANGED <<active, asked, nextId, nextRuntime>>
    BY <2>1 DEF CountersTyped
  <2>2. ASSUME NEW s \in Sessions, DriverEnds(s)
        PROVE active' \in [Sessions -> Nat] /\ DOMAIN asked' = Sessions
    BY <2>2 DEF DriverEnds, CountersTyped
  <2>3. ASSUME NEW c \in Clients, NEW s \in Sessions, NEW task, BeginTurn(c, s, task)
        PROVE  /\ active' \in [Sessions -> Nat] /\ nextId' \in Nat /\ nextRuntime' \in Nat
               /\ DOMAIN asked' = Sessions
    BY <2>3 DEF BeginTurn, CountersTyped
  <2>4. ASSUME NEW c \in Clients, Desktop(c)
        PROVE  \/ \E s \in Sessions : \E task : BeginTurn(c, s, task)
               \/ UNCHANGED <<active, asked, nextRuntime>> /\ (nextId' = nextId \/ nextId' = nextId + 1)
    <3>1. ASSUME NEW s \in Sessions, NEW k, Submit(c, s) \/ Resubmit(c, s, k)
          PROVE  \E task : BeginTurn(c, s, task)
      BY <3>1 DEF Submit, Resubmit
    <3>2. ASSUME NEW s \in Sessions, Answer(c, s)
          PROVE UNCHANGED <<active, asked, nextRuntime>> /\ (nextId' = nextId \/ nextId' = nextId + 1)
      BY <3>2 DEF Answer, daemonVars
    <3>3. ASSUME NEW s \in Sessions, NEW title, NEW k,
                 \/ Hydrate(c, s) \/ Attach(c, s) \/ Remove(c, s) \/ Create(c, s, title) \/ Rename(c, s, title)
                 \/ CaptureKnown(c, s, k) \/ CaptureStarts(c, s, k)
          PROVE  UNCHANGED <<active, asked, nextId, nextRuntime>>
      BY <3>3 DEF Hydrate, Attach, Remove, Create, Rename, CaptureKnown, CaptureStarts, boundVars, daemonVars
    <3>4. Refresh(c) \/ Save(c) => UNCHANGED <<active, asked, nextId, nextRuntime>>
      BY DEF Refresh, Save, boundVars, daemonVars
    <3> QED  BY <2>4, <3>1, <3>2, <3>3, <3>4 DEF Desktop
  <2>5. ASSUME Daemon
        PROVE  /\ UNCHANGED <<nextId, nextRuntime>>
               /\ UNCHANGED <<active, asked>> \/ \E s \in Sessions : DriverEnds(s)
    BY <2>5 DEF Daemon, SaveTaskState, CaptureEnds, RemoveSession, RewindStores, RewindReads, CloseSession,
                SaveBegins, boundVars, daemonVars
  <2>6. CASE Restart
    BY <2>6 DEF Restart, CountersTyped
  <2>7. UNCHANGED taskVars => UNCHANGED <<active, asked, nextId, nextRuntime>>
    BY DEF taskVars, daemonVars, boundVars
  <2>8. nextId \in Nat /\ nextRuntime \in Nat /\ active \in [Sessions -> Nat] /\ DOMAIN asked = Sessions
    BY DEF CountersTyped
  <2> QED  BY <2>1, <2>2, <2>3, <2>4, <2>5, <2>6, <2>7, <2>8 DEF TaskNext
<1>3. unsaved' \in [Clients -> SUBSET Sessions]
  <2>1. CASE unsaved' = unsaved
    BY <2>1 DEF CountersTyped
  <2>2. ASSUME NEW c \in Clients, NEW s \in Sessions, unsaved' = [unsaved EXCEPT ![c] = @ \cup {s}]
        PROVE unsaved' \in [Clients -> SUBSET Sessions]
    BY <2>2 DEF CountersTyped
  <2>3. ASSUME NEW c \in Clients, unsaved' = [unsaved EXCEPT ![c] = {}]
        PROVE unsaved' \in [Clients -> SUBSET Sessions]
    BY <2>3 DEF CountersTyped
  <2>4. ASSUME NEW c \in Clients, Desktop(c)
        PROVE  \/ unsaved' = unsaved \/ unsaved' = [unsaved EXCEPT ![c] = {}]
               \/ \E s \in Sessions : unsaved' = [unsaved EXCEPT ![c] = @ \cup {s}]
    <3>1. ASSUME NEW s \in Sessions, NEW k, Submit(c, s) \/ Resubmit(c, s, k) \/ CaptureKnown(c, s, k)
          PROVE  unsaved' = unsaved \/ unsaved' = [unsaved EXCEPT ![c] = @ \cup {s}]
      BY <3>1 DEF Submit, Resubmit, BeginTurn, CaptureKnown, Received
    <3>2. ASSUME NEW s \in Sessions, NEW title, Answer(c, s) \/ Create(c, s, title)
          PROVE  unsaved' = [unsaved EXCEPT ![c] = @ \cup {s}]
      BY <3>2 DEF Answer, Create
    <3>3. ASSUME NEW s \in Sessions, NEW title, Rename(c, s, title)
          PROVE  unsaved' = [unsaved EXCEPT ![c] = {}]
      BY <3>3 DEF Rename, SendSave
    <3>4. ASSUME NEW s \in Sessions, NEW k,
                 \/ Hydrate(c, s) \/ Attach(c, s) \/ Remove(c, s) \/ CaptureStarts(c, s, k)
          PROVE  unsaved' = unsaved
      BY <3>4 DEF Hydrate, Attach, Remove, CaptureStarts, clientVars
    <3>5. Refresh(c) => unsaved' = unsaved
      BY DEF Refresh
    <3>6. Save(c) => unsaved' = [unsaved EXCEPT ![c] = {}]
      BY DEF Save, SendSave
    <3> QED  BY <2>4, <3>1, <3>2, <3>3, <3>4, <3>5, <3>6 DEF Desktop
  <2>5. ASSUME NEW x \in capturing, NEW ok, CaptureEnds(x, ok)
        PROVE  /\ x.client \in Clients /\ x.session \in Sessions
               /\ unsaved' = unsaved \/ unsaved' = [unsaved EXCEPT ![x.client] = @ \cup {x.session}]
    BY <2>5 DEF CaptureEnds, Received, WorkTyped, IsCapture
  <2>6. ASSUME Daemon, \A x \in capturing, ok \in BOOLEAN : ~ CaptureEnds(x, ok)  PROVE unsaved' = unsaved
    BY <2>6 DEF Daemon, SaveTaskState, RemoveSession, RewindStores, RewindReads, CloseSession,
                SaveBegins, clientVars
  <2>7. Restart \/ UNCHANGED taskVars => unsaved' = unsaved
    BY DEF Restart, taskVars, clientVars
  <2> QED  BY <2>1, <2>2, <2>3, <2>4, <2>5, <2>6, <2>7 DEF TaskNext
<1> QED  BY <1>1, <1>2, <1>3 DEF CountersTyped

-----------------------------------------------------------------------------
LEMMA TypedInit ==
  ASSUME TaskInit
  PROVE  Typed
<1>1. PICK stored \in SUBSET Sessions, title \in Titles :
        LET old == OldTask(title)
            ifStored(x, y) == [s \in Sessions |-> IF s \in stored THEN x ELSE y]
        IN  /\ details = ifStored(Detail(old), NoTask)
            /\ tasks = ifStored(Skeleton(Row(old)), NoTask)
  BY DEF TaskInit
<1>2. <<[id |-> 1, checkpoint |-> NoCheckpoint]>> \in Seq(Turns)
  BY NothingTyped DEF Turns
<1>3. IsDetail(Detail(OldTask(title)))
  BY <1>2, NothingTyped DEF IsDetail, Detail, OldTask
<1>4. TasksTyped
  BY <1>1, SkeletonTyped DEF TasksTyped, TypedTasks
<1>5. DetailsTyped
  BY <1>1, <1>3 DEF DetailsTyped
<1>6. WorkTyped /\ LocalTyped /\ FollowedIsThere /\ CountersTyped
  BY DEF TaskInit, WorkTyped, LocalTyped, FollowedIsThere, CountersTyped
<1>7. WireTyped
  BY DEF TaskInit, WireTyped, EmptyBag, BagToSet, SetToBag
<1> QED  BY <1>4, <1>5, <1>6, <1>7 DEF Typed

LEMMA TypedStep ==
  ASSUME Typed, [TaskNext]_taskVars
  PROVE  Typed'
<1>1. TasksTyped' /\ DetailsTyped'
  BY TasksStep DEF Typed
<1>2. WorkTyped' /\ CountersTyped'
  BY WorkStep, CountersStep
<1>3. LocalTyped' /\ FollowedIsThere'
  BY LocalStep
<1>4. WireTyped'
  BY <1>3, WireStep
<1> QED  BY <1>1, <1>2, <1>3, <1>4 DEF Typed

THEOREM TaskInductive == TaskSpec => []Typed
BY TypedInit, TypedStep, PTL DEF TaskSpec

-----------------------------------------------------------------------------
(***************************************************************************)
(* A removed task stays removed.  While every save has committed, a task   *)
(* this connection does not know to be stored has no rows, so that the     *)
(* save that follows a removal leaves none.                                *)
(***************************************************************************)
UnpersistedHasNoRows ==
  faults = 0 => \A s \in Sessions \ persisted :
                  listed[s] = NoTask /\ details[s] = NoTask /\ messageRows[s] = << >>

RemovedIInv ==
  Typed /\ removed \subseteq Sessions /\ UnpersistedHasNoRows /\ RemovedStaysRemoved

LEMMA SaveLeavesNoRows ==
  ASSUME faults \in Nat, UnpersistedHasNoRows, NEW now, NEW marked, NEW ok \in BOOLEAN,
         SaveOutcome(ok), SaveTasks(now, marked, ok)
  PROVE  /\ UnpersistedHasNoRows'
         /\ faults' = 0 => \A s \in Sessions : now[s] = NoTask =>
              /\ listed'[s] = NoTask /\ details'[s] = NoTask /\ messageRows'[s] = << >>
<1>1. CASE ~ ok
  <2>1. faults' # 0
    BY <1>1 DEF SaveOutcome, Fault
  <2> QED  BY <2>1 DEF UnpersistedHasNoRows
<1>2. CASE ok
  <2>1. faults' = faults /\ SaveCommits(now, marked)
    BY <1>2 DEF SaveOutcome, SaveTasks
  <2>2. ASSUME NEW s \in Sessions, s \in Gone(now)
        PROVE  listed'[s] = NoTask /\ details'[s] = NoTask /\ messageRows'[s] = << >>
    BY <2>1, <2>2 DEF SaveCommits, Gone, Upserted, ListOnly, Whole, Live
  <2>3. ASSUME NEW s \in Sessions, s \notin persisted, s \notin Upserted(now, marked), faults = 0
        PROVE  listed'[s] = NoTask /\ details'[s] = NoTask /\ messageRows'[s] = << >>
    <3>1. listed[s] = NoTask /\ details[s] = NoTask /\ messageRows[s] = << >>
      BY <2>3 DEF UnpersistedHasNoRows
    <3> QED  BY <2>1, <2>3, <3>1 DEF SaveCommits, Gone, Upserted
  <2>4. UnpersistedHasNoRows'
    <3>1. persisted' = (persisted \cup Upserted(now, marked)) \ Gone(now)
      BY <2>1 DEF SaveCommits
    <3> QED  BY <2>1, <2>2, <2>3, <3>1 DEF UnpersistedHasNoRows
  <2>5. ASSUME NEW s \in Sessions, now[s] = NoTask
        PROVE  s \notin Upserted(now, marked) /\ (s \in persisted => s \in Gone(now))
    BY <2>5 DEF Upserted, ListOnly, Whole, Live, Gone
  <2> QED  BY <2>1, <2>2, <2>3, <2>4, <2>5
<1> QED  BY <1>1, <1>2

\* A save of tasks without the removed ones.
LEMMA SaveKeepsRemoved ==
  ASSUME faults \in Nat, UnpersistedHasNoRows, NEW now, NEW marked, NEW ok \in BOOLEAN,
         SaveOutcome(ok), SaveTasks(now, marked, ok),
         removed' \subseteq Sessions, \A s \in removed' : now[s] = NoTask
  PROVE  UnpersistedHasNoRows' /\ RemovedStaysRemoved'
<1>1. tasks' = now
  BY DEF SaveTasks, SaveCommits, SaveFails
<1>2. /\ UnpersistedHasNoRows'
      /\ faults' = 0 => \A s \in Sessions : now[s] = NoTask =>
           /\ listed'[s] = NoTask /\ details'[s] = NoTask /\ messageRows'[s] = << >>
  BY SaveLeavesNoRows
<1> QED  BY <1>1, <1>2 DEF RemovedStaysRemoved

LEMMA StoresKeepsRemoved ==
  ASSUME RemovedIInv, NEW s \in Sessions, NEW task, NEW ok \in BOOLEAN, Stores(s, task, ok)
  PROVE  removed' \subseteq Sessions /\ UnpersistedHasNoRows' /\ RemovedStaysRemoved'
<1>1. \A x \in removed : x # s /\ x \in Sessions /\ tasks[x] = NoTask
  BY DEF Stores, RemovedIInv, RemovedStaysRemoved
<1>2. removed' = removed /\ \A x \in removed : [tasks EXCEPT ![s] = task][x] = NoTask
  BY <1>1 DEF Stores, RemovedIInv, Typed, TasksTyped, TypedTasks
<1>3. /\ faults \in Nat /\ UnpersistedHasNoRows /\ SaveOutcome(ok)
      /\ SaveTasks([tasks EXCEPT ![s] = task], dirty \cup {s}, ok)
  BY DEF Stores, RemovedIInv, Typed, CountersTyped
<1>4. removed' \subseteq Sessions /\ \A x \in removed' : [tasks EXCEPT ![s] = task][x] = NoTask
  BY <1>2 DEF RemovedIInv
<1> HIDE DEF Stores
<1> QED  BY <1>3, <1>4, SaveKeepsRemoved

LEMMA RemovedStep ==
  ASSUME RemovedIInv, [TaskNext]_taskVars
  PROVE  RemovedIInv'
<1> DEFINE Kept == removed' \subseteq Sessions /\ UnpersistedHasNoRows' /\ RemovedStaysRemoved'
<1>1. Typed /\ Typed'
  BY TypedStep DEF RemovedIInv
<1>2. ASSUME UNCHANGED <<storeVars, removed, faults>>  PROVE Kept
  BY <1>2 DEF storeVars, RemovedIInv, RemovedStaysRemoved, UnpersistedHasNoRows
<1>3. ASSUME NEW s \in Sessions, Reads(s)  PROVE Kept
  <2>1. \A x \in removed : x # s
    BY <1>3 DEF Reads, RemovedIInv, RemovedStaysRemoved
  <2>2. \A x \in removed : x \in Sessions /\ tasks'[x] = tasks[x]
    BY <1>1, <1>3, <2>1 DEF Reads, RemovedIInv
  <2> QED  BY <1>3, <2>2 DEF Reads, diskVars, RemovedIInv, RemovedStaysRemoved, UnpersistedHasNoRows
<1>4. ASSUME NEW n \in BagToSet(saving), NEW ok \in BOOLEAN, SaveTaskState(n, ok)  PROVE Kept
  <2> DEFINE now == [s \in Sessions |-> IF s \in NotRemoved(n.tasks)
                                         THEN Accept(tasks[s], n.tasks[s], n.runtimes[s]) ELSE tasks[s]]
  <2>1. /\ SaveTasks(now, dirty \cup NotRemoved(n.tasks), ok) /\ SaveOutcome(ok)
        /\ removed' = removed
    BY <1>4 DEF SaveTaskState, daemonVars
  <2>2. \A s \in removed' : now[s] = NoTask
    BY <2>1 DEF NotRemoved, RemovedIInv, RemovedStaysRemoved
  <2>3. removed' \subseteq Sessions /\ UnpersistedHasNoRows /\ faults \in Nat
    BY <1>1, <2>1 DEF RemovedIInv, Typed, CountersTyped
  <2> HIDE DEF now
  <2> QED  BY <2>1, <2>2, <2>3, SaveKeepsRemoved
<1>5. ASSUME NEW s \in Sessions, NEW ok \in BOOLEAN, RemoveSession(s, ok)  PROVE Kept
  <2> DEFINE now == [tasks EXCEPT ![s] = NoTask]
  <2>1. /\ SaveTasks(now, dirty, ok) /\ SaveOutcome(ok)
        /\ removed' = removed \cup {s}
    BY <1>5 DEF RemoveSession
  <2>2. \A x \in removed' : now[x] = NoTask
    BY <1>1, <2>1 DEF RemovedIInv, RemovedStaysRemoved, Typed, TasksTyped, TypedTasks
  <2>3. removed' \subseteq Sessions /\ UnpersistedHasNoRows /\ faults \in Nat
    BY <1>1, <2>1 DEF RemovedIInv, Typed, CountersTyped
  <2> HIDE DEF now
  <2> QED  BY <2>1, <2>2, <2>3, SaveKeepsRemoved
<1>6. ASSUME NEW x \in capturing, NEW task, NEW ok \in BOOLEAN, Stores(x.session, task, ok)  PROVE Kept
  BY <1>1, <1>6, StoresKeepsRemoved DEF Typed, WorkTyped, IsCapture
<1>7. ASSUME Restart  PROVE Kept
  <2>1. removed' = {} /\ faults' # 0
    BY <1>1, <1>7 DEF Restart, Fault, Typed, CountersTyped
  <2> QED  BY <2>1 DEF RemovedStaysRemoved, UnpersistedHasNoRows
<1>8. WorkTyped
  BY <1>1 DEF Typed
<1>9. ASSUME NEW s \in Sessions, NEW task, NEW ok \in BOOLEAN, Stores(s, task, ok)  PROVE Kept
  BY <1>9, StoresKeepsRemoved
<1>10. Kept
  <2> HIDE DEF Kept
  <2> QED  BY <1>2, <1>3, <1>4, <1>5, <1>6, <1>7, <1>8, <1>9, StoreSteps
<1> QED  BY <1>1, <1>10 DEF RemovedIInv

(***************************************************************************)
(* A task a daemon has removed stays removed while that daemon runs,       *)
(* whatever projections of it are still under way; and if no save failed   *)
(* none of its rows is left (daemon.rs:549-553, 600-626).                  *)
(***************************************************************************)
THEOREM RemovedCorrect == TaskSpec => []RemovedStaysRemoved
<1>1. ASSUME TaskInit  PROVE RemovedIInv
  <2>1. removed = {}
    BY <1>1 DEF TaskInit
  <2>2. PICK stored \in SUBSET Sessions :
          /\ persisted = stored
          /\ \A s \in Sessions \ stored : listed[s] = NoTask /\ details[s] = NoTask /\ messageRows[s] = << >>
    BY <1>1 DEF TaskInit
  <2> QED  BY <1>1, <2>1, <2>2, TypedInit DEF RemovedIInv, RemovedStaysRemoved, UnpersistedHasNoRows
<1>2. RemovedIInv /\ [TaskNext]_taskVars => RemovedIInv'
  BY RemovedStep
<1>3. RemovedIInv => RemovedStaysRemoved
  BY DEF RemovedIInv
<1> QED  BY <1>1, <1>2, <1>3, PTL DEF TaskSpec

-----------------------------------------------------------------------------
(* What a step may do to one task: every change of it has one of four      *)
(* causes, and the first two keep its checkpoints and its cursor.          *)

\* It stays, or the daemon merges a projection of it from the save n.
Unchanged(s) == tasks'[s] = tasks[s]

Merges(s, n) ==
  /\ IsTask(tasks[s]) /\ IsTask(n.tasks[s]) /\ n.tasks[s].loaded
  /\ tasks'[s] = Accept(tasks[s], n.tasks[s], n.runtimes[s])

LEMMA OneTaskStep ==
  ASSUME Typed, [TaskNext]_taskVars, NEW s \in Sessions, tasks[s] # NoTask, tasks'[s] # NoTask
  PROVE  \/ Unchanged(s)
         \/ tasks'[s] = Hydrated(s)
         \/ \E n \in BagToSet(saving) : Merges(s, n)
         \/ \E x \in capturing :
              /\ tasks'[s].cursor = Hydrated(s).cursor /\ capturing' = capturing \ {x}
         \/ rewinding[s] # NoRewind /\ rewinding'[s] = NoRewind /\ active'[s] = 0
         \/ ~ tasks'[s].loaded /\ active'[s] = 0
<1> DEFINE Goal == \/ Unchanged(s)
                   \/ tasks'[s] = Hydrated(s)
                   \/ \E n \in BagToSet(saving) : Merges(s, n)
                   \/ \E x \in capturing :
                        /\ tasks'[s].cursor = Hydrated(s).cursor /\ capturing' = capturing \ {x}
                   \/ rewinding[s] # NoRewind /\ rewinding'[s] = NoRewind /\ active'[s] = 0
                   \/ ~ tasks'[s].loaded /\ active'[s] = 0
<1>1. /\ TasksTyped /\ DetailsTyped /\ WorkTyped /\ WireTyped
      /\ DOMAIN tasks = Sessions /\ IsTask(tasks[s])
  BY DEF Typed, TasksTyped, TypedTasks
<1>2. ASSUME UNCHANGED <<storeVars, removed, faults>>  PROVE Goal
  BY <1>2 DEF storeVars, Unchanged
<1>3. ASSUME NEW y \in Sessions, Reads(y)  PROVE Goal
  BY <1>1, <1>3 DEF Reads, Unchanged
<1>4. ASSUME NEW n \in BagToSet(saving), NEW ok \in BOOLEAN, SaveTaskState(n, ok)  PROVE Goal
  <2> DEFINE now == [y \in Sessions |-> IF y \in NotRemoved(n.tasks)
                                         THEN Accept(tasks[y], n.tasks[y], n.runtimes[y]) ELSE tasks[y]]
  <2>1. tasks' = now
    BY <1>4 DEF SaveTaskState, SaveTasks, SaveCommits, SaveFails
  <2>2. CASE s \in NotRemoved(n.tasks)
    <3>1. IsTask(n.tasks[s]) /\ n.tasks[s].loaded
      BY <1>1, <2>2 DEF WireTyped, IsProjections, NotRemoved
    <3> QED  BY <1>1, <2>1, <2>2, <3>1 DEF Merges
  <2>3. CASE s \notin NotRemoved(n.tasks)
    BY <2>1, <2>3 DEF Unchanged
  <2> QED  BY <2>2, <2>3
<1>5. ASSUME NEW y \in Sessions, NEW ok \in BOOLEAN, RemoveSession(y, ok)  PROVE Goal
  <2>1. tasks' = [tasks EXCEPT ![y] = NoTask]
    BY <1>5 DEF RemoveSession, SaveTasks, SaveCommits, SaveFails
  <2> QED  BY <1>1, <2>1 DEF Unchanged
<1>6. ASSUME NEW y \in Sessions, NEW task, NEW ok \in BOOLEAN, Stores(y, task, ok)
      PROVE  tasks' = [tasks EXCEPT ![y] = task] /\ (y # s => Unchanged(s))
  <2>1. tasks' = [tasks EXCEPT ![y] = task]
    BY <1>6 DEF Stores, SaveTasks, SaveCommits, SaveFails
  <2> QED  BY <2>1 DEF Unchanged
<1>7. ASSUME NEW x \in capturing, NEW ok \in BOOLEAN, CaptureEnds(x, ok), x.turn \in DOMAIN Hydrated(x.session).turns,
             Stores(x.session, [Hydrated(x.session) EXCEPT !.turns[x.turn].checkpoint = x.checkpoint], ok)
      PROVE  Goal
  <2> DEFINE task == [Hydrated(x.session) EXCEPT !.turns[x.turn].checkpoint = x.checkpoint]
  <2>1. x.session \in Sessions /\ tasks[x.session] # NoTask
    BY <1>1, <1>7 DEF WorkTyped, IsCapture, Stores
  <2>2. task.cursor = Hydrated(x.session).cursor
    BY <1>1, <1>7, <2>1, CapturedTyped
  <2>3. capturing' = capturing \ {x}
    BY <1>7 DEF CaptureEnds
  <2>4. Stores(x.session, task, ok)
    BY <1>7
  <2> HIDE DEF task
  <2>5. tasks' = [tasks EXCEPT ![x.session] = task] /\ (x.session # s => Unchanged(s))
    BY <1>6, <2>1, <2>4
  <2> QED  BY <1>1, <2>2, <2>3, <2>5
<1>8. ASSUME NEW y \in Sessions, NEW ok \in BOOLEAN, NEW reset, RewindStores(y, ok),
             Stores(y, Truncated(rewinding[y].task, rewinding[y].keep, reset), ok)
      PROVE  Goal
  <2>1. y # s => Unchanged(s)
    BY <1>6, <1>8
  <2>2. /\ rewinding[y] # NoRewind /\ rewinding' = [rewinding EXCEPT ![y] = NoRewind]
        /\ active' = [active EXCEPT ![y] = 0]
    BY <1>8 DEF RewindStores, DriverEnds
  <2>3. s \in DOMAIN rewinding /\ s \in DOMAIN active
    BY <1>1 DEF WorkTyped, Typed, CountersTyped
  <2> QED  BY <2>1, <2>2, <2>3
<1>9. ASSUME Restart  PROVE Goal
  BY <1>9 DEF Restart, LoadTasks, Skeleton
<1> HIDE DEF Goal
<1>10. Goal
  BY <1>1, <1>2, <1>3, <1>4, <1>5, <1>7, <1>8, <1>9, StoreSteps
<1> QED  BY <1>10 DEF Goal

\* Hydrating leaves a task that has turns, or a cursor, as it is.
LEMMA HydratingKeeps ==
  ASSUME Typed, NEW s \in Sessions, tasks[s] # NoTask
  PROVE  /\ tasks[s].cursor # NoCursor => Hydrated(s) = tasks[s]
         /\ \A k : Captured(tasks[s], k) => Hydrated(s) = tasks[s]
<1>1. RowIsBare(tasks[s])
  BY DEF Typed, TasksTyped, TypedTasks
<1>2. DOMAIN << >> = {}
  BY EmptySeq
<1> QED  BY <1>1, <1>2 DEF RowIsBare, Hydrated, Captured

LEMMA CheckpointStep ==
  ASSUME Typed, [TaskNext]_taskVars, NEW s \in Sessions, NEW k,
         tasks[s] # NoTask, tasks'[s] # NoTask,
         Captured(tasks[s], k), tasks'[s].loaded, k \in DOMAIN tasks'[s].turns,
         rewinding'[s] = rewinding[s], capturing' = capturing
  PROVE  tasks'[s].turns[k].checkpoint = tasks[s].turns[k].checkpoint
<1>1. CASE Unchanged(s) \/ tasks'[s] = Hydrated(s)
  BY <1>1, HydratingKeeps DEF Unchanged
<1>2. ASSUME NEW n, Merges(s, n)  PROVE tasks'[s].turns[k].checkpoint = tasks[s].turns[k].checkpoint
  <2>1. CASE Precedes(tasks[s], n.tasks[s], n.runtimes[s])
    BY <1>2, <2>1, MergedTyped DEF Merges, Accept
  <2>2. CASE ~ Precedes(tasks[s], n.tasks[s], n.runtimes[s])
    <3>1. tasks'[s] = PreserveCheckpoints(tasks[s], n.tasks[s])
      BY <1>2, <2>2 DEF Merges, Accept
    <3>2. IsTask(tasks[s]) /\ IsTask(n.tasks[s]) /\ n.tasks[s].loaded
      BY <1>2 DEF Merges
    <3> QED  BY <3>1, <3>2, PreservedTyped
  <2> QED  BY <2>1, <2>2
<1> QED  BY <1>1, <1>2, OneTaskStep

(***************************************************************************)
(* A checkpoint in the daemon's memory survives every projection, whether  *)
(* made before or after it was captured (daemon.rs:1067-1069).             *)
(***************************************************************************)
THEOREM CheckpointsCorrect == TaskSpec => CheckpointKept
<1>1. Typed /\ [TaskNext]_taskVars =>
        [\A s \in Sessions : \A k \in 1..(MaxEdits + 1) :
           /\ tasks[s] # NoTask /\ tasks'[s] # NoTask
           /\ Captured(tasks[s], k) /\ tasks'[s].loaded /\ k \in DOMAIN tasks'[s].turns
           /\ rewinding'[s] = rewinding[s] /\ capturing' = capturing
           => tasks'[s].turns[k].checkpoint = tasks[s].turns[k].checkpoint]_taskVars
  BY CheckpointStep
<1> QED  BY <1>1, TaskInductive, PTL DEF TaskSpec, CheckpointKept

\* The daemon keeps its task, or takes one that is as far in the events of the runtime.
LEMMA AcceptsNoOlder ==
  ASSUME NEW existing, NEW incoming, NEW runtime \in Nat, IsTask(existing), IsTask(incoming), incoming.loaded,
         runtime # 0, existing # NoTask, existing.cursor.runtime = runtime
  PROVE  /\ Accept(existing, incoming, runtime).cursor.runtime = runtime
         /\ Accept(existing, incoming, runtime).cursor.sequence >= existing.cursor.sequence
<1>1. /\ existing.cursor.sequence \in Nat /\ incoming.cursor.sequence \in Nat
      /\ existing.cursor # NoCursor
  BY DEF IsTask, Cursors, NoCursor
<1>2. CASE Precedes(existing, incoming, runtime)
  BY <1>1, <1>2, MergedTyped DEF Accept
<1>3. CASE ~ Precedes(existing, incoming, runtime)
  <2>1. incoming.cursor.runtime = runtime
    BY <1>3 DEF Precedes
  <2>2. incoming.cursor.sequence >= existing.cursor.sequence
    BY <1>1, <1>3, <2>1 DEF Precedes
  <2>3. Accept(existing, incoming, runtime) = PreserveCheckpoints(existing, incoming)
    BY <1>3 DEF Accept
  <2> QED  BY <2>1, <2>2, <2>3, PreservedTyped
<1> QED  BY <1>2, <1>3

LEMMA BehindStep ==
  ASSUME Typed, [TaskNext]_taskVars, NEW s \in Sessions, active[s] # 0, active'[s] = active[s],
         \A n \in BagToSet(saving) : n.runtimes[s] = active[s],
         tasks[s] # NoTask, tasks'[s] # NoTask, tasks[s].cursor.runtime = active[s]
  PROVE  /\ tasks'[s].cursor.runtime = active[s]
         /\ tasks'[s].cursor.sequence >= tasks[s].cursor.sequence
<1>1. active[s] \in Nat /\ IsTask(tasks[s]) /\ tasks[s].cursor.sequence \in Nat
  BY DEF Typed, CountersTyped, TasksTyped, TypedTasks, IsTask, Cursors
<1>2. Hydrated(s) = tasks[s]
  BY HydratingKeeps DEF NoCursor
<1>3. CASE tasks'[s].cursor = tasks[s].cursor
  BY <1>1, <1>3
<1>4. ASSUME NEW n \in BagToSet(saving), Merges(s, n)
      PROVE  /\ tasks'[s].cursor.runtime = active[s]
             /\ tasks'[s].cursor.sequence >= tasks[s].cursor.sequence
  BY <1>1, <1>4, AcceptsNoOlder DEF Merges
<1> QED  BY <1>2, <1>3, <1>4, OneTaskStep DEF Unchanged

(***************************************************************************)
(* The daemon's task never goes back in the events of the runtime that     *)
(* serves it, in whatever order the desktops' projections are carried out  *)
(* (daemon.rs:1013-1038).                                                  *)
(***************************************************************************)
THEOREM ProjectionsCorrect == TaskSpec => NeverFallsBehind
<1>1. Typed /\ [TaskNext]_taskVars =>
        [\A s \in Sessions :
           /\ active[s] # 0 /\ active'[s] = active[s]
           /\ \A n \in BagToSet(saving) : n.runtimes[s] = active[s]
           /\ tasks[s] # NoTask /\ tasks'[s] # NoTask
           /\ tasks[s].cursor.runtime = active[s]
           => /\ tasks'[s].cursor.runtime = active[s]
              /\ tasks'[s].cursor.sequence >= tasks[s].cursor.sequence]_taskVars
  BY BehindStep
<1> QED  BY <1>1, TaskInductive, PTL DEF TaskSpec, NeverFallsBehind

-----------------------------------------------------------------------------
(* Induction without an operator for the property *)

\* A set of numbers that is not empty has a least one.
LEMMA LeastNumber ==
  ASSUME NEW S \in SUBSET Nat, S # {}
  PROVE  \E n \in S : \A m \in S : n <= m
<1>1. ASSUME NEW R, IsWellFoundedOn(R, Nat)
      PROVE  \E n \in S : \A m \in S : ~ (<<m, n>> \in R)
  BY <1>1, WFMin, Zenon
<1>2. \A m, n \in Nat : m < n => <<m, n>> \in OpToRel(<, Nat)
  BY DEF OpToRel
<1>3. ASSUME NEW R, IsWellFoundedOn(R, Nat), \A x, y \in Nat : x < y => <<x, y>> \in R
      PROVE  \E n \in S : \A m \in S : n <= m
  <2>1. PICK n \in S : \A m \in S : ~ (<<m, n>> \in R)
    BY <1>1, <1>3
  <2>2. \A m \in S : ~ (m < n)
    BY <1>3, <2>1
  <2> QED
    BY <2>2
<1> QED
  BY <1>2, <1>3, NatLessThanWellFounded, Zenon

\* Induction over the numbers, for a set of them instead of an operator.
LEMMA Induction ==
  ASSUME NEW S, 0 \in S, \A n \in Nat : n \in S => n + 1 \in S
  PROVE  Nat \subseteq S
<1>1. SUFFICES ASSUME Nat \ S # {} PROVE FALSE
  OBVIOUS
<1>2. PICK n \in Nat \ S : \A m \in Nat \ S : n <= m
  BY <1>1, LeastNumber
<1>3. n - 1 \in Nat /\ n - 1 \in S
  BY <1>2
<1> QED
  BY <1>2, <1>3

\* f goes from base by the steps up to n.
Unfolds(f, S, base, n, step) ==
  f \in [0..n -> S] /\ f[0] = base /\ \A i \in 1..n : f[i] = step[i][f[i - 1]]

\* What is defined by recursion on the numbers up to n exists.
LEMMA Recursion ==
  ASSUME NEW S, NEW base \in S, NEW n \in Nat, NEW step \in [1..n -> [S -> S]]
  PROVE  \E f : Unfolds(f, S, base, n, step)
<1> DEFINE Exists == {k \in Nat : k <= n => \E f : Unfolds(f, S, base, k, step)}
<1>1. 0 \in Exists
  <2> DEFINE f == [i \in 0..0 |-> base]
  <2>1. Unfolds(f, S, base, 0, step)
    BY DEF Unfolds
  <2> QED BY <2>1
<1>2. ASSUME NEW k \in Nat, k \in Exists, k + 1 <= n PROVE k + 1 \in Exists
  <2>1. PICK f : Unfolds(f, S, base, k, step)
    BY <1>2
  <2> DEFINE g == [i \in 0..(k + 1) |-> IF i = k + 1 THEN step[i][f[k]] ELSE f[i]]
  <2>2. f \in [0..k -> S] /\ f[0] = base /\ \A i \in 1..k : f[i] = step[i][f[i - 1]]
    BY <2>1 DEF Unfolds
  <2>3. f[k] \in S /\ k + 1 \in 1..n
    BY <1>2, <2>2
  <2>4. step[k + 1][f[k]] \in S
    BY <2>3
  <2>5. /\ g \in [0..(k + 1) -> S] /\ g[0] = base /\ g[k + 1] = step[k + 1][f[k]]
        /\ \A i \in 0..k : g[i] = f[i]
    BY <2>2, <2>4
  <2> HIDE DEF g
  <2>6. ASSUME NEW i \in 1..(k + 1) PROVE g[i] = step[i][g[i - 1]]
    <3>1. CASE i = k + 1
      BY <2>5, <3>1
    <3>2. CASE i # k + 1
      <4>1. i \in 1..k /\ i \in 0..k /\ i - 1 \in 0..k
        BY <3>2
      <4> QED BY <2>2, <2>5, <4>1
    <3> QED BY <3>1, <3>2
  <2>7. Unfolds(g, S, base, k + 1, step)
    BY <2>5, <2>6 DEF Unfolds
  <2> QED BY <2>7
<1>3. ASSUME NEW k \in Nat, ~(k + 1 <= n) PROVE k + 1 \in Exists
  BY <1>3
<1> HIDE DEF Exists
<1>4. n \in Exists
  BY <1>1, <1>2, <1>3, Induction
<1> QED
  BY <1>4 DEF Exists

-----------------------------------------------------------------------------
(* Sequences that are filtered and put in order *)

\* The elements of q are the ones of s that are in S, in their order: q[i] is s[e[i]].
Picks(e, q, s, S) ==
  /\ \A i \in 1..Len(q) : e[i] \in 1..Len(s) /\ q[i] = s[e[i]] /\ s[e[i]] \in S
  /\ \A i, j \in 1..Len(q) : i < j => e[i] < e[j]
  /\ \A k \in 1..Len(s) : s[k] \in S => \E i \in 1..Len(q) : e[i] = k

\* What Among returns: s without some elements, in the order of s.
LEMMA AmongOrder ==
  ASSUME NEW T, NEW s \in Seq(T), NEW S
  PROVE  Among(s, S) \in Seq(T) /\ \E e : Picks(e, Among(s, S), s, S)
<1> DEFINE n == Len(s)
           after == CHOOSE f : f = [k \in 0..n |-> IF k = 0 THEN << >>
                                   ELSE IF s[k] \in S THEN Append(f[k - 1], s[k]) ELSE f[k - 1]]
           step == [k \in 1..n |-> [q \in Seq(T) |-> IF s[k] \in S THEN Append(q, s[k]) ELSE q]]
<1>0. n \in Nat /\ \A k \in 1..n : s[k] \in T
  BY LenProperties, ElementOfSeq
<1>1. Among(s, S) = after[n]
  BY DEF Among
<1>2. step \in [1..n -> [Seq(T) -> Seq(T)]]
  BY <1>0, AppendProperties
<1>3. << >> \in Seq(T) /\ Len(<< >>) = 0
  BY EmptySeq
<1> HIDE DEF step
<1>4. PICK f : Unfolds(f, Seq(T), << >>, n, step)
  BY <1>0, <1>2, <1>3, Recursion
<1>5. f = [k \in 0..n |-> IF k = 0 THEN << >>
                         ELSE IF s[k] \in S THEN Append(f[k - 1], s[k]) ELSE f[k - 1]]
  <2>1. f \in [0..n -> Seq(T)] /\ f[0] = << >> /\ \A k \in 1..n : f[k] = step[k][f[k - 1]]
    BY <1>4 DEF Unfolds
  <2>2. ASSUME NEW k \in 1..n
        PROVE  f[k] = IF s[k] \in S THEN Append(f[k - 1], s[k]) ELSE f[k - 1]
    <3>1. k - 1 \in 0..n
      BY <1>0
    <3>2. f[k - 1] \in Seq(T)
      BY <2>1, <3>1
    <3> QED BY <2>1, <3>2 DEF step
  <2>3. ASSUME NEW k \in 0..n
        PROVE  f[k] = IF k = 0 THEN << >> ELSE IF s[k] \in S THEN Append(f[k - 1], s[k]) ELSE f[k - 1]
    <3>1. CASE k = 0
      BY <2>1, <3>1
    <3>2. CASE k # 0
      <4>1. k \in 1..n
        BY <1>0, <3>2
      <4> QED BY <2>2, <3>2, <4>1
    <3> QED BY <3>1, <3>2
  <2> QED BY <2>1, <2>3
<1>6. after = [k \in 0..n |-> IF k = 0 THEN << >>
                             ELSE IF s[k] \in S THEN Append(after[k - 1], s[k]) ELSE after[k - 1]]
  BY <1>5
<1> HIDE DEF after, n
<1>7a. ASSUME NEW k \in 0..n  PROVE after[k] = IF k = 0 THEN << >>
                             ELSE IF s[k] \in S THEN Append(after[k - 1], s[k]) ELSE after[k - 1]
  BY ONLY <1>6, <1>7a
<1>7. /\ after[0] = << >>
      /\ \A k \in 1..n : after[k] = IF s[k] \in S THEN Append(after[k - 1], s[k]) ELSE after[k - 1]
  BY <1>0, <1>7a
<1> DEFINE Embeds(q, k) ==
             /\ q \in Seq(T)
             /\ \E e \in [1..Len(q) -> 1..k] :
                  /\ \A i, j \in 1..Len(q) : i < j => e[i] < e[j]
                  /\ \A i \in 1..Len(q) : q[i] = s[e[i]] /\ s[e[i]] \in S
                  /\ \A m \in 1..k : s[m] \in S => \E i \in 1..Len(q) : e[i] = m
           Reached == {k \in Nat : k <= n => Embeds(after[k], k)}
<1> HIDE DEF Reached, Embeds
<1>8. 0 \in Reached
  <2> DEFINE q == after[0]
             e == [i \in 1..0 |-> i]
  <2>1. q \in Seq(T) /\ Len(q) = 0
    BY <1>3, <1>7
  <2>2. e \in [1..Len(q) -> 1..0]
    BY <2>1
  <2> HIDE DEF e, q
  <2>3. /\ \A i, j \in 1..Len(q) : i < j => e[i] < e[j]
        /\ \A i \in 1..Len(q) : q[i] = s[e[i]] /\ s[e[i]] \in S
        /\ \A m \in 1..0 : s[m] \in S => \E i \in 1..Len(q) : e[i] = m
    BY <2>1
  <2>4. Embeds(q, 0)
    BY <2>1, <2>2, <2>3 DEF Embeds
  <2> QED BY <2>4 DEF q, Reached
<1>9. ASSUME NEW k \in Nat, k \in Reached, k + 1 <= n  PROVE k + 1 \in Reached
  <2> DEFINE q == after[k]
  <2>1. k + 1 \in 1..n /\ (k + 1) - 1 = k /\ Embeds(q, k) /\ s[k + 1] \in T
    <3>1. k + 1 \in 1..n /\ (k + 1) - 1 = k /\ k <= n
      BY <1>0, <1>9
    <3>2. Embeds(q, k)
      BY <1>9, <3>1 DEF Reached
    <3> QED BY <1>0, <3>1, <3>2
  <2>2. /\ q \in Seq(T) /\ Len(q) \in Nat
    BY <2>1, LenProperties DEF Embeds
  <2>3. PICK e \in [1..Len(q) -> 1..k] :
          /\ \A i, j \in 1..Len(q) : i < j => e[i] < e[j]
          /\ \A i \in 1..Len(q) : q[i] = s[e[i]] /\ s[e[i]] \in S
          /\ \A m \in 1..k : s[m] \in S => \E i \in 1..Len(q) : e[i] = m
    BY <2>1 DEF Embeds
  <2>4. CASE s[k + 1] \in S
    <3> DEFINE r == Append(q, s[k + 1])
               d == [i \in 1..(Len(q) + 1) |-> IF i = Len(q) + 1 THEN k + 1 ELSE e[i]]
    <3>1. after[k + 1] = r
      BY <1>7, <2>1, <2>4
    <3>2. /\ r \in Seq(T) /\ Len(r) = Len(q) + 1 /\ r[Len(q) + 1] = s[k + 1]
          /\ \A i \in 1..Len(q) : r[i] = q[i]
      BY <2>1, <2>2, AppendProperties
    <3>3. \A i \in 1..Len(q) : e[i] \in 1..k
      BY <2>3
    <3>4. d \in [1..Len(r) -> 1..(k + 1)]
      <4>1. \A i \in 1..(Len(q) + 1) : i # Len(q) + 1 => e[i] \in 1..(k + 1)
        BY <2>2, <3>3
      <4> QED BY <2>2, <3>2, <4>1
    <3>5. \A i \in 1..Len(q) : d[i] = e[i]
      BY <2>2
    <3>6. d[Len(q) + 1] = k + 1
      BY <2>2
    <3> HIDE DEF d, r
    <3>7. \A i, j \in 1..Len(r) : i < j => d[i] < d[j]
      <4>1. ASSUME NEW i \in 1..Len(r), NEW j \in 1..Len(r), i < j  PROVE d[i] < d[j]
        <5>1. i \in 1..Len(q) /\ d[i] = e[i] /\ e[i] \in 1..k
          BY <2>2, <3>2, <3>3, <3>5, <4>1
        <5>2. CASE j = Len(q) + 1
          BY <3>6, <5>1, <5>2
        <5>3. CASE j # Len(q) + 1
          <6>1. j \in 1..Len(q) /\ d[j] = e[j]
            BY <2>2, <3>2, <3>5, <5>3
          <6> QED BY <2>3, <4>1, <5>1, <6>1
        <5> QED BY <5>2, <5>3
      <4> QED BY <4>1
    <3>8. \A i \in 1..Len(r) : r[i] = s[d[i]] /\ s[d[i]] \in S
      <4>1. ASSUME NEW i \in 1..Len(r)  PROVE r[i] = s[d[i]] /\ s[d[i]] \in S
        <5>1. CASE i = Len(q) + 1
          BY <2>4, <3>2, <3>6, <5>1
        <5>2. CASE i # Len(q) + 1
          <6>1. i \in 1..Len(q) /\ d[i] = e[i] /\ r[i] = q[i]
            BY <2>2, <3>2, <3>5, <5>2
          <6> QED BY <2>3, <6>1
        <5> QED BY <5>1, <5>2
      <4> QED BY <4>1
    <3>9. \A m \in 1..(k + 1) : s[m] \in S => \E i \in 1..Len(r) : d[i] = m
      <4>1. ASSUME NEW m \in 1..(k + 1), s[m] \in S  PROVE \E i \in 1..Len(r) : d[i] = m
        <5>1. CASE m = k + 1
          BY <2>2, <3>2, <3>6, <5>1
        <5>2. CASE m # k + 1
          <6>1. PICK i \in 1..Len(q) : e[i] = m
            BY <2>3, <4>1, <5>2
          <6> QED BY <2>2, <3>2, <3>5, <6>1
        <5> QED BY <5>1, <5>2
      <4> QED BY <4>1
    <3>10. Embeds(r, k + 1)
      BY <3>2, <3>4, <3>7, <3>8, <3>9 DEF Embeds
    <3> QED BY <3>1, <3>10 DEF Reached
  <2>5. CASE s[k + 1] \notin S
    <3>1. after[k + 1] = q
      BY <1>7, <2>1, <2>5
    <3>2. e \in [1..Len(q) -> 1..(k + 1)]
      BY <2>3
    <3>3. \A m \in 1..(k + 1) : s[m] \in S => \E i \in 1..Len(q) : e[i] = m
      BY <2>3, <2>5
    <3>4. Embeds(q, k + 1)
      BY <2>2, <2>3, <3>2, <3>3 DEF Embeds
    <3> QED BY <3>1, <3>4 DEF Reached
  <2> QED BY <2>4, <2>5
<1>10. ASSUME NEW k \in Nat, ~(k + 1 <= n)  PROVE k + 1 \in Reached
  BY <1>10 DEF Reached
<1>11. n \in Reached
  BY <1>0, <1>8, <1>9, <1>10, Induction
<1>12. Embeds(after[n], n)
  BY <1>0, <1>11 DEF Reached
<1>13. PICK e \in [1..Len(after[n]) -> 1..n] :
          /\ \A i, j \in 1..Len(after[n]) : i < j => e[i] < e[j]
          /\ \A i \in 1..Len(after[n]) : after[n][i] = s[e[i]] /\ s[e[i]] \in S
          /\ \A m \in 1..n : s[m] \in S => \E i \in 1..Len(after[n]) : e[i] = m
  BY <1>12 DEF Embeds
<1>14. \A i \in 1..Len(after[n]) : e[i] \in 1..n
  BY <1>13
<1>15. Picks(e, after[n], s, S)
  BY <1>13, <1>14 DEF n, Picks
<1> QED BY <1>1, <1>12, <1>15 DEF Embeds

\* Among, without the positions: it has the elements of s that are in S.
LEMMA AmongElements ==
  ASSUME NEW T, NEW s \in Seq(T), NEW S
  PROVE  /\ Among(s, S) \in Seq(T) /\ Len(Among(s, S)) \in Nat
         /\ \A i \in 1..Len(Among(s, S)) :
              Among(s, S)[i] \in S /\ \E k \in 1..Len(s) : Among(s, S)[i] = s[k]
         /\ \A k \in 1..Len(s) : s[k] \in S => \E i \in 1..Len(Among(s, S)) : Among(s, S)[i] = s[k]
<1>1. PICK e : Picks(e, Among(s, S), s, S)
  BY AmongOrder
<1>2. Among(s, S) \in Seq(T) /\ Len(Among(s, S)) \in Nat
  BY AmongOrder, LenProperties
<1> QED BY <1>1, <1>2 DEF Picks

\* The first L values of pos grow, and are the numbers up to n.
Grows(pos, L, n) ==
  /\ \A i \in 1..L : pos[i] \in 1..n
  /\ \A i, j \in 1..L : i < j => pos[i] < pos[j]
  /\ \A p \in 1..n : \E i \in 1..L : pos[i] = p

\* Then they count them.
LEMMA GrowingOnto ==
  ASSUME NEW L \in Nat, NEW n \in Nat, NEW pos, Grows(pos, L, n)
  PROVE  L = n /\ \A i \in 1..L : pos[i] = i
<1> USE DEF Grows
<1> DEFINE Counted == {k \in Nat : \A i \in 1..L : i <= k => pos[i] = i}
<1>1. 0 \in Counted
  OBVIOUS
<1>2. ASSUME NEW k \in Nat, k \in Counted  PROVE k + 1 \in Counted
  <2>1. CASE k + 1 \in 1..L
    <3>1. pos[k + 1] \in 1..n
      BY <2>1
    <3>2. k # 0 => pos[k] = k /\ pos[k] < pos[k + 1]
      BY <1>2, <2>1
    <3>3. pos[k + 1] >= k + 1
      BY <3>1, <3>2
    <3>4. CASE pos[k + 1] > k + 1
      <4>1. k + 1 \in 1..n
        BY <3>1, <3>4
      <4>2. PICK j \in 1..L : pos[j] = k + 1
        BY <4>1
      <4>3. CASE j <= k
        BY <1>2, <4>2, <4>3
      <4>4. CASE j = k + 1
        BY <3>4, <4>2, <4>4
      <4>5. CASE j > k + 1
        <5>1. pos[k + 1] < pos[j]
          BY <2>1, <4>5
        <5> QED BY <3>1, <3>4, <4>2, <5>1
      <4> QED BY <4>3, <4>4, <4>5
    <3>5. pos[k + 1] = k + 1
      BY <3>1, <3>3, <3>4
    <3>6. \A i \in 1..L : i <= k + 1 => pos[i] = i
      BY <1>2, <3>5
    <3> QED BY <3>6
  <2>2. CASE k + 1 \notin 1..L
    <3>1. \A i \in 1..L : i <= k + 1 => pos[i] = i
      BY <1>2, <2>2
    <3> QED BY <3>1
  <2> QED BY <2>1, <2>2
<1> HIDE DEF Counted
<1>3. L \in Counted
  BY <1>1, <1>2, Induction
<1>4. \A i \in 1..L : pos[i] = i
  BY <1>3 DEF Counted
<1>5. n <= L
  <2>1. CASE n = 0
    BY <2>1
  <2>2. CASE n # 0
    <3>1. n \in 1..n
      BY <2>2
    <3>2. PICK i \in 1..L : pos[i] = n
      BY <3>1
    <3> QED BY <1>4, <3>2
  <2> QED BY <2>1, <2>2
<1>6. L <= n
  <2>1. CASE L = 0
    BY <2>1
  <2>2. CASE L # 0
    <3>1. L \in 1..L
      BY <2>2
    <3>2. pos[L] \in 1..n /\ pos[L] = L
      BY <1>4, <3>1
    <3> QED BY <3>2
  <2> QED BY <2>1, <2>2
<1> QED BY <1>4, <1>5, <1>6

\* No two rows are of one message.
DistinctIds(rows) == \A i, j \in DOMAIN rows : rows[i].id = rows[j].id => i = j

\* A part of some rows has no message twice either.
LEMMA AmongDistinct ==
  ASSUME NEW T, NEW rows \in Seq(T), NEW S, DistinctIds(rows)
  PROVE  DistinctIds(Among(rows, S))
<1>1. PICK e : Picks(e, Among(rows, S), rows, S)
  BY AmongOrder
<1>2. /\ DOMAIN Among(rows, S) = 1..Len(Among(rows, S)) /\ Len(Among(rows, S)) \in Nat
      /\ DOMAIN rows = 1..Len(rows) /\ Len(rows) \in Nat
  BY AmongElements, LenProperties
<1>3. ASSUME NEW i \in 1..Len(Among(rows, S)), NEW j \in 1..Len(Among(rows, S)),
             Among(rows, S)[i].id = Among(rows, S)[j].id
      PROVE  i = j
  <2>1. e[i] \in 1..Len(rows) /\ e[j] \in 1..Len(rows)
    BY <1>1 DEF Picks
  <2>2. e[i] = e[j]
    BY <1>1, <1>2, <1>3, <2>1 DEF DistinctIds, Picks
  <2> QED BY <1>1, <1>2, <2>1, <2>2 DEF Picks
<1> QED BY <1>2, <1>3 DEF DistinctIds

\* The rows o are those of `rows` with positions up to k, by position.
Sorts(o, rows, k) ==
  /\ \A i \in 1..Len(o) : o[i].position <= k /\ \E r \in 1..Len(rows) : o[i] = rows[r]
  /\ \A i, j \in 1..Len(o) : i < j => o[i].position <= o[j].position
  /\ \A r \in 1..Len(rows) : rows[r].position \in 1..k => \E i \in 1..Len(o) : o[i] = rows[r]
  /\ DistinctIds(rows) => DistinctIds(o)

\* The rows of the next position come last.
LEMMA SortsOneMore ==
  ASSUME NEW T, NEW rows \in Seq([id : T, position : Nat]), NEW o \in Seq([id : T, position : Nat]),
         NEW k \in Nat, Sorts(o, rows, k), NEW more \in Seq([id : T, position : Nat]),
         \A i \in 1..Len(more) : more[i].position = k + 1 /\ \E r \in 1..Len(rows) : more[i] = rows[r],
         \A r \in 1..Len(rows) : rows[r].position = k + 1 => \E i \in 1..Len(more) : more[i] = rows[r],
         DistinctIds(rows) => DistinctIds(more)
  PROVE  o \o more \in Seq([id : T, position : Nat]) /\ Sorts(o \o more, rows, k + 1)
<1> DEFINE both == o \o more
<1>1. /\ Len(o) \in Nat /\ Len(more) \in Nat /\ Len(rows) \in Nat
      /\ DOMAIN o = 1..Len(o) /\ DOMAIN more = 1..Len(more) /\ DOMAIN rows = 1..Len(rows)
      /\ \A i \in 1..Len(o) : o[i].position \in Nat
      /\ \A r \in 1..Len(rows) : rows[r].position \in Nat
  <2>1. \A i \in 1..Len(o) : o[i] \in [id : T, position : Nat]
    BY ElementOfSeq
  <2>2. \A r \in 1..Len(rows) : rows[r] \in [id : T, position : Nat]
    BY ElementOfSeq
  <2>3. \A i \in 1..Len(o) : o[i].position \in Nat
    BY <2>1
  <2>4. \A r \in 1..Len(rows) : rows[r].position \in Nat
    BY <2>2
  <2> QED BY <2>3, <2>4, LenProperties
<1>2. /\ both \in Seq([id : T, position : Nat]) /\ Len(both) = Len(o) + Len(more)
      /\ \A i \in 1..(Len(o) + Len(more)) : both[i] = IF i <= Len(o) THEN o[i] ELSE more[i - Len(o)]
  BY ConcatProperties
<1> HIDE DEF both
<1>a. DOMAIN both = 1..Len(both)
  BY <1>2, LenProperties
<1>3. ASSUME NEW i \in 1..Len(both)
      PROVE  \/ i \in 1..Len(o) /\ both[i] = o[i] /\ both[i].position <= k
             \/ i - Len(o) \in 1..Len(more) /\ both[i] = more[i - Len(o)] /\ both[i].position = k + 1 /\ i > Len(o)
  <2>1. CASE i <= Len(o)
    <3>1. i \in 1..Len(o) /\ both[i] = o[i]
      BY <1>1, <1>2, <2>1
    <3> QED BY <3>1 DEF Sorts
  <2>2. CASE i > Len(o)
    <3>1. i - Len(o) \in 1..Len(more) /\ both[i] = more[i - Len(o)]
      BY <1>1, <1>2, <2>2
    <3> QED BY <2>2, <3>1
  <2> QED BY <1>1, <1>2, <2>1, <2>2
<1>4. \A i \in 1..Len(both) : both[i].position <= k + 1 /\ \E r \in 1..Len(rows) : both[i] = rows[r]
  <2>1. ASSUME NEW i \in 1..Len(both)
        PROVE  both[i].position <= k + 1 /\ \E r \in 1..Len(rows) : both[i] = rows[r]
    <3>1. CASE i \in 1..Len(o) /\ both[i] = o[i] /\ both[i].position <= k
      <4>1. both[i].position \in Nat
        BY <1>1, <3>1
      <4> QED BY <3>1, <4>1 DEF Sorts
    <3>2. CASE i - Len(o) \in 1..Len(more) /\ both[i] = more[i - Len(o)] /\ both[i].position = k + 1
      <4>1. \E r \in 1..Len(rows) : more[i - Len(o)] = rows[r]
        BY <3>2
      <4>2. k + 1 <= k + 1
        OBVIOUS
      <4> QED BY <3>2, <4>1, <4>2
    <3> QED BY <1>3, <3>1, <3>2
  <2> QED BY <2>1
<1>5. \A i, j \in 1..Len(both) : i < j => both[i].position <= both[j].position
  <2>1. ASSUME NEW i \in 1..Len(both), NEW j \in 1..Len(both), i < j
        PROVE  both[i].position <= both[j].position
    <3>1. CASE j \in 1..Len(o) /\ both[j] = o[j]
      <4>1. i \in 1..Len(o) /\ both[i] = o[i]
        BY <1>1, <1>2, <2>1, <3>1
      <4> QED BY <2>1, <3>1, <4>1 DEF Sorts
    <3>2. CASE both[j].position = k + 1
      <4>1. both[i].position <= k + 1
        BY <1>4
      <4> QED BY <3>2, <4>1
    <3> QED BY <1>3, <3>1, <3>2
  <2> QED BY <2>1
<1>6. \A r \in 1..Len(rows) : rows[r].position \in 1..(k + 1) => \E i \in 1..Len(both) : both[i] = rows[r]
  <2>1. ASSUME NEW r \in 1..Len(rows), rows[r].position \in 1..(k + 1)
        PROVE  \E i \in 1..Len(both) : both[i] = rows[r]
    <3>1. CASE rows[r].position \in 1..k
      <4>1. PICK i \in 1..Len(o) : o[i] = rows[r]
        BY <3>1 DEF Sorts
      <4>2. i \in 1..Len(both) /\ both[i] = o[i]
        BY <1>1, <1>2
      <4> QED BY <4>1, <4>2
    <3>2. CASE rows[r].position = k + 1
      <4>1. PICK i \in 1..Len(more) : more[i] = rows[r]
        BY <3>2
      <4>2. Len(o) + i \in 1..(Len(o) + Len(more)) /\ ~ (Len(o) + i <= Len(o)) /\ (Len(o) + i) - Len(o) = i
        BY <1>1
      <4>3. both[Len(o) + i] = more[i] /\ Len(o) + i \in 1..Len(both)
        BY <1>2, <4>2
      <4> QED BY <4>1, <4>3
    <3> QED BY <2>1, <3>1, <3>2
  <2> QED BY <2>1
<1>7. ASSUME DistinctIds(rows)  PROVE DistinctIds(both)
  <2>0. /\ \A i, j \in 1..Len(o) : o[i].id = o[j].id => i = j
        /\ \A i, j \in 1..Len(more) : more[i].id = more[j].id => i = j
    BY <1>1, <1>7 DEF Sorts, DistinctIds
  <2>1. ASSUME NEW i \in 1..Len(both), NEW j \in 1..Len(both), i < j  PROVE both[i].id # both[j].id
    <3>1. CASE both[i] = both[j]
      <4>1. \/ i \in 1..Len(o) /\ j \in 1..Len(o) /\ both[i] = o[i] /\ both[j] = o[j]
            \/ /\ i - Len(o) \in 1..Len(more) /\ j - Len(o) \in 1..Len(more)
               /\ both[i] = more[i - Len(o)] /\ both[j] = more[j - Len(o)]
        <5>1. ~ (both[i].position <= k /\ both[j].position = k + 1)
              /\ ~ (both[j].position <= k /\ both[i].position = k + 1)
          BY <3>1
        <5> QED BY <1>3, <5>1
      <4>2. CASE i \in 1..Len(o) /\ j \in 1..Len(o) /\ both[i] = o[i] /\ both[j] = o[j]
        <5>1. o[i].id = o[j].id => i = j
          BY <2>0, <4>2
        <5>2. i # j
          BY <2>1
        <5>3. o[i] = o[j]
          BY <3>1, <4>2
        <5> QED BY <5>1, <5>2, <5>3
      <4>3. CASE /\ i - Len(o) \in 1..Len(more) /\ j - Len(o) \in 1..Len(more)
                 /\ both[i] = more[i - Len(o)] /\ both[j] = more[j - Len(o)]
        <5>1. i - Len(o) = j - Len(o)
          BY <2>0, <3>1, <4>3
        <5> QED BY <1>1, <2>1, <5>1
      <4> QED BY <4>1, <4>2, <4>3
    <3>2. CASE both[i] # both[j]
      <4>1. PICK r, t \in 1..Len(rows) : both[i] = rows[r] /\ both[j] = rows[t]
        BY <1>4
      <4>2. r # t
        BY <3>2, <4>1
      <4> QED BY <1>1, <1>7, <4>1, <4>2 DEF DistinctIds
    <3> QED BY <3>1, <3>2
  <2>2. ASSUME NEW i \in 1..Len(both), NEW j \in 1..Len(both), both[i].id = both[j].id  PROVE i = j
    <3>1. ~ (i < j) /\ ~ (j < i)
      BY <2>1, <2>2
    <3> QED BY <1>1, <1>2, <3>1
  <2> QED BY <1>a, <2>2 DEF DistinctIds
<1>8. Sorts(both, rows, k + 1)
  BY <1>4, <1>5, <1>6, <1>7 DEF Sorts
<1> QED BY <1>2, <1>8 DEF both

\* q is the messages of the rows o.
MessagesOf(q, o) == q = [i \in 1..Len(o) |-> o[i].id]

\* What InOrder returns: the messages of the rows with positions 1 to Len(rows), by position.
LEMMA InOrderSorts ==
  ASSUME NEW T, NEW rows \in Seq([id : T, position : Nat])
  PROVE  \E o \in Seq([id : T, position : Nat]) :
           Sorts(o, rows, Len(rows)) /\ MessagesOf(InOrder(rows), o)
<1> DEFINE n == Len(rows)
           R == [id : T, position : Nat]
           at(p) == {row \in Range(rows) : row.position = p}
           upTo == CHOOSE f : f = [p \in 0..n |-> IF p = 0 THEN << >> ELSE f[p - 1] \o Among(rows, at(p))]
           step == [p \in 1..n |-> [q \in Seq(R) |-> q \o Among(rows, at(p))]]
<1>0. /\ n \in Nat /\ DOMAIN rows = 1..n /\ \A r \in 1..n : rows[r] \in R
      /\ << >> \in Seq(R) /\ Len(<< >>) = 0
  BY LenProperties, ElementOfSeq, EmptySeq
<1>1. InOrder(rows) = [i \in DOMAIN upTo[n] |-> upTo[n][i].id]
  BY DEF InOrder
<1>2. step \in [1..n -> [Seq(R) -> Seq(R)]]
  <2>1. \A p \in 1..n : Among(rows, at(p)) \in Seq(R)
    BY AmongElements
  <2>2. \A p \in 1..n : \A q \in Seq(R) : q \o Among(rows, at(p)) \in Seq(R)
    BY <2>1, ConcatProperties
  <2> QED BY <2>2
<1> HIDE DEF step
<1>4. PICK f : Unfolds(f, Seq(R), << >>, n, step)
  BY <1>0, <1>2, Recursion
<1>5. f = [p \in 0..n |-> IF p = 0 THEN << >> ELSE f[p - 1] \o Among(rows, at(p))]
  <2>1. f \in [0..n -> Seq(R)] /\ f[0] = << >> /\ \A p \in 1..n : f[p] = step[p][f[p - 1]]
    BY <1>4 DEF Unfolds
  <2>2. ASSUME NEW p \in 1..n  PROVE f[p] = f[p - 1] \o Among(rows, at(p))
    <3>1. p - 1 \in 0..n
      BY <1>0
    <3>2. f[p - 1] \in Seq(R)
      BY <2>1, <3>1
    <3> QED BY <2>1, <3>2 DEF step
  <2>3. ASSUME NEW p \in 0..n  PROVE f[p] = IF p = 0 THEN << >> ELSE f[p - 1] \o Among(rows, at(p))
    <3>1. CASE p = 0
      BY <2>1, <3>1
    <3>2. CASE p # 0
      <4>1. p \in 1..n
        BY <1>0, <3>2
      <4> QED BY <2>2, <3>2, <4>1
    <3> QED BY <3>1, <3>2
  <2> QED BY <2>1, <2>3
<1>6. upTo = [p \in 0..n |-> IF p = 0 THEN << >> ELSE upTo[p - 1] \o Among(rows, at(p))]
  BY <1>5
<1> HIDE DEF upTo, n
<1>7. ASSUME NEW p \in 0..n  PROVE upTo[p] = IF p = 0 THEN << >> ELSE upTo[p - 1] \o Among(rows, at(p))
  BY ONLY <1>6, <1>7
<1>8. upTo[0] = << >> /\ \A p \in 1..n : upTo[p] = upTo[p - 1] \o Among(rows, at(p))
  <2>1. 0 \in 0..n /\ \A p \in 1..n : p \in 0..n /\ p # 0
    BY <1>0
  <2> HIDE DEF at
  <2> QED BY <1>7, <2>1
<1> DEFINE Done(k) == upTo[k] \in Seq(R) /\ Sorts(upTo[k], rows, k)
           Reached == {k \in Nat : k <= n => Done(k)}
<1> HIDE DEF Done
<1>9. 0 \in Reached
  <2>1. Sorts(<< >>, rows, 0)
    BY <1>0 DEF Sorts, DistinctIds
  <2>2. Done(0)
    BY <1>0, <1>8, <2>1 DEF Done
  <2> QED BY <2>2
<1>10. ASSUME NEW k \in Nat, k \in Reached, k + 1 <= n  PROVE k + 1 \in Reached
  <2> DEFINE o == upTo[k]
             more == Among(rows, at(k + 1))
  <2>1. o \in Seq(R) /\ Sorts(o, rows, k) /\ k + 1 \in 1..n /\ (k + 1) - 1 = k
    <3>1. k <= n /\ Done(k)
      BY <1>0, <1>10
    <3> QED BY <1>0, <1>10, <3>1 DEF Done
  <2>2. /\ more \in Seq(R)
        /\ \A i \in 1..Len(more) : more[i] \in at(k + 1) /\ \E r \in 1..n : more[i] = rows[r]
        /\ \A r \in 1..n : rows[r] \in at(k + 1) => \E i \in 1..Len(more) : more[i] = rows[r]
    <3> HIDE DEF at
    <3> QED BY AmongElements DEF n
  <2>3. \A r \in 1..n : rows[r].position = k + 1 => rows[r] \in at(k + 1)
    BY <1>0 DEF Range
  <2>4. DistinctIds(rows) => DistinctIds(more)
    BY AmongDistinct
  <2>5. upTo[k + 1] = o \o more
    BY <1>8, <2>1
  <2>6. /\ \A i \in 1..Len(more) : more[i].position = k + 1 /\ \E r \in 1..Len(rows) : more[i] = rows[r]
        /\ \A r \in 1..Len(rows) : rows[r].position = k + 1 => \E i \in 1..Len(more) : more[i] = rows[r]
    BY <2>2, <2>3 DEF n
  <2> HIDE DEF o, more, Reached
  <2>7. o \o more \in Seq(R) /\ Sorts(o \o more, rows, k + 1)
    BY <2>1, <2>2, <2>4, <2>6, SortsOneMore
  <2>8. Done(k + 1)
    BY <2>5, <2>7 DEF Done
  <2> QED BY <2>8 DEF Reached
<1>11. ASSUME NEW k \in Nat, ~(k + 1 <= n)  PROVE k + 1 \in Reached
  BY <1>11
<1> HIDE DEF Reached
<1>12. n \in Reached
  BY <1>0, <1>9, <1>10, <1>11, Induction
<1>13. upTo[n] \in Seq(R) /\ Sorts(upTo[n], rows, n)
  BY <1>0, <1>12 DEF Reached, Done
<1>14. DOMAIN upTo[n] = 1..Len(upTo[n])
  BY <1>13, LenProperties
<1> QED BY <1>1, <1>13, <1>14 DEF n, MessagesOf

\* Nothing is left out when all is kept.
LEMMA AmongAll ==
  ASSUME NEW T, NEW s \in Seq(T)
  PROVE  Among(s, Range(s)) = s
<1> DEFINE a == Among(s, Range(s))
<1>1. PICK e : Picks(e, a, s, Range(s))
  BY AmongOrder
<1>2. a \in Seq(T) /\ Len(a) \in Nat /\ Len(s) \in Nat /\ DOMAIN s = 1..Len(s)
  BY AmongElements, LenProperties
<1> HIDE DEF a
<1>3. \A k \in 1..Len(s) : \E i \in 1..Len(a) : e[i] = k
  BY <1>1, <1>2 DEF Range, Picks
<1>4. Len(a) = Len(s) /\ \A i \in 1..Len(a) : e[i] = i
  <2>1. Grows(e, Len(a), Len(s))
    BY <1>1, <1>3 DEF Picks, Grows
  <2> QED BY <1>2, <2>1, GrowingOnto
<1>5. \A i \in 1..Len(a) : a[i] = s[i]
  BY <1>1, <1>4 DEF Picks
<1>6. a = s
  BY <1>2, <1>4, <1>5, SeqEqual
<1> QED BY <1>6 DEF a

Injective(f) == \A x, y \in DOMAIN f : f[x] = f[y] => x = y

\* The messages a task is hydrated with.
LEMMA InOrderMessages ==
  ASSUME NEW T, NEW rows \in Seq([id : T, position : Nat]), DistinctIds(rows)
  PROVE  /\ InOrder(rows) \in Seq(T) /\ Injective(InOrder(rows))
         /\ \A i \in DOMAIN InOrder(rows) : \E r \in DOMAIN rows : InOrder(rows)[i] = rows[r].id
<1>1. PICK o \in Seq([id : T, position : Nat]) :
           Sorts(o, rows, Len(rows)) /\ MessagesOf(InOrder(rows), o)
  BY InOrderSorts
<1> DEFINE q == InOrder(rows)
<1>2. /\ Len(o) \in Nat /\ DOMAIN o = 1..Len(o) /\ DOMAIN rows = 1..Len(rows)
      /\ \A i \in 1..Len(o) : o[i] \in [id : T, position : Nat]
  BY LenProperties, ElementOfSeq
<1>3. DOMAIN q = 1..Len(o) /\ \A i \in 1..Len(o) : q[i] = o[i].id /\ q[i] \in T
  BY <1>1, <1>2 DEF MessagesOf
<1>4. q \in [1..Len(o) -> T]
  BY <1>1, <1>3 DEF MessagesOf
<1>5. q \in Seq(T)
  BY <1>2, <1>4, SeqDef
<1>6. Injective(q)
  BY <1>1, <1>2, <1>3 DEF Sorts, DistinctIds, Injective
<1>7. \A i \in DOMAIN q : \E r \in DOMAIN rows : q[i] = rows[r].id
  BY <1>1, <1>2, <1>3 DEF Sorts
<1> QED BY <1>5, <1>6, <1>7

\* A transcript whose messages all have their rows is read in its order, whatever else is in the table.
LEMMA TranscriptRecovered ==
  ASSUME NEW T, NEW rows \in Seq([id : T, position : Nat]), DistinctIds(rows),
         NEW messages \in Seq(T), Injective(messages),
         \A p \in DOMAIN messages : \E r \in DOMAIN rows : rows[r] = [id |-> messages[p], position |-> p]
  PROVE  Among(InOrder(rows), Range(messages)) = messages
<1> DEFINE n == Len(messages)
           q == InOrder(rows)
           a == Among(q, Range(messages))
<1>1. PICK o \in Seq([id : T, position : Nat]) :
           Sorts(o, rows, Len(rows)) /\ MessagesOf(q, o)
  BY InOrderSorts
<1>2. /\ Len(o) \in Nat /\ DOMAIN o = 1..Len(o) /\ Len(rows) \in Nat /\ DOMAIN rows = 1..Len(rows)
      /\ n \in Nat /\ DOMAIN messages = 1..n
  BY LenProperties
<1>3. q \in Seq(T) /\ Injective(q)
  BY InOrderMessages
<1>4. DOMAIN q = 1..Len(o) /\ Len(q) = Len(o) /\ \A i \in 1..Len(o) : q[i] = o[i].id
  BY <1>1, <1>2, <1>3, LenProperties DEF MessagesOf
<1>5. PICK e : Picks(e, a, q, Range(messages))
  BY <1>3, AmongOrder
<1>6. a \in Seq(T) /\ Len(a) \in Nat
  BY <1>3, AmongElements
<1>7. n <= Len(rows)
  <2> DEFINE at == [p \in 1..n |-> CHOOSE r \in 1..Len(rows) : rows[r] = [id |-> messages[p], position |-> p]]
  <2>1. \A p \in 1..n : at[p] \in 1..Len(rows) /\ rows[at[p]] = [id |-> messages[p], position |-> p]
    BY <1>2
  <2> HIDE DEF at, n
  <2>2. ASSUME NEW x \in 1..n, NEW y \in 1..n, at[x] = at[y]  PROVE x = y
    <3>1. [id |-> messages[x], position |-> x] = [id |-> messages[y], position |-> y]
      BY <2>1, <2>2
    <3> QED BY <3>1
  <2>3. at \in Injection(1..n, 1..Len(rows))
    <3>1. at = [p \in 1..n |-> at[p]]
      BY DEF at
    <3>2. at \in [1..n -> 1..Len(rows)]
      BY ONLY <2>1, <3>1
    <3> QED BY ONLY <2>2, <3>2 DEF Injection, IsInjective
  <2>4. IsFiniteSet(1..Len(rows)) /\ Cardinality(1..Len(rows)) = Len(rows) /\ Cardinality(1..n) = n
    <3>1. \A m \in Nat : IsFiniteSet(1..m) /\ Cardinality(1..m) = m
      BY FS_Interval
    <3> QED BY <1>2, <3>1
  <2> HIDE DEF at
  <2>5. Cardinality(1..n) <= Cardinality(1..Len(rows))
    BY <2>3, <2>4, FS_Injection
  <2> QED BY <2>4, <2>5
<1> HIDE DEF a, q, n
<1>8. \A i \in 1..Len(a) : e[i] \in 1..Len(o) /\ a[i] = o[e[i]].id
  BY <1>4, <1>5 DEF Picks
\* The rows that are read of messages have the messages' positions.
<1>9. ASSUME NEW k \in 1..Len(o), o[k].id \in Range(messages)
      PROVE  o[k].position \in 1..n /\ messages[o[k].position] = o[k].id
  <2>1. PICK p \in 1..n : o[k].id = messages[p]
    BY <1>2, <1>9 DEF Range
  <2>2. PICK r \in 1..Len(rows) : o[k] = rows[r]
    BY <1>1 DEF Sorts
  <2>3. PICK t \in 1..Len(rows) : rows[t] = [id |-> messages[p], position |-> p]
    BY <1>2
  <2>4. r = t
    <3>1. rows[r].id = rows[t].id
      BY <2>1, <2>2, <2>3
    <3> QED BY <1>2, <3>1 DEF DistinctIds
  <2>5. o[k] = [id |-> messages[p], position |-> p]
    BY <2>2, <2>3, <2>4
  <2> QED BY <2>1, <2>5
<1> DEFINE pos == [i \in 1..Len(a) |-> o[e[i]].position]
<1>10. \A i \in 1..Len(a) : pos[i] \in 1..n /\ messages[pos[i]] = a[i]
  <2>1. \A i \in 1..Len(a) : pos[i] = o[e[i]].position /\ a[i] \in Range(messages)
    BY <1>5 DEF Picks
  <2> HIDE DEF pos
  <2> QED BY <1>8, <1>9, <2>1
<1>11. \A i, j \in 1..Len(a) : i < j => pos[i] < pos[j]
  <2>1. ASSUME NEW i \in 1..Len(a), NEW j \in 1..Len(a), i < j  PROVE pos[i] < pos[j]
    <3>1. e[i] < e[j] /\ e[i] \in 1..Len(o) /\ e[j] \in 1..Len(o)
      BY <1>5, <1>8, <2>1 DEF Picks
    <3>2. pos[i] <= pos[j]
      BY <1>1, <3>1 DEF Sorts
    <3>3. CASE pos[i] = pos[j]
      <4>1. a[i] = a[j]
        BY <1>10, <3>3
      <4>2. q[e[i]] = q[e[j]]
        BY <1>5, <4>1 DEF Picks
      <4>3. e[i] = e[j]
        BY <1>3, <1>4, <3>1, <4>2 DEF Injective
      <4> QED BY <3>1, <4>3
    <3>4. pos[i] \in 1..n /\ pos[j] \in 1..n
      BY <1>10
    <3> HIDE DEF pos
    <3>5. pos[i] \in Nat /\ pos[j] \in Nat
      BY <1>2, <3>4
    <3> QED BY <3>2, <3>3, <3>5
  <2> QED BY <2>1
<1>12. \A p \in 1..n : \E i \in 1..Len(a) : pos[i] = p
  <2>1. ASSUME NEW p \in 1..n  PROVE \E i \in 1..Len(a) : pos[i] = p
    <3>1. PICK r \in 1..Len(rows) : rows[r] = [id |-> messages[p], position |-> p]
      BY <1>2
    <3>2. rows[r].position \in 1..Len(rows)
      BY <1>2, <1>7, <3>1
    <3>3. PICK k \in 1..Len(o) : o[k] = rows[r]
      BY <1>1, <3>2 DEF Sorts
    <3>4. q[k] = messages[p] /\ k \in 1..Len(q) /\ messages[p] \in Range(messages)
      <4>1. messages[p] \in Range(messages)
        BY <1>2 DEF Range
      <4>2. o[k].id = messages[p]
        BY <3>1, <3>3
      <4> QED BY <1>4, <4>1, <4>2
    <3>5. PICK i \in 1..Len(a) : e[i] = k
      BY <1>5, <3>4 DEF Picks
    <3>6. pos[i] = p
      BY <3>1, <3>3, <3>5
    <3> QED BY <3>6
  <2> QED BY <2>1
<1> HIDE DEF pos
<1>14. Len(a) = n /\ \A i \in 1..Len(a) : pos[i] = i
  <2>1. Grows(pos, Len(a), n)
    BY <1>10, <1>11, <1>12 DEF Grows
  <2> QED BY <1>2, <1>6, <2>1, GrowingOnto
<1>15. a = messages
  BY <1>6, <1>10, <1>14, SeqEqual DEF n
<1> QED BY <1>15 DEF a, q

\* Every message has its row in `stored`, and no other message came to those of `rows`.
HoldsAll(stored, rows, messages) ==
  /\ DistinctIds(stored)
  /\ \A p \in DOMAIN messages :
       \E r \in DOMAIN stored : stored[r] = [id |-> messages[p], position |-> p]
  /\ \A r \in DOMAIN stored : \/ \E x \in DOMAIN rows : stored[r].id = rows[x].id
                              \/ \E p \in DOMAIN messages : stored[r].id = messages[p]

\* What a save of a transcript leaves in the table of messages.
LEMMA WriteMessagesRows ==
  ASSUME NEW T, NEW rows \in Seq([id : T, position : Nat]), DistinctIds(rows),
         NEW messages \in Seq(T), Injective(messages), NEW known, known \subseteq Range(rows)
  PROVE  /\ WriteMessages(rows, messages, known) \in Seq([id : T, position : Nat])
         /\ HoldsAll(WriteMessages(rows, messages, known), rows, messages)
<1> DEFINE R == [id : T, position : Nat]
           row(p) == [id |-> messages[p], position |-> p]
           upserts == Unwritten(messages, known)
           updated == [r \in DOMAIN rows |->
                         IF \E u \in upserts : u.id = rows[r].id
                         THEN CHOOSE u \in upserts : u.id = rows[r].id
                         ELSE rows[r]]
           all == [p \in DOMAIN messages |-> [id |-> messages[p], position |-> p]]
           new == {u \in upserts : \A r \in DOMAIN rows : rows[r].id # u.id}
           inserted == Among(all, new)
           both == updated \o inserted
           kept == {x \in Range(both) : x.position <= Len(messages)}
           stored == Among(both, kept)
<1>1. /\ Len(rows) \in Nat /\ DOMAIN rows = 1..Len(rows)
      /\ Len(messages) \in Nat /\ DOMAIN messages = 1..Len(messages)
      /\ \A r \in 1..Len(rows) : rows[r] \in R
      /\ \A p \in 1..Len(messages) : messages[p] \in T
  BY LenProperties, ElementOfSeq
<1>2. WriteMessages(rows, messages, known) = stored
  BY DEF WriteMessages
<1>3. \A p \in 1..Len(messages) : row(p) \in R
  BY <1>1
<1>4. /\ \A u \in upserts : u \notin known /\ \E p \in 1..Len(messages) : u = row(p)
      /\ \A p \in 1..Len(messages) : row(p) \in upserts \/ row(p) \in known
  BY <1>1 DEF Unwritten, Positions
<1> HIDE DEF upserts
\* A message is at one position.
<1>5. \A p \in 1..Len(messages), u \in upserts : u.id = messages[p] => u = row(p)
  <2>1. ASSUME NEW p \in 1..Len(messages), NEW u \in upserts, u.id = messages[p]  PROVE u = row(p)
    <3>1. PICK k \in 1..Len(messages) : u = row(k)
      BY <1>4
    <3>2. k = p
      BY <1>1, <2>1, <3>1 DEF Injective
    <3> QED BY <3>1, <3>2
  <2> QED BY <2>1
<1>6. /\ updated \in Seq(R) /\ Len(updated) = Len(rows) /\ DOMAIN updated = 1..Len(rows)
      /\ \A r \in 1..Len(rows) : updated[r].id = rows[r].id
  <2>1. ASSUME NEW r \in 1..Len(rows)  PROVE updated[r] \in R /\ updated[r].id = rows[r].id
    <3>1. CASE \E u \in upserts : u.id = rows[r].id
      <4>1. updated[r] \in upserts /\ updated[r].id = rows[r].id
        BY <1>1, <3>1
      <4> QED BY <1>3, <1>4, <4>1
    <3>2. CASE ~ \E u \in upserts : u.id = rows[r].id
      BY <1>1, <3>2
    <3> QED BY <3>1, <3>2
  <2>2. updated \in [1..Len(rows) -> R]
    BY <1>1, <2>1
  <2>3. DOMAIN updated = 1..Len(rows)
    BY <1>1
  <2> HIDE DEF updated
  <2>4. updated \in Seq(R)
    BY <1>1, <2>2, SeqDef
  <2> QED BY <1>1, <2>1, <2>3, <2>4, LenProperties
<1>7. /\ all \in Seq(R) /\ Len(all) = Len(messages) /\ DOMAIN all = 1..Len(messages)
      /\ \A p \in 1..Len(messages) : all[p] = row(p)
      /\ DistinctIds(all)
  <2>1. all \in [1..Len(messages) -> R] /\ DOMAIN all = 1..Len(messages)
    BY <1>1, <1>3
  <2>2. \A p \in 1..Len(messages) : all[p] = row(p)
    BY <1>1
  <2> HIDE DEF all, R
  <2>0. Len(messages) \in Nat
    BY <1>1
  <2>3. all \in Seq(R)
    BY <2>0, <2>1, SeqDef
  <2>4. DistinctIds(all)
    BY <1>1, <2>1, <2>2 DEF DistinctIds, Injective
  <2> QED BY <1>1, <2>1, <2>2, <2>3, <2>4, LenProperties
<1>8. /\ inserted \in Seq(R) /\ Len(inserted) \in Nat /\ DOMAIN inserted = 1..Len(inserted)
      /\ \A i \in 1..Len(inserted) : inserted[i] \in new /\ \E p \in 1..Len(messages) : inserted[i] = row(p)
      /\ \A p \in 1..Len(messages) : row(p) \in new => \E i \in 1..Len(inserted) : inserted[i] = row(p)
      /\ DistinctIds(inserted)
  <2> HIDE DEF all, new, R
  <2>0. all \in Seq(R)
    BY <1>7
  <2>1. /\ inserted \in Seq(R) /\ Len(inserted) \in Nat
        /\ \A i \in 1..Len(inserted) : inserted[i] \in new /\ \E p \in 1..Len(all) : inserted[i] = all[p]
        /\ \A p \in 1..Len(all) : all[p] \in new => \E i \in 1..Len(inserted) : inserted[i] = all[p]
    BY <2>0, AmongElements
  <2>2. DistinctIds(inserted)
    BY <1>7, AmongDistinct
  <2>3. DOMAIN inserted = 1..Len(inserted)
    BY <2>1, LenProperties
  <2>4. Len(all) = Len(messages) /\ \A p \in 1..Len(messages) : all[p] = row(p)
    BY <1>7
  <2> HIDE DEF row, inserted
  <2> QED BY <2>1, <2>2, <2>3, <2>4
<1>9. \A i \in 1..Len(inserted) : \A r \in 1..Len(rows) : rows[r].id # inserted[i].id
  BY <1>1, <1>8
<1>a. \A u \in upserts : (\A r \in DOMAIN rows : rows[r].id # u.id) => u \in new
  OBVIOUS
<1>b. \A r \in 1..Len(rows) : /\ (~ \E u \in upserts : u.id = rows[r].id) => updated[r] = rows[r]
                              /\ (\E u \in upserts : u.id = rows[r].id)
                                   => updated[r] \in upserts /\ updated[r].id = rows[r].id
  BY <1>1
<1> HIDE DEF updated, inserted, new, all
<1>10. /\ both \in Seq(R) /\ Len(both) = Len(rows) + Len(inserted) /\ DOMAIN both = 1..Len(both)
       /\ \A i \in 1..Len(both) :
            \/ i \in 1..Len(rows) /\ both[i] = updated[i]
            \/ i > Len(rows) /\ i - Len(rows) \in 1..Len(inserted) /\ both[i] = inserted[i - Len(rows)]
       /\ \A i \in 1..Len(rows) : i \in 1..Len(both) /\ both[i] = updated[i]
       /\ \A i \in 1..Len(inserted) :
            Len(rows) + i \in 1..Len(both) /\ both[Len(rows) + i] = inserted[i]
  <2> HIDE DEF R
  <2>0. updated \in Seq(R) /\ inserted \in Seq(R) /\ Len(updated) = Len(rows)
    BY <1>6, <1>8
  <2>1. /\ both \in Seq(R) /\ Len(both) = Len(rows) + Len(inserted)
        /\ \A i \in 1..(Len(rows) + Len(inserted)) :
             both[i] = IF i <= Len(rows) THEN updated[i] ELSE inserted[i - Len(rows)]
    <3>1. /\ both \in Seq(R) /\ Len(both) = Len(updated) + Len(inserted)
          /\ \A i \in 1..(Len(updated) + Len(inserted)) :
               both[i] = IF i <= Len(updated) THEN updated[i] ELSE inserted[i - Len(updated)]
      BY <2>0, ConcatProperties
    <3> HIDE DEF both
    <3> QED BY <2>0, <3>1
  <2> HIDE DEF both
  <2>2. DOMAIN both = 1..Len(both)
    BY <2>1, LenProperties
  <2>3. ASSUME NEW i \in 1..Len(both)
        PROVE  \/ i \in 1..Len(rows) /\ both[i] = updated[i]
               \/ i > Len(rows) /\ i - Len(rows) \in 1..Len(inserted) /\ both[i] = inserted[i - Len(rows)]
    <3>1. CASE i <= Len(rows)
      BY <1>1, <1>8, <2>1, <3>1
    <3>2. CASE i > Len(rows)
      BY <1>1, <1>8, <2>1, <3>2
    <3> QED BY <1>1, <3>1, <3>2
  <2>4. \A i \in 1..Len(rows) : i \in 1..Len(both) /\ both[i] = updated[i]
    BY <1>1, <1>8, <2>1
  <2>5. ASSUME NEW i \in 1..Len(inserted)
        PROVE  Len(rows) + i \in 1..Len(both) /\ both[Len(rows) + i] = inserted[i]
    <3>1. /\ Len(rows) + i \in 1..(Len(rows) + Len(inserted)) /\ ~ (Len(rows) + i <= Len(rows))
          /\ (Len(rows) + i) - Len(rows) = i
      BY <1>1, <1>8
    <3> QED BY <2>1, <3>1
  <2> QED BY <2>1, <2>2, <2>3, <2>4, <2>5
<1> HIDE DEF both
<1>11. DistinctIds(both)
  <2>1. ASSUME NEW i \in 1..Len(both), NEW j \in 1..Len(both), both[i].id = both[j].id  PROVE i = j
    <3>1. CASE i \in 1..Len(rows) /\ both[i] = updated[i] /\ j \in 1..Len(rows) /\ both[j] = updated[j]
      BY <1>1, <1>6, <2>1, <3>1 DEF DistinctIds
    <3>2. CASE /\ i > Len(rows) /\ i - Len(rows) \in 1..Len(inserted) /\ both[i] = inserted[i - Len(rows)]
               /\ j > Len(rows) /\ j - Len(rows) \in 1..Len(inserted) /\ both[j] = inserted[j - Len(rows)]
      <4>1. i - Len(rows) = j - Len(rows)
        BY <1>8, <2>1, <3>2 DEF DistinctIds
      <4> QED BY <1>1, <1>10, <4>1
    <3>3. CASE /\ i \in 1..Len(rows) /\ both[i] = updated[i]
               /\ j - Len(rows) \in 1..Len(inserted) /\ both[j] = inserted[j - Len(rows)]
      BY <1>6, <1>9, <2>1, <3>3
    <3>4. CASE /\ j \in 1..Len(rows) /\ both[j] = updated[j]
               /\ i - Len(rows) \in 1..Len(inserted) /\ both[i] = inserted[i - Len(rows)]
      BY <1>6, <1>9, <2>1, <3>4
    <3> QED BY <1>10, <3>1, <3>2, <3>3, <3>4
  <2> QED BY <1>10, <2>1 DEF DistinctIds
\* Every message has its row before the old positions are deleted, ...
<1>12. ASSUME NEW p \in 1..Len(messages)  PROVE \E i \in 1..Len(both) : both[i] = row(p)
  <2>1. ASSUME NEW r \in 1..Len(rows), rows[r].id = messages[p],
               row(p) \in upserts \/ rows[r] = row(p)
        PROVE  \E i \in 1..Len(both) : both[i] = row(p)
    <3>1. CASE \E u \in upserts : u.id = rows[r].id
      <4>1. updated[r] = row(p)
        BY <1>5, <1>b, <2>1, <3>1
      <4> QED BY <1>10, <4>1
    <3>2. CASE ~ \E u \in upserts : u.id = rows[r].id
      <4>1. row(p).id = messages[p]
        OBVIOUS
      <4>2. updated[r] = row(p)
        BY <1>b, <2>1, <3>2, <4>1
      <4> QED BY <1>10, <4>2
    <3> QED BY <3>1, <3>2
  <2>2. CASE row(p) \in known
    <3>1. PICK r \in 1..Len(rows) : rows[r] = row(p)
      BY <1>1, <2>2 DEF Range
    <3> QED BY <2>1, <3>1
  <2>3. CASE row(p) \in upserts /\ \E r \in 1..Len(rows) : rows[r].id = messages[p]
    BY <2>1, <2>3
  <2>4. CASE row(p) \in upserts /\ ~ \E r \in 1..Len(rows) : rows[r].id = messages[p]
    <3>1. row(p) \in new
      BY <1>1, <1>a, <2>4
    <3>2. PICK i \in 1..Len(inserted) : inserted[i] = row(p)
      BY <1>8, <3>1
    <3> QED BY <1>10, <3>2
  <2> QED BY <1>4, <2>2, <2>3, <2>4
<1>13. ASSUME NEW i \in 1..Len(both)
       PROVE  \/ \E x \in DOMAIN rows : both[i].id = rows[x].id
              \/ \E p \in DOMAIN messages : both[i].id = messages[p]
  <2>1. CASE i \in 1..Len(rows) /\ both[i] = updated[i]
    BY <1>1, <1>6, <2>1
  <2>2. CASE i - Len(rows) \in 1..Len(inserted) /\ both[i] = inserted[i - Len(rows)]
    <3>1. PICK p \in 1..Len(messages) : both[i] = row(p)
      BY <1>8, <2>2
    <3> QED BY <1>1, <3>1
  <2> QED BY <1>10, <2>1, <2>2
\* ... and keeps it.
<1>14. \A p \in 1..Len(messages), i \in 1..Len(both) : both[i] = row(p) => both[i] \in kept
  <2>1. ASSUME NEW p \in 1..Len(messages), NEW i \in 1..Len(both), both[i] = row(p)  PROVE both[i] \in kept
    <3>1. both[i].position <= Len(messages)
      BY <1>1, <2>1
    <3> QED BY <1>10, <3>1 DEF Range
  <2> QED BY <2>1
<1> HIDE DEF kept
<1>15. /\ stored \in Seq(R) /\ Len(stored) \in Nat /\ DistinctIds(stored)
       /\ \A r \in 1..Len(stored) : \E i \in 1..Len(both) : stored[r] = both[i]
       /\ \A i \in 1..Len(both) : both[i] \in kept => \E r \in 1..Len(stored) : stored[r] = both[i]
  <2> HIDE DEF R
  <2>0. both \in Seq(R)
    BY <1>10
  <2>1. /\ stored \in Seq(R) /\ Len(stored) \in Nat
        /\ \A r \in 1..Len(stored) : \E i \in 1..Len(both) : stored[r] = both[i]
        /\ \A i \in 1..Len(both) : both[i] \in kept => \E r \in 1..Len(stored) : stored[r] = both[i]
    BY <2>0, AmongElements
  <2>2. DistinctIds(stored)
    BY <2>0, <1>11, AmongDistinct
  <2> QED BY <2>1, <2>2
<1> HIDE DEF stored
<1>16. DOMAIN stored = 1..Len(stored)
  BY <1>15, LenProperties
<1>17. \A p \in DOMAIN messages : \E r \in DOMAIN stored : stored[r] = row(p)
  <2>1. ASSUME NEW p \in 1..Len(messages)  PROVE \E r \in 1..Len(stored) : stored[r] = row(p)
    <3>1. PICK i \in 1..Len(both) : both[i] = row(p)
      BY <1>12
    <3>2. both[i] \in kept
      BY <1>14, <3>1
    <3>3. PICK r \in 1..Len(stored) : stored[r] = both[i]
      BY <1>15, <3>2
    <3> QED BY <3>1, <3>3
  <2> QED BY <1>1, <1>16, <2>1
<1>18. \A r \in DOMAIN stored : \/ \E x \in DOMAIN rows : stored[r].id = rows[x].id
                                \/ \E p \in DOMAIN messages : stored[r].id = messages[p]
  <2>1. ASSUME NEW r \in 1..Len(stored)
        PROVE  \/ \E x \in DOMAIN rows : stored[r].id = rows[x].id
               \/ \E p \in DOMAIN messages : stored[r].id = messages[p]
    <3>1. PICK i \in 1..Len(both) : stored[r] = both[i]
      BY <1>15
    <3> QED BY <1>13, <3>1
  <2> QED BY <1>16, <2>1
<1> QED BY <1>2, <1>15, <1>17, <1>18 DEF HoldsAll

-----------------------------------------------------------------------------
(* Tasks whose messages have all been made, and what the operations leave of them. *)

ListRows == [title : Titles, at : Nat, busy : BOOLEAN]
DetailRows == [turns : Seq(Turns), native : BOOLEAN, cursor : Cursors]
MessageRow == [id : Messages, position : Nat]

\* The message m has been made: n is the next number, of a turn or an answer.
Numbered(m, n) == m[2] < n /\ (m[2] = 0 => m[1] < n)

\* Every message has been made, and is there once.
Minted(messages, n) == Injective(messages) /\ \A i \in DOMAIN messages : Numbered(messages[i], n)

MintedTasks(n) == {task \in Tasks : Minted(task.messages, n)}

MintedRows(n) ==
  {rows \in Seq(MessageRow) : DistinctIds(rows) /\ \A r \in DOMAIN rows : Numbered(rows[r].id, n)}

\* A task's fields.
LEMMA TaskFields ==
  ASSUME NEW n, NEW task \in MintedTasks(n)
  PROVE  /\ task \in Tasks /\ IsTask(task) /\ Minted(task.messages, n)
         /\ task.loaded \in BOOLEAN /\ task.title \in Titles /\ task.at \in Nat /\ task.busy \in BOOLEAN
         /\ task.native \in BOOLEAN /\ task.cursor \in Cursors /\ task.turns \in Seq(Turns)
         /\ task.messages \in Seq(Messages)
<1>1. task \in Tasks
  BY DEF MintedTasks
<1>2. /\ task.loaded \in BOOLEAN /\ task.title \in Titles /\ task.at \in Nat /\ task.busy \in BOOLEAN
      /\ task.native \in BOOLEAN /\ task.cursor \in Cursors /\ task.turns \in Seq(Turns)
      /\ task.messages \in Seq(Messages) /\ DOMAIN task = Fields
  BY <1>1 DEF Tasks, Fields
<1> QED BY <1>1, <1>2 DEF MintedTasks, IsTask

\* The next numbers only grow.
LEMMA MintedGrows ==
  ASSUME NEW n \in Nat, NEW k \in Nat, n <= k
  PROVE  /\ MintedTasks(n) \subseteq MintedTasks(k) /\ MintedRows(n) \subseteq MintedRows(k)
<1>1. \A m \in Messages : Numbered(m, n) => Numbered(m, k)
  <2>1. ASSUME NEW m \in Messages, Numbered(m, n)  PROVE Numbered(m, k)
    <3>1. m[1] \in Nat /\ m[2] \in Nat
      BY DEF Messages
    <3> QED BY <2>1, <3>1 DEF Numbered
  <2> QED BY <2>1
<1>2. ASSUME NEW task \in MintedTasks(n)  PROVE task \in MintedTasks(k)
  <2>1. task.messages \in Seq(Messages) /\ Minted(task.messages, n) /\ task \in Tasks
    BY TaskFields
  <2>2. \A i \in DOMAIN task.messages : task.messages[i] \in Messages
    BY <2>1, ElementOfSeq, LenProperties
  <2>3. Minted(task.messages, k)
    BY <1>1, <2>1, <2>2 DEF Minted
  <2> QED BY <2>1, <2>3 DEF MintedTasks
<1>3. ASSUME NEW rows \in MintedRows(n)  PROVE rows \in MintedRows(k)
  <2>1. rows \in Seq(MessageRow)
    BY DEF MintedRows
  <2>2. \A r \in DOMAIN rows : rows[r] \in MessageRow
    BY <2>1, ElementOfSeq, LenProperties
  <2>3. \A r \in DOMAIN rows : rows[r].id \in Messages
    BY <2>2 DEF MessageRow
  <2> QED BY <1>1, <2>3 DEF MintedRows
<1> QED BY <1>2, <1>3

LEMMA NoneMinted ==
  ASSUME NEW n
  PROVE  << >> \in Seq(Messages) /\ Minted(<< >>, n) /\ << >> \in MintedRows(n)
<1>1. << >> \in Seq(Messages) /\ << >> \in Seq(MessageRow) /\ Len(<< >>) = 0
  BY EmptySeq
<1>2. DOMAIN << >> = {}
  OBVIOUS
<1> QED BY <1>1, <1>2 DEF Minted, MintedRows, Injective, DistinctIds

\* A part of the messages.
LEMMA PartMinted ==
  ASSUME NEW n, NEW messages \in Seq(Messages), Minted(messages, n), NEW S
  PROVE  Among(messages, S) \in Seq(Messages) /\ Minted(Among(messages, S), n)
<1> DEFINE a == Among(messages, S)
<1>1. PICK e : Picks(e, a, messages, S)
  BY AmongOrder
<1>2. /\ a \in Seq(Messages) /\ DOMAIN a = 1..Len(a) /\ Len(a) \in Nat
      /\ DOMAIN messages = 1..Len(messages) /\ Len(messages) \in Nat
  BY AmongElements, LenProperties
<1> HIDE DEF a
<1>3. ASSUME NEW i \in 1..Len(a), NEW j \in 1..Len(a), a[i] = a[j]  PROVE i = j
  <2>1. e[i] \in 1..Len(messages) /\ e[j] \in 1..Len(messages)
    BY <1>1 DEF Picks
  <2>2. e[i] = e[j]
    BY <1>1, <1>2, <1>3, <2>1 DEF Minted, Injective, Picks
  <2> QED BY <1>1, <1>2, <2>1, <2>2 DEF Picks
<1>4. \A i \in 1..Len(a) : Numbered(a[i], n)
  BY <1>1, <1>2 DEF Minted, Picks
<1>5. Minted(a, n)
  BY <1>2, <1>3, <1>4 DEF Minted, Injective
<1> QED BY <1>2, <1>5 DEF a

\* One message more, which has just been numbered.
LEMMA NextMinted ==
  ASSUME NEW n \in Nat \ {0}, NEW messages \in Seq(Messages), Minted(messages, n), NEW turn \in Nat,
         NEW m, m = <<n, 0>> \/ m = <<turn, n>>
  PROVE  Append(messages, m) \in Seq(Messages) /\ Minted(Append(messages, m), n + 1)
<1> DEFINE more == Append(messages, m)
<1>1. m \in Messages /\ Numbered(m, n + 1) /\ ~ Numbered(m, n)
  BY DEF Messages, Numbered
<1>2. /\ more \in Seq(Messages) /\ Len(more) = Len(messages) + 1 /\ more[Len(messages) + 1] = m
      /\ \A i \in 1..Len(messages) : more[i] = messages[i]
      /\ Len(messages) \in Nat /\ DOMAIN messages = 1..Len(messages)
  BY <1>1, AppendProperties, LenProperties
<1>3. DOMAIN more = 1..(Len(messages) + 1)
  BY <1>2, LenProperties
<1> HIDE DEF more
<1>4. \A i \in 1..Len(messages) : messages[i] \in Messages
  BY ElementOfSeq
<1>5. \A i \in 1..Len(messages) : Numbered(messages[i], n) /\ Numbered(messages[i], n + 1)
  <2>1. ASSUME NEW i \in 1..Len(messages)
        PROVE  Numbered(messages[i], n) /\ Numbered(messages[i], n + 1)
    <3>1. Numbered(messages[i], n)
      BY <1>2 DEF Minted
    <3>2. messages[i][1] \in Nat /\ messages[i][2] \in Nat
      BY <1>4 DEF Messages
    <3> QED BY <3>1, <3>2 DEF Numbered
  <2> QED BY <2>1
<1>6. \A i \in 1..(Len(messages) + 1) : i \in 1..Len(messages) \/ i = Len(messages) + 1
  BY <1>2
<1>7. \A i \in DOMAIN more : Numbered(more[i], n + 1)
  BY <1>1, <1>2, <1>3, <1>5, <1>6
<1>8. Injective(more)
  <2>1. ASSUME NEW i \in 1..(Len(messages) + 1), NEW j \in 1..(Len(messages) + 1), more[i] = more[j]
        PROVE  i = j
    <3>1. CASE i \in 1..Len(messages) /\ j \in 1..Len(messages)
      BY <1>2, <2>1, <3>1 DEF Minted, Injective
    <3>2. CASE i \in 1..Len(messages) /\ j = Len(messages) + 1
      BY <1>1, <1>2, <1>5, <2>1, <3>2
    <3>3. CASE j \in 1..Len(messages) /\ i = Len(messages) + 1
      BY <1>1, <1>2, <1>5, <2>1, <3>3
    <3> QED BY <1>6, <3>1, <3>2, <3>3
  <2> QED BY <1>3, <2>1 DEF Injective
<1> QED BY <1>2, <1>7, <1>8 DEF Minted, more

\* Fields other than the messages.
LEMMA RetitledMinted ==
  ASSUME NEW n, NEW task \in MintedTasks(n), NEW title \in Titles, NEW at \in Nat, NEW busy \in BOOLEAN
  PROVE  /\ [task EXCEPT !.title = title] \in MintedTasks(n)
         /\ [task EXCEPT !.title = title, !.at = at] \in MintedTasks(n)
         /\ [task EXCEPT !.title = title, !.at = at, !.busy = busy] \in MintedTasks(n)
         /\ [task EXCEPT !.busy = busy, !.at = at] \in MintedTasks(n)
BY TaskFields DEF MintedTasks, Tasks

LEMMA OnWireMinted ==
  ASSUME NEW n, NEW task \in MintedTasks(n)
  PROVE  OnWire(task) \in MintedTasks(n) /\ ListProjection(task) \in MintedTasks(n)
BY TaskFields, NoneMinted, NothingTyped DEF MintedTasks, Tasks, OnWire, ListProjection

LEMMA SkeletonMinted ==
  ASSUME NEW n, NEW row \in ListRows
  PROVE  Skeleton(row) \in MintedTasks(n) /\ Row(Skeleton(row)) = row
<1>1. row.title \in Titles /\ row.at \in Nat /\ row.busy \in BOOLEAN
  BY DEF ListRows
<1>2. Skeleton(row) \in Tasks
  BY <1>1, NoneMinted, NothingTyped DEF Skeleton, Tasks
<1>3. Skeleton(row) \in MintedTasks(n)
  BY <1>2, NoneMinted DEF MintedTasks, Skeleton
<1>4. Row(Skeleton(row)) = row
  BY DEF Row, Skeleton, ListRows
<1> QED BY <1>3, <1>4

\* What is written of a task.
LEMMA RowsOfTasks ==
  ASSUME NEW n, NEW task \in MintedTasks(n)
  PROVE  Row(task) \in ListRows /\ Detail(task) \in DetailRows
BY TaskFields DEF Row, Detail, ListRows, DetailRows

LEMMA TurnsMinted ==
  ASSUME NEW n, NEW task \in MintedTasks(n), NEW turns \in Seq(Turns)
  PROVE  [task EXCEPT !.turns = turns] \in MintedTasks(n)
BY TaskFields DEF MintedTasks, Tasks

LEMMA CheckpointMinted ==
  ASSUME NEW n, NEW task \in MintedTasks(n), NEW k \in DOMAIN task.turns, NEW checkpoint \in Nat
  PROVE  [task EXCEPT !.turns[k].checkpoint = checkpoint] \in MintedTasks(n)
<1>1. task.turns \in Seq(Turns)
  BY TaskFields
<1>2. [task.turns EXCEPT ![k].checkpoint = checkpoint] \in Seq(Turns)
  BY <1>1, CheckpointTyped
<1> QED BY <1>2, TurnsMinted

LEMMA AcceptedMinted ==
  ASSUME NEW n, NEW existing \in MintedTasks(n) \cup {NoTask}, NEW incoming \in MintedTasks(n),
         incoming.loaded, NEW runtime
  PROVE  /\ Accept(existing, incoming, runtime) \in MintedTasks(n)
         /\ ~ Accept(existing, incoming, runtime).loaded => existing # NoTask /\ ~ existing.loaded
<1>1. CASE existing = NoTask
  BY <1>1 DEF Accept
<1>2. CASE existing # NoTask /\ Precedes(existing, incoming, runtime)
  <2>1. existing \in MintedTasks(n) /\ IsTask(existing)
    BY <1>2, TaskFields
  <2>2. MergeStale(existing, incoming) \in MintedTasks(n)
    BY <2>1, TaskFields, RetitledMinted DEF MergeStale
  <2>3. MergeStale(existing, incoming).loaded = existing.loaded
    BY <2>1, MergedTyped
  <2> QED BY <1>2, <2>2, <2>3 DEF Accept
<1>3. CASE existing # NoTask /\ ~ Precedes(existing, incoming, runtime)
  <2>1. existing \in MintedTasks(n) /\ IsTask(existing) /\ IsTask(incoming)
    BY <1>3, TaskFields
  <2>2. IsTask(PreserveCheckpoints(existing, incoming)) /\ PreserveCheckpoints(existing, incoming).loaded
    BY <2>1, PreservedTyped
  <2>3. PreserveCheckpoints(existing, incoming) =
          [incoming EXCEPT !.turns = PreserveCheckpoints(existing, incoming).turns]
    BY <2>1 DEF PreserveCheckpoints, IsTask, Fields
  <2>4. PreserveCheckpoints(existing, incoming) \in MintedTasks(n)
    BY <2>2, <2>3, TurnsMinted DEF IsTask
  <2> QED BY <1>3, <2>2, <2>4 DEF Accept
<1> QED BY <1>1, <1>2, <1>3

LEMMA TruncatedMinted ==
  ASSUME NEW n, NEW task \in MintedTasks(n), NEW keep \in 0..Len(task.turns), NEW reset \in BOOLEAN,
         seconds' \in Nat
  PROVE  Truncated(task, keep, reset) \in MintedTasks(n)
<1> DEFINE kept == {task.turns[k].id : k \in 1..keep}
           part == Among(task.messages, kept \X Nat)
<1>1. part \in Seq(Messages) /\ Minted(part, n)
  BY TaskFields, PartMinted
<1>2. /\ IsTask(Truncated(task, keep, reset))
  BY TaskFields, TruncatedTyped
<1>3. SubSeq(task.turns, 1, keep) \in Seq(Turns)
  <2>1. Truncated(task, keep, reset).turns = SubSeq(task.turns, 1, keep)
    BY TaskFields DEF Truncated, IsTask, Fields
  <2> QED BY <1>2, <2>1 DEF IsTask
<1>4. Truncated(task, keep, reset) =
        [task EXCEPT !.turns = SubSeq(@, 1, keep), !.messages = part,
                     !.native = @ /\ ~reset, !.busy = FALSE, !.at = seconds']
  BY DEF Truncated
<1> HIDE DEF part
<1> QED BY <1>1, <1>3, <1>4, TaskFields DEF MintedTasks, Tasks

LEMMA WithTurnMinted ==
  ASSUME nextId \in Nat \ {0}, NEW task \in MintedTasks(nextId), seconds' \in Nat
  PROVE  WithTurn(task) \in MintedTasks(nextId + 1)
<1> DEFINE turns == Append(task.turns, [id |-> nextId, checkpoint |-> NoCheckpoint])
           messages == Append(task.messages, <<nextId, 0>>)
<1>1. [id |-> nextId, checkpoint |-> NoCheckpoint] \in Turns
  BY NothingTyped DEF Turns
<1>2. turns \in Seq(Turns)
  BY <1>1, TaskFields, AppendProperties
<1>3. messages \in Seq(Messages) /\ Minted(messages, nextId + 1)
  <2>1. task.messages \in Seq(Messages) /\ Minted(task.messages, nextId) /\ 0 \in Nat
    BY TaskFields
  <2> QED BY <2>1, NextMinted
<1>4. WithTurn(task) = [task EXCEPT !.turns = turns, !.messages = messages, !.busy = TRUE, !.at = seconds']
  BY DEF WithTurn
<1> HIDE DEF turns, messages
<1> QED BY <1>2, <1>3, <1>4, TaskFields DEF MintedTasks, Tasks

-----------------------------------------------------------------------------
(* The daemon's tasks and tables. *)

\* What the daemon has in memory and in its tables: every row it believes to have written is there.
StoreFilled(n) ==
  /\ tasks \in [Sessions -> MintedTasks(n) \cup {NoTask}]
  /\ listed \in [Sessions -> ListRows \cup {NoTask}]
  /\ details \in [Sessions -> DetailRows \cup {NoTask}]
  /\ messageRows \in [Sessions -> MintedRows(n)]
  /\ dirty \subseteq Sessions /\ persisted \subseteq Sessions
  /\ \A s \in Sessions : written[s] \subseteq Range(messageRows[s])

LEMMA HydratedMinted ==
  ASSUME NEW n, StoreFilled(n), NEW s \in Sessions, tasks[s] # NoTask
  PROVE  /\ Hydrated(s) \in MintedTasks(n) /\ Hydrated(s).loaded
         /\ Row(Hydrated(s)) = Row(tasks[s])
         /\ tasks[s].loaded => Hydrated(s) = tasks[s]
<1>1. tasks[s] \in MintedTasks(n)
  BY DEF StoreFilled
<1>2. CASE tasks[s].loaded
  BY <1>1, <1>2 DEF Hydrated
<1>3. CASE ~ tasks[s].loaded /\ details[s] = NoTask
  <2>1. Hydrated(s) = [tasks[s] EXCEPT !.loaded = TRUE]
    BY <1>3 DEF Hydrated
  <2> QED BY <1>1, <1>3, <2>1, TaskFields DEF MintedTasks, Tasks, Row
<1>4. CASE ~ tasks[s].loaded /\ details[s] # NoTask
  <2> DEFINE messages == InOrder(messageRows[s])
  <2>1. details[s] \in DetailRows /\ messageRows[s] \in MintedRows(n)
    BY <1>4 DEF StoreFilled
  <2>2. /\ messageRows[s] \in Seq([id : Messages, position : Nat]) /\ DistinctIds(messageRows[s])
        /\ \A r \in DOMAIN messageRows[s] : Numbered(messageRows[s][r].id, n)
    BY <2>1 DEF MintedRows, MessageRow
  <2>3. /\ messages \in Seq(Messages) /\ Injective(messages)
        /\ \A i \in DOMAIN messages : \E r \in DOMAIN messageRows[s] : messages[i] = messageRows[s][r].id
    BY <2>2, InOrderMessages
  <2> HIDE DEF messages
  <2>4. Minted(messages, n)
    BY <2>2, <2>3 DEF Minted
  <2>5. Hydrated(s) = [tasks[s] EXCEPT !.loaded = TRUE, !.turns = details[s].turns,
                        !.native = details[s].native, !.cursor = details[s].cursor,
                        !.messages = messages]
    BY <1>4 DEF Hydrated, messages
  <2>6. /\ details[s].turns \in Seq(Turns) /\ details[s].native \in BOOLEAN
        /\ details[s].cursor \in Cursors
    BY <2>1 DEF DetailRows
  <2> QED BY <1>1, <1>4, <2>3, <2>4, <2>5, <2>6, TaskFields DEF MintedTasks, Tasks, Row
<1> QED BY <1>1, <1>2, <1>3, <1>4, TaskFields

\* What a save is called with: it names every task that is not as it was.
Marks(now, marked, n) ==
  /\ now \in [Sessions -> MintedTasks(n) \cup {NoTask}]
  /\ dirty \subseteq marked /\ marked \subseteq Sessions
  /\ \A s \in Sessions :
       /\ s \in marked \/ now[s] = tasks[s] \/ now[s] = NoTask
       /\ now[s] # NoTask /\ ~ now[s].loaded => tasks[s] # NoTask /\ ~ tasks[s].loaded

\* The rows of a transcript that is written.
LEMMA TranscriptWritten ==
  ASSUME NEW n, NEW rows \in MintedRows(n), NEW task \in MintedTasks(n), NEW known, known \subseteq Range(rows)
  PROVE  LET stored == WriteMessages(rows, task.messages, known)
         IN  /\ stored \in MintedRows(n)
             /\ Positions(task.messages) \subseteq Range(stored)
             /\ Among(InOrder(stored), Range(task.messages)) = task.messages
<1> DEFINE stored == WriteMessages(rows, task.messages, known)
<1>1. /\ task.messages \in Seq(Messages) /\ Injective(task.messages)
      /\ \A p \in DOMAIN task.messages : Numbered(task.messages[p], n)
  BY TaskFields DEF Minted
<1>2. /\ rows \in Seq([id : Messages, position : Nat]) /\ DistinctIds(rows)
      /\ \A r \in DOMAIN rows : Numbered(rows[r].id, n)
  BY DEF MintedRows, MessageRow
<1>3. stored \in Seq([id : Messages, position : Nat]) /\ HoldsAll(stored, rows, task.messages)
  BY <1>1, <1>2, WriteMessagesRows
<1> HIDE DEF stored
<1>4. stored \in MintedRows(n)
  BY <1>1, <1>2, <1>3 DEF MintedRows, MessageRow, HoldsAll
<1>5. Positions(task.messages) \subseteq Range(stored)
  BY <1>3 DEF Positions, Range, HoldsAll
<1>6. Among(InOrder(stored), Range(task.messages)) = task.messages
  BY <1>1, <1>3, TranscriptRecovered DEF HoldsAll
<1> QED BY <1>4, <1>5, <1>6 DEF stored

LEMMA SaveFilled ==
  ASSUME NEW n, StoreFilled(n), NEW now, NEW marked, Marks(now, marked, n), NEW ok, SaveTasks(now, marked, ok)
  PROVE  StoreFilled(n)'
<1> USE DEF StoreFilled
<1>1. now \in [Sessions -> MintedTasks(n) \cup {NoTask}] /\ marked \subseteq Sessions /\ tasks' = now
  BY DEF Marks, SaveTasks, SaveCommits, SaveFails
<1>2. CASE ok
  <2>1. SaveCommits(now, marked)
    BY <1>2 DEF SaveTasks
  <2>2. Whole(now, marked) \subseteq Upserted(now, marked) /\ Upserted(now, marked) \subseteq Sessions
    BY DEF Upserted, Whole, ListOnly, Live
  <2>3. \A s \in Upserted(now, marked) : now[s] \in MintedTasks(n)
    BY <1>1, <2>2 DEF Upserted, Whole, ListOnly, Live
  <2>4. \A s \in Upserted(now, marked) : Row(now[s]) \in ListRows /\ Detail(now[s]) \in DetailRows
    BY <2>3, RowsOfTasks
  <2>5. \A s \in Whole(now, marked) :
          LET stored == WriteMessages(messageRows[s], now[s].messages, written[s])
          IN  stored \in MintedRows(n) /\ Positions(now[s].messages) \subseteq Range(stored)
    BY <2>2, <2>3, TranscriptWritten
  <2>6. listed' \in [Sessions -> ListRows \cup {NoTask}]
    BY <2>1, <2>4 DEF SaveCommits
  <2>7. details' \in [Sessions -> DetailRows \cup {NoTask}]
    BY <2>1, <2>2, <2>4 DEF SaveCommits
  <2>8. messageRows' \in [Sessions -> MintedRows(n)]
    BY <2>1, <2>5, NoneMinted DEF SaveCommits
  <2>9. dirty' \subseteq Sessions /\ persisted' \subseteq Sessions
    BY <2>1, <2>2 DEF SaveCommits
  <2>10. \A s \in Sessions : written'[s] \subseteq Range(messageRows'[s])
    <3>1. ASSUME NEW s \in Sessions  PROVE written'[s] \subseteq Range(messageRows'[s])
      <4>1. CASE s \in Whole(now, marked)
        <5>1. /\ written'[s] = Positions(now[s].messages)
              /\ messageRows'[s] = WriteMessages(messageRows[s], now[s].messages, written[s])
          BY <2>1, <4>1 DEF SaveCommits
        <5> QED BY <2>5, <4>1, <5>1
      <4>2. CASE s \notin Whole(now, marked)
        BY <2>1, <4>2 DEF SaveCommits
      <4> QED BY <4>1, <4>2
    <3> QED BY <3>1
  <2> QED BY <1>1, <2>6, <2>7, <2>8, <2>9, <2>10
<1>3. CASE ~ ok
  <2>1. SaveFails(now, marked)
    BY <1>3 DEF SaveTasks
  <2>2. Upserted(now, marked) \subseteq Sessions
    BY DEF Upserted, Whole, ListOnly, Live
  <2>3. dirty' \subseteq Sessions /\ persisted' \subseteq Sessions
    BY <1>1, <2>1, <2>2 DEF SaveFails
  <2>4. UNCHANGED diskVars /\ \A s \in Sessions : written'[s] \subseteq written[s]
    BY <2>1 DEF SaveFails, WrittenAfterFailure
  <2> QED BY <1>1, <2>3, <2>4 DEF diskVars
<1> QED BY <1>2, <1>3

LEMMA ReadFilled ==
  ASSUME NEW n, StoreFilled(n), NEW s \in Sessions, Reads(s)
  PROVE  StoreFilled(n)'
<1>1. Hydrated(s) \in MintedTasks(n)
  BY HydratedMinted DEF Reads
<1> QED BY <1>1 DEF StoreFilled, Reads, diskVars

LEMMA RestartFilled ==
  ASSUME NEW n, StoreFilled(n), LoadTasks
  PROVE  StoreFilled(n)'
<1>1. \A s \in Sessions : listed[s] # NoTask => Skeleton(listed[s]) \in MintedTasks(n)
  BY SkeletonMinted DEF StoreFilled
<1>2. tasks' \in [Sessions -> MintedTasks(n) \cup {NoTask}]
  BY <1>1 DEF LoadTasks
<1> QED BY <1>2 DEF StoreFilled, LoadTasks, diskVars

-----------------------------------------------------------------------------
(* Numbers and sets of tasks. *)

CountersFilled ==
  /\ asked \in [Sessions -> Nat]
  /\ removed \subseteq Sessions /\ removals \subseteq Sessions /\ created \subseteq Sessions
  /\ seconds \in Nat /\ nextId \in Nat \ {0}

\* Every step counts at most one message, and the clock does not leave the numbers.
LEMMA CountersFilledStep ==
  ASSUME Typed, CountersFilled, [TaskNext]_taskVars
  PROVE  CountersFilled' /\ nextId' \in {nextId, nextId + 1}
<1> DEFINE Small == /\ seconds' = seconds \/ Clock
                    /\ nextId' \in {nextId, nextId + 1}
                    /\ asked' \in [Sessions -> Nat]
                    /\ removed' \subseteq Sessions /\ removals' \subseteq Sessions
                    /\ created' \subseteq Sessions
<1> USE DEF CountersFilled
<1>1. ASSUME UNCHANGED <<asked, removed, removals, created, seconds, nextId>>  PROVE Small
  BY <1>1
<1>2. UNCHANGED taskVars => Small
  BY DEF taskVars, daemonVars, wireVars, boundVars
<1>3. ASSUME NEW c \in Clients, Refresh(c) \/ Save(c)  PROVE Small
  BY <1>3, <1>1 DEF Refresh, Save, daemonVars, wireVars, boundVars
<1>4. ASSUME NEW c \in Clients, NEW s \in Sessions, NEW k,
             Hydrate(c, s) \/ Attach(c, s) \/ CaptureKnown(c, s, k) \/ CaptureStarts(c, s, k)
      PROVE  Small
  BY <1>4, <1>1 DEF Hydrate, Attach, CaptureKnown, CaptureStarts, daemonVars, wireVars, boundVars
<1>5. ASSUME NEW c \in Clients, NEW s \in Sessions, NEW task, BeginTurn(c, s, task)  PROVE Small
  BY <1>5 DEF BeginTurn, Edit, wireVars
<1>6. ASSUME NEW c \in Clients, NEW s \in Sessions, NEW k, Submit(c, s) \/ Resubmit(c, s, k)  PROVE Small
  BY <1>5, <1>6 DEF Submit, Resubmit
<1>7. ASSUME NEW c \in Clients, NEW s \in Sessions, Answer(c, s)  PROVE Small
  BY <1>7 DEF Answer, daemonVars, wireVars
<1>8. ASSUME NEW c \in Clients, NEW s \in Sessions, NEW title,
             Create(c, s, title) \/ Rename(c, s, title) \/ Remove(c, s)
      PROVE  Small
  BY <1>8 DEF Create, Rename, Remove, Edit, daemonVars, wireVars
<1>9. ASSUME NEW n, NEW ok, SaveTaskState(n, ok) \/ SaveBegins(n)  PROVE Small
  BY <1>9, <1>1 DEF SaveTaskState, SaveBegins, daemonVars, boundVars
<1>10. ASSUME NEW s \in Sessions, DriverEnds(s)  PROVE asked' \in [Sessions -> Nat]
  BY <1>10 DEF DriverEnds
<1>11. ASSUME NEW s \in Sessions, NEW ok, RemoveSession(s, ok)  PROVE Small
  BY <1>10, <1>11 DEF RemoveSession
<1>12. ASSUME NEW s \in Sessions, NEW ok, RewindStores(s, ok) \/ CloseSession(s)  PROVE Small
  BY <1>10, <1>12 DEF RewindStores, CloseSession, wireVars, boundVars
<1>13. ASSUME NEW x \in capturing, NEW ok, CaptureEnds(x, ok)  PROVE Small
  BY <1>13, <1>1 DEF CaptureEnds, wireVars
<1>14. ASSUME NEW s \in Sessions, NEW k, RewindReads(s, k)  PROVE Small
  BY <1>14 DEF RewindReads, Edit, wireVars
<1>15. Restart => Small
  BY DEF Restart
<1>16. Small
  <2>1. ASSUME NEW c \in Clients, Desktop(c)  PROVE Small
    BY <2>1, <1>3, <1>4, <1>6, <1>7, <1>8 DEF Desktop
  <2>2. Daemon => Small
    BY <1>9, <1>11, <1>12, <1>13, <1>14 DEF Daemon
  <2> QED BY <1>2, <1>15, <2>1, <2>2 DEF TaskNext
<1>17. seconds' \in Nat
  BY <1>16, SecondsAssumption DEF Clock
<1> QED BY <1>16, <1>17

WorkFilled(n) ==
  /\ rewinding \in [Sessions -> [task : MintedTasks(n), keep : Nat] \cup {NoRewind}]
  /\ capturing \subseteq [client : Clients, session : Sessions, turn : Nat, checkpoint : Nat]

LocalFilled(n) ==
  /\ local \in [Clients -> [Sessions -> MintedTasks(n) \cup {NoTask}]]
  /\ attached \in [Clients -> SUBSET Sessions]
  /\ \A c \in Clients : \A s \in attached[c] : local[c][s] \in MintedTasks(n)

WireFilled(n) ==
  /\ \A m \in BagToSet(sent) : \A s \in DOMAIN m : m[s] \in MintedTasks(n)
  /\ \A m \in BagToSet(saving) : \A s \in DOMAIN m.tasks : m.tasks[s] \in MintedTasks(n)

\* The tasks everybody has, by the messages that were made up to n.
FilledTo(n) == StoreFilled(n) /\ WorkFilled(n) /\ LocalFilled(n) /\ WireFilled(n)

LEMMA FilledGrows ==
  ASSUME NEW n \in Nat, NEW k \in Nat, n <= k, FilledTo(n)
  PROVE  FilledTo(k)
<1>1. MintedTasks(n) \subseteq MintedTasks(k) /\ MintedRows(n) \subseteq MintedRows(k)
  BY MintedGrows
<1>2. StoreFilled(k)
  BY <1>1 DEF FilledTo, StoreFilled
<1>3. WorkFilled(k)
  BY <1>1 DEF FilledTo, WorkFilled
<1>4. LocalFilled(k)
  BY <1>1 DEF FilledTo, LocalFilled
<1>5. WireFilled(k)
  BY <1>1 DEF FilledTo, WireFilled
<1> QED BY <1>2, <1>3, <1>4, <1>5 DEF FilledTo

\* One task changes, and the save is told of it.
LEMMA OneMarked ==
  ASSUME NEW n, StoreFilled(n), NEW s \in Sessions, NEW task \in MintedTasks(n), task.loaded
  PROVE  Marks([tasks EXCEPT ![s] = task], dirty \cup {s}, n)
BY DEF Marks, StoreFilled

\* The tables change by saves, in which every changed task is marked.
LEMMA DaemonSteps ==
  ASSUME Typed, NEW n, FilledTo(n), seconds' \in Nat, [TaskNext]_taskVars
  PROVE  \/ UNCHANGED storeVars
         \/ \E s \in Sessions : Reads(s)
         \/ \E now, marked : \E ok \in BOOLEAN : Marks(now, marked, n) /\ SaveTasks(now, marked, ok)
         \/ LoadTasks
<1> DEFINE Saves == \E now, marked : \E ok \in BOOLEAN : Marks(now, marked, n) /\ SaveTasks(now, marked, ok)
<1>1. StoreFilled(n) /\ WorkFilled(n) /\ WireFilled(n) /\ WorkTyped /\ WireTyped
  BY DEF FilledTo, Typed
<1>2. ASSUME NEW m \in BagToSet(saving), NEW ok \in BOOLEAN, SaveTaskState(m, ok)  PROVE Saves
  <2> DEFINE now == [s \in Sessions |-> IF s \in NotRemoved(m.tasks)
                                         THEN Accept(tasks[s], m.tasks[s], m.runtimes[s]) ELSE tasks[s]]
             marked == dirty \cup NotRemoved(m.tasks)
  <2>1. SaveTasks(now, marked, ok)
    BY <1>2 DEF SaveTaskState
  <2>2. \A s \in NotRemoved(m.tasks) : s \in Sessions /\ m.tasks[s] \in MintedTasks(n) /\ m.tasks[s].loaded
    BY <1>1 DEF WireFilled, WireTyped, IsProjections, NotRemoved
  <2>3. \A s \in NotRemoved(m.tasks) :
          /\ Accept(tasks[s], m.tasks[s], m.runtimes[s]) \in MintedTasks(n)
          /\ ~ Accept(tasks[s], m.tasks[s], m.runtimes[s]).loaded => tasks[s] # NoTask /\ ~ tasks[s].loaded
    BY <1>1, <2>2, AcceptedMinted DEF StoreFilled
  <2>4. /\ now \in [Sessions -> MintedTasks(n) \cup {NoTask}]
        /\ dirty \subseteq marked /\ marked \subseteq Sessions
    BY <1>1, <2>2, <2>3 DEF StoreFilled
  <2>5. ASSUME NEW s \in Sessions
        PROVE  /\ s \in marked \/ now[s] = tasks[s] \/ now[s] = NoTask
               /\ now[s] # NoTask /\ ~ now[s].loaded => tasks[s] # NoTask /\ ~ tasks[s].loaded
    BY <2>3
  <2>6. Marks(now, marked, n)
    BY <2>4, <2>5 DEF Marks
  <2> HIDE DEF now, marked
  <2> QED BY <2>1, <2>6
<1>3. ASSUME NEW s \in Sessions, NEW ok \in BOOLEAN, RemoveSession(s, ok)  PROVE Saves
  <2> DEFINE now == [tasks EXCEPT ![s] = NoTask]
  <2>1. SaveTasks(now, dirty, ok)
    BY <1>3 DEF RemoveSession
  <2>2. Marks(now, dirty, n)
    BY <1>1 DEF Marks, StoreFilled
  <2> HIDE DEF now
  <2> QED BY <2>1, <2>2
<1>4. ASSUME NEW s \in Sessions, NEW task \in MintedTasks(n), task.loaded, NEW ok \in BOOLEAN, Stores(s, task, ok)
      PROVE  Saves
  BY <1>1, <1>4, OneMarked DEF Stores
<1>5. ASSUME NEW x \in capturing, NEW ok \in BOOLEAN, x.turn \in DOMAIN Hydrated(x.session).turns,
             Stores(x.session, [Hydrated(x.session) EXCEPT !.turns[x.turn].checkpoint = x.checkpoint], ok)
      PROVE  Saves
  <2>1. x.session \in Sessions /\ x.checkpoint \in Nat
    BY <1>1 DEF WorkTyped, IsCapture
  <2>2. tasks[x.session] # NoTask
    BY <1>5 DEF Stores
  <2>3. Hydrated(x.session) \in MintedTasks(n) /\ Hydrated(x.session).loaded
    BY <1>1, <2>1, <2>2, HydratedMinted
  <2> DEFINE task == [Hydrated(x.session) EXCEPT !.turns[x.turn].checkpoint = x.checkpoint]
  <2>4. task \in MintedTasks(n)
    BY <1>5, <2>1, <2>3, CheckpointMinted
  <2>5. task.loaded
    BY <2>3, TaskFields DEF IsTask, Fields
  <2>6. Stores(x.session, task, ok)
    BY <1>5
  <2> HIDE DEF task
  <2> QED BY <1>4, <2>1, <2>4, <2>5, <2>6
<1>6. ASSUME NEW s \in Sessions, NEW ok \in BOOLEAN, NEW reset \in BOOLEAN, RewindStores(s, ok),
             Stores(s, Truncated(rewinding[s].task, rewinding[s].keep, reset), ok)
      PROVE  Saves
  <2>1. rewinding[s] # NoRewind
    BY <1>6 DEF RewindStores
  <2>2. /\ rewinding[s].task \in MintedTasks(n) /\ rewinding[s].task.loaded
        /\ rewinding[s].keep \in 0..Len(rewinding[s].task.turns)
    BY <1>1, <2>1 DEF WorkFilled, WorkTyped, IsRewind
  <2> DEFINE task == Truncated(rewinding[s].task, rewinding[s].keep, reset)
  <2>3. task \in MintedTasks(n)
    BY <2>2, TruncatedMinted
  <2>4. task.loaded
    BY <2>2, TaskFields, TruncatedTyped
  <2>5. Stores(s, task, ok)
    BY <1>6
  <2> HIDE DEF task
  <2> QED BY <1>4, <2>3, <2>4, <2>5
<1>7. Restart => LoadTasks
  BY DEF Restart
<1> HIDE DEF Saves
<1>8. \/ UNCHANGED <<storeVars, removed, faults>>
      \/ \E s \in Sessions : Reads(s)
      \/ Saves \/ Restart
  BY <1>1, <1>2, <1>3, <1>5, <1>6, StoreSteps
<1> QED BY <1>7, <1>8 DEF Saves

LEMMA StoreFilledStep ==
  ASSUME Typed, NEW n, FilledTo(n), seconds' \in Nat, [TaskNext]_taskVars
  PROVE  StoreFilled(n)'
<1>1. StoreFilled(n)
  BY DEF FilledTo
<1>2. UNCHANGED storeVars => StoreFilled(n)'
  BY <1>1 DEF storeVars, StoreFilled
<1> QED BY <1>1, <1>2, DaemonSteps, ReadFilled, SaveFilled, RestartFilled

LEMMA WorkFilledStep ==
  ASSUME Typed, NEW n, FilledTo(n), [TaskNext]_taskVars
  PROVE  WorkFilled(n)'
<1>0. StoreFilled(n) /\ WorkFilled(n) /\ TasksTyped /\ DetailsTyped /\ LocalTyped
  BY DEF FilledTo, Typed
<1>1. UNCHANGED <<capturing, rewinding>> => WorkFilled(n)'
  BY <1>0 DEF WorkFilled
<1>2. ASSUME NEW c \in Clients, NEW s \in Sessions, NEW k, CaptureStarts(c, s, k)  PROVE WorkFilled(n)'
  <2>1. /\ IsTask(local[c][s]) /\ k = Len(local[c][s].turns) /\ k # 0
        /\ capturing' = capturing \cup {[client |-> c, session |-> s, turn |-> k,
                                         checkpoint |-> local[c][s].turns[k].id]}
        /\ rewinding' = rewinding
    BY <1>0, <1>2 DEF CaptureStarts, AsksCapture, Editable, LocalTyped
  <2>2. local[c][s].turns \in Seq(Turns) /\ Len(local[c][s].turns) \in Nat
    BY <2>1, LenProperties DEF IsTask
  <2>3. k \in Nat /\ local[c][s].turns[k] \in Turns
    BY <2>1, <2>2, ElementOfSeq
  <2>4. local[c][s].turns[k].id \in Nat
    BY <2>3 DEF Turns
  <2> QED BY <1>0, <2>1, <2>3, <2>4 DEF WorkFilled
<1>3. ASSUME NEW x \in capturing, NEW ok, CaptureEnds(x, ok)  PROVE WorkFilled(n)'
  BY <1>0, <1>3 DEF CaptureEnds, WorkFilled
<1>4. ASSUME NEW s \in Sessions, NEW k, RewindReads(s, k)  PROVE WorkFilled(n)'
  <2>1. /\ tasks[s] # NoTask /\ k \in DOMAIN Hydrated(s).turns /\ capturing' = capturing
        /\ rewinding' = [rewinding EXCEPT ![s] = [task |-> Hydrated(s), keep |-> Retained(k)]]
    BY <1>4 DEF RewindReads
  <2>2. Hydrated(s) \in MintedTasks(n) /\ Hydrated(s).turns \in Seq(Turns)
    BY <1>0, <2>1, HydratedMinted, TaskFields
  <2>3. k \in 1..Len(Hydrated(s).turns) /\ Len(Hydrated(s).turns) \in Nat
    BY <2>1, <2>2, LenProperties
  <2>4. Retained(k) \in Nat
    BY <2>3 DEF Retained
  <2> QED BY <1>0, <2>1, <2>2, <2>4 DEF WorkFilled
<1>5. ASSUME NEW s \in Sessions, NEW ok, RewindStores(s, ok)  PROVE WorkFilled(n)'
  BY <1>0, <1>5 DEF RewindStores, WorkFilled
<1>6. CASE Restart
  BY <1>6 DEF Restart, WorkFilled
<1>7. ASSUME NEW c \in Clients, Desktop(c), \A s \in Sessions, k \in 1..(MaxEdits + 1) : ~ CaptureStarts(c, s, k)
      PROVE  UNCHANGED <<capturing, rewinding>>
  BY <1>7, DesktopStep
<1>8. ASSUME Daemon,
             \A ok \in BOOLEAN : /\ \A x \in capturing : ~ CaptureEnds(x, ok)
                                 /\ \A s \in Sessions : ~ RewindStores(s, ok),
             \A s \in Sessions, k \in 1..(MaxEdits + 1) : ~ RewindReads(s, k)
      PROVE  UNCHANGED <<capturing, rewinding>>
  BY <1>8 DEF Daemon, SaveTaskState, RemoveSession, SaveBegins, CloseSession, daemonVars
<1>9. UNCHANGED taskVars => UNCHANGED <<capturing, rewinding>>
  BY DEF taskVars, daemonVars
<1> QED BY <1>1, <1>2, <1>3, <1>4, <1>5, <1>6, <1>7, <1>8, <1>9 DEF TaskNext

\* A desktop's task changes.
LEMMA LocalFilledSet ==
  ASSUME NEW n, LocalFilled(n), NEW c \in Clients, NEW s \in Sessions, NEW task \in MintedTasks(n),
         local' = [local EXCEPT ![c][s] = task],
         attached' \in [Clients -> SUBSET Sessions],
         \A d \in Clients : attached'[d] \subseteq attached[d] \cup (IF d = c THEN {s} ELSE {})
  PROVE  LocalFilled(n)'
<1>1. \A d \in Clients, x \in Sessions : local'[d][x] = IF d = c /\ x = s THEN task ELSE local[d][x]
  BY DEF LocalFilled
<1>2. local' \in [Clients -> [Sessions -> MintedTasks(n) \cup {NoTask}]]
  <2>1. [local[c] EXCEPT ![s] = task] \in [Sessions -> MintedTasks(n) \cup {NoTask}]
    BY DEF LocalFilled
  <2>2. local' = [local EXCEPT ![c] = [local[c] EXCEPT ![s] = task]]
    OBVIOUS
  <2> QED BY <2>1, <2>2 DEF LocalFilled
<1>3. \A d \in Clients : \A x \in attached'[d] : local'[d][x] \in MintedTasks(n)
  <2>1. ASSUME NEW d \in Clients, NEW x \in attached'[d]  PROVE local'[d][x] \in MintedTasks(n)
    <3>1. x \in Sessions
      OBVIOUS
    <3>2. CASE d = c /\ x = s
      BY <1>1, <3>1, <3>2
    <3>3. CASE ~ (d = c /\ x = s)
      <4>1. x \in attached[d]
        BY <3>3
      <4> QED BY <1>1, <3>1, <3>3, <4>1 DEF LocalFilled
    <3> QED BY <3>2, <3>3
  <2> QED BY <2>1
<1> QED BY <1>2, <1>3 DEF LocalFilled

\* A checkpoint reaches the desktop that asked for it.
LEMMA ReceivedFilled ==
  ASSUME NEW n, LocalFilled(n), NEW c \in Clients, NEW s \in Sessions, NEW k, NEW checkpoint \in Nat,
         Received(c, s, k, checkpoint), attached' = attached
  PROVE  LocalFilled(n)'
<1>1. CASE UNCHANGED local
  BY <1>1 DEF LocalFilled
<1>2. CASE /\ local[c][s] # NoTask /\ k \in DOMAIN local[c][s].turns
           /\ local' = [local EXCEPT ![c][s].turns[k].checkpoint = checkpoint]
  <2> DEFINE task == [local[c][s] EXCEPT !.turns[k].checkpoint = checkpoint]
  <2>1. local[c][s] \in MintedTasks(n)
    BY <1>2 DEF LocalFilled
  <2>2. task \in MintedTasks(n)
    BY <1>2, <2>1, CheckpointMinted
  <2>3. local' = [local EXCEPT ![c][s] = task]
    BY <1>2
  <2> HIDE DEF task
  <2>4. attached' \in [Clients -> SUBSET Sessions] /\ \A d \in Clients : attached'[d] \subseteq attached[d]
    BY DEF LocalFilled
  <2> QED BY <2>2, <2>3, <2>4, LocalFilledSet
<1> QED BY <1>1, <1>2 DEF Received

LEMMA LocalFilledStep ==
  ASSUME Typed, CountersFilled, FilledTo(nextId), NEW n \in Nat, n = nextId', FilledTo(n),
         seconds' \in Nat, [TaskNext]_taskVars
  PROVE  LocalFilled(n)'
<1>0. /\ StoreFilled(n) /\ LocalFilled(n) /\ LocalFilled(nextId) /\ WorkTyped /\ CountersTyped
      /\ nextId \in Nat \ {0} /\ attached \in [Clients -> SUBSET Sessions]
  BY DEF FilledTo, Typed, CountersFilled, LocalFilled
<1>1. ASSUME local' = local, attached' \in [Clients -> SUBSET Sessions],
             \A c \in Clients : attached'[c] \subseteq attached[c]
      PROVE  LocalFilled(n)'
  BY <1>0, <1>1 DEF LocalFilled
<1>2. ASSUME attached' = attached
      PROVE  /\ attached' \in [Clients -> SUBSET Sessions]
             /\ \A c \in Clients : attached'[c] \subseteq attached[c]
             /\ \A s : \A c, d \in Clients :
                  attached'[d] \subseteq attached[d] \cup (IF d = c THEN {s} ELSE {})
  BY <1>0, <1>2
<1>3. ASSUME NEW c \in Clients, Refresh(c)  PROVE LocalFilled(n)'
  <2>1. ASSUME NEW s \in Sessions  PROVE Merged(c, s) \in MintedTasks(n) \cup {NoTask}
    <3>1. /\ local[c][s] \in MintedTasks(n) \cup {NoTask}
          /\ tasks[s] \in MintedTasks(n) \cup {NoTask}
      BY <1>0 DEF LocalFilled, StoreFilled
    <3>2. CASE local[c][s] = NoTask \/ tasks[s] = NoTask
      <4>1. CASE tasks[s] = NoTask
        BY <3>1, <4>1 DEF Merged
      <4>2. CASE tasks[s] # NoTask /\ local[c][s] = NoTask
        <5>1. Merged(c, s) = ListProjection(tasks[s])
          BY <4>2 DEF Merged
        <5> QED BY <3>1, <4>2, <5>1, OnWireMinted
      <4> QED BY <3>2, <4>1, <4>2
    <3>3. CASE local[c][s] # NoTask /\ tasks[s] # NoTask
      <4>1. local[c][s] \in MintedTasks(n) /\ tasks[s] \in MintedTasks(n)
        BY <3>1, <3>3
      <4>2. tasks[s].title \in Titles /\ tasks[s].at \in Nat /\ tasks[s].busy \in BOOLEAN
        BY <4>1, TaskFields
      <4>3. Merged(c, s) = IF s \in attached[c] THEN [local[c][s] EXCEPT !.title = tasks[s].title]
                           ELSE [local[c][s] EXCEPT !.title = tasks[s].title, !.at = tasks[s].at,
                                                    !.busy = tasks[s].busy]
        BY <3>3 DEF Merged
      <4>4. \A title \in Titles, at \in Nat, busy \in BOOLEAN :
              /\ [local[c][s] EXCEPT !.title = title] \in MintedTasks(n)
              /\ [local[c][s] EXCEPT !.title = title, !.at = at, !.busy = busy] \in MintedTasks(n)
        BY <4>1, RetitledMinted
      <4>5. CASE s \in attached[c]
        <5>1. [local[c][s] EXCEPT !.title = tasks[s].title] \in MintedTasks(n)
          BY <4>2, <4>4
        <5>2. Merged(c, s) = [local[c][s] EXCEPT !.title = tasks[s].title]
          BY <4>3, <4>5
        <5> QED BY <5>1, <5>2
      <4>6. CASE s \notin attached[c]
        <5>1. [local[c][s] EXCEPT !.title = tasks[s].title, !.at = tasks[s].at, !.busy = tasks[s].busy]
                \in MintedTasks(n)
          BY <4>2, <4>4
        <5>2. Merged(c, s) = [local[c][s] EXCEPT !.title = tasks[s].title, !.at = tasks[s].at,
                                                 !.busy = tasks[s].busy]
          BY <4>3, <4>6
        <5> QED BY <5>1, <5>2
      <4> QED BY <4>5, <4>6
    <3> QED BY <3>2, <3>3
  <2>2. /\ local' = [local EXCEPT ![c] = [s \in Sessions |-> Merged(c, s)]]
        /\ attached' = [attached EXCEPT ![c] = {s \in @ : Merged(c, s) # NoTask}]
    BY <1>3 DEF Refresh
  <2>3. [s \in Sessions |-> Merged(c, s)] \in [Sessions -> MintedTasks(n) \cup {NoTask}]
    BY <2>1
  <2>4. local' \in [Clients -> [Sessions -> MintedTasks(n) \cup {NoTask}]]
    BY <1>0, <2>2, <2>3 DEF LocalFilled
  <2>5. attached' \in [Clients -> SUBSET Sessions]
    BY <1>0, <2>2
  <2>6. \A d \in Clients : \A s \in attached'[d] : local'[d][s] \in MintedTasks(n)
    BY <1>0, <2>1, <2>2 DEF LocalFilled
  <2> QED BY <2>4, <2>5, <2>6 DEF LocalFilled
<1>4. ASSUME NEW c \in Clients, NEW s \in Sessions, Hydrate(c, s) \/ Attach(c, s)  PROVE LocalFilled(n)'
  <2>1. tasks[s] # NoTask
    BY <1>4 DEF Hydrate, Attach
  <2>2. OnWire(Hydrated(s)) \in MintedTasks(n)
    BY <1>0, <2>1, HydratedMinted, OnWireMinted
  <2>3. /\ local' = [local EXCEPT ![c][s] = OnWire(Hydrated(s))]
        /\ attached' = attached \/ attached' = [attached EXCEPT ![c] = @ \cup {s}]
    BY <1>4 DEF Hydrate, Attach
  <2>4. /\ attached' \in [Clients -> SUBSET Sessions]
        /\ \A d \in Clients : attached'[d] \subseteq attached[d] \cup (IF d = c THEN {s} ELSE {})
    BY <1>0, <2>3
  <2> QED BY <1>0, <2>2, <2>3, <2>4, LocalFilledSet
<1>5. ASSUME NEW c \in Clients, NEW s \in Sessions, NEW task \in MintedTasks(nextId), BeginTurn(c, s, task)
      PROVE  LocalFilled(n)'
  <2>1. n = nextId + 1 /\ local' = [local EXCEPT ![c][s] = WithTurn(task)]
    BY <1>5 DEF BeginTurn
  <2>2. WithTurn(task) \in MintedTasks(n)
    BY <1>0, <2>1, WithTurnMinted
  <2>3. /\ attached' \in [Clients -> SUBSET Sessions]
        /\ \A d \in Clients : attached'[d] \subseteq attached[d] \cup (IF d = c THEN {s} ELSE {})
    BY <1>0, <1>5 DEF BeginTurn
  <2> QED BY <1>0, <2>1, <2>2, <2>3, LocalFilledSet
<1>6. ASSUME NEW c \in Clients, NEW s \in Sessions, Submit(c, s)  PROVE LocalFilled(n)'
  <2>1. local[c][s] \in MintedTasks(nextId) /\ BeginTurn(c, s, local[c][s])
    BY <1>0, <1>6 DEF Submit, Editable, LocalFilled
  <2> QED BY <1>5, <2>1
<1>7. ASSUME NEW c \in Clients, NEW s \in Sessions, NEW k, Resubmit(c, s, k)  PROVE LocalFilled(n)'
  <2>1. local[c][s] \in MintedTasks(nextId) /\ k \in DOMAIN local[c][s].turns
    BY <1>0, <1>7 DEF Resubmit, Editable, LocalFilled
  <2>2. k \in 1..Len(local[c][s].turns) /\ Len(local[c][s].turns) \in Nat
    BY <2>1, TaskFields, LenProperties
  <2>3. k - 1 \in 0..Len(local[c][s].turns)
    BY <2>2
  <2>4. PICK reset \in BOOLEAN : BeginTurn(c, s, Truncated(local[c][s], k - 1, reset))
    BY <1>7 DEF Resubmit, Resets
  <2>5. Truncated(local[c][s], k - 1, reset) \in MintedTasks(nextId)
    BY <2>1, <2>3, TruncatedMinted
  <2> QED BY <1>5, <2>4, <2>5
<1>8. ASSUME NEW c \in Clients, NEW s \in Sessions, Answer(c, s)  PROVE LocalFilled(n)'
  <2> DEFINE next == IF local[c][s].cursor.runtime = active[s] THEN local[c][s].cursor.sequence + 1 ELSE 1
             cursor == [runtime |-> active[s], sequence |-> next]
             moved == [local[c][s] EXCEPT !.native = TRUE, !.cursor = cursor]
             turn == local[c][s].turns[Len(local[c][s].turns)].id
  <2>1. local[c][s] \in MintedTasks(nextId) /\ active[s] \in Nat /\ attached' = attached
    BY <1>0, <1>8 DEF Answer, LocalFilled, CountersTyped
  <2>2. cursor \in Cursors
    BY <2>1, TaskFields DEF Cursors
  <2> HIDE DEF cursor
  <2>3. moved \in MintedTasks(nextId) /\ moved.messages = local[c][s].messages
    BY <2>1, <2>2, TaskFields DEF MintedTasks, Tasks
  <2>4. \E task \in MintedTasks(n) : local' = [local EXCEPT ![c][s] = task]
    <3>1. \/ /\ local[c][s].turns # << >> /\ n = nextId + 1
             /\ local' = [local EXCEPT ![c][s] = [moved EXCEPT !.messages = Append(@, <<turn, nextId>>)]]
          \/ /\ n = nextId
             /\ local' = [local EXCEPT ![c][s] = [moved EXCEPT !.busy = FALSE, !.at = seconds']]
          \/ n = nextId /\ local' = [local EXCEPT ![c][s] = moved]
      BY <1>8 DEF Answer, cursor
    <3>2. CASE /\ local[c][s].turns # << >> /\ n = nextId + 1
               /\ local' = [local EXCEPT ![c][s] = [moved EXCEPT !.messages = Append(@, <<turn, nextId>>)]]
      <4>1. turn \in Nat
        <5>1. local[c][s].turns \in Seq(Turns)
          BY <2>1, TaskFields
        <5>2. Len(local[c][s].turns) \in 1..Len(local[c][s].turns)
          BY <3>2, <5>1, EmptySeq, LenProperties
        <5>3. local[c][s].turns[Len(local[c][s].turns)] \in Turns
          BY <5>1, <5>2, ElementOfSeq
        <5> QED BY <5>3 DEF Turns
      <4> HIDE DEF turn, moved
      <4>2. moved.messages \in Seq(Messages) /\ Minted(moved.messages, nextId) /\ moved \in Tasks
        BY <2>3, TaskFields
      <4> DEFINE messages == Append(moved.messages, <<turn, nextId>>)
      <4>3. messages \in Seq(Messages) /\ Minted(messages, nextId + 1)
        BY <1>0, <4>1, <4>2, NextMinted
      <4>4. local' = [local EXCEPT ![c][s] = [moved EXCEPT !.messages = messages]]
        BY <3>2
      <4> HIDE DEF messages
      <4>5. [moved EXCEPT !.messages = messages] \in MintedTasks(nextId + 1)
        BY <4>2, <4>3 DEF MintedTasks, Tasks
      <4> QED BY <3>2, <4>4, <4>5
    <3> HIDE DEF moved
    <3>3. CASE /\ n = nextId
               /\ local' = [local EXCEPT ![c][s] = [moved EXCEPT !.busy = FALSE, !.at = seconds']]
      <4>1. moved.title \in Titles /\ FALSE \in BOOLEAN
        BY <2>3, TaskFields
      <4>2. [moved EXCEPT !.busy = FALSE, !.at = seconds'] \in MintedTasks(nextId)
        BY <2>3, <4>1, RetitledMinted
      <4> QED BY <3>3, <4>2
    <3> QED BY <2>3, <3>1, <3>2, <3>3
  <2> QED BY <1>0, <1>2, <2>1, <2>4, LocalFilledSet
<1>9. ASSUME NEW c \in Clients, NEW s \in Sessions, Remove(c, s)  PROVE LocalFilled(n)'
  <2>1. /\ local' = [local EXCEPT ![c][s] = NoTask] /\ attached' = [attached EXCEPT ![c] = @ \ {s}]
    BY <1>9 DEF Remove
  <2>2. \A d \in Clients, x \in Sessions : local'[d][x] = IF d = c /\ x = s THEN NoTask ELSE local[d][x]
    BY <1>0, <2>1 DEF LocalFilled
  <2>3. [local[c] EXCEPT ![s] = NoTask] \in [Sessions -> MintedTasks(n) \cup {NoTask}]
    BY <1>0 DEF LocalFilled
  <2>4. local' \in [Clients -> [Sessions -> MintedTasks(n) \cup {NoTask}]]
    BY <1>0, <2>1, <2>3 DEF LocalFilled
  <2>5. attached' \in [Clients -> SUBSET Sessions]
    BY <1>0, <2>1
  <2>6. \A d \in Clients : \A x \in attached'[d] : x \in attached[d] /\ ~ (d = c /\ x = s)
    BY <1>0, <2>1
  <2>7. \A d \in Clients : \A x \in attached'[d] : local'[d][x] \in MintedTasks(n)
    BY <1>0, <2>2, <2>6 DEF LocalFilled
  <2> QED BY <2>4, <2>5, <2>7 DEF LocalFilled
<1>10. ASSUME NEW c \in Clients, NEW s \in Sessions, NEW title \in Titles, Create(c, s, title)
       PROVE  LocalFilled(n)'
  <2> DEFINE task == [loaded |-> TRUE, title |-> title, at |-> seconds', busy |-> FALSE,
                      native |-> FALSE, cursor |-> NoCursor, turns |-> << >>, messages |-> << >>]
  <2>1. task \in MintedTasks(n)
    BY NothingTyped, NoneMinted DEF MintedTasks, Tasks
  <2>2. local' = [local EXCEPT ![c][s] = task] /\ attached' = attached
    BY <1>10 DEF Create
  <2> HIDE DEF task
  <2> QED BY <1>0, <1>2, <2>1, <2>2, LocalFilledSet
<1>11. ASSUME NEW c \in Clients, NEW s \in Sessions, NEW title \in Titles, Rename(c, s, title)
       PROVE  LocalFilled(n)'
  <2> DEFINE task == [local[c][s] EXCEPT !.title = title, !.at = seconds']
  <2>1. local[c][s] \in MintedTasks(n)
    BY <1>0, <1>11 DEF Rename, LocalFilled
  <2>2. task \in MintedTasks(n)
    BY <2>1, TaskFields, RetitledMinted
  <2>3. local' = [local EXCEPT ![c][s] = task] /\ attached' = attached
    BY <1>0, <1>11, <2>1 DEF Rename, LocalFilled
  <2> HIDE DEF task
  <2> QED BY <1>0, <1>2, <2>2, <2>3, LocalFilledSet
<1>12. ASSUME NEW c \in Clients, NEW s \in Sessions, NEW k, CaptureKnown(c, s, k)  PROVE LocalFilled(n)'
  <2>1. /\ tasks[s] # NoTask /\ Captured(Hydrated(s), k) /\ attached' = attached
        /\ Received(c, s, k, Hydrated(s).turns[k].checkpoint)
    BY <1>12 DEF CaptureKnown
  <2>2. Hydrated(s).turns \in Seq(Turns) /\ k \in DOMAIN Hydrated(s).turns
    BY <1>0, <2>1, HydratedMinted, TaskFields DEF Captured
  <2>3. Hydrated(s).turns[k] \in Turns
    BY <2>2, ElementOfSeq, LenProperties
  <2>4. Hydrated(s).turns[k].checkpoint \in Nat
    BY <2>3 DEF Turns
  <2> QED BY <1>0, <2>1, <2>4, ReceivedFilled
<1>13. ASSUME NEW x \in capturing, NEW ok \in BOOLEAN, CaptureEnds(x, ok)  PROVE LocalFilled(n)'
  <2>1. x.client \in Clients /\ x.session \in Sessions /\ x.checkpoint \in Nat
    BY <1>0 DEF WorkTyped, IsCapture
  <2>2. (IF ok THEN x.checkpoint ELSE NoCheckpoint) \in Nat
    BY <2>1, NothingTyped
  <2>3. /\ Received(x.client, x.session, x.turn, IF ok THEN x.checkpoint ELSE NoCheckpoint)
        /\ attached' = attached
    BY <1>13 DEF CaptureEnds
  <2> QED BY <1>0, <2>1, <2>2, <2>3, ReceivedFilled
<1>14. ASSUME NEW c \in Clients, Save(c)  PROVE LocalFilled(n)'
  BY <1>1, <1>2, <1>14 DEF Save
<1>15. ASSUME NEW c \in Clients, NEW s \in Sessions, NEW k, CaptureStarts(c, s, k)  PROVE LocalFilled(n)'
  BY <1>1, <1>2, <1>15 DEF CaptureStarts, clientVars
<1>16. ASSUME NEW s \in Sessions, NEW ok, CloseSession(s) \/ RewindStores(s, ok)  PROVE LocalFilled(n)'
  <2>1. local' = local /\ attached' = [c \in Clients |-> attached[c] \ {s}]
    BY <1>16 DEF CloseSession, RewindStores
  <2> QED BY <1>0, <1>1, <2>1
<1>17. CASE Restart
  <2>1. local' = local /\ attached' = [c \in Clients |-> {}]
    BY <1>17 DEF Restart
  <2> QED BY <1>0, <1>1, <2>1
<1>18. ASSUME NEW m, NEW s, NEW ok, NEW k,
              SaveTaskState(m, ok) \/ RemoveSession(s, ok) \/ SaveBegins(m) \/ RewindReads(s, k)
       PROVE  LocalFilled(n)'
  BY <1>1, <1>2, <1>18 DEF SaveTaskState, RemoveSession, SaveBegins, RewindReads, clientVars
<1>19. CASE UNCHANGED taskVars
  BY <1>1, <1>2, <1>19 DEF taskVars, clientVars
<1>20. ASSUME NEW c \in Clients, Desktop(c)  PROVE LocalFilled(n)'
  BY <1>3, <1>4, <1>6, <1>7, <1>8, <1>9, <1>10, <1>11, <1>12, <1>14, <1>15, <1>20 DEF Desktop
<1>21. CASE Daemon
  BY <1>13, <1>16, <1>18, <1>21 DEF Daemon
<1> QED BY <1>17, <1>19, <1>20, <1>21 DEF TaskNext

\* A notification goes out.
LEMMA SentFilled ==
  ASSUME NEW n, WireFilled(n), NEW c, NEW mine, NEW changed \in SUBSET Sessions,
         \A s \in Sessions : mine[s] \in MintedTasks(n) \cup {NoTask},
         SendSave(c, mine, changed), saving' = saving
  PROVE  WireFilled(n)'
<1> DEFINE m == Projections(mine, changed)
<1>1. BagToSet(sent') = BagToSet(sent) \cup {m}
  BY BagGrows DEF SendSave
<1>2. \A s \in DOMAIN m : m[s] \in MintedTasks(n)
  BY OnWireMinted DEF Projections
<1> HIDE DEF m
<1> QED BY <1>1, <1>2 DEF WireFilled

LEMMA WireFilledStep ==
  ASSUME Typed, NEW n, FilledTo(n), LocalFilled(n)', [TaskNext]_taskVars
  PROVE  WireFilled(n)'
<1>0. WireFilled(n) /\ LocalFilled(n) /\ unsaved \in [Clients -> SUBSET Sessions]
  BY DEF FilledTo, Typed, CountersTyped
<1>1. UNCHANGED <<sent, saving>> => WireFilled(n)'
  BY <1>0 DEF WireFilled
<1>2. ASSUME NEW c \in Clients, Save(c)  PROVE WireFilled(n)'
  <2>1. /\ unsaved[c] \in SUBSET Sessions
        /\ \A s \in Sessions : local[c][s] \in MintedTasks(n) \cup {NoTask}
    BY <1>0 DEF LocalFilled
  <2> QED BY <1>0, <1>2, <2>1, SentFilled DEF Save
<1>3. ASSUME NEW c \in Clients, NEW s \in Sessions, NEW title, Rename(c, s, title)  PROVE WireFilled(n)'
  <2>1. /\ unsaved[c] \cup {s} \in SUBSET Sessions
        /\ \A x \in Sessions : local'[c][x] \in MintedTasks(n) \cup {NoTask}
    BY <1>0 DEF LocalFilled
  <2> QED BY <1>0, <1>3, <2>1, SentFilled DEF Rename
<1>4. ASSUME NEW m \in BagToSet(sent), SaveBegins(m)  PROVE WireFilled(n)'
  <2> DEFINE begun == [tasks |-> m, runtimes |-> active]
  <2>1. sent' = sent (-) SetToBag({m}) /\ saving' = saving (+) SetToBag({begun})
    BY <1>4 DEF SaveBegins
  <2>2. \A s \in DOMAIN begun.tasks : begun.tasks[s] \in MintedTasks(n)
    BY <1>0 DEF WireFilled
  <2> HIDE DEF begun
  <2>3. BagToSet(sent') \subseteq BagToSet(sent) /\ BagToSet(saving') = BagToSet(saving) \cup {begun}
    BY <2>1, BagShrinks, BagGrows
  <2> QED BY <1>0, <2>2, <2>3 DEF WireFilled
<1>5. ASSUME NEW m, NEW ok, SaveTaskState(m, ok)  PROVE WireFilled(n)'
  <2>1. sent' = sent /\ saving' = saving (-) SetToBag({m})
    BY <1>5 DEF SaveTaskState
  <2>2. BagToSet(saving') \subseteq BagToSet(saving)
    BY <2>1, BagShrinks
  <2> QED BY <1>0, <2>1, <2>2 DEF WireFilled
<1>6. ASSUME NEW s, NEW ok, NEW k, NEW x,
             RemoveSession(s, ok) \/ CloseSession(s) \/ RewindReads(s, k) \/ RewindStores(s, ok) \/ CaptureEnds(x, ok)
      PROVE  UNCHANGED <<sent, saving>>
  BY <1>6 DEF RemoveSession, CloseSession, RewindReads, RewindStores, CaptureEnds, wireVars
<1>7. CASE Restart
  BY <1>7 DEF Restart, WireFilled, EmptyBag, BagToSet, SetToBag
<1>8. UNCHANGED taskVars => UNCHANGED <<sent, saving>>
  BY DEF taskVars, wireVars
<1>9. ASSUME NEW c \in Clients, Desktop(c)  PROVE WireFilled(n)'
  BY <1>1, <1>2, <1>3, <1>9, DesktopStep
<1>10. CASE Daemon
  BY <1>1, <1>4, <1>5, <1>6, <1>10 DEF Daemon
<1> QED BY <1>1, <1>7, <1>8, <1>9, <1>10 DEF TaskNext

-----------------------------------------------------------------------------
(* What is stored and sent is made of tasks whose messages have been made. *)

\* Everything holds tasks, turns and messages; what is believed written is stored.
Filling == CountersFilled /\ FilledTo(nextId)

LEMMA FillingInit ==
  ASSUME TaskInit
  PROVE  Filling
<1>1. PICK stored \in SUBSET Sessions, title \in Titles :
        LET old == OldTask(title)
            ifStored(x, y) == [s \in Sessions |-> IF s \in stored THEN x ELSE y]
        IN  /\ listed = ifStored(Row(old), NoTask)
            /\ details = ifStored(Detail(old), NoTask)
            /\ messageRows = ifStored(OldRows, << >>)
            /\ tasks = ifStored(Skeleton(Row(old)), NoTask)
            /\ dirty = {} /\ persisted = stored /\ written = [s \in Sessions |-> {}]
            /\ created = stored
  BY DEF TaskInit
<1>2. /\ removed = {} /\ capturing = {} /\ asked = [s \in Sessions |-> 0]
      /\ rewinding = [s \in Sessions |-> NoRewind]
      /\ local = [c \in Clients |-> [s \in Sessions |-> NoTask]]
      /\ attached = [c \in Clients |-> {}] /\ sent = EmptyBag /\ saving = EmptyBag /\ removals = {}
      /\ seconds = 0 /\ nextId = 2
  BY DEF TaskInit
<1>3. Row(OldTask(title)) \in ListRows
  BY DEF Row, OldTask, ListRows
<1>4. Detail(OldTask(title)) \in DetailRows
  <2>1. <<[id |-> 1, checkpoint |-> NoCheckpoint]>> \in Seq(Turns)
    BY NothingTyped DEF Turns
  <2> QED BY <2>1, NothingTyped DEF Detail, OldTask, DetailRows
<1>5. OldRows \in MintedRows(2)
  <2>1. OldRows \in Seq(MessageRow) /\ DOMAIN OldRows = {1, 2}
    BY DEF OldRows, MessageRow, Messages
  <2>2. OldRows[1].id = <<1, 0>> /\ OldRows[2].id = <<1, 1>>
    BY DEF OldRows
  <2>3. Numbered(<<1, 0>>, 2) /\ Numbered(<<1, 1>>, 2) /\ <<1, 0>> # <<1, 1>>
    BY DEF Numbered
  <2>4. \A i \in {1, 2} : i = 1 \/ i = 2
    OBVIOUS
  <2>5. DistinctIds(OldRows) /\ \A r \in DOMAIN OldRows : Numbered(OldRows[r].id, 2)
    BY <2>1, <2>2, <2>3, <2>4 DEF DistinctIds
  <2> QED BY <2>1, <2>5 DEF MintedRows
<1>6. Skeleton(Row(OldTask(title))) \in MintedTasks(2)
  BY <1>3, SkeletonMinted
<1>7. StoreFilled(2)
  BY <1>1, <1>3, <1>4, <1>5, <1>6, NoneMinted DEF StoreFilled
<1>8. WorkFilled(2) /\ LocalFilled(2)
  BY <1>2 DEF WorkFilled, LocalFilled
<1>9. WireFilled(2)
  BY <1>2 DEF WireFilled, EmptyBag, BagToSet, SetToBag
<1>10. CountersFilled
  BY <1>1, <1>2 DEF CountersFilled
<1> QED BY <1>2, <1>7, <1>8, <1>9, <1>10 DEF Filling, FilledTo

LEMMA FillingStep ==
  ASSUME Typed, Filling, [TaskNext]_taskVars
  PROVE  Filling'
<1>1. CountersFilled' /\ nextId' \in {nextId, nextId + 1} /\ nextId \in Nat /\ seconds' \in Nat
  BY CountersFilledStep DEF Filling, CountersFilled
<1>2. PICK n \in Nat : n = nextId' /\ nextId <= n
  BY <1>1
<1>3. FilledTo(n)
  BY <1>1, <1>2, FilledGrows DEF Filling
<1>4. StoreFilled(n)' /\ WorkFilled(n)'
  BY <1>1, <1>3, StoreFilledStep, WorkFilledStep
<1>5. LocalFilled(n)'
  BY <1>1, <1>2, <1>3, LocalFilledStep DEF Filling
<1>6. WireFilled(n)'
  BY <1>3, <1>5, WireFilledStep
<1>7. FilledTo(n)'
  BY <1>4, <1>5, <1>6 DEF FilledTo
<1>8. FilledTo(nextId)'
  BY <1>2, <1>7 DEF FilledTo, StoreFilled, WorkFilled, LocalFilled, WireFilled
<1> QED BY <1>1, <1>8 DEF Filling

(***************************************************************************)
(* The inductive invariant behind the next two theorems: every message in  *)
(* memory, on the wire and in the tables was numbered once by begin_turn   *)
(* or push_message, and a task holds it once (model.rs:1407-1478), so that *)
(* the rows of a transcript have distinct ids (persistence.rs:1294-1345).  *)
(***************************************************************************)
THEOREM FillingInductive == TaskSpec => []Filling
<1>1. Typed /\ Filling /\ [TaskNext]_taskVars => Filling'
  BY FillingStep
<1> QED BY <1>1, FillingInit, TaskInductive, PTL DEF TaskSpec

(***************************************************************************)
(* The type invariant: tasks, rows, notifications, rewinds and captures    *)
(* have the fields and ranges their Rust types give them, after any saves, *)
(* merges, rewinds and restarts (daemon.rs:985-1080).                      *)
(***************************************************************************)
THEOREM TaskTypesCorrect == TaskSpec => []TaskTypeOK
<1>1. ASSUME Typed, Filling  PROVE TaskTypeOK
  <2>1. MintedTasks(nextId) \subseteq Tasks /\ MintedRows(nextId) \subseteq Seq([id : Messages, position : Nat])
    BY DEF MintedTasks, MintedRows, MessageRow
  <2>2. /\ listed \in [Sessions -> [title : Titles, at : Nat, busy : BOOLEAN] \cup {NoTask}]
        /\ details \in [Sessions -> [turns : Seq(Turns), native : BOOLEAN, cursor : Cursors] \cup {NoTask}]
        /\ dirty \subseteq Sessions /\ persisted \subseteq Sessions
    BY <1>1 DEF Filling, FilledTo, StoreFilled, ListRows, DetailRows
  <2>3. messageRows \in [Sessions -> Seq([id : Messages, position : Nat])]
    BY <1>1, <2>1 DEF Filling, FilledTo, StoreFilled
  <2>4. tasks \in [Sessions -> Tasks \cup {NoTask}]
    BY <1>1, <2>1 DEF Filling, FilledTo, StoreFilled
  <2>5. \A s \in Sessions : written[s] \subseteq [id : Messages, position : Nat]
    <3>1. ASSUME NEW s \in Sessions  PROVE Range(messageRows[s]) \subseteq MessageRow
      <4>1. messageRows[s] \in Seq(MessageRow)
        BY <2>3 DEF MessageRow
      <4> QED BY <4>1, ElementOfSeq, LenProperties DEF Range
    <3>2. \A s \in Sessions : written[s] \subseteq Range(messageRows[s])
      BY <1>1 DEF Filling, FilledTo, StoreFilled
    <3> QED BY <3>1, <3>2 DEF MessageRow
  <2>6. rewinding \in [Sessions -> [task : Tasks, keep : Nat] \cup {NoRewind}]
    BY <1>1, <2>1 DEF Filling, FilledTo, WorkFilled
  <2>7. local \in [Clients -> [Sessions -> Tasks \cup {NoTask}]]
    BY <1>1, <2>1 DEF Filling, FilledTo, LocalFilled
  <2>8. /\ capturing \subseteq [client : Clients, session : Sessions, turn : Nat, checkpoint : Nat]
        /\ attached \in [Clients -> SUBSET Sessions]
    BY <1>1 DEF Filling, FilledTo, WorkFilled, LocalFilled
  <2>9. /\ removed \subseteq Sessions /\ removals \subseteq Sessions /\ created \subseteq Sessions
        /\ asked \in [Sessions -> Nat] /\ active \in [Sessions -> Nat]
        /\ unsaved \in [Clients -> SUBSET Sessions]
    BY <1>1 DEF Filling, CountersFilled, Typed, CountersTyped
  <2> QED BY <2>2, <2>3, <2>4, <2>5, <2>6, <2>7, <2>8, <2>9 DEF TaskTypeOK
<1> QED BY <1>1, TaskInductive, FillingInductive, PTL

(***************************************************************************)
(* What a connection believes to have written is there, whatever failed: a *)
(* message the next save skips has its row at that position, also when a   *)
(* save failed after its statements and before its commit                  *)
(* (persistence.rs:1328-1330).                                             *)
(***************************************************************************)
THEOREM WrittenCorrect == TaskSpec => []WrittenIsStored
<1>1. Filling => WrittenIsStored
  BY DEF Filling, FilledTo, StoreFilled, WrittenIsStored, Range
<1> QED BY <1>1, FillingInductive, PTL

-----------------------------------------------------------------------------
(* What need not be written again. *)

\* A started task that no save was told of is in the tables; list rows and unread tasks have details.
CleanIsKept ==
  /\ \A s \in Sessions : listed[s] # NoTask => details[s] # NoTask
  /\ \A s \in Sessions : tasks[s] # NoTask /\ ~ tasks[s].loaded => details[s] # NoTask
  /\ \A s \in Live(tasks) \ dirty :
       /\ s \in persisted /\ listed[s] = Row(tasks[s])
       /\ tasks[s].loaded => details[s] = Detail(tasks[s]) /\ Recovers(s)

LEMMA DetailIsThere ==
  ASSUME NEW n, NEW task \in MintedTasks(n)
  PROVE  Detail(task) # NoTask
BY RowsOfTasks, NoTaskAssumption DEF DetailRows

\* Reading a clean task brings what is stored of it.
LEMMA ReadKeepsClean ==
  ASSUME NEW n, StoreFilled(n), CleanIsKept, NEW x \in Sessions, Reads(x)
  PROVE  CleanIsKept'
<1>1. /\ UNCHANGED <<listed, details, messageRows, dirty, persisted>>
      /\ tasks[x] # NoTask /\ tasks' = [tasks EXCEPT ![x] = Hydrated(x)]
      /\ \A s \in Sessions : tasks'[s] = IF s = x THEN Hydrated(x) ELSE tasks[s]
  BY DEF Reads, diskVars, StoreFilled
<1>2. /\ Hydrated(x) \in MintedTasks(n) /\ Hydrated(x).loaded /\ Row(Hydrated(x)) = Row(tasks[x])
      /\ tasks[x].loaded => Hydrated(x) = tasks[x]
      /\ tasks[x] \in MintedTasks(n)
  BY <1>1, HydratedMinted DEF StoreFilled
<1>3. \A s \in Sessions : tasks'[s] # NoTask /\ ~ tasks'[s].loaded => details'[s] # NoTask
  BY <1>1, <1>2 DEF CleanIsKept
<1>4. ASSUME NEW s \in Live(tasks') \ dirty'
      PROVE  /\ s \in persisted' /\ listed'[s] = Row(tasks'[s])
             /\ tasks'[s].loaded => details'[s] = Detail(tasks'[s]) /\ Recovers(s)'
  <2>1. s \in Sessions
    BY DEF Live
  <2>2. CASE tasks'[s] = tasks[s]
    <3>1. s \in Live(tasks) \ dirty
      BY <1>1, <2>1, <2>2 DEF Live
    <3> QED BY <1>1, <2>2, <3>1 DEF CleanIsKept, Recovers
  <2>3. CASE s = x /\ ~ tasks[x].loaded
    <3>1. tasks[x].loaded = FALSE /\ s \in Live(tasks) \ dirty
      BY <1>1, <1>2, <2>1, <2>3, TaskFields DEF Live, HasStarted
    <3>2. details[x] # NoTask /\ details[x] \in DetailRows /\ s \in persisted /\ listed[x] = Row(tasks[x])
      BY <2>1, <2>3, <3>1 DEF CleanIsKept, Live, StoreFilled
    <3>3. Hydrated(x) = [tasks[x] EXCEPT !.loaded = TRUE, !.turns = details[x].turns,
                           !.native = details[x].native, !.cursor = details[x].cursor,
                           !.messages = InOrder(messageRows[x])]
      BY <2>3, <3>2 DEF Hydrated
    <3>4. /\ Hydrated(x).turns = details[x].turns /\ Hydrated(x).native = details[x].native
          /\ Hydrated(x).cursor = details[x].cursor /\ Hydrated(x).messages = InOrder(messageRows[x])
      BY <1>2, <3>3, TaskFields DEF Tasks
    <3>5. Detail(Hydrated(x)) = details[x]
      BY <3>2, <3>4 DEF Detail, DetailRows
    <3>6. Among(InOrder(messageRows[x]), Range(InOrder(messageRows[x]))) = InOrder(messageRows[x])
      <4>1. Hydrated(x).messages \in Seq(Messages)
        BY <1>2, TaskFields
      <4>2. InOrder(messageRows[x]) \in Seq(Messages)
        BY <3>4, <4>1
      <4> QED BY <4>2, AmongAll
    <3>7. tasks'[s] = Hydrated(x)
      BY <1>1, <2>3
    <3>8. Recovers(s)'
      BY <1>1, <2>3, <3>4, <3>6, <3>7 DEF Recovers
    <3> QED BY <1>1, <1>2, <2>3, <3>2, <3>5, <3>7, <3>8
  <2> QED BY <1>1, <1>2, <2>1, <2>2, <2>3
<1> QED BY <1>1, <1>3, <1>4 DEF CleanIsKept

\* A save leaves nothing clean that it has not written, now or before.
LEMMA SaveKeepsClean ==
  ASSUME NEW n, StoreFilled(n), CleanIsKept, NEW now, NEW marked, Marks(now, marked, n), NEW ok,
         SaveTasks(now, marked, ok)
  PROVE  CleanIsKept'
<1>1. /\ tasks' = now /\ now \in [Sessions -> MintedTasks(n) \cup {NoTask}]
      /\ dirty \subseteq marked
      /\ \A s \in Sessions : s \in marked \/ now[s] = tasks[s] \/ now[s] = NoTask
      /\ \A s \in Sessions : now[s] # NoTask /\ ~ now[s].loaded => tasks[s] # NoTask /\ ~ tasks[s].loaded
  BY DEF Marks, SaveTasks, SaveCommits, SaveFails
<1>2. \A s \in Live(now) : s \in Sessions /\ now[s] # NoTask /\ now[s] \in MintedTasks(n)
  BY <1>1 DEF Live
\* What was not marked is as it was.
<1>3. ASSUME NEW s \in Live(now) \ marked
      PROVE  /\ s \in Sessions /\ now[s] = tasks[s] /\ s \in persisted /\ listed[s] = Row(now[s])
             /\ now[s].loaded => details[s] = Detail(now[s]) /\ Recovers(s)
  <2>1. s \in Sessions /\ now[s] = tasks[s]
    BY <1>1, <1>2
  <2>2. s \in Live(tasks) \ dirty
    BY <1>1, <2>1 DEF Live
  <2> QED BY <2>1, <2>2 DEF CleanIsKept
<1>4. \A s \in Sessions : now[s] # NoTask /\ ~ now[s].loaded => details[s] # NoTask
  BY <1>1 DEF CleanIsKept
<1>5. CASE ~ ok
  <2>1. SaveFails(now, marked)
    BY <1>5 DEF SaveTasks
  <2>2. UNCHANGED <<listed, details, messageRows>> /\ dirty' = marked
    BY <2>1 DEF SaveFails, diskVars
  <2>3. \A s \in Live(now) : s \in persisted => s \in persisted'
    BY <2>1 DEF SaveFails, Gone
  <2>4. ASSUME NEW s \in Live(tasks') \ dirty'
        PROVE  /\ s \in persisted' /\ listed'[s] = Row(tasks'[s])
               /\ tasks'[s].loaded => details'[s] = Detail(tasks'[s]) /\ Recovers(s)'
    <3>1. s \in Live(now) \ marked
      BY <1>1, <2>2
    <3> QED BY <1>1, <1>3, <2>2, <2>3, <3>1 DEF Recovers
  <2> QED BY <1>1, <1>4, <2>2, <2>4 DEF CleanIsKept
<1>6. CASE ok
  <2>1. SaveCommits(now, marked)
    BY <1>6 DEF SaveTasks
  <2>2. \A s \in Sessions :
          /\ listed'[s] = IF s \in Upserted(now, marked) THEN Row(now[s])
                          ELSE IF s \in Gone(now) THEN NoTask ELSE listed[s]
          /\ details'[s] = IF s \in Whole(now, marked) THEN Detail(now[s])
                           ELSE IF s \in Gone(now) THEN NoTask ELSE details[s]
          /\ messageRows'[s] =
               IF s \in Whole(now, marked) THEN WriteMessages(messageRows[s], now[s].messages, written[s])
               ELSE IF s \in Gone(now) THEN << >> ELSE messageRows[s]
    BY <2>1 DEF SaveCommits
  <2>3. dirty' = {} /\ persisted' = (persisted \cup Upserted(now, marked)) \ Gone(now)
    BY <2>1 DEF SaveCommits
  <2>4. /\ Whole(now, marked) \subseteq Upserted(now, marked)
        /\ Upserted(now, marked) \subseteq Live(now) /\ Live(now) \cap Gone(now) = {}
        /\ \A s \in Upserted(now, marked) : s \in Whole(now, marked) \/ ~ now[s].loaded
        /\ \A s \in Whole(now, marked) : now[s].loaded
    BY DEF Upserted, Whole, ListOnly, Gone, Live
  <2>5. \A s \in Whole(now, marked) : Detail(now[s]) # NoTask
    BY <1>2, <2>4, DetailIsThere
  <2>6. ASSUME NEW s \in Sessions, now[s] # NoTask, ~ now[s].loaded  PROVE details'[s] # NoTask
    <3>1. s \in Live(now) /\ s \notin Gone(now) /\ s \notin Whole(now, marked)
      BY <2>4, <2>6 DEF Live, HasStarted, Gone
    <3> QED BY <1>4, <2>2, <2>6, <3>1
  <2>7. ASSUME NEW s \in Sessions, listed'[s] # NoTask  PROVE details'[s] # NoTask
    <3>1. CASE s \in Whole(now, marked)
      BY <2>2, <2>5, <3>1
    <3>2. CASE s \in Upserted(now, marked) /\ s \notin Whole(now, marked)
      BY <1>2, <2>4, <2>6, <3>2
    <3>3. CASE s \notin Upserted(now, marked)
      <4>1. s \notin Gone(now) /\ s \notin Whole(now, marked)
        BY <2>2, <2>4, <2>7, <3>3
      <4>2. listed[s] # NoTask /\ details'[s] = details[s]
        BY <2>2, <2>7, <3>3, <4>1
      <4> QED BY <4>2 DEF CleanIsKept
    <3> QED BY <3>1, <3>2, <3>3
  <2>8. ASSUME NEW s \in Live(now)
        PROVE  /\ s \in persisted' /\ listed'[s] = Row(now[s])
               /\ now[s].loaded => details'[s] = Detail(now[s]) /\ Recovers(s)'
    <3>0. s \in Sessions /\ now[s] \in MintedTasks(n) /\ s \notin Gone(now)
      BY <1>2, <2>4
    <3>1. CASE s \in Whole(now, marked)
      <4>1. /\ s \in persisted' /\ listed'[s] = Row(now[s]) /\ details'[s] = Detail(now[s])
            /\ messageRows'[s] = WriteMessages(messageRows[s], now[s].messages, written[s])
        BY <2>2, <2>3, <2>4, <3>0, <3>1
      <4>2. messageRows[s] \in MintedRows(n) /\ written[s] \subseteq Range(messageRows[s])
        BY <3>0 DEF StoreFilled
      <4>3. Among(InOrder(messageRows'[s]), Range(now[s].messages)) = now[s].messages
        <5>1. LET stored == WriteMessages(messageRows[s], now[s].messages, written[s])
              IN  Among(InOrder(stored), Range(now[s].messages)) = now[s].messages
          BY <3>0, <4>2, TranscriptWritten
        <5> QED BY <4>1, <5>1
      <4> QED BY <1>1, <4>1, <4>3 DEF Recovers
    <3>2. CASE s \in Upserted(now, marked) /\ s \notin Whole(now, marked)
      <4>1. ~ now[s].loaded
        BY <2>4, <3>2
      <4> QED BY <2>2, <2>3, <2>4, <3>0, <3>2, <4>1
    <3>3. CASE s \notin Upserted(now, marked)
      <4>1. s \notin marked
        BY <3>3 DEF Upserted, ListOnly, Whole
      <4>2. s \notin Whole(now, marked)
        BY <2>4, <3>3
      <4>3. UNCHANGED <<listed[s], details[s], messageRows[s]>>
        BY <2>2, <3>0, <3>3, <4>2
      <4> QED BY <1>1, <1>3, <2>3, <3>0, <4>1, <4>3 DEF Recovers
    <3> QED BY <3>1, <3>2, <3>3
  <2> QED BY <1>1, <2>3, <2>6, <2>7, <2>8 DEF CleanIsKept
<1> QED BY <1>5, <1>6

\* A new daemon process starts with what is listed.
LEMMA RestartKeepsClean ==
  ASSUME NEW n, StoreFilled(n), CleanIsKept, LoadTasks
  PROVE  CleanIsKept'
<1>1. /\ UNCHANGED <<listed, details, messageRows>> /\ dirty' = {}
      /\ persisted' = {s \in Sessions : listed[s] # NoTask}
      /\ \A s \in Sessions : tasks'[s] = IF listed[s] = NoTask THEN NoTask ELSE Skeleton(listed[s])
  BY DEF LoadTasks, diskVars
<1>2. \A s \in Sessions : listed[s] # NoTask =>
        Row(Skeleton(listed[s])) = listed[s] /\ ~ Skeleton(listed[s]).loaded
  BY SkeletonMinted DEF StoreFilled, Skeleton
<1>3. \A s \in Sessions : tasks'[s] # NoTask => listed[s] # NoTask /\ tasks'[s] = Skeleton(listed[s])
  BY <1>1
<1>4. \A s \in Sessions : listed[s] # NoTask => details[s] # NoTask
  BY DEF CleanIsKept
<1>5. \A s \in Live(tasks') : s \in Sessions /\ tasks'[s] # NoTask
  BY DEF Live
<1> QED BY <1>1, <1>2, <1>3, <1>4, <1>5 DEF CleanIsKept

LEMMA CleanInit ==
  ASSUME TaskInit
  PROVE  CleanIsKept
<1>1. PICK stored \in SUBSET Sessions, title \in Titles :
        LET old == OldTask(title)
            ifStored(x, y) == [s \in Sessions |-> IF s \in stored THEN x ELSE y]
        IN  /\ listed = ifStored(Row(old), NoTask)
            /\ details = ifStored(Detail(old), NoTask)
            /\ tasks = ifStored(Skeleton(Row(old)), NoTask)
            /\ dirty = {} /\ persisted = stored
  BY DEF TaskInit
<1>2. Row(OldTask(title)) \in ListRows
  BY DEF Row, OldTask, ListRows
<1>3. Detail(OldTask(title)) # NoTask
  <2>1. <<[id |-> 1, checkpoint |-> NoCheckpoint]>> \in Seq(Turns)
    BY NothingTyped DEF Turns
  <2>2. Detail(OldTask(title)) \in DetailRows
    BY <2>1, NothingTyped DEF Detail, OldTask, DetailRows
  <2> QED BY <2>2, NoTaskAssumption DEF DetailRows
<1> DEFINE row == Row(OldTask(title))
           detail == Detail(OldTask(title))
<1>4. Row(Skeleton(row)) = row /\ ~ Skeleton(row).loaded
  BY <1>2, SkeletonMinted DEF Skeleton
<1>5. \A s \in Sessions :
        /\ listed[s] = IF s \in stored THEN row ELSE NoTask
        /\ details[s] = IF s \in stored THEN detail ELSE NoTask
        /\ tasks[s] = IF s \in stored THEN Skeleton(row) ELSE NoTask
  BY <1>1
<1> HIDE DEF row, detail
<1>6. detail # NoTask
  BY <1>3 DEF detail
<1>7. \A s \in Live(tasks) : s \in Sessions /\ tasks[s] # NoTask
  BY DEF Live
<1>8. dirty = {} /\ persisted = stored
  BY <1>1
<1> QED BY <1>4, <1>5, <1>6, <1>7, <1>8 DEF CleanIsKept

LEMMA CleanStep ==
  ASSUME Typed, Filling, CleanIsKept, [TaskNext]_taskVars
  PROVE  CleanIsKept'
<1>1. seconds' \in Nat /\ FilledTo(nextId) /\ StoreFilled(nextId)
  BY CountersFilledStep DEF Filling, FilledTo, CountersFilled
<1>2. UNCHANGED storeVars => CleanIsKept'
  BY DEF storeVars, CleanIsKept, Live, Recovers
<1> QED BY <1>1, <1>2, DaemonSteps, ReadKeepsClean, SaveKeepsClean, RestartKeepsClean

(***************************************************************************)
(* A started task the next save would not write is stored: its list row,   *)
(* its turns and cursor, and every message, in the order of the transcript *)
(* (persistence.rs:1144-1180).  Failing saves, tasks that were only read   *)
(* as list rows and projections in any order are among the steps.          *)
(***************************************************************************)
THEOREM CleanCorrect == TaskSpec => []CleanIsStored
<1>1. CleanIsKept => CleanIsStored
  <2> SUFFICES ASSUME CleanIsKept, NEW s \in Live(tasks) \ Upserted(tasks, dirty)
               PROVE  s \in Live(tasks) \ dirty
    BY DEF CleanIsKept, CleanIsStored
  <2> QED BY DEF Upserted, ListOnly, Whole
<1>2. Typed /\ Filling /\ CleanIsKept /\ [TaskNext]_taskVars => CleanIsKept'
  BY CleanStep
<1> QED BY <1>1, <1>2, CleanInit, TaskInductive, FillingInductive, PTL DEF TaskSpec
=============================================================================
