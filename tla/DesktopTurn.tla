----------------------------- MODULE DesktopTurn -----------------------------
(***************************************************************************)
(* How the desktop sends what a user types in one task: the composer, the  *)
(* follow-up queue, turns, steering, the preparation that runs before a    *)
(* prompt, checkpoints, goals, response forks and Stop (src/app/runtime.rs,*)
(* streaming.rs, sessions.rs, goal_dialog.rs).  Every handler runs to its  *)
(* end on the UI thread, so each is one action; what interleaves are the   *)
(* background tasks, the driver and the user.  A handler is an operator    *)
(* from the state of the task to its next state, because handlers call one *)
(* another.                                                                *)
(***************************************************************************)
EXTENDS TurnStream, FiniteSets, SequencesExt

CONSTANTS
  Providers, \* the kinds of provider the task may be of
  NoMessage, \* an empty composer
  Texts(_),    \* the messages its user sends, by provider
  Noise(_),    \* the events that belong to a turn which such a provider may send
  MaxTurns(_), \* bound, by provider: turns of the task when the user sends a message
  MaxPursued,  \* bound: turns of the task when a goal may begin another
  MaxUnread, \* bound: events unread when the driver sends one that is not about a turn
  MaxEvents, \* bound: events unread when the driver has sent another
  MaxCalls   \* bound: calls waiting when the user makes another

ASSUME NoMessageAssumption == NoMessage \notin Messages
ASSUME NoiseAssumption == \A p \in Providers : Noise(p) \subseteq Chatter /\ Texts(p) \subseteq Messages
ASSUME TurnBoundsAssumption == {MaxTurns(p) : p \in Providers} \cup {MaxPursued, MaxUnread, MaxEvents, MaxCalls} \subseteq Nat

VARIABLES
  task,    \* the task as the desktop holds it
  wake,    \* the event pump has been woken
  fresh,   \* messages nobody has typed yet
  sent,    \* history: <<turn, message>> for every prompt handed to the driver
  owed     \* history: a turn completed with follow-ups queued, and none was sent since

desktopVars == <<task, wake, fresh, sent, owed, streamVars>>

Turn == [status : {"Running", "Completed", "Failed", "Interrupted"},
         started : BOOLEAN, messages : Seq(Messages)]

Preparation == [message : Messages, starts : BOOLEAN]

Task == [provider : Providers,
         status : {"Idle", "Connecting", "Working", "Waiting", "Failed"},
         composer : Messages \cup {NoMessage},
         queue : Seq(Messages),     \* queued_messages
         turns : Seq(Turn),
         loose : SUBSET Messages,   \* messages of the transcript outside any turn
         runtime : BOOLEAN,         \* an entry of runtimes
         steers : Seq(Messages),    \* its pending_steers
         misread : BOOLEAN,         \* history: a rejection was taken for another steer's
         preparing : BOOLEAN,       \* an entry of submission_preparations
         preparations : Seq(Preparation), \* their background tasks
         goalStart : BOOLEAN,       \* an entry of goal_runtime_starts, and its task
         goals : BOOLEAN,           \* an entry of pending_goal_operations
         fork : BOOLEAN,            \* an entry of response_fork_preparations
         forkDriver : BOOLEAN,      \* its task starts a driver
         drain : BOOLEAN,           \* an entry of pending_queue_drains
         captures : SUBSET Nat,     \* pending_checkpoint_captures, by turn count
         inFlight : SUBSET Nat]     \* checkpoint_captures_in_flight

NewTask(provider) ==
  [provider |-> provider, status |-> "Idle", composer |-> NoMessage, queue |-> <<>>,
   turns |-> <<>>, loose |-> {}, runtime |-> FALSE, steers |-> <<>>, misread |-> FALSE,
   preparing |-> FALSE, preparations |-> <<>>, goalStart |-> FALSE, goals |-> FALSE,
   fork |-> FALSE, forkDriver |-> FALSE, drain |-> FALSE, captures |-> {}, inFlight |-> {}]

-----------------------------------------------------------------------------
(* What differs between providers *)

SetsGoals(t) == t.provider \in {"Codex", "Pi"}
StartsItself(t) == t.provider = "Codex"
KeepsRuntime(t) == t.provider \notin {"Codex", "Amp"}
ForkStarts(t) == t.provider \in {"Codex", "DeepSeek", "OhMyPi", "Pi"}
UnaskedStarts(t) == IF t.provider = "DeepSeek" THEN {0, 1} ELSE {0}
UnaskedFinishes(t) ==
  IF t.provider \in {"Pi", "OhMyPi", "OpenCode", "DeepSeek"} THEN {0, 1} ELSE {0}
Attempts(t) == IF t.provider \in {"Pi", "OhMyPi", "DeepSeek"} THEN 2 ELSE 1
Eager(t) == t.provider = "DeepSeek"
FailedForkCloses(t) == t.provider \in {"Pi", "OhMyPi"}

-----------------------------------------------------------------------------
(* The session: model.rs *)

Busy(t) == t.status \in {"Connecting", "Working", "Waiting"}
Active(t) == t.turns # <<>> /\ Last(t.turns).status = "Running"
Unstarted(t) == Active(t) /\ ~Last(t.turns).started
UnconfirmedPursuit(t) == Unstarted(t) /\ Last(t.turns).messages = <<>>

BeginTurn(t, messages) ==
  [t EXCEPT !.turns = Append(@, [status |-> "Running", started |-> FALSE, messages |-> messages])]

MarkStarted(t) == IF Active(t) THEN [t EXCEPT !.turns[Len(t.turns)].started = TRUE] ELSE t
Finish(t, outcome) == IF Active(t) THEN [t EXCEPT !.turns[Len(t.turns)].status = outcome] ELSE t
Unwind(t) == IF Unstarted(t) THEN [t EXCEPT !.turns = Front(@)] ELSE t

PushMessage(t, m) ==
  IF Active(t) THEN [t EXCEPT !.turns[Len(t.turns)].messages = Append(@, m)]
               ELSE [t EXCEPT !.loose = @ \cup {m}]

UnwindPursuit(t) ==
  IF UnconfirmedPursuit(t)
  THEN [Unwind(t) EXCEPT !.status = IF Busy(t) THEN "Idle" ELSE @]
  ELSE t

-----------------------------------------------------------------------------
(* Checkpoints, the follow-up queue and submissions: runtime.rs *)

\* A mistake: a capture that has started no longer counts as pending.
QueuedCapturePending(t) == ~Active(t) /\ Len(t.turns) \in t.captures

CapturePending(t) == ~Active(t) /\ Len(t.turns) \in t.captures \cup t.inFlight

CaptureLatest(t) ==
  IF t.turns = <<>> \/ Active(t) \/ CapturePending(t)
  THEN t ELSE [t EXCEPT !.captures = @ \cup {Len(t.turns)}]

StartCaptures(t) == [t EXCEPT !.captures = {}, !.inFlight = @ \cup t.captures]

Enqueue(t, m) == [t EXCEPT !.queue = Append(@, m)]
EnqueueDeferred(t, m) == [Enqueue(t, m) EXCEPT !.drain = TRUE]

\* submit_submission_for_session
Submit(t, m) ==
  CASE t.fork -> t
    [] ~t.fork /\ (CapturePending(t) \/ t.goalStart) -> EnqueueDeferred(t, m)
    [] ~t.fork /\ ~CapturePending(t) /\ ~t.goalStart /\ Busy(t) -> Enqueue(t, m)
    [] OTHER -> [BeginTurn(t, <<m>>) EXCEPT
                   !.status = "Connecting",
                   !.preparing = TRUE,
                   !.preparations = Append(@, [message |-> m, starts |-> ~t.runtime])]

\* submit_composer_submission
SubmitComposer(t, m) == IF ~t.fork /\ Busy(t) THEN Enqueue(t, m) ELSE Submit(t, m)

\* A mistake: the message that is sent stays in the queue.
DrainKeeping(t) ==
  IF t.fork \/ Busy(t) \/ t.queue = <<>> \/ CapturePending(t) \/ t.goalStart
  THEN t
  ELSE Submit(t, Head(t.queue))

\* drain_queued_message
Drain(t) ==
  IF t.fork \/ Busy(t) \/ t.queue = <<>> \/ CapturePending(t) \/ t.goalStart
  THEN t
  ELSE Submit([t EXCEPT !.queue = Tail(@)], Head(t.queue))

\* What a checkpoint that lands, or the end of an event pass, does with a drain
\* that was put off.
TakeDrain(t) == IF t.drain THEN Drain([t EXCEPT !.drain = FALSE]) ELSE t

CanSteer(t) == Busy(t) /\ Active(t) /\ ~Unstarted(t) /\ t.runtime

-----------------------------------------------------------------------------
(* handle_driver_event: streaming.rs *)

AcceptsOutput(t) == ~t.preparing /\ Active(t) /\ Busy(t)

TakeOutput(t) ==
  IF AcceptsOutput(t)
  THEN [MarkStarted(t) EXCEPT !.status = IF @ = "Connecting" THEN "Working" ELSE @]
  ELSE t

OnTurnStarted(t) ==
  CASE Active(t) -> [MarkStarted(t) EXCEPT !.status = "Working"]
    [] ~Active(t) /\ StartsItself(t) -> [MarkStarted(BeginTurn(t, <<>>)) EXCEPT !.status = "Working"]
    [] OTHER -> t

\* The submission an answer is for: the one with its text, else the oldest
\* that waits, else the text itself.
Answered(t, m) ==
  IF m \in Range(t.steers) \/ t.steers = <<>> THEN m ELSE Head(t.steers)

WithoutSteer(t, m) == [t EXCEPT !.steers = RemoveFirst(@, Answered(t, m))]

\* A mistake: the message goes back to the queue and is still awaited.
OnSteerRejectedAwaiting(t, m, drains) == Enqueue(t, Answered(t, m))

OnSteerRejected(t, m, drains) ==
  LET a == Answered(t, m)
      u == [WithoutSteer(t, m) EXCEPT !.misread = @ \/ a # m]
  IN  IF ~Busy(t) /\ t.turns # <<>> /\ Last(t.turns).status = "Completed"
      THEN [u EXCEPT !.queue = <<a>> \o @, !.drain = @ \/ drains]
      ELSE Enqueue(u, a)

OnTurnFinished(t, ok, drains) ==
  IF ~Active(t)
  THEN t
  ELSE [CaptureLatest(Finish(t, IF ok THEN "Completed" ELSE "Failed")) EXCEPT
          !.status = IF ok THEN "Idle" ELSE "Failed",
          !.drain = @ \/ (drains /\ ok)]

OnError(t) ==
  LET u == UnwindPursuit(t)
  IN  [u EXCEPT !.status = IF Active(u) /\ @ # "Working" THEN "Failed" ELSE @]

\* A mistake: what the closed runtime was asked stays behind.
DropRuntimeOnly(t) == [t EXCEPT !.runtime = FALSE]

DropRuntime(t) == [t EXCEPT !.runtime = FALSE, !.steers = <<>>]

OnExit(t) ==
  DropRuntime(IF Busy(t)
              THEN LET u == [Finish(t, "Failed") EXCEPT !.status = "Failed"]
                   IN  IF Active(t) THEN CaptureLatest(u) ELSE u
              ELSE t)

\* "drains" is FALSE when Stop flushes what is already there.  An event that
\* ends the runtime leaves the ones behind it unread.
HandleEvent(t, e, drains) ==
  CASE ~t.runtime -> t
    [] t.runtime /\ e.event = "TurnStarted" -> OnTurnStarted(t)
    [] t.runtime /\ e.event = "Connected" ->
         [t EXCEPT !.status = IF @ = "Connecting" THEN "Working" ELSE @]
    [] t.runtime /\ e.event = "Output" -> TakeOutput(t)
    [] t.runtime /\ e.event = "Permission" ->
         IF AcceptsOutput(t) THEN [TakeOutput(t) EXCEPT !.status = "Waiting"] ELSE t
    [] t.runtime /\ e.event = "SteerAccepted" ->
         PushMessage(WithoutSteer(t, e.message), e.message)
    [] t.runtime /\ e.event = "SteerRejected" -> OnSteerRejected(t, e.message, drains)
    [] t.runtime /\ e.event = "TurnFinished" -> OnTurnFinished(t, e.success, drains)
    [] t.runtime /\ e.event = "Error" -> OnError(t)
    [] t.runtime /\ e.event = "ProcessExited" -> OnExit(t)

HandleEvents(t, drains) ==
  LET after[i \in 0..Len(events)] ==
        IF i = 0 THEN t ELSE HandleEvent(after[i - 1], events[i], drains)
  IN  after[Len(events)]

-----------------------------------------------------------------------------
(* How an action ends: the task becomes t, the driver is given the calls   *)
(* "more", and "unread" is left of its events.  A runtime that leaves the  *)
(* map is closed with everything under way; a new one starts empty.        *)

Keeps(t) == t.runtime /\ task.runtime
Opens(t) == t.runtime /\ ~task.runtime

Become(t, more, unread) ==
  /\ task' = t
  /\ calls' = CASE Keeps(t) -> calls \o more [] Opens(t) -> more [] OTHER -> <<>>
  /\ events' = IF Keeps(t) THEN unread ELSE <<>>
  /\ starts' \in CASE Keeps(t) -> {starts} [] Opens(t) -> UnaskedStarts(t) [] OTHER -> {0}
  /\ finishes' \in CASE Keeps(t) -> {finishes} [] Opens(t) -> UnaskedFinishes(t) [] OTHER -> {0}
  /\ steering' = IF Keeps(t) THEN steering ELSE {}
  /\ exited' = (Keeps(t) /\ exited)
  /\ UNCHANGED <<pursues, attempts, eager>>

CompletedTurns(t) == {i \in DOMAIN t.turns : t.turns[i].status = "Completed"}

\* The history an action leaves: is it Stop, and which prompts did the
\* driver get.
Remember(stop, prompts) ==
  /\ owed' = (/\ ~stop /\ ~Active(task') /\ task'.queue # <<>>
              /\ owed \/ CompletedTurns(task') \ CompletedTurns(task) # {})
  /\ sent' = sent \o prompts

UserDoes(t, more) ==
  Become(t, more, events) /\ Remember(FALSE, <<>>) /\ UNCHANGED wake

-----------------------------------------------------------------------------
(* The user *)

Type(m) ==
  /\ task.composer = NoMessage /\ m \in fresh
  /\ fresh' = fresh \ {m}
  /\ task' = [task EXCEPT !.composer = m]
  /\ UNCHANGED <<wake, sent, owed, streamVars>>

\* While a fork owns the provider the window puts the text back instead.
CanSend == task.composer # NoMessage /\ ~task.fork /\ Len(task.turns) < MaxTurns(task.provider)

Send ==
  /\ CanSend
  /\ UserDoes(SubmitComposer([task EXCEPT !.composer = NoMessage], task.composer), <<>>)
  /\ UNCHANGED fresh

\* steer_composer_submission
SteerWith(t, m) ==
  \/ ~Busy(t) /\ UserDoes(SubmitComposer(t, m), <<>>)
  \/ Busy(t) /\ ~CanSteer(t) /\ UserDoes(Enqueue(t, m), <<>>)
  \/ /\ CanSteer(t) /\ Len(calls) < MaxCalls
     /\ UserDoes([t EXCEPT !.steers = Append(@, m)], <<Steer(m)>>)

SendSteer ==
  /\ CanSend
  /\ SteerWith([task EXCEPT !.composer = NoMessage], task.composer)
  /\ UNCHANGED fresh

\* The row's control is drawn when the turn can be steered; the click may come
\* after that has changed.
SteerQueued(i) ==
  /\ ~task.fork /\ Len(task.turns) < MaxTurns(task.provider)
  /\ SteerWith([task EXCEPT !.queue = RemoveAt(@, i)], task.queue[i])
  /\ UNCHANGED fresh

RemoveQueued(i) ==
  /\ UserDoes([task EXCEPT !.queue = RemoveAt(@, i)], <<>>)
  /\ UNCHANGED fresh

EditQueued(i) ==
  /\ UserDoes([task EXCEPT !.queue = RemoveAt(@, i), !.composer = task.queue[i]], <<>>)
  /\ UNCHANGED fresh

RespondPermission ==
  /\ task.status = "Waiting"
  /\ UserDoes([task EXCEPT !.status = "Working"], <<>>)
  /\ UNCHANGED fresh

\* cancel_turn: events already received are handled first, and start nothing.
Stop ==
  LET flushed == HandleEvents([task EXCEPT !.goals = FALSE], FALSE)
      settled == IF Active(flushed)
                 THEN StartCaptures(CaptureLatest(
                        [Finish(flushed, "Interrupted") EXCEPT !.status = "Idle"]))
                 ELSE flushed
      rest == [settled EXCEPT !.drain = FALSE]
  IN  /\ Busy(task) /\ ~task.preparing
      /\ Len(calls) < MaxCalls
      /\ Become(IF KeepsRuntime(rest) THEN rest ELSE DropRuntime(rest), <<Cancel>>, <<>>)
      /\ Remember(TRUE, <<>>)
      /\ UNCHANGED <<wake, fresh>>

\* dispatch_goal_operation; an active goal begins its turn at once.
PursueGoal(t, active) ==
  IF active /\ ~Active(t) /\ ~Busy(t)
  THEN [BeginTurn(t, <<>>) EXCEPT !.status = "Connecting"] ELSE t

StartGoal(t) ==
  [t EXCEPT !.goals = TRUE, !.goalStart = @ \/ ~t.preparing]

SetGoal(active) ==
  LET pursued == PursueGoal(task, active)
  IN  /\ SetsGoals(task)
      /\ Len(task.turns) < MaxPursued /\ Len(calls) < MaxCalls
      /\ IF task.runtime THEN UserDoes(pursued, <<Goal>>) ELSE UserDoes(StartGoal(pursued), <<>>)
      /\ UNCHANGED fresh

ForkResponse ==
  /\ ~task.fork /\ ~task.preparing
  /\ task.status \in {"Idle", "Failed"}
  /\ \E i \in DOMAIN task.turns : task.turns[i].started
  /\ UserDoes([task EXCEPT !.fork = TRUE, !.forkDriver = ForkStarts(task) /\ ~task.runtime], <<>>)
  /\ UNCHANGED fresh

-----------------------------------------------------------------------------
(* Background tasks report back *)

Reports(t, more, prompts) ==
  /\ Become(t, more, events)
  /\ Remember(FALSE, prompts)
  /\ wake' = (wake \/ Opens(t))
  /\ UNCHANGED fresh

\* install_prepared_driver: the goals that waited for a runtime ride the first one.
Install(t) == [t EXCEPT !.runtime = TRUE, !.steers = <<>>, !.goals = FALSE]
WaitingGoals(t) == IF t.goals THEN <<Goal>> ELSE <<>>

\* finish_submission_preparation, by what prepare_submission brought; in every
\* branch the entry is taken away, as FinishPreparation does it for all.
PreparationFailed(t, m, selected) ==
  LET u == IF t.status = "Connecting" THEN [Unwind(t) EXCEPT !.status = "Idle"] ELSE t
  IN  IF selected THEN [u EXCEPT !.composer = m] ELSE u

NoDriver(t) ==
  StartCaptures(CaptureLatest([Finish(t, "Failed") EXCEPT !.status = "Failed"]))

PreparationReady(t, p, hasDriver) ==
  CASE ~(t.status = "Connecting" /\ Unstarted(t)) -> Reports(t, <<>>, <<>>)
    [] t.status = "Connecting" /\ Unstarted(t) /\ ~hasDriver ->
         Reports(NoDriver([t EXCEPT !.steers = IF t.runtime THEN <<>> ELSE @]), <<>>, <<>>)
    [] OTHER ->
         Reports(IF p.starts THEN Install(t) ELSE [t EXCEPT !.steers = <<>>],
                 (IF p.starts THEN WaitingGoals(t) ELSE <<>>) \o <<Prompt(p.message)>>,
                 <<[turn |-> Len(t.turns), message |-> p.message]>>)

FinishPreparation(i) ==
  LET p == task.preparations[i]
      t == [task EXCEPT !.preparations = RemoveAt(@, i), !.preparing = FALSE]
  IN  \/ ~task.preparing /\ Reports(t, <<>>, <<>>)
      \/ task.preparing /\ \E selected \in BOOLEAN :
           Reports(PreparationFailed(t, p.message, selected), <<>>, <<>>)
      \/ /\ task.preparing
         /\ \E hasDriver \in (IF p.starts THEN BOOLEAN ELSE {task.runtime}) :
              PreparationReady(t, p, hasDriver)

FinishCapture(n) ==
  /\ n \in task.inFlight
  /\ Reports(TakeDrain([task EXCEPT !.inFlight = @ \ {n}]), <<>>, <<>>)

\* finish_goal_runtime_start
FinishGoalStart ==
  LET t == [task EXCEPT !.goalStart = FALSE]
  IN  /\ task.goalStart
      /\ \/ Reports(Drain(UnwindPursuit([t EXCEPT !.goals = FALSE])), <<>>, <<>>)
         \/ Reports(Drain(IF t.runtime THEN [t EXCEPT !.goals = FALSE] ELSE Install(t)),
                    WaitingGoals(t), <<>>)

FinishFork ==
  LET t == [task EXCEPT !.fork = FALSE, !.forkDriver = FALSE]
  IN  /\ task.fork
      /\ \/ Reports(Drain(IF FailedForkCloses(t) THEN DropRuntime(t) ELSE t), <<>>, <<>>)
         \/ LET u == IF task.forkDriver /\ ~t.runtime THEN Install(t) ELSE t
            IN  Reports(Drain(u),
                        IF Opens(u) THEN WaitingGoals(t) ELSE <<>>, <<>>)

\* Thirty seconds have passed and the provider never began to pursue the goal.
GoalWatchdog ==
  UnconfirmedPursuit(task) /\ Reports(UnwindPursuit(task), <<>>, <<>>)

\* The provider does not take changed options, or nobody has touched the task
\* for long: the runtime is closed.
OptionsRefused == task.runtime /\ Reports(DropRuntime(task), <<>>, <<>>)

ReapIdle ==
  /\ task.runtime /\ ~Active(task) /\ ~Busy(task)
  /\ Reports(DropRuntime(task), <<>>, <<>>)

-----------------------------------------------------------------------------
(* drain_event_pump: every unread event, then the drains, then the captures *)

\* A mistake: a drain that has to wait for a checkpoint is forgotten.
EndOfPassForgetting(t) ==
  IF t.drain /\ CapturePending(t) THEN [t EXCEPT !.drain = FALSE] ELSE TakeDrain(t)

EndOfPass(t) == IF t.drain /\ CapturePending(t) THEN t ELSE TakeDrain(t)

EventPump ==
  /\ wake
  /\ Become(StartCaptures(EndOfPass(HandleEvents(task, TRUE))), <<>>, <<>>)
  /\ Remember(FALSE, <<>>)
  /\ wake' = FALSE
  /\ UNCHANGED fresh

\* Every event a driver sends wakes the pump.
Provider ==
  /\ task.runtime
  /\ \/ Serve
     \/ Resume /\ Len(task.turns) < MaxPursued /\ starts = 0 /\ finishes = 0
     \/ Len(events) < MaxUnread /\ \E e \in Noise(task.provider) : Chat(e)
     \/ Exit
  /\ Len(events') <= MaxEvents
  /\ wake' = (wake \/ events' # events)
  /\ UNCHANGED <<task, fresh, sent, owed>>

-----------------------------------------------------------------------------
DesktopInit ==
  /\ task \in {NewTask(p) : p \in Providers}
  /\ StreamInit /\ starts = 0 /\ finishes = 0
  /\ attempts = Attempts(task) /\ eager = Eager(task)
  /\ wake = FALSE /\ fresh = Texts(task.provider)
  /\ sent = <<>> /\ owed = FALSE

UserNext ==
  \/ \E m \in Messages : Type(m)
  \/ Send \/ SendSteer \/ Stop \/ RespondPermission \/ ForkResponse
  \/ \E i \in DOMAIN task.queue : SteerQueued(i) \/ RemoveQueued(i) \/ EditQueued(i)
  \/ \E active \in BOOLEAN : SetGoal(active)

TaskReports ==
  \/ \E i \in DOMAIN task.preparations : FinishPreparation(i)
  \/ \E n \in task.inFlight : FinishCapture(n)
  \/ FinishGoalStart \/ FinishFork

DesktopNext ==
  UserNext \/ TaskReports \/ GoalWatchdog \/ OptionsRefused \/ ReapIdle \/ EventPump \/ Provider

DesktopSpec == DesktopInit /\ [][DesktopNext]_desktopVars

\* The pump runs after it was woken, and background work ends and reports.  A
\* report is the only step that takes its entry away, so that the entry is gone
\* again and again is weak fairness of the report.
PumpRuns == wake /\ wake' = FALSE
PreparationEnds == Len(task'.preparations) < Len(task.preparations)

TurnCounts == UNION {1..(MaxTurns(p) + MaxPursued + Cardinality(Messages)) : p \in Providers}

BackgroundEnds ==
  /\ []<>~task.goalStart
  /\ []<>~task.fork
  /\ \A n \in TurnCounts : []<>(n \notin task.inFlight)
  /\ []<>(task.preparations = <<>>) \/ []<><<PreparationEnds>>_task

FairDesktopSpec == DesktopSpec /\ WF_wake(PumpRuns) /\ BackgroundEnds

-----------------------------------------------------------------------------
\* Types, and what the entries of a runtime and of background tasks imply: no
\* steer is awaited and nothing is in the driver's channels without a runtime.
DesktopTypeOK ==
  /\ StreamTypeOK
  /\ task \in Task
  /\ wake \in BOOLEAN /\ owed \in BOOLEAN
  /\ fresh \subseteq Messages
  /\ sent \in Seq([turn : Nat, message : Messages])
  /\ ~task.runtime => task.steers = <<>> /\ calls = <<>> /\ events = <<>> /\ steering = {}
  /\ task.preparing => task.preparations # <<>>
  /\ task.forkDriver => task.fork

\* A message reaches the provider as a prompt at most once, on whatever way it
\* came there: typed, queued, taken back for editing, steered and rejected,
\* restored to the composer by a failed preparation.  The desktop forgets the
\* steers it awaits when it hands over a prompt (runtime.rs:3405); a rejection
\* that comes after that is taken for the oldest steer given since, which is
\* then queued while its own answer is still to come.  From there on the code
\* does send twice, and nothing is claimed.
NeverSentTwice ==
  task.misread \/ \A i, j \in DOMAIN sent : sent[i].message = sent[j].message => i = j

\* A prompt is handed to the provider only when the checkpoints of the turns
\* before it are stored: a later turn's edits must not end up in them.  The
\* turns a goal begins do not wait, and a task with goals is not held to it.
CheckpointsPrecedePrompts ==
  [][sent' # sent /\ ~SetsGoals(task) => task.captures = {} /\ task.inFlight = {}]_desktopVars

\* Every message the desktop awaits an answer to has been given to the driver
\* of the present runtime, and either it waits there or its answer waits here: a
\* steer is not awaited for ever.  (After a rejection was taken for another
\* steer's, one text may be given twice, and two answers to the same text are
\* not told apart here.)
SteersAreAnswered ==
  task.misread \/ \A m \in Range(task.steers) :
    \/ Steer(m) \in Range(calls) \/ m \in steering
    \/ {SteerAccepted(m), SteerRejected(m)} \cap Range(events) # {}

\* Follow-ups that are queued when a turn completes are taken up again, unless
\* the user presses Stop or takes them back, whichever of the end of the turn,
\* its checkpoint or a fork comes last.  (A goal may take the turn instead.)
QueueResumes == (owed /\ ~SetsGoals(task)) ~> ~owed

\* What finish_submission_preparation says of the turn it prepared: it is still
\* the untouched one, because nothing the user can do changes it meanwhile.
PreparedTurnStands == task.preparing => task.status = "Connecting" /\ Unstarted(task)
=============================================================================
