----------------------------- MODULE DriverFrame -----------------------------
(***************************************************************************)
(* What all provider drivers have in common: the thread that serves the    *)
(* client's calls, the provider's process behind a pipe or a socket, the   *)
(* reader of what it says, and the thread that waits for its end.  A line  *)
(* the provider writes and its handling by the reader are one step unless  *)
(* the reader does several things about it.  The state shared by driver    *)
(* threads is "turn"; each family of drivers uses the fields it has.       *)
(***************************************************************************)
EXTENDS DriverEvents, FiniteSets, Functions

CONSTANTS
  Kinds,      \* the kinds of driver one of which is started
  Asks(_),    \* the sets of calls its client may make
  MaxCalls,   \* bound: calls in the command channel
  MaxEvents,  \* bound: events unread when another is sent
  MaxPursuits,\* bound: turns a goal begins
  MaxBreaks   \* bound: how often the stream of a DeepSeek session breaks

ASSUME FrameBoundsAssumption ==
  {MaxCalls, MaxEvents} \subseteq Nat \ {0} /\ {MaxPursuits, MaxBreaks} \subseteq Nat

\* The providers of start_local.
ASSUME KindsAssumption ==
  Kinds \subseteq {"Claude", "Amp", "OpenCode", "Cursor", "Grok", "Kimi", "Fx", "Codex",
                  "Pi", "OhMyPi", "DeepSeek"}

ASSUME AsksAssumption == \A k \in Kinds : Asks(k) \subseteq SUBSET Calls

VARIABLES
  kind,     \* the driver that was started
  unsaid,   \* what the client has not called for yet
  calls,    \* the driver's command channel
  events,   \* events sent and not read yet
  exited,   \* ProcessExited was sent
  server,   \* where the thread is that serves the calls
  wire,     \* lines written and not read by the provider
  agent,    \* the provider's process
  turn,     \* what the driver's threads know of the turn
  reader,   \* what the reader still has to do about the last line
  history   \* history: what the client was told

frameVars == <<kind, unsaid, calls, events, exited, server, wire, agent, turn, reader, history>>

Free == [at |-> "free"]
Stopped == [at |-> "stopped"]
At(place, call) == [at |-> place, call |-> call]

Idle == [at |-> "idle"]
Ended(ok) == [at |-> "ended", ok |-> ok]
Finishing(ok) == [at |-> "finishing", ok |-> ok]

NewAgent ==
  [alive |-> TRUE,
   works |-> FALSE,   \* it runs a turn
   accepted |-> 0,    \* prompts it took and has not begun
   held |-> {},       \* prompt requests it has not answered
   noticed |-> {},    \* those whose end it announced before answering
   goal |-> FALSE,    \* it has an active goal
   pursuits |-> 0,    \* turns that goal began
   log |-> <<>>,      \* DeepSeek: the turns of the session's event log
   breaks |-> 0]      \* DeepSeek: how often its stream broke

NewTurn ==
  [active |-> FALSE,  \* turn_active, turn_id or run_started
   open |-> FALSE,    \* the provider's session is known; OpenCode: its stream is open
   requests |-> <<>>, \* prompt requests without an answer
   steers |-> {},     \* pending_steers
   stream |-> <<>>,   \* DeepSeek: envelopes not handled yet
   seen |-> 0,        \* DeepSeek: last_seq
   linked |-> TRUE]   \* DeepSeek: the stream is connected

Says(line) == line.call \in {"prompt", "steer"}

\* A prompt taken now meets a turn that has not ended: Stop was pressed.
Occupied ==
  \/ agent.works \/ agent.accepted > 0 \/ reader.at = "ended"
  \/ \E line \in Range(wire) : Says(line)

-----------------------------------------------------------------------------
\* Sending an event.  "running" is whether a turn was announced and not ended
\* since, "unanswered" the steers the client waits for.
Emit(e) ==
  /\ Len(events) < MaxEvents
  /\ events' = Append(events, e)
  /\ exited' = (exited \/ e.event = "ProcessExited")
  /\ history' =
       [history EXCEPT
          !.running = CASE e.event = "TurnStarted" -> TRUE
                        [] e.event \in {"TurnFinished", "ProcessExited"} -> FALSE
                        [] OTHER -> @,
          !.unanswered = IF e.event \in {"SteerAccepted", "SteerRejected"} THEN @ \ {e.message} ELSE @]

Silent == UNCHANGED <<events, exited, history>>

Take(call) ==
  /\ server = Free
  /\ calls # <<>> /\ Head(calls).call = call
  /\ calls' = Tail(calls)
  /\ history' = [history EXCEPT !.mixed = @ \/ (call = "prompt" /\ Occupied)]
  /\ UNCHANGED <<events, exited>>

\* The serving thread sends one event and goes on.
Tells(place, e, next) ==
  /\ server.at = place
  /\ Emit(e) /\ server' = next
  /\ UNCHANGED <<calls, wire, agent, turn, reader>>

\* The reader does.
Reports(place, e, next) ==
  /\ reader.at = place
  /\ Emit(e) /\ reader' = next
  /\ UNCHANGED <<calls, server, wire, agent, turn>>

Written == wire' = Append(wire, server.call)

SteeringAt(places) ==
  IF server.at \in places /\ server.call.call = "steer" THEN {server.call.message} ELSE {}

-----------------------------------------------------------------------------
(* The client, and the thread that passes the driver's events on *)

\* A message is sent once, as a prompt or as a steer.
Uses(c) == IF Says(c) THEN {Prompt(c.message), Steer(c.message)} ELSE {c}

ClientCalls(c) ==
  /\ c \in unsaid /\ Len(calls) < MaxCalls
  /\ kind = "Amp" => c # Cancel
  /\ kind = "DeepSeek" => turn.open
  /\ unsaid' = unsaid \ Uses(c)
  /\ calls' = Append(calls, c)
  /\ history' = [history EXCEPT !.unanswered =
                   IF c.call = "steer" THEN @ \cup {c.message} ELSE @]
  /\ UNCHANGED <<kind, events, exited, server, wire, agent, turn, reader>>

EventRead ==
  /\ events # <<>>
  /\ events' = Tail(events)
  /\ UNCHANGED <<kind, unsaid, calls, exited, server, wire, agent, turn, reader, history>>

-----------------------------------------------------------------------------
(* The provider's process *)

AgentOnly == UNCHANGED <<calls, events, exited, server, wire, turn, reader, history>>

AgentDies == agent.alive /\ agent' = [agent EXCEPT !.alive = FALSE] /\ AgentOnly

\* A goal makes a provider begin a turn by itself when it has nothing to do.
AgentPursues ==
  /\ agent.alive /\ agent.goal /\ ~agent.works /\ agent.accepted = 0
  /\ agent.pursuits < MaxPursuits
  /\ agent' = [agent EXCEPT !.accepted = 1, !.pursuits = @ + 1]
  /\ AgentOnly

\* A mistake: the end of the output is taken for the end of the process.
OutputEnds ==
  /\ ~exited /\ reader = Idle
  /\ Emit(Signal("ProcessExited"))
  /\ UNCHANGED <<calls, wire, agent, turn, reader>>

\* The thread that waits for the process joins the reader before it reports.
ProcessExits ==
  /\ ~agent.alive /\ ~exited /\ reader = Idle
  /\ Emit(Signal("ProcessExited"))
  /\ UNCHANGED <<calls, wire, agent, turn, reader>>

FrameInit ==
  /\ kind \in Kinds
  /\ unsaid \in Asks(kind)
  /\ calls = <<>> /\ events = <<>> /\ exited = FALSE
  /\ server = Free /\ wire = <<>>
  /\ turn = NewTurn /\ reader = Idle
  /\ agent \in {NewAgent} \cup
       IF kind \in {"OpenCode", "DeepSeek"}
       THEN {[NewAgent EXCEPT !.works = TRUE, !.log = <<"start">>]} ELSE {}
  /\ history = [running |-> FALSE, mixed |-> FALSE, lost |-> FALSE, unanswered |-> {}]
=============================================================================
