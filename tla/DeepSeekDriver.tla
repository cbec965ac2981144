---------------------------- MODULE DeepSeekDriver ----------------------------
(***************************************************************************)
(* The DeepSeek driver (deepseek.rs): one worker serves the client's calls,*)
(* each a unary HTTP request, and the envelopes of the session's event     *)
(* stream.  Events are numbered by the provider's log; a stream that was   *)
(* connected again says how far the log has come, and the worker reads the *)
(* log to make up for what it missed.                                      *)
(***************************************************************************)
EXTENDS DriverFrame

Event(n) == [what |-> "event", seq |-> n]
Subscribed(n) == [what |-> "subscribed", seq |-> n]
Gone == [what |-> "gone", seq |-> 0]

\* DeepSeekDriver::start: the stream is subscribed before the log is read.
Connect ==
  /\ server = Free /\ ~turn.open /\ agent.alive
  /\ turn' = [turn EXCEPT !.open = TRUE, !.seen = Len(agent.log), !.active = agent.works]
  /\ server' = IF agent.works THEN [at |-> "greeting"] ELSE Free
  /\ Silent /\ UNCHANGED <<calls, wire, agent, reader>>

Greet == Tells("greeting", Signal("TurnStarted"), Free)

-----------------------------------------------------------------------------
(* handle_command *)

TakeCall(call) == turn.open /\ reader = Idle /\ Take(call)

\* A prompt that names a command of the harness is executed there and then.
TakePrompt ==
  /\ TakeCall("prompt")
  /\ turn' = [turn EXCEPT !.active = TRUE]
  /\ server' = At(IF turn.active THEN "writing" ELSE "announcing", Head(calls))
  /\ UNCHANGED <<wire, agent, reader>>

Announce == Tells("announcing", Signal("TurnStarted"), At("writing", server.call))

Prompting == server.at = "writing" /\ server.call.call = "prompt"

Queued == [agent EXCEPT !.accepted = @ + 1]

SendPrompt ==
  /\ Prompting /\ agent.alive
  /\ agent' = Queued
  /\ server' = Free
  /\ Silent /\ UNCHANGED <<calls, turn, wire, reader>>

\* The request may have been carried out.
PromptFails ==
  /\ Prompting
  /\ agent' \in IF agent.alive THEN {agent, Queued} ELSE {agent}
  /\ turn' = [turn EXCEPT !.active = FALSE]
  /\ server' = At("failed", server.call)
  /\ Silent /\ UNCHANGED <<calls, wire, reader>>

Execute ==
  /\ Prompting
  /\ turn' = [turn EXCEPT !.active = FALSE]
  /\ server' = At("finishing", server.call)
  /\ Silent /\ UNCHANGED <<calls, wire, agent, reader>>

Fail == Tells("failed", Signal("Error"), At("finishing", server.call))
Finish == \E ok \in BOOLEAN : Tells("finishing", TurnFinished(ok), Free)

TakeOther ==
  /\ TakeCall("steer") \/ TakeCall("cancel")
  /\ server' = At("writing", Head(calls))
  /\ UNCHANGED <<turn, wire, agent, reader>>

\* The answer follows the request before an envelope is handled.  The harness
\* has a steer begin a turn when none runs.
AnswerSteer ==
  /\ server.at = "writing" /\ server.call.call = "steer"
  /\ agent' \in IF agent.alive /\ ~agent.works THEN {agent, Queued} ELSE {agent}
  /\ Emit(SteerRejected(server.call.message))
       \/ (agent.alive /\ Emit(SteerAccepted(server.call.message)))
  /\ server' = Free
  /\ UNCHANGED <<calls, turn, wire, reader>>

CancelTurn ==
  /\ server.at = "writing" /\ server.call = Cancel
  /\ (agent.alive /\ Silent) \/ Emit(Signal("Error"))
  /\ server' = Free
  /\ UNCHANGED <<calls, turn, wire, agent, reader>>

Serve == Connect \/ Greet \/ TakePrompt \/ Announce \/ SendPrompt \/ PromptFails \/ Execute
           \/ Fail \/ Finish \/ TakeOther \/ AnswerSteer \/ CancelTurn

-----------------------------------------------------------------------------
(* handle_envelope *)

\* handle_session_event, for an entry of the log the worker has not seen.  A
\* turn that ended badly is told as an error first.
Hear(n, rest) ==
  /\ server = Free
  /\ \/ /\ agent.log[n] = "start"
        /\ turn' = [turn EXCEPT !.seen = n, !.active = TRUE, !.stream = rest]
        /\ IF turn.active THEN Silent ELSE Emit(Signal("TurnStarted"))
        /\ UNCHANGED server
     \/ /\ agent.log[n] = "end"
        /\ turn' = [turn EXCEPT !.seen = n, !.active = FALSE, !.stream = rest]
        /\ \/ /\ IF turn.active THEN Emit(TurnFinished(TRUE)) ELSE Silent
              /\ UNCHANGED server
           \/ /\ Emit(Signal("Error"))
              /\ server' = IF turn.active THEN At("finishing", Cancel) ELSE Free
  /\ UNCHANGED <<calls, wire, agent, reader>>

Handling(what) ==
  /\ turn.open /\ server = Free /\ reader = Idle
  /\ turn.stream # <<>> /\ Head(turn.stream).what = what

Rest == Tail(turn.stream)
Skip == turn' = [turn EXCEPT !.stream = Rest] /\ Silent
          /\ UNCHANGED <<calls, server, wire, agent, reader>>

HearEvent ==
  /\ Handling("event")
  /\ LET n == Head(turn.stream).seq IN IF n <= turn.seen THEN Skip ELSE Hear(n, Rest)

Missed == Head(turn.stream).seq > turn.seen

NothingMissed == Handling("subscribed") /\ ~Missed /\ Skip

\* fetch_history
ReadLog ==
  /\ Handling("subscribed") /\ Missed /\ agent.alive
  /\ turn' = [turn EXCEPT !.stream = Rest]
  /\ reader' = [at |-> "replaying", upto |-> Len(agent.log)]
  /\ Silent /\ UNCHANGED <<calls, server, wire, agent>>

LogUnread ==
  /\ Handling("subscribed") /\ Missed
  /\ turn' = [turn EXCEPT !.stream = Rest]
  /\ reader' = [at |-> "failing"]
  /\ history' = [history EXCEPT !.lost = TRUE]
  /\ UNCHANGED <<calls, events, exited, server, wire, agent>>

Unrecovered == server = Free /\ Reports("failing", Signal("Error"), Idle)

Replay ==
  /\ reader.at = "replaying"
  /\ IF turn.seen < reader.upto
     THEN Hear(turn.seen + 1, turn.stream)
     ELSE /\ server = Free /\ reader' = Idle
          /\ Silent /\ UNCHANGED <<calls, server, wire, agent, turn>>

HearGone ==
  /\ Handling("gone")
  /\ Emit(Signal("Error"))
  /\ reader' = [at |-> "leaving"]
  /\ UNCHANGED <<calls, server, wire, agent, turn>>

Exit ==
  /\ reader.at = "leaving"
  /\ Emit(Signal("ProcessExited"))
  /\ server' = Stopped /\ reader' = Idle
  /\ UNCHANGED <<calls, wire, agent, turn>>

ReadOn == HearEvent \/ NothingMissed \/ ReadLog \/ LogUnread \/ Unrecovered \/ Replay
            \/ HearGone \/ Exit

-----------------------------------------------------------------------------
(* The harness, the downlink of its events and the monitor of its process *)

Logged(entry) ==
  turn' = IF turn.linked
          THEN [turn EXCEPT !.stream = Append(@, Event(Len(agent.log) + 1))]
          ELSE turn

AgentBegins ==
  /\ agent.alive /\ agent.accepted > 0 /\ ~agent.works
  /\ agent' = [agent EXCEPT !.accepted = @ - 1, !.works = TRUE, !.log = Append(@, "start")]
  /\ Logged("start")
  /\ Silent /\ UNCHANGED <<calls, server, wire, reader>>

AgentEnds ==
  /\ agent.alive /\ agent.works
  /\ agent' = [agent EXCEPT !.works = FALSE, !.log = Append(@, "end")]
  /\ Logged("end")
  /\ Silent /\ UNCHANGED <<calls, server, wire, reader>>

\* run_downlink
LinkBreaks ==
  /\ turn.linked /\ agent.alive /\ agent.breaks < MaxBreaks
  /\ turn' = [turn EXCEPT !.linked = FALSE]
  /\ agent' = [agent EXCEPT !.breaks = @ + 1]
  /\ Silent /\ UNCHANGED <<calls, server, wire, reader>>

LinkReturns ==
  /\ ~turn.linked /\ agent.alive
  /\ turn' = [turn EXCEPT !.linked = TRUE, !.stream = Append(@, Subscribed(Len(agent.log)))]
  /\ Silent /\ UNCHANGED <<calls, server, wire, agent, reader>>

NoticeDeath ==
  /\ ~agent.alive /\ \A i \in DOMAIN turn.stream : turn.stream[i] # Gone
  /\ turn' = [turn EXCEPT !.stream = Append(@, Gone)]
  /\ Silent /\ UNCHANGED <<calls, server, wire, agent, reader>>

Downlink == LinkReturns \/ NoticeDeath

-----------------------------------------------------------------------------
Unseen(entry) == Cardinality({n \in DOMAIN agent.log : n > turn.seen /\ agent.log[n] = entry})

StartsDue ==
  Unseen("start") + agent.accepted
    + (IF server.at \in {"greeting", "announcing"} THEN 1 ELSE 0)
    + (IF server.at = "announcing" \/ Prompting THEN 1 ELSE 0)
FinishesDue ==
  Unseen("end") + agent.accepted + (IF agent.works THEN 1 ELSE 0)
    + (IF server.at = "announcing" \/ Prompting THEN 2 ELSE 0)
    + (IF server.at \in {"failed", "finishing"} THEN 1 ELSE 0)
Steering == SteeringAt({"writing"})
=============================================================================
