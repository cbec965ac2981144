----------------------------- MODULE CodexDriver -----------------------------
(***************************************************************************)
(* The Codex driver (codex.rs): a writer and a reader of the app-server's  *)
(* JSON-RPC.  The app-server says when turns begin and end; the driver     *)
(* announces them and remembers which turn runs.  A steer waits in         *)
(* pending_steers for the answer to its request.                           *)
(***************************************************************************)
EXTENDS DriverFrame

\* The calls that need the thread wait for its id.
TakeWaiting(call) ==
  /\ Take(call)
  /\ server' = At("waiting", Head(calls))
  /\ UNCHANGED <<turn, wire, agent, reader>>

\* wait_for_thread_id, ten seconds at most
ThreadKnown ==
  /\ server.at = "waiting" /\ turn.open
  /\ server' = At("writing", server.call)
  /\ Silent /\ UNCHANGED <<calls, turn, wire, agent, reader>>

ThreadUnknown ==
  /\ server.at = "waiting" /\ ~turn.open
  /\ server' = At("refused", server.call)
  /\ Silent /\ UNCHANGED <<calls, turn, wire, agent, reader>>

Refuse == Tells("refused", Signal("Error"), Free)

TakeSteer ==
  /\ Take("steer")
  /\ LET known == turn.open /\ turn.active
     IN  /\ turn' = [turn EXCEPT !.steers = IF known THEN @ \cup {Head(calls).message} ELSE @]
         /\ server' = At(IF known THEN "writing" ELSE "rejecting", Head(calls))
  /\ UNCHANGED <<wire, agent, reader>>

TakeCancel ==
  /\ Take("cancel")
  /\ server' = IF turn.open /\ turn.active THEN At("writing", Cancel) ELSE Free
  /\ UNCHANGED <<turn, wire, agent, reader>>

Write ==
  /\ server.at = "writing" /\ agent.alive
  /\ Written
  /\ server' = Free
  /\ Silent /\ UNCHANGED <<calls, turn, agent, reader>>

\* A steer that cannot be written is taken back and rejected here.
WriteFails ==
  /\ server.at = "writing" /\ ~agent.alive
  /\ IF server.call.call = "steer"
     THEN /\ turn' = [turn EXCEPT !.steers = @ \ {server.call.message}]
          /\ server' = At("rejecting", server.call)
     ELSE server' = At("failed", server.call) /\ UNCHANGED turn
  /\ Silent /\ UNCHANGED <<calls, wire, agent, reader>>

Reject == Tells("rejecting", SteerRejected(server.call.message), Free)
Fail == Tells("failed", Signal("Error"), Stopped)

Serve == TakeWaiting("prompt") \/ TakeWaiting("goal") \/ TakeSteer \/ TakeCancel
           \/ ThreadKnown \/ ThreadUnknown \/ Refuse \/ Write \/ WriteFails \/ Reject \/ Fail

-----------------------------------------------------------------------------
(* The app-server, and handle_codex_message *)

ThreadOpens ==
  /\ agent.alive /\ ~turn.open /\ reader = Idle
  /\ turn' = [turn EXCEPT !.open = TRUE]
  /\ Silent /\ UNCHANGED <<calls, server, wire, agent, reader>>

Answered(m) == turn' = [turn EXCEPT !.steers = @ \ {m}]

AgentAnswersSteer(m) ==
  /\ m \in turn.steers
  /\ Answered(m)
  /\ Emit(SteerRejected(m)) \/ (agent.works /\ Emit(SteerAccepted(m)))
  /\ UNCHANGED agent

AgentReads ==
  /\ agent.alive /\ wire # <<>> /\ reader = Idle
  /\ wire' = Tail(wire)
  /\ reader' \in IF Head(wire).call = "prompt" THEN {Idle, [at |-> "failing"]} ELSE {Idle}
  /\ UNCHANGED <<calls, server>>
  /\ LET line == Head(wire) IN
       \/ /\ line.call = "prompt"
          /\ agent' = IF reader' = Idle THEN [agent EXCEPT !.accepted = @ + 1] ELSE agent
          /\ Silent /\ UNCHANGED turn
       \/ line.call = "steer" /\ AgentAnswersSteer(line.message)
       \/ line.call = "cancel" /\ Silent /\ UNCHANGED <<agent, turn>>
       \/ /\ line.call = "goal"
          /\ \E goal \in BOOLEAN : agent' = [agent EXCEPT !.goal = goal]
          /\ Silent /\ UNCHANGED turn

\* The app-server refuses to start a turn.
FailStart == Reports("failing", Signal("Error"), Idle)

\* turn/started
AgentBegins ==
  /\ agent.alive /\ agent.accepted > 0 /\ ~agent.works /\ reader = Idle
  /\ agent' = [agent EXCEPT !.accepted = @ - 1, !.works = TRUE]
  /\ turn' = [turn EXCEPT !.active = TRUE]
  /\ Emit(Signal("TurnStarted"))
  /\ UNCHANGED <<calls, server, wire, reader>>

\* turn/completed
AgentEnds ==
  /\ agent.alive /\ agent.works /\ reader = Idle
  /\ agent' = [agent EXCEPT !.works = FALSE]
  /\ turn' = [turn EXCEPT !.active = FALSE]
  /\ \E ok \in BOOLEAN : Emit(TurnFinished(ok))
  /\ UNCHANGED <<calls, server, wire, reader>>

-----------------------------------------------------------------------------
Prompting == server.at \in {"waiting", "writing"} /\ server.call.call = "prompt"

StartsDue ==
  (IF Prompting THEN 1 ELSE 0) + agent.accepted
    + Cardinality({i \in DOMAIN wire : wire[i].call = "prompt"})
FinishesDue == StartsDue + (IF agent.works THEN 1 ELSE 0)
Pursues ==
  \/ agent.goal \/ Goal \in Range(wire)
  \/ server.at \in {"waiting", "writing"} /\ server.call = Goal
Steering == turn.steers \cup SteeringAt({"rejecting"})
=============================================================================
