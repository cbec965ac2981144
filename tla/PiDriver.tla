------------------------------ MODULE PiDriver ------------------------------
(***************************************************************************)
(* The driver of Pi and Oh My Pi (pi.rs).  The writer opens the session    *)
(* before it serves a call, and each call is a request whose answer it     *)
(* waits for, ten seconds at most; a request that timed out may still be   *)
(* carried out.  The reader announces and ends turns as the agent's run    *)
(* does.                                                                   *)
(***************************************************************************)
EXTENDS DriverFrame

\* initialize: the requests it makes are not told apart.
SessionOpens ==
  /\ server = Free /\ ~turn.open /\ agent.alive
  /\ turn' = [turn EXCEPT !.open = TRUE]
  /\ Silent /\ UNCHANGED <<calls, server, wire, agent, reader>>

SessionFails ==
  /\ server = Free /\ ~turn.open
  /\ server' = At("refused", Cancel)
  /\ Silent /\ UNCHANGED <<calls, turn, wire, agent, reader>>

SessionRefused == Tells("refused", Signal("Error"), [at |-> "closing"])
FinishUnopened == Tells("closing", TurnFinished(FALSE), Stopped)

TakeCall(call) ==
  /\ turn.open
  /\ Take(call)
  /\ server' = At("writing", Head(calls))
  /\ UNCHANGED <<turn, wire, agent, reader>>

\* send_request
Request ==
  /\ server.at = "writing" /\ agent.alive
  /\ Written
  /\ server' = At("awaiting", server.call)
  /\ Silent /\ UNCHANGED <<calls, turn, agent, reader>>

RequestFails ==
  /\ \/ server.at = "writing" /\ ~agent.alive
     \/ server.at = "awaiting"
  /\ server' = At("failed", server.call)
  /\ Silent /\ UNCHANGED <<calls, turn, wire, agent, reader>>

Accept == Tells("accepting", SteerAccepted(server.call.message), Free)

\* A mistake: a steer that fails is dropped, as a goal is.
GoalOrSteerFailed ==
  /\ server.at = "failed" /\ server.call.call \in {"goal", "steer"}
  /\ server' = Free
  /\ Silent /\ UNCHANGED <<calls, turn, wire, agent, reader>>

GoalFailed ==
  /\ server.at = "failed" /\ server.call = Goal
  /\ server' = Free
  /\ Silent /\ UNCHANGED <<calls, turn, wire, agent, reader>>

SteerFailed ==
  server.at = "failed" /\ server.call.call = "steer"
    /\ Tells("failed", SteerRejected(server.call.message), Free)

CancelFailed ==
  server.at = "failed" /\ server.call = Cancel /\ Tells("failed", Signal("Error"), Free)

PromptFailed ==
  server.at = "failed" /\ server.call.call = "prompt"
    /\ Tells("failed", Signal("Error"), At("finishing", server.call))

FinishFailed == Tells("finishing", TurnFinished(FALSE), Free)

Serve ==
  \/ SessionOpens \/ SessionFails \/ SessionRefused \/ FinishUnopened
  \/ \E call \in {"prompt", "steer", "cancel", "goal"} : TakeCall(call)
  \/ Request \/ RequestFails \/ Accept
  \/ GoalFailed \/ SteerFailed \/ CancelFailed \/ PromptFailed \/ FinishFailed

-----------------------------------------------------------------------------
(* The agent, and handle_pi_message *)

\* The answer reaches a writer that still waits for it.
Replies(line, ok) ==
  server' = IF server # At("awaiting", line) THEN server
            ELSE CASE ~ok -> At("failed", line)
                   [] ok /\ line.call = "steer" -> At("accepting", line)
                   [] OTHER -> Free

AgentReads ==
  /\ agent.alive /\ wire # <<>>
  /\ wire' = Tail(wire)
  /\ Silent /\ UNCHANGED <<calls, turn, reader>>
  /\ LET line == Head(wire) IN
       \/ Replies(line, FALSE) /\ UNCHANGED agent
       \/ /\ Replies(line, TRUE)
          /\ agent' \in CASE line.call = "prompt" -> {[agent EXCEPT !.accepted = @ + 1]}
                          [] line.call = "goal" -> {[agent EXCEPT !.goal = g] : g \in BOOLEAN}
                          [] OTHER -> {agent}

AnnounceOnce == IF turn.active THEN Silent ELSE Emit(Signal("TurnStarted"))

\* agent_start begins a run, turn_start each of its rounds.
AgentBegins ==
  /\ agent.alive
  /\ \/ agent.works /\ UNCHANGED agent
     \/ /\ ~agent.works /\ agent.accepted > 0
        /\ agent' = [agent EXCEPT !.accepted = @ - 1, !.works = TRUE]
  /\ AnnounceOnce
  /\ turn' = [turn EXCEPT !.active = TRUE]
  /\ UNCHANGED <<calls, server, wire, reader>>

\* agent_settled, or the terminal agent_end
AgentEnds ==
  /\ agent.alive /\ agent.works
  /\ agent' = [agent EXCEPT !.works = FALSE]
  /\ IF turn.active THEN \E ok \in BOOLEAN : Emit(TurnFinished(ok)) ELSE Silent
  /\ turn' = [turn EXCEPT !.active = FALSE]
  /\ UNCHANGED <<calls, server, wire, reader>>

-----------------------------------------------------------------------------
InWire == Cardinality({i \in DOMAIN wire : wire[i].call = "prompt"})
Serving(place) == server.at = place /\ server.call.call = "prompt"

StartsDue == agent.accepted + InWire + (IF Serving("writing") THEN 1 ELSE 0)
FinishesDue ==
  agent.accepted + InWire + (IF agent.works THEN 1 ELSE 0)
    + (IF Serving("writing") THEN 2 ELSE 0)
    + (IF Serving("awaiting") \/ Serving("failed") \/ Serving("finishing") THEN 1 ELSE 0)
    + (IF server.at \in {"refused", "closing"} \/ (server = Free /\ ~turn.open) THEN 1 ELSE 0)
Pursues ==
  \/ agent.goal \/ Goal \in Range(wire)
  \/ server.at = "writing" /\ server.call = Goal
Steering == SteeringAt({"writing", "awaiting", "accepting", "failed"})
=============================================================================
