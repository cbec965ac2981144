------------------------------ MODULE AcpDriver ------------------------------
(***************************************************************************)
(* The driver of the providers that speak the Agent Client Protocol        *)
(* (acp.rs): Cursor, Grok, Kimi and Fx.  One asynchronous task serves the  *)
(* calls and the answers, so that an answer is not handled in the middle   *)
(* of a call.  A steer is a second prompt request, and the turn ends when  *)
(* no request is left.                                                     *)
(***************************************************************************)
EXTENDS DriverFrame, SequencesExt

\* PendingPrompts::settle_request: the request is removed, if it is still there.
PlacesOf(m) == {i \in DOMAIN turn.requests : turn.requests[i] = m}
Without(m) ==
  IF PlacesOf(m) = {} THEN turn.requests ELSE RemoveAt(turn.requests, Min(PlacesOf(m)))

TakePrompt ==
  /\ Take("prompt")
  /\ server' = At("announcing", Head(calls))
  /\ UNCHANGED <<turn, wire, agent, reader>>

Announce == Tells("announcing", Signal("TurnStarted"), At("writing", server.call))

TakeSteer ==
  /\ Take("steer")
  /\ server' = At(IF turn.requests = <<>> THEN "rejecting" ELSE "writing", Head(calls))
  /\ UNCHANGED <<turn, wire, agent, reader>>

TakeCancel ==
  /\ Take("cancel")
  /\ wire' = IF agent.alive THEN Append(wire, Cancel) ELSE wire
  /\ UNCHANGED <<server, turn, agent, reader>>

\* send_prompt
SendPrompt ==
  /\ server.at = "writing"
  /\ agent.alive
  /\ Written
  /\ turn' = [turn EXCEPT !.requests = Append(@, server.call.message)]
  /\ server' = IF server.call.call = "steer" THEN At("accepting", server.call) ELSE Free
  /\ Silent /\ UNCHANGED <<calls, agent, reader>>

SendFails ==
  /\ server.at = "writing"
  /\ ~agent.alive
  /\ server' = At(IF server.call.call = "steer" THEN "rejecting" ELSE "failed", server.call)
  /\ Silent
  /\ UNCHANGED <<calls, turn, wire, agent, reader>>

Accept == Tells("accepting", SteerAccepted(server.call.message), Free)
Reject == Tells("rejecting", SteerRejected(server.call.message), Free)
Fail == Tells("failed", Signal("Error"), At("finishing", server.call))
FinishFailed == Tells("finishing", TurnFinished(FALSE), Free)

Serve == TakePrompt \/ Announce \/ TakeSteer \/ TakeCancel \/ SendPrompt \/ SendFails
           \/ Accept \/ Reject \/ Fail \/ FinishFailed

-----------------------------------------------------------------------------
AgentReads ==
  /\ agent.alive /\ wire # <<>>
  /\ wire' = Tail(wire)
  /\ agent' = [agent EXCEPT !.held = IF Says(Head(wire)) THEN @ \cup {Head(wire).message} ELSE @,
                            !.works = @ \/ Says(Head(wire))]
  /\ Silent /\ UNCHANGED <<calls, server, turn, reader>>

\* What the end of one request means for the turn.  A mistake: every request
\* ends it.
SettledEach(requests, next) == IF requests # turn.requests THEN next ELSE Idle

Settled(requests, next) ==
  IF requests # turn.requests /\ requests = <<>> THEN next ELSE Idle

AgentAnswers(m) ==
  /\ agent.alive /\ m \in agent.held
  /\ server = Free /\ reader = Idle
  /\ agent' = [agent EXCEPT !.held = @ \ {m}, !.works = agent.held # {m}]
  /\ turn' = [turn EXCEPT !.requests = Without(m)]
  /\ \/ \E ok \in BOOLEAN : reader' = Settled(Without(m), Finishing(ok))
     \/ reader' = Settled(Without(m), [at |-> "failing"])
  /\ Silent
  /\ UNCHANGED <<calls, server, wire>>

\* _x.ai/session/prompt_complete comes before the answer, with the id of the
\* prompt or without one.
AgentNotices(m) ==
  /\ kind = "Grok"
  /\ agent.alive /\ m \in agent.held \ agent.noticed
  /\ server = Free /\ reader = Idle
  /\ agent' = [agent EXCEPT !.noticed = @ \cup {m}]
  /\ \E requests \in {Without(m), IF turn.requests = <<>> THEN <<>> ELSE Tail(turn.requests)} :
       /\ turn' = [turn EXCEPT !.requests = requests]
       /\ \E ok \in BOOLEAN : reader' = Settled(requests, Finishing(ok))
  /\ Silent
  /\ UNCHANGED <<calls, server, wire>>

FailTurn == Reports("failing", Signal("Error"), Finishing(FALSE))
FinishTurn == Reports("finishing", TurnFinished(reader.ok), Idle)

ReadOn == FailTurn \/ FinishTurn

\* run_sdk_connection returns and takes the command loop with it.
Exit == server = Free /\ ProcessExits /\ server' = Stopped

-----------------------------------------------------------------------------
StartsDue == IF server.at = "announcing" THEN 1 ELSE 0
FinishesDue ==
  (IF turn.requests # <<>> THEN 1 ELSE 0)
    + (IF reader.at \in {"failing", "finishing"} THEN 1 ELSE 0)
    + (IF server.at \in {"announcing", "writing", "failed", "finishing"} /\ server.call.call = "prompt"
       THEN 1 ELSE 0)
Steering == SteeringAt({"writing", "accepting", "rejecting"})
=============================================================================
