----------------------------- MODULE FlagDrivers -----------------------------
(***************************************************************************)
(* The drivers whose writer and reader share the flag turn_active: Claude  *)
(* and Amp over a process's pipes (claude.rs, amp.rs), OpenCode over HTTP  *)
(* with an event stream (opencode.rs).  Whoever takes the flag finishes    *)
(* the turn.                                                               *)
(***************************************************************************)
EXTENDS DriverFrame

\* What a writer does once a call has failed: the pipe is gone for good.
AfterFailure == IF kind = "OpenCode" THEN Free ELSE Stopped

TakePrompt ==
  /\ Take("prompt")
  /\ turn' = [turn EXCEPT !.active = TRUE]
  /\ server' = At("announcing", Head(calls))
  /\ UNCHANGED <<wire, agent, reader>>

Announce == Tells("announcing", Signal("TurnStarted"), At("writing", server.call))

TakeSteer ==
  /\ Take("steer")
  /\ server' = At(IF turn.active THEN "writing" ELSE "rejecting", Head(calls))
  /\ UNCHANGED <<turn, wire, agent, reader>>

TakeCancel ==
  /\ Take("cancel")
  /\ server' = At("writing", Head(calls))
  /\ UNCHANGED <<turn, wire, agent, reader>>

Write ==
  /\ server.at = "writing" /\ agent.alive
  /\ Written
  /\ server' = IF server.call.call = "steer" THEN At("accepting", server.call) ELSE Free
  /\ Silent
  /\ UNCHANGED <<calls, agent, turn, reader>>

\* An HTTP request may fail at any time, and be carried out nevertheless.
WriteFails ==
  /\ server.at = "writing"
  /\ ~agent.alive \/ kind = "OpenCode"
  /\ UNCHANGED wire \/ (agent.alive /\ Written)
  /\ server' = At(IF server.call.call = "steer" THEN "refusing" ELSE "failed", server.call)
  /\ Silent
  /\ UNCHANGED <<calls, agent, turn, reader>>

Accept == Tells("accepting", SteerAccepted(server.call.message), Free)
Reject == Tells("rejecting", SteerRejected(server.call.message), Free)

Refuse ==
  Tells("refusing", SteerRejected(server.call.message),
        IF kind = "OpenCode" THEN Free ELSE At("failed", server.call))

Fail ==
  Tells("failed", Signal("Error"),
        IF kind = "OpenCode" /\ server.call = Cancel THEN Free ELSE At("settling", server.call))

\* A mistake: the turn whose prompt did not arrive is left to the reader.
SettleNothing ==
  /\ server.at = "settling" /\ server' = AfterFailure
  /\ Silent /\ UNCHANGED <<calls, turn, wire, agent, reader>>

Settle ==
  /\ server.at = "settling"
  /\ turn' = [turn EXCEPT !.active = FALSE]
  /\ server' = IF turn.active THEN At("finishing", server.call) ELSE AfterFailure
  /\ Silent
  /\ UNCHANGED <<calls, wire, agent, reader>>

FinishFailed == Tells("finishing", TurnFinished(FALSE), AfterFailure)

Serve ==
  TakePrompt \/ Announce \/ TakeSteer \/ TakeCancel \/ Write \/ WriteFails
    \/ Accept \/ Reject \/ Refuse \/ Fail \/ Settle \/ FinishFailed

\* AmpDriver::cancel signals the process from the client's thread.
KillAmp ==
  /\ kind = "Amp" /\ Cancel \in unsaid
  /\ unsaid' = unsaid \ {Cancel}
  /\ agent' \in {agent, [agent EXCEPT !.alive = FALSE]}
  /\ UNCHANGED kind
  /\ AgentOnly

-----------------------------------------------------------------------------
(* The provider folds a message into the running turn, begins a turn with  *)
(* it, or (Amp, without the steer marker) keeps it for later.              *)

\* The snapshot taken when the event stream is open: a permission asked before
\* the driver was started proves that its turn still runs.
Rehydrate ==
  /\ kind = "OpenCode" /\ ~turn.open /\ agent.alive
  /\ turn' \in {[turn EXCEPT !.open = TRUE, !.active = @ \/ pending] : pending \in {FALSE, agent.works}}
  /\ Silent /\ UNCHANGED <<calls, server, wire, agent, reader>>

AgentReads ==
  /\ agent.alive /\ wire # <<>>
  /\ kind = "Amp" /\ agent.works => Head(wire).call # "prompt"
  /\ wire' = Tail(wire)
  /\ agent' = [agent EXCEPT !.works = @ \/ Says(Head(wire))]
  /\ Silent /\ UNCHANGED <<calls, server, turn, reader>>

\* A prompt is posted whether the event stream is open yet or not.
Listening == kind = "OpenCode" => turn.open

\* An end told before the stream is open is told to nobody: the snapshot has
\* permissions only, and turn_active stays set.
AgentEnds ==
  /\ agent.alive /\ agent.works /\ reader = Idle
  /\ agent' = [agent EXCEPT !.works = FALSE]
  /\ \/ Listening /\ reader' = Ended(TRUE) /\ Silent
     \/ /\ kind # "OpenCode"
        /\ Emit(Signal("Error"))
        /\ reader' = IF kind = "Amp" THEN Idle ELSE Ended(FALSE)
     \/ /\ ~Listening
        /\ history' = [history EXCEPT !.lost = TRUE]
        /\ UNCHANGED <<events, exited, reader>>
  /\ UNCHANGED <<calls, server, wire, turn>>

TakeTurn ==
  /\ reader.at = "ended"
  /\ turn' = [turn EXCEPT !.active = FALSE]
  /\ reader' = IF turn.active THEN Finishing(reader.ok) ELSE Idle
  /\ Silent
  /\ UNCHANGED <<calls, server, wire, agent>>

FinishTurn == Reports("finishing", TurnFinished(reader.ok), Idle)

ReadOn == Rehydrate \/ TakeTurn \/ FinishTurn

-----------------------------------------------------------------------------
\* What the contract calls due.
StartsDue == IF server.at = "announcing" THEN 1 ELSE 0
FinishesDue ==
  (IF turn.active THEN 1 ELSE 0)
    + (IF reader.at = "finishing" THEN 1 ELSE 0)
    + (IF server.at = "finishing" THEN 1 ELSE 0)
    + (IF kind = "OpenCode" /\ ~turn.open THEN 1 ELSE 0)
Steering == SteeringAt({"writing", "accepting", "rejecting", "refusing"})
=============================================================================
