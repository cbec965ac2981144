----------------------------- MODULE TurnStream -----------------------------
(***************************************************************************)
(* What a provider driver promises to the client that holds its handle     *)
(* (crates/waku-core/src/driver/mod.rs, DriverControl): calls are served   *)
(* one at a time in the order they were made, each prompt and each turn    *)
(* the provider takes up by itself is announced at most once and finished  *)
(* at most once (or twice, where a prompt that was reported as failed may  *)
(* run all the same), each steer gets at most one answer, and the exit of  *)
(* the process is told once.  It says nothing of the order in which the    *)
(* ends of two turns and the announcement of the second arrive.            *)
(*                                                                         *)
(* DesktopTurn is built on this contract; ProviderDrivers shows that each  *)
(* driver keeps it.                                                        *)
(***************************************************************************)
EXTENDS DriverEvents

CONSTANT Forgoes  \* is an event that will not come struck off (TRUE), or left due for ever?

ASSUME ForgoesAssumption == Forgoes \in BOOLEAN

VARIABLES
  calls,      \* calls the driver has not served yet, oldest first
  starts,     \* TurnStarted events that may still come
  finishes,   \* TurnFinished events that may still come
  steering,   \* steers the driver took and has not answered
  events,     \* events sent and not read yet, oldest first
  exited,     \* ProcessExited was sent
  pursues,    \* the provider's thread has a goal it takes up by itself
  attempts,   \* how often the provider may report, and so run, one prompt
  eager       \* a steer that finds no turn begins one

streamVars == <<calls, starts, finishes, steering, events, exited, pursues, attempts, eager>>

StreamTypeOK ==
  /\ calls \in Seq(Calls)
  /\ events \in Seq(Events)
  /\ {starts, finishes} \subseteq Nat
  /\ steering \subseteq Messages
  /\ {exited, pursues, eager} \subseteq BOOLEAN
  /\ attempts \in {1, 2}

\* A provider may take up a turn it was left with, and one that cannot open its
\* session fails a turn nobody has asked for.
StreamInit ==
  /\ calls = <<>> /\ events = <<>> /\ steering = {}
  /\ starts \in {0, 1} /\ finishes \in {0, 1}
  /\ attempts \in {1, 2} /\ eager \in BOOLEAN
  /\ exited = FALSE /\ pursues = FALSE

-----------------------------------------------------------------------------
(* The client's side. *)

Call(call) ==
  /\ calls' = Append(calls, call)
  /\ UNCHANGED <<starts, finishes, steering, events, exited, pursues, attempts, eager>>

ReadEvent ==
  /\ events # <<>>
  /\ events' = Tail(events)
  /\ UNCHANGED <<calls, starts, finishes, steering, exited, pursues, attempts, eager>>

-----------------------------------------------------------------------------
(* The driver's side. *)

\* An event that is due: it is never certain to come.
Due(n) == IF Forgoes THEN 0..n ELSE {n}

Owes(announcements, ends) == starts' \in Due(announcements) /\ finishes' \in Due(ends)

Takes(call) == calls # <<>> /\ Head(calls).call = call /\ calls' = Tail(calls)

Sends(event) == events' = Append(events, event)

TakePrompt ==
  /\ Takes("prompt")
  /\ Owes(starts + attempts, finishes + attempts)
  /\ UNCHANGED <<steering, events, exited, pursues, attempts, eager>>

AnnounceTurn ==
  /\ starts > 0
  /\ Owes(starts - 1, finishes)
  /\ Sends(Signal("TurnStarted"))
  /\ UNCHANGED <<calls, steering, exited, pursues, attempts, eager>>

FinishTurn(ok) ==
  /\ finishes > 0
  /\ Owes(starts, finishes - 1)
  /\ Sends(TurnFinished(ok))
  /\ UNCHANGED <<calls, steering, exited, pursues, attempts, eager>>

TakeSteer ==
  /\ Takes("steer")
  /\ steering' = steering \cup {Head(calls).message}
  /\ UNCHANGED <<starts, finishes, events, exited, pursues, attempts, eager>>

\* A steer that comes after the end of its turn may begin another.
AnswerSteer(m) ==
  /\ m \in steering
  /\ steering' = steering \ {m}
  /\ Sends(SteerAccepted(m)) \/ Sends(SteerRejected(m))
  /\ \E more \in IF eager THEN {0, 1} ELSE {0} : Owes(starts + more, finishes + more)
  /\ UNCHANGED <<calls, exited, pursues, attempts, eager>>

TakeCancel ==
  /\ Takes("cancel")
  /\ UNCHANGED <<starts, finishes, steering, events, exited, pursues, attempts, eager>>

\* Goals are set, paused and cleared.
TakeGoal ==
  /\ Takes("goal")
  /\ pursues' \in BOOLEAN
  /\ UNCHANGED <<starts, finishes, steering, events, exited, attempts, eager>>

\* A provider with a goal takes up work again by itself.
Resume ==
  /\ pursues /\ ~exited
  /\ Owes(starts + 1, finishes + 1)
  /\ UNCHANGED <<calls, steering, events, exited, pursues, attempts, eager>>

Chat(e) ==
  /\ ~exited \/ e = Signal("Error")
  /\ Sends(e)
  /\ Owes(starts, finishes)
  /\ UNCHANGED <<calls, steering, exited, pursues, attempts, eager>>

Exit ==
  /\ ~exited
  /\ exited' = TRUE
  /\ Sends(Signal("ProcessExited"))
  /\ UNCHANGED <<calls, starts, finishes, steering, pursues, attempts, eager>>

\* Two prompts may become one turn, a turn may be given up unannounced, and
\* nothing makes up for an event that is not sent.
Forgo ==
  /\ Forgoes
  /\ starts' \in 0..starts /\ finishes' \in 0..finishes
  /\ steering' \in SUBSET steering /\ pursues' \in {FALSE, pursues}
  /\ UNCHANGED <<calls, events, exited, attempts, eager>>

Serve ==
  \/ TakePrompt \/ AnnounceTurn \/ TakeSteer \/ TakeCancel \/ TakeGoal
  \/ \E m \in steering : AnswerSteer(m)
  \/ \E ok \in BOOLEAN : FinishTurn(ok)

DriverStep == Serve \/ Resume \/ Forgo \/ Exit \/ \E e \in Chatter : Chat(e)

StreamNext == DriverStep \/ ReadEvent \/ \E call \in Calls : Call(call)

StreamSpec == StreamInit /\ [][StreamNext]_streamVars
=============================================================================
