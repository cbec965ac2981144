------------------------ MODULE ProviderDriversProofs ------------------------
(***************************************************************************)
(* Proofs about ProviderDrivers, for any messages, any set of kinds, any   *)
(* calls a client may make and any bounds: the types of a driver's state,  *)
(* and that every driver keeps the contract of TurnStream.                 *)
(*                                                                         *)
(* The contract counts what may still be announced and finished.  What a   *)
(* step does to those two numbers depends on where the driver's threads    *)
(* are, so there is one invariant for each family of drivers (FlagOwn,     *)
(* AcpOwn, CodexOwn, PiOwn, DeepSeekOwn) that says which call is served    *)
(* where; each step of the driver is then one step of the contract, named  *)
(* by a lemma (Forgoes, TakesPrompt, Announces, ...).                      *)
(***************************************************************************)
EXTENDS ProviderDrivers, SequenceTheorems, FiniteSetTheorems, WellFoundedInduction, TLAPS

Entries == {"start", "end"}
Envelopes == [what : {"event", "subscribed", "gone"}, seq : Nat]

Agents ==
  [alive : BOOLEAN, works : BOOLEAN, accepted : Nat, held : SUBSET Messages,
   noticed : SUBSET Messages, goal : BOOLEAN, pursuits : Nat, log : Seq(Entries), breaks : Nat]
TurnRecords ==
  [active : BOOLEAN, open : BOOLEAN, requests : Seq(Messages), steers : SUBSET Messages,
   stream : Seq(Envelopes), seen : Nat, linked : BOOLEAN]
Histories ==
  [running : BOOLEAN, mixed : BOOLEAN, lost : BOOLEAN, unanswered : SUBSET Messages]
Servers == {Free, Stopped, [at |-> "closing"], [at |-> "greeting"]} \cup [at : Places, call : Calls]
Readers ==
  {Idle, [at |-> "failing"], [at |-> "leaving"]} \cup [at : {"ended", "finishing"}, ok : BOOLEAN]
    \cup [at : {"replaying"}, upto : Nat]

\* What the client is told.
Told == events \in Seq(Events) /\ exited \in BOOLEAN /\ history \in Histories

\* The values the drivers' state takes.
Shaped ==
  /\ Told
  /\ kind \in Kinds /\ unsaid \subseteq Calls /\ calls \in Seq(Calls) /\ wire \in Seq(Calls)
  /\ server \in Servers /\ reader \in Readers
  /\ agent \in Agents /\ turn \in TurnRecords

-----------------------------------------------------------------------------
\* A call is one of four.
LEMMA CallShapes ==
  ASSUME NEW c \in Calls
  PROVE  /\ c.call \in {"prompt", "steer", "cancel", "goal"}
         /\ c.call \in {"prompt", "steer"} => c.message \in Messages
         /\ c.call = "prompt" => c = Prompt(c.message)
         /\ c.call = "steer" => c = Steer(c.message)
         /\ c.call = "cancel" => c = Cancel
         /\ c.call = "goal" => c = Goal
BY DEF Calls, Prompt, Steer, Cancel, Goal

\* Calls are told apart, and are about what they are made with.
LEMMA CallsMade ==
  /\ Cancel \in Calls /\ Goal \in Calls /\ Cancel.call = "cancel" /\ Goal.call = "goal"
  /\ Cancel # Goal
  /\ \A m \in Messages : /\ Prompt(m) \in Calls /\ Steer(m) \in Calls /\ Prompt(m) # Steer(m)
                         /\ Prompt(m).call = "prompt" /\ Steer(m).call = "steer"
                         /\ Prompt(m).message = m /\ Steer(m).message = m
BY DEF Calls, Prompt, Steer, Cancel, Goal

\* So are events.
LEMMA EventsMade ==
  /\ \A k \in {"Connected", "Output", "Permission", "Error", "TurnStarted", "ProcessExited"} :
       Signal(k) \in Events /\ Signal(k).event = k
  /\ \A ok \in BOOLEAN : TurnFinished(ok) \in Events /\ TurnFinished(ok).event = "TurnFinished"
  /\ \A m \in Messages : /\ SteerAccepted(m) \in Events /\ SteerAccepted(m).event = "SteerAccepted"
                         /\ SteerRejected(m) \in Events /\ SteerRejected(m).event = "SteerRejected"
BY DEF Events, Chatter, Signal, TurnFinished, SteerAccepted, SteerRejected

\* A thread that serves a call.
LEMMA ServerShapes ==
  ASSUME server \in Servers
  PROVE  /\ server.at \in {"free", "stopped", "closing", "greeting"} \cup Places
         /\ server.at \in Places => server.call \in Calls /\ server = At(server.at, server.call)
         /\ server.at = "free" <=> server = Free
         /\ server.at = "stopped" <=> server = Stopped
         /\ server.at = "closing" <=> server = [at |-> "closing"]
         /\ server.at = "greeting" <=> server = [at |-> "greeting"]
BY DEF Servers, Free, Stopped, Places, At

\* The places a serving thread can be made to be at.
LEMMA ServersMade ==
  /\ Free \in Servers /\ Stopped \in Servers /\ [at |-> "closing"] \in Servers
  /\ [at |-> "greeting"] \in Servers
  /\ Free.at = "free" /\ Stopped.at = "stopped"
  /\ \A p \in Places, c \in Calls : At(p, c) \in Servers /\ At(p, c).at = p /\ At(p, c).call = c
BY DEF Servers, Free, Stopped, At

\* Where the reader is, and what it knows there.
LEMMA ReaderShapes ==
  ASSUME reader \in Readers
  PROVE  /\ reader.at \in {"idle", "failing", "leaving", "ended", "finishing", "replaying"}
         /\ reader.at = "idle" <=> reader = Idle
         /\ reader.at \in {"ended", "finishing"} => reader.ok \in BOOLEAN
         /\ reader.at = "replaying" => reader.upto \in Nat
BY DEF Readers, Idle

\* The places the reader can be made to be at.
LEMMA ReadersMade ==
  /\ Idle \in Readers /\ [at |-> "failing"] \in Readers /\ [at |-> "leaving"] \in Readers
  /\ Idle.at = "idle"
  /\ \A ok \in BOOLEAN : /\ Ended(ok) \in Readers /\ Finishing(ok) \in Readers
                         /\ Ended(ok).at = "ended" /\ Finishing(ok).at = "finishing"
  /\ \A n \in Nat : [at |-> "replaying", upto |-> n] \in Readers
BY DEF Readers, Idle, Ended, Finishing

\* Sending an event.
LEMMA EmitTells ==
  ASSUME Told, NEW e \in Events, Emit(e)
  PROVE  /\ Told' /\ events' = Append(events, e)
         /\ e.event # "ProcessExited" => exited' = exited
         /\ e.event = "ProcessExited" => exited'
<1>1. events' = Append(events, e) /\ exited' = (exited \/ e.event = "ProcessExited")
  BY DEF Emit
<1>2. events' \in Seq(Events)
  BY <1>1, AppendProperties DEF Told
<1>3. history' \in Histories
  <2> DEFINE r == CASE e.event = "TurnStarted" -> TRUE
                    [] e.event \in {"TurnFinished", "ProcessExited"} -> FALSE
                    [] OTHER -> history.running
             u == IF e.event \in {"SteerAccepted", "SteerRejected"}
                    THEN history.unanswered \ {e.message} ELSE history.unanswered
  <2>1. history' = [history EXCEPT !.running = r, !.unanswered = u]
    BY DEF Emit
  <2>2. r \in BOOLEAN /\ u \subseteq Messages
    BY DEF Told, Histories
  <2> HIDE DEF r, u
  <2> QED BY <2>1, <2>2 DEF Told, Histories
<1> QED BY <1>1, <1>2, <1>3 DEF Told

\* Taking a call.
LEMMA TakeTells ==
  ASSUME Told, calls \in Seq(Calls), NEW call, Take(call)
  PROVE  /\ Told' /\ events' = events /\ exited' = exited
         /\ calls # << >> /\ Head(calls) \in Calls /\ Head(calls).call = call
         /\ calls' = Tail(calls) /\ calls' \in Seq(Calls) /\ server = Free
<1>1. /\ server = Free /\ calls # << >> /\ Head(calls).call = call /\ calls' = Tail(calls)
      /\ events' = events /\ exited' = exited
  BY DEF Take
<1>2. Head(calls) \in Calls /\ Tail(calls) \in Seq(Calls)
  BY <1>1, HeadTailProperties
<1>3. history' \in Histories
  <2> DEFINE x == history.mixed \/ (call = "prompt" /\ Occupied)
  <2>1. history' = [history EXCEPT !.mixed = x]
    BY DEF Take
  <2>2. x \in BOOLEAN
    BY DEF Told, Histories, Occupied
  <2> HIDE DEF x
  <2> QED BY <2>1, <2>2 DEF Told, Histories
<1> QED BY <1>1, <1>2, <1>3 DEF Told

-----------------------------------------------------------------------------
(* The steps of the contract, by what they do to what is due. *)

AtMost(announcements, ends) ==
  StartsDue' \in 0..announcements /\ FinishesDue' \in 0..ends

\* The driver only does something; nothing is said, taken or promised.
LEMMA Forgoes ==
  ASSUME kind' = kind, UNCHANGED <<calls, events, exited>>, AtMost(StartsDue, FinishesDue),
         Steering' \subseteq Steering, Pursues' \in {FALSE, Pursues}
  PROVE  Contract!StreamNext
BY DEF Contract!StreamNext, Contract!DriverStep, Contract!Forgo, AtMost, IsPi, IsDeepSeek

\* A prompt is taken: a turn, or two where an attempt is repeated, may come.
LEMMA TakesPrompt ==
  ASSUME kind' = kind, UNCHANGED <<events, exited>>,
         calls # << >>, Head(calls).call = "prompt", calls' = Tail(calls),
         AtMost(StartsDue + (IF IsPi \/ IsDeepSeek THEN 2 ELSE 1),
                FinishesDue + (IF IsPi \/ IsDeepSeek THEN 2 ELSE 1)),
         Steering' = Steering, Pursues' = Pursues
  PROVE  Contract!StreamNext
BY DEF Contract!StreamNext, Contract!DriverStep, Contract!Serve, Contract!TakePrompt, Contract!Takes,
       Contract!Owes, Contract!Due, AtMost, IsPi, IsDeepSeek

\* A steer is taken, and waits for its answer.
LEMMA TakesSteer ==
  ASSUME kind' = kind, UNCHANGED <<events, exited>>,
         calls # << >>, Head(calls).call = "steer", calls' = Tail(calls),
         StartsDue' = StartsDue, FinishesDue' = FinishesDue,
         Steering' = Steering \cup {Head(calls).message}, Pursues' = Pursues
  PROVE  Contract!StreamNext
BY DEF Contract!StreamNext, Contract!DriverStep, Contract!Serve, Contract!TakeSteer, Contract!Takes,
       IsPi, IsDeepSeek

\* Stop is taken, and promises nothing.
LEMMA TakesCancel ==
  ASSUME kind' = kind, UNCHANGED <<events, exited>>,
         calls # << >>, Head(calls).call = "cancel", calls' = Tail(calls),
         StartsDue' = StartsDue, FinishesDue' = FinishesDue,
         Steering' = Steering, Pursues' = Pursues
  PROVE  Contract!StreamNext
BY DEF Contract!StreamNext, Contract!DriverStep, Contract!Serve, Contract!TakeCancel, Contract!Takes,
       IsPi, IsDeepSeek

\* A goal is set, paused or cleared.
LEMMA TakesGoal ==
  ASSUME kind' = kind, UNCHANGED <<events, exited>>,
         calls # << >>, Head(calls).call = "goal", calls' = Tail(calls),
         StartsDue' = StartsDue, FinishesDue' = FinishesDue,
         Steering' = Steering, Pursues' \in BOOLEAN
  PROVE  Contract!StreamNext
BY DEF Contract!StreamNext, Contract!DriverStep, Contract!Serve, Contract!TakeGoal, Contract!Takes,
       IsPi, IsDeepSeek

\* A turn that is due is announced.
LEMMA Announces ==
  ASSUME kind' = kind, UNCHANGED <<calls, exited>>, events' = Append(events, Signal("TurnStarted")),
         StartsDue \in Nat \ {0}, AtMost(StartsDue - 1, FinishesDue),
         Steering' = Steering, Pursues' = Pursues
  PROVE  Contract!StreamNext
BY DEF Contract!StreamNext, Contract!DriverStep, Contract!Serve, Contract!AnnounceTurn, Contract!Sends,
       Contract!Signal, Signal, Contract!Owes, Contract!Due, AtMost, IsPi, IsDeepSeek

\* A turn that is due is finished.
LEMMA Finishes ==
  ASSUME kind' = kind, UNCHANGED <<calls, exited>>,
         NEW ok \in BOOLEAN, events' = Append(events, TurnFinished(ok)),
         FinishesDue \in Nat \ {0}, AtMost(StartsDue, FinishesDue - 1),
         Steering' = Steering, Pursues' = Pursues
  PROVE  Contract!StreamNext
BY DEF Contract!StreamNext, Contract!DriverStep, Contract!Serve, Contract!FinishTurn, Contract!Sends,
       Contract!TurnFinished, TurnFinished, Contract!Owes, Contract!Due, AtMost, IsPi, IsDeepSeek

\* Only the DeepSeek driver begins a turn with a steer.
LEMMA AnswersSteer ==
  ASSUME kind' = kind, UNCHANGED <<calls, exited>>, NEW m \in Steering,
         events' = Append(events, SteerAccepted(m)) \/ events' = Append(events, SteerRejected(m)),
         Steering' = Steering \ {m}, Pursues' = Pursues,
         StartsDue \in Nat, FinishesDue \in Nat,
         \/ AtMost(StartsDue, FinishesDue)
         \/ IsDeepSeek /\ AtMost(StartsDue + 1, FinishesDue + 1)
  PROVE  Contract!StreamNext
<1>1. Contract!Sends(SteerAccepted(m)) \/ Contract!Sends(SteerRejected(m))
  BY DEF Contract!Sends
<1>2. \E more \in IF IsDeepSeek THEN {0, 1} ELSE {0} :
        AtMost(StartsDue + more, FinishesDue + more)
  <2>1. StartsDue + 0 = StartsDue /\ FinishesDue + 0 = FinishesDue
    OBVIOUS
  <2> QED BY <2>1
<1>3. UNCHANGED <<IsPi, IsDeepSeek>>
  BY DEF IsPi, IsDeepSeek
<1>4. Contract!AnswerSteer(m)
  BY <1>1, <1>2, <1>3 DEF Contract!AnswerSteer, Contract!Owes, Contract!Due, AtMost,
     Contract!Sends, Contract!SteerAccepted, Contract!SteerRejected, SteerAccepted, SteerRejected
<1> QED BY <1>4 DEF Contract!StreamNext, Contract!DriverStep, Contract!Serve

\* An error is reported, and is no turn's end.
LEMMA Chats ==
  ASSUME kind' = kind, UNCHANGED <<calls, exited>>, events' = Append(events, Signal("Error")),
         AtMost(StartsDue, FinishesDue), Steering' = Steering, Pursues' = Pursues
  PROVE  Contract!StreamNext
<1>1. Contract!Chat(Signal("Error"))
  BY DEF Contract!Chat, Contract!Sends, Contract!Owes, Contract!Due, AtMost, IsPi, IsDeepSeek,
     Contract!Signal, Signal
<1>2. Signal("Error") \in Contract!Chatter
  BY DEF Contract!Chatter, Contract!Signal, Signal
<1> QED BY <1>1, <1>2 DEF Contract!StreamNext, Contract!DriverStep

\* The exit is told, once.
LEMMA Exits ==
  ASSUME kind' = kind, UNCHANGED <<calls>>, events' = Append(events, Signal("ProcessExited")),
         ~ exited, exited' = TRUE,
         StartsDue' = StartsDue, FinishesDue' = FinishesDue, Steering' = Steering, Pursues' = Pursues
  PROVE  Contract!StreamNext
BY DEF Contract!StreamNext, Contract!DriverStep, Contract!Exit, Contract!Sends,
       Contract!Signal, Signal, IsPi, IsDeepSeek

\* A goal lets one more turn come.
LEMMA Resumes ==
  ASSUME kind' = kind, UNCHANGED <<calls, events, exited>>, Pursues, ~ exited,
         AtMost(StartsDue + 1, FinishesDue + 1), Steering' = Steering, Pursues' = Pursues
  PROVE  Contract!StreamNext
BY DEF Contract!StreamNext, Contract!DriverStep, Contract!Resume, Contract!Owes, Contract!Due,
       AtMost, IsPi, IsDeepSeek

\* The client calls.
LEMMA IsCalled ==
  ASSUME kind' = kind, NEW c \in Calls, calls' = Append(calls, c), UNCHANGED <<events, exited>>,
         StartsDue' = StartsDue, FinishesDue' = FinishesDue, Steering' = Steering, Pursues' = Pursues
  PROVE  Contract!StreamNext
<1>1. Contract!Call(c)
  BY DEF Contract!Call, IsPi, IsDeepSeek
<1>2. c \in Contract!Calls
  BY DEF Contract!Calls, Contract!Prompt, Contract!Steer, Contract!Cancel, Contract!Goal,
         Calls, Prompt, Steer, Cancel, Goal
<1> QED BY <1>1, <1>2 DEF Contract!StreamNext

\* The client reads.
LEMMA IsRead ==
  ASSUME kind' = kind, events # << >>, events' = Tail(events), UNCHANGED <<calls, exited>>,
         StartsDue' = StartsDue, FinishesDue' = FinishesDue, Steering' = Steering, Pursues' = Pursues
  PROVE  Contract!StreamNext
BY DEF Contract!StreamNext, Contract!ReadEvent, IsPi, IsDeepSeek

-----------------------------------------------------------------------------
(* Claude, Amp and OpenCode *)

\* The frame of this family is the frame.
LEMMA FlagFrame ==
  /\ \A call : Flag!Take(call) <=> Take(call)
  /\ \A e : Flag!Emit(e) <=> Emit(e)
  /\ Flag!Silent <=> UNCHANGED <<events, exited, history>>
  /\ Flag!Written <=> wire' = Append(wire, server.call)
  /\ Flag!Free = Free /\ Flag!Stopped = Stopped /\ Flag!Idle = Idle
  /\ Flag!Cancel = Cancel /\ Flag!Goal = Goal
  /\ \A place, call : Flag!At(place, call) = At(place, call)
  /\ \A x : /\ Flag!Signal(x) = Signal(x) /\ Flag!TurnFinished(x) = TurnFinished(x)
            /\ Flag!SteerAccepted(x) = SteerAccepted(x) /\ Flag!SteerRejected(x) = SteerRejected(x)
            /\ Flag!Ended(x) = Ended(x) /\ Flag!Finishing(x) = Finishing(x)
            /\ Flag!Says(x) <=> Says(x)
<1>1. ASSUME NEW call  PROVE Flag!Take(call) <=> Take(call)
  BY DEF Flag!Take, Take, Flag!Occupied, Occupied, Flag!Says, Says, Flag!Range, Range, Flag!Free, Free
<1>2. ASSUME NEW e  PROVE Flag!Emit(e) <=> Emit(e)
  BY DEF Flag!Emit, Emit
<1>3. \A place, call : Flag!At(place, call) = At(place, call)
  BY DEF Flag!At, At
<1>4. \A x : Flag!Signal(x) = Signal(x) /\ Flag!TurnFinished(x) = TurnFinished(x)
  BY DEF Flag!Signal, Signal, Flag!TurnFinished, TurnFinished
<1>5. \A x : Flag!SteerAccepted(x) = SteerAccepted(x) /\ Flag!SteerRejected(x) = SteerRejected(x)
  BY DEF Flag!SteerAccepted, SteerAccepted, Flag!SteerRejected, SteerRejected
<1>6. \A x : Flag!Ended(x) = Ended(x) /\ Flag!Finishing(x) = Finishing(x)
  BY DEF Flag!Ended, Ended, Flag!Finishing, Finishing
<1>7. \A x : Flag!Says(x) <=> Says(x)
  BY DEF Flag!Says, Says
<1>8. /\ Flag!Free = Free /\ Flag!Stopped = Stopped /\ Flag!Idle = Idle
      /\ Flag!Cancel = Cancel /\ Flag!Goal = Goal
  BY DEF Flag!Free, Free, Flag!Stopped, Stopped, Flag!Idle, Idle, Flag!Cancel, Cancel, Flag!Goal, Goal
<1>9. Flag!Silent <=> UNCHANGED <<events, exited, history>>
  BY DEF Flag!Silent
<1>10. Flag!Written <=> wire' = Append(wire, server.call)
  BY DEF Flag!Written
<1> QED BY <1>1, <1>2, <1>3, <1>4, <1>5, <1>6, <1>7, <1>8, <1>9, <1>10

\* What most steps leave alone.
LogKept ==
  /\ agent'.log = agent.log /\ turn'.seen = turn.seen /\ turn'.stream = turn.stream
  /\ reader' = reader \/ reader'.at # "replaying"
Dies == (agent'.alive => agent.alive) /\ (exited' => exited \/ ~ agent'.alive)
Keeps ==
  /\ LogKept /\ Dies
  /\ agent'.goal = agent.goal
  /\ calls' = calls \/ (calls # << >> /\ calls' = Tail(calls))
Leaves == Keeps /\ turn'.requests = turn.requests

\* Which calls are served where.
FlagOwn ==
  /\ server.at \in {"accepting", "rejecting", "refusing"} => server.call.call = "steer"
  /\ server.at = "announcing" => server.call.call = "prompt"

\* What is due of a driver with a flag is what its module says.
LEMMA FlagDues ==
  ASSUME HasFlag, kind' = kind
  PROVE  /\ StartsDue = Flag!StartsDue /\ StartsDue' = Flag!StartsDue'
         /\ FinishesDue = Flag!FinishesDue /\ FinishesDue' = Flag!FinishesDue'
         /\ Steering = Flag!Steering /\ Steering' = Flag!Steering'
         /\ Pursues = FALSE /\ Pursues' = FALSE
BY DEF StartsDue, FinishesDue, Steering, Pursues, HasFlag, IsAcp, IsCodex, IsPi, IsDeepSeek

\* The writer takes a call.
LEMMA FlagTakes ==
  ASSUME Shaped, HasFlag, FlagOwn, UNCHANGED <<kind, unsaid>>,
         Flag!TakePrompt \/ Flag!TakeSteer \/ Flag!TakeCancel
  PROVE  Shaped' /\ FlagOwn' /\ Leaves /\ Contract!StreamNext
<1> USE FlagFrame, FlagDues, ServersMade
<1>1. PICK call \in {"prompt", "steer", "cancel"} :
        /\ Take(call) /\ UNCHANGED <<wire, agent, reader>>
        /\ turn' = IF call = "prompt" THEN [turn EXCEPT !.active = TRUE] ELSE turn
        /\ server' = At(IF call = "prompt" THEN "announcing"
                          ELSE IF call = "steer" /\ ~ turn.active THEN "rejecting" ELSE "writing",
                        Head(calls))
  BY DEF Flag!TakePrompt, Flag!TakeSteer, Flag!TakeCancel
<1>2. /\ Told' /\ events' = events /\ exited' = exited
      /\ calls # << >> /\ Head(calls) \in Calls /\ Head(calls).call = call
      /\ calls' = Tail(calls) /\ calls' \in Seq(Calls) /\ server = Free
  BY <1>1, TakeTells DEF Shaped
<1>3. /\ turn' \in TurnRecords /\ turn'.active = (turn.active \/ call = "prompt")
      /\ turn'.requests = turn.requests /\ turn'.seen = turn.seen /\ turn'.stream = turn.stream
      /\ turn'.open = turn.open
  BY <1>1 DEF Shaped, TurnRecords
<1>4. /\ server' \in Servers /\ server'.at \in {"announcing", "writing", "rejecting"}
      /\ server'.at = "announcing" <=> call = "prompt"
      /\ server'.at = "rejecting" => call = "steer"
      /\ server'.call = Head(calls)
  BY <1>1, <1>2 DEF Places
<1>5. Shaped' /\ FlagOwn' /\ Leaves
  BY <1>1, <1>2, <1>3, <1>4 DEF Shaped, FlagOwn, Leaves, Keeps, LogKept, Dies
<1>6. Contract!StreamNext
  <2>1. CASE call = "prompt"
    <3>1. AtMost(StartsDue + 1, FinishesDue + 1)
      BY <1>1, <1>2, <1>3, <1>4, <2>1 DEF AtMost, Flag!StartsDue, Flag!FinishesDue
    <3>2. Steering' = Steering
      BY <1>2, <1>4, <2>1 DEF Flag!Steering, Flag!SteeringAt
    <3> QED BY <1>2, <2>1, <3>1, <3>2, TakesPrompt DEF HasFlag, IsPi, IsDeepSeek
  <2>2. CASE call # "prompt"
    <3>1. StartsDue' = StartsDue /\ FinishesDue' = FinishesDue
      BY <1>1, <1>2, <1>3, <1>4, <2>2 DEF Flag!StartsDue, Flag!FinishesDue
    <3>2. Steering' = IF call = "steer" THEN Steering \cup {Head(calls).message} ELSE Steering
      BY <1>2, <1>4, <2>2 DEF Flag!Steering, Flag!SteeringAt
    <3> QED BY <1>1, <1>2, <2>2, <3>1, <3>2, TakesSteer, TakesCancel
  <2> QED BY <2>1, <2>2
<1> QED BY <1>5, <1>6

\* The writer tells the client something.
LEMMA FlagTells ==
  ASSUME Shaped, HasFlag, FlagOwn, UNCHANGED <<kind, unsaid>>,
         \/ Flag!Announce \/ Flag!Accept \/ Flag!Reject \/ Flag!Refuse \/ Flag!Fail \/ Flag!FinishFailed
  PROVE  Shaped' /\ FlagOwn' /\ Leaves /\ Contract!StreamNext
<1> USE FlagFrame, FlagDues, ServersMade
<1> DEFINE m == server.call.message
<1>0. Signal("TurnStarted") \in Events /\ Signal("Error") \in Events /\ TurnFinished(FALSE) \in Events
  BY EventsMade
<1>1. PICK e, next :
        /\ Emit(e) /\ server' = next /\ UNCHANGED <<calls, wire, agent, turn, reader>>
        /\ \/ /\ server.at = "announcing" /\ e = Signal("TurnStarted")
              /\ next = At("writing", server.call)
           \/ /\ server.at \in {"accepting", "rejecting", "refusing"}
              /\ e \in {SteerAccepted(m), SteerRejected(m)}
              /\ next \in {Free, At("failed", server.call)}
           \/ /\ server.at = "failed" /\ e = Signal("Error")
              /\ next \in {Free, At("settling", server.call)}
           \/ /\ server.at = "finishing" /\ e = TurnFinished(FALSE) /\ next \in {Free, Stopped}
  BY DEF Flag!Announce, Flag!Accept, Flag!Reject, Flag!Refuse, Flag!Fail, Flag!FinishFailed,
         Flag!Tells, Flag!AfterFailure
<1>2. /\ server.at \in {"announcing", "accepting", "rejecting", "refusing", "failed", "finishing"}
      /\ server.call \in Calls
  BY <1>1, ServerShapes DEF Shaped, Places
<1>3. server.at \in {"accepting", "rejecting", "refusing"} =>
        m \in Messages /\ SteerAccepted(m) \in Events /\ SteerRejected(m) \in Events
  BY <1>2, CallShapes, EventsMade DEF FlagOwn
<1>4. e \in Events /\ e.event # "ProcessExited"
  <2>1. CASE server.at \in {"accepting", "rejecting", "refusing"}
    <3>1. e = SteerAccepted(m) \/ e = SteerRejected(m)
      BY <1>1, <2>1
    <3> QED BY <1>3, <2>1, <3>1, EventsMade
  <2>2. CASE server.at \notin {"accepting", "rejecting", "refusing"}
    <3>1. e = Signal("TurnStarted") \/ e = Signal("Error") \/ e = TurnFinished(FALSE)
      BY <1>1, <2>2
    <3> QED BY <1>0, <3>1, EventsMade
  <2> QED BY <2>1, <2>2
<1>5. Told' /\ events' = Append(events, e) /\ exited' = exited
  BY <1>1, <1>4, EmitTells DEF Shaped
<1>6. /\ server' \in Servers
      /\ server'.at \in {"free", "stopped", "writing", "failed", "settling"}
      /\ server.at = "announcing" => server'.at = "writing" /\ server'.call = server.call
      /\ server.at # "announcing" => server'.at # "writing"
  <2>1. /\ server' \in {Free, Stopped, At("writing", server.call), At("failed", server.call),
                       At("settling", server.call)}
        /\ server.at = "announcing" <=> server' = At("writing", server.call)
    <3>1. \A p, q \in Places : p # q => At(p, server.call) # At(q, server.call)
      BY <1>2
    <3>2. \A p \in Places : At(p, server.call) # Free /\ At(p, server.call) # Stopped
      BY <1>2 DEF Places
    <3>3. "writing" \in Places /\ "failed" \in Places /\ "settling" \in Places
      BY DEF Places
    <3>4. CASE server.at = "announcing"
      BY <1>1, <3>4
    <3>5. CASE server.at # "announcing"
      <4>1. server' \in {Free, Stopped, At("failed", server.call), At("settling", server.call)}
        BY <1>1, <3>5
      <4> QED BY <3>1, <3>2, <3>3, <3>5, <4>1
    <3> QED BY <3>4, <3>5
  <2>2. "writing" \in Places /\ "failed" \in Places /\ "settling" \in Places
    BY DEF Places
  <2> QED BY <1>2, <2>1, <2>2
<1>7. Shaped' /\ FlagOwn' /\ Leaves
  BY <1>1, <1>5, <1>6 DEF Shaped, FlagOwn, Leaves, Keeps, LogKept, Dies
<1>8. turn'.active = turn.active /\ turn.active \in BOOLEAN
  BY <1>1 DEF Shaped, TurnRecords
<1>9. StartsDue \in Nat /\ FinishesDue \in Nat
  BY DEF Flag!StartsDue, Flag!FinishesDue
<1>14. /\ Steering = IF /\ server.at \in {"writing", "accepting", "rejecting", "refusing"}
                       /\ server.call.call = "steer"
                      THEN {m} ELSE {}
       /\ Steering' = IF /\ server'.at \in {"writing", "accepting", "rejecting", "refusing"}
                        /\ server'.call.call = "steer"
                       THEN {server'.call.message} ELSE {}
  BY DEF Flag!Steering, Flag!SteeringAt
<1>10. CASE server.at = "announcing"
  <2>1. StartsDue = 1 /\ StartsDue' = 0 /\ FinishesDue' = FinishesDue
    BY <1>1, <1>6, <1>10 DEF Flag!StartsDue, Flag!FinishesDue
  <2>2. Steering' = Steering
    <3>1. server.call.call = "prompt"
      BY <1>10 DEF FlagOwn
    <3> QED BY <1>6, <1>10, <1>14, <3>1
  <2> QED BY <1>1, <1>5, <1>7, <1>9, <1>10, <2>1, <2>2, Announces DEF AtMost
<1>11. CASE server.at \in {"accepting", "rejecting", "refusing"}
  <2>1. AtMost(StartsDue, FinishesDue)
    BY <1>1, <1>6, <1>9, <1>11 DEF AtMost, Flag!StartsDue, Flag!FinishesDue
  <2>2. m \in Steering /\ Steering' = Steering \ {m}
    <3>1. server.call.call = "steer"
      BY <1>11 DEF FlagOwn
    <3>2. server'.at \in {"free", "stopped", "failed", "settling"}
      BY <1>6, <1>11
    <3> QED BY <1>11, <1>14, <3>1, <3>2
  <2>3. events' = Append(events, SteerAccepted(m)) \/ events' = Append(events, SteerRejected(m))
    BY <1>1, <1>5, <1>11
  <2> HIDE DEF m
  <2> QED BY <1>1, <1>5, <1>7, <1>9, <2>1, <2>2, <2>3, AnswersSteer
<1>12. CASE server.at = "failed"
  <2>1. AtMost(StartsDue, FinishesDue)
    BY <1>1, <1>6, <1>9, <1>12 DEF AtMost, Flag!StartsDue, Flag!FinishesDue
  <2>2. Steering' = Steering
    BY <1>6, <1>12, <1>14
  <2> QED BY <1>1, <1>5, <1>7, <1>12, <2>1, <2>2, Chats
<1>13. CASE server.at = "finishing"
  <2>1. StartsDue' = 0 /\ FinishesDue \in Nat \ {0} /\ FinishesDue' = FinishesDue - 1
    BY <1>1, <1>6, <1>13 DEF Flag!StartsDue, Flag!FinishesDue
  <2>2. Steering' = Steering
    BY <1>6, <1>13, <1>14
  <2>3. events' = Append(events, TurnFinished(FALSE))
    BY <1>1, <1>5, <1>13
  <2>4. AtMost(StartsDue, FinishesDue - 1)
    BY <1>9, <2>1 DEF AtMost
  <2>5. Contract!StreamNext
    BY <1>1, <1>5, <2>1, <2>2, <2>3, <2>4, Finishes
  <2> QED BY <1>7, <2>5
<1> QED BY <1>2, <1>7, <1>10, <1>11, <1>12, <1>13

\* The writer writes to the provider, or cannot, and settles the turn.
LEMMA FlagWrites ==
  ASSUME Shaped, HasFlag, FlagOwn, UNCHANGED <<kind, unsaid>>,
         Flag!Write \/ Flag!WriteFails \/ Flag!Settle
  PROVE  Shaped' /\ FlagOwn' /\ Leaves /\ Contract!StreamNext
<1> USE FlagFrame, FlagDues, ServersMade
<1>1. /\ server.at \in {"writing", "settling"} /\ UNCHANGED <<calls, events, exited, history, agent, reader>>
      /\ \/ /\ server.at = "writing" /\ turn' = turn
            /\ UNCHANGED wire \/ wire' = Append(wire, server.call)
            /\ server' \in IF server.call.call = "steer"
                             THEN {At("accepting", server.call), At("refusing", server.call)}
                             ELSE {Free, At("failed", server.call)}
         \/ /\ server.at = "settling" /\ wire' = wire
            /\ turn' = [turn EXCEPT !.active = FALSE]
            /\ IF turn.active THEN server' = At("finishing", server.call) ELSE server' \in {Free, Stopped}
  BY DEF Flag!Write, Flag!WriteFails, Flag!Settle, Flag!AfterFailure
<1>2. server.call \in Calls
  BY <1>1, ServerShapes DEF Shaped, Places
<1>3. wire' \in Seq(Calls)
  BY <1>1, <1>2, AppendProperties DEF Shaped
<1>4. /\ server' \in Servers /\ server'.at \in {"free", "stopped", "accepting", "refusing", "failed", "finishing"}
      /\ server'.at \in {"accepting", "refusing"} =>
           /\ server.at = "writing" /\ server.call.call = "steer" /\ server'.call = server.call
      /\ server'.at = "finishing" => server.at = "settling" /\ turn.active
  BY <1>1, <1>2 DEF Places
<1>5. /\ turn' \in TurnRecords /\ turn'.active = (turn.active /\ server.at = "writing")
      /\ turn'.requests = turn.requests /\ turn'.seen = turn.seen /\ turn'.stream = turn.stream
      /\ turn'.open = turn.open
  BY <1>1 DEF Shaped, TurnRecords
<1>6. Shaped' /\ FlagOwn' /\ Leaves
  BY <1>1, <1>3, <1>4, <1>5 DEF Shaped, Told, FlagOwn, Leaves, Keeps, LogKept, Dies
<1>7. AtMost(StartsDue, FinishesDue)
  <2>1. turn.active \in BOOLEAN /\ server'.at # "announcing" /\ server.at # "finishing"
    BY <1>1, <1>4 DEF Shaped, TurnRecords
  <2>2. StartsDue' = 0 /\ StartsDue \in Nat
    BY <2>1 DEF Flag!StartsDue
  <2>3. FinishesDue' \in Nat /\ FinishesDue \in Nat /\ FinishesDue' <= FinishesDue
    <3>1. CASE server.at = "writing"
      BY <1>1, <1>4, <1>5, <2>1, <3>1 DEF Flag!FinishesDue
    <3>2. CASE server.at = "settling"
      <4>1. turn'.active = FALSE /\ UNCHANGED <<kind, turn.open, reader>>
        BY <1>1, <1>5, <3>2
      <4>2. CASE turn.active
        BY <2>1, <4>1, <4>2 DEF Flag!FinishesDue
      <4>3. CASE ~ turn.active
        <5>1. server'.at # "finishing"
          BY <1>4, <4>3
        <5> QED BY <2>1, <4>1, <4>3, <5>1 DEF Flag!FinishesDue
      <4> QED BY <4>2, <4>3
    <3> QED BY <1>1, <3>1, <3>2
  <2> QED BY <2>2, <2>3 DEF AtMost
<1>8. Steering' \subseteq Steering
  BY <1>1, <1>4 DEF Flag!Steering, Flag!SteeringAt
<1> QED BY <1>1, <1>6, <1>7, <1>8, Forgoes

\* The provider reads and ends turns; the reader takes the turn and finishes it.
LEMMA FlagReads ==
  ASSUME Shaped, HasFlag, FlagOwn, UNCHANGED <<kind, unsaid>>,
         Flag!ReadOn \/ Flag!AgentReads \/ Flag!AgentEnds
  PROVE  Shaped' /\ FlagOwn' /\ Leaves /\ Contract!StreamNext
<1> USE FlagFrame, FlagDues, ReadersMade
<1>0. turn.active \in BOOLEAN /\ agent.works \in BOOLEAN /\ turn.open \in BOOLEAN
  BY DEF Shaped, TurnRecords, Agents
<1>1. StartsDue \in Nat /\ FinishesDue \in Nat
  BY DEF Flag!StartsDue, Flag!FinishesDue
<1>2. ASSUME server' = server
      PROVE  Steering' = Steering /\ StartsDue' = StartsDue
  BY <1>2 DEF Flag!Steering, Flag!SteeringAt, Flag!StartsDue
<1>3. CASE Flag!Rehydrate
  <2>1. PICK pending \in {FALSE, agent.works} :
          turn' = [turn EXCEPT !.open = TRUE, !.active = turn.active \/ pending]
    BY <1>3 DEF Flag!Rehydrate
  <2>2. UNCHANGED <<calls, events, exited, history, server, wire, agent, reader>> /\ ~ turn.open /\ kind = "OpenCode"
    BY <1>3 DEF Flag!Rehydrate
  <2>3. /\ turn' \in TurnRecords /\ turn'.open = TRUE
        /\ turn'.requests = turn.requests /\ turn'.seen = turn.seen /\ turn'.stream = turn.stream
    BY <1>0, <2>1 DEF Shaped, TurnRecords
  <2>4. Shaped' /\ FlagOwn' /\ Leaves
    BY <2>2, <2>3 DEF Shaped, Told, FlagOwn, Leaves, Keeps, LogKept, Dies
  <2>5. FinishesDue' \in 0..FinishesDue
    BY <1>0, <2>2, <2>3 DEF Flag!FinishesDue
  <2> QED BY <1>1, <1>2, <2>2, <2>4, <2>5, Forgoes DEF AtMost
<1>4. CASE Flag!TakeTurn
  <2>1. /\ UNCHANGED <<calls, events, exited, history, server, wire, agent>> /\ reader.at = "ended"
        /\ turn' = [turn EXCEPT !.active = FALSE]
        /\ reader' = IF turn.active THEN Finishing(reader.ok) ELSE Idle
    BY <1>4 DEF Flag!TakeTurn
  <2>2. /\ turn' \in TurnRecords /\ turn'.active = FALSE /\ turn'.open = turn.open
        /\ turn'.requests = turn.requests /\ turn'.seen = turn.seen /\ turn'.stream = turn.stream
    BY <2>1 DEF Shaped, TurnRecords
  <2>3. reader' \in Readers /\ reader'.at = IF turn.active THEN "finishing" ELSE "idle"
    BY <2>1, ReaderShapes DEF Shaped
  <2>4. Shaped' /\ FlagOwn' /\ Leaves
    BY <2>1, <2>2, <2>3 DEF Shaped, Told, FlagOwn, Leaves, Keeps, LogKept, Dies
  <2>5. FinishesDue' = FinishesDue
    BY <1>0, <2>1, <2>2, <2>3 DEF Flag!FinishesDue
  <2> QED BY <1>1, <1>2, <2>1, <2>4, <2>5, Forgoes DEF AtMost
<1>5. CASE Flag!FinishTurn
  <2>1. /\ reader.at = "finishing" /\ Emit(TurnFinished(reader.ok)) /\ reader' = Idle
        /\ UNCHANGED <<calls, server, wire, agent, turn>>
    BY <1>5 DEF Flag!FinishTurn, Flag!Reports
  <2>2. reader.ok \in BOOLEAN
    BY <2>1, ReaderShapes DEF Shaped
  <2>3. TurnFinished(reader.ok) \in Events /\ TurnFinished(reader.ok).event # "ProcessExited"
    BY <2>2, EventsMade
  <2>4. Told' /\ events' = Append(events, TurnFinished(reader.ok)) /\ exited' = exited
    BY <2>1, <2>3, EmitTells DEF Shaped
  <2>5. Shaped' /\ FlagOwn' /\ Leaves
    BY <2>1, <2>4 DEF Shaped, FlagOwn, Leaves, Keeps, LogKept, Dies
  <2>6. FinishesDue \in Nat \ {0} /\ FinishesDue' = FinishesDue - 1
    BY <1>0, <2>1 DEF Flag!FinishesDue
  <2> QED BY <1>1, <1>2, <2>1, <2>2, <2>4, <2>5, <2>6, Finishes DEF AtMost
<1>6. CASE Flag!AgentReads
  <2>1. /\ wire # << >> /\ wire' = Tail(wire) /\ UNCHANGED <<calls, events, exited, history, server, turn, reader>>
        /\ agent' = [agent EXCEPT !.works = agent.works \/ Says(Head(wire))]
    BY <1>6 DEF Flag!AgentReads
  <2>2. wire' \in Seq(Calls)
    BY <2>1, HeadTailProperties DEF Shaped
  <2>3. agent' \in Agents /\ agent'.alive = agent.alive /\ agent'.log = agent.log /\ agent'.goal = agent.goal
    BY <1>0, <2>1 DEF Shaped, Agents, Says
  <2>4. Shaped' /\ FlagOwn' /\ Leaves
    BY <2>1, <2>2, <2>3 DEF Shaped, Told, FlagOwn, Leaves, Keeps, LogKept, Dies
  <2>5. FinishesDue' = FinishesDue
    BY <2>1 DEF Flag!FinishesDue
  <2> QED BY <1>1, <1>2, <2>1, <2>4, <2>5, Forgoes DEF AtMost
<1>7. CASE Flag!AgentEnds
  <2>1. /\ reader = Idle /\ UNCHANGED <<calls, server, wire, turn>>
        /\ agent' = [agent EXCEPT !.works = FALSE]
        /\ \/ reader' = Ended(TRUE) /\ UNCHANGED <<events, exited, history>>
           \/ Emit(Signal("Error")) /\ reader' \in {Idle, Ended(FALSE)}
           \/ /\ history' = [history EXCEPT !.lost = TRUE]
              /\ UNCHANGED <<events, exited, reader>>
    BY <1>7 DEF Flag!AgentEnds
  <2>2. agent' \in Agents /\ agent'.alive = agent.alive /\ agent'.log = agent.log /\ agent'.goal = agent.goal
    BY <2>1 DEF Shaped, Agents
  <2>3. reader' \in Readers /\ reader'.at \in {"idle", "ended"} /\ reader.at = "idle"
    BY <2>1
  <2>4. FinishesDue' = FinishesDue
    BY <2>1, <2>3 DEF Flag!FinishesDue
  <2>5. CASE UNCHANGED <<events, exited, history>>
    <3>1. Shaped' /\ FlagOwn' /\ Leaves
      BY <2>1, <2>2, <2>3, <2>5 DEF Shaped, Told, FlagOwn, Leaves, Keeps, LogKept, Dies
    <3> QED BY <1>1, <1>2, <2>1, <2>4, <2>5, <3>1, Forgoes DEF AtMost
  <2>6. CASE Emit(Signal("Error"))
    <3>1. Told' /\ events' = Append(events, Signal("Error")) /\ exited' = exited
      BY <2>6, EventsMade, EmitTells DEF Shaped
    <3>2. Shaped' /\ FlagOwn' /\ Leaves
      BY <2>1, <2>2, <2>3, <3>1 DEF Shaped, FlagOwn, Leaves, Keeps, LogKept, Dies
    <3> QED BY <1>1, <1>2, <2>1, <2>4, <3>1, <3>2, Chats DEF AtMost
  <2>7. CASE history' = [history EXCEPT !.lost = TRUE] /\ UNCHANGED <<events, exited, reader>>
    <3>1. history' \in Histories
      BY <2>7 DEF Shaped, Told, Histories
    <3>2. Shaped' /\ FlagOwn' /\ Leaves
      BY <2>1, <2>2, <2>3, <2>7, <3>1 DEF Shaped, Told, FlagOwn, Leaves, Keeps, LogKept, Dies
    <3> QED BY <1>1, <1>2, <2>1, <2>4, <2>7, <3>2, Forgoes DEF AtMost
  <2> QED BY <2>1, <2>5, <2>6, <2>7
<1> QED BY <1>3, <1>4, <1>5, <1>6, <1>7 DEF Flag!ReadOn

-----------------------------------------------------------------------------
(* Messages that are sent once *)

\* The messages the client may still send, or has sent to a driver that has not looked.
Waiting ==
  {m \in Messages : \/ Prompt(m) \in unsaid \/ Steer(m) \in unsaid
                    \/ \E i \in DOMAIN calls : Says(calls[i]) /\ calls[i].message = m}

\* Each is called for once.
OnceEach ==
  /\ \A i \in DOMAIN calls : Says(calls[i]) =>
       Prompt(calls[i].message) \notin unsaid /\ Steer(calls[i].message) \notin unsaid
  /\ \A i, j \in DOMAIN calls :
       Says(calls[i]) /\ Says(calls[j]) /\ calls[i].message = calls[j].message => i = j

NoRepeats(s) == \A i, j \in 1..Len(s) : s[i] = s[j] => i = j

\* A call that is taken is not waited for again.
LEMMA TakenOnce ==
  ASSUME calls \in Seq(Calls), OnceEach, unsaid' = unsaid, calls # << >>, calls' = Tail(calls)
  PROVE  /\ OnceEach' /\ Waiting' \subseteq Waiting
         /\ Says(Head(calls)) => Head(calls).message \in Waiting /\ Head(calls).message \notin Waiting'
<1>1. /\ Len(calls) \in Nat /\ Len(calls) > 0 /\ DOMAIN calls = 1..Len(calls)
      /\ DOMAIN calls' = 1..(Len(calls) - 1) /\ Head(calls) = calls[1]
      /\ \A i \in 1..(Len(calls) - 1) : calls'[i] = calls[i + 1]
      /\ \A i \in DOMAIN calls : calls[i] \in Calls
  <2>1. Len(calls') = Len(calls) - 1 /\ \A i \in 1..Len(calls') : calls'[i] = calls[i + 1]
    BY HeadTailProperties
  <2>2. Tail(calls) \in Seq(Calls) /\ Head(calls) = calls[1]
    BY HeadTailProperties
  <2>3. Len(calls) > 0
    BY EmptySeq, LenProperties
  <2> QED BY <2>1, <2>2, <2>3, LenProperties, ElementOfSeq
<1>2. OnceEach'
  <2>1. \A i \in DOMAIN calls' : i + 1 \in DOMAIN calls /\ calls'[i] = calls[i + 1]
    BY <1>1
  <2>2. \A i, j \in DOMAIN calls' : i + 1 = j + 1 => i = j
    BY <1>1
  <2> QED BY <2>1, <2>2 DEF OnceEach, Says
<1>3. Waiting' \subseteq Waiting
  <2>1. \A i \in DOMAIN calls' : i + 1 \in DOMAIN calls /\ calls'[i] = calls[i + 1]
    BY <1>1
  <2> QED BY <2>1 DEF Waiting, Says
<1>4. ASSUME Says(Head(calls))
      PROVE  Head(calls).message \in Waiting /\ Head(calls).message \notin Waiting'
  <2>1. 1 \in DOMAIN calls /\ calls[1] = Head(calls) /\ Says(calls[1])
    BY <1>1, <1>4
  <2>2. Head(calls).message \in Messages
    BY <1>1, <2>1, CallShapes DEF Says
  <2>3. \A i \in DOMAIN calls' : Says(calls'[i]) => calls'[i].message # calls[1].message
    <3>1. ASSUME NEW i \in DOMAIN calls', Says(calls'[i]), calls'[i].message = calls[1].message
          PROVE  FALSE
      <4>1. i + 1 \in DOMAIN calls /\ calls'[i] = calls[i + 1] /\ i + 1 # 1
        BY <1>1
      <4> QED BY <2>1, <3>1, <4>1 DEF OnceEach
    <3> QED BY <3>1
  <2>4. Prompt(calls[1].message) \notin unsaid /\ Steer(calls[1].message) \notin unsaid
    BY <2>1 DEF OnceEach
  <2> QED BY <2>1, <2>2, <2>3, <2>4 DEF Waiting, Says
<1> QED BY <1>2, <1>3, <1>4

\* A sequence without one of its elements.
LEMMA RemovesOne ==
  ASSUME NEW S, NEW s \in Seq(S), NoRepeats(s), NEW i \in 1..Len(s)
  PROVE  /\ Acp!RemoveAt(s, i) \in Seq(S) /\ NoRepeats(Acp!RemoveAt(s, i))
         /\ \A k \in 1..Len(Acp!RemoveAt(s, i)) : \E j \in 1..Len(s) : Acp!RemoveAt(s, i)[k] = s[j]
<1>0. Len(s) \in Nat
  BY LenProperties
<1>1. /\ SubSeq(s, 1, i - 1) \in Seq(S) /\ Len(SubSeq(s, 1, i - 1)) = i - 1
      /\ \A k \in 1..(i - 1) : SubSeq(s, 1, i - 1)[k] = s[k]
  BY <1>0, SubSeqProperties
<1>2. /\ SubSeq(s, i + 1, Len(s)) \in Seq(S) /\ Len(SubSeq(s, i + 1, Len(s))) = Len(s) - i
      /\ \A k \in 1..(Len(s) - i) : SubSeq(s, i + 1, Len(s))[k] = s[i + k]
  <2>1. \A k \in 1..(Len(s) - i) : i + 1 + k - 1 = i + k
    BY <1>0
  <2> QED BY <1>0, <2>1, SubSeqProperties
<1> DEFINE q == Acp!RemoveAt(s, i)
<1>3. /\ q \in Seq(S) /\ Len(q) = Len(s) - 1
      /\ \A k \in 1..(Len(s) - 1) : q[k] = IF k < i THEN s[k] ELSE s[k + 1]
  <2> DEFINE a == SubSeq(s, 1, i - 1)
             b == SubSeq(s, i + 1, Len(s))
  <2>1. /\ a \in Seq(S) /\ b \in Seq(S) /\ Len(a) = i - 1 /\ Len(b) = Len(s) - i
        /\ \A k \in 1..(i - 1) : a[k] = s[k]
        /\ \A k \in 1..(Len(s) - i) : b[k] = s[i + k]
    BY <1>1, <1>2
  <2>2. q = a \o b
    BY DEF Acp!RemoveAt
  <2> HIDE DEF a, b, q
  <2>3. /\ a \o b \in Seq(S) /\ Len(a \o b) = Len(s) - 1
        /\ \A k \in 1..(Len(s) - 1) : (a \o b)[k] = IF k < i THEN s[k] ELSE s[k + 1]
    <3>1. /\ a \o b \in Seq(S) /\ Len(a \o b) = Len(a) + Len(b)
          /\ \A k \in 1..(Len(a) + Len(b)) : (a \o b)[k] = IF k <= Len(a) THEN a[k] ELSE b[k - Len(a)]
      BY <2>1, ConcatProperties
    <3>2. Len(a) + Len(b) = Len(s) - 1
      BY <1>0, <2>1
    <3>3. ASSUME NEW k \in 1..(Len(s) - 1)
          PROVE  (a \o b)[k] = IF k < i THEN s[k] ELSE s[k + 1]
      <4>0. (a \o b)[k] = IF k <= i - 1 THEN a[k] ELSE b[k - (i - 1)]
        BY <2>1, <3>1, <3>2
      <4>1. CASE k < i
        <5>1. k \in 1..(i - 1) /\ k <= i - 1
          BY <1>0, <4>1
        <5> QED BY <2>1, <4>0, <4>1, <5>1
      <4>2. CASE ~ (k < i)
        <5>1. ~ (k <= i - 1) /\ k - (i - 1) \in 1..(Len(s) - i) /\ i + (k - (i - 1)) = k + 1
          BY <1>0, <4>2
        <5> QED BY <2>1, <4>0, <4>2, <5>1
      <4> QED BY <4>1, <4>2
    <3> QED BY <3>1, <3>2, <3>3
  <2> QED BY <2>2, <2>3
<1> HIDE DEF q
<1>4. \A k \in 1..(Len(s) - 1) : \E j \in 1..Len(s) :
        q[k] = s[j] /\ j = IF k < i THEN k ELSE k + 1
  <2>1. ASSUME NEW k \in 1..(Len(s) - 1)
        PROVE  \E j \in 1..Len(s) : q[k] = s[j] /\ j = IF k < i THEN k ELSE k + 1
    <3>1. k \in 1..Len(s) /\ k + 1 \in 1..Len(s)
      BY <1>0
    <3>2. q[k] = IF k < i THEN s[k] ELSE s[k + 1]
      BY <1>3
    <3> QED BY <3>1, <3>2
  <2> QED BY <2>1
<1>5. NoRepeats(q)
  <2>1. ASSUME NEW k \in 1..(Len(s) - 1), NEW l \in 1..(Len(s) - 1), q[k] = q[l]  PROVE k = l
    <3>1. PICK x \in 1..Len(s) : q[k] = s[x] /\ x = IF k < i THEN k ELSE k + 1
      BY <1>4
    <3>2. PICK y \in 1..Len(s) : q[l] = s[y] /\ y = IF l < i THEN l ELSE l + 1
      BY <1>4
    <3>3. x = y
      BY <2>1, <3>1, <3>2 DEF NoRepeats
    <3>4. k \in Nat /\ l \in Nat
      BY <1>0
    <3> QED BY <3>1, <3>2, <3>3, <3>4
  <2> QED BY <1>3, <2>1 DEF NoRepeats
<1> QED BY <1>3, <1>4, <1>5 DEF q

\* A set of numbers has a least one.
LEMMA LeastNumber ==
  ASSUME NEW S \in SUBSET Nat, S # {}
  PROVE  \E n \in S : \A m \in S : n <= m
<1>1. ASSUME NEW R, IsWellFoundedOn(R, Nat)
      PROVE  \E n \in S : \A m \in S : ~ (<<m, n>> \in R)
  BY <1>1, WFMin, Zenon
<1>2. \A m, n \in Nat : m < n => <<m, n>> \in OpToRel(<, Nat)
  BY DEF OpToRel
<1>3. ASSUME NEW R, IsWellFoundedOn(R, Nat), \A x, y \in Nat : x < y => <<x, y>> \in R
      PROVE  \E n \in S : \A m \in S : n <= m
  <2>1. PICK n \in S : \A m \in S : ~ (<<m, n>> \in R)
    BY <1>1, <1>3
  <2>2. \A m \in S : ~ (m < n)
    BY <1>3, <2>1
  <2> QED
    BY <2>2
<1> QED
  BY <1>2, <1>3, NatLessThanWellFounded, Zenon

\* Taking the first request away leaves the others, each once.
LEMMA RemovesFirst ==
  ASSUME NEW S, NEW s \in Seq(S), NoRepeats(s), s # << >>
  PROVE  /\ Tail(s) \in Seq(S) /\ NoRepeats(Tail(s))
         /\ \A k \in 1..Len(Tail(s)) : \E j \in 1..Len(s) : Tail(s)[k] = s[j]
<1>0. Len(s) \in Nat
  BY LenProperties
<1>1. /\ Tail(s) \in Seq(S) /\ Len(Tail(s)) = Len(s) - 1
      /\ \A k \in 1..Len(Tail(s)) : Tail(s)[k] = s[k + 1] /\ k + 1 \in 1..Len(s)
  BY <1>0, HeadTailProperties
<1> QED BY <1>0, <1>1 DEF NoRepeats

-----------------------------------------------------------------------------
(* The Agent Client Protocol *)

\* It is the same frame.
LEMMA AcpFrame ==
  /\ \A call : Acp!Take(call) <=> Take(call)
  /\ \A e : Acp!Emit(e) <=> Emit(e)
  /\ Acp!Silent <=> UNCHANGED <<events, exited, history>>
  /\ Acp!Written <=> wire' = Append(wire, server.call)
  /\ Acp!Free = Free /\ Acp!Stopped = Stopped /\ Acp!Idle = Idle
  /\ Acp!Cancel = Cancel /\ Acp!Goal = Goal
  /\ \A place, call : Acp!At(place, call) = At(place, call)
  /\ \A x : /\ Acp!Signal(x) = Signal(x) /\ Acp!TurnFinished(x) = TurnFinished(x)
            /\ Acp!SteerAccepted(x) = SteerAccepted(x) /\ Acp!SteerRejected(x) = SteerRejected(x)
            /\ Acp!Ended(x) = Ended(x) /\ Acp!Finishing(x) = Finishing(x)
            /\ Acp!Says(x) <=> Says(x)
<1>1. ASSUME NEW call  PROVE Acp!Take(call) <=> Take(call)
  BY DEF Acp!Take, Take, Acp!Occupied, Occupied, Acp!Says, Says, Acp!Range, Range, Acp!Free, Free
<1>2. ASSUME NEW e  PROVE Acp!Emit(e) <=> Emit(e)
  BY DEF Acp!Emit, Emit
<1>3. \A place, call : Acp!At(place, call) = At(place, call)
  BY DEF Acp!At, At
<1>4. \A x : Acp!Signal(x) = Signal(x) /\ Acp!TurnFinished(x) = TurnFinished(x)
  BY DEF Acp!Signal, Signal, Acp!TurnFinished, TurnFinished
<1>5. \A x : Acp!SteerAccepted(x) = SteerAccepted(x) /\ Acp!SteerRejected(x) = SteerRejected(x)
  BY DEF Acp!SteerAccepted, SteerAccepted, Acp!SteerRejected, SteerRejected
<1>6. \A x : Acp!Ended(x) = Ended(x) /\ Acp!Finishing(x) = Finishing(x)
  BY DEF Acp!Ended, Ended, Acp!Finishing, Finishing
<1>7. \A x : Acp!Says(x) <=> Says(x)
  BY DEF Acp!Says, Says
<1>8. /\ Acp!Free = Free /\ Acp!Stopped = Stopped /\ Acp!Idle = Idle
      /\ Acp!Cancel = Cancel /\ Acp!Goal = Goal
  BY DEF Acp!Free, Free, Acp!Stopped, Stopped, Acp!Idle, Idle, Acp!Cancel, Cancel, Acp!Goal, Goal
<1>9. Acp!Silent <=> UNCHANGED <<events, exited, history>>
  BY DEF Acp!Silent
<1>10. Acp!Written <=> wire' = Append(wire, server.call)
  BY DEF Acp!Written
<1> QED BY <1>1, <1>2, <1>3, <1>4, <1>5, <1>6, <1>7, <1>8, <1>9, <1>10

\* Which calls are served where, and which messages may come again.
AcpOwn ==
  /\ server.at \in {"accepting", "rejecting"} => server.call.call = "steer"
  /\ server.at \in {"announcing", "failed", "finishing"} => server.call.call = "prompt"
  /\ server.at = "writing" => Says(server.call)
  /\ server.at = "writing" /\ server.call.call = "steer" => turn.requests # << >>
  /\ server.at \in {"announcing", "writing"} =>
       /\ server.call.message \notin Waiting
       /\ \A i \in 1..Len(turn.requests) : turn.requests[i] # server.call.message
  /\ \A i \in 1..Len(turn.requests) : turn.requests[i] \notin Waiting
  /\ NoRepeats(turn.requests)

\* What is due of an ACP driver is what its module says.
LEMMA AcpDues ==
  ASSUME IsAcp, kind' = kind
  PROVE  /\ StartsDue = Acp!StartsDue /\ StartsDue' = Acp!StartsDue'
         /\ FinishesDue = Acp!FinishesDue /\ FinishesDue' = Acp!FinishesDue'
         /\ Steering = Acp!Steering /\ Steering' = Acp!Steering'
         /\ Pursues = FALSE /\ Pursues' = FALSE
         /\ StartsDue \in Nat /\ FinishesDue \in Nat /\ ~ IsPi /\ ~ IsDeepSeek
BY DEF StartsDue, FinishesDue, Steering, Pursues, HasFlag, IsAcp, IsCodex, IsPi, IsDeepSeek,
       Acp!StartsDue, Acp!FinishesDue

\* The command loop takes a call.
LEMMA AcpTakes ==
  ASSUME Shaped, OnceEach, IsAcp, AcpOwn, UNCHANGED <<kind, unsaid>>,
         Acp!TakePrompt \/ Acp!TakeSteer \/ Acp!TakeCancel
  PROVE  Shaped' /\ AcpOwn' /\ Keeps /\ Contract!StreamNext
<1> USE AcpFrame, AcpDues, ServersMade
<1>1. PICK call \in {"prompt", "steer", "cancel"} :
        /\ Take(call) /\ UNCHANGED <<turn, agent, reader>>
        /\ IF call = "cancel" THEN wire' \in {wire, Append(wire, Cancel)} /\ server' = server
           ELSE /\ wire' = wire
                /\ server' = At(IF call = "prompt" THEN "announcing"
                                  ELSE IF turn.requests = << >> THEN "rejecting" ELSE "writing",
                                Head(calls))
  BY DEF Acp!TakePrompt, Acp!TakeSteer, Acp!TakeCancel
<1>2. /\ Told' /\ events' = events /\ exited' = exited
      /\ calls # << >> /\ Head(calls) \in Calls /\ Head(calls).call = call
      /\ calls' = Tail(calls) /\ calls' \in Seq(Calls) /\ server = Free
  BY <1>1, TakeTells DEF Shaped
<1>3. /\ Waiting' \subseteq Waiting
      /\ call # "cancel" => Head(calls).message \in Waiting /\ Head(calls).message \notin Waiting'
  BY <1>1, <1>2, TakenOnce DEF Shaped, Says
<1>4. wire' \in Seq(Calls)
  <2>1. Append(wire, Cancel) \in Seq(Calls) /\ wire \in Seq(Calls)
    BY AppendProperties, CallsMade DEF Shaped
  <2> QED BY <1>1, <2>1
<1>5. /\ server' \in Servers /\ server'.at \in {"free", "announcing", "writing", "rejecting"}
      /\ server'.at = "free" <=> call = "cancel"
      /\ server'.at = "announcing" <=> call = "prompt"
      /\ server'.at \in {"announcing", "writing", "rejecting"} => server'.call = Head(calls)
      /\ server'.at = "writing" => turn.requests # << >>
  BY <1>1, <1>2 DEF Places
<1>6. Shaped' /\ Keeps
  BY <1>1, <1>2, <1>4, <1>5 DEF Shaped, Keeps, LogKept, Dies
<1>7. AcpOwn'
  BY <1>1, <1>2, <1>3, <1>5 DEF AcpOwn, Says, NoRepeats
<1>8. Contract!StreamNext
  <2>1. CASE call = "prompt"
    <3>1. AtMost(StartsDue + 1, FinishesDue + 1)
      BY <1>1, <1>2, <1>5, <2>1 DEF AtMost, Acp!StartsDue, Acp!FinishesDue
    <3>2. Steering' = Steering
      BY <1>2, <1>5, <2>1 DEF Acp!Steering, Acp!SteeringAt
    <3> QED BY <1>2, <2>1, <3>1, <3>2, TakesPrompt
  <2>2. CASE call # "prompt"
    <3>1. StartsDue' = StartsDue /\ FinishesDue' = FinishesDue
      BY <1>1, <1>2, <1>5, <2>2 DEF Acp!StartsDue, Acp!FinishesDue
    <3>2. Steering' = IF call = "steer" THEN Steering \cup {Head(calls).message} ELSE Steering
      BY <1>2, <1>5, <2>2 DEF Acp!Steering, Acp!SteeringAt
    <3> QED BY <1>1, <1>2, <2>2, <3>1, <3>2, TakesSteer, TakesCancel
  <2> QED BY <2>1, <2>2
<1> QED BY <1>6, <1>7, <1>8

\* The command loop tells the client something.
LEMMA AcpTells ==
  ASSUME Shaped, IsAcp, AcpOwn, UNCHANGED <<kind, unsaid>>,
         Acp!Announce \/ Acp!Accept \/ Acp!Reject \/ Acp!Fail \/ Acp!FinishFailed
  PROVE  Shaped' /\ AcpOwn' /\ Keeps /\ Contract!StreamNext
<1> USE AcpFrame, AcpDues, ServersMade
<1> DEFINE m == server.call.message
<1>0. Signal("TurnStarted") \in Events /\ Signal("Error") \in Events /\ TurnFinished(FALSE) \in Events
  BY EventsMade
<1>1. PICK e, next :
        /\ Emit(e) /\ server' = next /\ UNCHANGED <<calls, wire, agent, turn, reader>>
        /\ \/ /\ server.at = "announcing" /\ e = Signal("TurnStarted")
              /\ next = At("writing", server.call)
           \/ /\ server.at \in {"accepting", "rejecting"}
              /\ e \in {SteerAccepted(m), SteerRejected(m)} /\ next = Free
           \/ /\ server.at = "failed" /\ e = Signal("Error") /\ next = At("finishing", server.call)
           \/ /\ server.at = "finishing" /\ e = TurnFinished(FALSE) /\ next = Free
  BY DEF Acp!Announce, Acp!Accept, Acp!Reject, Acp!Fail, Acp!FinishFailed, Acp!Tells
<1>2. /\ server.at \in {"announcing", "accepting", "rejecting", "failed", "finishing"}
      /\ server.call \in Calls
  BY <1>1, ServerShapes DEF Shaped, Places
<1>3. server.at \in {"accepting", "rejecting"} =>
        m \in Messages /\ SteerAccepted(m) \in Events /\ SteerRejected(m) \in Events
  BY <1>2, CallShapes, EventsMade DEF AcpOwn
<1>4. e \in Events /\ e.event # "ProcessExited"
  <2>1. CASE server.at \in {"accepting", "rejecting"}
    <3>1. e = SteerAccepted(m) \/ e = SteerRejected(m)
      BY <1>1, <2>1
    <3> QED BY <1>3, <2>1, <3>1, EventsMade
  <2>2. CASE server.at \notin {"accepting", "rejecting"}
    <3>1. e = Signal("TurnStarted") \/ e = Signal("Error") \/ e = TurnFinished(FALSE)
      BY <1>1, <2>2
    <3> QED BY <1>0, <3>1, EventsMade
  <2> QED BY <2>1, <2>2
<1>5. Told' /\ events' = Append(events, e) /\ exited' = exited
  BY <1>1, <1>4, EmitTells DEF Shaped
<1>6. /\ server' \in Servers
      /\ server.at = "announcing" => server'.at = "writing" /\ server'.call = server.call
      /\ server.at = "failed" => server'.at = "finishing" /\ server'.call = server.call
      /\ server.at \in {"accepting", "rejecting", "finishing"} => server'.at = "free"
  <2>1. "writing" \in Places /\ "finishing" \in Places
    BY DEF Places
  <2>2. /\ server.at = "announcing" => server' = At("writing", server.call)
        /\ server.at = "failed" => server' = At("finishing", server.call)
        /\ server.at \in {"accepting", "rejecting", "finishing"} => server' = Free
    BY <1>1
  <2> QED BY <1>2, <2>1, <2>2
<1>7. Shaped' /\ Keeps /\ Waiting' = Waiting
  BY <1>1, <1>5, <1>6 DEF Shaped, Keeps, LogKept, Dies, Waiting
<1>8. AcpOwn'
  <2>1. turn' = turn
    BY <1>1
  <2>2. CASE server.at = "announcing"
    BY <1>6, <1>7, <2>1, <2>2 DEF AcpOwn, Says, NoRepeats
  <2>3. CASE server.at # "announcing"
    <3>1. server'.at \in {"free", "finishing"} /\ (server'.at = "finishing" => server'.call.call = "prompt")
      BY <1>2, <1>6, <2>3 DEF AcpOwn
    <3> QED BY <1>7, <2>1, <3>1 DEF AcpOwn, NoRepeats
  <2> QED BY <2>2, <2>3
<1>9. /\ Steering = IF server.at \in {"writing", "accepting", "rejecting"} /\ server.call.call = "steer"
                      THEN {m} ELSE {}
      /\ Steering' = IF server'.at \in {"writing", "accepting", "rejecting"} /\ server'.call.call = "steer"
                       THEN {server'.call.message} ELSE {}
  BY DEF Acp!Steering, Acp!SteeringAt
<1>10. CASE server.at = "announcing"
  <2>0. server.call.call = "prompt"
    BY <1>10 DEF AcpOwn
  <2>1. StartsDue = 1 /\ StartsDue' = 0 /\ FinishesDue' = FinishesDue
    BY <1>1, <1>6, <1>10, <2>0 DEF Acp!StartsDue, Acp!FinishesDue
  <2>2. Steering' = Steering
    BY <1>6, <1>9, <1>10, <2>0
  <2> QED BY <1>1, <1>5, <1>7, <1>8, <1>10, <2>1, <2>2, Announces DEF AtMost
<1>11. CASE server.at \in {"accepting", "rejecting"}
  <2>1. StartsDue' = StartsDue /\ FinishesDue' = FinishesDue
    BY <1>1, <1>6, <1>11 DEF Acp!StartsDue, Acp!FinishesDue
  <2>2. m \in Steering /\ Steering' = Steering \ {m}
    <3>1. server.call.call = "steer"
      BY <1>11 DEF AcpOwn
    <3> QED BY <1>6, <1>9, <1>11, <3>1
  <2>3. events' = Append(events, SteerAccepted(m)) \/ events' = Append(events, SteerRejected(m))
    BY <1>1, <1>5, <1>11
  <2>4. AtMost(StartsDue, FinishesDue)
    BY <2>1 DEF AtMost
  <2> HIDE DEF m
  <2> QED BY <1>1, <1>5, <1>7, <1>8, <2>2, <2>3, <2>4, AnswersSteer
<1>12. CASE server.at = "failed"
  <2>0. server.call.call = "prompt"
    BY <1>12 DEF AcpOwn
  <2>1. StartsDue' = StartsDue /\ FinishesDue' = FinishesDue
    BY <1>1, <1>6, <1>12, <2>0 DEF Acp!StartsDue, Acp!FinishesDue
  <2>2. Steering' = Steering
    BY <1>6, <1>9, <1>12, <2>0
  <2> QED BY <1>1, <1>5, <1>7, <1>8, <1>12, <2>1, <2>2, Chats DEF AtMost
<1>13. CASE server.at = "finishing"
  <2>0. server.call.call = "prompt"
    BY <1>13 DEF AcpOwn
  <2>1. StartsDue' = 0 /\ FinishesDue \in Nat \ {0} /\ FinishesDue' = FinishesDue - 1
    BY <1>1, <1>6, <1>13, <2>0 DEF Acp!StartsDue, Acp!FinishesDue
  <2>2. Steering' = Steering
    BY <1>6, <1>9, <1>13, <2>0
  <2>3. events' = Append(events, TurnFinished(FALSE))
    BY <1>1, <1>5, <1>13
  <2>4. AtMost(StartsDue, FinishesDue - 1)
    BY <2>1 DEF AtMost
  <2>5. Contract!StreamNext
    BY <1>1, <1>5, <2>1, <2>2, <2>3, <2>4, Finishes
  <2> QED BY <1>7, <1>8, <2>5
<1> QED BY <1>2, <1>10, <1>11, <1>12, <1>13

\* A prompt request is sent, or cannot be.
LEMMA AcpSends ==
  ASSUME Shaped, IsAcp, AcpOwn, UNCHANGED <<kind, unsaid>>, Acp!SendPrompt \/ Acp!SendFails
  PROVE  Shaped' /\ AcpOwn' /\ Keeps /\ Contract!StreamNext
<1> USE AcpFrame, AcpDues, ServersMade
<1> DEFINE c == server.call
<1>1. /\ server.at = "writing" /\ UNCHANGED <<calls, events, exited, history, agent, reader>>
      /\ \/ /\ wire' = Append(wire, c)
            /\ turn' = [turn EXCEPT !.requests = Append(turn.requests, c.message)]
            /\ server' = IF c.call = "steer" THEN At("accepting", c) ELSE Free
         \/ /\ UNCHANGED <<turn, wire>>
            /\ server' = At(IF c.call = "steer" THEN "rejecting" ELSE "failed", c)
  BY DEF Acp!SendPrompt, Acp!SendFails
<1>2. c \in Calls /\ c.message \in Messages /\ c.call \in {"prompt", "steer"}
  BY <1>1, ServerShapes, CallShapes DEF Shaped, Places, AcpOwn, Says
<1> HIDE DEF c
<1>3. wire' \in Seq(Calls)
  <2>1. Append(wire, c) \in Seq(Calls) /\ wire \in Seq(Calls)
    BY <1>2, AppendProperties DEF Shaped
  <2> QED BY <1>1, <2>1
<1>4. /\ server' \in Servers /\ server'.at \in {"free", "accepting", "rejecting", "failed"}
      /\ server'.at \in {"accepting", "rejecting", "failed"} => server'.call = c
      /\ server'.at \in {"accepting", "rejecting"} => c.call = "steer"
      /\ server'.at = "failed" => c.call = "prompt"
      /\ server'.at = "free" => c.call = "prompt"
  BY <1>1, <1>2 DEF Places
<1>5. Waiting' = Waiting
  BY <1>1 DEF Waiting
<1>6. /\ turn' \in TurnRecords /\ turn'.seen = turn.seen /\ turn'.stream = turn.stream
      /\ NoRepeats(turn'.requests)
      /\ \A i \in 1..Len(turn'.requests) : turn'.requests[i] \notin Waiting
      /\ server'.at = "free" => turn'.requests # << >>
      /\ c.call = "steer" => (turn'.requests # << >> <=> turn.requests # << >>)
      /\ server'.at = "failed" => turn'.requests = turn.requests
  <2> DEFINE r == turn.requests
  <2>0. r \in Seq(Messages) /\ Len(r) \in Nat
    BY LenProperties DEF Shaped, TurnRecords
  <2>1. /\ Append(r, c.message) \in Seq(Messages) /\ Append(r, c.message) # << >>
        /\ Len(Append(r, c.message)) = Len(r) + 1
        /\ \A i \in 1..Len(r) : Append(r, c.message)[i] = r[i]
        /\ Append(r, c.message)[Len(r) + 1] = c.message
    BY <1>2, <2>0, AppendProperties
  <2>2. \A i \in 1..Len(r) : r[i] # c.message
    BY <1>1 DEF AcpOwn, c
  <2>3. c.message \notin Waiting
    BY <1>1 DEF AcpOwn, c
  <2>4. CASE turn' = turn /\ server' = At(IF c.call = "steer" THEN "rejecting" ELSE "failed", c)
    <3>1. server'.at # "free"
      BY <1>2, <2>4 DEF Places
    <3> QED BY <2>4, <3>1 DEF Shaped, AcpOwn
  <2>5. CASE /\ turn' = [turn EXCEPT !.requests = Append(r, c.message)]
             /\ server' = IF c.call = "steer" THEN At("accepting", c) ELSE Free
    <3>1. turn' \in TurnRecords /\ turn'.requests = Append(r, c.message)
          /\ turn'.seen = turn.seen /\ turn'.stream = turn.stream
      BY <2>1, <2>5 DEF Shaped, TurnRecords
    <3>2. NoRepeats(turn'.requests)
      BY <2>0, <2>1, <2>2, <3>1 DEF AcpOwn, NoRepeats
    <3>3. \A i \in 1..Len(turn'.requests) : turn'.requests[i] \notin Waiting
      <4>1. ASSUME NEW i \in 1..Len(turn'.requests)  PROVE turn'.requests[i] \notin Waiting
        <5>1. i \in 1..Len(r) \/ i = Len(r) + 1
          BY <2>0, <2>1, <3>1
        <5> QED BY <2>1, <2>3, <3>1, <5>1 DEF AcpOwn
      <4> QED BY <4>1
    <3>4. c.call = "steer" => r # << >>
      BY <1>1 DEF AcpOwn, c
    <3>5. server'.at # "failed"
      BY <1>2, <2>5 DEF Places
    <3> QED BY <2>1, <3>1, <3>2, <3>3, <3>4, <3>5
  <2> QED BY <1>1, <2>4, <2>5
<1>7. Shaped' /\ Keeps
  BY <1>1, <1>3, <1>4, <1>6 DEF Shaped, Told, Keeps, LogKept, Dies
<1>8. AcpOwn'
  BY <1>4, <1>5, <1>6 DEF AcpOwn
<1>9. AtMost(StartsDue, FinishesDue)
  <2>1. StartsDue' = 0 /\ StartsDue = 0
    BY <1>1, <1>4 DEF Acp!StartsDue
  <2>2. FinishesDue' \in Nat /\ FinishesDue' <= FinishesDue
    <3>1. CASE c.call = "steer"
      <4>1. server'.at \in {"accepting", "rejecting"}
        BY <1>4, <3>1
      <4>2. turn'.requests # << >> <=> turn.requests # << >>
        BY <1>6, <3>1
      <4> QED BY <1>1, <3>1, <4>1, <4>2 DEF Acp!FinishesDue, c
    <3>2. CASE c.call = "prompt"
      <4>1. server.at = "writing" /\ server.call.call = "prompt" /\ reader' = reader
        BY <1>1, <3>2 DEF c
      <4>2. CASE server'.at = "free"
        BY <4>1, <4>2 DEF Acp!FinishesDue
      <4>3. CASE server'.at = "failed"
        <5>1. server'.call.call = "prompt" /\ turn'.requests = turn.requests
          BY <1>4, <1>6, <4>3
        <5> QED BY <4>1, <4>3, <5>1 DEF Acp!FinishesDue
      <4> QED BY <1>4, <3>2, <4>2, <4>3
    <3> QED BY <1>2, <3>1, <3>2
  <2> QED BY <2>1, <2>2 DEF AtMost
<1>10. Steering' \subseteq Steering
  BY <1>1, <1>4 DEF Acp!Steering, Acp!SteeringAt, c
<1> QED BY <1>1, <1>7, <1>8, <1>9, <1>10, Forgoes

\* What a list of requests that has lost one is.
LEMMA AcpLoses ==
  ASSUME Shaped, AcpOwn, NEW m,
         NEW r \in {Acp!Without(m), IF turn.requests = << >> THEN << >> ELSE Tail(turn.requests)}
  PROVE  /\ r \in Seq(Messages) /\ NoRepeats(r)
         /\ \A i \in 1..Len(r) : \E j \in 1..Len(turn.requests) : r[i] = turn.requests[j]
         /\ turn.requests = << >> => r = << >>
<1> DEFINE s == turn.requests
<1>0. s \in Seq(Messages) /\ NoRepeats(s) /\ Len(s) \in Nat
  BY LenProperties DEF Shaped, TurnRecords, AcpOwn
<1>1. CASE r = Acp!Without(m)
  <2>1. CASE Acp!PlacesOf(m) = {}
    <3>1. r = s
      BY <1>1, <2>1 DEF Acp!Without
    <3> QED BY <1>0, <3>1
  <2>2. CASE Acp!PlacesOf(m) # {}
    <3> DEFINE i == Acp!Min(Acp!PlacesOf(m))
    <3>1. Acp!PlacesOf(m) \subseteq 1..Len(s)
      BY <1>0 DEF Acp!PlacesOf
    <3>2. i \in Acp!PlacesOf(m)
      <4> DEFINE P == Acp!PlacesOf(m)
      <4>1. P \in SUBSET Nat /\ P # {}
        BY <1>0, <2>2, <3>1
      <4> HIDE DEF P
      <4>2. \E n \in P : \A k \in P : n <= k
        BY <4>1, LeastNumber
      <4>3. i = CHOOSE n \in P : \A k \in P : n <= k
        BY DEF Acp!Min, P
      <4> HIDE DEF i
      <4> QED BY <4>2, <4>3 DEF P
    <3>3. r = Acp!RemoveAt(s, i) /\ i \in 1..Len(s) /\ s # << >>
      BY <1>0, <1>1, <2>2, <3>1, <3>2 DEF Acp!Without
    <3> HIDE DEF i, s
    <3> QED BY <1>0, <3>3, RemovesOne DEF s
  <2> QED BY <2>1, <2>2
<1>2. CASE r # Acp!Without(m)
  <2>1. CASE s = << >>
    <3>1. r = << >>
      BY <1>2, <2>1
    <3> QED BY <1>0, <2>1, <3>1
  <2>2. CASE s # << >>
    <3>1. r = Tail(s)
      BY <1>2, <2>2
    <3> HIDE DEF s
    <3>2. /\ Tail(s) \in Seq(Messages) /\ NoRepeats(Tail(s))
          /\ \A k \in 1..Len(Tail(s)) : \E j \in 1..Len(s) : Tail(s)[k] = s[j]
      BY <1>0, <2>2, RemovesFirst
    <3> QED BY <2>2, <3>1, <3>2 DEF s
  <2> QED BY <2>1, <2>2
<1> QED BY <1>1, <1>2

\* The provider reads, notices and answers; the loop ends the turn with its last request.
LEMMA AcpReads ==
  ASSUME Shaped, IsAcp, AcpOwn, UNCHANGED <<kind, unsaid>>,
         \/ Acp!ReadOn \/ Acp!AgentReads
         \/ \E m \in agent.held : Acp!AgentAnswers(m) \/ Acp!AgentNotices(m)
  PROVE  Shaped' /\ AcpOwn' /\ Keeps /\ Contract!StreamNext
<1> USE AcpFrame, AcpDues, ReadersMade
<1>1. calls' = calls /\ server' = server
  BY DEF Acp!ReadOn, Acp!FailTurn, Acp!FinishTurn, Acp!Reports, Acp!AgentReads, Acp!AgentAnswers,
         Acp!AgentNotices
<1>2. Waiting' = Waiting /\ Steering' = Steering /\ StartsDue' = StartsDue
  BY <1>1 DEF Waiting, Acp!Steering, Acp!SteeringAt, Acp!StartsDue
<1>3. ASSUME turn' = turn  PROVE AcpOwn'
  BY <1>1, <1>2, <1>3 DEF AcpOwn, NoRepeats
<1>4. CASE Acp!FailTurn
  <2>1. /\ reader.at = "failing" /\ Emit(Signal("Error")) /\ reader' = Finishing(FALSE)
        /\ UNCHANGED <<wire, agent, turn>>
    BY <1>4 DEF Acp!FailTurn, Acp!Reports
  <2>2. Told' /\ events' = Append(events, Signal("Error")) /\ exited' = exited
    BY <2>1, EventsMade, EmitTells DEF Shaped
  <2>3. Shaped' /\ AcpOwn' /\ Keeps
    BY <1>1, <1>3, <2>1, <2>2 DEF Shaped, Keeps, LogKept, Dies
  <2>4. FinishesDue' = FinishesDue
    <3>1. reader.at \in {"failing", "finishing"} /\ reader'.at \in {"failing", "finishing"}
      BY <2>1
    <3>2. Acp!FinishesDue' = Acp!FinishesDue
      BY ONLY <1>1, <2>1, <3>1 DEF Acp!FinishesDue
    <3> QED BY <3>2
  <2> QED BY <1>1, <1>2, <2>2, <2>3, <2>4, Chats DEF AtMost
<1>5. CASE Acp!FinishTurn
  <2>1. /\ reader.at = "finishing" /\ Emit(TurnFinished(reader.ok)) /\ reader' = Idle
        /\ UNCHANGED <<wire, agent, turn>>
    BY <1>5 DEF Acp!FinishTurn, Acp!Reports
  <2>2. reader.ok \in BOOLEAN
    BY <2>1, ReaderShapes DEF Shaped
  <2>3. TurnFinished(reader.ok) \in Events /\ TurnFinished(reader.ok).event # "ProcessExited"
    BY <2>2, EventsMade
  <2>4. Told' /\ events' = Append(events, TurnFinished(reader.ok)) /\ exited' = exited
    BY <2>1, <2>3, EmitTells DEF Shaped
  <2>5. Shaped' /\ AcpOwn' /\ Keeps
    BY <1>1, <1>3, <2>1, <2>4 DEF Shaped, Keeps, LogKept, Dies
  <2>6. FinishesDue \in Nat \ {0} /\ FinishesDue' = FinishesDue - 1
    BY <1>1, <2>1 DEF Acp!FinishesDue
  <2> QED BY <1>1, <1>2, <2>2, <2>4, <2>5, <2>6, Finishes DEF AtMost
<1>6. CASE Acp!AgentReads
  <2>1. /\ wire # << >> /\ wire' = Tail(wire) /\ UNCHANGED <<events, exited, history, turn, reader>>
        /\ agent' = [agent EXCEPT !.held = IF Says(Head(wire)) THEN agent.held \cup {Head(wire).message}
                                             ELSE agent.held,
                                  !.works = agent.works \/ Says(Head(wire))]
    BY <1>6 DEF Acp!AgentReads
  <2>2. wire' \in Seq(Calls) /\ Head(wire) \in Calls
    BY <2>1, HeadTailProperties DEF Shaped
  <2>3. agent' \in Agents /\ agent'.alive = agent.alive /\ agent'.log = agent.log /\ agent'.goal = agent.goal
    <3>1. Says(Head(wire)) => Head(wire).message \in Messages
      BY <2>2, CallShapes DEF Says
    <3>2. Says(Head(wire)) \in BOOLEAN
      BY DEF Says
    <3> QED BY <2>1, <3>1, <3>2 DEF Shaped, Agents
  <2>4. Shaped' /\ AcpOwn' /\ Keeps
    BY <1>1, <1>3, <2>1, <2>2, <2>3 DEF Shaped, Told, Keeps, LogKept, Dies
  <2>5. FinishesDue' = FinishesDue
    BY <1>1, <2>1 DEF Acp!FinishesDue
  <2> QED BY <1>1, <1>2, <2>1, <2>4, <2>5, Forgoes DEF AtMost
<1>7. ASSUME NEW m \in agent.held, Acp!AgentAnswers(m) \/ Acp!AgentNotices(m)
      PROVE  Shaped' /\ AcpOwn' /\ Keeps /\ Contract!StreamNext
  <2>1. PICK r \in {Acp!Without(m), IF turn.requests = << >> THEN << >> ELSE Tail(turn.requests)} :
          /\ server = Free /\ reader = Idle /\ UNCHANGED <<events, exited, history, wire>>
          /\ \/ agent' = [agent EXCEPT !.held = agent.held \ {m}, !.works = agent.held # {m}]
             \/ agent' = [agent EXCEPT !.noticed = agent.noticed \cup {m}]
          /\ turn' = [turn EXCEPT !.requests = r]
          /\ \/ \E ok \in BOOLEAN : reader' = Acp!Settled(r, Finishing(ok))
             \/ reader' = Acp!Settled(r, [at |-> "failing"])
    <3>1. CASE Acp!AgentAnswers(m)
      BY <3>1 DEF Acp!AgentAnswers
    <3>2. CASE Acp!AgentNotices(m)
      BY <3>2 DEF Acp!AgentNotices
    <3> QED BY <1>7, <3>1, <3>2
  <2>2. /\ r \in Seq(Messages) /\ NoRepeats(r)
        /\ \A i \in 1..Len(r) : \E j \in 1..Len(turn.requests) : r[i] = turn.requests[j]
        /\ turn.requests = << >> => r = << >>
    BY AcpLoses
  <2>3. m \in Messages
    BY <1>7 DEF Shaped, Agents
  <2>4. agent' \in Agents /\ agent'.alive = agent.alive /\ agent'.log = agent.log /\ agent'.goal = agent.goal
    <3>1. /\ agent \in Agents /\ agent.held \ {m} \in SUBSET Messages /\ (agent.held # {m}) \in BOOLEAN
          /\ agent.noticed \cup {m} \in SUBSET Messages
      BY <2>3 DEF Shaped, Agents
    <3>2. CASE agent' = [agent EXCEPT !.held = agent.held \ {m}, !.works = agent.held # {m}]
      BY <3>1, <3>2 DEF Agents
    <3>3. CASE agent' = [agent EXCEPT !.noticed = agent.noticed \cup {m}]
      BY <3>1, <3>3 DEF Agents
    <3> QED BY <2>1, <3>2, <3>3
  <2>5. /\ turn' \in TurnRecords /\ turn'.requests = r /\ turn'.seen = turn.seen /\ turn'.stream = turn.stream
    BY <2>1, <2>2 DEF Shaped, TurnRecords
  <2>6. /\ reader' \in Readers /\ reader'.at \in {"idle", "failing", "finishing"} /\ reader.at = "idle"
        /\ reader'.at \in {"failing", "finishing"} => r # turn.requests /\ r = << >>
    BY <2>1 DEF Acp!Settled
  <2>7. Shaped' /\ Keeps
    BY <1>1, <2>1, <2>4, <2>5, <2>6 DEF Shaped, Told, Keeps, LogKept, Dies
  <2>8. AcpOwn'
    <3>1. server.at = "free"
      BY <2>1, ServersMade
    <3> QED BY <1>1, <1>2, <2>2, <2>5, <3>1 DEF AcpOwn
  <2>9. FinishesDue' \in Nat /\ FinishesDue' <= FinishesDue
    <3>1. server.at = "free" /\ server' = server
      BY <1>1, <2>1, ServersMade
    <3>2. CASE r = << >> /\ turn.requests # << >>
      BY <2>5, <2>6, <3>1, <3>2 DEF Acp!FinishesDue
    <3>3. CASE r # << >>
      <4>1. reader'.at = "idle" /\ turn.requests # << >>
        BY <2>2, <2>6, <3>3
      <4> QED BY <2>5, <2>6, <3>1, <3>3, <4>1 DEF Acp!FinishesDue
    <3>4. CASE turn.requests = << >>
      <4>1. reader'.at = "idle" /\ r = << >>
        BY <2>2, <2>6, <3>4
      <4> QED BY <2>5, <2>6, <3>1, <3>4, <4>1 DEF Acp!FinishesDue
    <3> QED BY <3>2, <3>3, <3>4
  <2>10. AtMost(StartsDue, FinishesDue)
    BY <1>2, <2>9 DEF AtMost
  <2> QED BY <1>1, <1>2, <2>1, <2>7, <2>8, <2>10, Forgoes
<1> QED BY <1>4, <1>5, <1>6, <1>7 DEF Acp!ReadOn

\* The connection returns, and its loop with it.
LEMMA AcpExits ==
  ASSUME Shaped, IsAcp, AcpOwn, UNCHANGED <<kind, unsaid>>, Acp!Exit
  PROVE  Shaped' /\ AcpOwn' /\ Keeps /\ Contract!StreamNext
<1> USE AcpFrame, AcpDues, ServersMade
<1>1. /\ server = Free /\ server' = Stopped /\ ~ agent.alive /\ ~ exited
      /\ Emit(Signal("ProcessExited")) /\ UNCHANGED <<calls, wire, agent, turn, reader>>
  BY DEF Acp!Exit, Acp!ProcessExits
<1>2. Told' /\ events' = Append(events, Signal("ProcessExited")) /\ exited'
  BY <1>1, EventsMade, EmitTells DEF Shaped
<1>3. exited' = TRUE
  BY <1>2 DEF Told
<1>4. server.at = "free" /\ server'.at = "stopped" /\ Waiting' = Waiting
  BY <1>1 DEF Waiting
<1>5. Shaped' /\ AcpOwn' /\ Keeps
  BY <1>1, <1>2, <1>4 DEF Shaped, AcpOwn, NoRepeats, Keeps, LogKept, Dies
<1>6. /\ StartsDue' = StartsDue /\ FinishesDue' = FinishesDue /\ Steering' = Steering
  BY <1>1, <1>4 DEF Acp!StartsDue, Acp!FinishesDue, Acp!Steering, Acp!SteeringAt
<1> QED BY <1>1, <1>2, <1>3, <1>5, <1>6, Exits

-----------------------------------------------------------------------------
(* What is on the wire *)

\* The places of the prompts, and whether a goal is among the lines.
PromptsIn(w) == {i \in DOMAIN w : w[i].call = "prompt"}
GoalIn(w) == \E i \in DOMAIN w : w[i] = Goal

\* A set of numbers moved by one has as many.
LEMMA Shifts ==
  ASSUME NEW S \in SUBSET Nat, IsFiniteSet(S)
  PROVE  IsFiniteSet({i + 1 : i \in S}) /\ Cardinality({i + 1 : i \in S}) = Cardinality(S)
<1> DEFINE T == {i + 1 : i \in S}
           f == [i \in S |-> i + 1]
<1>1. f \in [S -> T] /\ \A i \in S : f[i] = i + 1
  OBVIOUS
<1>2. \A i, j \in S : i + 1 = j + 1 => i = j
  OBVIOUS
<1>3. \A t \in T : \E i \in S : t = i + 1
  OBVIOUS
<1> HIDE DEF f, T
<1>4. f \in Injection(S, T)
  BY <1>1, <1>2 DEF Injection, IsInjective
<1>5. f \in Surjection(S, T)
  BY <1>1, <1>3 DEF Surjection
<1>6. ExistsBijection(S, T)
  BY <1>4, <1>5 DEF ExistsBijection, Bijection
<1> QED BY <1>6, FS_Bijection DEF T

\* The prompts on the wire are finitely many.
LEMMA WireCounted ==
  ASSUME NEW w \in Seq(Calls)
  PROVE  IsFiniteSet(PromptsIn(w)) /\ Cardinality(PromptsIn(w)) \in Nat
<1>1. Len(w) \in Nat /\ DOMAIN w = 1..Len(w)
  BY LenProperties
<1>2. IsFiniteSet(1..Len(w)) /\ PromptsIn(w) \in SUBSET (1..Len(w))
  BY <1>1, FS_Interval DEF PromptsIn
<1> QED BY <1>2, FS_Subset, FS_CardinalityType

\* A line is written at the end, and read at the beginning.
LEMMA WireAdds ==
  ASSUME NEW w \in Seq(Calls), NEW c \in Calls
  PROVE  /\ Append(w, c) \in Seq(Calls)
         /\ Cardinality(PromptsIn(Append(w, c)))
              = Cardinality(PromptsIn(w)) + (IF c.call = "prompt" THEN 1 ELSE 0)
         /\ GoalIn(Append(w, c)) <=> GoalIn(w) \/ c = Goal
         /\ \A i \in DOMAIN Append(w, c) : Append(w, c)[i] = c \/ (i \in DOMAIN w /\ Append(w, c)[i] = w[i])
<1> DEFINE v == Append(w, c)
           n == Len(w)
<1>1. /\ v \in Seq(Calls) /\ n \in Nat /\ DOMAIN w = 1..n /\ DOMAIN v = 1..(n + 1)
      /\ \A i \in 1..n : v[i] = w[i]
      /\ v[n + 1] = c
  BY AppendProperties, LenProperties
<1> HIDE DEF v, n
<1>2. \A i \in 1..(n + 1) : i \in 1..n \/ i = n + 1
  BY <1>1
<1>3. n + 1 \notin 1..n /\ n + 1 \in 1..(n + 1) /\ \A i \in 1..n : i \in 1..(n + 1)
  BY <1>1
<1>4. GoalIn(v) <=> GoalIn(w) \/ c = Goal
  BY <1>1, <1>2, <1>3 DEF GoalIn
<1>5. \A i \in DOMAIN v : v[i] = c \/ (i \in DOMAIN w /\ v[i] = w[i])
  BY <1>1, <1>2
<1>6. Cardinality(PromptsIn(v)) = Cardinality(PromptsIn(w)) + (IF c.call = "prompt" THEN 1 ELSE 0)
  <2>1. CASE c.call = "prompt"
    <3>1. PromptsIn(v) = PromptsIn(w) \cup {n + 1} /\ n + 1 \notin PromptsIn(w)
      BY <1>1, <1>2, <1>3, <2>1 DEF PromptsIn
    <3> QED BY <2>1, <3>1, WireCounted, FS_AddElement
  <2>2. CASE c.call # "prompt"
    <3>1. PromptsIn(v) = PromptsIn(w)
      BY <1>1, <1>2, <1>3, <2>2 DEF PromptsIn
    <3> QED BY <2>2, <3>1, WireCounted
  <2> QED BY <2>1, <2>2
<1> QED BY <1>1, <1>4, <1>5, <1>6 DEF v

\* What is read is no longer on the wire.
LEMMA WireLoses ==
  ASSUME NEW w \in Seq(Calls), w # << >>
  PROVE  /\ Head(w) \in Calls /\ Tail(w) \in Seq(Calls)
         /\ Cardinality(PromptsIn(w))
              = Cardinality(PromptsIn(Tail(w))) + (IF Head(w).call = "prompt" THEN 1 ELSE 0)
         /\ GoalIn(w) <=> GoalIn(Tail(w)) \/ Head(w) = Goal
         /\ \A i \in DOMAIN Tail(w) : \E j \in DOMAIN w : Tail(w)[i] = w[j]
         /\ \E j \in DOMAIN w : Head(w) = w[j]
<1> DEFINE v == Tail(w)
           n == Len(v)
           h == Head(w)
<1>1. /\ v \in Seq(Calls) /\ n \in Nat /\ DOMAIN w = 1..(n + 1) /\ DOMAIN v = 1..n
      /\ \A i \in 1..n : v[i] = w[i + 1]
      /\ w[1] = h /\ h \in Calls
  <2>1. /\ v \in Seq(Calls) /\ n = Len(w) - 1 /\ h \in Calls
        /\ \A i \in 1..n : v[i] = w[i + 1]
    BY HeadTailProperties
  <2>2. Len(w) \in Nat /\ n \in Nat /\ DOMAIN w = 1..Len(w) /\ DOMAIN v = 1..n
    BY <2>1, LenProperties
  <2>3. Len(w) = n + 1 /\ h = w[1]
    BY <2>1, <2>2
  <2> QED BY <2>1, <2>2, <2>3
<1> HIDE DEF v, n, h
<1>2. \A i \in 1..(n + 1) : i = 1 \/ (i - 1 \in 1..n /\ i = (i - 1) + 1)
  BY <1>1
<1>3. 1 \in 1..(n + 1) /\ \A i \in 1..n : i + 1 \in 1..(n + 1) /\ i + 1 # 1
  BY <1>1
<1>4. GoalIn(w) <=> GoalIn(v) \/ h = Goal
  <2>1. ASSUME NEW i \in DOMAIN w, w[i] = Goal  PROVE GoalIn(v) \/ h = Goal
    <3>1. CASE i = 1
      BY <1>1, <2>1, <3>1
    <3>2. CASE i # 1
      <4>1. i - 1 \in DOMAIN v /\ v[i - 1] = w[i]
        BY <1>1, <1>2, <2>1, <3>2
      <4> QED BY <2>1, <4>1 DEF GoalIn
    <3> QED BY <3>1, <3>2
  <2>2. GoalIn(v) => GoalIn(w)
    BY <1>1, <1>3 DEF GoalIn
  <2>3. h = Goal => GoalIn(w)
    BY <1>1, <1>3 DEF GoalIn
  <2> QED BY <2>1, <2>2, <2>3 DEF GoalIn
<1>5. /\ \A i \in DOMAIN v : \E j \in DOMAIN w : v[i] = w[j]
      /\ \E j \in DOMAIN w : h = w[j]
  BY <1>1, <1>3
<1>6. Cardinality(PromptsIn(w)) = Cardinality(PromptsIn(v)) + (IF h.call = "prompt" THEN 1 ELSE 0)
  <2> DEFINE T == {i + 1 : i \in PromptsIn(v)}
  <2>1. IsFiniteSet(T) /\ Cardinality(T) = Cardinality(PromptsIn(v)) /\ Cardinality(PromptsIn(v)) \in Nat
    <3>1. IsFiniteSet(PromptsIn(v)) /\ Cardinality(PromptsIn(v)) \in Nat
      BY <1>1, WireCounted
    <3>2. PromptsIn(v) \in SUBSET Nat
      BY <1>1 DEF PromptsIn
    <3> QED BY <3>1, <3>2, Shifts
  <2>2. \A i \in T : i \in PromptsIn(w) /\ i # 1
    BY <1>1, <1>3 DEF PromptsIn
  <2>3. \A i \in PromptsIn(w) : i = 1 \/ i \in T
    <3>1. ASSUME NEW i \in PromptsIn(w), i # 1  PROVE i \in T
      <4>1. i - 1 \in 1..n /\ i = (i - 1) + 1 /\ w[i].call = "prompt"
        BY <1>1, <1>2, <3>1 DEF PromptsIn
      <4>2. i - 1 \in PromptsIn(v)
        BY <1>1, <4>1 DEF PromptsIn
      <4> QED BY <4>1, <4>2
    <3> QED BY <3>1
  <2>4. 1 \in PromptsIn(w) <=> h.call = "prompt"
    BY <1>1, <1>3 DEF PromptsIn
  <2> HIDE DEF T
  <2>5. CASE h.call = "prompt"
    <3>1. PromptsIn(w) = T \cup {1} /\ 1 \notin T
      BY <2>2, <2>3, <2>4, <2>5
    <3> QED BY <2>1, <2>5, <3>1, FS_AddElement
  <2>6. CASE h.call # "prompt"
    <3>1. PromptsIn(w) = T
      BY <2>2, <2>3, <2>4, <2>6
    <3> QED BY <2>1, <2>6, <3>1
  <2> QED BY <2>5, <2>6
<1> QED BY <1>1, <1>4, <1>5, <1>6 DEF v, h

-----------------------------------------------------------------------------
(* Codex *)

\* It is the same frame.
LEMMA CodexFrame ==
  /\ \A call : Codex!Take(call) <=> Take(call)
  /\ \A e : Codex!Emit(e) <=> Emit(e)
  /\ Codex!Silent <=> UNCHANGED <<events, exited, history>>
  /\ Codex!Written <=> wire' = Append(wire, server.call)
  /\ Codex!Free = Free /\ Codex!Stopped = Stopped /\ Codex!Idle = Idle
  /\ Codex!Cancel = Cancel /\ Codex!Goal = Goal
  /\ \A place, call : Codex!At(place, call) = At(place, call)
  /\ \A x : /\ Codex!Signal(x) = Signal(x) /\ Codex!TurnFinished(x) = TurnFinished(x)
            /\ Codex!SteerAccepted(x) = SteerAccepted(x) /\ Codex!SteerRejected(x) = SteerRejected(x)
            /\ Codex!Ended(x) = Ended(x) /\ Codex!Finishing(x) = Finishing(x)
            /\ Codex!Says(x) <=> Says(x)
<1>1. ASSUME NEW call  PROVE Codex!Take(call) <=> Take(call)
  BY DEF Codex!Take, Take, Codex!Occupied, Occupied, Codex!Says, Says, Codex!Range, Range, Codex!Free, Free
<1>2. ASSUME NEW e  PROVE Codex!Emit(e) <=> Emit(e)
  BY DEF Codex!Emit, Emit
<1>3. \A place, call : Codex!At(place, call) = At(place, call)
  BY DEF Codex!At, At
<1>4. \A x : Codex!Signal(x) = Signal(x) /\ Codex!TurnFinished(x) = TurnFinished(x)
  BY DEF Codex!Signal, Signal, Codex!TurnFinished, TurnFinished
<1>5. \A x : Codex!SteerAccepted(x) = SteerAccepted(x) /\ Codex!SteerRejected(x) = SteerRejected(x)
  BY DEF Codex!SteerAccepted, SteerAccepted, Codex!SteerRejected, SteerRejected
<1>6. \A x : Codex!Ended(x) = Ended(x) /\ Codex!Finishing(x) = Finishing(x)
  BY DEF Codex!Ended, Ended, Codex!Finishing, Finishing
<1>7. \A x : Codex!Says(x) <=> Says(x)
  BY DEF Codex!Says, Says
<1>8. /\ Codex!Free = Free /\ Codex!Stopped = Stopped /\ Codex!Idle = Idle
      /\ Codex!Cancel = Cancel /\ Codex!Goal = Goal
  BY DEF Codex!Free, Free, Codex!Stopped, Stopped, Codex!Idle, Idle, Codex!Cancel, Cancel, Codex!Goal, Goal
<1>9. Codex!Silent <=> UNCHANGED <<events, exited, history>>
  BY DEF Codex!Silent
<1>10. Codex!Written <=> wire' = Append(wire, server.call)
  BY DEF Codex!Written
<1> QED BY <1>1, <1>2, <1>3, <1>4, <1>5, <1>6, <1>7, <1>8, <1>9, <1>10

\* Which calls are served where, and which steers may be answered.
CodexOwn ==
  /\ server.at = "waiting" => server.call.call \in {"prompt", "goal"}
  /\ server.at = "rejecting" => server.call.call = "steer" /\ server.call.message \notin turn.steers
  /\ server.at = "writing" /\ server.call.call = "steer" =>
       /\ server.call.message \in turn.steers \ Waiting
       /\ \A i \in DOMAIN wire : wire[i].call = "steer" => wire[i].message # server.call.message
  /\ turn.steers \cap Waiting = {}
  /\ \A i \in DOMAIN wire : wire[i].call = "steer" => wire[i].message \notin Waiting

\* What is due of the Codex driver.
Awaits == IF server.at \in {"waiting", "writing"} /\ server.call.call = "prompt" THEN 1 ELSE 0
WantsGoal == server.at \in {"waiting", "writing"} /\ server.call = Goal
Rejected == IF server.at = "rejecting" /\ server.call.call = "steer" THEN {server.call.message} ELSE {}
Works == IF agent.works THEN 1 ELSE 0

\* What is due of the Codex driver, in terms of its threads and the wire.
LEMMA CodexDues ==
  ASSUME IsCodex, kind' = kind
  PROVE  /\ StartsDue = Awaits + agent.accepted + Cardinality(PromptsIn(wire))
         /\ StartsDue' = Awaits' + agent'.accepted + Cardinality(PromptsIn(wire'))
         /\ FinishesDue = StartsDue + Works /\ FinishesDue' = StartsDue' + Works'
         /\ Steering = turn.steers \cup Rejected /\ Steering' = turn'.steers \cup Rejected'
         /\ Pursues = (agent.goal \/ GoalIn(wire) \/ WantsGoal)
         /\ Pursues' = (agent'.goal \/ GoalIn(wire') \/ WantsGoal')
         /\ ~ IsPi /\ ~ IsDeepSeek
<1>1. /\ StartsDue = Codex!StartsDue /\ StartsDue' = Codex!StartsDue'
      /\ FinishesDue = Codex!FinishesDue /\ FinishesDue' = Codex!FinishesDue'
      /\ Steering = Codex!Steering /\ Steering' = Codex!Steering'
      /\ Pursues = Codex!Pursues /\ Pursues' = Codex!Pursues'
      /\ ~ IsPi /\ ~ IsDeepSeek
  BY DEF StartsDue, FinishesDue, Steering, Pursues, HasFlag, IsAcp, IsCodex, IsPi, IsDeepSeek
<1>2. /\ Codex!StartsDue = Awaits + agent.accepted + Cardinality(PromptsIn(wire))
      /\ Codex!FinishesDue = Codex!StartsDue + Works
      /\ Codex!Steering = turn.steers \cup Rejected
      /\ Codex!Pursues = (agent.goal \/ GoalIn(wire) \/ WantsGoal)
  <2>1. Codex!Goal = Goal
    BY CodexFrame
  <2>2. Goal \in Codex!Range(wire) <=> GoalIn(wire)
    BY DEF Codex!Range, GoalIn
  <2>3. Codex!StartsDue = Awaits + agent.accepted + Cardinality(PromptsIn(wire))
    <3>1. Codex!Cardinality(PromptsIn(wire)) = Cardinality(PromptsIn(wire))
      BY DEF Codex!Cardinality, Cardinality
    <3>2. Codex!StartsDue = Awaits + agent.accepted + Codex!Cardinality(PromptsIn(wire))
      BY DEF Codex!StartsDue, Codex!Prompting, Awaits, PromptsIn
    <3> QED BY <3>1, <3>2
  <2>4. Codex!FinishesDue = Codex!StartsDue + Works
    BY DEF Codex!FinishesDue, Works
  <2>5. Codex!Steering = turn.steers \cup Rejected
    BY DEF Codex!Steering, Codex!SteeringAt, Rejected
  <2>6. Codex!Pursues = (agent.goal \/ GoalIn(wire) \/ WantsGoal)
    BY <2>1, <2>2 DEF Codex!Pursues, WantsGoal
  <2> QED BY <2>3, <2>4, <2>5, <2>6
<1>3. /\ Codex!StartsDue' = Awaits' + agent'.accepted + Cardinality(PromptsIn(wire'))
      /\ Codex!FinishesDue' = Codex!StartsDue' + Works'
      /\ Codex!Steering' = turn'.steers \cup Rejected'
      /\ Codex!Pursues' = (agent'.goal \/ GoalIn(wire') \/ WantsGoal')
  <2>1. Codex!Goal = Goal
    BY CodexFrame
  <2>2. Goal \in Codex!Range(wire') <=> GoalIn(wire')
    BY DEF Codex!Range, GoalIn
  <2>3. Codex!StartsDue' = Awaits' + agent'.accepted + Cardinality(PromptsIn(wire'))
    <3>1. Codex!Cardinality(PromptsIn(wire')) = Cardinality(PromptsIn(wire'))
      BY DEF Codex!Cardinality, Cardinality
    <3>2. Codex!StartsDue' = Awaits' + agent'.accepted + Codex!Cardinality(PromptsIn(wire'))
      BY DEF Codex!StartsDue, Codex!Prompting, Awaits, PromptsIn
    <3> QED BY <3>1, <3>2
  <2>4. Codex!FinishesDue' = Codex!StartsDue' + Works'
    BY DEF Codex!FinishesDue, Works
  <2>5. Codex!Steering' = turn'.steers \cup Rejected'
    BY DEF Codex!Steering, Codex!SteeringAt, Rejected
  <2>6. Codex!Pursues' = (agent'.goal \/ GoalIn(wire') \/ WantsGoal')
    BY <2>1, <2>2 DEF Codex!Pursues, WantsGoal
  <2> QED BY <2>3, <2>4, <2>5, <2>6
<1> QED BY <1>1, <1>2, <1>3

\* Numbers, where they are.
LEMMA CodexCounts ==
  ASSUME Shaped
  PROVE  /\ Awaits \in {0, 1} /\ Works \in {0, 1} /\ agent.accepted \in Nat
         /\ Cardinality(PromptsIn(wire)) \in Nat
BY WireCounted DEF Shaped, Agents, Awaits, Works

\* The writer takes a call.
LEMMA CodexTakes ==
  ASSUME Shaped, OnceEach, IsCodex, CodexOwn, UNCHANGED <<kind, unsaid>>,
         \/ Codex!TakeWaiting("prompt") \/ Codex!TakeWaiting("goal") \/ Codex!TakeSteer \/ Codex!TakeCancel
  PROVE  Shaped' /\ CodexOwn' /\ Leaves /\ Contract!StreamNext
<1> USE CodexFrame, ServersMade
<1> DEFINE h == Head(calls)
<1>1. PICK call \in {"prompt", "steer", "cancel", "goal"} :
        /\ Take(call) /\ UNCHANGED <<wire, agent, reader>>
        /\ call \in {"prompt", "goal"} => server' = At("waiting", h) /\ turn' = turn
        /\ call = "steer" =>
             \/ turn' = [turn EXCEPT !.steers = turn.steers \cup {h.message}] /\ server' = At("writing", h)
             \/ turn' = [turn EXCEPT !.steers = turn.steers] /\ server' = At("rejecting", h)
        /\ call = "cancel" => server' \in {At("writing", Cancel), Free} /\ turn' = turn
  BY DEF Codex!TakeWaiting, Codex!TakeSteer, Codex!TakeCancel
<1>2. /\ Told' /\ events' = events /\ exited' = exited
      /\ calls # << >> /\ h \in Calls /\ h.call = call
      /\ calls' = Tail(calls) /\ calls' \in Seq(Calls) /\ server = Free
  BY <1>1, TakeTells DEF Shaped
<1>3. /\ Waiting' \subseteq Waiting
      /\ call \in {"prompt", "steer"} => h.message \in Waiting /\ h.message \notin Waiting'
      /\ call \in {"prompt", "steer"} => h.message \in Messages
  BY <1>1, <1>2, TakenOnce, CallShapes DEF Shaped, Says
<1> HIDE DEF h
<1>4. /\ turn' \in TurnRecords /\ turn'.seen = turn.seen /\ turn'.stream = turn.stream
      /\ turn'.requests = turn.requests
      /\ turn'.steers = turn.steers \cup (IF server'.at = "writing" /\ call = "steer" THEN {h.message} ELSE {})
  <2>1. CASE call = "steer"
    <3>1. h.message \in Messages
      BY <1>3, <2>1
    <3>2. CASE turn' = [turn EXCEPT !.steers = turn.steers \cup {h.message}] /\ server' = At("writing", h)
      <4>1. server'.at = "writing"
        BY <1>2, <3>2 DEF Places
      <4>2. /\ turn' \in TurnRecords /\ turn'.steers = turn.steers \cup {h.message}
            /\ turn'.seen = turn.seen /\ turn'.stream = turn.stream /\ turn'.requests = turn.requests
        BY <3>1, <3>2 DEF Shaped, TurnRecords
      <4> QED BY <2>1, <4>1, <4>2
    <3>3. CASE turn' = [turn EXCEPT !.steers = turn.steers] /\ server' = At("rejecting", h)
      <4>1. server'.at = "rejecting"
        BY <1>2, <3>3 DEF Places
      <4>2. turn' \in TurnRecords /\ turn'.steers = turn.steers
        BY <3>3 DEF Shaped, TurnRecords
      <4>3. turn.steers \cup {} = turn.steers
        OBVIOUS
      <4> QED BY <3>3, <4>1, <4>2, <4>3
    <3>4. \/ turn' = [turn EXCEPT !.steers = turn.steers \cup {h.message}] /\ server' = At("writing", h)
          \/ turn' = [turn EXCEPT !.steers = turn.steers] /\ server' = At("rejecting", h)
      BY <1>1, <2>1
    <3> QED BY <3>2, <3>3, <3>4
  <2>2. CASE call # "steer"
    BY <1>1, <2>2 DEF Shaped
  <2> QED BY <2>1, <2>2
<1>5. /\ server' \in Servers
      /\ server'.at \in {"free", "waiting", "writing", "rejecting"}
      /\ server'.at = "waiting" <=> call \in {"prompt", "goal"}
      /\ server'.at = "rejecting" => call = "steer"
      /\ server'.at \in {"waiting", "rejecting"} => server'.call = h
      /\ server'.at = "writing" => \/ call = "steer" /\ server'.call = h
                                   \/ call = "cancel" /\ server'.call = Cancel
      /\ call = "steer" => server'.at \in {"writing", "rejecting"}
  <2>1. CASE call \in {"prompt", "goal"}
    BY <1>1, <1>2, <2>1 DEF Places
  <2>2. CASE call = "steer"
    BY <1>1, <1>2, <2>2 DEF Places
  <2>3. CASE call = "cancel"
    BY <1>1, <1>2, <2>3, CallsMade DEF Places
  <2> QED BY <2>1, <2>2, <2>3
<1>6. Shaped' /\ Leaves
  BY <1>1, <1>2, <1>4, <1>5 DEF Shaped, Leaves, Keeps, LogKept, Dies
<1>7. CodexOwn'
  <2>1. turn'.steers \cap Waiting' = {}
    <3>1. turn.steers \cap Waiting' = {}
      BY <1>3 DEF CodexOwn
    <3> QED BY <1>3, <1>4, <3>1
  <2>2. wire' = wire /\ \A i \in DOMAIN wire : wire[i].call = "steer" => wire[i].message \notin Waiting
    BY <1>1 DEF CodexOwn
  <2>3. CASE call = "steer"
    <3>1. h.message \in Waiting \ Waiting' /\ h.message \notin turn.steers /\ server'.call = h /\ h.call = "steer"
      BY <1>2, <1>3, <1>5, <2>3, CallsMade DEF CodexOwn
    <3>2. CASE server'.at = "writing"
      BY <1>3, <1>4, <2>1, <2>2, <2>3, <3>1, <3>2 DEF CodexOwn
    <3>3. CASE server'.at = "rejecting"
      BY <1>3, <1>4, <2>1, <2>2, <2>3, <3>1, <3>3 DEF CodexOwn
    <3> QED BY <1>5, <2>3, <3>2, <3>3
  <2>4. CASE call # "steer"
    <3>1. server'.at # "rejecting" /\ (server'.at = "writing" => server'.call.call = "cancel")
      BY <1>5, <2>4, CallsMade
    <3>2. server'.at = "waiting" => server'.call.call \in {"prompt", "goal"}
      BY <1>2, <1>5
    <3> QED BY <1>3, <2>1, <2>2, <3>1, <3>2 DEF CodexOwn
  <2> QED BY <2>3, <2>4
<1>8. Contract!StreamNext
  <2>1. /\ Awaits = 0 /\ ~ WantsGoal /\ Rejected = {}
    BY <1>2 DEF Awaits, WantsGoal, Rejected
  <2>2. /\ Awaits' = IF call = "prompt" THEN 1 ELSE 0
        /\ WantsGoal' <=> call = "goal"
        /\ Rejected' = IF server'.at = "rejecting" THEN {h.message} ELSE {}
    <3>1. CASE call = "prompt"
      <4>1. server'.at = "waiting" /\ server'.call = h /\ h # Goal
        BY <1>2, <1>5, <3>1, CallsMade
      <4> QED BY <1>2, <3>1, <4>1 DEF Awaits, WantsGoal, Rejected
    <3>2. CASE call = "goal"
      <4>1. server'.at = "waiting" /\ server'.call = h /\ h = Goal
        BY <1>2, <1>5, <3>2, CallShapes
      <4> QED BY <1>2, <3>2, <4>1 DEF Awaits, WantsGoal, Rejected
    <3>3. CASE call = "steer"
      <4>1. server'.at \in {"writing", "rejecting"} /\ server'.call = h /\ h # Goal
        BY <1>2, <1>5, <3>3, CallsMade
      <4> QED BY <1>2, <3>3, <4>1 DEF Awaits, WantsGoal, Rejected
    <3>4. CASE call = "cancel"
      <4>1. /\ server'.at \in {"writing", "free"} /\ (server'.at = "writing" => server'.call = Cancel)
            /\ Cancel # Goal /\ Cancel.call = "cancel"
        BY <1>5, <3>4, CallsMade
      <4> QED BY <3>4, <4>1 DEF Awaits, WantsGoal, Rejected
    <3> QED BY <3>1, <3>2, <3>3, <3>4
  <2>3. /\ StartsDue' = StartsDue + Awaits' /\ FinishesDue' = FinishesDue + Awaits'
        /\ StartsDue \in Nat /\ FinishesDue \in Nat
    BY <1>1, <2>1, <2>2, CodexDues, CodexCounts DEF Works
  <2>4. Steering' = IF call = "steer" THEN Steering \cup {h.message} ELSE Steering
    BY <1>4, <1>5, <2>1, <2>2, CodexDues
  <2>5. /\ call # "goal" => Pursues' = Pursues
        /\ Pursues' \in BOOLEAN
    <3>1. Pursues \in BOOLEAN /\ Pursues' \in BOOLEAN
      BY CodexDues
    <3> QED BY <1>1, <2>1, <2>2, <3>1, CodexDues
  <2>6. CASE call = "prompt"
    <3>1. AtMost(StartsDue + 1, FinishesDue + 1)
      BY <2>2, <2>3, <2>6 DEF AtMost
    <3> QED BY <1>2, <2>4, <2>5, <2>6, <3>1, CodexDues, TakesPrompt DEF h
  <2>7. CASE call # "prompt"
    <3>1. StartsDue' = StartsDue /\ FinishesDue' = FinishesDue
      BY <2>2, <2>3, <2>7
    <3> QED BY <1>1, <1>2, <2>4, <2>5, <2>7, <3>1, TakesSteer, TakesCancel, TakesGoal DEF h
  <2> QED BY <2>6, <2>7
<1> QED BY <1>6, <1>7, <1>8

\* The serving thread says that a call failed, or that a steer did not get through.
LEMMA CodexTells ==
  ASSUME Shaped, IsCodex, CodexOwn, UNCHANGED <<kind, unsaid>>,
         Codex!Refuse \/ Codex!Reject \/ Codex!Fail
  PROVE  Shaped' /\ CodexOwn' /\ Leaves /\ Contract!StreamNext
<1> USE CodexFrame, ServersMade
<1> DEFINE m == server.call.message
<1>1. PICK e :
        /\ Emit(e) /\ server' \in {Free, Stopped} /\ UNCHANGED <<calls, wire, agent, turn, reader>>
        /\ \/ server.at \in {"refused", "failed"} /\ e = Signal("Error")
           \/ server.at = "rejecting" /\ e = SteerRejected(m)
  BY DEF Codex!Refuse, Codex!Reject, Codex!Fail, Codex!Tells
<1>2. server.at = "rejecting" => server.call.call = "steer" /\ m \in Messages /\ m \notin turn.steers
  BY ServerShapes, CallShapes DEF Shaped, CodexOwn, Places
<1> HIDE DEF m
<1>3. e \in Events /\ e.event # "ProcessExited"
  <2>1. CASE server.at = "rejecting"
    <3>1. e = SteerRejected(m) /\ m \in Messages
      BY <1>1, <1>2, <2>1
    <3> QED BY <3>1, EventsMade
  <2>2. CASE server.at # "rejecting"
    <3>1. e = Signal("Error")
      BY <1>1, <2>2
    <3> QED BY <3>1, EventsMade
  <2> QED BY <2>1, <2>2
<1>4. Told' /\ events' = Append(events, e) /\ exited' = exited
  BY <1>1, <1>3, EmitTells DEF Shaped
<1>5. server' \in Servers /\ server'.at \in {"free", "stopped"}
  BY <1>1
<1>6. Shaped' /\ Leaves /\ Waiting' = Waiting
  BY <1>1, <1>4, <1>5 DEF Shaped, Leaves, Keeps, LogKept, Dies, Waiting
<1>7. CodexOwn'
  BY <1>1, <1>5, <1>6 DEF CodexOwn
<1>8. /\ Awaits' = 0 /\ Awaits = 0 /\ ~ WantsGoal /\ ~ WantsGoal' /\ Rejected' = {}
      /\ Rejected = IF server.at = "rejecting" THEN {m} ELSE {}
  BY <1>1, <1>2, <1>5 DEF Awaits, WantsGoal, Rejected, m
<1>9. /\ StartsDue' = StartsDue /\ FinishesDue' = FinishesDue /\ Pursues' = Pursues
      /\ StartsDue \in Nat /\ FinishesDue \in Nat
  BY <1>1, <1>8, CodexDues, CodexCounts DEF Works
<1>10. Steering' = turn.steers /\ Steering = turn.steers \cup Rejected
  BY <1>1, <1>8, CodexDues
<1>11. AtMost(StartsDue, FinishesDue)
  BY <1>9 DEF AtMost
<1>12. CASE server.at = "rejecting"
  <2>1. m \in Steering /\ Steering' = Steering \ {m}
    BY <1>2, <1>8, <1>10, <1>12
  <2>2. events' = Append(events, SteerRejected(m))
    BY <1>1, <1>4, <1>12
  <2> QED BY <1>1, <1>4, <1>6, <1>7, <1>9, <1>11, <2>1, <2>2, AnswersSteer
<1>13. CASE server.at # "rejecting"
  <2>1. Steering' = Steering /\ events' = Append(events, Signal("Error"))
    BY <1>1, <1>4, <1>8, <1>10, <1>13
  <2> QED BY <1>1, <1>4, <1>6, <1>7, <1>9, <1>11, <2>1, Chats
<1> QED BY <1>12, <1>13

\* The serving thread does something and says nothing.
LEMMA CodexWrites ==
  ASSUME Shaped, IsCodex, CodexOwn, UNCHANGED <<kind, unsaid>>,
         Codex!ThreadKnown \/ Codex!ThreadUnknown \/ Codex!Write \/ Codex!WriteFails
  PROVE  Shaped' /\ CodexOwn' /\ Leaves /\ Contract!StreamNext
<1> USE CodexFrame, ServersMade
<1> DEFINE c == server.call
<1>1. /\ UNCHANGED <<calls, events, exited, history, agent, reader>>
      /\ \/ /\ server.at = "waiting" /\ UNCHANGED <<turn, wire>>
            /\ server' \in {At("writing", c), At("refused", c)}
         \/ /\ server.at = "writing" /\ turn' = turn
            /\ wire' = Append(wire, c) /\ server' = Free
         \/ /\ server.at = "writing" /\ wire' = wire /\ c.call = "steer"
            /\ turn' = [turn EXCEPT !.steers = turn.steers \ {c.message}]
            /\ server' = At("rejecting", c)
         \/ /\ server.at = "writing" /\ wire' = wire /\ c.call # "steer"
            /\ turn' = turn /\ server' = At("failed", c)
  BY DEF Codex!ThreadKnown, Codex!ThreadUnknown, Codex!Write, Codex!WriteFails
<1>2. c \in Calls
  BY <1>1, ServerShapes DEF Shaped, Places
<1>3. Waiting' = Waiting
  BY <1>1 DEF Waiting
<1>4. /\ StartsDue \in Nat /\ FinishesDue \in Nat
      /\ StartsDue = Awaits + agent.accepted + Cardinality(PromptsIn(wire))
  BY CodexDues, CodexCounts
<1>5. Awaits = IF c.call = "prompt" THEN 1 ELSE 0
  BY <1>1 DEF Awaits
<1>6. WantsGoal <=> c = Goal
  BY <1>1 DEF WantsGoal
<1>7. Rejected = {}
  BY <1>1 DEF Rejected
<1>8. ASSUME Shaped', CodexOwn', Leaves,
             Awaits' + Cardinality(PromptsIn(wire')) \in Nat,
             Awaits' + Cardinality(PromptsIn(wire')) <= Awaits + Cardinality(PromptsIn(wire)),
             GoalIn(wire') \/ WantsGoal' => GoalIn(wire) \/ WantsGoal,
             turn'.steers \cup Rejected' \subseteq turn.steers
      PROVE  Shaped' /\ CodexOwn' /\ Leaves /\ Contract!StreamNext
  <2>1. StartsDue' \in Nat /\ StartsDue' <= StartsDue /\ FinishesDue' \in Nat /\ FinishesDue' <= FinishesDue
    <3>1. agent' = agent /\ Works' = Works
      BY <1>1 DEF Works
    <3>2. /\ StartsDue' = Awaits' + agent.accepted + Cardinality(PromptsIn(wire'))
          /\ FinishesDue' = StartsDue' + Works /\ FinishesDue = StartsDue + Works
      BY <3>1, CodexDues
    <3>3. Awaits' \in Nat /\ Cardinality(PromptsIn(wire')) \in Nat
      BY <1>8, WireCounted DEF Awaits, Shaped
    <3>4. Awaits \in Nat /\ agent.accepted \in Nat /\ Works \in Nat /\ Cardinality(PromptsIn(wire)) \in Nat
      BY CodexCounts
    <3>5. StartsDue' \in Nat /\ StartsDue' <= StartsDue
      BY ONLY <1>4, <1>8, <3>2, <3>3, <3>4
    <3> QED BY ONLY <1>4, <3>2, <3>4, <3>5
  <2>2. AtMost(StartsDue, FinishesDue)
    BY <1>4, <2>1 DEF AtMost
  <2>3. Steering' \subseteq Steering
    BY <1>8, CodexDues
  <2>4. Pursues' \in {FALSE, Pursues}
    BY <1>1, <1>8, CodexDues
  <2> QED BY <1>1, <1>8, <2>2, <2>3, <2>4, Forgoes
<1> HIDE DEF c
<1>9. CASE /\ server.at = "waiting" /\ UNCHANGED <<turn, wire>>
           /\ server' \in {At("writing", c), At("refused", c)}
  <2>1. server' \in Servers /\ server'.at \in {"writing", "refused"} /\ server'.call = c
    BY <1>2, <1>9 DEF Places
  <2>2. Shaped' /\ Leaves
    BY <1>1, <1>9, <2>1 DEF Shaped, Told, Leaves, Keeps, LogKept, Dies
  <2>3. c.call \in {"prompt", "goal"}
    BY <1>9 DEF CodexOwn, c
  <2>4. CodexOwn'
    BY <1>3, <1>9, <2>1, <2>3 DEF CodexOwn
  <2>5. Awaits' \in {0, Awaits} /\ Rejected' = {} /\ (WantsGoal' => WantsGoal)
    BY <1>5, <1>6, <2>1 DEF Awaits, Rejected, WantsGoal
  <2> QED BY <1>5, <1>8, <1>9, <2>2, <2>4, <2>5, CodexCounts
<1>10. CASE server.at = "writing" /\ turn' = turn /\ wire' = Append(wire, c) /\ server' = Free
  <2>1. /\ wire' \in Seq(Calls)
        /\ Cardinality(PromptsIn(wire')) = Cardinality(PromptsIn(wire)) + Awaits
        /\ GoalIn(wire') => GoalIn(wire) \/ c = Goal
        /\ \A i \in DOMAIN wire' : wire'[i] = c \/ (i \in DOMAIN wire /\ wire'[i] = wire[i])
    BY <1>2, <1>5, <1>10, WireAdds DEF Shaped
  <2>2. server' \in Servers /\ server'.at = "free"
    BY <1>10
  <2>3. Shaped' /\ Leaves
    BY <1>1, <1>10, <2>1, <2>2 DEF Shaped, Told, Leaves, Keeps, LogKept, Dies
  <2>4. CodexOwn'
    <3>1. c.call = "steer" => c.message \notin Waiting
      BY <1>10 DEF CodexOwn, c
    <3> QED BY <1>3, <1>10, <2>1, <2>2, <3>1 DEF CodexOwn
  <2>5. Awaits' = 0 /\ Rejected' = {} /\ ~ WantsGoal'
    BY <2>2 DEF Awaits, Rejected, WantsGoal
  <2> QED BY <1>6, <1>8, <1>10, <2>1, <2>3, <2>4, <2>5, CodexCounts
<1>11. CASE /\ server.at = "writing" /\ wire' = wire /\ c.call = "steer"
            /\ turn' = [turn EXCEPT !.steers = turn.steers \ {c.message}]
            /\ server' = At("rejecting", c)
  <2>1. server' \in Servers /\ server'.at = "rejecting" /\ server'.call = c
    BY <1>2, <1>11 DEF Places
  <2>2. /\ turn' \in TurnRecords /\ turn'.steers = turn.steers \ {c.message}
        /\ turn'.seen = turn.seen /\ turn'.stream = turn.stream /\ turn'.requests = turn.requests
    BY <1>11 DEF Shaped, TurnRecords
  <2>3. Shaped' /\ Leaves
    BY <1>1, <1>11, <2>1, <2>2 DEF Shaped, Told, Leaves, Keeps, LogKept, Dies
  <2>4. CodexOwn'
    BY <1>3, <1>11, <2>1, <2>2 DEF CodexOwn
  <2>5. Awaits' = 0 /\ Awaits = 0 /\ Rejected' = {c.message} /\ ~ WantsGoal'
    BY <1>5, <1>11, <2>1 DEF Awaits, Rejected, WantsGoal
  <2>6. c.message \in turn.steers
    BY <1>11 DEF CodexOwn, c
  <2> QED BY <1>8, <1>11, <2>2, <2>3, <2>4, <2>5, <2>6, CodexCounts
<1>12. CASE /\ server.at = "writing" /\ wire' = wire /\ c.call # "steer"
            /\ turn' = turn /\ server' = At("failed", c)
  <2>1. server' \in Servers /\ server'.at = "failed" /\ server'.call = c
    BY <1>2, <1>12 DEF Places
  <2>2. Shaped' /\ Leaves
    BY <1>1, <1>12, <2>1 DEF Shaped, Told, Leaves, Keeps, LogKept, Dies
  <2>3. CodexOwn'
    BY <1>3, <1>12, <2>1 DEF CodexOwn
  <2>4. Awaits' = 0 /\ Rejected' = {} /\ ~ WantsGoal'
    BY <2>1 DEF Awaits, Rejected, WantsGoal
  <2> QED BY <1>5, <1>8, <1>12, <2>2, <2>3, <2>4, CodexCounts
<1> QED BY <1>1, <1>9, <1>10, <1>11, <1>12

\* What the app-server says about a turn.
LEMMA CodexAgent ==
  ASSUME Shaped, IsCodex, CodexOwn, UNCHANGED <<kind, unsaid>>,
         \/ Codex!ThreadOpens \/ Codex!FailStart \/ Codex!AgentBegins \/ Codex!AgentEnds
  PROVE  Shaped' /\ CodexOwn' /\ Leaves /\ Contract!StreamNext
<1> USE CodexFrame, ReadersMade
<1>1. UNCHANGED <<calls, server, wire>>
  BY DEF Codex!ThreadOpens, Codex!FailStart, Codex!Reports, Codex!AgentBegins, Codex!AgentEnds
<1>2. /\ Waiting' = Waiting /\ Awaits' = Awaits /\ (WantsGoal' <=> WantsGoal) /\ Rejected' = Rejected
      /\ Cardinality(PromptsIn(wire')) = Cardinality(PromptsIn(wire))
      /\ (GoalIn(wire') <=> GoalIn(wire))
  BY <1>1 DEF Waiting, Awaits, WantsGoal, Rejected
<1>3. /\ Awaits \in Nat /\ agent.accepted \in Nat /\ Works \in {0, 1}
      /\ Cardinality(PromptsIn(wire)) \in Nat
      /\ StartsDue = Awaits + agent.accepted + Cardinality(PromptsIn(wire))
      /\ FinishesDue = StartsDue + Works
      /\ StartsDue' = Awaits + agent'.accepted + Cardinality(PromptsIn(wire))
      /\ FinishesDue' = StartsDue' + Works'
  BY <1>2, CodexDues, CodexCounts
<1>4. StartsDue \in Nat /\ FinishesDue \in Nat
  BY <1>3
<1>5. ASSUME turn'.steers = turn.steers  PROVE CodexOwn' /\ Steering' = Steering
  <2>1. CodexOwn'
    BY <1>1, <1>2, <1>5 DEF CodexOwn
  <2> QED BY <1>2, <1>5, <2>1, CodexDues
<1>6. ASSUME agent'.goal = agent.goal  PROVE Pursues' = Pursues
  BY <1>2, <1>6, CodexDues
<1>7. CASE Codex!ThreadOpens
  <2>1. /\ turn' = [turn EXCEPT !.open = TRUE] /\ UNCHANGED <<events, exited, history, agent, reader>>
    BY <1>7 DEF Codex!ThreadOpens
  <2>2. /\ turn' \in TurnRecords /\ turn'.steers = turn.steers
        /\ turn'.seen = turn.seen /\ turn'.stream = turn.stream /\ turn'.requests = turn.requests
    BY <2>1 DEF Shaped, TurnRecords
  <2>3. Shaped' /\ Leaves
    BY <1>1, <2>1, <2>2 DEF Shaped, Told, Leaves, Keeps, LogKept, Dies
  <2>4. StartsDue' = StartsDue /\ FinishesDue' = FinishesDue
    BY <1>3, <2>1 DEF Works
  <2> QED BY <1>1, <1>4, <1>5, <1>6, <2>1, <2>2, <2>3, <2>4, Forgoes DEF AtMost
<1>8. CASE Codex!FailStart
  <2>1. /\ Emit(Signal("Error")) /\ reader' = Idle /\ UNCHANGED <<agent, turn>>
    BY <1>8 DEF Codex!FailStart, Codex!Reports
  <2>2. Told' /\ events' = Append(events, Signal("Error")) /\ exited' = exited
    BY <2>1, EventsMade, EmitTells DEF Shaped
  <2>3. Shaped' /\ Leaves
    BY <1>1, <2>1, <2>2 DEF Shaped, Leaves, Keeps, LogKept, Dies
  <2>4. StartsDue' = StartsDue /\ FinishesDue' = FinishesDue
    BY <1>3, <2>1 DEF Works
  <2> QED BY <1>1, <1>4, <1>5, <1>6, <2>1, <2>2, <2>3, <2>4, Chats DEF AtMost
<1>9. CASE Codex!AgentBegins
  <2>1. /\ agent.accepted > 0 /\ ~ agent.works /\ reader' = reader
        /\ agent' = [agent EXCEPT !.accepted = agent.accepted - 1, !.works = TRUE]
        /\ turn' = [turn EXCEPT !.active = TRUE]
        /\ Emit(Signal("TurnStarted"))
    BY <1>9 DEF Codex!AgentBegins
  <2>2. Told' /\ events' = Append(events, Signal("TurnStarted")) /\ exited' = exited
    BY <2>1, EventsMade, EmitTells DEF Shaped
  <2>3. /\ turn' \in TurnRecords /\ turn'.steers = turn.steers
        /\ turn'.seen = turn.seen /\ turn'.stream = turn.stream /\ turn'.requests = turn.requests
    BY <2>1 DEF Shaped, TurnRecords
  <2>4. /\ agent' \in Agents /\ agent'.accepted = agent.accepted - 1 /\ agent'.works
        /\ agent'.goal = agent.goal /\ agent'.log = agent.log /\ agent'.alive = agent.alive
    <3>1. agent.accepted - 1 \in Nat
      BY <1>3, <2>1
    <3> QED BY <2>1, <3>1 DEF Shaped, Agents
  <2>5. Shaped' /\ Leaves
    BY <1>1, <2>1, <2>2, <2>3, <2>4 DEF Shaped, Leaves, Keeps, LogKept, Dies
  <2>6. Works = 0 /\ Works' = 1
    BY <2>1, <2>4 DEF Works
  <2>7. StartsDue \in Nat \ {0} /\ StartsDue' = StartsDue - 1 /\ FinishesDue' = FinishesDue
    BY <1>3, <2>1, <2>4, <2>6
  <2> QED BY <1>1, <1>4, <1>5, <1>6, <2>2, <2>3, <2>4, <2>5, <2>7, Announces DEF AtMost
<1>10. CASE Codex!AgentEnds
  <2>1. /\ agent.works /\ reader' = reader
        /\ agent' = [agent EXCEPT !.works = FALSE]
        /\ turn' = [turn EXCEPT !.active = FALSE]
    BY <1>10 DEF Codex!AgentEnds
  <2>2. PICK ok \in BOOLEAN : Emit(TurnFinished(ok))
    BY <1>10 DEF Codex!AgentEnds
  <2>3. Told' /\ events' = Append(events, TurnFinished(ok)) /\ exited' = exited
    BY <2>2, EventsMade, EmitTells DEF Shaped
  <2>4. /\ turn' \in TurnRecords /\ turn'.steers = turn.steers
        /\ turn'.seen = turn.seen /\ turn'.stream = turn.stream /\ turn'.requests = turn.requests
    BY <2>1 DEF Shaped, TurnRecords
  <2>5. /\ agent' \in Agents /\ agent'.accepted = agent.accepted /\ ~ agent'.works
        /\ agent'.goal = agent.goal /\ agent'.log = agent.log /\ agent'.alive = agent.alive
    BY <2>1 DEF Shaped, Agents
  <2>6. Shaped' /\ Leaves
    BY <1>1, <2>1, <2>3, <2>4, <2>5 DEF Shaped, Leaves, Keeps, LogKept, Dies
  <2>7. Works = 1 /\ Works' = 0
    BY <2>1, <2>5 DEF Works
  <2>8. FinishesDue \in Nat \ {0} /\ StartsDue' = StartsDue /\ FinishesDue' = FinishesDue - 1
    BY <1>3, <1>4, <2>5, <2>7
  <2> QED BY <1>1, <1>4, <1>5, <1>6, <2>2, <2>3, <2>4, <2>5, <2>6, <2>8, Finishes DEF AtMost
<1> QED BY <1>7, <1>8, <1>9, <1>10

\* The app-server reads a line.
LEMMA CodexReads ==
  ASSUME Shaped, IsCodex, CodexOwn, UNCHANGED <<kind, unsaid>>, Codex!AgentReads
  PROVE  /\ Shaped' /\ CodexOwn' /\ Contract!StreamNext
         /\ LogKept /\ Dies /\ calls' = calls /\ turn'.requests = turn.requests
<1> USE CodexFrame, ReadersMade
<1> DEFINE line == Head(wire)
<1>0. wire # << >> /\ wire' = Tail(wire) /\ reader' \in {Idle, [at |-> "failing"]} /\ UNCHANGED <<calls, server>>
  BY DEF Codex!AgentReads
<1>1. /\ line \in Calls /\ wire' \in Seq(Calls)
      /\ Cardinality(PromptsIn(wire)) = Cardinality(PromptsIn(wire')) + (IF line.call = "prompt" THEN 1 ELSE 0)
      /\ GoalIn(wire) <=> GoalIn(wire') \/ line = Goal
      /\ \A i \in DOMAIN wire' : \E j \in DOMAIN wire : wire'[i] = wire[j]
      /\ \E j \in DOMAIN wire : line = wire[j]
  BY <1>0, WireLoses DEF Shaped
<1>2. /\ Waiting' = Waiting /\ Awaits' = Awaits /\ (WantsGoal' <=> WantsGoal) /\ Rejected' = Rejected
  BY <1>0 DEF Waiting, Awaits, WantsGoal, Rejected
<1>3. /\ Awaits \in Nat /\ agent.accepted \in Nat /\ Works \in {0, 1}
      /\ Cardinality(PromptsIn(wire)) \in Nat /\ Cardinality(PromptsIn(wire')) \in Nat
      /\ StartsDue = Awaits + agent.accepted + Cardinality(PromptsIn(wire))
      /\ FinishesDue = StartsDue + Works
      /\ StartsDue' = Awaits + agent'.accepted + Cardinality(PromptsIn(wire'))
      /\ FinishesDue' = StartsDue' + Works'
  BY <1>1, <1>2, CodexDues, CodexCounts, WireCounted
<1>4. StartsDue \in Nat /\ FinishesDue \in Nat
  BY <1>3
<1> HIDE DEF line
<1>5. ASSUME turn'.steers = turn.steers \/ (line.call = "steer" /\ turn'.steers = turn.steers \ {line.message})
      PROVE  CodexOwn'
  <2>1. \A i \in DOMAIN wire' : wire'[i].call = "steer" => wire'[i].message \notin Waiting
    BY <1>1 DEF CodexOwn
  <2>2. server.at = "writing" /\ server.call.call = "steer" =>
          /\ server.call.message \in turn'.steers
          /\ \A i \in DOMAIN wire' : wire'[i].call = "steer" => wire'[i].message # server.call.message
    <3>1. ASSUME server.at = "writing", server.call.call = "steer"
          PROVE  /\ server.call.message \in turn'.steers
                 /\ \A i \in DOMAIN wire' : wire'[i].call = "steer" => wire'[i].message # server.call.message
      <4>1. /\ server.call.message \in turn.steers
            /\ \A i \in DOMAIN wire : wire[i].call = "steer" => wire[i].message # server.call.message
        BY <3>1 DEF CodexOwn
      <4>2. line.call = "steer" => line.message # server.call.message
        BY <1>1, <4>1
      <4> QED BY <1>1, <1>5, <4>1, <4>2
    <3> QED BY <3>1
  <2>3. turn'.steers \subseteq turn.steers
    BY <1>5
  <2> QED BY <1>0, <1>2, <2>1, <2>2, <2>3 DEF CodexOwn
<1>6. ASSUME UNCHANGED <<events, exited, history>>, turn' = turn, agent' \in Agents,
             agent'.log = agent.log, agent'.alive = agent.alive,
             StartsDue' <= StartsDue, StartsDue' \in Nat, agent'.works = agent.works,
             Pursues' \in {FALSE, Pursues}
      PROVE  /\ Shaped' /\ CodexOwn' /\ Contract!StreamNext
             /\ LogKept /\ Dies /\ turn'.requests = turn.requests
  <2>1. Shaped' /\ LogKept /\ Dies
    BY <1>0, <1>1, <1>6 DEF Shaped, Told, LogKept, Dies
  <2>2. Works' = Works
    BY <1>6 DEF Works
  <2>3. FinishesDue' \in Nat /\ FinishesDue' <= FinishesDue
    BY <1>3, <1>6, <2>2
  <2>4. AtMost(StartsDue, FinishesDue)
    BY <1>4, <1>6, <2>3 DEF AtMost
  <2>5. Steering' \subseteq Steering
    BY <1>2, <1>6, CodexDues
  <2> QED BY <1>0, <1>5, <1>6, <2>1, <2>4, <2>5, Forgoes
<1>7. CASE line.call = "prompt"
  <2>1. /\ UNCHANGED <<events, exited, history, turn>>
        /\ agent' \in {agent, [agent EXCEPT !.accepted = agent.accepted + 1]}
    BY <1>7, CallsMade DEF Codex!AgentReads, line
  <2>2. /\ agent' \in Agents /\ agent'.accepted \in {agent.accepted, agent.accepted + 1}
        /\ agent'.goal = agent.goal /\ agent'.log = agent.log /\ agent'.alive = agent.alive
        /\ agent'.works = agent.works
    <3>1. agent \in Agents /\ agent.accepted + 1 \in Nat
      BY <1>3 DEF Shaped
    <3>2. CASE agent' = [agent EXCEPT !.accepted = agent.accepted + 1]
      BY <3>1, <3>2 DEF Agents
    <3> QED BY <2>1, <3>1, <3>2
  <2>3. StartsDue' \in Nat /\ StartsDue' <= StartsDue
    <3>1. Cardinality(PromptsIn(wire)) = Cardinality(PromptsIn(wire')) + 1
      BY <1>1, <1>7
    <3> DEFINE p == Cardinality(PromptsIn(wire'))
    <3>4. /\ p \in Nat /\ Awaits \in Nat /\ agent.accepted \in Nat
          /\ StartsDue = Awaits + agent.accepted + (p + 1) /\ StartsDue' = Awaits + agent'.accepted + p
      BY <1>3, <3>1
    <3> HIDE DEF p
    <3>2. CASE agent'.accepted = agent.accepted
      BY ONLY <3>2, <3>4
    <3>3. CASE agent'.accepted = agent.accepted + 1
      BY ONLY <3>3, <3>4
    <3> QED BY <2>2, <3>2, <3>3
  <2>4. line # Goal
    BY <1>7, CallsMade
  <2>5. Pursues' = Pursues
    BY <1>1, <1>2, <2>2, <2>4, CodexDues
  <2> QED BY <1>0, <1>6, <2>1, <2>2, <2>3, <2>5
<1>8. CASE line.call = "cancel"
  <2>1. UNCHANGED <<events, exited, history, turn, agent>>
    BY <1>8, CallsMade DEF Codex!AgentReads, line
  <2>2. StartsDue' \in Nat /\ StartsDue' <= StartsDue
    BY <1>1, <1>3, <1>8, <2>1
  <2>3. Pursues' = Pursues
    BY <1>1, <1>2, <1>8, <2>1, CodexDues, CallsMade
  <2> QED BY <1>0, <1>6, <2>1, <2>2, <2>3 DEF Shaped
<1>9. CASE line.call = "goal"
  <2>1. UNCHANGED <<events, exited, history, turn>>
    BY <1>9, CallsMade DEF Codex!AgentReads, line
  <2>2. PICK goal \in BOOLEAN : agent' = [agent EXCEPT !.goal = goal]
    BY <1>9, CallsMade DEF Codex!AgentReads, line
  <2>3. /\ agent' \in Agents /\ agent'.accepted = agent.accepted
        /\ agent'.log = agent.log /\ agent'.alive = agent.alive /\ agent'.works = agent.works
    BY <2>2 DEF Shaped, Agents
  <2>4. StartsDue' \in Nat /\ StartsDue' <= StartsDue
    BY <1>1, <1>3, <1>9, <2>3
  <2>5. line = Goal
    BY <1>1, <1>9, CallShapes
  <2>6. Pursues = TRUE /\ Pursues' \in BOOLEAN
    BY <1>1, <2>5, CodexDues
  <2> QED BY <1>0, <1>6, <2>1, <2>3, <2>4, <2>6
<1>10. CASE line.call = "steer"
  <2> DEFINE m == line.message
  <2>1. /\ m \in turn.steers /\ turn' = [turn EXCEPT !.steers = turn.steers \ {m}] /\ agent' = agent
        /\ Emit(SteerRejected(m)) \/ Emit(SteerAccepted(m))
    BY <1>10, CallsMade DEF Codex!AgentReads, Codex!AgentAnswersSteer, Codex!Answered, line
  <2>2. m \in Messages
    BY <2>1 DEF Shaped, TurnRecords
  <2>3. /\ turn' \in TurnRecords /\ turn'.steers = turn.steers \ {m}
        /\ turn'.seen = turn.seen /\ turn'.stream = turn.stream /\ turn'.requests = turn.requests
    BY <2>1 DEF Shaped, TurnRecords
  <2> HIDE DEF m
  <2>4. PICK e \in {SteerAccepted(m), SteerRejected(m)} : Emit(e)
    BY <2>1
  <2>5. e \in Events /\ e.event # "ProcessExited"
    BY <2>2, EventsMade
  <2>6. Told' /\ events' = Append(events, e) /\ exited' = exited
    BY <2>4, <2>5, EmitTells DEF Shaped
  <2>7. Shaped' /\ LogKept /\ Dies
    BY <1>0, <1>1, <2>1, <2>3, <2>6 DEF Shaped, LogKept, Dies
  <2>8. CodexOwn'
    BY <1>5, <1>10, <2>3 DEF m
  <2>9. m \in Steering /\ Steering' = Steering \ {m}
    <3>1. m \notin Rejected
      BY <2>1 DEF Rejected, CodexOwn
    <3> QED BY <1>2, <2>1, <2>3, <3>1, CodexDues
  <2>10. StartsDue' = StartsDue /\ FinishesDue' = FinishesDue
    BY <1>1, <1>3, <1>10, <2>1 DEF Works
  <2>11. Pursues' = Pursues
    BY <1>1, <1>2, <1>10, <2>1, CodexDues, CallsMade
  <2>12. AtMost(StartsDue, FinishesDue)
    BY <1>4, <2>10 DEF AtMost
  <2> QED BY <1>0, <1>4, <2>3, <2>4, <2>6, <2>7, <2>8, <2>9, <2>11, <2>12, AnswersSteer
<1> QED BY <1>0, <1>1, <1>7, <1>8, <1>9, <1>10, CallShapes
-----------------------------------------------------------------------------
(* Pi and Oh My Pi *)

\* It is the same frame.
LEMMA PiFrame ==
  /\ \A call : Pi!Take(call) <=> Take(call)
  /\ \A e : Pi!Emit(e) <=> Emit(e)
  /\ Pi!Silent <=> UNCHANGED <<events, exited, history>>
  /\ Pi!Written <=> wire' = Append(wire, server.call)
  /\ Pi!Free = Free /\ Pi!Stopped = Stopped /\ Pi!Idle = Idle
  /\ Pi!Cancel = Cancel /\ Pi!Goal = Goal
  /\ \A place, call : Pi!At(place, call) = At(place, call)
  /\ \A x : /\ Pi!Signal(x) = Signal(x) /\ Pi!TurnFinished(x) = TurnFinished(x)
            /\ Pi!SteerAccepted(x) = SteerAccepted(x) /\ Pi!SteerRejected(x) = SteerRejected(x)
            /\ Pi!Ended(x) = Ended(x) /\ Pi!Finishing(x) = Finishing(x)
            /\ Pi!Says(x) <=> Says(x)
<1>1. ASSUME NEW call  PROVE Pi!Take(call) <=> Take(call)
  BY DEF Pi!Take, Take, Pi!Occupied, Occupied, Pi!Says, Says, Pi!Range, Range, Pi!Free, Free
<1>2. ASSUME NEW e  PROVE Pi!Emit(e) <=> Emit(e)
  BY DEF Pi!Emit, Emit
<1>3. \A place, call : Pi!At(place, call) = At(place, call)
  BY DEF Pi!At, At
<1>4. \A x : Pi!Signal(x) = Signal(x) /\ Pi!TurnFinished(x) = TurnFinished(x)
  BY DEF Pi!Signal, Signal, Pi!TurnFinished, TurnFinished
<1>5. \A x : Pi!SteerAccepted(x) = SteerAccepted(x) /\ Pi!SteerRejected(x) = SteerRejected(x)
  BY DEF Pi!SteerAccepted, SteerAccepted, Pi!SteerRejected, SteerRejected
<1>6. \A x : Pi!Ended(x) = Ended(x) /\ Pi!Finishing(x) = Finishing(x)
  BY DEF Pi!Ended, Ended, Pi!Finishing, Finishing
<1>7. \A x : Pi!Says(x) <=> Says(x)
  BY DEF Pi!Says, Says
<1>8. /\ Pi!Free = Free /\ Pi!Stopped = Stopped /\ Pi!Idle = Idle
      /\ Pi!Cancel = Cancel /\ Pi!Goal = Goal
  BY DEF Pi!Free, Free, Pi!Stopped, Stopped, Pi!Idle, Idle, Pi!Cancel, Cancel, Pi!Goal, Goal
<1>9. Pi!Silent <=> UNCHANGED <<events, exited, history>>
  BY DEF Pi!Silent
<1>10. Pi!Written <=> wire' = Append(wire, server.call)
  BY DEF Pi!Written
<1> QED BY <1>1, <1>2, <1>3, <1>4, <1>5, <1>6, <1>7, <1>8, <1>9, <1>10

\* Which calls are served where; a session that is not open serves none.
PiOwn ==
  /\ ~ turn.open => server.at \in {"free", "refused", "closing", "stopped"}
  /\ server.at = "finishing" => server.call.call = "prompt"
  /\ server.at = "accepting" => server.call.call = "steer"
  /\ agent.works => turn.active

\* What is due of the Pi driver.
Requesting == IF server.at = "writing" /\ server.call.call = "prompt" THEN 1 ELSE 0
Requested ==
  IF server.at \in {"awaiting", "failed", "finishing"} /\ server.call.call = "prompt" THEN 1 ELSE 0
Unopened == IF server.at \in {"refused", "closing"} \/ (server.at = "free" /\ ~ turn.open) THEN 1 ELSE 0
AsksGoal == server.at = "writing" /\ server.call = Goal
Unanswered ==
  IF server.at \in {"writing", "awaiting", "accepting", "failed"} /\ server.call.call = "steer"
    THEN {server.call.message} ELSE {}

\* What is due of the Pi driver, in terms of its threads and the wire.
LEMMA PiDues ==
  ASSUME Shaped, Shaped', IsPi, kind' = kind
  PROVE  /\ StartsDue = agent.accepted + Cardinality(PromptsIn(wire)) + Requesting
         /\ StartsDue' = agent'.accepted + Cardinality(PromptsIn(wire')) + Requesting'
         /\ FinishesDue = agent.accepted + Cardinality(PromptsIn(wire)) + Works
                            + 2 * Requesting + Requested + Unopened
         /\ FinishesDue' = agent'.accepted + Cardinality(PromptsIn(wire')) + Works'
                             + 2 * Requesting' + Requested' + Unopened'
         /\ Steering = Unanswered /\ Steering' = Unanswered'
         /\ Pursues = (agent.goal \/ GoalIn(wire) \/ AsksGoal)
         /\ Pursues' = (agent'.goal \/ GoalIn(wire') \/ AsksGoal')
         /\ ~ IsDeepSeek
<1>1. /\ StartsDue = Pi!StartsDue /\ StartsDue' = Pi!StartsDue'
      /\ FinishesDue = Pi!FinishesDue /\ FinishesDue' = Pi!FinishesDue'
      /\ Steering = Pi!Steering /\ Steering' = Pi!Steering'
      /\ Pursues = Pi!Pursues /\ Pursues' = Pi!Pursues'
      /\ ~ IsDeepSeek
  BY DEF StartsDue, FinishesDue, Steering, Pursues, HasFlag, IsAcp, IsCodex, IsPi, IsDeepSeek
<1>2. /\ Pi!StartsDue = agent.accepted + Cardinality(PromptsIn(wire)) + Requesting
      /\ Pi!FinishesDue = agent.accepted + Cardinality(PromptsIn(wire)) + Works
                            + 2 * Requesting + Requested + Unopened
      /\ Pi!Steering = Unanswered
      /\ Pi!Pursues = (agent.goal \/ GoalIn(wire) \/ AsksGoal)
  <2>1. Pi!Goal = Goal /\ Pi!Free = Free
    BY PiFrame
  <2>2. Goal \in Pi!Range(wire) <=> GoalIn(wire)
    BY DEF Pi!Range, GoalIn
  <2>3. Pi!InWire = Cardinality(PromptsIn(wire))
    <3>1. Pi!Cardinality(PromptsIn(wire)) = Cardinality(PromptsIn(wire))
      BY DEF Pi!Cardinality, Cardinality
    <3> QED BY <3>1 DEF Pi!InWire, PromptsIn
  <2>4. server.at = "free" <=> server = Free
    BY ServerShapes DEF Shaped
  <2>5. Pi!StartsDue = agent.accepted + Cardinality(PromptsIn(wire)) + Requesting
    BY <2>3 DEF Pi!StartsDue, Pi!Serving, Requesting
  <2>6. (IF Pi!Serving("writing") THEN 2 ELSE 0) = 2 * Requesting
    BY DEF Pi!Serving, Requesting
  <2>7. (IF Pi!Serving("awaiting") \/ Pi!Serving("failed") \/ Pi!Serving("finishing") THEN 1 ELSE 0) = Requested
    BY DEF Pi!Serving, Requested
  <2>8. (IF server.at \in {"refused", "closing"} \/ (server = Pi!Free /\ ~ turn.open) THEN 1 ELSE 0) = Unopened
    BY <2>1, <2>4 DEF Unopened
  <2>9. Pi!FinishesDue = agent.accepted + Cardinality(PromptsIn(wire)) + Works
                           + 2 * Requesting + Requested + Unopened
    BY ONLY <2>3, <2>6, <2>7, <2>8 DEF Pi!FinishesDue, Works
  <2>10. Pi!Steering = Unanswered
    BY DEF Pi!Steering, Pi!SteeringAt, Unanswered
  <2>11. Pi!Pursues = (agent.goal \/ GoalIn(wire) \/ AsksGoal)
    BY <2>1, <2>2 DEF Pi!Pursues, AsksGoal
  <2> QED BY <2>5, <2>9, <2>10, <2>11
<1>3. /\ Pi!StartsDue' = agent'.accepted + Cardinality(PromptsIn(wire')) + Requesting'
      /\ Pi!FinishesDue' = agent'.accepted + Cardinality(PromptsIn(wire')) + Works'
                             + 2 * Requesting' + Requested' + Unopened'
      /\ Pi!Steering' = Unanswered'
      /\ Pi!Pursues' = (agent'.goal \/ GoalIn(wire') \/ AsksGoal')
  <2>1. Pi!Goal = Goal /\ Pi!Free = Free
    BY PiFrame
  <2>2. Goal \in Pi!Range(wire') <=> GoalIn(wire')
    BY DEF Pi!Range, GoalIn
  <2>3. Pi!InWire' = Cardinality(PromptsIn(wire'))
    <3>1. Pi!Cardinality(PromptsIn(wire')) = Cardinality(PromptsIn(wire'))
      BY DEF Pi!Cardinality, Cardinality
    <3> QED BY <3>1 DEF Pi!InWire, PromptsIn
  <2>4. server'.at = "free" <=> server' = Free
    BY DEF Shaped, Servers, Free, Stopped, Places
  <2>5. Pi!StartsDue' = agent'.accepted + Cardinality(PromptsIn(wire')) + Requesting'
    BY <2>3 DEF Pi!StartsDue, Pi!Serving, Requesting
  <2>6. (IF Pi!Serving("writing")' THEN 2 ELSE 0) = 2 * Requesting'
    BY DEF Pi!Serving, Requesting
  <2>7. (IF Pi!Serving("awaiting")' \/ Pi!Serving("failed")' \/ Pi!Serving("finishing")' THEN 1 ELSE 0)
          = Requested'
    BY DEF Pi!Serving, Requested
  <2>8. (IF server'.at \in {"refused", "closing"} \/ (server' = Pi!Free /\ ~ turn'.open) THEN 1 ELSE 0)
          = Unopened'
    BY <2>1, <2>4 DEF Unopened
  <2>9. Pi!FinishesDue' = agent'.accepted + Cardinality(PromptsIn(wire')) + Works'
                            + 2 * Requesting' + Requested' + Unopened'
    BY ONLY <2>3, <2>6, <2>7, <2>8 DEF Pi!FinishesDue, Works
  <2>10. Pi!Steering' = Unanswered'
    BY DEF Pi!Steering, Pi!SteeringAt, Unanswered
  <2>11. Pi!Pursues' = (agent'.goal \/ GoalIn(wire') \/ AsksGoal')
    BY <2>1, <2>2 DEF Pi!Pursues, AsksGoal
  <2> QED BY <2>5, <2>9, <2>10, <2>11
<1> QED BY <1>1, <1>2, <1>3

\* Numbers, where they are.
LEMMA PiCounts ==
  ASSUME Shaped, Shaped', IsPi, kind' = kind
  PROVE  /\ {agent.accepted, agent'.accepted, Works, Works', Requesting, Requesting', Requested, Requested',
             Unopened, Unopened', Cardinality(PromptsIn(wire)), Cardinality(PromptsIn(wire'))} \subseteq Nat
         /\ {StartsDue, StartsDue', FinishesDue, FinishesDue'} \subseteq Nat
         /\ Pursues \in BOOLEAN /\ Pursues' \in BOOLEAN
<1>1. /\ agent.accepted \in Nat /\ agent'.accepted \in Nat
      /\ Cardinality(PromptsIn(wire)) \in Nat /\ Cardinality(PromptsIn(wire')) \in Nat
  BY WireCounted DEF Shaped, Agents
<1>2. {Works, Works', Requesting, Requesting', Requested, Requested', Unopened, Unopened'} \subseteq Nat
  BY DEF Works, Requesting, Requested, Unopened
<1>3. StartsDue \in Nat /\ StartsDue' \in Nat
  BY <1>1, <1>2, PiDues
<1>4. FinishesDue \in Nat /\ FinishesDue' \in Nat
  BY <1>1, <1>2, PiDues
<1> QED BY <1>1, <1>2, <1>3, <1>4, PiDues

\* A step of the writer that says nothing.
LEMMA PiQuiet ==
  ASSUME Shaped, Shaped', IsPi, UNCHANGED <<kind, calls, events, exited, agent>>,
         Requesting' + Cardinality(PromptsIn(wire')) <= Requesting + Cardinality(PromptsIn(wire)),
         2 * Requesting' + Requested' + Unopened' + Cardinality(PromptsIn(wire'))
           <= 2 * Requesting + Requested + Unopened + Cardinality(PromptsIn(wire)),
         Unanswered' \subseteq Unanswered,
         GoalIn(wire') \/ AsksGoal' => GoalIn(wire) \/ AsksGoal
  PROVE  Contract!StreamNext
<1> DEFINE p == Cardinality(PromptsIn(wire))
           q == Cardinality(PromptsIn(wire'))
<1>1. /\ p \in Nat /\ q \in Nat /\ agent.accepted \in Nat /\ Works \in Nat
      /\ Requesting \in Nat /\ Requesting' \in Nat /\ Requested \in Nat /\ Requested' \in Nat
      /\ Unopened \in Nat /\ Unopened' \in Nat
      /\ StartsDue \in Nat /\ StartsDue' \in Nat /\ FinishesDue \in Nat /\ FinishesDue' \in Nat
  BY PiCounts
<1>2. agent' = agent /\ Works' = Works
  BY DEF Works
<1>3. /\ StartsDue = agent.accepted + p + Requesting
      /\ StartsDue' = agent.accepted + q + Requesting'
      /\ FinishesDue = agent.accepted + p + Works + 2 * Requesting + Requested + Unopened
      /\ FinishesDue' = agent.accepted + q + Works + 2 * Requesting' + Requested' + Unopened'
  BY <1>2, PiDues
<1>4. /\ Requesting' + q <= Requesting + p
      /\ 2 * Requesting' + Requested' + Unopened' + q <= 2 * Requesting + Requested + Unopened + p
  OBVIOUS
<1> HIDE DEF p, q
<1>5. StartsDue' <= StartsDue
  <2>1. \A a, k, l, r, s \in Nat : s + l <= r + k => a + l + s <= a + k + r
    OBVIOUS
  <2>2. agent.accepted + q + Requesting' <= agent.accepted + p + Requesting
    BY ONLY <1>1, <1>4, <2>1
  <2> QED BY ONLY <1>3, <2>2
<1>6. FinishesDue' <= FinishesDue
  <2>1. \A a, n, k, l, r, s, u, v, x, y \in Nat :
          2 * s + v + y + l <= 2 * r + u + x + k =>
            a + l + n + 2 * s + v + y <= a + k + n + 2 * r + u + x
    OBVIOUS
  <2>2. agent.accepted + q + Works + 2 * Requesting' + Requested' + Unopened'
          <= agent.accepted + p + Works + 2 * Requesting + Requested + Unopened
    BY ONLY <1>1, <1>4, <2>1
  <2> QED BY ONLY <1>3, <2>2
<1>7. AtMost(StartsDue, FinishesDue)
  BY <1>1, <1>5, <1>6 DEF AtMost
<1>8. Steering' \subseteq Steering
  BY PiDues
<1>9. Pursues' \in {FALSE, Pursues}
  BY <1>2, PiDues
<1> QED BY <1>7, <1>8, <1>9, Forgoes

\* The session opens, or does not.
LEMMA PiOpens ==
  ASSUME Shaped, IsPi, PiOwn, UNCHANGED <<kind, unsaid>>, Pi!SessionOpens \/ Pi!SessionFails
  PROVE  Shaped' /\ PiOwn' /\ Leaves /\ Contract!StreamNext
<1> USE PiFrame, ServersMade
<1>1. /\ server = Free /\ ~ turn.open /\ UNCHANGED <<calls, events, exited, history, wire, agent, reader>>
      /\ \/ turn' = [turn EXCEPT !.open = TRUE] /\ server' = server
         \/ turn' = turn /\ server' = At("refused", Cancel)
  BY DEF Pi!SessionOpens, Pi!SessionFails
<1>2. /\ turn' \in TurnRecords /\ turn'.active = turn.active
      /\ turn'.requests = turn.requests /\ turn'.seen = turn.seen /\ turn'.stream = turn.stream
      /\ server'.at = "free" => turn'.open
  <2>1. CASE turn' = [turn EXCEPT !.open = TRUE] /\ server' = server
    BY <2>1 DEF Shaped, TurnRecords
  <2>2. CASE turn' = turn /\ server' = At("refused", Cancel)
    <3>1. server'.at = "refused"
      BY <2>2, CallsMade DEF Places
    <3> QED BY <2>2, <3>1 DEF Shaped
  <2> QED BY <1>1, <2>1, <2>2
<1>3. server' \in Servers /\ server'.at \in {"free", "refused"}
  BY <1>1, CallsMade DEF Places
<1>4. Shaped' /\ Leaves
  BY <1>1, <1>2, <1>3 DEF Shaped, Told, Leaves, Keeps, LogKept, Dies
<1>5. PiOwn'
  BY <1>1, <1>2, <1>3 DEF PiOwn
<1>6. server.at = "free"
  BY <1>1
<1>7. /\ Requesting = 0 /\ Requesting' = 0 /\ Requested = 0 /\ Requested' = 0 /\ Unopened = 1 /\ Unopened' \in {0, 1}
      /\ Unanswered' = {} /\ ~ AsksGoal'
  BY <1>1, <1>3, <1>6 DEF Requesting, Requested, Unopened, Unanswered, AsksGoal
<1>8. Cardinality(PromptsIn(wire)) \in Nat
  BY WireCounted DEF Shaped
<1>9. /\ Requesting' + Cardinality(PromptsIn(wire')) <= Requesting + Cardinality(PromptsIn(wire))
      /\ 2 * Requesting' + Requested' + Unopened' + Cardinality(PromptsIn(wire'))
           <= 2 * Requesting + Requested + Unopened + Cardinality(PromptsIn(wire))
  BY <1>1, <1>7, <1>8
<1> QED BY <1>1, <1>4, <1>5, <1>7, <1>9, PiQuiet

\* The writer takes a call.
LEMMA PiTakes ==
  ASSUME Shaped, IsPi, PiOwn, UNCHANGED <<kind, unsaid>>,
         NEW call \in {"prompt", "steer", "cancel", "goal"}, Pi!TakeCall(call)
  PROVE  Shaped' /\ PiOwn' /\ Leaves /\ Contract!StreamNext
<1> USE PiFrame, ServersMade
<1> DEFINE h == Head(calls)
<1>1. turn.open /\ Take(call) /\ server' = At("writing", h) /\ UNCHANGED <<turn, wire, agent, reader>>
  BY DEF Pi!TakeCall
<1>2. /\ Told' /\ events' = events /\ exited' = exited
      /\ calls # << >> /\ h \in Calls /\ h.call = call
      /\ calls' = Tail(calls) /\ calls' \in Seq(Calls) /\ server = Free
  BY <1>1, TakeTells DEF Shaped
<1> HIDE DEF h
<1>3. server' \in Servers /\ server'.at = "writing" /\ server'.call = h /\ server.at = "free"
  BY <1>1, <1>2 DEF Places
<1>4. Shaped' /\ Leaves
  BY <1>1, <1>2, <1>3 DEF Shaped, Leaves, Keeps, LogKept, Dies
<1>5. PiOwn'
  BY <1>1, <1>3 DEF PiOwn
<1>6. /\ Requesting = 0 /\ Requested = 0 /\ Unopened = 0 /\ Requested' = 0 /\ Unopened' = 0
      /\ Requesting' = (IF call = "prompt" THEN 1 ELSE 0)
      /\ Unanswered = {} /\ Unanswered' = (IF call = "steer" THEN {h.message} ELSE {})
      /\ ~ AsksGoal /\ (AsksGoal' <=> h = Goal)
  BY <1>1, <1>2, <1>3 DEF Requesting, Requested, Unopened, Unanswered, AsksGoal
<1>7. /\ StartsDue' = StartsDue + Requesting' /\ FinishesDue' = FinishesDue + 2 * Requesting'
      /\ StartsDue \in Nat /\ FinishesDue \in Nat
  <2> DEFINE p == Cardinality(PromptsIn(wire))
  <2>1. p \in Nat /\ agent.accepted \in Nat /\ Works \in Nat /\ Requesting' \in Nat
    BY <1>4, PiCounts
  <2>2. /\ StartsDue = agent.accepted + p + Requesting
        /\ StartsDue' = agent.accepted + p + Requesting'
        /\ FinishesDue = agent.accepted + p + Works + 2 * Requesting + Requested + Unopened
        /\ FinishesDue' = agent.accepted + p + Works + 2 * Requesting' + Requested' + Unopened'
    BY <1>1, <1>4, PiDues DEF Works
  <2> HIDE DEF p
  <2> QED BY ONLY <1>6, <2>1, <2>2
<1>8. Steering' = IF call = "steer" THEN Steering \cup {h.message} ELSE Steering
  BY <1>4, <1>6, PiDues
<1>9. Pursues' \in BOOLEAN /\ (call # "goal" => Pursues' = Pursues)
  <2>1. h = Goal => call = "goal"
    BY <1>2, CallsMade
  <2> QED BY <1>1, <1>4, <1>6, <2>1, PiDues, PiCounts
<1>10. CASE call = "prompt"
  <2>1. StartsDue' \in 0..(StartsDue + 2) /\ FinishesDue' \in 0..(FinishesDue + 2)
    BY <1>6, <1>7, <1>10
  <2> QED BY <1>2, <1>4, <1>5, <1>8, <1>9, <1>10, <2>1, TakesPrompt DEF AtMost, h
<1>11. CASE call # "prompt"
  <2>1. StartsDue' = StartsDue /\ FinishesDue' = FinishesDue
    BY <1>6, <1>7, <1>11
  <2> QED BY <1>2, <1>4, <1>5, <1>8, <1>9, <1>11, <2>1, TakesSteer, TakesCancel, TakesGoal DEF h
<1> QED BY <1>10, <1>11

\* A request is sent, or fails, or a goal that failed is dropped.
LEMMA PiWrites ==
  ASSUME Shaped, IsPi, PiOwn, UNCHANGED <<kind, unsaid>>,
         Pi!Request \/ Pi!RequestFails \/ Pi!GoalFailed
  PROVE  Shaped' /\ PiOwn' /\ Leaves /\ Contract!StreamNext
<1> USE PiFrame, ServersMade
<1> DEFINE c == server.call
<1>1. /\ UNCHANGED <<calls, events, exited, history, turn, agent, reader>>
      /\ \/ server.at = "writing" /\ wire' = Append(wire, c) /\ server' = At("awaiting", c)
         \/ server.at \in {"writing", "awaiting"} /\ wire' = wire /\ server' = At("failed", c)
         \/ server.at = "failed" /\ c = Goal /\ wire' = wire /\ server' = Free
  BY DEF Pi!Request, Pi!RequestFails, Pi!GoalFailed
<1>2. c \in Calls /\ turn.open
  BY <1>1, ServerShapes DEF Shaped, Places, PiOwn
<1> HIDE DEF c
<1>3. /\ server' \in Servers /\ server'.at \in {"awaiting", "failed", "free"}
      /\ server'.at # "free" => server'.call = c
  BY <1>1, <1>2 DEF Places
<1>4. wire' \in Seq(Calls)
  <2>1. Append(wire, c) \in Seq(Calls) /\ wire \in Seq(Calls)
    BY <1>2, AppendProperties DEF Shaped
  <2> QED BY <1>1, <2>1
<1>5. Shaped' /\ Leaves
  BY <1>1, <1>3, <1>4 DEF Shaped, Told, Leaves, Keeps, LogKept, Dies
<1>6. PiOwn'
  BY <1>1, <1>2, <1>3 DEF PiOwn
<1>7. Cardinality(PromptsIn(wire)) \in Nat
  BY WireCounted DEF Shaped
<1>8. Unopened = 0 /\ Unopened' = 0 /\ Requesting' = 0 /\ ~ AsksGoal'
  BY <1>1, <1>2, <1>3 DEF Unopened, Requesting, AsksGoal
<1>9. CASE server.at = "writing" /\ wire' = Append(wire, c) /\ server' = At("awaiting", c)
  <2>0. server'.at = "awaiting" /\ server'.call = c
    BY <1>2, <1>9 DEF Places
  <2>1. /\ Cardinality(PromptsIn(wire'))
             = Cardinality(PromptsIn(wire)) + (IF c.call = "prompt" THEN 1 ELSE 0)
        /\ GoalIn(wire') <=> GoalIn(wire) \/ c = Goal
    BY <1>2, <1>9, WireAdds DEF Shaped
  <2>2. /\ Requesting = (IF c.call = "prompt" THEN 1 ELSE 0) /\ Requested = 0
        /\ Requested' = (IF c.call = "prompt" THEN 1 ELSE 0)
        /\ (AsksGoal <=> c = Goal) /\ Unanswered' = Unanswered
    BY <1>9, <2>0 DEF Requesting, Requested, AsksGoal, Unanswered, c
  <2>3. /\ Requesting' + Cardinality(PromptsIn(wire')) <= Requesting + Cardinality(PromptsIn(wire))
        /\ 2 * Requesting' + Requested' + Unopened' + Cardinality(PromptsIn(wire'))
             <= 2 * Requesting + Requested + Unopened + Cardinality(PromptsIn(wire))
    BY <1>7, <1>8, <2>1, <2>2
  <2> QED BY <1>1, <1>5, <1>6, <1>8, <2>1, <2>2, <2>3, PiQuiet
<1>10. CASE server.at \in {"writing", "awaiting"} /\ wire' = wire /\ server' = At("failed", c)
  <2>0. server'.at = "failed" /\ server'.call = c
    BY <1>2, <1>10 DEF Places
  <2>1. Unanswered' = Unanswered
    BY <1>10, <2>0 DEF Unanswered, c
  <2>2. Requesting \in Nat /\ Requested' \in Nat /\ Requested \in Nat /\ Requested' <= Requesting + Requested
    BY <1>10, <2>0 DEF Requesting, Requested, c
  <2>3. /\ Requesting' + Cardinality(PromptsIn(wire')) <= Requesting + Cardinality(PromptsIn(wire))
        /\ 2 * Requesting' + Requested' + Unopened' + Cardinality(PromptsIn(wire'))
             <= 2 * Requesting + Requested + Unopened + Cardinality(PromptsIn(wire))
    BY <1>7, <1>8, <1>10, <2>2
  <2> QED BY <1>1, <1>5, <1>6, <1>8, <1>10, <2>1, <2>3, PiQuiet
<1>11. CASE server.at = "failed" /\ c = Goal /\ wire' = wire /\ server' = Free
  <2>0. server'.at = "free" /\ c.call = "goal"
    BY <1>11, CallsMade
  <2>1. Unanswered' = {} /\ Requesting = 0 /\ Requested = 0 /\ Requested' = 0
    BY <1>11, <2>0 DEF Unanswered, Requesting, Requested, c
  <2>3. /\ Requesting' + Cardinality(PromptsIn(wire')) <= Requesting + Cardinality(PromptsIn(wire))
        /\ 2 * Requesting' + Requested' + Unopened' + Cardinality(PromptsIn(wire'))
             <= 2 * Requesting + Requested + Unopened + Cardinality(PromptsIn(wire))
    BY <1>7, <1>8, <1>11, <2>1
  <2> QED BY <1>1, <1>5, <1>6, <1>8, <1>11, <2>1, <2>3, PiQuiet
<1> QED BY <1>1, <1>9, <1>10, <1>11

\* The writer tells the client something.
LEMMA PiTells ==
  ASSUME Shaped, IsPi, PiOwn, UNCHANGED <<kind, unsaid>>,
         \/ Pi!SessionRefused \/ Pi!FinishUnopened \/ Pi!Accept
         \/ Pi!SteerFailed \/ Pi!CancelFailed \/ Pi!PromptFailed \/ Pi!FinishFailed
  PROVE  Shaped' /\ PiOwn' /\ Leaves /\ Contract!StreamNext
<1> USE PiFrame, ServersMade
<1> DEFINE c == server.call
           m == server.call.message
           answers == server.at \in {"accepting", "failed"} /\ c.call = "steer" /\ server' = Free
           complains == \/ server.at = "refused" /\ server' = [at |-> "closing"]
                        \/ server.at = "failed" /\ c = Cancel /\ server' = Free
                        \/ server.at = "failed" /\ c.call = "prompt" /\ server' = At("finishing", c)
           finishes == \/ server.at = "closing" /\ server' = Stopped
                       \/ server.at = "finishing" /\ c.call = "prompt" /\ server' = Free
<1>1. PICK e :
        /\ Emit(e) /\ UNCHANGED <<calls, wire, agent, turn, reader>>
        /\ \/ answers /\ e \in {SteerAccepted(m), SteerRejected(m)}
           \/ complains /\ e = Signal("Error")
           \/ finishes /\ e = TurnFinished(FALSE)
  BY DEF Pi!SessionRefused, Pi!FinishUnopened, Pi!Accept, Pi!SteerFailed, Pi!CancelFailed, Pi!PromptFailed,
         Pi!FinishFailed, Pi!Tells, PiOwn
<1>2. /\ server.at \in {"accepting", "failed", "refused", "finishing", "closing"}
      /\ server.at # "closing" => c \in Calls
      /\ answers => m \in Messages
  BY <1>1, ServerShapes, CallShapes DEF Shaped, Places
<1>3. server' \in Servers /\ server'.at \in {"free", "stopped", "closing", "finishing"}
  <2>1. "finishing" \in Places /\ [at |-> "closing"].at = "closing"
    BY DEF Places
  <2>2. CASE answers
    BY <2>2
  <2>3. CASE complains
    BY <1>2, <2>1, <2>3
  <2>4. CASE finishes
    BY <2>4
  <2> QED BY <1>1, <2>2, <2>3, <2>4
<1>4. e \in Events /\ e.event # "ProcessExited"
  <2>1. CASE answers /\ e \in {SteerAccepted(m), SteerRejected(m)}
    <3>1. m \in Messages /\ (e = SteerAccepted(m) \/ e = SteerRejected(m))
      BY <1>2, <2>1
    <3> QED BY <3>1, EventsMade
  <2>2. CASE e = Signal("Error") \/ e = TurnFinished(FALSE)
    BY <2>2, EventsMade
  <2> QED BY <1>1, <2>1, <2>2
<1>5. Told' /\ events' = Append(events, e) /\ exited' = exited
  BY <1>1, <1>4, EmitTells DEF Shaped
<1>6. Shaped' /\ Leaves
  BY <1>1, <1>3, <1>5 DEF Shaped, Leaves, Keeps, LogKept, Dies
<1>7. server.at # "closing" /\ server.at # "refused" => turn.open
  BY <1>2 DEF PiOwn
<1>8. /\ Cardinality(PromptsIn(wire)) \in Nat /\ agent.accepted \in Nat /\ Works \in Nat
      /\ StartsDue \in Nat /\ FinishesDue \in Nat
  BY <1>6, PiCounts
<1>9. /\ StartsDue = agent.accepted + Cardinality(PromptsIn(wire)) + Requesting
      /\ StartsDue' = agent.accepted + Cardinality(PromptsIn(wire)) + Requesting'
      /\ FinishesDue = agent.accepted + Cardinality(PromptsIn(wire)) + Works
                         + 2 * Requesting + Requested + Unopened
      /\ FinishesDue' = agent.accepted + Cardinality(PromptsIn(wire)) + Works
                          + 2 * Requesting' + Requested' + Unopened'
      /\ Steering = Unanswered /\ Steering' = Unanswered'
  BY <1>1, <1>6, PiDues DEF Works
<1>10. Requesting = 0 /\ Requesting' = 0
  BY <1>2, <1>3 DEF Requesting
<1>11. StartsDue' = StartsDue
  BY <1>9, <1>10
<1>12. Pursues' = Pursues
  <2>1. ~ AsksGoal /\ ~ AsksGoal'
    BY <1>2, <1>3 DEF AsksGoal
  <2> QED BY <1>1, <1>6, <2>1, PiDues
<1>13. CASE answers /\ e \in {SteerAccepted(m), SteerRejected(m)}
  <2>1. server'.at = "free" /\ turn.open /\ turn' = turn
    BY <1>1, <1>7, <1>13
  <2>2. Requested = 0 /\ Requested' = 0 /\ Unopened = 0 /\ Unopened' = 0
    BY <1>13, <2>1 DEF Requested, Unopened
  <2>3. m \in Steering /\ Steering' = Steering \ {m}
    BY <1>9, <1>13, <2>1 DEF Unanswered
  <2>4. FinishesDue' = FinishesDue
    BY <1>9, <1>10, <2>2
  <2>5. PiOwn'
    BY <1>1, <2>1 DEF PiOwn
  <2>6. events' = Append(events, SteerAccepted(m)) \/ events' = Append(events, SteerRejected(m))
    BY <1>5, <1>13
  <2> HIDE DEF m, answers
  <2> QED BY <1>1, <1>5, <1>6, <1>8, <1>11, <1>12, <2>3, <2>4, <2>5, <2>6, AnswersSteer DEF AtMost
<1>14. CASE complains /\ e = Signal("Error")
  <2>1. /\ Requested' = Requested /\ Unopened' = Unopened
        /\ Unanswered = {} /\ Unanswered' = {} /\ PiOwn'
    <3>1. CASE server.at = "refused" /\ server' = [at |-> "closing"]
      <4>1. server'.at = "closing"
        BY <3>1
      <4> QED BY <1>1, <3>1, <4>1 DEF Requested, Unopened, Unanswered, PiOwn
    <3>2. CASE server.at = "failed" /\ c = Cancel /\ server' = Free
      <4>1. server'.at = "free" /\ c.call = "cancel" /\ turn'.open
        BY <1>1, <1>7, <3>2, CallsMade
      <4> QED BY <1>1, <3>2, <4>1 DEF Requested, Unopened, Unanswered, PiOwn
    <3>3. CASE server.at = "failed" /\ c.call = "prompt" /\ server' = At("finishing", c)
      <4>1. server'.at = "finishing" /\ server'.call = c /\ turn'.open
        BY <1>1, <1>2, <1>7, <3>3 DEF Places
      <4> QED BY <1>1, <3>3, <4>1 DEF Requested, Unopened, Unanswered, PiOwn
    <3> QED BY <1>14, <3>1, <3>2, <3>3
  <2>2. FinishesDue' = FinishesDue
    BY ONLY <1>9, <1>10, <2>1
  <2>3. Steering' = Steering
    BY <1>9, <2>1
  <2> QED BY <1>1, <1>5, <1>6, <1>8, <1>11, <1>12, <1>14, <2>1, <2>2, <2>3, Chats DEF AtMost
<1>15. CASE finishes /\ e = TurnFinished(FALSE)
  <2>1. /\ Requested' = 0 /\ Unopened' = 0 /\ Requested \in {0, 1} /\ Unopened \in {0, 1}
        /\ Requested + Unopened = 1
        /\ Unanswered = {} /\ Unanswered' = {} /\ PiOwn'
    <3>1. CASE server.at = "closing" /\ server' = Stopped
      <4>1. server'.at = "stopped"
        BY <3>1
      <4> QED BY <1>1, <3>1, <4>1 DEF Requested, Unopened, Unanswered, PiOwn
    <3>2. CASE server.at = "finishing" /\ c.call = "prompt" /\ server' = Free
      <4>1. server'.at = "free" /\ turn'.open
        BY <1>1, <1>7, <3>2
      <4> QED BY <1>1, <3>2, <4>1 DEF Requested, Unopened, Unanswered, PiOwn
    <3> QED BY <1>15, <3>1, <3>2
  <2>2. FinishesDue \in Nat \ {0} /\ FinishesDue' = FinishesDue - 1
    <3>1. \A a, k, n \in Nat : /\ a + k + n + 2 * 0 + 0 + 0 = (a + k + n + 2 * 0 + 1 + 0) - 1
                               /\ a + k + n + 2 * 0 + 0 + 0 = (a + k + n + 2 * 0 + 0 + 1) - 1
                               /\ a + k + n + 2 * 0 + 1 + 0 # 0 /\ a + k + n + 2 * 0 + 0 + 1 # 0
      OBVIOUS
    <3>2. \/ Requested = 1 /\ Unopened = 0
          \/ Requested = 0 /\ Unopened = 1
      BY <2>1
    <3> QED BY ONLY <1>8, <1>9, <1>10, <2>1, <3>1, <3>2
  <2>3. Steering' = Steering
    BY <1>9, <2>1
  <2>4. AtMost(StartsDue, FinishesDue - 1)
    BY <1>8, <1>11, <2>2 DEF AtMost
  <2> QED BY <1>1, <1>5, <1>6, <1>8, <1>12, <1>15, <2>1, <2>2, <2>3, <2>4, Finishes
<1> QED BY <1>1, <1>13, <1>14, <1>15

\* The agent reads a line; the answer reaches a writer that still waits for it.
LEMMA PiReads ==
  ASSUME Shaped, IsPi, PiOwn, UNCHANGED <<kind, unsaid>>, Pi!AgentReads
  PROVE  /\ Shaped' /\ PiOwn' /\ Contract!StreamNext
         /\ LogKept /\ Dies /\ calls' = calls /\ turn'.requests = turn.requests
<1> USE PiFrame, ServersMade
<1> DEFINE line == Head(wire)
           p == Cardinality(PromptsIn(wire))
           q == Cardinality(PromptsIn(wire'))
           n == IF line.call = "prompt" THEN 1 ELSE 0
<1>0. /\ wire # << >> /\ wire' = Tail(wire) /\ UNCHANGED <<calls, events, exited, history, turn, reader>>
      /\ \/ agent' = agent
         \/ line.call = "prompt" /\ agent' = [agent EXCEPT !.accepted = agent.accepted + 1]
         \/ line.call = "goal" /\ \E g \in BOOLEAN : agent' = [agent EXCEPT !.goal = g]
      /\ \/ server' = server
         \/ server = At("awaiting", line) /\ server' = At("failed", line) /\ agent' = agent
         \/ server = At("awaiting", line) /\ line.call = "steer" /\ server' = At("accepting", line)
         \/ server = At("awaiting", line) /\ line.call # "steer" /\ server' = Free
  BY DEF Pi!AgentReads, Pi!Replies
<1>1. /\ line \in Calls /\ wire' \in Seq(Calls) /\ p = q + n
      /\ GoalIn(wire) <=> GoalIn(wire') \/ line = Goal
  BY <1>0, WireLoses DEF Shaped
<1>2. p \in Nat /\ q \in Nat
  BY <1>1, WireCounted DEF Shaped
<1> HIDE DEF line, p, q
<1>3. /\ agent' \in Agents /\ agent'.accepted \in {agent.accepted, agent.accepted + n}
      /\ agent'.works = agent.works /\ agent'.log = agent.log /\ agent'.alive = agent.alive
      /\ agent'.goal = agent.goal \/ line = Goal
      /\ agent'.goal \in BOOLEAN
  <2>0. agent \in Agents /\ agent.accepted \in Nat /\ agent.accepted + 1 \in Nat /\ agent.goal \in BOOLEAN
    BY DEF Shaped, Agents
  <2>1. CASE agent' = agent
    BY <2>0, <2>1
  <2>2. CASE line.call = "prompt" /\ agent' = [agent EXCEPT !.accepted = agent.accepted + 1]
    BY <2>0, <2>2 DEF Agents
  <2>3. ASSUME line.call = "goal", NEW g \in BOOLEAN, agent' = [agent EXCEPT !.goal = g]
        PROVE  /\ agent' \in Agents /\ agent'.accepted = agent.accepted
               /\ agent'.works = agent.works /\ agent'.log = agent.log /\ agent'.alive = agent.alive
               /\ line = Goal /\ agent'.goal \in BOOLEAN
    <3>1. line = Goal
      BY <1>1, <2>3, CallShapes
    <3> QED BY <2>0, <2>3, <3>1 DEF Agents
  <2>4. n \in {0, 1} /\ (line.call = "prompt" => n = 1) /\ agent.accepted + 0 = agent.accepted
    BY <2>0
  <2> HIDE DEF n
  <2>5. CASE line.call = "goal" /\ \E g \in BOOLEAN : agent' = [agent EXCEPT !.goal = g]
    BY <2>3, <2>4, <2>5
  <2>6. n = 0 => agent.accepted + n = agent.accepted
    BY <2>4
  <2>7. agent' = agent \/ line.call = "prompt" \/ line.call = "goal"
    BY <1>0
  <2>8. CASE agent.accepted # agent'.accepted
    <3>1. line.call = "prompt" /\ agent' = [agent EXCEPT !.accepted = agent.accepted + 1]
      BY <1>0, <2>3, <2>8
    <3> QED BY <2>2, <2>4, <3>1
  <2>9. CASE agent.accepted = agent'.accepted
    BY <1>0, <2>1, <2>2, <2>3, <2>9
  <2> QED BY <2>8, <2>9
<1> HIDE DEF n
<1>4. n \in Nat
  BY DEF n
<1>5. /\ server' \in Servers
      /\ \/ server' = server
         \/ /\ server.at = "awaiting" /\ server.call = line /\ turn.open
            /\ \/ server'.at = "failed" /\ server'.call = line
               \/ server'.at = "accepting" /\ server'.call = line /\ line.call = "steer"
               \/ server'.at = "free" /\ line.call # "steer"
  <2>1. CASE server' = server
    BY <2>1 DEF Shaped
  <2>2. CASE server = At("awaiting", line)
    <3>1. server.at = "awaiting" /\ server.call = line /\ turn.open
      BY <1>1, <2>2 DEF Places, PiOwn
    <3>2. "failed" \in Places /\ "accepting" \in Places
      BY DEF Places
    <3>3. /\ At("failed", line) \in Servers /\ At("failed", line).at = "failed" /\ At("failed", line).call = line
          /\ At("accepting", line) \in Servers /\ At("accepting", line).at = "accepting"
          /\ At("accepting", line).call = line
      BY <1>1, <3>2
    <3>4. CASE server' = At("failed", line)
      BY <3>1, <3>3, <3>4
    <3>5. CASE line.call = "steer" /\ server' = At("accepting", line)
      BY <3>1, <3>3, <3>5
    <3>6. CASE line.call # "steer" /\ server' = Free
      BY <3>1, <3>6
    <3> QED BY <1>0, <2>1, <3>4, <3>5, <3>6
  <2> QED BY <1>0, <2>1, <2>2
<1>6. Shaped' /\ LogKept /\ Dies
  BY <1>0, <1>1, <1>3, <1>5 DEF Shaped, Told, LogKept, Dies
<1>7. PiOwn'
  BY <1>0, <1>3, <1>5 DEF PiOwn
<1>8. /\ Requesting' = Requesting /\ Requested' <= Requested /\ Unopened' = Unopened
      /\ Unanswered' = Unanswered /\ (AsksGoal' => AsksGoal)
      /\ Requesting \in Nat /\ Requested \in Nat /\ Requested' \in Nat /\ Unopened \in Nat
  <2>1. CASE server' = server
    BY <1>0, <2>1 DEF Requesting, Requested, Unopened, Unanswered, AsksGoal
  <2>2. CASE server' # server
    <3>1. /\ server.at = "awaiting" /\ server.call = line /\ turn.open /\ turn' = turn
          /\ \/ server'.at = "failed" /\ server'.call = line
             \/ server'.at = "accepting" /\ server'.call = line /\ line.call = "steer"
             \/ server'.at = "free" /\ line.call # "steer"
      BY <1>0, <1>5, <2>2
    <3>2. Requesting = 0 /\ Unopened = 0 /\ Requested = (IF line.call = "prompt" THEN 1 ELSE 0)
          /\ Unanswered = IF line.call = "steer" THEN {line.message} ELSE {}
      BY <3>1 DEF Requesting, Requested, Unopened, Unanswered
    <3>3. CASE server'.at = "failed" /\ server'.call = line
      BY <3>1, <3>2, <3>3 DEF Requesting, Requested, Unopened, Unanswered, AsksGoal
    <3>4. CASE server'.at = "accepting" /\ server'.call = line /\ line.call = "steer"
      BY <3>1, <3>2, <3>4 DEF Requesting, Requested, Unopened, Unanswered, AsksGoal
    <3>5. CASE server'.at = "free" /\ line.call # "steer"
      BY <3>1, <3>2, <3>5 DEF Requesting, Requested, Unopened, Unanswered, AsksGoal
    <3> QED BY <3>1, <3>3, <3>4, <3>5
  <2> QED BY <2>1, <2>2
<1>9. /\ StartsDue = agent.accepted + p + Requesting
      /\ StartsDue' = agent'.accepted + q + Requesting
      /\ FinishesDue = agent.accepted + p + Works + 2 * Requesting + Requested + Unopened
      /\ FinishesDue' = agent'.accepted + q + Works + 2 * Requesting + Requested' + Unopened
      /\ agent.accepted \in Nat /\ agent'.accepted \in Nat /\ Works \in Nat
      /\ StartsDue \in Nat /\ StartsDue' \in Nat /\ FinishesDue \in Nat /\ FinishesDue' \in Nat
      /\ Steering' = Steering
  <2>1. Works' = Works
    BY <1>3 DEF Works
  <2> QED BY <1>6, <1>8, <2>1, PiDues, PiCounts DEF p, q
<1>10. agent'.accepted + q <= agent.accepted + p
  <2>1. \A a, b, k, r \in Nat : b \in {a, a + k} => b + r <= a + (r + k)
    OBVIOUS
  <2>2. p = q + n /\ agent'.accepted \in {agent.accepted, agent.accepted + n}
    BY <1>1, <1>3
  <2>3. agent'.accepted + q <= agent.accepted + (q + n)
    BY ONLY <1>2, <1>4, <1>9, <2>1, <2>2
  <2> QED BY ONLY <2>2, <2>3
<1>11. StartsDue' <= StartsDue
  <2>1. \A x, y, r \in Nat : x <= y => x + r <= y + r
    OBVIOUS
  <2>2. agent'.accepted + q \in Nat /\ agent.accepted + p \in Nat
    BY ONLY <1>2, <1>9
  <2> QED BY ONLY <1>8, <1>9, <1>10, <2>1, <2>2
<1>12. FinishesDue' <= FinishesDue
  <2>1. \A x, y, w, r, s, v, u \in Nat : x <= y /\ v <= s => x + w + 2 * r + v + u <= y + w + 2 * r + s + u
    OBVIOUS
  <2>2. agent'.accepted + q \in Nat /\ agent.accepted + p \in Nat
    BY ONLY <1>2, <1>9
  <2> QED BY ONLY <1>8, <1>9, <1>10, <2>1, <2>2
<1>13. AtMost(StartsDue, FinishesDue)
  BY <1>9, <1>11, <1>12 DEF AtMost
<1>14. Pursues' \in {FALSE, Pursues}
  BY <1>1, <1>3, <1>6, <1>8, PiDues
<1> QED BY <1>0, <1>6, <1>7, <1>9, <1>13, <1>14, Forgoes

\* What the agent says about its runs.
LEMMA PiAgent ==
  ASSUME Shaped, IsPi, PiOwn, UNCHANGED <<kind, unsaid>>, Pi!AgentBegins \/ Pi!AgentEnds
  PROVE  Shaped' /\ PiOwn' /\ Leaves /\ Contract!StreamNext
<1> USE PiFrame
<1> DEFINE p == Cardinality(PromptsIn(wire))
<1>0. UNCHANGED <<calls, server, wire, reader>>
  BY DEF Pi!AgentBegins, Pi!AgentEnds
<1>1. /\ agent \in Agents /\ agent.accepted \in Nat /\ turn.active \in BOOLEAN /\ agent.works \in BOOLEAN
      /\ p \in Nat
  BY WireCounted DEF Shaped, Agents, TurnRecords
<1>2. ASSUME NEW b \in BOOLEAN, turn' = [turn EXCEPT !.active = b]
      PROVE  /\ turn' \in TurnRecords /\ turn'.active = b /\ turn'.open = turn.open
             /\ turn'.seen = turn.seen /\ turn'.stream = turn.stream /\ turn'.requests = turn.requests
  BY <1>2 DEF Shaped, TurnRecords
<1>3. ASSUME Told', agent' \in Agents, turn' \in TurnRecords, exited' = exited,
             agent'.log = agent.log, agent'.alive = agent.alive, agent'.goal = agent.goal,
             turn'.open = turn.open, agent'.works => turn'.active,
             turn'.seen = turn.seen, turn'.stream = turn.stream, turn'.requests = turn.requests
      PROVE  /\ Shaped' /\ PiOwn' /\ Leaves
             /\ StartsDue = agent.accepted + p + Requesting
             /\ StartsDue' = agent'.accepted + p + Requesting
             /\ FinishesDue = agent.accepted + p + Works + 2 * Requesting + Requested + Unopened
             /\ FinishesDue' = agent'.accepted + p + Works' + 2 * Requesting + Requested + Unopened
             /\ Requesting \in Nat /\ Requested \in Nat /\ Unopened \in Nat
             /\ StartsDue \in Nat /\ StartsDue' \in Nat /\ FinishesDue \in Nat /\ FinishesDue' \in Nat
             /\ Steering' = Steering /\ Pursues' = Pursues
  <2>1. Shaped' /\ Leaves
    BY <1>0, <1>3 DEF Shaped, Leaves, Keeps, LogKept, Dies
  <2>2. PiOwn'
    BY <1>0, <1>3 DEF PiOwn
  <2>3. /\ Requesting' = Requesting /\ Requested' = Requested /\ Unopened' = Unopened
        /\ Unanswered' = Unanswered /\ (AsksGoal' <=> AsksGoal)
    BY <1>0, <1>3 DEF Requesting, Requested, Unopened, Unanswered, AsksGoal
  <2>4. wire' = wire
    BY <1>0
  <2> QED BY <1>3, <2>1, <2>2, <2>3, <2>4, PiDues, PiCounts
<1> HIDE DEF p
<1>4. CASE Pi!AgentBegins
  <2>1. /\ \/ agent.works /\ agent' = agent
           \/ /\ ~ agent.works /\ agent.accepted > 0
              /\ agent' = [agent EXCEPT !.accepted = agent.accepted - 1, !.works = TRUE]
        /\ turn' = [turn EXCEPT !.active = TRUE]
        /\ IF turn.active THEN UNCHANGED <<events, exited, history>> ELSE Emit(Signal("TurnStarted"))
    BY <1>4 DEF Pi!AgentBegins, Pi!AnnounceOnce
  <2>2. /\ agent' \in Agents /\ agent'.works /\ agent'.log = agent.log /\ agent'.alive = agent.alive
        /\ agent'.goal = agent.goal
        /\ \/ agent.works /\ agent'.accepted = agent.accepted
           \/ ~ agent.works /\ agent.accepted > 0 /\ agent'.accepted = agent.accepted - 1
    <3>1. CASE agent.works
      BY <1>1, <2>1, <3>1
    <3>2. CASE ~ agent.works
      <4>1. agent.accepted - 1 \in Nat
        BY <1>1, <2>1, <3>2
      <4> QED BY <1>1, <2>1, <3>2, <4>1 DEF Agents
    <3> QED BY <3>1, <3>2
  <2>3. CASE turn.active
    <3>1. /\ Shaped' /\ PiOwn' /\ Leaves /\ exited' = exited /\ events' = events
      BY <1>2, <1>3, <2>1, <2>2, <2>3 DEF Shaped, Told
    <3>2. Told'
      BY <3>1 DEF Shaped
    <3>3. StartsDue' <= StartsDue /\ FinishesDue' <= FinishesDue
      <4>1. CASE agent.works
        <5>1. Works' = Works /\ agent'.accepted = agent.accepted
          BY <2>2, <4>1 DEF Works
        <5>2. /\ StartsDue = agent.accepted + p + Requesting
              /\ StartsDue' = agent'.accepted + p + Requesting
              /\ FinishesDue = agent.accepted + p + Works + 2 * Requesting + Requested + Unopened
              /\ FinishesDue' = agent'.accepted + p + Works' + 2 * Requesting + Requested + Unopened
              /\ StartsDue \in Nat /\ FinishesDue \in Nat
          BY <1>2, <1>3, <2>1, <2>2, <3>1, <3>2
        <5>3. StartsDue' = StartsDue /\ FinishesDue' = FinishesDue
          BY ONLY <5>1, <5>2
        <5>4. \A x \in Nat : x <= x
          OBVIOUS
        <5> QED BY ONLY <5>2, <5>3, <5>4
      <4>2. CASE ~ agent.works
        <5>1. Works' = 1 /\ Works = 0 /\ agent'.accepted = agent.accepted - 1
          BY <2>2, <4>2 DEF Works
        <5>2. \A a, k, r, s, u \in Nat : /\ (a - 1) + k + r <= a + k + r
                                         /\ (a - 1) + k + 1 + 2 * r + s + u <= a + k + 0 + 2 * r + s + u
          OBVIOUS
        <5>3. /\ Requesting \in Nat /\ Requested \in Nat /\ Unopened \in Nat
              /\ StartsDue = agent.accepted + p + Requesting
              /\ StartsDue' = (agent.accepted - 1) + p + Requesting
              /\ FinishesDue = agent.accepted + p + 0 + 2 * Requesting + Requested + Unopened
              /\ FinishesDue' = (agent.accepted - 1) + p + 1 + 2 * Requesting + Requested + Unopened
          BY <1>2, <1>3, <2>1, <2>2, <3>1, <3>2, <5>1
        <5> QED BY ONLY <1>1, <5>2, <5>3
      <4> QED BY <4>1, <4>2
    <3>4. /\ StartsDue \in Nat /\ StartsDue' \in Nat /\ FinishesDue \in Nat /\ FinishesDue' \in Nat
          /\ Steering' = Steering /\ Pursues' = Pursues
      BY <1>2, <1>3, <2>1, <2>2, <3>1, <3>2
    <3>5. AtMost(StartsDue, FinishesDue)
      BY <3>3, <3>4 DEF AtMost
    <3> QED BY <1>0, <3>1, <3>4, <3>5, Forgoes
  <2>4. CASE ~ turn.active
    <3>0. ~ agent.works
      BY <1>1, <2>4 DEF PiOwn
    <3>1. Told' /\ events' = Append(events, Signal("TurnStarted")) /\ exited' = exited
      BY <2>1, <2>4, EventsMade, EmitTells DEF Shaped
    <3>2. Works' = 1 /\ Works = 0 /\ agent'.accepted = agent.accepted - 1 /\ agent.accepted > 0
      BY <2>2, <3>0 DEF Works
    <3>3. /\ Requesting \in Nat /\ Requested \in Nat /\ Unopened \in Nat
          /\ StartsDue = agent.accepted + p + Requesting
          /\ StartsDue' = (agent.accepted - 1) + p + Requesting
          /\ FinishesDue = agent.accepted + p + 0 + 2 * Requesting + Requested + Unopened
          /\ FinishesDue' = (agent.accepted - 1) + p + 1 + 2 * Requesting + Requested + Unopened
          /\ Shaped' /\ PiOwn' /\ Leaves /\ Steering' = Steering /\ Pursues' = Pursues
          /\ StartsDue \in Nat /\ FinishesDue \in Nat
      BY <1>2, <1>3, <2>1, <2>2, <3>1, <3>2
    <3>4. \A a, k, r, s, u \in Nat : a > 0 =>
            /\ (a - 1) + k + r = (a + k + r) - 1 /\ a + k + r # 0
            /\ (a - 1) + k + 1 + 2 * r + s + u = a + k + 0 + 2 * r + s + u
      OBVIOUS
    <3>5. StartsDue # 0 /\ StartsDue' = StartsDue - 1 /\ FinishesDue' = FinishesDue
      BY ONLY <1>1, <3>2, <3>3, <3>4
    <3> QED BY <1>0, <3>1, <3>3, <3>5, Announces DEF AtMost
  <2> QED BY <2>3, <2>4
<1>5. CASE Pi!AgentEnds
  <2>1. /\ agent.works /\ agent' = [agent EXCEPT !.works = FALSE]
        /\ turn' = [turn EXCEPT !.active = FALSE]
    BY <1>5 DEF Pi!AgentEnds
  <2>2. PICK ok \in BOOLEAN : Emit(TurnFinished(ok))
    BY <1>1, <1>5, <2>1 DEF Pi!AgentEnds, PiOwn
  <2>3. Told' /\ events' = Append(events, TurnFinished(ok)) /\ exited' = exited
    BY <2>2, EventsMade, EmitTells DEF Shaped
  <2>4. /\ agent' \in Agents /\ ~ agent'.works /\ agent'.log = agent.log /\ agent'.alive = agent.alive
        /\ agent'.goal = agent.goal /\ agent'.accepted = agent.accepted
    BY <1>1, <2>1 DEF Agents
  <2>5. Works' = 0 /\ Works = 1
    BY <2>1, <2>4 DEF Works
  <2>6. /\ Requesting \in Nat /\ Requested \in Nat /\ Unopened \in Nat
        /\ StartsDue' = StartsDue
        /\ FinishesDue = agent.accepted + p + 1 + 2 * Requesting + Requested + Unopened
        /\ FinishesDue' = agent.accepted + p + 0 + 2 * Requesting + Requested + Unopened
        /\ Shaped' /\ PiOwn' /\ Leaves /\ Steering' = Steering /\ Pursues' = Pursues
        /\ StartsDue \in Nat /\ FinishesDue \in Nat
    BY <1>2, <1>3, <2>1, <2>3, <2>4, <2>5
  <2>7. \A a, k, r, s, u \in Nat :
          /\ a + k + 0 + 2 * r + s + u = (a + k + 1 + 2 * r + s + u) - 1
          /\ a + k + 1 + 2 * r + s + u # 0
    OBVIOUS
  <2>8. FinishesDue # 0 /\ FinishesDue' = FinishesDue - 1
    BY ONLY <1>1, <2>6, <2>7
  <2> QED BY <1>0, <2>2, <2>3, <2>6, <2>8, Finishes DEF AtMost
<1> QED BY <1>4, <1>5

-----------------------------------------------------------------------------
(* The event log of a DeepSeek session *)

\* The entries of a kind after the k-th.
Later(log, k, entry) == {n \in 1..Len(log) : n > k /\ log[n] = entry}

\* They are finitely many.
LEMMA LaterCounted ==
  ASSUME NEW log \in Seq(Entries), NEW k, NEW entry
  PROVE  IsFiniteSet(Later(log, k, entry)) /\ Cardinality(Later(log, k, entry)) \in Nat
<1>1. Len(log) \in Nat
  BY LenProperties
<1>2. IsFiniteSet(1..Len(log)) /\ Later(log, k, entry) \in SUBSET (1..Len(log))
  BY <1>1, FS_Interval DEF Later
<1> QED BY <1>2, FS_Subset, FS_CardinalityType

\* A new entry comes after all the worker has seen.
LEMMA LaterGrows ==
  ASSUME NEW log \in Seq(Entries), NEW k \in 0..Len(log), NEW entry, NEW x \in Entries
  PROVE  /\ Append(log, x) \in Seq(Entries) /\ Len(Append(log, x)) = Len(log) + 1 /\ Len(log) \in Nat
         /\ \A n \in 1..Len(log) : Append(log, x)[n] = log[n]
         /\ Append(log, x)[Len(log) + 1] = x
         /\ Cardinality(Later(Append(log, x), k, entry))
              = Cardinality(Later(log, k, entry)) + (IF x = entry THEN 1 ELSE 0)
<1> DEFINE more == Append(log, x)
           len == Len(log)
<1>1. /\ more \in Seq(Entries) /\ Len(more) = len + 1 /\ len \in Nat
      /\ \A n \in 1..len : more[n] = log[n]
      /\ more[len + 1] = x
  BY AppendProperties, LenProperties
<1> HIDE DEF more
<1>2. k \in 0..len /\ k \in Nat /\ len + 1 > k
  BY <1>1
<1> HIDE DEF len
<1>3. /\ \A n \in 1..(len + 1) : n \in 1..len \/ n = len + 1
      /\ \A n \in 1..len : n \in 1..(len + 1)
      /\ len + 1 \in 1..(len + 1) /\ len + 1 \notin 1..len
  BY <1>1
<1>4. IsFiniteSet(Later(log, k, entry)) /\ Cardinality(Later(log, k, entry)) \in Nat
  BY LaterCounted
<1>5. CASE x = entry
  <2>1. Later(more, k, entry) = Later(log, k, entry) \cup {len + 1} /\ len + 1 \notin Later(log, k, entry)
    BY <1>1, <1>2, <1>3, <1>5 DEF Later, len
  <2>2. Cardinality(Later(more, k, entry)) = Cardinality(Later(log, k, entry)) + 1
    BY <1>4, <2>1, FS_AddElement
  <2> QED BY <1>1, <1>5, <2>2 DEF more, len
<1>6. CASE x # entry
  <2>1. Later(more, k, entry) = Later(log, k, entry)
    BY <1>1, <1>2, <1>3, <1>6 DEF Later, len
  <2>2. Cardinality(Later(more, k, entry)) = Cardinality(Later(log, k, entry)) + 0
    BY <1>4, <2>1
  <2> QED BY <1>1, <1>6, <2>2 DEF more, len
<1> QED BY <1>5, <1>6

\* Hearing an entry takes it off what is still to come, and what was missed before it.
LEMMA LaterHeard ==
  ASSUME NEW log \in Seq(Entries), NEW k \in Nat, NEW n \in 1..Len(log), n > k, NEW entry
  PROVE  Cardinality(Later(log, n, entry)) + (IF log[n] = entry THEN 1 ELSE 0)
           <= Cardinality(Later(log, k, entry))
<1>1. Len(log) \in Nat /\ n \in Nat
  BY LenProperties
<1>2. /\ IsFiniteSet(Later(log, k, entry)) /\ Cardinality(Later(log, k, entry)) \in Nat
      /\ IsFiniteSet(Later(log, n, entry)) /\ Cardinality(Later(log, n, entry)) \in Nat
  BY LaterCounted
<1>3. CASE log[n] = entry
  <2> DEFINE T == Later(log, n, entry) \cup {n}
  <2>1. n \notin Later(log, n, entry) /\ T \in SUBSET Later(log, k, entry)
    BY <1>1, <1>3 DEF Later
  <2>2. Cardinality(T) = Cardinality(Later(log, n, entry)) + 1
    BY <1>2, <2>1, FS_AddElement
  <2>3. Cardinality(T) <= Cardinality(Later(log, k, entry))
    BY <1>2, <2>1, FS_Subset
  <2> QED BY <1>3, <2>2, <2>3
<1>4. CASE log[n] # entry
  <2>1. Later(log, n, entry) \in SUBSET Later(log, k, entry)
    BY <1>1 DEF Later
  <2>2. Cardinality(Later(log, n, entry)) <= Cardinality(Later(log, k, entry))
    BY <1>2, <2>1, FS_Subset
  <2> QED BY <1>2, <1>4, <2>2
<1> QED BY <1>3, <1>4

-----------------------------------------------------------------------------
(* DeepSeek *)

\* It is the same frame.
LEMMA DeepSeekFrame ==
  /\ \A call : DeepSeek!Take(call) <=> Take(call)
  /\ \A e : DeepSeek!Emit(e) <=> Emit(e)
  /\ DeepSeek!Silent <=> UNCHANGED <<events, exited, history>>
  /\ DeepSeek!Written <=> wire' = Append(wire, server.call)
  /\ DeepSeek!Free = Free /\ DeepSeek!Stopped = Stopped /\ DeepSeek!Idle = Idle
  /\ DeepSeek!Cancel = Cancel /\ DeepSeek!Goal = Goal
  /\ \A place, call : DeepSeek!At(place, call) = At(place, call)
  /\ \A x : /\ DeepSeek!Signal(x) = Signal(x) /\ DeepSeek!TurnFinished(x) = TurnFinished(x)
            /\ DeepSeek!SteerAccepted(x) = SteerAccepted(x) /\ DeepSeek!SteerRejected(x) = SteerRejected(x)
            /\ DeepSeek!Ended(x) = Ended(x) /\ DeepSeek!Finishing(x) = Finishing(x)
            /\ DeepSeek!Says(x) <=> Says(x)
<1>1. ASSUME NEW call  PROVE DeepSeek!Take(call) <=> Take(call)
  BY DEF DeepSeek!Take, Take, DeepSeek!Occupied, Occupied, DeepSeek!Says, Says, DeepSeek!Range, Range, DeepSeek!Free, Free
<1>2. ASSUME NEW e  PROVE DeepSeek!Emit(e) <=> Emit(e)
  BY DEF DeepSeek!Emit, Emit
<1>3. \A place, call : DeepSeek!At(place, call) = At(place, call)
  BY DEF DeepSeek!At, At
<1>4. \A x : DeepSeek!Signal(x) = Signal(x) /\ DeepSeek!TurnFinished(x) = TurnFinished(x)
  BY DEF DeepSeek!Signal, Signal, DeepSeek!TurnFinished, TurnFinished
<1>5. \A x : DeepSeek!SteerAccepted(x) = SteerAccepted(x) /\ DeepSeek!SteerRejected(x) = SteerRejected(x)
  BY DEF DeepSeek!SteerAccepted, SteerAccepted, DeepSeek!SteerRejected, SteerRejected
<1>6. \A x : DeepSeek!Ended(x) = Ended(x) /\ DeepSeek!Finishing(x) = Finishing(x)
  BY DEF DeepSeek!Ended, Ended, DeepSeek!Finishing, Finishing
<1>7. \A x : DeepSeek!Says(x) <=> Says(x)
  BY DEF DeepSeek!Says, Says
<1>8. /\ DeepSeek!Free = Free /\ DeepSeek!Stopped = Stopped /\ DeepSeek!Idle = Idle
      /\ DeepSeek!Cancel = Cancel /\ DeepSeek!Goal = Goal
  BY DEF DeepSeek!Free, Free, DeepSeek!Stopped, Stopped, DeepSeek!Idle, Idle, DeepSeek!Cancel, Cancel, DeepSeek!Goal, Goal
<1>9. DeepSeek!Silent <=> UNCHANGED <<events, exited, history>>
  BY DEF DeepSeek!Silent
<1>10. DeepSeek!Written <=> wire' = Append(wire, server.call)
  BY DEF DeepSeek!Written
<1> QED BY <1>1, <1>2, <1>3, <1>4, <1>5, <1>6, <1>7, <1>8, <1>9, <1>10

\* What happens to a driver whose worker handles envelopes: no exit is told
\* before the process is gone, and what the worker knows is in the log.
Mortal == exited => ~ agent.alive
Bounded ==
  /\ turn.seen \in 0..Len(agent.log)
  /\ reader.at = "replaying" => reader.upto \in 1..Len(agent.log)

\* An envelope is about an entry of the log, or about the end of the process.
Numbered ==
  \A i \in 1..Len(turn.stream) :
    /\ turn.stream[i].what = "event" => turn.stream[i].seq \in 1..Len(agent.log)
    /\ turn.stream[i].what = "subscribed" => turn.stream[i].seq <= Len(agent.log)
    /\ turn.stream[i].what = "gone" => ~ agent.alive

DeepSeekOwn ==
  /\ Mortal /\ Bounded /\ Numbered
  /\ server.at = "announcing" => server.call.call = "prompt"
  /\ exited => server.at = "stopped"
  /\ reader.at = "leaving" => server.at = "free" /\ ~ exited /\ ~ agent.alive
  /\ reader.at \in {"leaving", "replaying"} => turn.open
  /\ ~ turn.open /\ agent.works =>
       \E n \in 1..Len(agent.log) : n > turn.seen /\ agent.log[n] = "start"

\* What else a step of the DeepSeek driver leaves alone.
Carries ==
  /\ agent'.goal = agent.goal /\ turn'.requests = turn.requests
  /\ calls' = calls \/ (calls # << >> /\ calls' = Tail(calls))

\* What is due of the DeepSeek driver.
StartsUnseen == Cardinality(Later(agent.log, turn.seen, "start"))
EndsUnseen == Cardinality(Later(agent.log, turn.seen, "end"))
Greets == IF server.at \in {"greeting", "announcing"} THEN 1 ELSE 0
Sending ==
  IF server.at = "announcing" \/ (server.at = "writing" /\ server.call.call = "prompt") THEN 1 ELSE 0
Settles == IF server.at \in {"failed", "finishing"} THEN 1 ELSE 0
Answering == IF server.at = "writing" /\ server.call.call = "steer" THEN {server.call.message} ELSE {}

\* What is due of the DeepSeek driver, in terms of its worker and the log.
LEMMA DeepSeekDues ==
  ASSUME Shaped, Shaped', IsDeepSeek, kind' = kind
  PROVE  /\ StartsDue = StartsUnseen + agent.accepted + Greets + Sending
         /\ StartsDue' = StartsUnseen' + agent'.accepted + Greets' + Sending'
         /\ FinishesDue = EndsUnseen + agent.accepted + Works + 2 * Sending + Settles
         /\ FinishesDue' = EndsUnseen' + agent'.accepted + Works' + 2 * Sending' + Settles'
         /\ Steering = Answering /\ Steering' = Answering'
         /\ Pursues = FALSE /\ Pursues' = FALSE
         /\ {StartsUnseen, StartsUnseen', EndsUnseen, EndsUnseen', agent.accepted, agent'.accepted,
             Greets, Greets', Sending, Sending', Settles, Settles', Works, Works'} \subseteq Nat
         /\ {StartsDue, StartsDue', FinishesDue, FinishesDue'} \subseteq Nat
<1>1. /\ StartsDue = DeepSeek!StartsDue /\ StartsDue' = DeepSeek!StartsDue'
      /\ FinishesDue = DeepSeek!FinishesDue /\ FinishesDue' = DeepSeek!FinishesDue'
      /\ Steering = DeepSeek!Steering /\ Steering' = DeepSeek!Steering'
      /\ Pursues = FALSE /\ Pursues' = FALSE
  BY DEF StartsDue, FinishesDue, Steering, Pursues, HasFlag, IsAcp, IsCodex, IsPi, IsDeepSeek
<1>2. agent.log \in Seq(Entries) /\ agent'.log \in Seq(Entries)
  BY DEF Shaped, Agents
<1>3. DOMAIN agent.log = 1..Len(agent.log) /\ DOMAIN agent'.log = 1..Len(agent'.log)
  BY <1>2, LenProperties
<1>4. /\ StartsUnseen \in Nat /\ StartsUnseen' \in Nat /\ EndsUnseen \in Nat /\ EndsUnseen' \in Nat
  BY <1>2, LaterCounted DEF StartsUnseen, EndsUnseen
<1>5. /\ agent.accepted \in Nat /\ agent'.accepted \in Nat
  BY DEF Shaped, Agents
<1>6. /\ Greets \in Nat /\ Greets' \in Nat /\ Sending \in Nat /\ Sending' \in Nat
      /\ Settles \in Nat /\ Settles' \in Nat /\ Works \in Nat /\ Works' \in Nat
  BY DEF Greets, Sending, Settles, Works
<1>7. /\ DeepSeek!Unseen("start") = StartsUnseen /\ DeepSeek!Unseen("end") = EndsUnseen
  <2>1. \A S : DeepSeek!Cardinality(S) = Cardinality(S)
    BY DEF DeepSeek!Cardinality, Cardinality
  <2> QED BY <1>3, <2>1 DEF DeepSeek!Unseen, StartsUnseen, EndsUnseen, Later
<1>8. /\ DeepSeek!Unseen("start")' = StartsUnseen' /\ DeepSeek!Unseen("end")' = EndsUnseen'
  <2>1. \A S : DeepSeek!Cardinality(S) = Cardinality(S)
    BY DEF DeepSeek!Cardinality, Cardinality
  <2> QED BY <1>3, <2>1 DEF DeepSeek!Unseen, StartsUnseen, EndsUnseen, Later
<1>9. DeepSeek!StartsDue = StartsUnseen + agent.accepted + Greets + Sending
  BY <1>7 DEF DeepSeek!StartsDue, DeepSeek!Prompting, Greets, Sending
<1>10. DeepSeek!StartsDue' = StartsUnseen' + agent'.accepted + Greets' + Sending'
  BY <1>8 DEF DeepSeek!StartsDue, DeepSeek!Prompting, Greets, Sending
<1>11. DeepSeek!FinishesDue = EndsUnseen + agent.accepted + Works + 2 * Sending + Settles
  <2>1. (IF server.at = "announcing" \/ DeepSeek!Prompting THEN 2 ELSE 0) = 2 * Sending
    BY DEF DeepSeek!Prompting, Sending
  <2> QED BY <1>7, <2>1 DEF DeepSeek!FinishesDue, Settles, Works
<1>12. DeepSeek!FinishesDue' = EndsUnseen' + agent'.accepted + Works' + 2 * Sending' + Settles'
  <2>1. (IF server'.at = "announcing" \/ DeepSeek!Prompting' THEN 2 ELSE 0) = 2 * Sending'
    BY DEF DeepSeek!Prompting, Sending
  <2> QED BY <1>8, <2>1 DEF DeepSeek!FinishesDue, Settles, Works
<1>13. DeepSeek!Steering = Answering /\ DeepSeek!Steering' = Answering'
  BY DEF DeepSeek!Steering, DeepSeek!SteeringAt, Answering
<1>14. StartsDue \in Nat /\ StartsDue' \in Nat
  BY <1>1, <1>4, <1>5, <1>6, <1>9, <1>10
<1>15. FinishesDue \in Nat /\ FinishesDue' \in Nat
  BY <1>1, <1>4, <1>5, <1>6, <1>11, <1>12
<1> QED BY <1>1, <1>4, <1>5, <1>6, <1>9, <1>10, <1>11, <1>12, <1>13, <1>14, <1>15

\* A step of the worker that serves a call keeps what is known of the log.
LEMMA DeepSeekServing ==
  ASSUME DeepSeekOwn, exited' = exited, reader' = reader, reader.at # "leaving", server.at # "stopped",
         agent'.log = agent.log, agent'.alive = agent.alive, agent'.works = agent.works,
         turn'.seen = turn.seen, turn'.stream = turn.stream, turn'.open = turn.open,
         server'.at = "announcing" => server'.call.call = "prompt"
  PROVE  DeepSeekOwn'
BY DEF DeepSeekOwn, Mortal, Bounded, Numbered

\* A call is taken.
LEMMA DeepSeekTakes ==
  ASSUME Shaped, IsDeepSeek, DeepSeekOwn, UNCHANGED <<kind, unsaid>>,
         DeepSeek!TakePrompt \/ DeepSeek!TakeOther
  PROVE  Shaped' /\ DeepSeekOwn' /\ Carries /\ Contract!StreamNext
<1> USE DeepSeekFrame, ServersMade
<1> DEFINE h == Head(calls)
<1>1. PICK call \in {"prompt", "steer", "cancel"} :
        /\ turn.open /\ reader = Idle /\ Take(call) /\ UNCHANGED <<wire, agent, reader>>
        /\ \/ /\ call = "prompt" /\ turn' = [turn EXCEPT !.active = TRUE]
              /\ server' = At("writing", h) \/ server' = At("announcing", h)
           \/ call # "prompt" /\ turn' = turn /\ server' = At("writing", h)
  BY DEF DeepSeek!TakePrompt, DeepSeek!TakeOther, DeepSeek!TakeCall
<1>2. /\ Told' /\ events' = events /\ exited' = exited
      /\ calls # << >> /\ h \in Calls /\ h.call = call
      /\ calls' = Tail(calls) /\ calls' \in Seq(Calls) /\ server = Free
  BY <1>1, TakeTells DEF Shaped
<1> HIDE DEF h
<1>3. /\ turn' \in TurnRecords /\ turn'.seen = turn.seen /\ turn'.stream = turn.stream
      /\ turn'.open = turn.open /\ turn'.requests = turn.requests
  <2>1. CASE turn' = [turn EXCEPT !.active = TRUE]
    BY <2>1 DEF Shaped, TurnRecords
  <2>2. CASE turn' = turn
    BY <2>2 DEF Shaped
  <2> QED BY <1>1, <2>1, <2>2
<1>4. /\ server' \in Servers /\ server'.at \in {"writing", "announcing"} /\ server'.call = h /\ server.at = "free"
      /\ server'.at = "announcing" => call = "prompt"
  <2>1. "writing" \in Places /\ "announcing" \in Places
    BY DEF Places
  <2>2. CASE server' = At("writing", h)
    BY <1>2, <2>1, <2>2
  <2>3. CASE server' = At("announcing", h)
    <3>1. server'.at = "announcing" /\ "announcing" # "writing"
      BY <1>2, <2>1, <2>3
    <3>2. At("announcing", h) # At("writing", h)
      BY <1>2, <2>1
    <3> QED BY <1>1, <1>2, <2>1, <2>3, <3>1, <3>2
  <2> QED BY <1>1, <2>2, <2>3
<1>5. Shaped' /\ Carries
  BY <1>1, <1>2, <1>3, <1>4 DEF Shaped, Carries
<1>6. DeepSeekOwn'
  <2>1. reader.at # "leaving"
    BY <1>1, ReadersMade
  <2> QED BY <1>1, <1>2, <1>3, <1>4, <2>1, DeepSeekServing
<1>7. /\ Greets = 0 /\ Sending = 0 /\ Settles = 0 /\ Settles' = 0 /\ Answering = {}
      /\ Sending' = (IF call = "prompt" THEN 1 ELSE 0) /\ Greets' <= Sending' /\ Greets' \in Nat
      /\ Answering' = (IF call = "steer" THEN {h.message} ELSE {})
      /\ StartsUnseen' = StartsUnseen /\ EndsUnseen' = EndsUnseen /\ Works' = Works
  BY <1>1, <1>2, <1>3, <1>4 DEF Greets, Sending, Settles, Answering, StartsUnseen, EndsUnseen, Works
<1>8. /\ StartsDue = StartsUnseen + agent.accepted + Greets + Sending
      /\ StartsDue' = StartsUnseen + agent.accepted + Greets' + Sending'
      /\ FinishesDue = EndsUnseen + agent.accepted + Works + 2 * Sending + Settles
      /\ FinishesDue' = EndsUnseen + agent.accepted + Works + 2 * Sending' + Settles'
      /\ {StartsUnseen, EndsUnseen, agent.accepted, Works} \subseteq Nat
      /\ StartsDue \in Nat /\ StartsDue' \in Nat /\ FinishesDue \in Nat /\ FinishesDue' \in Nat
      /\ Steering = Answering /\ Steering' = Answering' /\ Pursues' = Pursues
  BY <1>1, <1>5, <1>7, DeepSeekDues
<1>9. CASE call = "prompt"
  <2>1. AtMost(StartsDue + 2, FinishesDue + 2)
    <3>1. Sending' = 1 /\ Greets' \in {0, 1}
      BY <1>7, <1>9
    <3>2. StartsDue' <= StartsDue + 2 /\ FinishesDue' <= FinishesDue + 2
      BY ONLY <1>7, <1>8, <3>1
    <3> QED BY <1>8, <3>2 DEF AtMost
  <2>2. Steering' = Steering
    BY <1>7, <1>8, <1>9
  <2> QED BY <1>2, <1>5, <1>6, <1>8, <1>9, <2>1, <2>2, TakesPrompt DEF h
<1>10. CASE call # "prompt"
  <2>1. StartsDue' = StartsDue /\ FinishesDue' = FinishesDue
    <3>1. Sending' = 0 /\ Greets' = 0
      BY <1>7, <1>10
    <3> QED BY ONLY <1>7, <1>8, <3>1
  <2>2. Steering' = Steering \cup (IF call = "steer" THEN {h.message} ELSE {})
    BY <1>7, <1>8
  <2>3. CASE call = "steer"
    BY <1>2, <1>5, <1>6, <1>8, <2>1, <2>2, <2>3, TakesSteer DEF h
  <2>4. CASE call = "cancel"
    BY <1>2, <1>5, <1>6, <1>8, <2>1, <2>2, <2>4, TakesCancel DEF h
  <2> QED BY <1>10, <2>3, <2>4
<1> QED BY <1>9, <1>10

\* The session's stream is subscribed; what the log holds by then is not told.
LEMMA DeepSeekConnects ==
  ASSUME Shaped, IsDeepSeek, DeepSeekOwn, UNCHANGED <<kind, unsaid>>, DeepSeek!Connect
  PROVE  Shaped' /\ DeepSeekOwn' /\ Carries /\ Contract!StreamNext
<1> USE DeepSeekFrame, ServersMade
<1> DEFINE len == Len(agent.log)
<1>1. /\ server = Free /\ ~ turn.open /\ UNCHANGED <<calls, events, exited, history, wire, agent, reader>>
      /\ turn' = [turn EXCEPT !.open = TRUE, !.seen = len, !.active = agent.works]
      /\ server' = IF agent.works THEN [at |-> "greeting"] ELSE Free
  BY DEF DeepSeek!Connect
<1>2. agent.log \in Seq(Entries) /\ len \in Nat /\ agent.works \in BOOLEAN
  BY LenProperties DEF Shaped, Agents
<1> HIDE DEF len
<1>3. /\ turn' \in TurnRecords /\ turn'.seen = len /\ turn'.stream = turn.stream
      /\ turn'.open /\ turn'.requests = turn.requests
  BY <1>1, <1>2 DEF Shaped, TurnRecords
<1>4. /\ server' \in Servers /\ server'.at = IF agent.works THEN "greeting" ELSE "free"
  <2>1. CASE agent.works
    BY <1>1, <2>1
  <2>2. CASE ~ agent.works
    BY <1>1, <2>2
  <2> QED BY <2>1, <2>2
<1>5. Shaped' /\ Carries
  BY <1>1, <1>3, <1>4 DEF Shaped, Told, Carries
<1>6. DeepSeekOwn'
  <2>1. server.at = "free" /\ reader.at # "leaving" /\ ~ exited
    BY <1>1 DEF DeepSeekOwn
  <2>2. len \in 0..Len(agent.log)
    BY <1>2 DEF len
  <2> QED BY <1>1, <1>3, <1>4, <2>1, <2>2 DEF DeepSeekOwn, Mortal, Bounded, Numbered
<1>7. StartsUnseen' = 0 /\ EndsUnseen' = 0
  <2>1. ASSUME NEW entry  PROVE Later(agent.log, len, entry) = {}
    BY <1>2 DEF Later, len
  <2>2. StartsUnseen' = Cardinality(Later(agent.log, len, "start")) /\ EndsUnseen' = Cardinality(Later(agent.log, len, "end"))
    BY <1>1, <1>3 DEF StartsUnseen, EndsUnseen
  <2> QED BY <2>1, <2>2, FS_EmptySet
<1>8. StartsUnseen \in Nat /\ Works <= StartsUnseen /\ Works \in Nat /\ Works' = Works
  <2>1. StartsUnseen \in Nat /\ IsFiniteSet(Later(agent.log, turn.seen, "start"))
    BY <1>2, LaterCounted DEF StartsUnseen
  <2>2. CASE agent.works
    <3>1. PICK n \in 1..Len(agent.log) : n > turn.seen /\ agent.log[n] = "start"
      BY <1>1, <2>2 DEF DeepSeekOwn
    <3>2. n \in Later(agent.log, turn.seen, "start")
      BY <3>1 DEF Later
    <3>3. StartsUnseen # 0
      BY <2>1, <3>2, FS_EmptySet DEF StartsUnseen
    <3> QED BY <1>1, <2>1, <2>2, <3>3 DEF Works
  <2>3. CASE ~ agent.works
    BY <1>1, <2>1, <2>3 DEF Works
  <2> QED BY <2>2, <2>3
<1>9. /\ Greets = 0 /\ Sending = 0 /\ Settles = 0 /\ Sending' = 0 /\ Settles' = 0 /\ Greets' = Works
      /\ Answering = {} /\ Answering' = {}
  BY <1>1, <1>4 DEF Greets, Sending, Settles, Answering, Works
<1>10. /\ StartsDue = StartsUnseen + agent.accepted + Greets + Sending
       /\ StartsDue' = StartsUnseen' + agent.accepted + Greets' + Sending'
       /\ FinishesDue = EndsUnseen + agent.accepted + Works + 2 * Sending + Settles
       /\ FinishesDue' = EndsUnseen' + agent.accepted + Works' + 2 * Sending' + Settles'
       /\ {EndsUnseen, agent.accepted} \subseteq Nat
       /\ StartsDue \in Nat /\ StartsDue' \in Nat /\ FinishesDue \in Nat /\ FinishesDue' \in Nat
       /\ Steering = Answering /\ Steering' = Answering' /\ Pursues' = Pursues
  BY <1>1, <1>5, DeepSeekDues
<1>11. StartsDue' <= StartsDue /\ FinishesDue' <= FinishesDue
  BY ONLY <1>7, <1>8, <1>9, <1>10
<1>12. AtMost(StartsDue, FinishesDue)
  BY <1>10, <1>11 DEF AtMost
<1>13. Steering' \subseteq Steering
  BY <1>9, <1>10
<1> QED BY <1>1, <1>5, <1>6, <1>10, <1>12, <1>13, Forgoes

\* The harness puts a prompt in its queue.
LEMMA Queues ==
  ASSUME NEW x \in Agents
  PROVE  LET queued == [x EXCEPT !.accepted = x.accepted + 1]
         IN  /\ x \in Agents /\ queued \in Agents /\ x.accepted \in Nat /\ queued.accepted = x.accepted + 1
             /\ queued.log = x.log /\ queued.alive = x.alive /\ queued.works = x.works
             /\ queued.goal = x.goal
<1>1. x.accepted \in Nat /\ x.accepted + 1 \in Nat
  BY DEF Agents
<1> QED BY <1>1 DEF Agents

\* A prompt is given to the harness, or is not.
LEMMA DeepSeekSends ==
  ASSUME Shaped, IsDeepSeek, DeepSeekOwn, UNCHANGED <<kind, unsaid>>,
         \/ DeepSeek!SendPrompt \/ DeepSeek!PromptFails \/ DeepSeek!Execute
         \/ DeepSeek!CancelTurn /\ UNCHANGED <<events, exited, history>>
  PROVE  Shaped' /\ DeepSeekOwn' /\ Carries /\ Contract!StreamNext
<1> USE DeepSeekFrame, ServersMade
<1> DEFINE c == server.call
           queued == [agent EXCEPT !.accepted = agent.accepted + 1]
           ended == [turn EXCEPT !.active = FALSE]
<1>1. /\ server.at = "writing" /\ UNCHANGED <<calls, events, exited, history, wire, reader>>
      /\ \/ /\ c.call = "prompt" /\ agent' = queued /\ turn' = turn /\ server' = Free
         \/ /\ c.call = "prompt" /\ agent' \in {agent, queued} /\ turn' = ended
            /\ server' = At("failed", c)
         \/ /\ c.call = "prompt" /\ agent' = agent /\ turn' = ended /\ server' = At("finishing", c)
         \/ /\ c = Cancel /\ agent' = agent /\ turn' = turn /\ server' = Free
  BY DEF DeepSeek!SendPrompt, DeepSeek!PromptFails, DeepSeek!Execute, DeepSeek!CancelTurn,
         DeepSeek!Prompting, DeepSeek!Queued
<1>2. c \in Calls
  BY <1>1, ServerShapes DEF Shaped, Places
<1>3. /\ agent \in Agents /\ queued \in Agents /\ agent.accepted \in Nat /\ queued.accepted = agent.accepted + 1
      /\ queued.log = agent.log /\ queued.alive = agent.alive /\ queued.works = agent.works
      /\ queued.goal = agent.goal
  <2>1. agent \in Agents
    BY DEF Shaped
  <2> QED BY ONLY <2>1, Queues
<1>4. /\ turn \in TurnRecords /\ ended \in TurnRecords /\ ended.seen = turn.seen
      /\ ended.stream = turn.stream /\ ended.open = turn.open /\ ended.requests = turn.requests
  BY DEF Shaped, TurnRecords
<1> HIDE DEF c, queued, ended
<1>5. agent' \in {agent, queued} /\ turn' \in {turn, ended}
  BY <1>1
<1>6. /\ agent' \in Agents /\ agent'.accepted \in {agent.accepted, agent.accepted + 1}
      /\ agent'.log = agent.log /\ agent'.alive = agent.alive /\ agent'.works = agent.works
      /\ agent'.goal = agent.goal
  <2>1. CASE agent' = agent
    BY <1>3, <2>1
  <2>2. CASE agent' = queued
    BY <1>3, <2>2
  <2> QED BY <1>5, <2>1, <2>2
<1>7. /\ turn' \in TurnRecords /\ turn'.seen = turn.seen /\ turn'.stream = turn.stream
      /\ turn'.open = turn.open /\ turn'.requests = turn.requests
  <2>1. CASE turn' = turn
    BY <1>4, <2>1
  <2>2. CASE turn' = ended
    BY <1>4, <2>2
  <2> QED BY <1>5, <2>1, <2>2
<1>8. /\ server' \in Servers /\ server'.at \in {"free", "failed", "finishing"}
      /\ c.call = "prompt" => server'.at # "free" \/ agent'.accepted = agent.accepted + 1
      /\ server'.at = "finishing" => agent'.accepted = agent.accepted
      /\ c.call # "prompt" => server'.at = "free" /\ agent'.accepted = agent.accepted
      /\ c.call = "prompt" \/ c = Cancel
  <2>1. "failed" \in Places /\ "finishing" \in Places
    BY DEF Places
  <2>2. /\ At("failed", c) \in Servers /\ At("failed", c).at = "failed"
        /\ At("finishing", c) \in Servers /\ At("finishing", c).at = "finishing"
    BY <1>2, <2>1
  <2>3. CASE c.call = "prompt" /\ agent' = queued /\ server' = Free
    BY <1>3, <2>3
  <2>4. CASE c.call = "prompt" /\ server' = At("failed", c)
    BY <2>2, <2>4
  <2>5. CASE c.call = "prompt" /\ agent' = agent /\ server' = At("finishing", c)
    BY <2>2, <2>5
  <2>6. CASE c = Cancel /\ agent' = agent /\ server' = Free
    <3>1. c.call # "prompt"
      BY <2>6, CallsMade
    <3> QED BY <2>6, <3>1
  <2> QED BY <1>1, <2>3, <2>4, <2>5, <2>6
<1>9. Shaped' /\ Carries
  BY <1>1, <1>6, <1>7, <1>8 DEF Shaped, Told, Carries
<1>10. DeepSeekOwn'
  <2>1. reader.at # "leaving" /\ server'.at # "announcing"
    BY <1>1, <1>8 DEF DeepSeekOwn
  <2> QED BY <1>1, <1>6, <1>7, <2>1, DeepSeekServing
<1>11. StartsUnseen' = StartsUnseen /\ EndsUnseen' = EndsUnseen /\ Works' = Works
  BY <1>6, <1>7 DEF StartsUnseen, EndsUnseen, Works
<1>12. /\ Greets = 0 /\ Settles = 0 /\ Sending = (IF c.call = "prompt" THEN 1 ELSE 0) /\ Greets' = 0 /\ Sending' = 0
       /\ Settles' = (IF server'.at = "free" THEN 0 ELSE 1) /\ Answering' = {}
  BY <1>1, <1>8 DEF Greets, Sending, Settles, Answering, c
<1>13. /\ StartsDue = StartsUnseen + agent.accepted + Greets + Sending
       /\ StartsDue' = StartsUnseen + agent'.accepted + Greets' + Sending'
       /\ FinishesDue = EndsUnseen + agent.accepted + Works + 2 * Sending + Settles
       /\ FinishesDue' = EndsUnseen + agent'.accepted + Works + 2 * Sending' + Settles'
       /\ {StartsUnseen, EndsUnseen, agent.accepted, agent'.accepted, Works} \subseteq Nat
       /\ StartsDue \in Nat /\ StartsDue' \in Nat /\ FinishesDue \in Nat /\ FinishesDue' \in Nat
       /\ Steering' = Answering' /\ Pursues' = Pursues
  BY <1>1, <1>9, <1>11, DeepSeekDues
<1>14. StartsDue' <= StartsDue /\ FinishesDue' <= FinishesDue
  <2>1. CASE c.call = "prompt"
    <3>1. Sending = 1
      BY <1>12, <2>1
    <3>2. CASE agent'.accepted = agent.accepted
      <4>1. Settles' \in {0, 1}
        BY <1>12
      <4> QED BY ONLY <1>12, <1>13, <3>1, <3>2, <4>1
    <3>3. CASE agent'.accepted = agent.accepted + 1
      <4>1. Settles' \in {0, 1}
        BY <1>12
      <4> QED BY ONLY <1>12, <1>13, <3>1, <3>3, <4>1
    <3> QED BY <1>6, <3>2, <3>3
  <2>2. CASE c.call # "prompt"
    <3>1. Sending = 0 /\ Settles' = 0 /\ agent'.accepted = agent.accepted
      BY <1>8, <1>12, <2>2
    <3> QED BY ONLY <1>12, <1>13, <3>1
  <2> QED BY <2>1, <2>2
<1>15. AtMost(StartsDue, FinishesDue)
  BY <1>13, <1>14 DEF AtMost
<1>16. Steering' \subseteq Steering
  BY <1>12, <1>13
<1> QED BY <1>1, <1>9, <1>10, <1>13, <1>15, <1>16, Forgoes

\* The worker tells the client something on its own.
LEMMA DeepSeekTells ==
  ASSUME Shaped, IsDeepSeek, DeepSeekOwn, UNCHANGED <<kind, unsaid>>,
         \/ DeepSeek!Greet \/ DeepSeek!Announce \/ DeepSeek!Fail \/ DeepSeek!Finish
         \/ DeepSeek!CancelTurn /\ ~ UNCHANGED <<events, exited, history>>
  PROVE  Shaped' /\ DeepSeekOwn' /\ Carries /\ Contract!StreamNext
<1> USE DeepSeekFrame, ServersMade
<1> DEFINE c == server.call
<1>1. PICK e :
        /\ Emit(e) /\ UNCHANGED <<calls, wire, agent, turn, reader>>
        /\ \/ server.at = "greeting" /\ e = Signal("TurnStarted") /\ server' = Free
           \/ server.at = "announcing" /\ e = Signal("TurnStarted") /\ server' = At("writing", c)
           \/ server.at = "failed" /\ e = Signal("Error") /\ server' = At("finishing", c)
           \/ server.at = "writing" /\ c = Cancel /\ e = Signal("Error") /\ server' = Free
           \/ /\ server.at = "finishing" /\ \E ok \in BOOLEAN : e = TurnFinished(ok)
              /\ server' = Free
  <2>1. CASE DeepSeek!Finish
    <3>1. PICK ok \in BOOLEAN : DeepSeek!Tells("finishing", TurnFinished(ok), Free)
      BY <2>1 DEF DeepSeek!Finish
    <3>2. Emit(TurnFinished(ok)) /\ server.at = "finishing" /\ server' = Free
          /\ UNCHANGED <<calls, wire, agent, turn, reader>>
      BY <3>1 DEF DeepSeek!Tells
    <3> QED BY <3>2
  <2>2. CASE DeepSeek!Greet \/ DeepSeek!Announce \/ DeepSeek!Fail
    BY <2>2 DEF DeepSeek!Greet, DeepSeek!Announce, DeepSeek!Fail, DeepSeek!Tells
  <2>3. CASE DeepSeek!CancelTurn /\ ~ UNCHANGED <<events, exited, history>>
    BY <2>3 DEF DeepSeek!CancelTurn
  <2> QED BY <2>1, <2>2, <2>3
<1>2. server.at # "greeting" => c \in Calls
  BY <1>1, ServerShapes DEF Shaped, Places
<1>3. e \in Events /\ e.event # "ProcessExited"
  BY <1>1, EventsMade
<1>4. Told' /\ events' = Append(events, e) /\ exited' = exited
  BY <1>1, <1>3, EmitTells DEF Shaped
<1>5. /\ server' \in Servers /\ server'.at \in {"free", "writing", "finishing"}
      /\ server'.at # "free" => server'.call = c
      /\ server.at = "announcing" <=> server'.at = "writing"
      /\ server.at = "failed" <=> server'.at = "finishing"
  <2>1. "writing" \in Places /\ "finishing" \in Places
    BY DEF Places
  <2> QED BY <1>1, <1>2, <2>1
<1>6. Shaped' /\ Carries
  BY <1>1, <1>4, <1>5 DEF Shaped, Carries
<1>7. DeepSeekOwn'
  <2>1. reader.at # "leaving" /\ server'.at # "announcing" /\ server.at # "stopped"
    BY <1>1, <1>5 DEF DeepSeekOwn
  <2> QED BY <1>1, <1>4, <2>1, DeepSeekServing
<1>8. StartsUnseen' = StartsUnseen /\ EndsUnseen' = EndsUnseen /\ Works' = Works
  BY <1>1 DEF StartsUnseen, EndsUnseen, Works
<1>9. /\ StartsDue = StartsUnseen + agent.accepted + Greets + Sending
      /\ StartsDue' = StartsUnseen + agent.accepted + Greets' + Sending'
      /\ FinishesDue = EndsUnseen + agent.accepted + Works + 2 * Sending + Settles
      /\ FinishesDue' = EndsUnseen + agent.accepted + Works + 2 * Sending' + Settles'
      /\ {StartsUnseen, EndsUnseen, agent.accepted, Works} \subseteq Nat
      /\ StartsDue \in Nat /\ StartsDue' \in Nat /\ FinishesDue \in Nat /\ FinishesDue' \in Nat
      /\ Steering = Answering /\ Steering' = Answering' /\ Pursues' = Pursues
  BY <1>1, <1>6, <1>8, DeepSeekDues
<1>10. CASE server.at = "greeting" \/ server.at = "announcing"
  <2>1. e = Signal("TurnStarted")
    BY <1>1, <1>10
  <2>2. /\ Greets = 1 /\ Greets' = 0 /\ Settles = 0 /\ Settles' = 0 /\ Sending' = Sending
        /\ Sending \in Nat /\ Answering = {} /\ Answering' = {}
    BY <1>1, <1>5, <1>10 DEF Greets, Sending, Settles, Answering, DeepSeekOwn
  <2>3. StartsDue # 0 /\ StartsDue' = StartsDue - 1 /\ FinishesDue' = FinishesDue
    BY ONLY <1>9, <2>2
  <2>4. AtMost(StartsDue - 1, FinishesDue)
    BY <1>9, <2>3 DEF AtMost
  <2> QED BY <1>1, <1>4, <1>6, <1>7, <1>9, <2>1, <2>2, <2>3, <2>4, Announces
<1>11. CASE server.at = "failed" \/ server.at = "writing"
  <2>1. e = Signal("Error")
    BY <1>1, <1>11
  <2>2. /\ Greets' = Greets /\ Settles' = Settles /\ Sending' = 0 /\ Sending = 0
        /\ Answering = {} /\ Answering' = {}
    BY <1>1, <1>5, <1>11, CallsMade DEF Greets, Sending, Settles, Answering
  <2>3. StartsDue' = StartsDue /\ FinishesDue' = FinishesDue
    BY ONLY <1>9, <2>2
  <2>4. AtMost(StartsDue, FinishesDue)
    BY <1>9, <2>3 DEF AtMost
  <2> QED BY <1>1, <1>4, <1>6, <1>7, <1>9, <2>1, <2>2, <2>4, Chats
<1>12. CASE server.at = "finishing"
  <2>1. PICK ok \in BOOLEAN : e = TurnFinished(ok)
    BY <1>1, <1>12
  <2>2. /\ Greets' = 0 /\ Greets = 0 /\ Settles = 1 /\ Settles' = 0 /\ Sending' = 0 /\ Sending = 0
        /\ Answering = {} /\ Answering' = {}
    BY <1>1, <1>5, <1>12 DEF Greets, Sending, Settles, Answering
  <2>3. FinishesDue # 0 /\ StartsDue' = StartsDue /\ FinishesDue' = FinishesDue - 1
    BY ONLY <1>9, <2>2
  <2>4. AtMost(StartsDue, FinishesDue - 1)
    BY <1>9, <2>3 DEF AtMost
  <2> QED BY <1>1, <1>4, <1>6, <1>7, <1>9, <2>1, <2>2, <2>3, <2>4, Finishes
<1> QED BY <1>1, <1>10, <1>11, <1>12

\* A steer is answered; it may begin a turn.
LEMMA DeepSeekAnswers ==
  ASSUME Shaped, IsDeepSeek, DeepSeekOwn, UNCHANGED <<kind, unsaid>>, DeepSeek!AnswerSteer
  PROVE  Shaped' /\ DeepSeekOwn' /\ Carries /\ Contract!StreamNext
<1> USE DeepSeekFrame, ServersMade
<1> DEFINE m == server.call.message
           queued == [agent EXCEPT !.accepted = agent.accepted + 1]
<1>1. /\ server.at = "writing" /\ server.call.call = "steer" /\ agent' \in {agent, queued}
      /\ server' = Free /\ UNCHANGED <<calls, turn, wire, reader>>
      /\ Emit(SteerRejected(m)) \/ Emit(SteerAccepted(m))
  BY DEF DeepSeek!AnswerSteer, DeepSeek!Queued
<1>2. m \in Messages
  BY <1>1, ServerShapes, CallShapes DEF Shaped, Places
<1>3. /\ agent \in Agents /\ queued \in Agents /\ agent.accepted \in Nat /\ queued.accepted = agent.accepted + 1
      /\ queued.log = agent.log /\ queued.alive = agent.alive /\ queued.works = agent.works
      /\ queued.goal = agent.goal
  <2>1. agent \in Agents
    BY DEF Shaped
  <2> QED BY ONLY <2>1, Queues
<1> HIDE DEF m, queued
<1>4. PICK e \in {SteerAccepted(m), SteerRejected(m)} : Emit(e)
  BY <1>1
<1>5. e \in Events /\ e.event # "ProcessExited"
  BY <1>2, EventsMade
<1>6. Told' /\ events' = Append(events, e) /\ exited' = exited
  BY <1>4, <1>5, EmitTells DEF Shaped
<1>7. /\ agent' \in Agents /\ agent'.accepted \in {agent.accepted, agent.accepted + 1}
      /\ agent'.log = agent.log /\ agent'.alive = agent.alive /\ agent'.works = agent.works
      /\ agent'.goal = agent.goal
  <2>1. CASE agent' = agent
    BY <1>3, <2>1
  <2>2. CASE agent' = queued
    BY <1>3, <2>2
  <2> QED BY <1>1, <2>1, <2>2
<1>8. server'.at = "free" /\ Shaped' /\ Carries
  BY <1>1, <1>6, <1>7 DEF Shaped, Carries
<1>9. DeepSeekOwn'
  <2>1. reader.at # "leaving"
    BY <1>1 DEF DeepSeekOwn
  <2> QED BY <1>1, <1>6, <1>7, <1>8, <2>1, DeepSeekServing
<1>10. /\ StartsUnseen' = StartsUnseen /\ EndsUnseen' = EndsUnseen /\ Works' = Works
       /\ Greets = 0 /\ Greets' = 0 /\ Sending = 0 /\ Sending' = 0 /\ Settles = 0 /\ Settles' = 0
       /\ Answering = {m} /\ Answering' = {}
  BY <1>1, <1>7, <1>8 DEF StartsUnseen, EndsUnseen, Works, Greets, Sending, Settles, Answering, m
<1>11. /\ StartsDue = StartsUnseen + agent.accepted + Greets + Sending
       /\ StartsDue' = StartsUnseen + agent'.accepted + Greets' + Sending'
       /\ FinishesDue = EndsUnseen + agent.accepted + Works + 2 * Sending + Settles
       /\ FinishesDue' = EndsUnseen + agent'.accepted + Works + 2 * Sending' + Settles'
       /\ {StartsUnseen, EndsUnseen, agent.accepted, agent'.accepted, Works} \subseteq Nat
       /\ StartsDue \in Nat /\ StartsDue' \in Nat /\ FinishesDue \in Nat /\ FinishesDue' \in Nat
       /\ Steering = Answering /\ Steering' = Answering' /\ Pursues' = Pursues
  BY <1>1, <1>8, <1>10, DeepSeekDues
<1>12. StartsDue' <= StartsDue + 1 /\ FinishesDue' <= FinishesDue + 1
  <2>1. CASE agent'.accepted = agent.accepted
    BY ONLY <1>10, <1>11, <2>1
  <2>2. CASE agent'.accepted = agent.accepted + 1
    BY ONLY <1>10, <1>11, <2>2
  <2> QED BY <1>7, <2>1, <2>2
<1>13. AtMost(StartsDue + 1, FinishesDue + 1)
  BY <1>11, <1>12 DEF AtMost
<1>14. m \in Steering /\ Steering' = Steering \ {m}
  BY <1>10, <1>11
<1>15. events' = Append(events, SteerAccepted(m)) \/ events' = Append(events, SteerRejected(m))
  BY <1>6
<1> QED BY <1>1, <1>6, <1>8, <1>9, <1>11, <1>13, <1>14, <1>15, AnswersSteer

\* Envelopes are taken from the front, and put at the end.
LEMMA StreamShrinks ==
  ASSUME NEW s \in Seq(Envelopes), s # << >>
  PROVE  /\ Head(s) \in Envelopes /\ Tail(s) \in Seq(Envelopes) /\ 1 \in 1..Len(s) /\ Head(s) = s[1]
         /\ \A i \in 1..Len(Tail(s)) : \E j \in 1..Len(s) : Tail(s)[i] = s[j]
<1>1. /\ Head(s) \in Envelopes /\ Tail(s) \in Seq(Envelopes) /\ Head(s) = s[1]
      /\ Len(Tail(s)) = Len(s) - 1 /\ \A i \in 1..Len(Tail(s)) : Tail(s)[i] = s[i + 1]
  BY HeadTailProperties
<1>2. Len(s) \in Nat /\ Len(s) > 0
  BY EmptySeq, LenProperties
<1>3. \A i \in 1..(Len(s) - 1) : i + 1 \in 1..Len(s)
  BY <1>2
<1> QED BY <1>1, <1>2, <1>3

\* An envelope arrives last.
LEMMA StreamGrows ==
  ASSUME NEW s \in Seq(Envelopes), NEW x \in Envelopes
  PROVE  /\ Append(s, x) \in Seq(Envelopes)
         /\ \A i \in 1..Len(Append(s, x)) : Append(s, x)[i] = x \/ \E j \in 1..Len(s) : Append(s, x)[i] = s[j]
<1>1. /\ Append(s, x) \in Seq(Envelopes) /\ Len(Append(s, x)) = Len(s) + 1 /\ Len(s) \in Nat
      /\ \A i \in 1..Len(s) : Append(s, x)[i] = s[i]
      /\ Append(s, x)[Len(s) + 1] = x
  BY AppendProperties, LenProperties
<1>2. \A i \in 1..(Len(s) + 1) : i \in 1..Len(s) \/ i = Len(s) + 1
  BY <1>1
<1> QED BY <1>1, <1>2

\* What is due while the worker serves no call.
LEMMA DeepSeekIdles ==
  ASSUME Shaped, Shaped', IsDeepSeek, kind' = kind, agent' = agent, Greets = 0, Sending = 0, Settles = 0,
         Greets' = 0, Sending' = 0, Works' = Works
  PROVE  /\ StartsDue = StartsUnseen + agent.accepted /\ StartsDue' = StartsUnseen' + agent.accepted
         /\ FinishesDue = EndsUnseen + (agent.accepted + Works)
         /\ FinishesDue' = (EndsUnseen' + Settles') + (agent.accepted + Works)
<1>1. /\ StartsDue = StartsUnseen + agent.accepted + Greets + Sending
      /\ StartsDue' = StartsUnseen' + agent'.accepted + Greets' + Sending'
      /\ FinishesDue = EndsUnseen + agent.accepted + Works + 2 * Sending + Settles
      /\ FinishesDue' = EndsUnseen' + agent'.accepted + Works' + 2 * Sending' + Settles'
      /\ StartsUnseen \in Nat /\ StartsUnseen' \in Nat /\ EndsUnseen \in Nat /\ EndsUnseen' \in Nat
      /\ agent.accepted \in Nat /\ Works \in Nat /\ Settles' \in Nat
  BY DeepSeekDues
<1>2. /\ Greets = 0 /\ Sending = 0 /\ Settles = 0 /\ Greets' = 0 /\ Sending' = 0
      /\ agent'.accepted = agent.accepted /\ Works' = Works
  OBVIOUS
<1>3. \A x, a, w, z \in Nat : /\ x + a + 0 + 0 = x + a
                              /\ x + a + w + 2 * 0 + 0 = x + (a + w)
                              /\ x + a + w + 2 * 0 + z = (x + z) + (a + w)
  OBVIOUS
<1> QED BY ONLY <1>1, <1>2, <1>3

\* The worker hears of an entry of the log.
LEMMA DeepSeekHears ==
  ASSUME Shaped, IsDeepSeek, DeepSeekOwn, UNCHANGED <<kind, unsaid, reader>>, turn.open,
         reader.at # "leaving", NEW n \in 1..Len(agent.log), n > turn.seen, NEW rest \in Seq(Envelopes),
         \A i \in 1..Len(rest) : \E j \in 1..Len(turn.stream) : rest[i] = turn.stream[j],
         DeepSeek!Hear(n, rest)
  PROVE  Shaped' /\ DeepSeekOwn' /\ Carries /\ Contract!StreamNext
<1> USE DeepSeekFrame, ServersMade
<1> DEFINE begun == [turn EXCEPT !.seen = n, !.active = TRUE, !.stream = rest]
           ended == [turn EXCEPT !.seen = n, !.active = FALSE, !.stream = rest]
<1>1. /\ server = Free /\ UNCHANGED <<calls, wire, agent>>
      /\ \/ agent.log[n] = "start" /\ turn' = begun /\ server' = server
         \/ /\ agent.log[n] = "end" /\ turn' = ended
            /\ \/ server' = server
               \/ server' = At("finishing", Cancel)
  BY DEF DeepSeek!Hear
<1>2. /\ agent.log \in Seq(Entries) /\ Len(agent.log) \in Nat /\ n \in Nat /\ turn.seen \in Nat
      /\ turn \in TurnRecords /\ turn.active \in BOOLEAN
  BY LenProperties DEF Shaped, Agents, TurnRecords
<1>3. /\ begun \in TurnRecords /\ begun.seen = n /\ begun.stream = rest /\ begun.open = turn.open
      /\ begun.requests = turn.requests
      /\ ended \in TurnRecords /\ ended.seen = n /\ ended.stream = rest /\ ended.open = turn.open
      /\ ended.requests = turn.requests
  BY <1>2 DEF TurnRecords
<1> HIDE DEF begun, ended
<1>4. /\ turn' \in TurnRecords /\ turn'.seen = n /\ turn'.stream = rest /\ turn'.open /\ turn'.requests = turn.requests
  BY <1>1, <1>3
<1>5. /\ server' \in Servers /\ server'.at \in {"free", "finishing"} /\ server.at = "free"
      /\ server' = server => server'.at = "free"
      /\ server' = At("finishing", Cancel) => server'.at = "finishing"
  <2>1. "finishing" \in Places /\ Cancel \in Calls
    BY CallsMade DEF Places
  <2>2. At("finishing", Cancel) \in Servers /\ At("finishing", Cancel).at = "finishing"
    BY <2>1
  <2>3. CASE server' = server
    BY <1>1, <2>2, <2>3 DEF Shaped
  <2>4. CASE server' = At("finishing", Cancel)
    BY <1>1, <2>2, <2>4
  <2> QED BY <1>1, <2>3, <2>4
<1>6. ~ exited
  BY <1>5 DEF DeepSeekOwn
<1>7. ASSUME Told', exited' = exited  PROVE Shaped' /\ DeepSeekOwn' /\ Carries
  <2>1. Shaped' /\ Carries
    BY <1>1, <1>4, <1>5, <1>7 DEF Shaped, Carries
  <2>2. Bounded' /\ Mortal'
    <3>1. n \in 0..Len(agent.log)
      BY <1>2
    <3> QED BY <1>1, <1>4, <1>6, <1>7, <3>1 DEF Bounded, Mortal, DeepSeekOwn
  <2>3. Numbered'
    BY <1>1, <1>4 DEF Numbered, DeepSeekOwn
  <2> QED BY <1>1, <1>4, <1>5, <1>6, <1>7, <2>1, <2>2, <2>3 DEF DeepSeekOwn
<1>8. /\ StartsUnseen' + (IF agent.log[n] = "start" THEN 1 ELSE 0) <= StartsUnseen
      /\ EndsUnseen' + (IF agent.log[n] = "end" THEN 1 ELSE 0) <= EndsUnseen
  <2>1. StartsUnseen' = Cardinality(Later(agent.log, n, "start")) /\ EndsUnseen' = Cardinality(Later(agent.log, n, "end"))
    BY <1>1, <1>4 DEF StartsUnseen, EndsUnseen
  <2> QED BY <1>2, <2>1, LaterHeard DEF StartsUnseen, EndsUnseen
<1>9. /\ Greets = 0 /\ Greets' = 0 /\ Sending = 0 /\ Sending' = 0 /\ Settles = 0 /\ Works' = Works
      /\ Settles' = (IF server'.at = "free" THEN 0 ELSE 1)
      /\ Answering = {} /\ Answering' = {}
  BY <1>1, <1>5 DEF Greets, Sending, Settles, Works, Answering
<1>10. /\ StartsUnseen \in Nat /\ StartsUnseen' \in Nat /\ EndsUnseen \in Nat /\ EndsUnseen' \in Nat
       /\ agent.accepted \in Nat /\ agent.accepted + Works \in Nat /\ Works \in Nat /\ Settles' \in {0, 1}
  <2>1. /\ agent.accepted \in Nat /\ Works \in {0, 1} /\ Settles' \in {0, 1}
    BY <1>9 DEF Shaped, Agents, Works
  <2>2. turn'.seen = n /\ agent'.log = agent.log
    BY <1>1, <1>4
  <2> QED BY <1>2, <2>1, <2>2, LaterCounted DEF StartsUnseen, EndsUnseen
<1>11. /\ StartsUnseen' <= StartsUnseen /\ (agent.log[n] = "start" => StartsUnseen' + 1 <= StartsUnseen)
       /\ EndsUnseen' <= EndsUnseen /\ (agent.log[n] = "end" => EndsUnseen' + 1 <= EndsUnseen)
  <2>1. \A x, y \in Nat : (y + 1 <= x => y <= x) /\ (y + 0 <= x => y <= x)
    OBVIOUS
  <2>2. CASE agent.log[n] = "start"
    <3>1. agent.log[n] # "end"
      BY <2>2
    <3>2. StartsUnseen' + 1 <= StartsUnseen /\ EndsUnseen' + 0 <= EndsUnseen
      BY <1>8, <2>2, <3>1
    <3> QED BY <1>10, <2>1, <3>1, <3>2
  <2>3. CASE agent.log[n] = "end"
    <3>1. agent.log[n] # "start"
      BY <2>3
    <3>2. StartsUnseen' + 0 <= StartsUnseen /\ EndsUnseen' + 1 <= EndsUnseen
      BY <1>8, <2>3, <3>1
    <3> QED BY <1>10, <2>1, <3>1, <3>2
  <2> QED BY <1>1, <2>2, <2>3
<1>12. ASSUME Told', exited' = exited
       PROVE  /\ StartsDue \in Nat /\ StartsDue' \in Nat /\ FinishesDue \in Nat /\ FinishesDue' \in Nat
              /\ Steering' = Steering /\ Pursues' = Pursues
              /\ StartsDue' <= StartsDue
              /\ agent.log[n] = "start" => StartsDue # 0 /\ StartsDue' <= StartsDue - 1
              /\ Settles' = 0 \/ agent.log[n] = "end" => FinishesDue' <= FinishesDue
              /\ Settles' = 0 /\ agent.log[n] = "end" => FinishesDue # 0 /\ FinishesDue' <= FinishesDue - 1
  <2>1. Shaped'
    BY <1>7, <1>12
  <2>2. /\ StartsDue = StartsUnseen + agent.accepted + Greets + Sending
        /\ StartsDue' = StartsUnseen' + agent'.accepted + Greets' + Sending'
        /\ FinishesDue = EndsUnseen + agent.accepted + Works + 2 * Sending + Settles
        /\ FinishesDue' = EndsUnseen' + agent'.accepted + Works' + 2 * Sending' + Settles'
        /\ StartsDue \in Nat /\ StartsDue' \in Nat /\ FinishesDue \in Nat /\ FinishesDue' \in Nat
        /\ Steering' = Answering' /\ Steering = Answering /\ Pursues' = Pursues
    BY <2>1, DeepSeekDues
  <2>3. agent' = agent
    BY <1>1
  <2>4. /\ StartsDue = StartsUnseen + agent.accepted /\ StartsDue' = StartsUnseen' + agent.accepted
        /\ FinishesDue = EndsUnseen + (agent.accepted + Works)
        /\ FinishesDue' = (EndsUnseen' + Settles') + (agent.accepted + Works)
    BY <1>9, <2>1, <2>3, DeepSeekIdles
  <2>5. \A x, y, b \in Nat : /\ y <= x => y + b <= x + b
                             /\ y + 1 <= x => x + b # 0 /\ y + b <= (x + b) - 1
    OBVIOUS
  <2>6. \A y \in Nat : y + 0 = y
    OBVIOUS
  <2>7. StartsDue' <= StartsDue /\ (agent.log[n] = "start" => StartsDue # 0 /\ StartsDue' <= StartsDue - 1)
    BY ONLY <1>10, <1>11, <2>4, <2>5
  <2>8. CASE Settles' = 0
    <3>1. FinishesDue' = EndsUnseen' + (agent.accepted + Works)
      BY ONLY <1>10, <2>4, <2>6, <2>8
    <3>2. FinishesDue' <= FinishesDue /\ (agent.log[n] = "end" => FinishesDue # 0 /\ FinishesDue' <= FinishesDue - 1)
      BY ONLY <1>10, <1>11, <2>4, <2>5, <3>1
    <3> QED BY <1>9, <2>2, <2>7, <2>8, <3>2
  <2>9. CASE Settles' = 1
    <3>1. FinishesDue' = (EndsUnseen' + 1) + (agent.accepted + Works) /\ EndsUnseen' + 1 \in Nat
      <4>1. \A x \in Nat : x + 1 \in Nat
        OBVIOUS
      <4> QED BY <1>10, <2>4, <2>9, <4>1
    <3>2. agent.log[n] = "end" => FinishesDue' <= FinishesDue
      BY ONLY <1>10, <1>11, <2>4, <2>5, <3>1
    <3> QED BY <1>9, <2>2, <2>7, <2>9, <3>2
  <2> QED BY <1>10, <2>8, <2>9
<1>13. CASE agent.log[n] = "start"
  <2>1. /\ turn' = begun /\ server' = server
        /\ IF turn.active THEN UNCHANGED <<events, exited, history>> ELSE Emit(Signal("TurnStarted"))
    BY <1>1, <1>13 DEF DeepSeek!Hear, begun
  <2>2. Settles' = 0
    BY <1>5, <1>9, <2>1
  <2>3. CASE turn.active
    <3>1. Told' /\ exited' = exited /\ events' = events
      BY <2>1, <2>3 DEF Shaped, Told
    <3>2. AtMost(StartsDue, FinishesDue)
      BY <1>12, <2>2, <3>1 DEF AtMost
    <3> QED BY <1>1, <1>7, <1>12, <3>1, <3>2, Forgoes
  <2>4. CASE ~ turn.active
    <3>1. Told' /\ exited' = exited /\ events' = Append(events, Signal("TurnStarted"))
      BY <2>1, <2>4, EventsMade, EmitTells DEF Shaped
    <3>2. StartsDue # 0 /\ AtMost(StartsDue - 1, FinishesDue)
      BY <1>12, <1>13, <2>2, <3>1 DEF AtMost
    <3> QED BY <1>1, <1>7, <1>12, <3>1, <3>2, Announces
  <2> QED BY <2>3, <2>4
<1>14. CASE agent.log[n] = "end"
  <2>1. /\ turn' = ended
        /\ \/ /\ IF turn.active THEN Emit(TurnFinished(TRUE)) ELSE UNCHANGED <<events, exited, history>>
              /\ server' = server
           \/ Emit(Signal("Error"))
    BY <1>1, <1>14 DEF DeepSeek!Hear, ended
  <2>2. CASE ~ turn.active /\ UNCHANGED <<events, exited, history>>
    <3>1. Told' /\ exited' = exited /\ events' = events
      BY <2>2 DEF Shaped, Told
    <3>2. AtMost(StartsDue, FinishesDue)
      BY <1>12, <1>14, <3>1 DEF AtMost
    <3> QED BY <1>1, <1>7, <1>12, <3>1, <3>2, Forgoes
  <2>3. CASE server' = server /\ Emit(TurnFinished(TRUE))
    <3>1. Told' /\ exited' = exited /\ events' = Append(events, TurnFinished(TRUE))
      BY <2>3, EventsMade, EmitTells DEF Shaped
    <3>2. Settles' = 0
      BY <1>5, <1>9, <2>3
    <3>3. FinishesDue # 0 /\ AtMost(StartsDue, FinishesDue - 1)
      BY <1>12, <1>14, <3>1, <3>2 DEF AtMost
    <3> QED BY <1>1, <1>7, <1>12, <3>1, <3>3, Finishes
  <2>4. CASE Emit(Signal("Error"))
    <3>1. Told' /\ exited' = exited /\ events' = Append(events, Signal("Error"))
      BY <2>4, EventsMade, EmitTells DEF Shaped
    <3>2. AtMost(StartsDue, FinishesDue)
      BY <1>12, <1>14, <3>1 DEF AtMost
    <3> QED BY <1>1, <1>7, <1>12, <3>1, <3>2, Chats
  <2> QED BY <1>2, <2>1, <2>2, <2>3, <2>4
<1> QED BY <1>1, <1>13, <1>14

\* What the reader knows changes, and nothing else the worker is asked for.
LEMMA DeepSeekQuiet ==
  ASSUME Shaped, Shaped', IsDeepSeek, UNCHANGED <<kind, calls, exited, server>>,
         StartsUnseen' + agent'.accepted <= StartsUnseen + agent.accepted,
         EndsUnseen' + agent'.accepted + Works' <= EndsUnseen + agent.accepted + Works,
         events' = events \/ events' = Append(events, Signal("Error"))
  PROVE  Contract!StreamNext
<1>1. /\ StartsDue = StartsUnseen + agent.accepted + Greets + Sending
      /\ StartsDue' = StartsUnseen' + agent'.accepted + Greets' + Sending'
      /\ FinishesDue = EndsUnseen + agent.accepted + Works + 2 * Sending + Settles
      /\ FinishesDue' = EndsUnseen' + agent'.accepted + Works' + 2 * Sending' + Settles'
      /\ StartsUnseen \in Nat /\ StartsUnseen' \in Nat /\ EndsUnseen \in Nat /\ EndsUnseen' \in Nat
      /\ agent.accepted \in Nat /\ agent'.accepted \in Nat /\ Works \in Nat /\ Works' \in Nat
      /\ Greets \in Nat /\ Sending \in Nat /\ Settles \in Nat
      /\ StartsDue \in Nat /\ StartsDue' \in Nat /\ FinishesDue \in Nat /\ FinishesDue' \in Nat
      /\ Steering = Answering /\ Steering' = Answering' /\ Pursues' = Pursues
  BY DeepSeekDues
<1>2. Greets' = Greets /\ Sending' = Sending /\ Settles' = Settles /\ Answering' = Answering
  BY DEF Greets, Sending, Settles, Answering
<1>3. /\ StartsUnseen' + agent'.accepted <= StartsUnseen + agent.accepted
      /\ EndsUnseen' + agent'.accepted + Works' <= EndsUnseen + agent.accepted + Works
  OBVIOUS
<1>4. \A x, y, g, s, z \in Nat : y <= x => y + g + s <= x + g + s /\ y + 2 * s + z <= x + 2 * s + z
  OBVIOUS
<1>5. /\ StartsUnseen' + agent'.accepted \in Nat /\ StartsUnseen + agent.accepted \in Nat
      /\ EndsUnseen' + agent'.accepted + Works' \in Nat /\ EndsUnseen + agent.accepted + Works \in Nat
  BY ONLY <1>1
<1>6. StartsDue' <= StartsDue /\ FinishesDue' <= FinishesDue
  BY ONLY <1>1, <1>2, <1>3, <1>4, <1>5
<1>7. AtMost(StartsDue, FinishesDue)
  BY <1>1, <1>6 DEF AtMost
<1>8. Steering' = Steering
  BY <1>1, <1>2
<1> QED BY <1>1, <1>7, <1>8, Forgoes, Chats

\* The worker passes an envelope by, reads the log, or cannot.
LEMMA DeepSeekReads ==
  ASSUME Shaped, IsDeepSeek, DeepSeekOwn, UNCHANGED <<kind, unsaid>>, DeepSeek!ReadOn
  PROVE  Shaped' /\ DeepSeekOwn' /\ Carries /\ Contract!StreamNext
<1> USE DeepSeekFrame, ServersMade
<1> DEFINE rest == Tail(turn.stream)
           h == Head(turn.stream)
           skipped == [turn EXCEPT !.stream = rest]
<1>1. /\ turn \in TurnRecords /\ turn.stream \in Seq(Envelopes) /\ turn.seen \in Nat
      /\ agent.log \in Seq(Entries) /\ Len(agent.log) \in Nat
  BY LenProperties DEF Shaped, TurnRecords, Agents
<1>2. ASSUME turn.stream # << >>
      PROVE  /\ h \in Envelopes /\ rest \in Seq(Envelopes)
             /\ h.what = "event" => h.seq \in 1..Len(agent.log)
             /\ h.what = "subscribed" => h.seq <= Len(agent.log)
             /\ h.what = "gone" => ~ agent.alive
             /\ \A i \in 1..Len(rest) : \E j \in 1..Len(turn.stream) : rest[i] = turn.stream[j]
             /\ skipped \in TurnRecords /\ skipped.stream = rest /\ skipped.seen = turn.seen
             /\ skipped.open = turn.open /\ skipped.requests = turn.requests
  <2>1. /\ h \in Envelopes /\ rest \in Seq(Envelopes) /\ 1 \in 1..Len(turn.stream) /\ h = turn.stream[1]
        /\ \A i \in 1..Len(rest) : \E j \in 1..Len(turn.stream) : rest[i] = turn.stream[j]
    BY <1>1, <1>2, StreamShrinks
  <2> HIDE DEF h, rest
  <2>2. /\ h.what = "event" => h.seq \in 1..Len(agent.log)
        /\ h.what = "subscribed" => h.seq <= Len(agent.log)
        /\ h.what = "gone" => ~ agent.alive
    BY <2>1 DEF DeepSeekOwn, Numbered
  <2>3. /\ skipped \in TurnRecords /\ skipped.stream = rest /\ skipped.seen = turn.seen
        /\ skipped.open = turn.open /\ skipped.requests = turn.requests
    BY <1>1, <2>1 DEF TurnRecords
  <2> QED BY <2>1, <2>2, <2>3
<1> HIDE DEF rest, h, skipped
\* Nothing is heard, or only that something went wrong.
<1>3. ASSUME UNCHANGED <<calls, exited, server, wire, agent>>, Told', ~ exited,
             events' = events \/ events' = Append(events, Signal("Error")),
             turn' = turn \/ (turn.stream # << >> /\ turn' = skipped), reader' \in Readers,
             reader' = reader \/ reader'.at \in {"idle", "failing"}
               \/ (reader'.at = "replaying" /\ turn.open /\ reader'.upto \in 1..Len(agent.log))
               \/ (reader'.at = "leaving" /\ turn.open /\ server.at = "free" /\ ~ agent.alive)
      PROVE  Shaped' /\ DeepSeekOwn' /\ Carries /\ Contract!StreamNext
  <2>1. /\ turn' \in TurnRecords /\ turn'.seen = turn.seen /\ turn'.open = turn.open
        /\ turn'.requests = turn.requests
        /\ \A i \in 1..Len(turn'.stream) : \E j \in 1..Len(turn.stream) : turn'.stream[i] = turn.stream[j]
    <3>1. CASE turn' = turn
      BY <1>1, <3>1
    <3>2. CASE turn.stream # << >> /\ turn' = skipped
      BY <1>2, <3>2
    <3> QED BY <1>3, <3>1, <3>2
  <2>2. Shaped' /\ Carries
    BY <1>3, <2>1 DEF Shaped, Carries
  <2>3. Numbered'
    BY <1>3, <2>1 DEF Numbered, DeepSeekOwn
  <2>4. Mortal' /\ Bounded'
    BY <1>3, <2>1 DEF Mortal, Bounded, DeepSeekOwn
  <2>5. DeepSeekOwn'
    BY <1>3, <2>1, <2>3, <2>4 DEF DeepSeekOwn
  <2>6. StartsUnseen' = StartsUnseen /\ EndsUnseen' = EndsUnseen /\ Works' = Works
    BY <1>3, <2>1 DEF StartsUnseen, EndsUnseen, Works
  <2>7. \A x \in Nat : x <= x
    OBVIOUS
  <2>8. /\ StartsUnseen + agent.accepted \in Nat /\ EndsUnseen + agent.accepted + Works \in Nat
    <3>1. StartsUnseen \in Nat /\ EndsUnseen \in Nat /\ agent.accepted \in Nat /\ Works \in Nat
      BY <2>2, DeepSeekDues
    <3> QED BY ONLY <3>1
  <2>9. /\ StartsUnseen' + agent'.accepted <= StartsUnseen + agent.accepted
        /\ EndsUnseen' + agent'.accepted + Works' <= EndsUnseen + agent.accepted + Works
    BY <1>3, <2>6, <2>7, <2>8
  <2> QED BY <1>3, <2>2, <2>5, <2>9, DeepSeekQuiet
<1>4. CASE DeepSeek!HearEvent
  <2>1. turn.open /\ server = Free /\ reader = Idle /\ turn.stream # << >> /\ h.what = "event"
    BY <1>4 DEF DeepSeek!HearEvent, DeepSeek!Handling, h
  <2>2. CASE h.seq <= turn.seen
    <3>1. turn' = skipped /\ UNCHANGED <<events, exited, history, calls, server, wire, agent, reader>>
      BY <1>4, <2>2 DEF DeepSeek!HearEvent, DeepSeek!Skip, DeepSeek!Rest, h, rest, skipped
    <3>2. Told' /\ ~ exited /\ reader' \in Readers
      BY <2>1, <3>1 DEF Shaped, Told, DeepSeekOwn
    <3> QED BY <1>3, <2>1, <3>1, <3>2
  <2>3. CASE ~ (h.seq <= turn.seen)
    <3>1. DeepSeek!Hear(h.seq, rest) /\ reader' = reader
      BY <1>4, <2>3 DEF DeepSeek!HearEvent, DeepSeek!Hear, DeepSeek!Rest, h, rest
    <3>2. h.seq \in 1..Len(agent.log) /\ rest \in Seq(Envelopes) /\ reader.at # "leaving"
      BY <1>2, <2>1, ReadersMade
    <3>3. h.seq > turn.seen
      <4>1. \A x, y \in Nat : ~ (x <= y) => x > y
        OBVIOUS
      <4>2. h.seq \in Nat
        BY <1>1, <3>2
      <4> QED BY <1>1, <2>3, <4>1, <4>2
    <3> QED BY <1>2, <2>1, <3>1, <3>2, <3>3, DeepSeekHears
  <2> QED BY <2>2, <2>3
<1>5. CASE DeepSeek!NothingMissed \/ DeepSeek!ReadLog \/ DeepSeek!LogUnread
  <2>1. /\ turn.open /\ server = Free /\ reader = Idle /\ turn.stream # << >> /\ h.what = "subscribed"
        /\ turn' = skipped /\ UNCHANGED <<events, exited, calls, server, wire, agent>>
        /\ \/ reader' = reader /\ history' = history
           \/ /\ reader' = [at |-> "replaying", upto |-> Len(agent.log)] /\ h.seq > turn.seen
              /\ history' = history
           \/ reader' = [at |-> "failing"] /\ history' = [history EXCEPT !.lost = TRUE]
    BY <1>5 DEF DeepSeek!NothingMissed, DeepSeek!ReadLog, DeepSeek!LogUnread, DeepSeek!Handling,
         DeepSeek!Missed, DeepSeek!Skip, DeepSeek!Rest, h, rest, skipped
  <2>2. Told' /\ ~ exited
    BY <2>1 DEF Shaped, Told, DeepSeekOwn, Histories
  <2>3. /\ reader' \in Readers
        /\ \/ reader' = reader \/ reader'.at \in {"idle", "failing"}
           \/ reader'.at = "replaying" /\ reader'.upto \in 1..Len(agent.log)
    <3>1. CASE reader' = reader
      BY <3>1 DEF Shaped
    <3>2. CASE reader' = [at |-> "failing"]
      BY <3>2, ReadersMade
    <3>3. CASE reader' = [at |-> "replaying", upto |-> Len(agent.log)] /\ h.seq > turn.seen
      <4>1. h.seq \in Nat /\ h.seq <= Len(agent.log)
        BY <1>2, <2>1 DEF Envelopes
      <4>2. Len(agent.log) \in 1..Len(agent.log)
        BY <1>1, <3>3, <4>1
      <4> QED BY <1>1, <3>3, <4>2, ReadersMade
    <3> QED BY <2>1, <3>1, <3>2, <3>3
  <2> QED BY <1>3, <2>1, <2>2, <2>3
<1>6. CASE DeepSeek!Unrecovered
  <2>1. /\ server = Free /\ Emit(Signal("Error")) /\ reader' = Idle
        /\ UNCHANGED <<calls, server, wire, agent, turn>>
    BY <1>6 DEF DeepSeek!Unrecovered, DeepSeek!Reports
  <2>2. Told' /\ events' = Append(events, Signal("Error")) /\ exited' = exited
    BY <2>1, EventsMade, EmitTells DEF Shaped
  <2>3. ~ exited
    BY <2>1 DEF DeepSeekOwn
  <2> QED BY <1>3, <2>1, <2>2, <2>3, ReadersMade
<1>7. CASE DeepSeek!Replay
  <2>0. reader.at = "replaying" /\ reader.upto \in 1..Len(agent.log) /\ turn.open
    BY <1>7 DEF DeepSeek!Replay, DeepSeekOwn, Bounded
  <2>1. CASE turn.seen < reader.upto
    <3>1. DeepSeek!Hear(turn.seen + 1, turn.stream) /\ reader' = reader
      BY <1>7, <2>1 DEF DeepSeek!Replay, DeepSeek!Hear
    <3>2. turn.seen + 1 \in 1..Len(agent.log) /\ turn.seen + 1 > turn.seen
      BY <1>1, <2>0, <2>1
    <3> QED BY <1>1, <2>0, <3>1, <3>2, DeepSeekHears
  <2>2. CASE ~ (turn.seen < reader.upto)
    <3>1. server = Free /\ reader' = Idle /\ UNCHANGED <<events, exited, history, calls, server, wire, agent, turn>>
      BY <1>7, <2>2 DEF DeepSeek!Replay
    <3>2. Told' /\ ~ exited
      BY <3>1 DEF Shaped, Told, DeepSeekOwn
    <3> QED BY <1>3, <3>1, <3>2, ReadersMade
  <2> QED BY <2>1, <2>2
<1>8. CASE DeepSeek!HearGone
  <2>1. /\ turn.open /\ server = Free /\ turn.stream # << >> /\ h.what = "gone"
        /\ Emit(Signal("Error")) /\ reader' = [at |-> "leaving"]
        /\ UNCHANGED <<calls, server, wire, agent, turn>>
    BY <1>8 DEF DeepSeek!HearGone, DeepSeek!Handling, h
  <2>2. Told' /\ events' = Append(events, Signal("Error")) /\ exited' = exited
    BY <2>1, EventsMade, EmitTells DEF Shaped
  <2>3. ~ exited /\ ~ agent.alive
    BY <1>2, <2>1 DEF DeepSeekOwn
  <2> QED BY <1>3, <2>1, <2>2, <2>3, ReadersMade
<1>9. CASE DeepSeek!Exit
  <2>1. /\ reader.at = "leaving" /\ Emit(Signal("ProcessExited")) /\ server' = Stopped /\ reader' = Idle
        /\ UNCHANGED <<calls, wire, agent, turn>>
    BY <1>9 DEF DeepSeek!Exit
  <2>2. Told' /\ events' = Append(events, Signal("ProcessExited")) /\ exited' = TRUE
    BY <2>1, EventsMade, EmitTells DEF Shaped, Told
  <2>3. server.at = "free" /\ ~ exited /\ ~ agent.alive
    BY <2>1 DEF DeepSeekOwn
  <2>4. Shaped' /\ Carries
    BY <2>1, <2>2, ReadersMade DEF Shaped, Carries
  <2>5. DeepSeekOwn'
    BY <2>1, <2>2, <2>3, ReadersMade DEF DeepSeekOwn, Mortal, Bounded, Numbered
  <2>6. /\ Greets = 0 /\ Greets' = 0 /\ Sending = 0 /\ Sending' = 0 /\ Settles = 0 /\ Settles' = 0
        /\ Answering = {} /\ Answering' = {}
        /\ StartsUnseen' = StartsUnseen /\ EndsUnseen' = EndsUnseen /\ Works' = Works
        /\ agent'.accepted = agent.accepted
    BY <2>1, <2>3 DEF Greets, Sending, Settles, Answering, StartsUnseen, EndsUnseen, Works
  <2>7. StartsDue' = StartsDue /\ FinishesDue' = FinishesDue /\ Steering' = Steering /\ Pursues' = Pursues
    BY <2>4, <2>6, DeepSeekDues
  <2> QED BY <2>1, <2>2, <2>3, <2>4, <2>5, <2>7, Exits
<1> QED BY <1>4, <1>5, <1>6, <1>7, <1>8, <1>9 DEF DeepSeek!ReadOn

\* The harness begins and ends turns in its log; an envelope about it comes if the stream stands.
LEMMA DeepSeekLogs ==
  ASSUME Shaped, IsDeepSeek, DeepSeekOwn, UNCHANGED <<kind, unsaid>>,
         DeepSeek!AgentBegins \/ DeepSeek!AgentEnds
  PROVE  Shaped' /\ DeepSeekOwn' /\ Carries /\ Contract!StreamNext
<1> USE DeepSeekFrame
<1> DEFINE len == Len(agent.log)
           x == IF DeepSeek!AgentBegins THEN "start" ELSE "end"
           env == [what |-> "event", seq |-> len + 1]
<1>1. /\ UNCHANGED <<calls, events, exited, history, server, wire, reader>> /\ agent.alive /\ x \in Entries
      /\ agent'.log = Append(agent.log, x)
      /\ turn' = turn \/ turn' = [turn EXCEPT !.stream = Append(turn.stream, env)]
      /\ agent' \in Agents /\ agent'.alive /\ agent'.goal = agent.goal
      /\ \/ /\ x = "start" /\ ~ agent.works /\ agent'.works
            /\ agent.accepted > 0 /\ agent'.accepted = agent.accepted - 1
         \/ x = "end" /\ agent.works /\ ~ agent'.works /\ agent'.accepted = agent.accepted
  <2>0. agent \in Agents /\ agent.accepted \in Nat /\ agent.log \in Seq(Entries)
    BY DEF Shaped, Agents
  <2>1. CASE DeepSeek!AgentBegins
    <3>1. /\ agent.alive /\ agent.accepted > 0 /\ ~ agent.works
          /\ agent' = [agent EXCEPT !.accepted = agent.accepted - 1, !.works = TRUE, !.log = Append(agent.log, "start")]
          /\ UNCHANGED <<calls, events, exited, history, server, wire, reader>>
          /\ turn' = turn \/ turn' = [turn EXCEPT !.stream = Append(turn.stream, env)]
      BY <2>1 DEF DeepSeek!AgentBegins, DeepSeek!Logged, DeepSeek!Event
    <3>2. agent.accepted - 1 \in Nat /\ Append(agent.log, "start") \in Seq(Entries) /\ x = "start"
      BY <2>0, <2>1, <3>1, AppendProperties DEF Entries
    <3>3. /\ agent' \in Agents /\ agent'.log = Append(agent.log, "start") /\ agent'.alive /\ agent'.goal = agent.goal
          /\ agent'.works /\ agent'.accepted = agent.accepted - 1
      <4>1. "start" \in Entries
        BY DEF Entries
      <4> QED BY <2>0, <3>1, <3>2, <4>1 DEF Agents
    <3> QED BY <3>1, <3>2, <3>3 DEF Entries
  <2>2. CASE ~ DeepSeek!AgentBegins
    <3>1. /\ agent.alive /\ agent.works
          /\ agent' = [agent EXCEPT !.works = FALSE, !.log = Append(agent.log, "end")]
          /\ UNCHANGED <<calls, events, exited, history, server, wire, reader>>
          /\ turn' = turn \/ turn' = [turn EXCEPT !.stream = Append(turn.stream, env)]
      BY <2>2 DEF DeepSeek!AgentEnds, DeepSeek!Logged, DeepSeek!Event
    <3>2. Append(agent.log, "end") \in Seq(Entries) /\ x = "end"
      BY <2>0, <2>2, AppendProperties DEF Entries
    <3>3. /\ agent' \in Agents /\ agent'.log = Append(agent.log, "end") /\ agent'.alive /\ agent'.goal = agent.goal
          /\ ~ agent'.works /\ agent'.accepted = agent.accepted
      BY <2>0, <3>1, <3>2 DEF Agents
    <3> QED BY <3>1, <3>2, <3>3 DEF Entries
  <2> QED BY <2>1, <2>2
<1> HIDE DEF x, env
<1>2. /\ agent.log \in Seq(Entries) /\ turn \in TurnRecords /\ turn.stream \in Seq(Envelopes)
      /\ turn.seen \in 0..Len(agent.log)
  BY DEF Shaped, Agents, TurnRecords, DeepSeekOwn, Bounded
<1>3. /\ Len(agent'.log) = len + 1 /\ len \in Nat
      /\ \A n \in 1..len : agent'.log[n] = agent.log[n]
      /\ agent'.log[len + 1] = x
      /\ \A entry : Cardinality(Later(agent'.log, turn.seen, entry))
                      = Cardinality(Later(agent.log, turn.seen, entry)) + (IF x = entry THEN 1 ELSE 0)
  BY <1>1, <1>2, LaterGrows
<1> HIDE DEF len
<1>4. len + 1 \in 1..(len + 1) /\ \A n \in 1..len : n \in 1..(len + 1)
  BY <1>3
<1>5. env \in Envelopes /\ env.what = "event" /\ env.seq = len + 1
  BY <1>3 DEF env, Envelopes
<1>6. /\ turn' \in TurnRecords /\ turn'.seen = turn.seen /\ turn'.open = turn.open /\ turn'.requests = turn.requests
      /\ \A i \in 1..Len(turn'.stream) :
           turn'.stream[i] = env \/ \E j \in 1..Len(turn.stream) : turn'.stream[i] = turn.stream[j]
  <2>1. CASE turn' = turn
    BY <1>2, <2>1
  <2>2. CASE turn' = [turn EXCEPT !.stream = Append(turn.stream, env)]
    <3>1. /\ Append(turn.stream, env) \in Seq(Envelopes)
          /\ \A i \in 1..Len(Append(turn.stream, env)) :
               Append(turn.stream, env)[i] = env \/ \E j \in 1..Len(turn.stream) : Append(turn.stream, env)[i] = turn.stream[j]
      BY <1>2, <1>5, StreamGrows
    <3>2. turn'.stream = Append(turn.stream, env)
      BY <1>2, <2>2 DEF TurnRecords
    <3> QED BY <1>2, <2>2, <3>1, <3>2 DEF TurnRecords
  <2> QED BY <1>1, <2>1, <2>2
<1>7. Shaped' /\ Carries
  BY <1>1, <1>6 DEF Shaped, Told, Carries
<1>8. DeepSeekOwn'
  <2>1. Numbered'
    <3>1. ASSUME NEW i \in 1..Len(turn'.stream)
          PROVE  /\ turn'.stream[i].what = "event" => turn'.stream[i].seq \in 1..Len(agent'.log)
                 /\ turn'.stream[i].what = "subscribed" => turn'.stream[i].seq <= Len(agent'.log)
                 /\ turn'.stream[i].what = "gone" => ~ agent'.alive
      <4>1. CASE turn'.stream[i] = env
        BY <1>3, <1>4, <1>5, <4>1
      <4>2. ASSUME NEW j \in 1..Len(turn.stream), turn'.stream[i] = turn.stream[j]
            PROVE  /\ turn'.stream[i].what = "event" => turn'.stream[i].seq \in 1..Len(agent'.log)
                   /\ turn'.stream[i].what = "subscribed" => turn'.stream[i].seq <= Len(agent'.log)
                   /\ turn'.stream[i].what = "gone" => ~ agent'.alive
        <5>1. /\ turn.stream[j].what = "event" => turn.stream[j].seq \in 1..len
              /\ turn.stream[j].what = "subscribed" => turn.stream[j].seq <= len
              /\ turn.stream[j].what # "gone"
          BY <1>1 DEF DeepSeekOwn, Numbered, len
        <5>2. turn.stream[j].seq \in Nat
          <6>1. turn.stream[j] \in Envelopes
            BY <1>2, ElementOfSeq
          <6> QED BY <6>1 DEF Envelopes
        <5>3. \A a, b \in Nat : a <= b => a <= b + 1
          OBVIOUS
        <5> QED BY <1>3, <1>4, <4>2, <5>1, <5>2, <5>3
      <4> QED BY <1>6, <4>1, <4>2
    <3> QED BY <3>1 DEF Numbered
  <2>2. Mortal' /\ Bounded'
    <3>1. turn.seen \in 0..(len + 1) /\ (reader.at = "replaying" => reader.upto \in 1..(len + 1))
      BY <1>2, <1>3 DEF DeepSeekOwn, Bounded, len
    <3> QED BY <1>1, <1>3, <1>6, <3>1 DEF DeepSeekOwn, Mortal, Bounded
  <2>3. ~ turn'.open /\ agent'.works => \E n \in 1..Len(agent'.log) : n > turn'.seen /\ agent'.log[n] = "start"
    <3>1. CASE x = "start"
      <4>1. len + 1 > turn.seen
        BY <1>2, <1>3 DEF len
      <4> QED BY <1>3, <1>4, <1>6, <3>1, <4>1
    <3>2. CASE x # "start"
      BY <1>1, <3>2
    <3> QED BY <3>1, <3>2
  <2> QED BY <1>1, <1>6, <2>1, <2>2, <2>3 DEF DeepSeekOwn, Mortal
<1>9. /\ StartsUnseen' = StartsUnseen + (IF x = "start" THEN 1 ELSE 0)
      /\ EndsUnseen' = EndsUnseen + (IF x = "end" THEN 1 ELSE 0)
  BY <1>3, <1>6 DEF StartsUnseen, EndsUnseen
<1>10. /\ StartsUnseen \in Nat /\ EndsUnseen \in Nat /\ agent.accepted \in Nat
  BY <1>7, DeepSeekDues
<1>11. /\ StartsUnseen' + agent'.accepted <= StartsUnseen + agent.accepted
       /\ EndsUnseen' + agent'.accepted + Works' <= EndsUnseen + agent.accepted + Works
  <2>1. CASE x = "start"
    <3>1. /\ StartsUnseen' = StartsUnseen + 1 /\ EndsUnseen' = EndsUnseen
          /\ Works' = 1 /\ Works = 0 /\ agent.accepted > 0 /\ agent'.accepted = agent.accepted - 1
      BY <1>1, <1>9, <1>10, <2>1 DEF Works
    <3>2. \A s, a \in Nat : a > 0 => (s + 1) + (a - 1) <= s + a /\ s + (a - 1) + 1 <= s + a + 0
      OBVIOUS
    <3> QED BY ONLY <1>10, <3>1, <3>2
  <2>2. CASE x = "end"
    <3>1. /\ StartsUnseen' = StartsUnseen /\ EndsUnseen' = EndsUnseen + 1
          /\ Works' = 0 /\ Works = 1 /\ agent'.accepted = agent.accepted
      BY <1>1, <1>9, <1>10, <2>2 DEF Works
    <3>2. \A s, a \in Nat : s + a <= s + a /\ (s + 1) + a + 0 <= s + a + 1
      OBVIOUS
    <3> QED BY ONLY <1>10, <3>1, <3>2
  <2> QED BY <1>1, <2>1, <2>2
<1> QED BY <1>1, <1>7, <1>8, <1>11, DeepSeekQuiet

\* The stream breaks and returns, and the end of the process is noticed.
LEMMA DeepSeekLinks ==
  ASSUME Shaped, IsDeepSeek, DeepSeekOwn, UNCHANGED <<kind, unsaid>>,
         DeepSeek!LinkBreaks \/ DeepSeek!Downlink
  PROVE  Shaped' /\ DeepSeekOwn' /\ Carries /\ Contract!StreamNext
<1> USE DeepSeekFrame
<1> DEFINE len == Len(agent.log)
           up == [what |-> "subscribed", seq |-> len]
           gone == [what |-> "gone", seq |-> 0]
<1>1. /\ UNCHANGED <<calls, events, exited, history, server, wire, reader>>
      /\ \/ turn' = [turn EXCEPT !.linked = FALSE] /\ agent' = [agent EXCEPT !.breaks = agent.breaks + 1]
         \/ turn' = [turn EXCEPT !.linked = TRUE, !.stream = Append(turn.stream, up)] /\ agent' = agent
         \/ turn' = [turn EXCEPT !.stream = Append(turn.stream, gone)] /\ agent' = agent /\ ~ agent.alive
  BY DEF DeepSeek!LinkBreaks, DeepSeek!Downlink, DeepSeek!LinkReturns, DeepSeek!NoticeDeath,
         DeepSeek!Subscribed, DeepSeek!Gone
<1>2. /\ agent \in Agents /\ agent.log \in Seq(Entries) /\ len \in Nat /\ turn \in TurnRecords
      /\ turn.stream \in Seq(Envelopes) /\ agent.breaks + 1 \in Nat
  BY LenProperties DEF Shaped, Agents, TurnRecords
<1>3. up \in Envelopes /\ up.what = "subscribed" /\ up.seq = len
  BY <1>2 DEF Envelopes
<1>4. gone \in Envelopes /\ gone.what = "gone"
  BY DEF Envelopes
<1> HIDE DEF up, gone, len
<1>5. /\ agent' \in Agents /\ agent'.log = agent.log /\ agent'.alive = agent.alive /\ agent'.works = agent.works
      /\ agent'.goal = agent.goal /\ agent'.accepted = agent.accepted
  <2>1. CASE agent' = agent
    BY <1>2, <2>1
  <2>2. CASE agent' = [agent EXCEPT !.breaks = agent.breaks + 1]
    BY <1>2, <2>2 DEF Agents
  <2> QED BY <1>1, <2>1, <2>2
<1>6. /\ turn' \in TurnRecords /\ turn'.seen = turn.seen /\ turn'.open = turn.open /\ turn'.requests = turn.requests
      /\ \A i \in 1..Len(turn'.stream) :
           \/ turn'.stream[i] = up
           \/ turn'.stream[i] = gone /\ ~ agent.alive
           \/ \E j \in 1..Len(turn.stream) : turn'.stream[i] = turn.stream[j]
  <2>1. CASE turn' = [turn EXCEPT !.linked = FALSE]
    BY <1>2, <2>1 DEF TurnRecords
  <2>2. ASSUME NEW e \in Envelopes, turn'.stream = Append(turn.stream, e)
        PROVE  /\ turn'.stream \in Seq(Envelopes)
               /\ \A i \in 1..Len(turn'.stream) :
                    turn'.stream[i] = e \/ \E j \in 1..Len(turn.stream) : turn'.stream[i] = turn.stream[j]
    BY <1>2, <2>2, StreamGrows
  <2>3. CASE turn' = [turn EXCEPT !.linked = TRUE, !.stream = Append(turn.stream, up)]
    <3>1. turn'.stream = Append(turn.stream, up)
      BY <1>2, <2>3 DEF TurnRecords
    <3>2. /\ turn'.stream \in Seq(Envelopes)
          /\ \A i \in 1..Len(turn'.stream) :
               turn'.stream[i] = up \/ \E j \in 1..Len(turn.stream) : turn'.stream[i] = turn.stream[j]
      BY <1>3, <2>2, <3>1, Zenon
    <3>3. /\ turn' \in TurnRecords /\ turn'.seen = turn.seen /\ turn'.open = turn.open
          /\ turn'.requests = turn.requests
      BY <1>2, <2>3, <3>1, <3>2 DEF TurnRecords
    <3> QED BY <3>2, <3>3, Zenon
  <2>4. CASE turn' = [turn EXCEPT !.stream = Append(turn.stream, gone)] /\ ~ agent.alive
    <3>1. turn'.stream = Append(turn.stream, gone)
      BY <1>2, <2>4 DEF TurnRecords
    <3>2. /\ turn'.stream \in Seq(Envelopes)
          /\ \A i \in 1..Len(turn'.stream) :
               turn'.stream[i] = gone \/ \E j \in 1..Len(turn.stream) : turn'.stream[i] = turn.stream[j]
      BY <1>4, <2>2, <3>1, Zenon
    <3>3. /\ turn' \in TurnRecords /\ turn'.seen = turn.seen /\ turn'.open = turn.open
          /\ turn'.requests = turn.requests
      BY <1>2, <2>4, <3>1, <3>2 DEF TurnRecords
    <3> QED BY <2>4, <3>2, <3>3, Zenon
  <2> QED BY <1>1, <2>1, <2>3, <2>4
<1>7. Shaped' /\ Carries
  BY <1>1, <1>5, <1>6 DEF Shaped, Told, Carries
<1>8. Numbered'
  <2>1. ASSUME NEW i \in 1..Len(turn'.stream)
        PROVE  /\ turn'.stream[i].what = "event" => turn'.stream[i].seq \in 1..Len(agent'.log)
               /\ turn'.stream[i].what = "subscribed" => turn'.stream[i].seq <= Len(agent'.log)
               /\ turn'.stream[i].what = "gone" => ~ agent'.alive
    <3>1. CASE turn'.stream[i] = up
      <4>1. len <= len
        BY <1>2
      <4> QED BY <1>3, <1>5, <3>1, <4>1 DEF len
    <3>2. CASE turn'.stream[i] = gone /\ ~ agent.alive
      BY <1>4, <1>5, <3>2
    <3>3. CASE \E j \in 1..Len(turn.stream) : turn'.stream[i] = turn.stream[j]
      BY <1>5, <3>3 DEF DeepSeekOwn, Numbered
    <3> QED BY <1>6, <3>1, <3>2, <3>3
  <2> QED BY <2>1 DEF Numbered
<1>9. DeepSeekOwn'
  BY <1>1, <1>5, <1>6, <1>8 DEF DeepSeekOwn, Mortal, Bounded
<1>10. /\ StartsUnseen' + agent'.accepted <= StartsUnseen + agent.accepted
       /\ EndsUnseen' + agent'.accepted + Works' <= EndsUnseen + agent.accepted + Works
  <2>1. StartsUnseen' = StartsUnseen /\ EndsUnseen' = EndsUnseen /\ Works' = Works
    BY <1>5, <1>6 DEF StartsUnseen, EndsUnseen, Works
  <2>2. StartsUnseen \in Nat /\ EndsUnseen \in Nat /\ agent.accepted \in Nat /\ Works \in Nat
    BY <1>7, DeepSeekDues
  <2>3. \A s, a, w \in Nat : s + a <= s + a /\ s + a + w <= s + a + w
    OBVIOUS
  <2> QED BY <1>5, <2>1, <2>2, <2>3
<1> QED BY <1>1, <1>7, <1>9, <1>10, DeepSeekQuiet

-----------------------------------------------------------------------------
(* All drivers *)

\* What holds of every driver, whatever its family.
Common ==
  /\ Shaped /\ OnceEach /\ Mortal /\ Bounded /\ NoRepeats(turn.requests)
  /\ agent.goal => IsCodex \/ IsPi

\* What holds in every state of a driver, of any kind.
DriversInv ==
  /\ Common
  /\ HasFlag => FlagOwn
  /\ IsAcp => AcpOwn
  /\ IsCodex => CodexOwn
  /\ IsPi => PiOwn
  /\ IsDeepSeek => DeepSeekOwn

\* A driver is of one family.
LEMMA Families ==
  ASSUME kind \in Kinds, kind' = kind
  PROVE  /\ HasFlag \/ IsAcp \/ IsCodex \/ IsPi \/ IsDeepSeek
         /\ HasFlag => ~ IsAcp /\ ~ IsCodex /\ ~ IsPi /\ ~ IsDeepSeek
         /\ IsAcp => ~ HasFlag /\ ~ IsCodex /\ ~ IsPi /\ ~ IsDeepSeek
         /\ IsCodex => ~ HasFlag /\ ~ IsAcp /\ ~ IsPi /\ ~ IsDeepSeek
         /\ IsPi => ~ HasFlag /\ ~ IsAcp /\ ~ IsCodex /\ ~ IsDeepSeek
         /\ IsDeepSeek => ~ HasFlag /\ ~ IsAcp /\ ~ IsCodex /\ ~ IsPi
         /\ HasFlag' = HasFlag /\ IsAcp' = IsAcp /\ IsCodex' = IsCodex
         /\ IsPi' = IsPi /\ IsDeepSeek' = IsDeepSeek
<1>1. kind \in {"Claude", "Amp", "OpenCode", "Cursor", "Grok", "Kimi", "Fx", "Codex",
                "Pi", "OhMyPi", "DeepSeek"}
  BY KindsAssumption
<1> QED BY <1>1 DEF HasFlag, IsAcp, IsCodex, IsPi, IsDeepSeek

\* What is common is kept by the steps of a family.
LEMMA CommonKept ==
  ASSUME Common, Shaped', UNCHANGED <<kind, unsaid>>,
         Mortal', Bounded', NoRepeats(turn.requests)', agent'.goal => agent.goal \/ IsCodex \/ IsPi,
         calls' = calls \/ (calls # << >> /\ calls' = Tail(calls))
  PROVE  Common'
<1>1. OnceEach'
  <2>1. CASE calls' = calls
    BY <2>1 DEF Common, OnceEach, Says
  <2>2. CASE calls # << >> /\ calls' = Tail(calls)
    BY <2>2, TakenOnce DEF Common, Shaped
  <2> QED BY <2>1, <2>2
<1>2. agent'.goal => IsCodex' \/ IsPi'
  BY DEF Common, IsCodex, IsPi
<1> QED BY <1>1, <1>2 DEF Common

\* The same, for a step that leaves DeepSeek's log alone.
LEMMA LogKeptCommon ==
  ASSUME Common, Shaped', UNCHANGED <<kind, unsaid>>, LogKept, Dies,
         NoRepeats(turn.requests)', agent'.goal => agent.goal \/ IsCodex \/ IsPi,
         calls' = calls \/ (calls # << >> /\ calls' = Tail(calls))
  PROVE  Common'
<1>1. Mortal'
  BY DEF Common, Mortal, Dies
<1>2. Bounded'
  BY DEF Common, Bounded, LogKept
<1> QED BY <1>1, <1>2, CommonKept

-----------------------------------------------------------------------------
\* Each family keeps the invariant and the contract.
LEMMA FlagSteps ==
  ASSUME DriversInv, HasFlag, UNCHANGED <<kind, unsaid>>,
         Flag!Serve \/ Flag!ReadOn \/ Flag!AgentReads \/ Flag!AgentEnds
  PROVE  DriversInv' /\ Contract!StreamNext
<1>1. Shaped /\ FlagOwn /\ kind \in Kinds
  BY DEF DriversInv, Common, Shaped
<1>2. Shaped' /\ FlagOwn' /\ Leaves /\ Contract!StreamNext
  <2>1. CASE Flag!TakePrompt \/ Flag!TakeSteer \/ Flag!TakeCancel
    BY <1>1, <2>1, FlagTakes
  <2>2. CASE \/ Flag!Announce \/ Flag!Accept \/ Flag!Reject \/ Flag!Refuse \/ Flag!Fail \/ Flag!FinishFailed
    BY <1>1, <2>2, FlagTells
  <2>3. CASE Flag!Write \/ Flag!WriteFails \/ Flag!Settle
    BY <1>1, <2>3, FlagWrites
  <2>4. CASE Flag!ReadOn \/ Flag!AgentReads \/ Flag!AgentEnds
    BY <1>1, <2>4, FlagReads
  <2> QED BY <2>1, <2>2, <2>3, <2>4 DEF Flag!Serve
<1>3. Common'
  <2>1. NoRepeats(turn.requests)'
    BY <1>2 DEF DriversInv, Common, Leaves, NoRepeats
  <2> QED BY <1>2, <2>1, LogKeptCommon DEF DriversInv, Leaves, Keeps
<1> QED BY <1>1, <1>2, <1>3, Families DEF DriversInv

\* The drivers of the Agent Client Protocol.
LEMMA AcpSteps ==
  ASSUME DriversInv, IsAcp, UNCHANGED <<kind, unsaid>>,
         \/ Acp!Serve \/ Acp!ReadOn \/ Acp!Exit \/ Acp!AgentReads
         \/ \E m \in agent.held : Acp!AgentAnswers(m) \/ Acp!AgentNotices(m)
  PROVE  DriversInv' /\ Contract!StreamNext
<1>1. Shaped /\ AcpOwn /\ OnceEach /\ kind \in Kinds
  BY DEF DriversInv, Common, Shaped
<1>2. Shaped' /\ AcpOwn' /\ Keeps /\ Contract!StreamNext
  <2>1. CASE Acp!TakePrompt \/ Acp!TakeSteer \/ Acp!TakeCancel
    BY <1>1, <2>1, AcpTakes
  <2>2. CASE Acp!Announce \/ Acp!Accept \/ Acp!Reject \/ Acp!Fail \/ Acp!FinishFailed
    BY <1>1, <2>2, AcpTells
  <2>3. CASE Acp!SendPrompt \/ Acp!SendFails
    BY <1>1, <2>3, AcpSends
  <2>4. CASE \/ Acp!ReadOn \/ Acp!AgentReads
             \/ \E m \in agent.held : Acp!AgentAnswers(m) \/ Acp!AgentNotices(m)
    BY <1>1, <2>4, AcpReads
  <2>5. CASE Acp!Exit
    BY <1>1, <2>5, AcpExits
  <2> QED BY <2>1, <2>2, <2>3, <2>4, <2>5 DEF Acp!Serve
<1>3. Common'
  <2>1. NoRepeats(turn.requests)'
    BY <1>2 DEF AcpOwn, NoRepeats
  <2> QED BY <1>2, <2>1, LogKeptCommon DEF DriversInv, Keeps
<1> QED BY <1>1, <1>2, <1>3, Families DEF DriversInv

\* Codex.
LEMMA CodexSteps ==
  ASSUME DriversInv, IsCodex, UNCHANGED <<kind, unsaid>>,
         \/ Codex!Serve \/ Codex!FailStart \/ Codex!AgentReads \/ Codex!AgentBegins \/ Codex!AgentEnds
         \/ Codex!ThreadOpens
  PROVE  DriversInv' /\ Contract!StreamNext
<1>1. Shaped /\ CodexOwn /\ OnceEach /\ kind \in Kinds
  BY DEF DriversInv, Common, Shaped
<1>2. /\ Shaped' /\ CodexOwn' /\ Contract!StreamNext
      /\ LogKept /\ Dies /\ turn'.requests = turn.requests
      /\ calls' = calls \/ (calls # << >> /\ calls' = Tail(calls))
  <2>1. CASE \/ Codex!TakeWaiting("prompt") \/ Codex!TakeWaiting("goal")
             \/ Codex!TakeSteer \/ Codex!TakeCancel
    BY <1>1, <2>1, CodexTakes DEF Leaves, Keeps
  <2>2. CASE Codex!Refuse \/ Codex!Reject \/ Codex!Fail
    BY <1>1, <2>2, CodexTells DEF Leaves, Keeps
  <2>3. CASE Codex!ThreadKnown \/ Codex!ThreadUnknown \/ Codex!Write \/ Codex!WriteFails
    BY <1>1, <2>3, CodexWrites DEF Leaves, Keeps
  <2>4. CASE Codex!ThreadOpens \/ Codex!FailStart \/ Codex!AgentBegins \/ Codex!AgentEnds
    BY <1>1, <2>4, CodexAgent DEF Leaves, Keeps
  <2>5. CASE Codex!AgentReads
    BY <1>1, <2>5, CodexReads
  <2> QED BY <2>1, <2>2, <2>3, <2>4, <2>5 DEF Codex!Serve
<1>3. Common'
  <2>1. NoRepeats(turn.requests)'
    BY <1>2 DEF DriversInv, Common, NoRepeats
  <2> QED BY <1>2, <2>1, LogKeptCommon DEF DriversInv
<1> QED BY <1>1, <1>2, <1>3, Families DEF DriversInv

\* Pi and Oh My Pi.
LEMMA PiSteps ==
  ASSUME DriversInv, IsPi, UNCHANGED <<kind, unsaid>>,
         Pi!Serve \/ Pi!AgentReads \/ Pi!AgentBegins \/ Pi!AgentEnds
  PROVE  DriversInv' /\ Contract!StreamNext
<1>1. Shaped /\ PiOwn /\ kind \in Kinds
  BY DEF DriversInv, Common, Shaped
<1>2. /\ Shaped' /\ PiOwn' /\ Contract!StreamNext
      /\ LogKept /\ Dies /\ turn'.requests = turn.requests
      /\ calls' = calls \/ (calls # << >> /\ calls' = Tail(calls))
  <2>1. CASE Pi!SessionOpens \/ Pi!SessionFails
    BY <1>1, <2>1, PiOpens DEF Leaves, Keeps
  <2>2. CASE \E call \in {"prompt", "steer", "cancel", "goal"} : Pi!TakeCall(call)
    <3>1. PICK call \in {"prompt", "steer", "cancel", "goal"} : Pi!TakeCall(call)
      BY <2>2
    <3>2. Shaped' /\ PiOwn' /\ Leaves /\ Contract!StreamNext
      BY <1>1, <3>1, PiTakes
    <3> QED BY <3>2 DEF Leaves, Keeps
  <2>3. CASE Pi!Request \/ Pi!RequestFails \/ Pi!GoalFailed
    BY <1>1, <2>3, PiWrites DEF Leaves, Keeps
  <2>4. CASE \/ Pi!SessionRefused \/ Pi!FinishUnopened \/ Pi!Accept
             \/ Pi!SteerFailed \/ Pi!CancelFailed \/ Pi!PromptFailed \/ Pi!FinishFailed
    BY <1>1, <2>4, PiTells DEF Leaves, Keeps
  <2>5. CASE Pi!AgentReads
    BY <1>1, <2>5, PiReads
  <2>6. CASE Pi!AgentBegins \/ Pi!AgentEnds
    BY <1>1, <2>6, PiAgent DEF Leaves, Keeps
  <2> QED BY <2>1, <2>2, <2>3, <2>4, <2>5, <2>6 DEF Pi!Serve
<1>3. Common'
  <2>1. NoRepeats(turn.requests)'
    BY <1>2 DEF DriversInv, Common, NoRepeats
  <2> QED BY <1>2, <2>1, LogKeptCommon DEF DriversInv
<1> QED BY <1>1, <1>2, <1>3, Families DEF DriversInv

\* DeepSeek.
LEMMA DeepSeekSteps ==
  ASSUME DriversInv, IsDeepSeek, UNCHANGED <<kind, unsaid>>,
         \/ DeepSeek!Serve \/ DeepSeek!ReadOn \/ DeepSeek!AgentBegins \/ DeepSeek!AgentEnds
         \/ DeepSeek!LinkBreaks \/ DeepSeek!Downlink
  PROVE  DriversInv' /\ Contract!StreamNext
<1>1. Shaped /\ DeepSeekOwn /\ kind \in Kinds
  BY DEF DriversInv, Common, Shaped
<1>2. Shaped' /\ DeepSeekOwn' /\ Carries /\ Contract!StreamNext
  <2>1. CASE DeepSeek!TakePrompt \/ DeepSeek!TakeOther
    BY <1>1, <2>1, DeepSeekTakes
  <2>2. CASE DeepSeek!Connect
    BY <1>1, <2>2, DeepSeekConnects
  <2>3. CASE \/ DeepSeek!SendPrompt \/ DeepSeek!PromptFails \/ DeepSeek!Execute
             \/ DeepSeek!CancelTurn /\ UNCHANGED <<events, exited, history>>
    BY <1>1, <2>3, DeepSeekSends
  <2>4. CASE \/ DeepSeek!Greet \/ DeepSeek!Announce \/ DeepSeek!Fail \/ DeepSeek!Finish
             \/ DeepSeek!CancelTurn /\ ~ UNCHANGED <<events, exited, history>>
    BY <1>1, <2>4, DeepSeekTells
  <2>5. CASE DeepSeek!AnswerSteer
    BY <1>1, <2>5, DeepSeekAnswers
  <2>6. CASE DeepSeek!ReadOn
    BY <1>1, <2>6, DeepSeekReads
  <2>7. CASE DeepSeek!AgentBegins \/ DeepSeek!AgentEnds
    BY <1>1, <2>7, DeepSeekLogs
  <2>8. CASE DeepSeek!LinkBreaks \/ DeepSeek!Downlink
    BY <1>1, <2>8, DeepSeekLinks
  <2> QED BY <2>1, <2>2, <2>3, <2>4, <2>5, <2>6, <2>7, <2>8 DEF DeepSeek!Serve
<1>3. Common'
  <2>1. NoRepeats(turn.requests)' /\ agent'.goal = agent.goal
    BY <1>2 DEF DriversInv, Common, Carries, NoRepeats
  <2>2. Mortal' /\ Bounded'
    BY <1>2 DEF DeepSeekOwn
  <2> QED BY <1>2, <2>1, <2>2, CommonKept DEF DriversInv, Carries
<1> QED BY <1>1, <1>2, <1>3, Families DEF DriversInv

-----------------------------------------------------------------------------
\* What is due depends on what the driver and its provider are at.
LEMMA DuesKept ==
  ASSUME Shaped, UNCHANGED <<kind, server, wire, turn, reader>>,
         agent'.accepted = agent.accepted, agent'.works = agent.works, agent'.held = agent.held,
         agent'.log = agent.log, agent'.goal = agent.goal
  PROVE  /\ StartsDue' = StartsDue /\ FinishesDue' = FinishesDue
         /\ Steering' = Steering /\ Pursues' = Pursues
         /\ UNCHANGED <<IsPi, IsDeepSeek>>
<1>1. kind \in Kinds /\ kind' = kind
  BY DEF Shaped
<1>2. CASE HasFlag
  BY <1>1, <1>2, Families, FlagDues
     DEF Flag!StartsDue, Flag!FinishesDue, Flag!Steering, Flag!SteeringAt
<1>3. CASE IsAcp
  <2>1. /\ Acp!StartsDue' = Acp!StartsDue /\ Acp!FinishesDue' = Acp!FinishesDue
        /\ Acp!Steering' = Acp!Steering
    BY DEF Acp!StartsDue, Acp!FinishesDue, Acp!Steering, Acp!SteeringAt
  <2> QED BY <1>1, <1>3, <2>1, Families, AcpDues
<1>4. CASE IsCodex
  <2>1. /\ StartsDue = Codex!StartsDue /\ StartsDue' = Codex!StartsDue'
        /\ FinishesDue = Codex!FinishesDue /\ FinishesDue' = Codex!FinishesDue'
        /\ Steering = Codex!Steering /\ Steering' = Codex!Steering'
        /\ Pursues = Codex!Pursues /\ Pursues' = Codex!Pursues'
    BY <1>4 DEF StartsDue, FinishesDue, Steering, Pursues, HasFlag, IsAcp, IsCodex, IsPi, IsDeepSeek
  <2> QED BY <1>1, <1>4, <2>1, Families
          DEF Codex!StartsDue, Codex!Prompting, Codex!FinishesDue, Codex!Steering, Codex!SteeringAt, Codex!Pursues
<1>5. CASE IsPi
  <2>1. /\ StartsDue = Pi!StartsDue /\ StartsDue' = Pi!StartsDue'
        /\ FinishesDue = Pi!FinishesDue /\ FinishesDue' = Pi!FinishesDue'
        /\ Steering = Pi!Steering /\ Steering' = Pi!Steering'
        /\ Pursues = Pi!Pursues /\ Pursues' = Pi!Pursues'
    BY <1>5 DEF StartsDue, FinishesDue, Steering, Pursues, HasFlag, IsAcp, IsCodex, IsPi, IsDeepSeek
  <2>2. Pi!StartsDue' = Pi!StartsDue
    BY DEF Pi!StartsDue, Pi!InWire, Pi!Serving
  <2>3. Pi!FinishesDue' = Pi!FinishesDue
    BY DEF Pi!FinishesDue, Pi!InWire, Pi!Serving
  <2>4. Pi!Steering' = Pi!Steering /\ Pi!Pursues' = Pi!Pursues
    BY DEF Pi!Steering, Pi!SteeringAt, Pi!Pursues
  <2> QED BY <1>1, <1>5, <2>1, <2>2, <2>3, <2>4, Families
<1>6. CASE IsDeepSeek
  <2>1. /\ StartsDue = DeepSeek!StartsDue /\ StartsDue' = DeepSeek!StartsDue'
        /\ FinishesDue = DeepSeek!FinishesDue /\ FinishesDue' = DeepSeek!FinishesDue'
        /\ Steering = DeepSeek!Steering /\ Steering' = DeepSeek!Steering'
        /\ Pursues = FALSE /\ Pursues' = FALSE
    BY <1>6 DEF StartsDue, FinishesDue, Steering, Pursues, HasFlag, IsAcp, IsCodex, IsPi, IsDeepSeek
  <2>2. DeepSeek!Unseen("start")' = DeepSeek!Unseen("start") /\ DeepSeek!Unseen("end")' = DeepSeek!Unseen("end")
    BY DEF DeepSeek!Unseen
  <2> QED BY <1>1, <1>6, <2>1, <2>2, Families
          DEF DeepSeek!StartsDue, DeepSeek!FinishesDue, DeepSeek!Prompting, DeepSeek!Steering, DeepSeek!SteeringAt
<1> QED BY <1>1, <1>2, <1>3, <1>4, <1>5, <1>6, Families

\* The invariant depends on the threads, the log and the calls.
LEMMA InvKept ==
  ASSUME DriversInv, Shaped', OnceEach', Waiting' \subseteq Waiting,
         UNCHANGED <<kind, server, wire, turn, reader>>,
         agent'.works = agent.works, agent'.log = agent.log, agent'.goal = agent.goal,
         agent'.alive => agent.alive,
         exited' => exited \/ (~ IsDeepSeek /\ ~ agent'.alive)
  PROVE  DriversInv'
<1>1. Shaped /\ kind \in Kinds /\ kind' = kind
  BY DEF DriversInv, Common, Shaped
<1>2. Common'
  BY DEF DriversInv, Common, Mortal, Bounded, NoRepeats, IsCodex, IsPi
<1>3. HasFlag' => FlagOwn'
  BY <1>1, Families DEF DriversInv, FlagOwn
<1>4. IsAcp' => AcpOwn'
  BY <1>1, Families DEF DriversInv, AcpOwn, NoRepeats
<1>5. IsCodex' => CodexOwn'
  BY <1>1, Families DEF DriversInv, CodexOwn
<1>6. IsPi' => PiOwn'
  BY <1>1, Families DEF DriversInv, PiOwn
<1>7. IsDeepSeek' => DeepSeekOwn'
  BY <1>1, <1>2, Families DEF DriversInv, DeepSeekOwn, Common, Numbered
<1> QED BY <1>2, <1>3, <1>4, <1>5, <1>6, <1>7 DEF DriversInv

\* Nothing is waited for again when the client has less to call for.
LEMMA LessUnsaid ==
  ASSUME OnceEach, unsaid' \subseteq unsaid, calls' = calls
  PROVE  OnceEach' /\ Waiting' \subseteq Waiting
BY DEF OnceEach, Waiting, Says

-----------------------------------------------------------------------------
\* The client calls for something.
LEMMA ClientCallsStep ==
  ASSUME DriversInv, NEW c \in unsaid, ClientCalls(c)
  PROVE  DriversInv' /\ Contract!StreamNext
<1>1. /\ c \in Calls /\ calls \in Seq(Calls) /\ unsaid \subseteq Calls /\ Shaped /\ OnceEach
      /\ history \in Histories
  BY DEF DriversInv, Common, Shaped, Told
<1>2. /\ kind' = kind /\ UNCHANGED <<events, exited, server, wire, agent, turn, reader>>
      /\ calls' = Append(calls, c) /\ unsaid' = unsaid \ Uses(c)
      /\ history' = [history EXCEPT !.unanswered =
                       IF c.call = "steer" THEN history.unanswered \cup {c.message} ELSE history.unanswered]
  BY DEF ClientCalls
<1>3. history' \in Histories
  <2>1. (IF c.call = "steer" THEN history.unanswered \cup {c.message} ELSE history.unanswered) \subseteq Messages
    BY <1>1, CallShapes DEF Histories
  <2> QED BY <1>1, <1>2, <2>1 DEF Histories
<1>4. /\ calls' \in Seq(Calls) /\ Len(calls) \in Nat
      /\ DOMAIN calls = 1..Len(calls) /\ DOMAIN calls' = 1..(Len(calls) + 1)
      /\ \A i \in DOMAIN calls : i \in DOMAIN calls' /\ calls'[i] = calls[i] /\ calls[i] \in Calls
      /\ calls'[Len(calls) + 1] = c
      /\ \A i \in DOMAIN calls' : i \in DOMAIN calls \/ i = Len(calls) + 1
  <2>1. /\ Append(calls, c) \in Seq(Calls) /\ Len(Append(calls, c)) = Len(calls) + 1
        /\ \A i \in 1..Len(calls) : Append(calls, c)[i] = calls[i]
        /\ Append(calls, c)[Len(calls) + 1] = c
    BY <1>1, AppendProperties
  <2>2. /\ DOMAIN calls = 1..Len(calls) /\ DOMAIN calls' = 1..(Len(calls) + 1) /\ Len(calls) \in Nat
        /\ \A i \in 1..Len(calls) : calls[i] \in Calls
    BY <1>1, <1>2, <2>1, LenProperties, ElementOfSeq
  <2> QED BY <1>2, <2>1, <2>2
<1>5. Shaped'
  BY <1>1, <1>2, <1>3, <1>4 DEF Shaped, Told
<1>6. Says(c) => /\ c.message \in Messages
                 /\ Prompt(c.message) \notin unsaid' /\ Steer(c.message) \notin unsaid'
                 /\ Prompt(c.message) \in unsaid \/ Steer(c.message) \in unsaid
                 /\ \A i \in DOMAIN calls : Says(calls[i]) => calls[i].message # c.message
  <2>1. ASSUME Says(c)
        PROVE  /\ c.message \in Messages /\ c \in {Prompt(c.message), Steer(c.message)}
    BY <1>1, <2>1, CallShapes DEF Says
  <2>2. Says(c) => Uses(c) = {Prompt(c.message), Steer(c.message)}
    BY DEF Uses
  <2> QED BY <1>1, <1>2, <2>1, <2>2 DEF OnceEach
<1>7. OnceEach'
  <2>1. ASSUME NEW i \in DOMAIN calls', Says(calls'[i])
        PROVE  Prompt(calls'[i].message) \notin unsaid' /\ Steer(calls'[i].message) \notin unsaid'
    <3>1. CASE i \in DOMAIN calls
      BY <1>1, <1>2, <1>4, <2>1, <3>1 DEF OnceEach
    <3>2. CASE i = Len(calls) + 1
      BY <1>4, <1>6, <2>1, <3>2
    <3> QED BY <1>4, <2>1, <3>1, <3>2
  <2>2. ASSUME NEW i \in DOMAIN calls', NEW j \in DOMAIN calls', Says(calls'[i]), Says(calls'[j]),
               calls'[i].message = calls'[j].message
        PROVE  i = j
    <3>1. CASE i \in DOMAIN calls /\ j \in DOMAIN calls
      BY <1>1, <1>4, <2>2, <3>1 DEF OnceEach
    <3>2. CASE i \in DOMAIN calls /\ j = Len(calls) + 1
      BY <1>4, <1>6, <2>2, <3>2
    <3>3. CASE i = Len(calls) + 1 /\ j \in DOMAIN calls
      BY <1>4, <1>6, <2>2, <3>3
    <3> QED BY <1>4, <3>1, <3>2, <3>3
  <2>3. \A x : Says(x)' = Says(x)
    BY DEF Says
  <2> QED BY <2>1, <2>2 DEF OnceEach, Says
<1>8. Waiting' \subseteq Waiting
  <2>1. ASSUME NEW m \in Messages, NEW i \in DOMAIN calls', Says(calls'[i]), calls'[i].message = m
        PROVE  m \in Waiting
    <3>1. CASE i \in DOMAIN calls
      BY <1>4, <2>1, <3>1 DEF Waiting
    <3>2. CASE i = Len(calls) + 1
      BY <1>4, <1>6, <2>1, <3>2 DEF Waiting
    <3> QED BY <1>4, <2>1, <3>1, <3>2
  <2>2. ASSUME NEW m \in Messages, Prompt(m) \in unsaid' \/ Steer(m) \in unsaid'
        PROVE  m \in Waiting
    BY <1>2, <2>2 DEF Waiting
  <2> QED BY <2>1, <2>2 DEF Waiting, Says
<1>9. DriversInv'
  BY <1>2, <1>5, <1>7, <1>8, InvKept
<1>10. Contract!StreamNext
  BY <1>1, <1>2, DuesKept, IsCalled
<1> QED BY <1>9, <1>10

\* The client reads an event.
LEMMA EventReadStep ==
  ASSUME DriversInv, EventRead
  PROVE  DriversInv' /\ Contract!StreamNext
<1>1. Shaped /\ OnceEach /\ events \in Seq(Events)
  BY DEF DriversInv, Common, Shaped, Told
<1>2. /\ events # << >> /\ events' = Tail(events)
      /\ UNCHANGED <<kind, unsaid, calls, exited, server, wire, agent, turn, reader, history>>
  BY DEF EventRead
<1>3. events' \in Seq(Events)
  BY <1>1, <1>2, HeadTailProperties
<1>4. Shaped'
  BY <1>1, <1>2, <1>3 DEF Shaped, Told
<1>5. DriversInv'
  BY <1>1, <1>2, <1>4, LessUnsaid, InvKept
<1>6. Contract!StreamNext
  BY <1>1, <1>2, DuesKept, IsRead
<1> QED BY <1>5, <1>6

\* The provider dies, or is killed; to the client nothing has happened.
LEMMA DyingStep ==
  ASSUME DriversInv,
         (AgentDies /\ UNCHANGED <<kind, unsaid>>) \/ Flag!KillAmp
  PROVE  DriversInv' /\ UNCHANGED Contract!streamVars
<1>0. agent' \in {agent, [agent EXCEPT !.alive = FALSE]}
  BY DEF AgentDies, Flag!KillAmp
<1>1. /\ UNCHANGED <<kind, calls, events, exited, server, wire, turn, reader, history>>
      /\ unsaid' \subseteq unsaid
  BY DEF AgentDies, AgentOnly, Flag!KillAmp, Flag!AgentOnly
<1>2. Shaped /\ OnceEach /\ agent \in Agents /\ kind \in Kinds
  BY DEF DriversInv, Common, Shaped
<1>3. /\ agent' \in Agents
      /\ agent'.alive => agent.alive
      /\ agent'.accepted = agent.accepted /\ agent'.works = agent.works /\ agent'.held = agent.held
      /\ agent'.log = agent.log /\ agent'.goal = agent.goal
  <2>1. CASE agent' = agent
    BY <1>2, <2>1
  <2>2. CASE agent' = [agent EXCEPT !.alive = FALSE]
    BY <1>2, <2>2 DEF Agents
  <2> QED BY <1>0, <2>1, <2>2
<1>4. Shaped'
  BY <1>1, <1>2, <1>3 DEF Shaped, Told
<1>5. DriversInv'
  BY <1>1, <1>2, <1>3, <1>4, LessUnsaid, InvKept
<1>6. UNCHANGED Contract!streamVars
  BY <1>1, <1>2, <1>3, DuesKept DEF Contract!streamVars
<1> QED BY <1>5, <1>6

\* The exit of a process that has no worker for its connection.
LEMMA ExitStep ==
  ASSUME DriversInv, ~ IsAcp, ~ IsDeepSeek, ProcessExits, UNCHANGED <<kind, unsaid, server>>
  PROVE  DriversInv' /\ Contract!StreamNext
<1>1. /\ ~ agent.alive /\ ~ exited /\ Emit(Signal("ProcessExited"))
      /\ UNCHANGED <<calls, wire, agent, turn, reader>>
  BY DEF ProcessExits
<1>2. Shaped /\ OnceEach /\ Told
  BY DEF DriversInv, Common, Shaped
<1>3. Told' /\ events' = Append(events, Signal("ProcessExited")) /\ exited'
  BY <1>1, <1>2, EmitTells, EventsMade
<1>4. exited' \in BOOLEAN /\ exited' = TRUE
  BY <1>3 DEF Told
<1>5. Shaped'
  BY <1>1, <1>2, <1>3 DEF Shaped
<1>6. DriversInv'
  BY <1>1, <1>2, <1>5, LessUnsaid, InvKept
<1>7. Contract!StreamNext
  BY <1>1, <1>2, <1>3, <1>4, DuesKept, Exits
<1> QED BY <1>6, <1>7

\* A goal begins a turn.
LEMMA PursuesStep ==
  ASSUME DriversInv, AgentPursues, UNCHANGED <<kind, unsaid>>
  PROVE  DriversInv' /\ Contract!StreamNext
<1>1. /\ UNCHANGED <<calls, events, exited, server, wire, turn, reader, history>>
      /\ agent.alive /\ agent.goal /\ agent.accepted = 0
      /\ agent' = [agent EXCEPT !.accepted = 1, !.pursuits = agent.pursuits + 1]
  BY DEF AgentPursues, AgentOnly
<1>2. Shaped /\ OnceEach /\ agent \in Agents /\ kind \in Kinds /\ ~ exited
  BY <1>1 DEF DriversInv, Common, Shaped, Mortal
<1>3. /\ agent' \in Agents /\ agent'.alive = agent.alive /\ agent'.works = agent.works
      /\ agent'.log = agent.log /\ agent'.goal = agent.goal /\ agent'.accepted = 1
  <2>1. agent.pursuits \in Nat /\ agent.pursuits + 1 \in Nat
    BY <1>2 DEF Agents
  <2> QED BY <1>1, <1>2, <2>1 DEF Agents
<1>4. Shaped'
  BY <1>1, <1>2, <1>3 DEF Shaped, Told
<1>5. DriversInv'
  BY <1>1, <1>2, <1>3, <1>4, LessUnsaid, InvKept
<1>6. Pursues /\ Pursues' = Pursues /\ Steering' = Steering
      /\ StartsDue \in Nat /\ FinishesDue \in Nat
      /\ StartsDue' = StartsDue + 1 /\ FinishesDue' = FinishesDue + 1
  <2>1. CASE IsCodex
    <3>1. /\ Awaits' = Awaits /\ Rejected' = Rejected /\ Works' = Works /\ (WantsGoal' <=> WantsGoal)
      BY <1>1, <1>3 DEF Awaits, Rejected, Works, WantsGoal
    <3>2. /\ StartsDue = Awaits + 0 + Cardinality(PromptsIn(wire))
          /\ StartsDue' = Awaits + 1 + Cardinality(PromptsIn(wire))
          /\ FinishesDue = StartsDue + Works /\ FinishesDue' = StartsDue' + Works
      BY <1>1, <1>3, <2>1, <3>1, CodexDues
    <3>3. /\ Awaits \in Nat /\ Works \in Nat /\ Cardinality(PromptsIn(wire)) \in Nat
      BY <1>2, CodexCounts
    <3>4. /\ StartsDue \in Nat /\ FinishesDue \in Nat
          /\ StartsDue' = StartsDue + 1 /\ FinishesDue' = FinishesDue + 1
      BY ONLY <3>2, <3>3
    <3>5. Pursues /\ Pursues' = Pursues /\ Steering' = Steering
      BY <1>1, <1>3, <2>1, <3>1, CodexDues
    <3> QED BY <3>4, <3>5
  <2>2. CASE IsPi
    <3>1. /\ Requesting' = Requesting /\ Requested' = Requested /\ Unopened' = Unopened
          /\ Unanswered' = Unanswered /\ Works' = Works /\ (AsksGoal' <=> AsksGoal)
      BY <1>1, <1>3 DEF Requesting, Requested, Unopened, Unanswered, Works, AsksGoal
    <3>2. /\ StartsDue = 0 + Cardinality(PromptsIn(wire)) + Requesting
          /\ StartsDue' = 1 + Cardinality(PromptsIn(wire)) + Requesting
          /\ FinishesDue = 0 + Cardinality(PromptsIn(wire)) + Works + 2 * Requesting + Requested + Unopened
          /\ FinishesDue' = 1 + Cardinality(PromptsIn(wire)) + Works + 2 * Requesting + Requested + Unopened
      BY <1>1, <1>2, <1>3, <1>4, <2>2, <3>1, PiDues
    <3>3. /\ Requesting \in Nat /\ Requested \in Nat /\ Unopened \in Nat /\ Works \in Nat
          /\ Cardinality(PromptsIn(wire)) \in Nat
      BY <1>2, <1>4, <2>2, PiCounts
    <3>4. /\ StartsDue \in Nat /\ FinishesDue \in Nat
          /\ StartsDue' = StartsDue + 1 /\ FinishesDue' = FinishesDue + 1
      BY ONLY <3>2, <3>3
    <3>5. Pursues /\ Pursues' = Pursues /\ Steering' = Steering
      BY <1>1, <1>2, <1>3, <1>4, <2>2, <3>1, PiDues
    <3> QED BY <3>4, <3>5
  <2> QED BY <1>1, <2>1, <2>2 DEF DriversInv, Common
<1>7. AtMost(StartsDue + 1, FinishesDue + 1)
  BY <1>6 DEF AtMost
<1>8. Contract!StreamNext
  BY <1>1, <1>2, <1>6, <1>7, Resumes
<1> QED BY <1>5, <1>8

-----------------------------------------------------------------------------
\* A driver that was just started is idle, and may find a turn to go on with.
LEMMA Starts ==
  ASSUME FrameInit
  PROVE  /\ Shaped /\ OnceEach /\ NoRepeats(turn.requests)
         /\ calls = << >> /\ events = << >> /\ exited = FALSE /\ server = Free /\ wire = << >>
         /\ turn = NewTurn /\ reader = Idle /\ kind \in Kinds
         /\ agent.alive /\ agent.accepted = 0 /\ agent.goal = FALSE
         /\ \/ agent.works = FALSE /\ agent.log = << >>
            \/ /\ agent.works = TRUE /\ agent.log = <<"start">>
               /\ kind \in {"OpenCode", "DeepSeek"}
<1>1. /\ kind \in Kinds /\ unsaid \subseteq Calls
      /\ calls = << >> /\ events = << >> /\ exited = FALSE /\ server = Free /\ wire = << >>
      /\ turn = NewTurn /\ reader = Idle
      /\ history = [running |-> FALSE, mixed |-> FALSE, lost |-> FALSE, unanswered |-> {}]
  BY AsksAssumption DEF FrameInit
<1>2. /\ agent \in Agents /\ agent.alive /\ agent.accepted = 0 /\ agent.goal = FALSE
      /\ \/ agent.works = FALSE /\ agent.log = << >>
         \/ /\ agent.works = TRUE /\ agent.log = <<"start">>
            /\ kind \in {"OpenCode", "DeepSeek"}
  <2>1. NewAgent \in Agents /\ <<"start">> \in Seq(Entries)
    <3>1. << >> \in Seq(Entries) /\ <<"start">> \in Seq(Entries)
      BY DEF Entries
    <3> QED BY <3>1 DEF NewAgent, Agents
  <2>2. CASE agent = NewAgent
    BY <2>1, <2>2 DEF NewAgent
  <2>3. CASE agent = [NewAgent EXCEPT !.works = TRUE, !.log = <<"start">>] /\ kind \in {"OpenCode", "DeepSeek"}
    <3>1. agent.works = TRUE /\ agent.log = <<"start">> /\ agent \in Agents
      BY <2>1, <2>3 DEF Agents
    <3>2. agent.alive /\ agent.accepted = 0 /\ agent.goal = FALSE
      BY <2>3 DEF NewAgent
    <3> QED BY <2>3, <3>1, <3>2
  <2> QED BY <2>2, <2>3 DEF FrameInit
<1>3. turn \in TurnRecords /\ history \in Histories /\ server \in Servers /\ reader \in Readers
  <2>1. << >> \in Seq(Messages) /\ << >> \in Seq(Envelopes)
    OBVIOUS
  <2> QED BY <1>1, <2>1, ServersMade, ReadersMade DEF NewTurn, TurnRecords, Histories
<1>4. << >> \in Seq(Calls) /\ << >> \in Seq(Events)
  OBVIOUS
<1>5. Shaped
  BY <1>1, <1>2, <1>3, <1>4 DEF Shaped, Told
<1>6. OnceEach /\ NoRepeats(turn.requests)
  BY <1>1 DEF OnceEach, NoRepeats, NewTurn
<1> QED BY <1>1, <1>2, <1>5, <1>6

\* Its log says so.
LEMMA StartsLog ==
  ASSUME FrameInit
  PROVE  /\ agent.works => Len(agent.log) = 1 /\ agent.log[1] = "start"
         /\ DOMAIN agent.log = {} \/ (DOMAIN agent.log = {1} /\ agent.log[1] = "start")
         /\ DOMAIN wire = {}
<1>1. DOMAIN wire = {}
  <2>1. wire = << >>
    BY Starts
  <2> QED BY <2>1
<1>2. CASE agent.works = FALSE /\ agent.log = << >>
  <2>1. DOMAIN << >> = {}
    OBVIOUS
  <2> QED BY <1>1, <1>2, <2>1
<1>3. CASE agent.works = TRUE /\ agent.log = <<"start">>
  <2>1. Len(<<"start">>) = 1 /\ <<"start">>[1] = "start" /\ DOMAIN <<"start">> = 1..1 /\ 1..1 = {1}
    OBVIOUS
  <2> QED BY <1>1, <1>3, <2>1
<1>4. (agent.works = FALSE /\ agent.log = << >>) \/ (agent.works = TRUE /\ agent.log = <<"start">>)
  BY Starts
<1> QED BY <1>2, <1>3, <1>4

\* A driver that was just started satisfies the invariant.
LEMMA StartsInv ==
  ASSUME FrameInit
  PROVE  DriversInv
<1>1. Shaped /\ server.at = "free" /\ reader.at = "idle"
  BY Starts, ServersMade, ReadersMade
<1>2. /\ turn.requests = << >> /\ turn.steers = {} /\ turn.stream = << >> /\ turn.seen = 0
      /\ turn.open = FALSE /\ turn.active = FALSE
  BY Starts DEF NewTurn
<1>3. Common
  <2>1. Bounded
    BY <1>1, <1>2, Starts DEF Bounded
  <2> QED BY <2>1, Starts DEF Common, Mortal
<1>4. FlagOwn /\ AcpOwn
  BY <1>1, <1>2 DEF FlagOwn, AcpOwn, NoRepeats
<1>5. CodexOwn
  BY <1>1, <1>2, Starts DEF CodexOwn
<1>6. IsPi => PiOwn
  BY <1>1, <1>2, Starts DEF PiOwn, IsPi
<1>7. DeepSeekOwn
  <2>1. Numbered
    BY <1>2 DEF Numbered
  <2>2. agent.works => \E n \in 1..Len(agent.log) : n > turn.seen /\ agent.log[n] = "start"
    <3>1. agent.works => Len(agent.log) = 1 /\ agent.log[1] = "start"
      BY StartsLog
    <3> QED BY <1>2, <3>1
  <2> QED BY <1>1, <1>3, <2>1, <2>2, Starts DEF DeepSeekOwn, Common
<1> QED BY <1>3, <1>4, <1>5, <1>6, <1>7 DEF DriversInv

\* At most one announcement and one end are due: of the turn that was found.
LEMMA StartsContract ==
  ASSUME FrameInit
  PROVE  Contract!StreamInit
<1>1. Shaped /\ server.at = "free" /\ reader.at = "idle" /\ kind \in Kinds
  BY Starts, ServersMade, ReadersMade
<1>2. /\ turn.requests = << >> /\ turn.steers = {} /\ turn.seen = 0
      /\ turn.open = FALSE /\ turn.active = FALSE
  BY Starts DEF NewTurn
<1>3. /\ kind \in {"Claude", "Amp", "OpenCode", "Cursor", "Grok", "Kimi", "Fx", "Codex",
                   "Pi", "OhMyPi", "DeepSeek"}
  BY <1>1, KindsAssumption
<1>4. StartsDue \in {0, 1} /\ FinishesDue \in {0, 1} /\ Steering = {} /\ Pursues = FALSE
  <2>1. CASE HasFlag
    <3>1. /\ StartsDue = Flag!StartsDue /\ FinishesDue = Flag!FinishesDue
          /\ Steering = Flag!Steering /\ Pursues = FALSE
      BY <2>1 DEF StartsDue, FinishesDue, Steering, Pursues, HasFlag, IsAcp, IsCodex, IsPi, IsDeepSeek
    <3> QED BY <1>1, <1>2, <3>1 DEF Flag!StartsDue, Flag!FinishesDue, Flag!Steering, Flag!SteeringAt
  <2>2. CASE IsAcp
    <3>1. /\ StartsDue = Acp!StartsDue /\ FinishesDue = Acp!FinishesDue
          /\ Steering = Acp!Steering /\ Pursues = FALSE
      BY <2>2 DEF StartsDue, FinishesDue, Steering, Pursues, HasFlag, IsAcp, IsCodex, IsPi, IsDeepSeek
    <3> QED BY <1>1, <1>2, <3>1 DEF Acp!StartsDue, Acp!FinishesDue, Acp!Steering, Acp!SteeringAt
  <2>3. CASE IsCodex
    <3>1. /\ StartsDue = Codex!StartsDue /\ FinishesDue = Codex!FinishesDue
          /\ Steering = Codex!Steering /\ Pursues = Codex!Pursues
      BY <2>3 DEF StartsDue, FinishesDue, Steering, Pursues, HasFlag, IsAcp, IsCodex, IsPi, IsDeepSeek
    <3>2. /\ Codex!Cardinality({i \in DOMAIN wire : wire[i].call = "prompt"}) = 0
          /\ Codex!Goal \notin Codex!Range(wire) /\ agent.works = FALSE
      <4>1. Codex!Cardinality({}) = Cardinality({})
        BY DEF Codex!Cardinality, Cardinality
      <4>2. agent.works = FALSE
        BY <2>3, Starts DEF IsCodex
      <4>3. {i \in DOMAIN wire : wire[i].call = "prompt"} = {} /\ Codex!Range(wire) = {}
        BY StartsLog DEF Codex!Range
      <4> QED BY <4>1, <4>2, <4>3, FS_EmptySet
    <3>3. Codex!StartsDue = 0
      <4>1. ~ Codex!Prompting /\ agent.accepted = 0
        BY <1>1, Starts DEF Codex!Prompting
      <4> QED BY <3>2, <4>1 DEF Codex!StartsDue
    <3>4. Codex!FinishesDue = 0
      BY <3>2, <3>3 DEF Codex!FinishesDue
    <3>5. Codex!Steering = {}
      BY <1>1, <1>2 DEF Codex!Steering, Codex!SteeringAt
    <3>6. Codex!Pursues = FALSE
      BY <1>1, <3>2, Starts DEF Codex!Pursues
    <3> QED BY <3>1, <3>3, <3>4, <3>5, <3>6
  <2>4. CASE IsPi
    <3>1. /\ StartsDue = Pi!StartsDue /\ FinishesDue = Pi!FinishesDue
          /\ Steering = Pi!Steering /\ Pursues = Pi!Pursues
      BY <2>4 DEF StartsDue, FinishesDue, Steering, Pursues, HasFlag, IsAcp, IsCodex, IsPi, IsDeepSeek
    <3>2. /\ Pi!InWire = 0 /\ Pi!Goal \notin Pi!Range(wire) /\ agent.works = FALSE
      <4>1. Pi!Cardinality({}) = Cardinality({})
        BY DEF Pi!Cardinality, Cardinality
      <4>2. {i \in DOMAIN wire : wire[i].call = "prompt"} = {} /\ Pi!Range(wire) = {}
        BY StartsLog DEF Pi!Range
      <4>3. agent.works = FALSE
        BY <2>4, Starts DEF IsPi
      <4> QED BY <4>1, <4>2, <4>3, FS_EmptySet DEF Pi!InWire
    <3>3. Pi!StartsDue = 0 /\ Pi!FinishesDue \in {0, 1}
      BY <1>1, <1>2, <3>2, Starts DEF Pi!StartsDue, Pi!FinishesDue, Pi!Serving
    <3> QED BY <1>1, <1>2, <3>1, <3>2, <3>3, Starts DEF Pi!Steering, Pi!SteeringAt, Pi!Pursues
  <2>5. CASE IsDeepSeek
    <3>1. /\ StartsDue = DeepSeek!StartsDue /\ FinishesDue = DeepSeek!FinishesDue
          /\ Steering = DeepSeek!Steering /\ Pursues = FALSE
      BY <2>5 DEF StartsDue, FinishesDue, Steering, Pursues, HasFlag, IsAcp, IsCodex, IsPi, IsDeepSeek
    <3>2. DeepSeek!Unseen("start") \in {0, 1} /\ DeepSeek!Unseen("end") = 0
      <4>1. \A S : DeepSeek!Cardinality(S) = Cardinality(S)
        BY DEF DeepSeek!Cardinality, Cardinality
      <4>2. DOMAIN agent.log = {} \/ (DOMAIN agent.log = {1} /\ agent.log[1] = "start")
        BY StartsLog
      <4>3. /\ {n \in DOMAIN agent.log : n > turn.seen /\ agent.log[n] = "start"} \in {{}, {1}}
            /\ {n \in DOMAIN agent.log : n > turn.seen /\ agent.log[n] = "end"} = {}
        BY <1>2, <4>2
      <4>4. Cardinality({}) = 0 /\ Cardinality({1}) = 1
        BY FS_EmptySet, FS_Singleton
      <4> QED BY <4>1, <4>3, <4>4 DEF DeepSeek!Unseen
    <3>3. DeepSeek!StartsDue \in {0, 1} /\ DeepSeek!FinishesDue \in {0, 1}
      BY <1>1, <1>2, <3>2, Starts DEF DeepSeek!StartsDue, DeepSeek!FinishesDue, DeepSeek!Prompting
    <3> QED BY <1>1, <1>2, <3>1, <3>3 DEF DeepSeek!Steering, DeepSeek!SteeringAt
  <2> QED BY <1>1, <2>1, <2>2, <2>3, <2>4, <2>5, <1>3 DEF HasFlag, IsAcp, IsCodex, IsPi, IsDeepSeek
<1>5. (IF IsPi \/ IsDeepSeek THEN 2 ELSE 1) \in {1, 2} /\ IsDeepSeek \in BOOLEAN
  BY DEF IsDeepSeek
<1> QED BY <1>4, <1>5, Starts DEF Contract!StreamInit

-----------------------------------------------------------------------------
\* Every step keeps the invariant, and is a step of the contract or none.
LEMMA DriversStep ==
  ASSUME DriversInv, [DriversNext]_frameVars
  PROVE  DriversInv' /\ [Contract!StreamNext]_(Contract!streamVars)
<1>1. Shaped /\ OnceEach /\ kind \in Kinds
  BY DEF DriversInv, Common, Shaped
<1>2. CASE ClientNext
  <2>1. CASE \E c \in unsaid : ClientCalls(c)
    BY <2>1, ClientCallsStep
  <2>2. CASE Flag!KillAmp
    BY <2>2, DyingStep
  <2>3. CASE EventRead
    BY <2>3, EventReadStep
  <2> QED BY <1>2, <2>1, <2>2, <2>3 DEF ClientNext
<1>3. CASE DriverNext /\ Same
  <2>1. UNCHANGED <<kind, unsaid>>
    BY <1>3 DEF Same
  <2>2. CASE Serve
    BY <2>1, <2>2, FlagSteps, AcpSteps, CodexSteps, PiSteps, DeepSeekSteps DEF Serve
  <2>3. CASE ReadOn
    BY <2>1, <2>3, FlagSteps, AcpSteps, CodexSteps, DeepSeekSteps DEF ReadOn
  <2>4. CASE Exit
    <3>1. CASE IsAcp /\ Acp!Exit
      BY <2>1, <3>1, AcpSteps
    <3>2. CASE ~ IsAcp /\ ~ IsDeepSeek /\ ProcessExits /\ UNCHANGED server
      BY <2>1, <3>2, ExitStep
    <3> QED BY <2>4, <3>1, <3>2 DEF Exit
  <2>5. CASE Downlink
    BY <2>1, <2>5, DeepSeekSteps DEF Downlink
  <2> QED BY <1>3, <2>2, <2>3, <2>4, <2>5 DEF DriverNext
<1>4. CASE AgentNext /\ Same
  <2>1. UNCHANGED <<kind, unsaid>>
    BY <1>4 DEF Same
  <2>2. CASE AgentReads
    BY <2>1, <2>2, FlagSteps, AcpSteps, CodexSteps, PiSteps DEF AgentReads
  <2>3. CASE AgentBegins
    BY <2>1, <2>3, CodexSteps, PiSteps, DeepSeekSteps DEF AgentBegins
  <2>4. CASE AgentEnds
    BY <2>1, <2>4, FlagSteps, AcpSteps, CodexSteps, PiSteps, DeepSeekSteps DEF AgentEnds
  <2>5. CASE AgentPursues
    BY <2>1, <2>5, PursuesStep
  <2>6. CASE AgentDies
    BY <2>1, <2>6, DyingStep
  <2>7. CASE IsAcp /\ \E m \in agent.held : Acp!AgentNotices(m)
    BY <2>1, <2>7, AcpSteps
  <2>8. CASE IsCodex /\ Codex!ThreadOpens
    BY <2>1, <2>8, CodexSteps
  <2>9. CASE IsDeepSeek /\ DeepSeek!LinkBreaks
    BY <2>1, <2>9, DeepSeekSteps
  <2> QED BY <1>4, <2>2, <2>3, <2>4, <2>5, <2>6, <2>7, <2>8, <2>9 DEF AgentNext
<1>5. CASE UNCHANGED frameVars
  <2>1. UNCHANGED <<kind, unsaid, calls, events, exited, server, wire, agent, turn, reader, history>>
    BY <1>5 DEF frameVars
  <2>2. Shaped'
    BY <1>1, <2>1 DEF Shaped, Told
  <2>3. DriversInv'
    BY <1>1, <2>1, <2>2, LessUnsaid, InvKept
  <2>4. UNCHANGED Contract!streamVars
    BY <1>1, <2>1, DuesKept DEF Contract!streamVars
  <2> QED BY <2>3, <2>4
<1> QED BY <1>2, <1>3, <1>4, <1>5 DEF DriversNext

\* A sequence without repetitions has as many members as places.
LEMMA DistinctMembers ==
  ASSUME NEW S, NEW s \in Seq(S), NoRepeats(s)
  PROVE  Range(s) \subseteq S /\ Cardinality(Range(s)) = Len(s)
<1>1. Len(s) \in Nat /\ DOMAIN s = 1..Len(s) /\ \A i \in 1..Len(s) : s[i] \in S
  BY LenProperties, ElementOfSeq
<1>2. Range(s) \subseteq S
  BY <1>1 DEF Range
<1>3. s \in Injection(1..Len(s), Range(s))
  BY <1>1 DEF Injection, IsInjective, NoRepeats, Range
<1>4. s \in Surjection(1..Len(s), Range(s))
  BY <1>1, <1>3 DEF Surjection, Injection, Range
<1>5. ExistsBijection(1..Len(s), Range(s))
  BY <1>3, <1>4 DEF ExistsBijection, Bijection
<1>6. IsFiniteSet(1..Len(s)) /\ Cardinality(1..Len(s)) = Len(s)
  <2>1. IsFiniteSet(1..Len(s))
        /\ Cardinality(1..Len(s)) = IF 1 > Len(s) THEN 0 ELSE Len(s) - 1 + 1
    BY <1>1, FS_Interval
  <2> QED BY <1>1, <2>1
<1> QED BY <1>2, <1>5, <1>6, FS_Bijection

\* The values are of their types, and as the threads' steps leave them.
LEMMA DriversTyped ==
  ASSUME DriversInv
  PROVE  DriversTypeOK
<1>1. Shaped /\ Mortal /\ Bounded /\ NoRepeats(turn.requests) /\ Told
  BY DEF DriversInv, Common, Shaped
<1>2. /\ kind \in Kinds /\ unsaid \subseteq Calls /\ calls \in Seq(Calls) /\ wire \in Seq(Calls)
      /\ events \in Seq(Events) /\ server \in Servers /\ reader \in Readers
      /\ agent \in Agents /\ turn \in TurnRecords /\ history \in Histories
  BY <1>1 DEF Shaped, Told
<1>3. reader \in {Idle, [at |-> "failing"], [at |-> "leaving"]}
                   \cup [at : {"ended", "finishing"}, ok : BOOLEAN]
                   \cup [at : {"replaying"}, upto : 1..Len(agent.log)]
  BY <1>1, <1>2 DEF Readers, Bounded
<1>4. turn.requests \in Seq(Messages) /\ turn.steers \subseteq Messages
      /\ agent.held \subseteq Messages /\ agent.noticed \subseteq Messages
      /\ history.unanswered \subseteq Messages
  BY <1>2 DEF Agents, TurnRecords, Histories
<1>5. Range(turn.requests) \subseteq Messages /\ Cardinality(Range(turn.requests)) = Len(turn.requests)
  BY <1>1, <1>4, DistinctMembers
<1> QED BY <1>1, <1>2, <1>3, <1>4, <1>5 DEF DriversTypeOK, Servers, Bounded, Mortal

-----------------------------------------------------------------------------
\* The invariant of the drivers holds in every state, whatever the kind.
THEOREM DriversInductive == DriversSpec => []DriversInv
<1>1. FrameInit => DriversInv
  BY StartsInv
<1>2. DriversInv /\ [DriversNext]_frameVars => DriversInv'
  BY DriversStep
<1> QED BY <1>1, <1>2, PTL DEF DriversSpec

\* A driver's state is typed; its requests are distinct, what its worker knows
\* of the event log is in the log, and no exit is told of a living process.
THEOREM DriversTypesCorrect == DriversSpec => []DriversTypeOK
<1>1. DriversInv => DriversTypeOK
  BY DriversTyped
<1> QED BY <1>1, DriversInductive, PTL

\* Every driver keeps the contract of TurnStream, whatever calls are made and
\* whatever the provider does: calls are served in order, a turn is announced
\* or finished as often as it was asked for at most, a steer is answered once
\* at most, and the exit is told once.
THEOREM DriversKeepContract == DriversSpec => KeepsContract
<1>1. FrameInit => Contract!StreamInit
  BY StartsContract
<1>2. DriversInv /\ [DriversNext]_frameVars => [Contract!StreamNext]_(Contract!streamVars)
  BY DriversStep
<1> QED BY <1>1, <1>2, DriversInductive, PTL DEF DriversSpec, KeepsContract, Contract!StreamSpec
====
