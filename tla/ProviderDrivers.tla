--------------------------- MODULE ProviderDrivers ---------------------------
(***************************************************************************)
(* Any one provider driver, its process and its client, and that it keeps  *)
(* the contract of TurnStream (driver/mod.rs, start_local chooses the      *)
(* driver).                                                                *)
(***************************************************************************)
EXTENDS DriverFrame

Flag == INSTANCE FlagDrivers
Acp == INSTANCE AcpDriver
Codex == INSTANCE CodexDriver
Pi == INSTANCE PiDriver
DeepSeek == INSTANCE DeepSeekDriver

HasFlag == kind \in {"Claude", "Amp", "OpenCode"}
IsAcp == kind \in {"Cursor", "Grok", "Kimi", "Fx"}
IsCodex == kind = "Codex"
IsPi == kind \in {"Pi", "OhMyPi"}
IsDeepSeek == kind = "DeepSeek"

Same == UNCHANGED <<kind, unsaid>>

Serve ==
  \/ HasFlag /\ Flag!Serve
  \/ IsAcp /\ Acp!Serve
  \/ IsCodex /\ Codex!Serve
  \/ IsPi /\ Pi!Serve
  \/ IsDeepSeek /\ DeepSeek!Serve

ReadOn ==
  \/ HasFlag /\ Flag!ReadOn
  \/ IsAcp /\ Acp!ReadOn
  \/ IsCodex /\ Codex!FailStart
  \/ IsDeepSeek /\ DeepSeek!ReadOn

Exit ==
  \/ IsAcp /\ Acp!Exit
  \/ ~IsAcp /\ ~IsDeepSeek /\ ProcessExits /\ UNCHANGED server

AgentReads ==
  \/ HasFlag /\ Flag!AgentReads
  \/ IsAcp /\ Acp!AgentReads
  \/ IsCodex /\ Codex!AgentReads
  \/ IsPi /\ Pi!AgentReads

AgentBegins ==
  \/ IsCodex /\ Codex!AgentBegins
  \/ IsPi /\ Pi!AgentBegins
  \/ IsDeepSeek /\ DeepSeek!AgentBegins

AgentEnds ==
  \/ HasFlag /\ Flag!AgentEnds
  \/ IsAcp /\ \E m \in agent.held : Acp!AgentAnswers(m)
  \/ IsCodex /\ Codex!AgentEnds
  \/ IsPi /\ Pi!AgentEnds
  \/ IsDeepSeek /\ DeepSeek!AgentEnds

\* A provider whose input was closed exits.
AgentLeaves == server = Stopped /\ AgentDies

AgentNext ==
  \/ AgentReads \/ AgentBegins \/ AgentEnds \/ AgentPursues \/ AgentDies
  \/ IsAcp /\ \E m \in agent.held : Acp!AgentNotices(m)
  \/ IsCodex /\ Codex!ThreadOpens
  \/ IsDeepSeek /\ DeepSeek!LinkBreaks

Downlink == IsDeepSeek /\ DeepSeek!Downlink

DriverNext == Serve \/ ReadOn \/ Exit \/ Downlink

ClientNext ==
  \/ \E c \in unsaid : ClientCalls(c)
  \/ Flag!KillAmp
  \/ EventRead

DriversNext == ClientNext \/ ((DriverNext \/ AgentNext) /\ Same)

DriversSpec == FrameInit /\ [][DriversNext]_frameVars

\* Threads run, and a provider reads, answers, begins and ends what it was
\* given, or dies.
Fairness ==
  /\ WF_frameVars(Serve /\ Same) /\ WF_frameVars(ReadOn /\ Same)
  /\ WF_frameVars(Exit /\ Same) /\ WF_frameVars(Downlink /\ Same)
  /\ WF_frameVars(AgentReads /\ Same) /\ WF_frameVars(AgentBegins /\ Same)
  /\ WF_frameVars(AgentEnds /\ Same) /\ WF_frameVars(AgentLeaves /\ Same)
  /\ WF_frameVars(EventRead)

FairDriversSpec == DriversSpec /\ Fairness

-----------------------------------------------------------------------------
\* Types; and nothing is done for a call while none is served.
Places == {"announcing", "waiting", "writing", "awaiting", "accepting", "rejecting",
           "refusing", "refused", "failed", "settling", "finishing"}

DriversTypeOK ==
  /\ kind \in Kinds
  /\ unsaid \subseteq Calls
  /\ calls \in Seq(Calls) /\ wire \in Seq(Calls) /\ events \in Seq(Events)
  /\ server \in {Free, Stopped, [at |-> "closing"], [at |-> "greeting"]} \cup [at : Places, call : Calls]
  /\ reader \in {Idle, [at |-> "failing"], [at |-> "leaving"]}
                \cup [at : {"ended", "finishing"}, ok : BOOLEAN]
                \cup [at : {"replaying"}, upto : 1..Len(agent.log)]
  /\ turn.seen \in 0..Len(agent.log)
  /\ exited => ~agent.alive
  /\ turn.steers \cup Range(turn.requests) \cup agent.held \cup agent.noticed \subseteq Messages
  /\ Cardinality(Range(turn.requests)) = Len(turn.requests)
  /\ history.unanswered \subseteq Messages

\* What the contract sees of a driver.
StartsDue ==
  CASE HasFlag -> Flag!StartsDue [] IsAcp -> Acp!StartsDue
    [] IsCodex -> Codex!StartsDue [] IsPi -> Pi!StartsDue [] IsDeepSeek -> DeepSeek!StartsDue
FinishesDue ==
  CASE HasFlag -> Flag!FinishesDue [] IsAcp -> Acp!FinishesDue
    [] IsCodex -> Codex!FinishesDue [] IsPi -> Pi!FinishesDue [] IsDeepSeek -> DeepSeek!FinishesDue
Steering ==
  CASE HasFlag -> Flag!Steering [] IsAcp -> Acp!Steering
    [] IsCodex -> Codex!Steering [] IsPi -> Pi!Steering [] IsDeepSeek -> DeepSeek!Steering
Pursues ==
  CASE IsCodex -> Codex!Pursues [] IsPi -> Pi!Pursues [] OTHER -> FALSE

Contract ==
  INSTANCE TurnStream WITH
    Forgoes <- TRUE,
    starts <- StartsDue, finishes <- FinishesDue,
    steering <- Steering, pursues <- Pursues,
    attempts <- IF IsPi \/ IsDeepSeek THEN 2 ELSE 1,
    eager <- IsDeepSeek

\* Every driver keeps the contract: calls in order, no turn announced or
\* finished that was not asked for, none twice, one answer to a steer, one exit.
KeepsContract == Contract!StreamSpec

\* Every steer is answered, unless the provider's exit is reported.
SteersAreReported ==
  \A m \in Messages : (m \in history.unanswered) ~> (m \notin history.unanswered \/ exited)

\* A turn that was announced ends, with TurnFinished or with the exit.  Four
\* cases are known not to: an error of Amp, which its driver takes for chatter;
\* a prompt sent while the turn before still ran, whose end the earlier turn's
\* can take away; and the ends history.lost records, in a part of DeepSeek's log
\* that was not fetched, or told by OpenCode before its event stream was open.
TurnsEnd ==
  (history.running /\ kind # "Amp") ~> (~history.running \/ (HasFlag /\ history.mixed) \/ history.lost)
=============================================================================
