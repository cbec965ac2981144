---------------------------- MODULE DriverEvents ----------------------------
(***************************************************************************)
(* What passes between a provider driver and the client that holds its     *)
(* handle: the calls of DriverControl and the events of DriverEvent that   *)
(* are about turns (crates/waku-core/src/driver/mod.rs).                   *)
(***************************************************************************)
EXTENDS Integers, Sequences

CONSTANT Messages  \* the texts a user can send

Prompt(m) == [call |-> "prompt", message |-> m]
Steer(m)  == [call |-> "steer", message |-> m]
Cancel    == [call |-> "cancel"]
Goal      == [call |-> "goal"]

Calls == {Prompt(m) : m \in Messages} \cup {Steer(m) : m \in Messages} \cup {Cancel, Goal}

Signal(kind)        == [event |-> kind]
TurnFinished(ok)    == [event |-> "TurnFinished", success |-> ok]
SteerAccepted(m)    == [event |-> "SteerAccepted", message |-> m]
SteerRejected(m)    == [event |-> "SteerRejected", message |-> m]

\* An output is any event that belongs to the running turn; Permission is one
\* that asks the user something.
Chatter == {Signal(k) : k \in {"Connected", "Output", "Permission", "Error"}}

Events == Chatter \cup {Signal("TurnStarted"), Signal("ProcessExited")}
            \cup {TurnFinished(ok) : ok \in BOOLEAN}
            \cup {SteerAccepted(m) : m \in Messages} \cup {SteerRejected(m) : m \in Messages}
=============================================================================
