---------------------------- MODULE EventStream ----------------------------
(***************************************************************************)
(* What the daemon, the client and the forwarder together promise the      *)
(* desktop about one provider runtime: its events arrive in the order they *)
(* were published, none twice, and an end is reported only when the        *)
(* runtime has ended or said so itself.                                    *)
(***************************************************************************)
EXTENDS Integers, Sequences

CONSTANTS Kinds,  \* what an event says
          Exited  \* the kind of the runtime's own last event

VARIABLES
  alive,      \* the daemon runs the runtime
  published,  \* the kinds of the runtime's events, in order
  delivered,  \* which of them the desktop was given: positions in published
  ended       \* the desktop was told that the runtime has ended

streamVars == <<alive, published, delivered, ended>>

LastDelivered == IF delivered = << >> THEN 0 ELSE delivered[Len(delivered)]

StreamInit ==
  /\ alive = FALSE /\ published = << >>
  /\ delivered = << >> /\ ended = FALSE

Begin ==
  /\ ~ alive /\ published = << >> /\ ~ ended
  /\ alive' = TRUE
  /\ UNCHANGED <<published, delivered, ended>>

PublishKind(kind) ==
  /\ alive
  /\ published' = Append(published, kind)
  /\ UNCHANGED <<alive, delivered, ended>>

Stop ==
  /\ alive
  /\ alive' = FALSE
  /\ UNCHANGED <<published, delivered, ended>>

\* The runtime's own exit event ends the stream; any other leaves it open.
Deliver(position) ==
  /\ ~ ended
  /\ position \in (LastDelivered + 1)..Len(published)
  /\ delivered' = Append(delivered, position)
  /\ ended' = (published[position] = Exited)
  /\ UNCHANGED <<alive, published>>

\* The daemon answered that it no longer runs the runtime.
ReportEnd ==
  /\ ~ ended /\ ~ alive
  /\ ended' = TRUE
  /\ UNCHANGED <<alive, published, delivered>>

StreamNext ==
  \/ Begin \/ Stop \/ ReportEnd
  \/ \E kind \in Kinds : PublishKind(kind)
  \/ \E position \in 1..Len(published) : Deliver(position)

StreamSpec == StreamInit /\ [][StreamNext]_streamVars
=============================================================================
