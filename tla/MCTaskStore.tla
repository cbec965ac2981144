----------------------------- MODULE MCTaskStore -----------------------------
(* TaskStore for TLC: the desktops are the first numbers, and the titles may *)
(* be exchanged. The instance is the union of two: two desktops with one     *)
(* save under way and no failure, for stale projections; and one desktop     *)
(* with MaxSent saves under way and MaxFaults failures, for their order.     *)
EXTENDS TaskStore, TLC

ASSUME ClientsAreFirst == Clients = 1..BagCardinality(SetToBag(Clients))

TitlesMayBeExchanged == Permutations(Titles)

\* A desktop that knows no task.
Idle(c) ==
  /\ local[c] = [s \in Sessions |-> NoTask]
  /\ unsaved[c] = {} /\ attached[c] = {}

WithinInstance ==
  \/ \A c \in Clients \ {1} : Idle(c)
  \/ faults = 0 /\ BagCardinality(sent) + BagCardinality(saving) <= 1

MCTaskSpec == TaskInit /\ [][TaskNext /\ WithinInstance']_taskVars
=============================================================================
