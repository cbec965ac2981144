-------------------------- MODULE MCEventDelivery ---------------------------
(* EventDelivery for TLC: one session, connections numbered in order of use. *)
(* The instance is the union of two: up to three successive connections and  *)
(* a restart; and two connections with another client that replaces the      *)
(* runtime. Once the second connection has broken, what the environment does *)
(* is limited; steps of the client's threads never are, so that the fairness *)
(* assumed of them is met.                                                   *)
EXTENDS EventDelivery

WithinInstance ==
  2 \in opened \ subscribers =>
    /\ epoch = 0 \/ Len(published) <= 1
    /\ ~ closed
    /\ begun[Session] \in {<< >>, <<Followed>>}

MCFairSpec == DeliveryInit /\ [][DeliveryNext /\ WithinInstance']_deliveryVars /\ Fairness
=============================================================================
