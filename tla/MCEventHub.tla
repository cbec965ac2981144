---------------------------- MODULE MCEventHub -----------------------------
(* EventHub for TLC: small sets of model values, interchangeable.          *)
EXTENDS EventHub, TLC

MCSymmetry ==
  Permutations(Sessions) \cup Permutations(Runtimes) \cup Permutations(Connections)
=============================================================================
