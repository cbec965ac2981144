--------------------------- MODULE MCRuntimeActor ---------------------------
(* RuntimeActor for TLC.  Runtimes stay distinguishable: a symmetry set and *)
(* a liveness property do not go together.                                  *)
EXTENDS RuntimeActor
=============================================================================
