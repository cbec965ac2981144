---------------------------- MODULE MCWebClient ----------------------------
(* WebClient for TLC: one session, sockets numbered in order of use.         *)
EXTENDS WebClient, TLC

RuntimesMayBeExchanged == Permutations(Runtimes)
=============================================================================
