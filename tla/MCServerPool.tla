---------------------------- MODULE MCServerPool ----------------------------
(* ServerPool for TLC: no more servers than calls of acquire.               *)
EXTENDS ServerPool

ASSUME EnoughServers == Servers = 1..MaxAcquires
=============================================================================
