---------------------------- MODULE MCDesktopTurn ----------------------------
(* DesktopTurn for TLC.                                                      *)
EXTENDS DesktopTurn

\* A Codex task has goals instead: fewer turns, and no events but the ones
\* every turn has.
NoiseOf(provider) ==
  IF provider = "Codex" THEN {}
  ELSE {Signal(kind) : kind \in {"Connected", "Error", "Permission"}}

CONSTANTS m1, m2

TextsOf(provider) == IF provider = "Codex" THEN {m1} ELSE {m1, m2}

Quiet(provider) == {}

TurnsOf(provider) == IF provider = "Codex" THEN 1 ELSE 2
=============================================================================
