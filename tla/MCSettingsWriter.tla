-------------------------- MODULE MCSettingsWriter ---------------------------
(* SettingsWriter for TLC.                                                   *)
EXTENDS SettingsWriter
=============================================================================
