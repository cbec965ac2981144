-------------------------- MODULE MCProviderDrivers --------------------------
(* ProviderDrivers for TLC.                                                  *)
EXTENDS ProviderDrivers

CONSTANTS m1, m2

Sends(messages) == {Prompt(m) : m \in messages} \cup {Steer(m) : m \in messages}

\* Each message is sent once, and Stop is pressed once; a goal is set where
\* there are goals.  DeepSeek, whose event log makes for many states, is asked
\* for less at a time.
AsksOf(k) ==
  CASE k \in {"Codex", "Pi"} -> {Sends({m1, m2}) \cup {Cancel, Goal}}
    [] k = "DeepSeek" -> {Sends({m1}) \cup {Prompt(m2)}, Sends({m1}) \cup {Cancel}}
    [] OTHER -> {Sends({m1, m2}) \cup {Cancel}}
=============================================================================
