--------------------------- MODULE SettingsWriter ---------------------------
(***************************************************************************)
(* How the desktop's settings reach the daemon (DaemonSupervisor in        *)
(* crates/waku-client/src/process.rs): update_settings on the UI thread,   *)
(* queue_settings_refresh after a daemon was replaced, and the writer      *)
(* thread persist_settings, around two mutexes and an unbounded channel.   *)
(***************************************************************************)
EXTENDS Integers, Sequences

CONSTANTS
  Values,       \* settings documents
  Initial,      \* the one the daemon starts with
  Unknown,      \* persisted_settings is None
  MaxUpdates,   \* bound of a run: calls of update_settings
  MaxReplaced,  \* bound of a run: daemon replacements
  MaxFailures   \* bound of a run: requests without an answer

ASSUME SettingsAssumption == Initial \in Values /\ Unknown \notin Values
ASSUME SettingsBoundsAssumption ==
  MaxUpdates \in Nat /\ MaxReplaced \in Nat /\ MaxFailures \in Nat

VARIABLES
  settings,   \* SupervisorInner::settings, what the user wants
  persisted,  \* SupervisorInner::persisted_settings
  channel,    \* settings_updates
  ui,         \* update_settings: done, checking, sending
  refresher,  \* queue_settings_refresh: done, clearing, sending
  refreshed,  \* the settings it read
  writer,     \* persist_settings: receiving, preparing, requesting, applied
  writing,    \* its `settings`
  daemon,     \* the settings the daemon keeps (DaemonSettingsStore)
  updates, replaced, failures,
  \* History:
  skipped     \* an update was dropped as already persisted while another was on its way

settingsVars == <<settings, persisted, channel, ui, refresher, refreshed, writer, writing,
                  daemon, updates, replaced, failures, skipped>>

\* read_settings: the desktop begins with what the daemon has.
SettingsInit ==
  /\ settings = Initial /\ daemon = Initial /\ persisted = Unknown
  /\ channel = << >>
  /\ ui = "done" /\ refresher = "done" /\ refreshed = Initial
  /\ writer = "receiving" /\ writing = Initial
  /\ updates = 0 /\ replaced = 0 /\ failures = 0 /\ skipped = FALSE

-----------------------------------------------------------------------------
\* update_settings: store, compare with what is persisted, send.

UpdateSettings(value) ==
  /\ ui = "done" /\ updates < MaxUpdates
  /\ updates' = updates + 1
  /\ settings' = value
  /\ ui' = "checking"
  /\ skipped' = FALSE
  /\ UNCHANGED <<persisted, channel, refresher, refreshed, writer, writing, daemon, replaced,
                 failures>>

\* Another value is queued, or on its way to the daemon.
OtherOnItsWay ==
  \/ writer # "receiving" /\ writing # settings
  \/ channel # << >>

CheckPersisted ==
  /\ ui = "checking"
  /\ ui' = IF persisted = settings THEN "done" ELSE "sending"
  /\ skipped' = (persisted = settings /\ OtherOnItsWay)
  /\ UNCHANGED <<settings, persisted, channel, refresher, refreshed, writer, writing, daemon,
                 updates, replaced, failures>>

SendUpdate ==
  /\ ui = "sending"
  /\ channel' = Append(channel, settings)
  /\ ui' = "done"
  /\ UNCHANGED <<settings, persisted, refresher, refreshed, writer, writing, daemon, updates,
                 replaced, failures, skipped>>

-----------------------------------------------------------------------------
\* queue_settings_refresh, when another daemon process took over.

DaemonReplaced ==
  /\ refresher = "done" /\ replaced < MaxReplaced
  /\ replaced' = replaced + 1
  /\ refreshed' = settings
  /\ refresher' = "clearing"
  /\ UNCHANGED <<settings, persisted, channel, ui, writer, writing, daemon, updates, failures,
                 skipped>>

ForgetPersisted ==
  /\ refresher = "clearing"
  /\ persisted' = Unknown
  /\ refresher' = "sending"
  /\ UNCHANGED <<settings, channel, ui, refreshed, writer, writing, daemon, updates, replaced,
                 failures, skipped>>

SendRefresh ==
  /\ refresher = "sending"
  /\ channel' = Append(channel, refreshed)
  /\ refresher' = "done"
  /\ UNCHANGED <<settings, persisted, ui, refreshed, writer, writing, daemon, updates, replaced,
                 failures, skipped>>

-----------------------------------------------------------------------------
\* persist_settings.

\* recv, then try_recv until the channel is empty: only the newest is kept.
ReceiveNewest ==
  /\ writer = "receiving" /\ channel # << >>
  /\ writing' = channel[Len(channel)]
  /\ channel' = << >>
  /\ writer' = "preparing"
  /\ UNCHANGED <<settings, persisted, ui, refresher, refreshed, daemon, updates, replaced,
                 failures, skipped>>

\* Writing what was received, without looking at what is wanted now.
PrepareReceived ==
  /\ writer = "preparing"
  /\ writer' = "requesting"
  /\ UNCHANGED <<settings, persisted, channel, ui, refresher, refreshed, writing, daemon,
                 updates, replaced, failures, skipped>>

\* Reading persisted_settings in place of settings.
PreparePersisted ==
  /\ writer = "preparing"
  /\ writing' = persisted
  /\ writer' = "requesting"
  /\ UNCHANGED <<settings, persisted, channel, ui, refresher, refreshed, daemon, updates,
                 replaced, failures, skipped>>

\* Each attempt writes what is wanted when it begins.
Prepare ==
  /\ writer = "preparing"
  /\ writing' = settings
  /\ writer' = "requesting"
  /\ UNCHANGED <<settings, persisted, channel, ui, refresher, refreshed, daemon, updates,
                 replaced, failures, skipped>>

\* The daemon's UpdateSettings.
DaemonApplies ==
  /\ writer = "requesting"
  /\ daemon' = writing
  /\ writer' = "applied"
  /\ UNCHANGED <<settings, persisted, channel, ui, refresher, refreshed, writing, updates,
                 replaced, failures, skipped>>

\* Recording the newest wish, not what was written.
AcknowledgeWanted ==
  /\ writer = "applied"
  /\ persisted' = settings
  /\ writer' = "receiving"
  /\ UNCHANGED <<settings, channel, ui, refresher, refreshed, writing, daemon, updates, replaced,
                 failures, skipped>>

Acknowledged ==
  /\ writer = "applied"
  /\ persisted' = writing
  /\ writer' = "receiving"
  /\ UNCHANGED <<settings, channel, ui, refresher, refreshed, writing, daemon, updates, replaced,
                 failures, skipped>>

\* The connection ends before or after the daemon applied it: try again.
RequestFails ==
  /\ writer \in {"requesting", "applied"}
  /\ failures < MaxFailures
  /\ failures' = failures + 1
  /\ writer' = "preparing"
  /\ UNCHANGED <<settings, persisted, channel, ui, refresher, refreshed, writing, daemon,
                 updates, replaced, skipped>>

-----------------------------------------------------------------------------
UiNext == CheckPersisted \/ SendUpdate
RefresherNext == ForgetPersisted \/ SendRefresh
WriterNext == ReceiveNewest \/ Prepare \/ DaemonApplies \/ Acknowledged \/ RequestFails

SettingsNext ==
  \/ \E value \in Values : UpdateSettings(value)
  \/ DaemonReplaced
  \/ UiNext \/ RefresherNext \/ WriterNext

\* Every thread runs on; every request ends.
SettingsSpec ==
  /\ SettingsInit /\ [][SettingsNext]_settingsVars
  /\ WF_settingsVars(UiNext) /\ WF_settingsVars(RefresherNext) /\ WF_settingsVars(WriterNext)

-----------------------------------------------------------------------------
(***************************************************************************)
(* Properties.                                                             *)
(***************************************************************************)

\* The type of every variable.
SettingsTypeOK ==
  /\ settings \in Values /\ refreshed \in Values /\ writing \in Values /\ daemon \in Values
  /\ persisted \in Values \cup {Unknown}
  /\ channel \in Seq(Values)
  /\ ui \in {"done", "checking", "sending"}
  /\ refresher \in {"done", "clearing", "sending"}
  /\ writer \in {"receiving", "preparing", "requesting", "applied"}
  /\ updates \in 0..MaxUpdates /\ replaced \in 0..MaxReplaced /\ failures \in 0..MaxFailures
  /\ skipped \in BOOLEAN

(***************************************************************************)
(* What the supervisor believes the daemon has, it has, unless the writer  *)
(* is in the middle of a request: update_settings may skip only then what  *)
(* the daemon lacks.                                                       *)
(***************************************************************************)
PersistedIsCurrent ==
  writer = "receiving" /\ persisted # Unknown => daemon = persisted

(***************************************************************************)
(* When nothing is queued, nothing is written and no update is checked or  *)
(* sent, the daemon has what the user wants, unless the last update was    *)
(* skipped as persisted while another value was on its way.                *)
(***************************************************************************)
SettledIsCurrent ==
  writer = "receiving" /\ channel = << >> /\ ui = "done" /\ ~ skipped => daemon = settings

\* At rest the supervisor is right about the daemon, and the daemon is current.
SettingsInvariant == PersistedIsCurrent /\ SettledIsCurrent

(***************************************************************************)
(* Whatever fails or is replaced, the daemon ends up with what the user    *)
(* wanted last, unless that update was skipped as persisted while another  *)
(* value was on its way (persist_settings' retries and re-read).           *)
(***************************************************************************)
SettlesUnlessSkipped == []<>(daemon = settings \/ skipped)
=============================================================================
