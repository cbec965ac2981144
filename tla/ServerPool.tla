----------------------------- MODULE ServerPool -----------------------------
(***************************************************************************)
(* One slot of the pool of provider servers                                *)
(* (crates/waku-core/src/opencode_pool.rs; deepseek_pool.rs has the same   *)
(* code with one slot per executable).                                     *)
(*                                                                         *)
(* Sessions acquire a handle, an Arc<PoolInner>, on threads of their own.   *)
(* The slot holds the server weakly; whoever drops the last handle         *)
(* runs PoolInner's destructor, which stops the process.  The slot's mutex *)
(* is held for one step everywhere but in that destructor, which keeps it  *)
(* while the process stops.                                                *)
(***************************************************************************)
EXTENDS Integers

CONSTANTS
  Sessions,    \* threads that acquire a server
  Servers,     \* server processes, each with its PoolInner
  NoServer,    \* no handle
  MaxAcquires  \* bound of a run: calls of acquire

ASSUME NoServerAssumption == NoServer \notin Servers
ASSUME AcquiresAssumption == MaxAcquires \in Nat

VARIABLES
  slotState,   \* PoolState of the slot: vacant, starting, running, stopping
  slotServer,  \* the Weak<PoolInner> of PoolState::Running
  process,     \* the child of each server: none, alive, exited
  phase,       \* where each session's thread is
  handle,      \* the server each session's thread is concerned with
  acquires,
  \* History:
  stopped      \* servers the pool has stopped

poolVars == <<slotState, slotServer, process, phase, handle, acquires, stopped>>

(***************************************************************************)
(* idle; acquiring (about to lock the slot) and waiting (on `changed`);    *)
(* superseding, discarding, launching and starting, which replace or begin *)
(* the slot's server; holding; dropping and stopping, in the destructor.   *)
(***************************************************************************)
Phases == {"idle", "acquiring", "waiting", "superseding", "discarding", "launching",
           "starting", "holding", "dropping", "stopping"}

\* The threads with a strong reference to a server.
Holders(g) == {s \in Sessions : handle[s] = g /\ phase[s] \in {"holding", "superseding"}}

LockFree == slotState # "stopping"

PoolInit ==
  /\ slotState = "vacant" /\ slotServer = NoServer
  /\ process = [g \in Servers |-> "none"]
  /\ phase = [s \in Sessions |-> "idle"]
  /\ handle = [s \in Sessions |-> NoServer]
  /\ acquires = 0 /\ stopped = {}

-----------------------------------------------------------------------------
\* acquire_with_start.

Acquire(s) ==
  /\ phase[s] = "idle" /\ acquires < MaxAcquires
  /\ acquires' = acquires + 1
  /\ phase' = [phase EXCEPT ![s] = "acquiring"]
  /\ UNCHANGED <<slotState, slotServer, process, handle, stopped>>

\* The slot's server without Weak::upgrade's look at the number of handles.
AdoptAnyway(s) ==
  /\ phase[s] = "acquiring" /\ slotState = "running"
  /\ process[slotServer] = "alive"
  /\ phase' = [phase EXCEPT ![s] = "holding"]
  /\ handle' = [handle EXCEPT ![s] = slotServer]
  /\ UNCHANGED <<slotState, slotServer, process, acquires, stopped>>

\* The slot's server runs and somebody holds it: share it.
Adopt(s) ==
  /\ phase[s] = "acquiring" /\ slotState = "running"
  /\ Holders(slotServer) # {} /\ process[slotServer] = "alive"
  /\ phase' = [phase EXCEPT ![s] = "holding"]
  /\ handle' = [handle EXCEPT ![s] = slotServer]
  /\ UNCHANGED <<slotState, slotServer, process, acquires, stopped>>

\* Somebody holds it, but its process has exited: replace it.
Supersede(s) ==
  /\ phase[s] = "acquiring" /\ slotState = "running"
  /\ Holders(slotServer) # {} /\ process[slotServer] = "exited"
  /\ slotState' = "starting"
  /\ phase' = [phase EXCEPT ![s] = "superseding"]
  /\ handle' = [handle EXCEPT ![s] = slotServer]
  /\ UNCHANGED <<slotServer, process, acquires, stopped>>

\* The last handle is being dropped, or another thread starts a server.
WaitForChange(s) ==
  /\ phase[s] = "acquiring"
  /\ \/ slotState = "running" /\ Holders(slotServer) = {}
     \/ slotState = "starting"
  /\ phase' = [phase EXCEPT ![s] = "waiting"]
  /\ UNCHANGED <<slotState, slotServer, process, handle, acquires, stopped>>

ClaimVacant(s) ==
  /\ phase[s] = "acquiring" /\ slotState = "vacant"
  /\ slotState' = "starting"
  /\ phase' = [phase EXCEPT ![s] = "launching"]
  /\ UNCHANGED <<slotServer, process, handle, acquires, stopped>>

\* Keeping the superseded reference across the start.
KeepSuperseded(s) ==
  /\ phase[s] = "superseding"
  /\ phase' = [phase EXCEPT ![s] = "launching"]
  /\ UNCHANGED <<slotState, slotServer, process, handle, acquires, stopped>>

\* drop(superseded), after the lock was released.
DropSuperseded(s) ==
  /\ phase[s] = "superseding"
  /\ IF Holders(handle[s]) = {s}
       THEN phase' = [phase EXCEPT ![s] = "discarding"] /\ UNCHANGED handle
       ELSE /\ phase' = [phase EXCEPT ![s] = "launching"]
            /\ handle' = [handle EXCEPT ![s] = NoServer]
  /\ UNCHANGED <<slotState, slotServer, process, acquires, stopped>>

\* start: the process is spawned, then asked for its health.
Launch(s, g) ==
  /\ phase[s] = "launching" /\ process[g] = "none"
  /\ process' = [process EXCEPT ![g] = "alive"]
  /\ phase' = [phase EXCEPT ![s] = "starting"]
  /\ handle' = [handle EXCEPT ![s] = g]
  /\ UNCHANGED <<slotState, slotServer, acquires, stopped>>

\* changed.notify_all, while thread s moves to phase p.
NotifyAll(s, p) ==
  phase' = [t \in Sessions |-> IF t = s THEN p
                               ELSE IF phase[t] = "waiting" THEN "acquiring" ELSE phase[t]]

StartSucceeds(s) ==
  /\ phase[s] = "starting" /\ LockFree
  /\ slotState' = "running" /\ slotServer' = handle[s]
  /\ NotifyAll(s, "holding")
  /\ UNCHANGED <<process, handle, acquires, stopped>>

\* A start that fails and tells nobody.
StartFailsSilently(s) ==
  /\ phase[s] = "starting" /\ LockFree
  /\ process' = [process EXCEPT ![handle[s]] = "exited"]
  /\ slotState' = "vacant"
  /\ phase' = [phase EXCEPT ![s] = "idle"]
  /\ handle' = [handle EXCEPT ![s] = NoServer]
  /\ UNCHANGED <<slotServer, acquires, stopped>>

\* The server did not answer: dropping it kills the process.
StartFails(s) ==
  /\ phase[s] = "starting" /\ LockFree
  /\ process' = [process EXCEPT ![handle[s]] = "exited"]
  /\ slotState' = "vacant"
  /\ NotifyAll(s, "idle")
  /\ handle' = [handle EXCEPT ![s] = NoServer]
  /\ UNCHANGED <<slotServer, acquires, stopped>>

\* The process could not be spawned.
SpawnFails(s) ==
  /\ phase[s] = "launching" /\ LockFree
  /\ slotState' = "vacant"
  /\ NotifyAll(s, "idle")
  /\ UNCHANGED <<slotServer, process, handle, acquires, stopped>>

-----------------------------------------------------------------------------
\* Handles and PoolInner's destructor.

\* A driver is dropped.  The last handle's thread goes on into the destructor.
Release(s) ==
  /\ phase[s] = "holding"
  /\ IF Holders(handle[s]) = {s}
       THEN phase' = [phase EXCEPT ![s] = "dropping"] /\ UNCHANGED handle
       ELSE /\ phase' = [phase EXCEPT ![s] = "idle"]
            /\ handle' = [handle EXCEPT ![s] = NoServer]
  /\ UNCHANGED <<slotState, slotServer, process, acquires, stopped>>

\* The destructor's check without the comparison of the server.
IsAnyRunning(g) == slotState = "running"

\* The slot still refers to this server.
IsCurrent(g) == slotState = "running" /\ slotServer = g

\* The slot's own server: the lock is kept until the process has exited ...
BeginStop(s) ==
  /\ phase[s] \in {"dropping", "discarding"} /\ IsCurrent(handle[s])
  /\ slotState' = "stopping"
  /\ phase' = [phase EXCEPT ![s] = "stopping"]
  /\ UNCHANGED <<slotServer, process, handle, acquires, stopped>>

\* (The slot vacated while the process runs on.)
VacateEarly(s) ==
  /\ phase[s] = "stopping"
  /\ stopped' = stopped \cup {handle[s]}
  /\ slotState' = "vacant"
  /\ NotifyAll(s, "idle")
  /\ handle' = [handle EXCEPT ![s] = NoServer]
  /\ UNCHANGED <<slotServer, process, acquires>>

\* ... when the slot becomes vacant ...
EndStop(s) ==
  /\ phase[s] = "stopping"
  /\ process' = [process EXCEPT ![handle[s]] = "exited"]
  /\ stopped' = stopped \cup {handle[s]}
  /\ slotState' = "vacant"
  /\ NotifyAll(s, "idle")
  /\ handle' = [handle EXCEPT ![s] = NoServer]
  /\ UNCHANGED <<slotServer, acquires>>

\* ... a superseded one's process is reaped without touching the slot.
Reap(s) ==
  /\ phase[s] \in {"dropping", "discarding"} /\ LockFree /\ ~ IsCurrent(handle[s])
  /\ process' = [process EXCEPT ![handle[s]] = "exited"]
  /\ stopped' = stopped \cup {handle[s]}
  /\ phase' = [phase EXCEPT ![s] = IF phase[s] = "discarding" THEN "launching" ELSE "idle"]
  /\ handle' = [handle EXCEPT ![s] = NoServer]
  /\ UNCHANGED <<slotState, slotServer, acquires>>

-----------------------------------------------------------------------------
\* A process ends by itself.
ProcessExits(g) ==
  /\ process[g] = "alive"
  /\ process' = [process EXCEPT ![g] = "exited"]
  /\ UNCHANGED <<slotState, slotServer, phase, handle, acquires, stopped>>

\* A condition variable may wake its waiters for no reason.
SpuriousWakeup(s) ==
  /\ phase[s] = "waiting"
  /\ phase' = [phase EXCEPT ![s] = "acquiring"]
  /\ UNCHANGED <<slotState, slotServer, process, handle, acquires, stopped>>

AcquireStep(s) ==
  \/ Adopt(s) \/ Supersede(s) \/ WaitForChange(s) \/ ClaimVacant(s) \/ DropSuperseded(s)
  \/ \E g \in Servers : Launch(s, g)
  \/ StartSucceeds(s) \/ StartFails(s) \/ SpawnFails(s)

DropStep(s) == BeginStop(s) \/ EndStop(s) \/ Reap(s)

PoolNext ==
  \/ \E s \in Sessions :
       Acquire(s) \/ AcquireStep(s) \/ Release(s) \/ DropStep(s) \/ SpuriousWakeup(s)
  \/ \E g \in Servers : ProcessExits(g)

PoolSpec == PoolInit /\ [][PoolNext]_poolVars

\* A thread in acquire or in a destructor runs on; when to drop a handle is
\* the user's choice.
FairPoolSpec ==
  PoolSpec /\ \A s \in Sessions : WF_poolVars(AcquireStep(s) \/ DropStep(s))

-----------------------------------------------------------------------------
(***************************************************************************)
(* Properties.                                                             *)
(***************************************************************************)

\* The type of every variable, and which phases are about a server.
PoolTypeOK ==
  /\ slotState \in {"vacant", "starting", "running", "stopping"}
  /\ slotServer \in Servers \cup {NoServer}
  /\ process \in [Servers -> {"none", "alive", "exited"}]
  /\ phase \in [Sessions -> Phases]
  /\ handle \in [Sessions -> Servers \cup {NoServer}]
  /\ \A s \in Sessions :
       handle[s] = NoServer <=> phase[s] \in {"idle", "acquiring", "waiting", "launching"}
  /\ acquires \in Nat
  /\ stopped \subseteq Servers

(***************************************************************************)
(* "no contention between two `opencode serve` instances in the same       *)
(* directory" (opencode_pool.rs:5-6): at most one process of the slot      *)
(* runs, also while one is started or stopped and when one was replaced    *)
(* after it exited.                                                        *)
(***************************************************************************)
OneServer ==
  \A g, h \in Servers : process[g] = "alive" /\ process[h] = "alive" => g = h

(***************************************************************************)
(* The pool never stops a server somebody holds, and nobody is handed one  *)
(* that it is stopping: "a session starting right after it cannot adopt a  *)
(* dying process" (opencode_pool.rs:22-23).                                *)
(***************************************************************************)
HeldServerRuns ==
  \A s \in Sessions :
    phase[s] = "holding" =>
      /\ handle[s] \notin stopped
      /\ \A t \in Sessions : handle[t] = handle[s] => phase[t] \in {"holding", "superseding"}

(***************************************************************************)
(* Every acquire returns, a handle or an error: the notifications reach    *)
(* whoever waits for a start or a stop, also for one that failed.          *)
(***************************************************************************)
AcquireEnds ==
  \A s \in Sessions : phase[s] = "acquiring" ~> phase[s] \in {"holding", "idle"}

(***************************************************************************)
(* "The server is killed when the last session using it drops"             *)
(* (opencode_pool.rs:6-7): a process nobody holds ends.                    *)
(***************************************************************************)
UnusedServerEnds ==
  \A g \in Servers :
    (process[g] = "alive" /\ Holders(g) = {}) ~> (process[g] = "exited" \/ Holders(g) # {})
=============================================================================
