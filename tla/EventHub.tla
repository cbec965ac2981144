------------------------------ MODULE EventHub ------------------------------
(***************************************************************************)
(* The daemon's event hub (crates/waku-core/src/server.rs, struct Hub).    *)
(*                                                                         *)
(* The hub numbers the events of the one active runtime of each session,   *)
(* keeps the newest ones in a replay journal, and sends every event to the *)
(* channel of each subscribed connection.  Every operation runs under the  *)
(* one mutex of HubState, so each is one action here.                      *)
(*                                                                         *)
(* A connection's channel and the socket behind it are one FIFO, kept as   *)
(* the sequence of everything put into it; nothing relates the events of   *)
(* two sessions, so there is one FIFO per connection and session.          *)
(***************************************************************************)
EXTENDS Integers, Sequences

CONSTANTS
  Sessions,     \* session ids
  Runtimes,     \* runtime ids: a fresh UUID for each start of a session
  NoRuntime,    \* the session has no active runtime
  Connections,  \* WebSocket connections, each subscribing once
  Payloads,     \* what the properties tell apart of an event's contents
  MaxReplay,    \* MAX_REPLAY_EVENTS_PER_SESSION
  MaxSequence,  \* bound of a run: events of a runtime
  MaxEpoch      \* bound of a run: daemon restarts

ASSUME MaxReplayAssumption == MaxReplay \in Nat \ {0}
ASSUME NoRuntimeAssumption == NoRuntime \notin Runtimes
ASSUME BoundsAssumption == MaxSequence \in Nat /\ MaxEpoch \in Nat

VARIABLES
  epoch,           \* Hub::epoch, another value in every daemon process
  activeRuntimes,  \* HubState::active_runtimes
  nextSequences,   \* HubState::next_sequences; 0 is "no entry"
  journal,         \* HubState::journal; << >> is "no entry"
  subscribers,     \* keys of HubState::subscribers
  opened,          \* connections that have subscribed
  outgoing,        \* outgoing[c][s]: events of session s sent to connection c
  \* History, read by the properties only:
  begun,           \* begun[s]: the session's runtimes in the order they began
  emitted,         \* emitted[s][r]: every replayable event of the runtime
  resumedAt        \* resumedAt[c][s][r]: the events connection c need not get

hubVars == <<epoch, activeRuntimes, nextSequences, journal, subscribers, opened,
             outgoing, begun, emitted, resumedAt>>

Event == [runtime: Runtimes, epoch: Nat, sequence: Nat \ {0}, payload: Payloads]

(***************************************************************************)
(* A ReplayCursor for each session and runtime a client has seen; sequence *)
(* 0 stands for "no cursor".                                               *)
(***************************************************************************)
Cursor == [epoch: Nat, sequence: Nat]

\* The cursor lookup without the epoch comparison.
ResumePointOfAnyEpoch(cursors, s, r) == cursors[s][r].sequence

(***************************************************************************)
(* The sequence a subscriber resumes a runtime from: its cursor, when that *)
(* belongs to this daemon process, else 0 (the whole journal).             *)
(***************************************************************************)
ResumePoint(cursors, s, r) ==
  IF cursors[s][r].epoch = epoch THEN cursors[s][r].sequence ELSE 0

\* The newest event of a runtime the journal no longer holds; 0 if it holds all.
EvictedUpTo(s, r) ==
  LET n == Len(emitted[s][r]) - Len(journal[s][r])
  IN IF n > 0 THEN emitted[s][r][n].sequence ELSE 0

(***************************************************************************)
(* History: the newest event of a runtime a new subscription cannot or     *)
(* need not deliver, because the client has applied it (its cursor is of   *)
(* this process) or the journal has dropped it.                            *)
(***************************************************************************)
NotOwed(cursors, s, r) ==
  LET applied == IF cursors[s][r].epoch = epoch THEN cursors[s][r].sequence ELSE 0
  IN IF applied > EvictedUpTo(s, r) THEN applied ELSE EvictedUpTo(s, r)

-----------------------------------------------------------------------------

HubInit ==
  /\ epoch = 0
  /\ activeRuntimes = [s \in Sessions |-> NoRuntime]
  /\ nextSequences = [s \in Sessions |-> [r \in Runtimes |-> 0]]
  /\ journal = [s \in Sessions |-> [r \in Runtimes |-> << >>]]
  /\ subscribers = {}
  /\ opened = {}
  /\ outgoing = [c \in Connections |-> [s \in Sessions |-> << >>]]
  /\ begun = [s \in Sessions |-> << >>]
  /\ emitted = [s \in Sessions |-> [r \in Runtimes |-> << >>]]
  /\ resumedAt = [c \in Connections |-> [s \in Sessions |-> [r \in Runtimes |-> 0]]]

\* A start draws a new UUID: no start of this daemon process had it before.
Fresh(r) == \A s \in Sessions : \A i \in 1..Len(begun[s]) : begun[s][i] # r

\* Both `retain` calls of begin_runtime and end_runtime: nothing of s is kept.
ForgetSession(s) ==
  /\ nextSequences' = [nextSequences EXCEPT ![s] = [r \in Runtimes |-> 0]]
  /\ journal' = [journal EXCEPT ![s] = [r \in Runtimes |-> << >>]]

\* Hub::begin_runtime without the two `retain` calls.
BeginRuntimeKeepsJournal(s, r) ==
  /\ Fresh(r)
  /\ activeRuntimes' = [activeRuntimes EXCEPT ![s] = r]
  /\ begun' = [begun EXCEPT ![s] = Append(@, r)]
  /\ UNCHANGED <<epoch, nextSequences, journal, subscribers, opened, outgoing,
                 emitted, resumedAt>>

\* Hub::begin_runtime: r replaces whatever ran for the session.
BeginRuntime(s, r) ==
  /\ Fresh(r)
  /\ activeRuntimes' = [activeRuntimes EXCEPT ![s] = r]
  /\ ForgetSession(s)
  /\ begun' = [begun EXCEPT ![s] = Append(@, r)]
  /\ UNCHANGED <<epoch, subscribers, opened, outgoing, emitted, resumedAt>>

\* Hub::end_runtime(s, Some(r)); end_runtime(s, None) is r = the active one.
EndRuntime(s, r) ==
  /\ activeRuntimes[s] = r
  /\ activeRuntimes' = [activeRuntimes EXCEPT ![s] = NoRuntime]
  /\ ForgetSession(s)
  /\ UNCHANGED <<epoch, subscribers, opened, outgoing, begun, emitted, resumedAt>>

\* push_back, then pop_front while the journal is over its limit.
Retain(log) == IF Len(log) > MaxReplay THEN Tail(log) ELSE log

\* The counter read before it is incremented.
SequenceBeforeCounting(s, r) == nextSequences[s][r]

\* `*sequence += 1`, then read: the first event of a runtime is number 1.
SequenceOfNext(s, r) == nextSequences[s][r] + 1

\* The body of Hub::emit after its guard.
Publish(s, r, payload, replayable) ==
  LET event == [runtime |-> r, epoch |-> epoch,
                sequence |-> SequenceOfNext(s, r), payload |-> payload]
  IN
  /\ nextSequences' = [nextSequences EXCEPT ![s][r] = @ + 1]
  /\ journal' = IF replayable
                  THEN [journal EXCEPT ![s][r] = Retain(Append(@, event))]
                  ELSE journal
  /\ emitted' = IF replayable
                  THEN [emitted EXCEPT ![s][r] = Append(@, event)]
                  ELSE emitted
  /\ outgoing' = [c \in Connections |->
                    IF c \in subscribers
                      THEN [outgoing[c] EXCEPT ![s] = Append(@, event)]
                      ELSE outgoing[c]]
  /\ UNCHANGED <<epoch, activeRuntimes, subscribers, opened, begun, resumedAt>>

\* Hub::emit without the check that the runtime is still the active one.
EmitFromAnyRuntime(s, r, payload, replayable) ==
  /\ \E i \in 1..Len(begun[s]) : begun[s][i] = r
  /\ Publish(s, r, payload, replayable)

\* Hub::emit: an event of a runtime that is not the active one is dropped.
\* EventSink::send is replayable, send_ephemeral (terminal output) is not.
Emit(s, r, payload, replayable) ==
  /\ activeRuntimes[s] = r
  /\ Publish(s, r, payload, replayable)

(***************************************************************************)
(* `cut` splits a journal at a cursor: the first `cut` events are at or    *)
(* below `sequence`, the rest above it.  A journal is ordered by sequence  *)
(* (JournalIsNewest), so the events the code's filter keeps are the rest.  *)
(***************************************************************************)
IsCut(log, sequence, cut) ==
  /\ cut \in 0..Len(log)
  /\ \A i \in 1..cut : log[i].sequence <= sequence
  /\ \A i \in (cut + 1)..Len(log) : log[i].sequence > sequence

\* A runtime the session no longer runs has no journal (JournalIsNewest).
JournalOf(s) ==
  IF activeRuntimes[s] = NoRuntime THEN << >> ELSE journal[s][activeRuntimes[s]]

\* Where the replay of session s starts: after the subscriber's cursor.
ReplayCut(cursors, s, cut) ==
  \/ activeRuntimes[s] = NoRuntime /\ cut = 0
  \/ /\ activeRuntimes[s] # NoRuntime
     /\ IsCut(JournalOf(s), ResumePoint(cursors, s, activeRuntimes[s]), cut)

(***************************************************************************)
(* Hub::subscribe, once per connection: the replay enters the channel and  *)
(* the channel joins the subscribers without the lock being released.      *)
(***************************************************************************)
Subscribe(c, cursors) ==
  /\ c \notin opened
  /\ opened' = opened \cup {c}
  /\ subscribers' = subscribers \cup {c}
  /\ \E cut \in [Sessions -> 0..MaxReplay] :
       /\ \A s \in Sessions : ReplayCut(cursors, s, cut[s])
       /\ outgoing' = [outgoing EXCEPT ![c] = [s \in Sessions |->
                         SubSeq(JournalOf(s), cut[s] + 1, Len(JournalOf(s)))]]
  /\ resumedAt' = [resumedAt EXCEPT ![c] = [s \in Sessions |-> [r \in Runtimes |->
                     NotOwed(cursors, s, r)]]]
  /\ UNCHANGED <<epoch, activeRuntimes, nextSequences, journal, begun, emitted>>

\* Hub::unsubscribe, when the connection's loop ends; also the `retain` of
\* emit, which drops a subscriber whose receiver is gone.
Unsubscribe(c) ==
  /\ c \in subscribers
  /\ subscribers' = subscribers \ {c}
  /\ UNCHANGED <<epoch, activeRuntimes, nextSequences, journal, opened, outgoing,
                 begun, emitted, resumedAt>>

(***************************************************************************)
(* The daemon process dies and another one starts with Hub::default: the   *)
(* hub holds nothing on disk.  Frames already written stay readable.       *)
(***************************************************************************)
Restart ==
  /\ epoch' = epoch + 1
  /\ activeRuntimes' = [s \in Sessions |-> NoRuntime]
  /\ nextSequences' = [s \in Sessions |-> [r \in Runtimes |-> 0]]
  /\ journal' = [s \in Sessions |-> [r \in Runtimes |-> << >>]]
  /\ subscribers' = {}
  /\ begun' = [s \in Sessions |-> << >>]
  /\ emitted' = [s \in Sessions |-> [r \in Runtimes |-> << >>]]
  /\ UNCHANGED <<opened, outgoing, resumedAt>>

-----------------------------------------------------------------------------
\* The hub on its own, in an environment that does anything a client can.

(***************************************************************************)
(* What a client can know of the active runtimes: a cursor of another      *)
(* process, or one of this process and no further than the newest event.   *)
(* Cursors of other runtimes are never looked up.                          *)
(***************************************************************************)
KnownCursors ==
  {known \in [Sessions -> [epoch: 0..epoch, sequence: 0..MaxSequence]] :
     \A s \in Sessions :
       /\ activeRuntimes[s] = NoRuntime => known[s].sequence = 0 /\ known[s].epoch = epoch
       /\ known[s].epoch = epoch =>
            \/ known[s].sequence = 0
            \/ \E r \in Runtimes :
                 activeRuntimes[s] = r /\ known[s].sequence <= nextSequences[s][r]}

CursorsOf(known) ==
  [s \in Sessions |-> [r \in Runtimes |->
     IF activeRuntimes[s] = r THEN known[s] ELSE [epoch |-> 0, sequence |-> 0]]]

HubNext ==
  \/ \E s \in Sessions, r \in Runtimes :
       \/ BeginRuntime(s, r)
       \/ EndRuntime(s, r)
       \/ /\ nextSequences[s][r] < MaxSequence
          /\ \E payload \in Payloads, replayable \in BOOLEAN : Emit(s, r, payload, replayable)
  \/ \E c \in Connections :
       \/ \E known \in KnownCursors : Subscribe(c, CursorsOf(known))
       \/ Unsubscribe(c)
  \/ epoch < MaxEpoch /\ Restart

HubSpec == HubInit /\ [][HubNext]_hubVars

-----------------------------------------------------------------------------
(***************************************************************************)
(* Properties.                                                             *)
(***************************************************************************)

\* The type of every variable.
HubTypeOK ==
  /\ epoch \in Nat
  /\ activeRuntimes \in [Sessions -> Runtimes \cup {NoRuntime}]
  /\ nextSequences \in [Sessions -> [Runtimes -> Nat]]
  /\ journal \in [Sessions -> [Runtimes -> Seq(Event)]]
  /\ subscribers \in SUBSET Connections
  /\ opened \in SUBSET Connections
  /\ outgoing \in [Connections -> [Sessions -> Seq(Event)]]
  /\ begun \in [Sessions -> Seq(Runtimes)]
  /\ emitted \in [Sessions -> [Runtimes -> Seq(Event)]]
  /\ resumedAt \in [Connections -> [Sessions -> [Runtimes -> Nat]]]

IsNewestOf(log, all) ==
  /\ Len(log) <= Len(all) /\ Len(log) <= MaxReplay
  /\ Len(log) = MaxReplay \/ Len(log) = Len(all)
  /\ \A i \in 1..Len(log) : log[i] = all[Len(all) - Len(log) + i]

(***************************************************************************)
(* Whatever starts, ends and evictions came before, the journal of a       *)
(* session's active runtime is exactly the newest MaxReplay of its         *)
(* replayable events, and no other runtime of the session has one that a   *)
(* new subscriber would still be sent (begin_runtime, end_runtime, emit).  *)
(***************************************************************************)
JournalIsNewest ==
  \A s \in Sessions, r \in Runtimes :
    IF activeRuntimes[s] = r
      THEN IsNewestOf(journal[s][r], emitted[s][r])
      ELSE journal[s][r] = << >>

\* Event e was published before event f.
Precedes(s, e, f) ==
  \/ e.runtime = f.runtime /\ e.sequence < f.sequence
  \/ \E m, n \in 1..Len(begun[s]) :
       m < n /\ begun[s][m] = e.runtime /\ begun[s][n] = f.runtime

(***************************************************************************)
(* What a subscriber is sent of a session is in publication order, replay  *)
(* and live events together, with no event sent twice and none of a        *)
(* replaced runtime after its replacement's first (emit's guard, and       *)
(* replay and registration under one lock in subscribe).                   *)
(***************************************************************************)
StreamOrdered ==
  \A c \in subscribers, s \in Sessions :
    \A i, j \in 1..Len(outgoing[c][s]) :
      i < j => Precedes(s, outgoing[c][s][i], outgoing[c][s][j])

(***************************************************************************)
(* A subscriber is sent every replayable event of the active runtime that  *)
(* is newer than what it has applied, except what the journal's limit had  *)
(* dropped before it subscribed, and never one it has applied.             *)
(***************************************************************************)
ResumeComplete ==
  \A c \in subscribers, s \in Sessions :
    LET r == activeRuntimes[s] IN
    r # NoRuntime =>
      /\ \A i \in 1..Len(emitted[s][r]) :
           emitted[s][r][i].sequence > resumedAt[c][s][r] =>
             \E j \in 1..Len(outgoing[c][s]) : outgoing[c][s][j] = emitted[s][r][i]
      /\ \A j \in 1..Len(outgoing[c][s]) :
           outgoing[c][s][j].runtime = r => outgoing[c][s][j].sequence > resumedAt[c][s][r]
=============================================================================
