--------------------------- MODULE EventHubProofs ---------------------------
(***************************************************************************)
(* Proofs about EventHub, for any sessions, runtimes, connections and      *)
(* limits: its types, the journal, and what a subscriber is sent.          *)
(***************************************************************************)
EXTENDS EventHub, TLAPS

-----------------------------------------------------------------------------
(* Types. *)

\* An event appended to a journal within its limit, or the limit enforced.
LEMMA RetainType ==
  ASSUME NEW log \in Seq(Event)
  PROVE  Retain(log) \in Seq(Event)
  BY MaxReplayAssumption DEF Retain

LEMMA PublishType ==
  ASSUME HubTypeOK, NEW s \in Sessions, NEW r \in Runtimes,
         NEW payload \in Payloads, NEW replayable \in BOOLEAN,
         Publish(s, r, payload, replayable)
  PROVE  HubTypeOK'
<1> DEFINE event == [runtime |-> r, epoch |-> epoch,
                     sequence |-> SequenceOfNext(s, r), payload |-> payload]
<1>1. event \in Event
  BY DEF HubTypeOK, Event, SequenceOfNext
<1>2. nextSequences' \in [Sessions -> [Runtimes -> Nat]]
  BY DEF HubTypeOK, Publish
<1>3. Append(journal[s][r], event) \in Seq(Event) /\ Append(emitted[s][r], event) \in Seq(Event)
  BY <1>1 DEF HubTypeOK
<1>4. journal' \in [Sessions -> [Runtimes -> Seq(Event)]]
  BY <1>3, RetainType DEF HubTypeOK, Publish
<1>5. emitted' \in [Sessions -> [Runtimes -> Seq(Event)]]
  BY <1>3 DEF HubTypeOK, Publish
<1>6. outgoing' \in [Connections -> [Sessions -> Seq(Event)]]
  <2>1. outgoing' = [c \in Connections |->
                       IF c \in subscribers
                         THEN [outgoing[c] EXCEPT ![s] = Append(@, event)]
                         ELSE outgoing[c]]
    BY DEF Publish
  <2>2. SUFFICES ASSUME NEW c \in Connections
                 PROVE  outgoing'[c] \in [Sessions -> Seq(Event)]
    BY <2>1
  <2>3. outgoing[c] \in [Sessions -> Seq(Event)] /\ Append(outgoing[c][s], event) \in Seq(Event)
    BY <1>1 DEF HubTypeOK
  <2> QED  BY <2>1, <2>3
<1> QED  BY <1>2, <1>4, <1>5, <1>6 DEF HubTypeOK, Publish

\* A client's cursors are cursors.
LEMMA KnownCursorsType ==
  ASSUME HubTypeOK, NEW known \in KnownCursors
  PROVE  \A s \in Sessions, r \in Runtimes : CursorsOf(known)[s][r] \in Cursor
BY BoundsAssumption DEF CursorsOf, KnownCursors, HubTypeOK, Cursor

\* What a subscription may not owe is a sequence number.
LEMMA NotOwedType ==
  ASSUME HubTypeOK, NEW s \in Sessions, NEW r \in Runtimes, NEW cursors,
         cursors[s][r] \in Cursor
  PROVE  EvictedUpTo(s, r) \in Nat /\ NotOwed(cursors, s, r) \in Nat
<1>1. EvictedUpTo(s, r) \in Nat
  <2>1. journal[s][r] \in Seq(Event) /\ emitted[s][r] \in Seq(Event)
    BY DEF HubTypeOK
  <2>2. PICK a \in Nat, b \in Nat : a = Len(emitted[s][r]) /\ b = Len(journal[s][r])
    BY <2>1
  <2>3. CASE a - b > 0
    <3>1. a - b \in 1..a
      BY <2>3
    <3>2. emitted[s][r][a - b] \in Event
      BY <2>1, <2>2, <3>1
    <3> QED  BY <2>2, <2>3, <3>2 DEF EvictedUpTo, Event
  <2>4. CASE ~ (a - b > 0)
    BY <2>2, <2>4 DEF EvictedUpTo
  <2> QED  BY <2>3, <2>4
<1>2. cursors[s][r].sequence \in Nat
  BY DEF Cursor
<1> QED  BY <1>1, <1>2 DEF NotOwed

LEMMA SubscribeType ==
  ASSUME HubTypeOK, NEW c \in Connections, NEW cursors,
         \A s \in Sessions, r \in Runtimes : cursors[s][r] \in Cursor,
         Subscribe(c, cursors)
  PROVE  HubTypeOK'
<1>1. PICK cut \in [Sessions -> 0..MaxReplay] :
        /\ \A s \in Sessions : ReplayCut(cursors, s, cut[s])
        /\ outgoing' = [outgoing EXCEPT ![c] = [s \in Sessions |->
                          SubSeq(JournalOf(s), cut[s] + 1, Len(JournalOf(s)))]]
  BY DEF Subscribe
<1>2. ASSUME NEW s \in Sessions
      PROVE  SubSeq(JournalOf(s), cut[s] + 1, Len(JournalOf(s))) \in Seq(Event)
  <2>1. JournalOf(s) \in Seq(Event)
    BY DEF JournalOf, HubTypeOK
  <2>2. cut[s] \in Nat
    BY MaxReplayAssumption
  <2> QED  BY <2>1, <2>2
<1>3. outgoing' \in [Connections -> [Sessions -> Seq(Event)]]
  BY <1>1, <1>2 DEF HubTypeOK
<1>4. resumedAt' \in [Connections -> [Sessions -> [Runtimes -> Nat]]]
  BY NotOwedType DEF HubTypeOK, Subscribe
<1> QED  BY <1>3, <1>4 DEF HubTypeOK, Subscribe

LEMMA HubTypeStep ==
  ASSUME HubTypeOK, [HubNext]_hubVars
  PROVE  HubTypeOK'
<1>1. ASSUME NEW s \in Sessions, NEW r \in Runtimes, BeginRuntime(s, r)
      PROVE  HubTypeOK'
  BY <1>1 DEF HubTypeOK, BeginRuntime, ForgetSession
<1>2. ASSUME NEW s \in Sessions, NEW r \in Runtimes, EndRuntime(s, r)
      PROVE  HubTypeOK'
  BY <1>2 DEF HubTypeOK, EndRuntime, ForgetSession
<1>3. ASSUME NEW s \in Sessions, NEW r \in Runtimes, NEW payload \in Payloads,
             NEW replayable \in BOOLEAN, Emit(s, r, payload, replayable)
      PROVE  HubTypeOK'
  BY <1>3, PublishType DEF Emit
<1>4. ASSUME NEW c \in Connections, NEW known \in KnownCursors,
             Subscribe(c, CursorsOf(known))
      PROVE  HubTypeOK'
  BY <1>4, SubscribeType, KnownCursorsType
<1>5. ASSUME NEW c \in Connections, Unsubscribe(c)
      PROVE  HubTypeOK'
  BY <1>5 DEF HubTypeOK, Unsubscribe
<1>6. ASSUME Restart
      PROVE  HubTypeOK'
  BY <1>6 DEF HubTypeOK, Restart
<1>7. CASE UNCHANGED hubVars
  BY <1>7 DEF HubTypeOK, hubVars
<1> QED  BY <1>1, <1>2, <1>3, <1>4, <1>5, <1>6, <1>7 DEF HubNext

(***************************************************************************)
(* Every variable keeps its type, whatever the sets and bounds: a cursor,  *)
(* a journal entry and a frame always name an event of some runtime, and   *)
(* no event is numbered 0 (Hub::emit).                                     *)
(***************************************************************************)
THEOREM HubTypeCorrect == HubSpec => []HubTypeOK
<1>1. HubInit => HubTypeOK
  BY DEF HubInit, HubTypeOK
<1> QED  BY <1>1, HubTypeStep, PTL DEF HubSpec

-----------------------------------------------------------------------------
(* The inductive invariant. *)

HasBegun(s, r) == \E m \in 1..Len(begun[s]) : begun[s][m] = r

\* A runtime begins at most once, in one session.
BegunOnce ==
  \A s, t \in Sessions : \A m \in 1..Len(begun[s]), n \in 1..Len(begun[t]) :
    begun[s][m] = begun[t][n] => s = t /\ m = n

\* The active runtime is the one that began last.
ActiveIsLatest ==
  \A s \in Sessions :
    activeRuntimes[s] # NoRuntime =>
      /\ Len(begun[s]) > 0
      /\ begun[s][Len(begun[s])] = activeRuntimes[s]

\* The events of a runtime carry its id and rising numbers, up to its counter.
EmittedCounted ==
  \A s \in Sessions, r \in Runtimes :
    /\ ~ HasBegun(s, r) => emitted[s][r] = << >>
    /\ \A i \in 1..Len(emitted[s][r]) :
         /\ emitted[s][r][i].runtime = r
         /\ activeRuntimes[s] = r => emitted[s][r][i].sequence <= nextSequences[s][r]
         /\ \A j \in 1..Len(emitted[s][r]) :
              i < j => emitted[s][r][i].sequence < emitted[s][r][j].sequence

\* A subscriber was sent events of runtimes that have begun, up to the counter.
StreamCounted ==
  \A c \in subscribers, s \in Sessions : \A i \in 1..Len(outgoing[c][s]) :
    /\ HasBegun(s, outgoing[c][s][i].runtime)
    /\ outgoing[c][s][i].runtime = activeRuntimes[s] =>
         outgoing[c][s][i].sequence <= nextSequences[s][outgoing[c][s][i].runtime]

\* No subscriber is ahead of the counter.
ResumeCounted ==
  \A c \in subscribers, s \in Sessions, r \in Runtimes :
    /\ ~ HasBegun(s, r) => resumedAt[c][s][r] = 0
    /\ activeRuntimes[s] = r => resumedAt[c][s][r] <= nextSequences[s][r]

HubIInv ==
  /\ HubTypeOK
  /\ BegunOnce
  /\ ActiveIsLatest
  /\ EmittedCounted
  /\ JournalIsNewest
  /\ StreamCounted
  /\ ResumeCounted
  /\ StreamOrdered
  /\ ResumeComplete

LEMMA HubIInvInit == HubInit => HubIInv
<1> SUFFICES ASSUME HubInit PROVE HubIInv
  OBVIOUS
<1>1. HubTypeOK
  BY DEF HubInit, HubTypeOK
<1>2. BegunOnce /\ ActiveIsLatest /\ EmittedCounted
  BY DEF HubInit, BegunOnce, ActiveIsLatest, EmittedCounted
<1>3. JournalIsNewest
  BY NoRuntimeAssumption DEF HubInit, JournalIsNewest
<1>4. StreamCounted /\ ResumeCounted /\ StreamOrdered /\ ResumeComplete
  BY DEF HubInit, StreamCounted, ResumeCounted, StreamOrdered, ResumeComplete
<1> QED  BY <1>1, <1>2, <1>3, <1>4 DEF HubIInv

-----------------------------------------------------------------------------
\* Whatever a log or a channel holds is an event.
LEMMA EventFields ==
  ASSUME NEW log \in Seq(Event), NEW i \in 1..Len(log)
  PROVE  /\ log[i] \in Event
         /\ log[i].runtime \in Runtimes
         /\ log[i].sequence \in Nat
<1>1. log[i] \in Event
  OBVIOUS
<1> QED  BY <1>1 DEF Event

-----------------------------------------------------------------------------
(* Starting and ending a runtime. *)

LEMMA BeginRuntimeStep ==
  ASSUME HubIInv, NEW s0 \in Sessions, NEW r0 \in Runtimes, BeginRuntime(s0, r0)
  PROVE  HubIInv'
<1> USE DEF HubIInv
<1>1. HubTypeOK'
  BY HubTypeStep DEF HubNext
<1>2. \A s \in Sessions : begun[s] \in Seq(Runtimes) /\ begun'[s] \in Seq(Runtimes)
  BY <1>1 DEF HubTypeOK
<1>3. /\ ~ HasBegun(s0, r0)
      /\ begun'[s0] = Append(begun[s0], r0)
      /\ \A s \in Sessions : s # s0 => begun'[s] = begun[s]
  BY DEF BeginRuntime, Fresh, HasBegun, HubTypeOK
<1>4. \A s \in Sessions, r \in Runtimes : HasBegun(s, r)' <=> HasBegun(s, r) \/ (s = s0 /\ r = r0)
  <2> SUFFICES ASSUME NEW s \in Sessions, NEW r \in Runtimes
               PROVE  HasBegun(s, r)' <=> HasBegun(s, r) \/ (s = s0 /\ r = r0)
    OBVIOUS
  <2>1. CASE s # s0
    BY <1>3, <2>1 DEF HasBegun
  <2>2. CASE s = s0
    BY <1>2, <1>3, <2>2 DEF HasBegun
  <2> QED  BY <2>1, <2>2
<1>5. BegunOnce'
  BY <1>2, <1>3 DEF BegunOnce, BeginRuntime, Fresh
<1>6. ActiveIsLatest'
  <2>1. activeRuntimes' = [activeRuntimes EXCEPT ![s0] = r0]
    BY DEF BeginRuntime
  <2>2. Len(begun'[s0]) > 0 /\ begun'[s0][Len(begun'[s0])] = r0
    BY <1>2, <1>3
  <2> QED  BY <1>3, <2>1, <2>2 DEF ActiveIsLatest, HubTypeOK
<1>7. emitted' = emitted /\ resumedAt' = resumedAt /\ outgoing' = outgoing /\ subscribers' = subscribers
  BY DEF BeginRuntime
<1>8. /\ activeRuntimes'[s0] = r0 /\ \A s \in Sessions : s # s0 => activeRuntimes'[s] = activeRuntimes[s]
      /\ \A s \in Sessions : s # s0 => nextSequences'[s] = nextSequences[s] /\ journal'[s] = journal[s]
      /\ \A r \in Runtimes : nextSequences'[s0][r] = 0 /\ journal'[s0][r] = << >>
  BY DEF BeginRuntime, ForgetSession, HubTypeOK
<1>9. emitted[s0][r0] = << >>
  BY <1>3 DEF EmittedCounted
<1>10. EmittedCounted'
  BY <1>4, <1>7, <1>8, <1>9 DEF EmittedCounted
<1>11. JournalIsNewest'
  <2>1. IsNewestOf(<< >>, emitted[s0][r0])
    BY <1>9, MaxReplayAssumption DEF IsNewestOf
  <2> QED  BY <1>7, <1>8, <2>1 DEF JournalIsNewest
<1>12. \A c \in subscribers, s \in Sessions : \A i \in 1..Len(outgoing[c][s]) :
         /\ outgoing[c][s][i].runtime \in Runtimes
         /\ HasBegun(s, outgoing[c][s][i].runtime)
  <2> SUFFICES ASSUME NEW c \in subscribers, NEW s \in Sessions, NEW i \in 1..Len(outgoing[c][s])
               PROVE  /\ outgoing[c][s][i].runtime \in Runtimes
                      /\ HasBegun(s, outgoing[c][s][i].runtime)
    OBVIOUS
  <2>1. outgoing[c][s] \in Seq(Event)
    BY DEF HubTypeOK
  <2>2. outgoing[c][s][i] \in Event
    BY <2>1
  <2> QED  BY <2>2 DEF StreamCounted, Event
<1>13. StreamCounted'
  BY <1>3, <1>4, <1>7, <1>8, <1>12 DEF StreamCounted
<1>14. ResumeCounted'
  BY <1>3, <1>4, <1>7, <1>8 DEF ResumeCounted
<1>15. StreamOrdered'
  <2>1. ASSUME NEW s \in Sessions, NEW e, NEW f, Precedes(s, e, f)
        PROVE  Precedes(s, e, f)'
    <3>1. \A m \in 1..Len(begun[s]) : m \in 1..Len(begun'[s]) /\ begun'[s][m] = begun[s][m]
      BY <1>2, <1>3
    <3> QED  BY <2>1, <3>1 DEF Precedes
  <2> QED  BY <1>7, <2>1 DEF StreamOrdered
<1>16. ResumeComplete'
  BY <1>3, <1>7, <1>8, <1>9, <1>12 DEF ResumeComplete
<1> QED  BY <1>1, <1>5, <1>6, <1>10, <1>11, <1>13, <1>14, <1>15, <1>16

LEMMA EndRuntimeStep ==
  ASSUME HubIInv, NEW s0 \in Sessions, NEW r0 \in Runtimes, EndRuntime(s0, r0)
  PROVE  HubIInv'
<1> USE DEF HubIInv
<1>1. HubTypeOK'
  BY HubTypeStep DEF HubNext
<1>2. /\ activeRuntimes'[s0] = NoRuntime
      /\ \A s \in Sessions : s # s0 => activeRuntimes'[s] = activeRuntimes[s]
      /\ \A s \in Sessions : s # s0 => nextSequences'[s] = nextSequences[s] /\ journal'[s] = journal[s]
      /\ \A r \in Runtimes : journal'[s0][r] = << >>
  BY DEF EndRuntime, ForgetSession, HubTypeOK
<1>3. emitted' = emitted /\ resumedAt' = resumedAt /\ outgoing' = outgoing
        /\ subscribers' = subscribers /\ begun' = begun
  BY DEF EndRuntime
<1>4. \A s \in Sessions, r \in Runtimes : HasBegun(s, r)' <=> HasBegun(s, r)
  BY <1>3 DEF HasBegun
<1>5. BegunOnce' /\ ActiveIsLatest'
  BY <1>2, <1>3 DEF BegunOnce, ActiveIsLatest
<1>6. EmittedCounted'
  BY <1>2, <1>3, <1>4, NoRuntimeAssumption DEF EmittedCounted
<1>7. JournalIsNewest'
  BY <1>2, <1>3, NoRuntimeAssumption DEF JournalIsNewest
<1>8. StreamCounted'
  <2> SUFFICES ASSUME NEW c \in subscribers, NEW s \in Sessions, NEW i \in 1..Len(outgoing[c][s])
               PROVE  /\ HasBegun(s, outgoing[c][s][i].runtime)'
                      /\ outgoing[c][s][i].runtime = activeRuntimes'[s] =>
                           outgoing[c][s][i].sequence
                             <= nextSequences'[s][outgoing[c][s][i].runtime]
    BY <1>3 DEF StreamCounted
  <2>1. outgoing[c][s] \in Seq(Event)
    BY DEF HubTypeOK
  <2>2. outgoing[c][s][i].runtime \in Runtimes
    BY <2>1, EventFields
  <2>3. CASE s = s0
    BY <1>2, <1>3, <1>4, <2>2, <2>3, NoRuntimeAssumption DEF StreamCounted
  <2>4. CASE s # s0
    BY <1>2, <1>3, <1>4, <2>2, <2>4 DEF StreamCounted
  <2> QED  BY <2>3, <2>4
<1>9. ResumeCounted'
  BY <1>2, <1>3, <1>4, NoRuntimeAssumption DEF ResumeCounted
<1>10. StreamOrdered'
  <2>1. ASSUME NEW s \in Sessions, NEW e, NEW f
        PROVE  Precedes(s, e, f)' <=> Precedes(s, e, f)
    BY <1>3 DEF Precedes
  <2> QED  BY <1>3, <2>1 DEF StreamOrdered
<1>11. ResumeComplete'
  BY <1>2, <1>3 DEF ResumeComplete
<1> QED  BY <1>1, <1>5, <1>6, <1>7, <1>8, <1>9, <1>10, <1>11

-----------------------------------------------------------------------------
(* Emitting an event. *)

\* The journal stays the newest part when an event is added to both.
LEMMA RetainKeepsNewest ==
  ASSUME NEW log \in Seq(Event), NEW all \in Seq(Event), NEW e \in Event,
         IsNewestOf(log, all)
  PROVE  IsNewestOf(Retain(Append(log, e)), Append(all, e))
<1>1. PICK k \in Nat, n \in Nat : k = Len(log) /\ n = Len(all) /\ k <= n /\ k <= MaxReplay
  BY DEF IsNewestOf
<1>2. Append(log, e) \in Seq(Event) /\ Append(all, e) \in Seq(Event)
  OBVIOUS
<1>3. Len(Append(log, e)) = k + 1 /\ Len(Append(all, e)) = n + 1
  BY <1>1
<1>4. \A i \in 1..(k + 1) : Append(log, e)[i] = Append(all, e)[n - k + i]
  <2> SUFFICES ASSUME NEW i \in 1..(k + 1)
               PROVE  Append(log, e)[i] = Append(all, e)[n - k + i]
    OBVIOUS
  <2>1. CASE i = k + 1
    <3>1. n - k + i = n + 1
      BY <2>1
    <3>2. Append(log, e)[k + 1] = e /\ Append(all, e)[n + 1] = e
      BY <1>1
    <3> QED  BY <2>1, <3>1, <3>2
  <2>2. CASE i \in 1..k
    <3>1. Append(log, e)[i] = log[i] /\ n - k + i \in 1..n
      BY <1>1, <2>2
    <3>2. Append(all, e)[n - k + i] = all[n - k + i]
      BY <1>1, <3>1
    <3>3. log[i] = all[n - k + i]
      BY <1>1, <2>2 DEF IsNewestOf
    <3> QED  BY <3>1, <3>2, <3>3
  <2> QED  BY <1>1, <2>1, <2>2
<1>5. CASE k + 1 > MaxReplay
  <2>1. Retain(Append(log, e)) = Tail(Append(log, e)) /\ k = MaxReplay
    BY <1>1, <1>3, <1>5, MaxReplayAssumption DEF Retain
  <2>2. Len(Tail(Append(log, e))) = k
    BY <1>2, <1>3
  <2>3. \A i \in 1..k : Tail(Append(log, e))[i] = Append(log, e)[i + 1]
    BY <1>2, <1>3
  <2>4. \A i \in 1..k : Tail(Append(log, e))[i] = Append(all, e)[(n + 1) - k + i]
    <3> SUFFICES ASSUME NEW i \in 1..k
                 PROVE  Tail(Append(log, e))[i] = Append(all, e)[(n + 1) - k + i]
      OBVIOUS
    <3>1. i + 1 \in 1..(k + 1) /\ n - k + (i + 1) = (n + 1) - k + i
      OBVIOUS
    <3> QED  BY <1>4, <2>3, <3>1
  <2>5. k <= n + 1
    BY <1>1
  <2> QED  BY <1>1, <1>3, <2>1, <2>2, <2>4, <2>5 DEF IsNewestOf
<1>6. CASE k + 1 <= MaxReplay
  <2>1. Retain(Append(log, e)) = Append(log, e) /\ k = n
    BY <1>1, <1>3, <1>6, MaxReplayAssumption DEF Retain, IsNewestOf
  <2> QED  BY <1>1, <1>3, <1>4, <1>6, <2>1 DEF IsNewestOf
<1> QED  BY <1>5, <1>6, <1>1, MaxReplayAssumption

\* Appending to a channel adds its last element and keeps the others.
LEMMA AppendFacts ==
  ASSUME NEW S, NEW q \in Seq(S), NEW e \in S
  PROVE  /\ Len(q) \in Nat /\ Len(Append(q, e)) = Len(q) + 1
         /\ Append(q, e)[Len(q) + 1] = e
         /\ \A k \in 1..Len(q) : Append(q, e)[k] = q[k]
         /\ \A k \in 1..Len(Append(q, e)) : k \in 1..Len(q) \/ k = Len(q) + 1
  OBVIOUS

LEMMA EmitStep ==
  ASSUME HubIInv, NEW s0 \in Sessions, NEW r0 \in Runtimes, NEW payload \in Payloads,
         NEW replayable \in BOOLEAN, Emit(s0, r0, payload, replayable)
  PROVE  HubIInv'
<1> USE DEF HubIInv
<1> DEFINE event == [runtime |-> r0, epoch |-> epoch,
                     sequence |-> SequenceOfNext(s0, r0), payload |-> payload]
<1>1. HubTypeOK'
  BY PublishType DEF Emit
<1>2. /\ nextSequences[s0][r0] \in Nat
      /\ event \in Event /\ event.runtime = r0
      /\ event.sequence = nextSequences[s0][r0] + 1
  BY DEF HubTypeOK, Event, SequenceOfNext
<1>3. /\ activeRuntimes[s0] = r0 /\ activeRuntimes' = activeRuntimes
      /\ subscribers' = subscribers /\ begun' = begun /\ resumedAt' = resumedAt
  BY DEF Emit, Publish
<1>4. nextSequences' = [nextSequences EXCEPT ![s0][r0] = @ + 1]
  BY DEF Emit, Publish
<1>5. /\ nextSequences'[s0][r0] = nextSequences[s0][r0] + 1
      /\ \A s \in Sessions, r \in Runtimes :
           /\ nextSequences[s][r] \in Nat /\ nextSequences'[s][r] \in Nat
           /\ nextSequences[s][r] <= nextSequences'[s][r]
  <2>1. /\ nextSequences'[s0][r0] = nextSequences[s0][r0] + 1
        /\ \A s \in Sessions, r \in Runtimes :
             s # s0 \/ r # r0 => nextSequences'[s][r] = nextSequences[s][r]
    BY <1>4 DEF HubTypeOK
  <2>2. \A s \in Sessions, r \in Runtimes : nextSequences[s][r] \in Nat
    BY DEF HubTypeOK
  <2> QED  BY <2>1, <2>2
<1>6. \/ journal' = journal /\ emitted' = emitted
      \/ /\ journal' = [journal EXCEPT ![s0][r0] = Retain(Append(@, event))]
         /\ emitted' = [emitted EXCEPT ![s0][r0] = Append(@, event)]
  BY DEF Emit, Publish
<1>17. \A c \in subscribers, s \in Sessions :
        outgoing'[c][s] = IF s = s0 THEN Append(outgoing[c][s], event) ELSE outgoing[c][s]
  BY DEF Emit, Publish, HubTypeOK
<1>19. \A c \in subscribers :
         resumedAt[c][s0][r0] \in Nat /\ resumedAt[c][s0][r0] <= nextSequences[s0][r0]
  BY <1>3 DEF ResumeCounted, HubTypeOK
<1>20. emitted'[s0][r0] = emitted[s0][r0] \/ emitted'[s0][r0] = Append(emitted[s0][r0], event)
  BY <1>6 DEF HubTypeOK
<1> HIDE DEF event
<1>7. \A s \in Sessions, r \in Runtimes :
        emitted[s][r] \in Seq(Event) /\ journal[s][r] \in Seq(Event)
  BY DEF HubTypeOK
<1>8. \A c \in subscribers, s \in Sessions : outgoing[c][s] \in Seq(Event)
  BY DEF HubTypeOK
<1>18. ASSUME NEW c \in subscribers
       PROVE  LET n == Len(outgoing[c][s0]) IN
              /\ n \in Nat /\ Len(outgoing'[c][s0]) = n + 1
              /\ outgoing'[c][s0][n + 1] = event
              /\ \A k \in 1..n : outgoing'[c][s0][k] = outgoing[c][s0][k]
              /\ \A k \in 1..Len(outgoing'[c][s0]) : k \in 1..n \/ k = n + 1
  <2>1. outgoing[c][s0] \in Seq(Event) /\ outgoing'[c][s0] = Append(outgoing[c][s0], event)
    BY <1>8, <1>17
  <2> QED  BY <1>2, <2>1, AppendFacts
<1>9. HasBegun(s0, r0) /\ \A s \in Sessions, r \in Runtimes : HasBegun(s, r)' <=> HasBegun(s, r)
  <2>1. begun[s0] \in Seq(Runtimes) /\ activeRuntimes[s0] # NoRuntime
    BY <1>3, NoRuntimeAssumption DEF HubTypeOK
  <2>2. Len(begun[s0]) \in 1..Len(begun[s0]) /\ begun[s0][Len(begun[s0])] = r0
    BY <1>3, <2>1 DEF ActiveIsLatest
  <2> QED  BY <1>3, <2>2 DEF HasBegun
<1>10. BegunOnce' /\ ActiveIsLatest'
  BY <1>3 DEF BegunOnce, ActiveIsLatest
<1>11. EmittedCounted'
  <2> DEFINE Counted(all, s, r) ==
        /\ ~ HasBegun(s, r) => all = << >>
        /\ \A i \in 1..Len(all) :
             /\ all[i].runtime = r
             /\ activeRuntimes[s] = r => all[i].sequence <= nextSequences'[s][r]
             /\ \A j \in 1..Len(all) : i < j => all[i].sequence < all[j].sequence
  <2>1. ASSUME NEW s \in Sessions, NEW r \in Runtimes
        PROVE  Counted(emitted[s][r], s, r)
    <3>1. \A i \in 1..Len(emitted[s][r]) : emitted[s][r][i].sequence \in Nat
      BY <1>7, EventFields
    <3> QED  BY <1>5, <3>1 DEF EmittedCounted
  <2>2. Counted(Append(emitted[s0][r0], event), s0, r0)
    <3>1. emitted[s0][r0] \in Seq(Event)
      BY <1>7
    <3>2. \A i \in 1..Len(emitted[s0][r0]) :
            /\ emitted[s0][r0][i].sequence \in Nat
            /\ emitted[s0][r0][i].sequence < event.sequence
      BY <1>2, <1>3, <3>1, EventFields DEF EmittedCounted
    <3>3. \A i \in 1..Len(Append(emitted[s0][r0], event)) :
            /\ Append(emitted[s0][r0], event)[i].runtime = r0
            /\ Append(emitted[s0][r0], event)[i].sequence <= nextSequences'[s0][r0]
      BY <1>2, <1>5, <2>1, <3>1, <3>2, AppendFacts DEF EmittedCounted
    <3>4. \A i, j \in 1..Len(Append(emitted[s0][r0], event)) :
            i < j => Append(emitted[s0][r0], event)[i].sequence
                       < Append(emitted[s0][r0], event)[j].sequence
      <4>1. PICK n \in Nat : n = Len(emitted[s0][r0])
        BY <3>1
      <4>2. /\ Len(Append(emitted[s0][r0], event)) = n + 1
            /\ Append(emitted[s0][r0], event)[n + 1] = event
            /\ \A i \in 1..n : Append(emitted[s0][r0], event)[i] = emitted[s0][r0][i]
        BY <1>2, <3>1, <4>1, AppendFacts
      <4>3. \A i, j \in 1..n : i < j => emitted[s0][r0][i].sequence < emitted[s0][r0][j].sequence
        BY <4>1 DEF EmittedCounted
      <4>4. \A i, j \in 1..(n + 1) : i < j => i \in 1..n /\ (j \in 1..n \/ j = n + 1)
        BY <4>1
      <4> QED  BY <3>2, <4>1, <4>2, <4>3, <4>4
    <3> QED  BY <1>9, <3>3, <3>4
  <2>3. ASSUME NEW s \in Sessions, NEW r \in Runtimes
        PROVE  Counted(emitted'[s][r], s, r)
    <3>1. CASE emitted'[s][r] = emitted[s][r]
      BY <2>1, <3>1
    <3>2. CASE s = s0 /\ r = r0 /\ emitted'[s][r] = Append(emitted[s][r], event)
      BY <2>2, <3>2
    <3> HIDE DEF Counted
    <3> QED  BY <1>6, <3>1, <3>2 DEF HubTypeOK
  <2> QED  BY <1>3, <1>9, <2>3 DEF EmittedCounted
<1>12. JournalIsNewest'
  <2>1. IsNewestOf(journal[s0][r0], emitted[s0][r0])
    BY <1>3 DEF JournalIsNewest
  <2>2. IsNewestOf(Retain(Append(journal[s0][r0], event)), Append(emitted[s0][r0], event))
    BY <1>2, <1>7, <2>1, RetainKeepsNewest
  <2>3. IsNewestOf(journal'[s0][r0], emitted'[s0][r0])
    <3>1. CASE journal' = journal /\ emitted' = emitted
      BY <2>1, <3>1
    <3>2. CASE /\ journal' = [journal EXCEPT ![s0][r0] = Retain(Append(@, event))]
               /\ emitted' = [emitted EXCEPT ![s0][r0] = Append(@, event)]
      <4>1. /\ journal'[s0][r0] = Retain(Append(journal[s0][r0], event))
            /\ emitted'[s0][r0] = Append(emitted[s0][r0], event)
        BY <3>2 DEF HubTypeOK
      <4> QED  BY <2>2, <4>1
    <3> QED  BY <1>6, <3>1, <3>2
  <2>4. \A s \in Sessions, r \in Runtimes :
          s # s0 \/ r # r0 => journal'[s][r] = journal[s][r] /\ emitted'[s][r] = emitted[s][r]
    BY <1>6 DEF HubTypeOK
  <2>5. ASSUME NEW s \in Sessions, NEW r \in Runtimes
        PROVE  IF activeRuntimes'[s] = r
                 THEN IsNewestOf(journal'[s][r], emitted'[s][r])
                 ELSE journal'[s][r] = << >>
    <3>1. CASE s = s0 /\ r = r0
      BY <1>3, <2>3, <3>1
    <3>2. CASE s # s0 \/ r # r0
      BY <1>3, <2>4, <3>2 DEF JournalIsNewest
    <3> QED  BY <3>1, <3>2
  <2> QED  BY <2>5 DEF JournalIsNewest
<1>13. StreamCounted'
  <2> SUFFICES ASSUME NEW c \in subscribers, NEW s \in Sessions,
                      NEW i \in 1..Len(outgoing'[c][s]), NEW f, f = outgoing'[c][s][i]
               PROVE  /\ HasBegun(s, f.runtime)
                      /\ f.runtime = activeRuntimes[s] =>
                           f.sequence <= nextSequences'[s][f.runtime]
    BY <1>3, <1>9 DEF StreamCounted, HasBegun
  <2>1. f \in Event
    BY <1>1, <1>3, EventFields DEF HubTypeOK
  <2>2. CASE f = event /\ s = s0
    BY <1>2, <1>5, <1>9, <2>2
  <2>3. CASE i \in 1..Len(outgoing[c][s]) /\ f = outgoing[c][s][i]
    <3>1. f.runtime \in Runtimes /\ f.sequence \in Nat
      BY <2>1 DEF Event
    <3>2. /\ HasBegun(s, f.runtime)
          /\ f.runtime = activeRuntimes[s] => f.sequence <= nextSequences[s][f.runtime]
      BY <2>3 DEF StreamCounted
    <3> QED  BY <1>5, <3>1, <3>2
  <2> QED  BY <1>17, <1>18, <2>2, <2>3
<1>14. ResumeCounted'
  <2> SUFFICES ASSUME NEW c \in subscribers, NEW s \in Sessions, NEW r \in Runtimes
               PROVE  /\ ~ HasBegun(s, r) => resumedAt[c][s][r] = 0
                      /\ activeRuntimes[s] = r => resumedAt[c][s][r] <= nextSequences'[s][r]
    BY <1>3, <1>9 DEF ResumeCounted
  <2>1. resumedAt[c][s][r] \in Nat
    BY DEF HubTypeOK
  <2> QED  BY <1>5, <2>1 DEF ResumeCounted
<1>15. StreamOrdered'
  <2>1. ASSUME NEW s \in Sessions, NEW e, NEW f
        PROVE  Precedes(s, e, f)' <=> Precedes(s, e, f)
    BY <1>3 DEF Precedes
  <2>2. ASSUME NEW c \in subscribers, NEW i \in 1..Len(outgoing[c][s0])
        PROVE  Precedes(s0, outgoing[c][s0][i], event)
    <3> DEFINE e == outgoing[c][s0][i]
    <3>1. e \in Event
      BY <1>8, EventFields
    <3>2. CASE e.runtime = r0
      BY <1>2, <1>3, <3>1, <3>2 DEF Precedes, StreamCounted, Event
    <3>3. CASE e.runtime # r0
      <4>1. PICK m \in 1..Len(begun[s0]) : begun[s0][m] = e.runtime
        BY DEF StreamCounted, HasBegun
      <4>2. activeRuntimes[s0] # NoRuntime /\ begun[s0] \in Seq(Runtimes)
        BY <1>3, NoRuntimeAssumption DEF HubTypeOK
      <4>3. Len(begun[s0]) \in 1..Len(begun[s0]) /\ begun[s0][Len(begun[s0])] = r0
        BY <1>3, <4>2 DEF ActiveIsLatest
      <4>4. m < Len(begun[s0])
        BY <3>3, <4>1, <4>2, <4>3
      <4> QED  BY <1>2, <4>1, <4>3, <4>4 DEF Precedes
    <3> QED  BY <3>2, <3>3
  <2> SUFFICES ASSUME NEW c \in subscribers, NEW s \in Sessions,
                      NEW i \in 1..Len(outgoing'[c][s]), NEW j \in 1..Len(outgoing'[c][s]), i < j
               PROVE  Precedes(s, outgoing'[c][s][i], outgoing'[c][s][j])
    BY <1>3, <2>1 DEF StreamOrdered
  <2>3. CASE s # s0
    BY <1>17, <2>3 DEF StreamOrdered
  <2>4. CASE s = s0
    <3>1. PICK n \in Nat : n = Len(outgoing[c][s0])
      BY <1>8
    <3>2. /\ Len(outgoing'[c][s0]) = n + 1 /\ outgoing'[c][s0][n + 1] = event
          /\ \A k \in 1..n : outgoing'[c][s0][k] = outgoing[c][s0][k]
      BY <1>18, <3>1
    <3>3. i \in 1..n /\ (j \in 1..n \/ j = n + 1)
      BY <2>4, <3>1, <3>2
    <3>4. CASE j \in 1..n
      BY <2>4, <3>1, <3>2, <3>3, <3>4 DEF StreamOrdered
    <3>5. CASE j = n + 1
      BY <2>2, <2>4, <3>1, <3>2, <3>3, <3>5
    <3> QED  BY <3>3, <3>4, <3>5
  <2> QED  BY <2>3, <2>4
<1>16. ResumeComplete'
  <2> SUFFICES ASSUME NEW c \in subscribers, NEW s \in Sessions, NEW r, r = activeRuntimes[s],
                      r # NoRuntime
               PROVE  /\ \A i \in 1..Len(emitted'[s][r]) :
                           emitted'[s][r][i].sequence > resumedAt[c][s][r] =>
                             \E j \in 1..Len(outgoing'[c][s]) :
                               outgoing'[c][s][j] = emitted'[s][r][i]
                      /\ \A j \in 1..Len(outgoing'[c][s]) :
                           outgoing'[c][s][j].runtime = r =>
                             outgoing'[c][s][j].sequence > resumedAt[c][s][r]
    BY <1>3 DEF ResumeComplete
  <2>1. CASE s # s0
    <3>1. r \in Runtimes
      BY DEF HubTypeOK
    <3>2. emitted'[s][r] = emitted[s][r]
      BY <1>6, <2>1, <3>1 DEF HubTypeOK
    <3>3. outgoing'[c][s] = outgoing[c][s]
      BY <1>17, <2>1
    <3> QED  BY <3>2, <3>3 DEF ResumeComplete
  <2>2. CASE s = s0
    <3>1. r = r0
      BY <1>3, <2>2
    <3>2. resumedAt[c][s0][r0] \in Nat /\ resumedAt[c][s0][r0] < event.sequence
      <4>1. resumedAt[c][s0][r0] \in Nat /\ resumedAt[c][s0][r0] <= nextSequences[s0][r0]
        BY <1>19
      <4>2. nextSequences[s0][r0] < event.sequence
        BY <1>2, <1>5
      <4> QED  BY <1>2, <1>5, <4>1, <4>2
    <3>3. emitted'[s0][r0] = emitted[s0][r0] \/ emitted'[s0][r0] = Append(emitted[s0][r0], event)
      BY <1>20
    <3>4. \A i \in 1..Len(emitted'[s0][r0]) :
            \/ emitted'[s0][r0][i] = event
            \/ i \in 1..Len(emitted[s0][r0]) /\ emitted'[s0][r0][i] = emitted[s0][r0][i]
      <4>1. emitted[s0][r0] \in Seq(Event)
        BY <1>7
      <4>2. CASE emitted'[s0][r0] = emitted[s0][r0]
        BY <4>2
      <4>3. CASE emitted'[s0][r0] = Append(emitted[s0][r0], event)
        BY <1>2, <4>1, <4>3, AppendFacts
      <4> QED  BY <3>3, <4>2, <4>3
    <3>5. \A i \in 1..Len(emitted'[s0][r0]) :
            emitted'[s0][r0][i].sequence > resumedAt[c][s0][r0] =>
              \E j \in 1..Len(outgoing'[c][s0]) : outgoing'[c][s0][j] = emitted'[s0][r0][i]
      <4> SUFFICES ASSUME NEW i \in 1..Len(emitted'[s0][r0]),
                          emitted'[s0][r0][i].sequence > resumedAt[c][s0][r0]
                   PROVE  \E j \in 1..Len(outgoing'[c][s0]) :
                            outgoing'[c][s0][j] = emitted'[s0][r0][i]
        OBVIOUS
      <4>1. CASE emitted'[s0][r0][i] = event
        BY <1>18, <4>1
      <4>2. CASE i \in 1..Len(emitted[s0][r0]) /\ emitted'[s0][r0][i] = emitted[s0][r0][i]
        <5>1. PICK j \in 1..Len(outgoing[c][s0]) : outgoing[c][s0][j] = emitted[s0][r0][i]
          BY <1>3, <4>2, NoRuntimeAssumption DEF ResumeComplete
        <5> QED  BY <1>18, <4>2, <5>1
      <4> QED  BY <3>4, <4>1, <4>2
    <3>6. \A j \in 1..Len(outgoing'[c][s0]) :
            outgoing'[c][s0][j].runtime = r0 =>
              outgoing'[c][s0][j].sequence > resumedAt[c][s0][r0]
      <4> SUFFICES ASSUME NEW j \in 1..Len(outgoing'[c][s0]), outgoing'[c][s0][j].runtime = r0
                   PROVE  outgoing'[c][s0][j].sequence > resumedAt[c][s0][r0]
        OBVIOUS
      <4>1. CASE outgoing'[c][s0][j] = event
        BY <1>2, <3>2, <4>1
      <4>2. CASE j \in 1..Len(outgoing[c][s0]) /\ outgoing'[c][s0][j] = outgoing[c][s0][j]
        BY <1>3, <4>2, NoRuntimeAssumption DEF ResumeComplete
      <4> QED  BY <1>18, <4>1, <4>2
    <3> QED  BY <2>2, <3>1, <3>5, <3>6
  <2> QED  BY <2>1, <2>2
<1> QED  BY <1>1, <1>10, <1>11, <1>12, <1>13, <1>14, <1>15, <1>16

-----------------------------------------------------------------------------
(* Subscribing. *)

LEMMA UnsubscribeStep ==
  ASSUME HubIInv, NEW c0 \in Connections, Unsubscribe(c0)
  PROVE  HubIInv'
<1> USE DEF HubIInv
<1>1. HubTypeOK'
  BY HubTypeStep DEF HubNext
<1>2. /\ subscribers' \subseteq subscribers
      /\ UNCHANGED <<epoch, activeRuntimes, nextSequences, journal, outgoing, begun,
                     emitted, resumedAt>>
  BY DEF Unsubscribe
<1>3. \A s \in Sessions, r \in Runtimes : HasBegun(s, r)' <=> HasBegun(s, r)
  BY <1>2 DEF HasBegun
<1>4. BegunOnce'
  BY <1>2 DEF BegunOnce
<1>10. ActiveIsLatest'
  BY <1>2 DEF ActiveIsLatest
<1>9. JournalIsNewest'
  BY <1>2 DEF JournalIsNewest
<1>5. EmittedCounted' /\ ResumeCounted'
  BY <1>2, <1>3 DEF EmittedCounted, ResumeCounted
<1>6. StreamCounted'
  <2> SUFFICES ASSUME NEW c \in subscribers, NEW s \in Sessions, NEW i \in 1..Len(outgoing[c][s])
               PROVE  /\ HasBegun(s, outgoing[c][s][i].runtime)
                      /\ outgoing[c][s][i].runtime = activeRuntimes[s] =>
                           outgoing[c][s][i].sequence
                             <= nextSequences[s][outgoing[c][s][i].runtime]
    BY <1>2 DEF StreamCounted, HasBegun
  <2> QED  BY DEF StreamCounted
<1>7. StreamOrdered'
  BY <1>2 DEF StreamOrdered, Precedes
<1>8. ResumeComplete'
  BY <1>2 DEF ResumeComplete
<1> QED  BY <1>1, <1>4, <1>5, <1>6, <1>7, <1>8, <1>9, <1>10

LEMMA RestartStep ==
  ASSUME HubIInv, Restart
  PROVE  HubIInv'
<1> USE DEF HubIInv
<1>1. HubTypeOK'
  BY DEF Restart, HubTypeOK
<1>2. BegunOnce' /\ ActiveIsLatest' /\ EmittedCounted'
  BY DEF Restart, BegunOnce, ActiveIsLatest, EmittedCounted
<1>3. JournalIsNewest'
  BY NoRuntimeAssumption DEF Restart, JournalIsNewest
<1>4. StreamCounted' /\ ResumeCounted' /\ StreamOrdered' /\ ResumeComplete'
  BY DEF Restart, StreamCounted, ResumeCounted, StreamOrdered, ResumeComplete
<1> QED  BY <1>1, <1>2, <1>3, <1>4

\* The frames of session s a new subscriber is sent, after its cursor.
Replayed(s, n) == SubSeq(JournalOf(s), n + 1, Len(JournalOf(s)))

LEMMA ReplayFacts ==
  ASSUME HubIInv, NEW known \in KnownCursors, NEW s \in Sessions, NEW r \in Runtimes,
         activeRuntimes[s] = r, NEW cut \in Nat, ReplayCut(CursorsOf(known), s, cut)
  PROVE  /\ NotOwed(CursorsOf(known), s, r) <= nextSequences[s][r]
         /\ \A i \in 1..Len(Replayed(s, cut)) :
              /\ Replayed(s, cut)[i].runtime = r
              /\ Replayed(s, cut)[i].sequence > NotOwed(CursorsOf(known), s, r)
              /\ Replayed(s, cut)[i].sequence <= nextSequences[s][r]
              /\ \A j \in 1..Len(Replayed(s, cut)) :
                   i < j => Replayed(s, cut)[i].sequence < Replayed(s, cut)[j].sequence
         /\ \A i \in 1..Len(emitted[s][r]) :
              emitted[s][r][i].sequence > NotOwed(CursorsOf(known), s, r) =>
                \E j \in 1..Len(Replayed(s, cut)) : Replayed(s, cut)[j] = emitted[s][r][i]
<1> USE DEF HubIInv
<1> DEFINE log == JournalOf(s)
           all == emitted[s][r]
           replay == Replayed(s, cut)
           notOwed == NotOwed(CursorsOf(known), s, r)
           applied == ResumePoint(CursorsOf(known), s, r)
           evicted == EvictedUpTo(s, r)
<1>1. log = journal[s][r] /\ log \in Seq(Event) /\ all \in Seq(Event)
  BY NoRuntimeAssumption DEF JournalOf, HubTypeOK
<1>2. IsNewestOf(log, all)
  BY <1>1 DEF JournalIsNewest
<1>3. \A i \in 1..Len(all) :
        /\ all[i] \in Event /\ all[i].runtime = r
        /\ all[i].sequence \in Nat /\ all[i].sequence <= nextSequences[s][r]
  BY <1>1, EventFields DEF EmittedCounted
<1>4. \A i, j \in 1..Len(all) : i < j => all[i].sequence < all[j].sequence
  BY DEF EmittedCounted
<1>5. IsCut(log, applied, cut)
  BY NoRuntimeAssumption DEF ReplayCut
<1>6. nextSequences[s][r] \in Nat /\ notOwed = IF applied > evicted THEN applied ELSE evicted
  BY DEF NotOwed, ResumePoint, HubTypeOK
<1>7. applied \in Nat /\ applied <= nextSequences[s][r]
  <2>1. CursorsOf(known)[s][r] = known[s]
    BY DEF CursorsOf
  <2>2. known[s] \in [epoch: Nat, sequence: Nat]
    BY DEF KnownCursors, HubTypeOK
  <2>3. known[s].epoch = epoch => known[s].sequence <= nextSequences[s][r]
    BY <1>6 DEF KnownCursors
  <2> QED  BY <1>6, <2>1, <2>2, <2>3 DEF ResumePoint
<1>8. evicted = IF Len(all) - Len(log) > 0 THEN all[Len(all) - Len(log)].sequence ELSE 0
  BY <1>1 DEF EvictedUpTo
<1>18. replay = SubSeq(log, cut + 1, Len(log))
  BY DEF Replayed
<1> HIDE DEF log, all, applied, evicted, replay, notOwed
<1>9. PICK k \in Nat, n \in Nat : k = Len(log) /\ n = Len(all) /\ k <= n
  BY <1>1, <1>2 DEF IsNewestOf
<1>10. \A i \in 1..k : log[i] = all[n - k + i]
  BY <1>2, <1>9 DEF IsNewestOf
<1>11. /\ evicted \in Nat /\ evicted <= nextSequences[s][r]
       /\ \A i \in 1..n : n - k < i => all[i].sequence > evicted
  <2>1. CASE n - k > 0
    <3>1. n - k \in 1..n /\ evicted = all[n - k].sequence
      BY <1>8, <1>9, <2>1
    <3> QED  BY <1>3, <1>4, <1>9, <3>1
  <2>2. CASE n = k
    <3>1. evicted = 0
      BY <1>8, <1>9, <2>2
    <3>2. \A i \in 1..n : all[i].sequence > 0
      BY <1>3, <1>9 DEF Event
    <3> QED  BY <1>6, <3>1, <3>2
  <2> QED  BY <1>9, <2>1, <2>2
<1>12. /\ cut <= k
       /\ \A i \in 1..cut : log[i].sequence <= applied
       /\ \A i \in (cut + 1)..k : log[i].sequence > applied
  BY <1>5, <1>9 DEF IsCut
<1>13. Len(replay) = k - cut /\ \A i \in 1..(k - cut) : replay[i] = log[cut + i]
  <2> DEFINE rest == SubSeq(log, cut + 1, Len(log))
  <2>1. Len(rest) = k - cut /\ \A i \in 1..(k - cut) : rest[i] = log[cut + i]
    BY <1>1, <1>9, <1>12
  <2> QED  BY <1>18, <2>1
<1>14. ASSUME NEW i \in 1..(k - cut)
       PROVE  LET m == n - k + (cut + i) IN
              /\ m \in 1..n /\ n - k < m /\ replay[i] = all[m] /\ replay[i].sequence > applied
  <2>1. cut + i \in (cut + 1)..k /\ cut + i \in 1..k
    BY <1>9, <1>12
  <2>2. n - k + (cut + i) \in 1..n /\ n - k < n - k + (cut + i)
    BY <1>9, <2>1
  <2> QED  BY <1>10, <1>12, <1>13, <2>1, <2>2
<1>15. ASSUME NEW i \in 1..Len(replay)
       PROVE  /\ replay[i] \in Event /\ replay[i].runtime = r
              /\ replay[i].sequence > notOwed
              /\ replay[i].sequence <= nextSequences[s][r]
              /\ \A j \in 1..Len(replay) : i < j => replay[i].sequence < replay[j].sequence
  <2>1. i \in 1..(k - cut)
    BY <1>13
  <2>2. replay[i].sequence > applied /\ replay[i].sequence > evicted
    BY <1>11, <1>14, <2>1
  <2>3. ASSUME NEW j \in 1..(k - cut), i < j
        PROVE  replay[i].sequence < replay[j].sequence
    <3>1. n - k + (cut + i) < n - k + (cut + j)
      BY <1>9, <2>1, <2>3
    <3> QED  BY <1>4, <1>9, <1>14, <2>1, <3>1
  <2> QED  BY <1>3, <1>6, <1>9, <1>13, <1>14, <2>1, <2>2, <2>3
<1>16. ASSUME NEW i \in 1..n, all[i].sequence > notOwed
       PROVE  \E j \in 1..Len(replay) : replay[j] = all[i]
  <2>1. all[i].sequence > evicted /\ all[i].sequence > applied
    BY <1>3, <1>6, <1>7, <1>9, <1>11, <1>16
  <2>2. n - k < i
    <3>1. CASE n - k > 0
      <4>1. n - k \in 1..n /\ evicted = all[n - k].sequence
        BY <1>8, <1>9, <3>1
      <4>2. ~ (i = n - k) /\ ~ (i < n - k)
        <5>1. i < n - k => all[i].sequence < evicted
          BY <1>4, <1>9, <4>1
        <5>2. i = n - k => all[i].sequence = evicted
          BY <4>1
        <5>3. all[i].sequence \in Nat /\ evicted \in Nat
          BY <1>3, <1>9, <1>11
        <5> QED  BY <2>1, <5>1, <5>2, <5>3
      <4> QED  BY <1>9, <1>16, <4>1, <4>2
    <3>2. CASE n = k
      BY <1>9, <3>2
    <3> QED  BY <1>9, <3>1, <3>2
  <2>3. i - (n - k) \in 1..k /\ all[i] = log[i - (n - k)]
    <3>1. i - (n - k) \in 1..k /\ n - k + (i - (n - k)) = i
      BY <1>9, <2>2
    <3> QED  BY <1>10, <3>1
  <2>4. i - (n - k) > cut
    BY <1>3, <1>7, <1>9, <1>12, <2>1, <2>3
  <2>5. i - (n - k) - cut \in 1..(k - cut) /\ cut + (i - (n - k) - cut) = i - (n - k)
    BY <1>9, <1>12, <2>3, <2>4
  <2> QED  BY <1>13, <2>3, <2>5
<1>17. notOwed \in Nat /\ notOwed <= nextSequences[s][r]
  BY <1>6, <1>7, <1>11
<1> QED  BY <1>9, <1>15, <1>16, <1>17 DEF all, replay, notOwed

LEMMA SubscribeStep ==
  ASSUME HubIInv, NEW c0 \in Connections, NEW known \in KnownCursors,
         Subscribe(c0, CursorsOf(known))
  PROVE  HubIInv'
<1> USE DEF HubIInv
<1>1. HubTypeOK'
  BY SubscribeType, KnownCursorsType
<1>2. UNCHANGED <<epoch, activeRuntimes, nextSequences, journal, begun, emitted>>
  BY DEF Subscribe
<1>3. PICK cut \in [Sessions -> 0..MaxReplay] :
        /\ \A s \in Sessions : ReplayCut(CursorsOf(known), s, cut[s])
        /\ outgoing' = [outgoing EXCEPT ![c0] = [s \in Sessions |-> Replayed(s, cut[s])]]
  BY DEF Subscribe, Replayed
<1>4. \A s \in Sessions : cut[s] \in Nat
  BY <1>3, MaxReplayAssumption
<1>5. \A s \in Sessions : outgoing'[c0][s] = Replayed(s, cut[s])
  BY <1>3 DEF HubTypeOK
<1>6. \A s \in Sessions, r \in Runtimes :
        resumedAt'[c0][s][r] = NotOwed(CursorsOf(known), s, r)
  BY DEF Subscribe, HubTypeOK
<1>7. \A c \in subscribers' :
        c # c0 => c \in subscribers /\ outgoing'[c] = outgoing[c] /\ resumedAt'[c] = resumedAt[c]
  BY <1>3 DEF Subscribe, HubTypeOK
<1>8. \A s \in Sessions, r \in Runtimes : HasBegun(s, r)' <=> HasBegun(s, r)
  BY <1>2 DEF HasBegun
<1>9. ASSUME NEW s \in Sessions, activeRuntimes[s] = NoRuntime
      PROVE  Len(Replayed(s, cut[s])) = 0
  <2>1. JournalOf(s) = << >>
    BY <1>9 DEF JournalOf
  <2>2. cut[s] + 1 > Len(<< >>) /\ cut[s] \in Nat
    BY <1>4
  <2> QED  BY <2>1, <2>2 DEF Replayed
<1>10. ASSUME NEW s \in Sessions, NEW r \in Runtimes, activeRuntimes[s] = r
       PROVE  /\ NotOwed(CursorsOf(known), s, r) <= nextSequences[s][r]
              /\ \A i \in 1..Len(Replayed(s, cut[s])) :
                   /\ Replayed(s, cut[s])[i].runtime = r
                   /\ Replayed(s, cut[s])[i].sequence > NotOwed(CursorsOf(known), s, r)
                   /\ Replayed(s, cut[s])[i].sequence <= nextSequences[s][r]
                   /\ \A j \in 1..Len(Replayed(s, cut[s])) :
                        i < j => Replayed(s, cut[s])[i].sequence < Replayed(s, cut[s])[j].sequence
              /\ \A i \in 1..Len(emitted[s][r]) :
                   emitted[s][r][i].sequence > NotOwed(CursorsOf(known), s, r) =>
                     \E j \in 1..Len(Replayed(s, cut[s])) :
                       Replayed(s, cut[s])[j] = emitted[s][r][i]
  <2> HIDE DEF HubIInv
  <2>1. ReplayCut(CursorsOf(known), s, cut[s]) /\ cut[s] \in Nat
    BY <1>3, <1>4
  <2> QED  BY <1>10, <2>1, ReplayFacts
<1>11. \A s \in Sessions :
         activeRuntimes[s] # NoRuntime =>
           activeRuntimes[s] \in Runtimes /\ HasBegun(s, activeRuntimes[s])
  <2> SUFFICES ASSUME NEW s \in Sessions, activeRuntimes[s] # NoRuntime
               PROVE  activeRuntimes[s] \in Runtimes /\ HasBegun(s, activeRuntimes[s])
    OBVIOUS
  <2>1. begun[s] \in Seq(Runtimes) /\ activeRuntimes[s] \in Runtimes
    BY DEF HubTypeOK
  <2>2. Len(begun[s]) \in 1..Len(begun[s])
    BY <2>1 DEF ActiveIsLatest
  <2> QED  BY <2>1, <2>2 DEF ActiveIsLatest, HasBegun
<1>12. BegunOnce' /\ ActiveIsLatest'
  BY <1>2 DEF BegunOnce, ActiveIsLatest
<1>13. EmittedCounted'
  BY <1>2, <1>8 DEF EmittedCounted
<1>14. JournalIsNewest'
  BY <1>2 DEF JournalIsNewest
<1>15. StreamCounted'
  <2> SUFFICES ASSUME NEW c \in subscribers', NEW s \in Sessions,
                      NEW i \in 1..Len(outgoing'[c][s]), NEW f, f = outgoing'[c][s][i]
               PROVE  /\ HasBegun(s, f.runtime)
                      /\ f.runtime = activeRuntimes[s] => f.sequence <= nextSequences[s][f.runtime]
    BY <1>2 DEF StreamCounted, HasBegun
  <2>1. CASE c = c0
    BY <1>5, <1>9, <1>10, <1>11, <2>1
  <2>2. CASE c # c0
    BY <1>7, <2>2 DEF StreamCounted
  <2> QED  BY <2>1, <2>2
<1>16. ResumeCounted'
  <2> SUFFICES ASSUME NEW c \in subscribers', NEW s \in Sessions, NEW r \in Runtimes
               PROVE  /\ ~ HasBegun(s, r) => resumedAt'[c][s][r] = 0
                      /\ activeRuntimes[s] = r => resumedAt'[c][s][r] <= nextSequences[s][r]
    BY <1>2, <1>8 DEF ResumeCounted
  <2>1. CASE c # c0
    BY <1>7, <2>1 DEF ResumeCounted
  <2>2. CASE c = c0 /\ activeRuntimes[s] = r
    BY <1>6, <1>10, <1>11, <2>2, NoRuntimeAssumption
  <2>3. CASE c = c0 /\ activeRuntimes[s] # r
    <3>1. CursorsOf(known)[s][r] = [epoch |-> 0, sequence |-> 0]
      BY <2>3 DEF CursorsOf
    <3>2. ~ HasBegun(s, r) => EvictedUpTo(s, r) = 0
      <4> SUFFICES ASSUME ~ HasBegun(s, r) PROVE EvictedUpTo(s, r) = 0
        OBVIOUS
      <4>1. PICK n \in Nat : n = Len(journal[s][r])
        BY DEF HubTypeOK
      <4>2. Len(emitted[s][r]) = 0
        BY DEF EmittedCounted
      <4>3. ~ (0 - n > 0)
        BY <4>1
      <4> QED  BY <4>1, <4>2, <4>3 DEF EvictedUpTo
    <3>3. ~ HasBegun(s, r) => NotOwed(CursorsOf(known), s, r) = 0
      BY <3>1, <3>2 DEF NotOwed
    <3> QED  BY <1>6, <2>3, <3>3
  <2> QED  BY <2>1, <2>2, <2>3
<1>17. StreamOrdered'
  <2>1. ASSUME NEW s \in Sessions, NEW e, NEW f
        PROVE  Precedes(s, e, f)' <=> Precedes(s, e, f)
    BY <1>2 DEF Precedes
  <2> SUFFICES ASSUME NEW c \in subscribers', NEW s \in Sessions,
                      NEW i \in 1..Len(outgoing'[c][s]), NEW j \in 1..Len(outgoing'[c][s]), i < j
               PROVE  Precedes(s, outgoing'[c][s][i], outgoing'[c][s][j])
    BY <2>1 DEF StreamOrdered
  <2>2. CASE c = c0
    BY <1>5, <1>9, <1>10, <1>11, <2>2 DEF Precedes
  <2>3. CASE c # c0
    BY <1>7, <2>3 DEF StreamOrdered
  <2> QED  BY <2>2, <2>3
<1>18. ResumeComplete'
  <2> SUFFICES ASSUME NEW c \in subscribers', NEW s \in Sessions, NEW r \in Runtimes,
                      r = activeRuntimes[s]
               PROVE  /\ \A i \in 1..Len(emitted[s][r]) :
                           emitted[s][r][i].sequence > resumedAt'[c][s][r] =>
                             \E j \in 1..Len(outgoing'[c][s]) :
                               outgoing'[c][s][j] = emitted[s][r][i]
                      /\ \A j \in 1..Len(outgoing'[c][s]) :
                           outgoing'[c][s][j].runtime = r =>
                             outgoing'[c][s][j].sequence > resumedAt'[c][s][r]
    BY <1>2, <1>11 DEF ResumeComplete
  <2>1. CASE c = c0
    <3>1. /\ outgoing'[c][s] = Replayed(s, cut[s])
          /\ resumedAt'[c][s][r] = NotOwed(CursorsOf(known), s, r)
      BY <1>5, <1>6, <2>1
    <3> QED  BY <1>10, <3>1
  <2>2. CASE c # c0
    <3>1. /\ c \in subscribers
          /\ outgoing'[c][s] = outgoing[c][s] /\ resumedAt'[c][s][r] = resumedAt[c][s][r]
      BY <1>7, <2>2
    <3>2. r # NoRuntime
      BY NoRuntimeAssumption
    <3> QED  BY <3>1, <3>2 DEF ResumeComplete
  <2> QED  BY <2>1, <2>2
<1> QED  BY <1>1, <1>12, <1>13, <1>14, <1>15, <1>16, <1>17, <1>18

-----------------------------------------------------------------------------
(* The theorems. *)

LEMMA HubIInvStep ==
  ASSUME HubIInv, [HubNext]_hubVars
  PROVE  HubIInv'
<1>1. ASSUME UNCHANGED hubVars
      PROVE  HubIInv'
  <2> USE <1>1 DEF hubVars, HubIInv
  <2>1. HubTypeOK' /\ BegunOnce' /\ ActiveIsLatest'
    BY HubTypeStep DEF BegunOnce, ActiveIsLatest
  <2>2. EmittedCounted' /\ ResumeCounted' /\ StreamCounted'
    BY DEF EmittedCounted, ResumeCounted, StreamCounted, HasBegun
  <2>3. JournalIsNewest' /\ ResumeComplete'
    BY DEF JournalIsNewest, ResumeComplete
  <2>4. ASSUME NEW s \in Sessions, NEW e, NEW f
        PROVE  Precedes(s, e, f)' <=> Precedes(s, e, f)
    BY DEF Precedes
  <2>5. StreamOrdered'
    BY <2>4 DEF StreamOrdered
  <2> QED  BY <2>1, <2>2, <2>3, <2>5
<1> QED  BY <1>1, BeginRuntimeStep, EndRuntimeStep, EmitStep, SubscribeStep, UnsubscribeStep,
            RestartStep DEF HubNext

THEOREM HubInvariant == HubSpec => []HubIInv
  BY HubIInvInit, HubIInvStep, PTL DEF HubSpec

(***************************************************************************)
(* The replay journal is always the newest MaxReplay events of the active  *)
(* runtime and empty for every other (begin_runtime, end_runtime, emit),   *)
(* for any limit and any number of sessions.                               *)
(***************************************************************************)
THEOREM JournalCorrect == HubSpec => []JournalIsNewest
<1>1. HubIInv => JournalIsNewest
  BY DEF HubIInv
<1> QED  BY <1>1, HubInvariant, PTL

(***************************************************************************)
(* A connection is never sent an event twice, out of order, or after an    *)
(* event of the runtime that replaced its own (emit, subscribe).           *)
(***************************************************************************)
THEOREM StreamCorrect == HubSpec => []StreamOrdered
<1>1. HubIInv => StreamOrdered
  BY DEF HubIInv
<1> QED  BY <1>1, HubInvariant, PTL

(***************************************************************************)
(* A connection that resumes from cursors of this daemon process is sent   *)
(* everything newer that was still in the journal, and nothing older       *)
(* (subscribe), for any journal limit and any interleaving of clients.     *)
(***************************************************************************)
THEOREM ResumeCorrect == HubSpec => []ResumeComplete
<1>1. HubIInv => ResumeComplete
  BY DEF HubIInv
<1> QED  BY <1>1, HubInvariant, PTL
=============================================================================
