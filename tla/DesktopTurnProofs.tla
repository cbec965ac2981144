------------------------- MODULE DesktopTurnProofs -------------------------
(***************************************************************************)
(* Proofs about DesktopTurn, for any providers, messages and bounds: its   *)
(* types, that no message is sent twice, that no steer is awaited for      *)
(* ever, and that prompts wait for checkpoints.                            *)
(*                                                                         *)
(* All rest on one invariant: every message is in one place only.  It is   *)
(* stated with a function "at" from the messages to places, and every      *)
(* handler is shown to move messages from place to place: Quiet moves      *)
(* none, Receives and Follows move them inside the task, Handles from the  *)
(* answers into the task, Renews forgets steers.                           *)
(***************************************************************************)
EXTENDS DesktopTurn, SequenceTheorems, WellFoundedInduction, TLAPS

-----------------------------------------------------------------------------
(* Induction without an operator for the property *)

\* A set of numbers that is not empty has a least one.
LEMMA LeastNumber ==
  ASSUME NEW S \in SUBSET Nat, S # {}
  PROVE  \E n \in S : \A m \in S : n <= m
<1>1. ASSUME NEW R, IsWellFoundedOn(R, Nat)
      PROVE  \E n \in S : \A m \in S : ~ (<<m, n>> \in R)
  BY <1>1, WFMin, Zenon
<1>2. \A m, n \in Nat : m < n => <<m, n>> \in OpToRel(<, Nat)
  BY DEF OpToRel
<1>3. ASSUME NEW R, IsWellFoundedOn(R, Nat), \A x, y \in Nat : x < y => <<x, y>> \in R
      PROVE  \E n \in S : \A m \in S : n <= m
  <2>1. PICK n \in S : \A m \in S : ~ (<<m, n>> \in R)
    BY <1>1, <1>3
  <2>2. \A m \in S : ~ (m < n)
    BY <1>3, <2>1
  <2> QED
    BY <2>2
<1> QED
  BY <1>2, <1>3, NatLessThanWellFounded, Zenon

\* Induction over the numbers, for a set of them instead of an operator.
LEMMA Induction ==
  ASSUME NEW S, 0 \in S, \A n \in Nat : n \in S => n + 1 \in S
  PROVE  Nat \subseteq S
<1>1. SUFFICES ASSUME Nat \ S # {} PROVE FALSE
  OBVIOUS
<1>2. PICK n \in Nat \ S : \A m \in Nat \ S : n <= m
  BY <1>1, LeastNumber
<1>3. n - 1 \in Nat /\ n - 1 \in S
  BY <1>2
<1> QED
  BY <1>2, <1>3

\* What is defined by recursion on the numbers up to n exists.
LEMMA Recursion ==
  ASSUME NEW S, NEW base \in S, NEW n \in Nat, NEW step \in [1..n -> [S -> S]]
  PROVE  \E f \in [0..n -> S] :
           f = [i \in 0..n |-> IF i = 0 THEN base ELSE step[i][f[i - 1]]]
<1> DEFINE Exists == {k \in Nat : k <= n => \E f \in [0..k -> S] :
           f = [i \in 0..k |-> IF i = 0 THEN base ELSE step[i][f[i - 1]]]}
<1>1. 0 \in Exists
  <2> DEFINE f == [i \in 0..0 |-> base]
  <2>1. f \in [0..0 -> S] /\ f = [i \in 0..0 |-> IF i = 0 THEN base ELSE step[i][f[i - 1]]]
    OBVIOUS
  <2> QED BY <2>1
<1>2. ASSUME NEW k \in Nat, k \in Exists, k + 1 <= n PROVE k + 1 \in Exists
  <2>1. PICK f \in [0..k -> S] :
           f = [i \in 0..k |-> IF i = 0 THEN base ELSE step[i][f[i - 1]]]
    BY <1>2
  <2> DEFINE g == [i \in 0..(k + 1) |-> IF i = k + 1 THEN step[i][f[k]] ELSE f[i]]
  <2>2. f[k] \in S
    BY <2>1
  <2>3. step[k + 1][f[k]] \in S
    BY <1>2, <2>2
  <2>4. g \in [0..(k + 1) -> S]
    BY <2>1, <2>3
  <2>5. ASSUME NEW i \in 0..(k + 1) PROVE g[i] = IF i = 0 THEN base ELSE step[i][g[i - 1]]
    <3>1. CASE i = k + 1
      BY <3>1
    <3>2. CASE i # k + 1
      <4>1. i \in 0..k /\ (i # 0 => i - 1 \in 0..k)
        BY <3>2
      <4>2. f[i] = IF i = 0 THEN base ELSE step[i][f[i - 1]]
        BY <2>1, <4>1
      <4> QED BY <3>2, <4>1, <4>2
    <3> QED BY <3>1, <3>2
  <2>6. g = [i \in 0..(k + 1) |-> IF i = 0 THEN base ELSE step[i][g[i - 1]]]
    <3> HIDE DEF g
    <3> QED BY <2>4, <2>5
  <2> HIDE DEF g
  <2>7. k + 1 \in Nat
    OBVIOUS
  <2> QED BY <2>4, <2>6, <2>7
<1>3. ASSUME NEW k \in Nat, ~(k + 1 <= n) PROVE k + 1 \in Exists
  BY <1>3
<1> HIDE DEF Exists
<1>4. n \in Exists
  BY <1>1, <1>2, <1>3, Induction
<1> QED
  BY <1>4 DEF Exists

-----------------------------------------------------------------------------
(* Sequences *)

\* What RemoveAt returns.
LEMMA RemoveAtProperties ==
  ASSUME NEW S, NEW s \in Seq(S), NEW i \in 1..Len(s)
  PROVE  /\ RemoveAt(s, i) \in Seq(S) /\ Len(RemoveAt(s, i)) = Len(s) - 1
         /\ \A j \in 1..(Len(s) - 1) : RemoveAt(s, i)[j] = IF j < i THEN s[j] ELSE s[j + 1]
<1> DEFINE front == SubSeq(s, 1, i - 1)
           back == SubSeq(s, i + 1, Len(s))
<1>0. Len(s) \in Nat /\ \A j \in 1..Len(s) : s[j] \in S
  BY LenProperties, ElementOfSeq
<1>1. front \in Seq(S) /\ Len(front) = i - 1 /\ \A j \in 1..(i - 1) : front[j] = s[j]
  <2>1. \A j \in 1..(i - 1) : s[j] \in S
    BY <1>0
  <2> QED BY <1>0, <2>1, SubSeqProperties
<1>2. back \in Seq(S) /\ Len(back) = Len(s) - i /\ \A j \in 1..(Len(s) - i) : back[j] = s[i + j]
  <2>1. \A j \in (i + 1)..Len(s) : s[j] \in S
    BY <1>0
  <2> QED BY <1>0, <2>1, SubSeqProperties
<1> HIDE DEF front, back
<1>3. RemoveAt(s, i) = front \o back
  BY DEF RemoveAt, front, back
<1>4. /\ front \o back \in Seq(S) /\ Len(front \o back) = Len(front) + Len(back)
      /\ \A j \in 1..(Len(front) + Len(back)) :
           (front \o back)[j] = IF j <= Len(front) THEN front[j] ELSE back[j - Len(front)]
  BY <1>1, <1>2, ConcatProperties
<1>5. ASSUME NEW j \in 1..(Len(s) - 1)
      PROVE  (front \o back)[j] = IF j < i THEN s[j] ELSE s[j + 1]
  <2>1. CASE j < i
    <3>1. j \in 1..(i - 1) /\ j \in 1..(Len(front) + Len(back)) /\ j <= Len(front)
      BY <2>1, <1>0, <1>1, <1>2
    <3> QED BY <1>1, <1>4, <2>1, <3>1
  <2>2. CASE ~ (j < i)
    <3>1. j - (i - 1) \in 1..(Len(s) - i) /\ j \in 1..(Len(front) + Len(back)) /\ ~ (j <= Len(front))
      BY <2>2, <1>0, <1>1, <1>2
    <3>2. back[j - (i - 1)] = s[i + (j - (i - 1))] /\ i + (j - (i - 1)) = j + 1
      BY <1>0, <1>2, <3>1
    <3> QED BY <1>1, <1>4, <2>2, <3>1, <3>2
  <2> QED BY <2>1, <2>2
<1> QED
  BY <1>0, <1>1, <1>2, <1>3, <1>4, <1>5

\* r has the elements of s, but for the one at i.
Omits(s, i, r) ==
  /\ \A j \in DOMAIN r : \E k \in DOMAIN s : k # i /\ r[j] = s[k]
  /\ \A j, k \in DOMAIN r : j # k =>
       \E a, b \in DOMAIN s : a # b /\ r[j] = s[a] /\ r[k] = s[b]

\* RemoveAt leaves out one element, and doubles none.
LEMMA RemoveAtOmits ==
  ASSUME NEW S, NEW s \in Seq(S), NEW i \in DOMAIN s
  PROVE  RemoveAt(s, i) \in Seq(S) /\ Omits(s, i, RemoveAt(s, i))
<1> DEFINE r == RemoveAt(s, i)
<1>1. DOMAIN s = 1..Len(s) /\ Len(s) \in Nat
  BY LenProperties
<1>2. /\ r \in Seq(S) /\ Len(r) = Len(s) - 1
      /\ \A j \in 1..(Len(s) - 1) : r[j] = IF j < i THEN s[j] ELSE s[j + 1]
  BY <1>1, RemoveAtProperties
<1>3. DOMAIN r = 1..(Len(s) - 1)
  BY <1>2, LenProperties
<1> DEFINE old(j) == IF j < i THEN j ELSE j + 1
<1> HIDE DEF r
<1>4. \A j \in DOMAIN r : old(j) \in DOMAIN s /\ old(j) # i /\ r[j] = s[old(j)]
  BY <1>1, <1>2, <1>3
<1>5. \A j, k \in DOMAIN r : j # k => old(j) # old(k)
  BY <1>1, <1>3
<1> HIDE DEF old
<1> QED
  BY <1>2, <1>4, <1>5 DEF Omits, r

\* RemoveFirst leaves out the first element that is equal, if there is one.
LEMMA RemoveFirstProperties ==
  ASSUME NEW S, NEW s \in Seq(S), NEW e
  PROVE  /\ e \notin Range(s) => RemoveFirst(s, e) = s
         /\ e \in Range(s) => \E i \in DOMAIN s : s[i] = e /\ RemoveFirst(s, e) = RemoveAt(s, i)
<1> DEFINE I == {i \in 1..Len(s) : s[i] = e}
<1>1. DOMAIN s = 1..Len(s) /\ Len(s) \in Nat
  BY LenProperties
<1>2. CASE e \notin Range(s)
  BY <1>1, <1>2 DEF Range, RemoveFirst
<1>3. CASE e \in Range(s)
  <2>1. \E i \in 1..Len(s) : s[i] = e
    BY <1>1, <1>3 DEF Range
  <2>2. I # {} /\ I \in SUBSET Nat
    BY <1>1, <2>1
  <2>3. \E x \in I : \A y \in I : x <= y
    BY <2>2, LeastNumber
  <2>4. Min(I) \in I
    BY <2>3 DEF Min
  <2>5. RemoveFirst(s, e) = RemoveAt(s, Min(I))
    BY <2>1, <2>2 DEF RemoveFirst, SelectInSeq
  <2> QED BY <1>1, <1>3, <2>4, <2>5
<1> QED
  BY <1>2, <1>3

\* The front of a sequence is a shorter sequence over the same set.
LEMMA FrontProperties ==
  ASSUME NEW S, NEW s \in Seq(S), s # <<>>
  PROVE  /\ Front(s) \in Seq(S) /\ Len(Front(s)) = Len(s) - 1
         /\ Last(s) \in S
<1>0. Len(s) \in Nat \ {0} /\ \A j \in 1..Len(s) : s[j] \in S
  BY LenProperties, ElementOfSeq, EmptySeq
<1>1. \A j \in 1..(Len(s) - 1) : s[j] \in S
  BY <1>0
<1>2. /\ SubSeq(s, 1, Len(s) - 1) \in Seq(S)
      /\ Len(SubSeq(s, 1, Len(s) - 1)) = IF 1 <= Len(s) - 1 THEN Len(s) - 1 - 1 + 1 ELSE 0
  BY <1>0, <1>1, SubSeqProperties, 1 \in Int, Len(s) - 1 \in Int
<1>3. Front(s) = SubSeq(s, 1, Len(s) - 1) /\ Last(s) = s[Len(s)]
  BY DEF Front, Last
<1>4. Len(Front(s)) = IF 1 <= Len(s) - 1 THEN Len(s) - 1 - 1 + 1 ELSE 0
  BY <1>2, <1>3
<1>5. \A n \in Nat \ {0} : (IF 1 <= n - 1 THEN n - 1 - 1 + 1 ELSE 0) = n - 1
  OBVIOUS
<1>6. Len(Front(s)) = Len(s) - 1
  BY <1>0, <1>4, <1>5
<1> QED
  BY <1>0, <1>2, <1>3, <1>6

-----------------------------------------------------------------------------
(* The invariant *)

\* Where a message is.
Places ==
  {"fresh", "composer", "queue", "preparing", "sent", "called", "taken", "answered", "gone"}

\* The messages the task holds, and the steers it awaits: none of them twice.
Holds(t, at) ==
  /\ t.composer # NoMessage => at[t.composer] = "composer"
  /\ \A i \in DOMAIN t.queue : at[t.queue[i]] = "queue"
  /\ \A i \in DOMAIN t.preparations : at[t.preparations[i].message] = "preparing"
  /\ \A i \in DOMAIN t.steers : at[t.steers[i]] \in {"called", "taken", "answered"}
  /\ \A i, j \in DOMAIN t.queue : t.queue[i] = t.queue[j] => i = j
  /\ \A i, j \in DOMAIN t.preparations :
       t.preparations[i].message = t.preparations[j].message => i = j
  /\ \A i, j \in DOMAIN t.steers : t.steers[i] = t.steers[j] => i = j

\* The messages nobody has typed, and the prompts the driver got.
Writes(typed, prompts, at) ==
  /\ \A m \in typed : at[m] = "fresh"
  /\ \A i \in DOMAIN prompts : at[prompts[i].message] = "sent"
  /\ \A i, j \in DOMAIN prompts : prompts[i].message = prompts[j].message => i = j

\* The steers the driver was given and has not taken, or not answered.
Asks(cs, took, at) ==
  /\ \A i \in DOMAIN cs : cs[i].call = "steer" => at[cs[i].message] = "called"
  /\ \A i, j \in DOMAIN cs :
       cs[i].call = "steer" /\ cs[j].call = "steer" /\ cs[i].message = cs[j].message => i = j
  /\ \A m \in Messages : at[m] = "called" => Steer(m) \in Range(cs)
  /\ \A m \in Messages : m \in took <=> at[m] = "taken"

IsAnswer(e) == e.event \in {"SteerAccepted", "SteerRejected"}

\* The answers that wait behind the first n events.
Answers(es, n, at) ==
  /\ \A i \in DOMAIN es : n < i /\ IsAnswer(es[i]) => at[es[i].message] = "answered"
  /\ \A i, j \in DOMAIN es :
       n < i /\ n < j /\ IsAnswer(es[i]) /\ IsAnswer(es[j]) /\ es[i].message = es[j].message => i = j
  /\ \A m \in Messages : at[m] = "answered" =>
       \E i \in DOMAIN es : n < i /\ es[i] \in {SteerAccepted(m), SteerRejected(m)}

\* Every message is in one place only.
InOnePlace ==
  task.misread \/ \E at \in [Messages -> Places] :
    /\ Holds(task, at) /\ Writes(fresh, sent, at)
    /\ Asks(calls, steering, at) /\ Answers(events, 0, at)

\* Checkpoints are captured of the last turn only, and not while it runs.
Settled(t) ==
  ~ SetsGoals(t) =>
    /\ Active(t) => t.captures = {} /\ t.inFlight = {}
    /\ t.captures \cup t.inFlight \subseteq {Len(t.turns)}

DesktopIInv == DesktopTypeOK /\ Settled(task) /\ InOnePlace

TaskOK(t) ==
  /\ t \in Task
  /\ ~ t.runtime => t.steers = <<>>
  /\ t.preparing => t.preparations # <<>>
  /\ t.forkDriver => t.fork

\* u holds the mail of t, and its runtime.
Carries(t, u) ==
  /\ u.provider = t.provider /\ u.misread = t.misread
  /\ u.runtime = t.runtime /\ u.steers = t.steers
  /\ u.composer = t.composer /\ u.queue = t.queue /\ u.preparations = t.preparations

Quiet(t, u) == TaskOK(u) /\ Carries(t, u) /\ (Settled(t) => Settled(u))

\* The turns of a task, and what it means that the last one runs.
LEMMA TurnsOK ==
  ASSUME NEW t \in Task
  PROVE  /\ Len(t.turns) \in Nat /\ (t.turns # <<>> => Len(t.turns) \in DOMAIN t.turns)
         /\ DOMAIN t.turns = 1..Len(t.turns)
         /\ t.turns # <<>> => t.turns[Len(t.turns)] \in Turn
         /\ Active(t) <=> t.turns # <<>> /\ t.turns[Len(t.turns)].status = "Running"
<1>1. t.turns \in Seq(Turn)
  BY DEF Task
<1>2. Len(t.turns) \in Nat /\ DOMAIN t.turns = 1..Len(t.turns)
  BY <1>1, LenProperties
<1>3. t.turns # <<>> => Len(t.turns) \in 1..Len(t.turns)
  BY <1>1, <1>2, EmptySeq
<1>4. t.turns # <<>> => t.turns[Len(t.turns)] \in Turn
  BY <1>1, <1>3, ElementOfSeq
<1> QED
  BY <1>2, <1>3, <1>4 DEF Active, Last

\* A turn is begun: the mail stays, and the new turn is the running one.
LEMMA BeginTurnOK ==
  ASSUME NEW t, TaskOK(t), NEW messages \in Seq(Messages)
  PROVE  LET u == BeginTurn(t, messages) IN
         /\ TaskOK(u) /\ Carries(t, u)
         /\ u = [t EXCEPT !.turns = u.turns]
         /\ u.turns # <<>> /\ Len(u.turns) = Len(t.turns) + 1
         /\ Active(u) /\ Unstarted(u)
<1> DEFINE turn == [status |-> "Running", started |-> FALSE, messages |-> messages]
           turns == Append(t.turns, turn)
           u == BeginTurn(t, messages)
<1>1. t \in Task /\ t.turns \in Seq(Turn) /\ turn \in Turn
  BY DEF TaskOK, Task, Turn
<1>2. turns \in Seq(Turn) /\ turns # <<>> /\ Len(turns) = Len(t.turns) + 1 /\ turns[Len(t.turns) + 1] = turn
  BY <1>1, AppendProperties
<1> HIDE DEF turns
<1>3. u = [t EXCEPT !.turns = turns]
  BY DEF BeginTurn, turns
<1>4. u \in Task
  BY <1>1, <1>2, <1>3 DEF Task
<1>5. TaskOK(u) /\ Carries(t, u) /\ u.turns = turns
  BY <1>1, <1>3, <1>4 DEF TaskOK, Carries, Task
<1>6. Active(u) /\ Unstarted(u)
  BY <1>2, <1>5 DEF Active, Unstarted, Last
<1> QED
  BY <1>2, <1>3, <1>5, <1>6

\* The last turn is changed: how it ends is all that the rest depends on.
LEMMA LastTurnOK ==
  ASSUME NEW t, TaskOK(t), t.turns # <<>>, NEW turn \in Turn
  PROVE  LET u == [t EXCEPT !.turns[Len(t.turns)] = turn] IN
         /\ TaskOK(u) /\ Carries(t, u)
         /\ Len(u.turns) = Len(t.turns) /\ u.turns # <<>> /\ Last(u.turns) = turn
         /\ Active(u) <=> turn.status = "Running"
         /\ u.captures = t.captures /\ u.inFlight = t.inFlight
<1> DEFINE turns == [t.turns EXCEPT ![Len(t.turns)] = turn]
           u == [t EXCEPT !.turns[Len(t.turns)] = turn]
<1>1. t \in Task /\ t.turns \in Seq(Turn) /\ Len(t.turns) \in 1..Len(t.turns)
  BY TurnsOK DEF TaskOK, Task
<1>2. turns \in Seq(Turn) /\ Len(turns) = Len(t.turns) /\ turns[Len(t.turns)] = turn
  BY <1>1, ExceptSeq
<1>3. turns # <<>>
  BY <1>1, <1>2, EmptySeq
<1> HIDE DEF turns
<1>4. u = [t EXCEPT !.turns = turns]
  BY <1>1 DEF turns, Task
<1>5. u \in Task
  BY <1>1, <1>2, <1>4 DEF Task
<1>6. /\ TaskOK(u) /\ Carries(t, u) /\ u.turns = turns
      /\ u.captures = t.captures /\ u.inFlight = t.inFlight
  BY <1>1, <1>4, <1>5 DEF TaskOK, Carries, Task
<1>7. Last(u.turns) = turn
  BY <1>2, <1>6 DEF Last
<1> QED
  BY <1>2, <1>3, <1>6, <1>7 DEF Active

-----------------------------------------------------------------------------
(* The session, checkpoints and flags *)

\* A task whose captures, and the number of whose turns, are the same stays settled
\* unless a turn begins to run.
LEMMA SettledLater ==
  ASSUME NEW t, NEW u, u.provider = t.provider, u.captures = t.captures, u.inFlight = t.inFlight,
         Len(u.turns) = Len(t.turns), Active(u) => Active(t)
  PROVE  Settled(t) => Settled(u)
BY DEF Settled, SetsGoals

\* Doing nothing is quiet.
LEMMA QuietItself ==
  ASSUME NEW t, TaskOK(t)
  PROVE  Quiet(t, t)
BY DEF Quiet, Carries

\* Two quiet changes are one.
LEMMA QuietTwice ==
  ASSUME NEW t, NEW u, NEW v, Quiet(t, u), Quiet(u, v)
  PROVE  Quiet(t, v)
BY DEF Quiet, Carries

\* To mark the turn as started is quiet.
LEMMA MarkStartedOK ==
  ASSUME NEW t, TaskOK(t)
  PROVE  /\ Quiet(t, MarkStarted(t))
         /\ Len(MarkStarted(t).turns) = Len(t.turns)
         /\ Active(MarkStarted(t)) <=> Active(t)
<1>1. CASE Active(t)
  <2> DEFINE turn == [t.turns[Len(t.turns)] EXCEPT !.started = TRUE]
             u == [t EXCEPT !.turns[Len(t.turns)] = turn]
  <2>1. t.turns # <<>> /\ turn \in Turn /\ turn.status = "Running"
    BY <1>1, TurnsOK DEF TaskOK, Turn
  <2>2. MarkStarted(t) = u
    BY <1>1 DEF MarkStarted
  <2>3. /\ TaskOK(u) /\ Carries(t, u) /\ Len(u.turns) = Len(t.turns)
        /\ Active(u) <=> turn.status = "Running"
        /\ u.captures = t.captures /\ u.inFlight = t.inFlight
    BY <2>1, LastTurnOK
  <2> HIDE DEF turn, u
  <2>4. Settled(t) => Settled(u)
    BY <1>1, <2>3, SettledLater DEF Carries
  <2> QED
    BY <1>1, <2>1, <2>2, <2>3, <2>4 DEF Quiet
<1>2. CASE ~ Active(t)
  BY <1>2, QuietItself DEF MarkStarted
<1> QED
  BY <1>1, <1>2

\* To finish the turn is quiet, and then none runs.
LEMMA FinishOK ==
  ASSUME NEW t, TaskOK(t), NEW outcome \in {"Completed", "Failed", "Interrupted"}
  PROVE  /\ Quiet(t, Finish(t, outcome))
         /\ Len(Finish(t, outcome).turns) = Len(t.turns)
         /\ ~ Active(Finish(t, outcome))
<1>1. CASE Active(t)
  <2> DEFINE turn == [t.turns[Len(t.turns)] EXCEPT !.status = outcome]
             u == [t EXCEPT !.turns[Len(t.turns)] = turn]
  <2>1. t.turns # <<>> /\ turn \in Turn /\ turn.status # "Running"
    BY <1>1, TurnsOK DEF TaskOK, Turn
  <2>2. Finish(t, outcome) = u
    BY <1>1 DEF Finish
  <2>3. /\ TaskOK(u) /\ Carries(t, u) /\ Len(u.turns) = Len(t.turns)
        /\ Active(u) <=> turn.status = "Running"
        /\ u.captures = t.captures /\ u.inFlight = t.inFlight
    BY <2>1, LastTurnOK
  <2> HIDE DEF turn, u
  <2>4. Settled(t) => Settled(u)
    BY <1>1, <2>1, <2>3, SettledLater DEF Carries
  <2> QED
    BY <1>1, <2>1, <2>2, <2>3, <2>4 DEF Quiet
<1>2. CASE ~ Active(t)
  BY <1>2, QuietItself DEF Finish
<1> QED
  BY <1>1, <1>2

\* To take back a turn nobody has started is quiet: the captures were none.
LEMMA UnwindOK ==
  ASSUME NEW t, TaskOK(t)
  PROVE  Quiet(t, Unwind(t))
<1>1. CASE Unstarted(t)
  <2> DEFINE turns == Front(t.turns)
             u == [t EXCEPT !.turns = turns]
  <2>1. t \in Task /\ t.turns \in Seq(Turn) /\ t.turns # <<>> /\ Active(t)
    BY <1>1 DEF TaskOK, Task, Unstarted, Active
  <2>2. turns \in Seq(Turn)
    BY <2>1, FrontProperties
  <2>3. Unwind(t) = u
    BY <1>1 DEF Unwind
  <2> HIDE DEF turns
  <2>4. u \in Task
    BY <2>1, <2>2 DEF Task
  <2>5. TaskOK(u) /\ Carries(t, u) /\ u.captures = t.captures /\ u.inFlight = t.inFlight
    BY <2>1, <2>4 DEF TaskOK, Carries, Task
  <2>6. Settled(t) => Settled(u)
    BY <2>1, <2>5 DEF Settled, SetsGoals, Carries
  <2> QED
    BY <2>3, <2>5, <2>6 DEF Quiet
<1>2. CASE ~ Unstarted(t)
  BY <1>2, QuietItself DEF Unwind
<1> QED
  BY <1>1, <1>2

\* A message that is put into the transcript is in the mail no more.
LEMMA PushMessageOK ==
  ASSUME NEW t, TaskOK(t), NEW m \in Messages
  PROVE  Quiet(t, PushMessage(t, m))
<1>1. CASE Active(t)
  <2> DEFINE turn == [t.turns[Len(t.turns)] EXCEPT !.messages = Append(@, m)]
             u == [t EXCEPT !.turns[Len(t.turns)] = turn]
  <2>0. t.turns # <<>> /\ t.turns[Len(t.turns)] \in Turn
    BY <1>1, TurnsOK DEF TaskOK
  <2>1. Append(t.turns[Len(t.turns)].messages, m) \in Seq(Messages)
    BY <2>0, AppendProperties DEF Turn
  <2>2. turn \in Turn
    BY <2>0, <2>1 DEF Turn
  <2>3. PushMessage(t, m) = u
    BY <1>1 DEF PushMessage
  <2>4. /\ TaskOK(u) /\ Carries(t, u) /\ Len(u.turns) = Len(t.turns)
        /\ u.captures = t.captures /\ u.inFlight = t.inFlight
    BY <2>0, <2>2, LastTurnOK
  <2> HIDE DEF turn, u
  <2>5. u.provider = t.provider /\ (Active(u) => Active(t))
    BY <1>1, <2>4 DEF Carries
  <2>6. Settled(t) => Settled(u)
    BY <2>4, <2>5, SettledLater
  <2> QED
    BY <2>3, <2>4, <2>6 DEF Quiet
<1>2. CASE ~ Active(t)
  <2> DEFINE u == [t EXCEPT !.loose = @ \cup {m}]
  <2>1. PushMessage(t, m) = u /\ u \in Task
    BY <1>2 DEF PushMessage, TaskOK, Task
  <2>2. /\ TaskOK(u) /\ Carries(t, u) /\ u.turns = t.turns
        /\ u.captures = t.captures /\ u.inFlight = t.inFlight
    BY <2>1 DEF TaskOK, Carries, Task
  <2>3. Settled(t) => Settled(u)
    BY <2>2, SettledLater DEF Carries, Active
  <2> QED
    BY <2>1, <2>2, <2>3 DEF Quiet
<1> QED
  BY <1>1, <1>2

\* A change that leaves turns and checkpoints alone.
LEMMA SameTurns ==
  ASSUME NEW t, TaskOK(t), NEW u \in Task, Carries(t, u),
         u.turns = t.turns, u.captures = t.captures, u.inFlight = t.inFlight,
         u.preparing => u.preparations # <<>>, u.forkDriver => u.fork
  PROVE  Quiet(t, u) /\ (Active(u) <=> Active(t)) /\ (Unstarted(u) <=> Unstarted(t))
<1>1. TaskOK(u)
  BY DEF TaskOK, Carries
<1>2. (Active(u) <=> Active(t)) /\ (Unstarted(u) <=> Unstarted(t))
  BY DEF Active, Unstarted
<1>3. Settled(t) => Settled(u)
  BY <1>2, SettledLater DEF Carries
<1> QED
  BY <1>1, <1>2, <1>3 DEF Quiet

\* A change of the status is quiet.
LEMMA StatusOK ==
  ASSUME NEW t, TaskOK(t), NEW status \in {"Idle", "Connecting", "Working", "Waiting", "Failed"}
  PROVE  LET u == [t EXCEPT !.status = status] IN
         Quiet(t, u) /\ (Active(u) <=> Active(t)) /\ (Unstarted(u) <=> Unstarted(t))
<1> DEFINE u == [t EXCEPT !.status = status]
<1>1. t \in Task /\ u \in Task
  BY DEF TaskOK, Task
<1>2. /\ Carries(t, u) /\ u.turns = t.turns /\ u.captures = t.captures /\ u.inFlight = t.inFlight
      /\ u.preparing => u.preparations # <<>>
      /\ u.forkDriver => u.fork
  BY <1>1 DEF TaskOK, Carries, Task
<1> HIDE DEF u
<1>3. Quiet(t, u) /\ (Active(u) <=> Active(t)) /\ (Unstarted(u) <=> Unstarted(t))
  BY <1>1, <1>2, SameTurns
<1> QED
  BY <1>3 DEF u

\* A change of the entry for a drain is quiet.
LEMMA DrainFlagOK ==
  ASSUME NEW t, TaskOK(t), NEW drain \in BOOLEAN
  PROVE  LET u == [t EXCEPT !.drain = drain] IN
         Quiet(t, u) /\ (Active(u) <=> Active(t)) /\ (Unstarted(u) <=> Unstarted(t))
<1> DEFINE u == [t EXCEPT !.drain = drain]
<1>1. t \in Task /\ u \in Task
  BY DEF TaskOK, Task
<1>2. /\ Carries(t, u) /\ u.turns = t.turns /\ u.captures = t.captures /\ u.inFlight = t.inFlight
      /\ u.preparing => u.preparations # <<>>
      /\ u.forkDriver => u.fork
  BY <1>1 DEF TaskOK, Carries, Task
<1> HIDE DEF u
<1>3. Quiet(t, u) /\ (Active(u) <=> Active(t)) /\ (Unstarted(u) <=> Unstarted(t))
  BY <1>1, <1>2, SameTurns
<1> QED
  BY <1>3 DEF u

\* To take back the turn of a goal is quiet.
LEMMA UnwindPursuitOK ==
  ASSUME NEW t, TaskOK(t)
  PROVE  Quiet(t, UnwindPursuit(t))
<1> DEFINE w == Unwind(t)
           status == IF Busy(t) THEN "Idle" ELSE w.status
<1>1. Quiet(t, w)
  BY UnwindOK
<1> HIDE DEF w
<1>2. TaskOK(w) /\ w \in Task
  BY <1>1 DEF Quiet, TaskOK
<1>3. status \in {"Idle", "Connecting", "Working", "Waiting", "Failed"}
  BY <1>2 DEF Task
<1> HIDE DEF status
<1>4. Quiet(w, [w EXCEPT !.status = status])
  BY <1>2, <1>3, StatusOK
<1>5. Quiet(t, [w EXCEPT !.status = status])
  BY <1>1, <1>4, QuietTwice
<1>6. UnwindPursuit(t) = IF UnconfirmedPursuit(t) THEN [w EXCEPT !.status = status] ELSE t
  BY DEF UnwindPursuit, w, status
<1> QED
  BY <1>5, <1>6, QuietItself

\* A capture is of the last turn, which has ended.
LEMMA CaptureLatestOK ==
  ASSUME NEW t, TaskOK(t)
  PROVE  Quiet(t, CaptureLatest(t)) /\ CaptureLatest(t).turns = t.turns
<1> DEFINE u == [t EXCEPT !.captures = @ \cup {Len(t.turns)}]
<1>1. CASE t.turns = <<>> \/ Active(t) \/ CapturePending(t)
  BY <1>1, QuietItself DEF CaptureLatest
<1>2. CASE ~ (t.turns = <<>> \/ Active(t) \/ CapturePending(t))
  <2>1. t \in Task /\ Len(t.turns) \in Nat
    BY TurnsOK DEF TaskOK
  <2>2. u \in Task
    BY <2>1 DEF Task
  <2>3. /\ TaskOK(u) /\ Carries(t, u) /\ u.turns = t.turns
        /\ u.captures = t.captures \cup {Len(t.turns)} /\ u.inFlight = t.inFlight
    BY <2>1, <2>2 DEF TaskOK, Carries, Task
  <2>4. ~ Active(u)
    BY <1>2, <2>3 DEF Active
  <2> HIDE DEF u
  <2>5. Settled(t) => Settled(u)
    BY <2>3, <2>4 DEF Settled, SetsGoals, Carries
  <2>6. CaptureLatest(t) = u
    BY <1>2 DEF CaptureLatest, u
  <2> QED
    BY <2>3, <2>5, <2>6 DEF Quiet
<1> QED
  BY <1>1, <1>2

\* To start the captures is quiet.
LEMMA StartCapturesOK ==
  ASSUME NEW t, TaskOK(t)
  PROVE  Quiet(t, StartCaptures(t)) /\ StartCaptures(t).turns = t.turns
<1> DEFINE u == [t EXCEPT !.captures = {}, !.inFlight = @ \cup t.captures]
<1>1. t \in Task
  BY DEF TaskOK
<1>2. u \in Task
  BY <1>1 DEF Task
<1>3. /\ TaskOK(u) /\ Carries(t, u) /\ u.turns = t.turns
      /\ u.captures = {} /\ u.inFlight = t.inFlight \cup t.captures
  BY <1>1, <1>2 DEF TaskOK, Carries, Task
<1> HIDE DEF u
<1>4. Settled(t) => Settled(u)
  BY <1>3 DEF Settled, SetsGoals, Carries, Active
<1>5. StartCaptures(t) = u
  BY DEF StartCaptures, u
<1> QED
  BY <1>3, <1>4, <1>5 DEF Quiet

-----------------------------------------------------------------------------
(* Events that carry no message *)

\* Output is quiet.
LEMMA TakeOutputOK ==
  ASSUME NEW t, TaskOK(t)
  PROVE  Quiet(t, TakeOutput(t))
<1> DEFINE w == MarkStarted(t)
           status == IF w.status = "Connecting" THEN "Working" ELSE w.status
<1>1. Quiet(t, w)
  BY MarkStartedOK
<1> HIDE DEF w
<1>2. TaskOK(w) /\ status \in {"Idle", "Connecting", "Working", "Waiting", "Failed"}
  BY <1>1 DEF Quiet, TaskOK, Task
<1> HIDE DEF status
<1>3. Quiet(t, [w EXCEPT !.status = status])
  BY <1>1, <1>2, StatusOK, QuietTwice
<1>4. TakeOutput(t) = IF AcceptsOutput(t) THEN [w EXCEPT !.status = status] ELSE t
  BY DEF TakeOutput, w, status
<1> QED
  BY <1>3, <1>4, QuietItself

\* The announcement of a turn is quiet: a turn nobody asked for is begun only where
\* goals are, and there checkpoints are not waited for.
LEMMA OnTurnStartedOK ==
  ASSUME NEW t, TaskOK(t)
  PROVE  Quiet(t, OnTurnStarted(t))
<1>1. CASE Active(t)
  <2> DEFINE w == MarkStarted(t)
  <2>1. Quiet(t, w) /\ TaskOK(w)
    BY MarkStartedOK DEF Quiet
  <2>2. OnTurnStarted(t) = [w EXCEPT !.status = "Working"]
    BY <1>1 DEF OnTurnStarted
  <2> HIDE DEF w
  <2>3. Quiet(w, [w EXCEPT !.status = "Working"])
    BY <2>1, StatusOK
  <2> QED
    BY <2>1, <2>2, <2>3, QuietTwice
<1>2. CASE ~ Active(t) /\ StartsItself(t)
  <2> DEFINE b == BeginTurn(t, <<>>)
             w == MarkStarted(b)
  <2>1. <<>> \in Seq(Messages)
    BY EmptySeq
  <2>2. TaskOK(b) /\ Carries(t, b)
    BY <2>1, BeginTurnOK
  <2>3. Settled(b)
    BY <1>2, <2>2 DEF Settled, SetsGoals, StartsItself, Carries
  <2>4. Quiet(t, b)
    BY <2>2, <2>3 DEF Quiet
  <2>5. OnTurnStarted(t) = [w EXCEPT !.status = "Working"]
    BY <1>2 DEF OnTurnStarted
  <2> HIDE DEF b
  <2>6. Quiet(b, w) /\ TaskOK(w)
    BY <2>2, MarkStartedOK DEF Quiet
  <2> HIDE DEF w
  <2>7. Quiet(w, [w EXCEPT !.status = "Working"])
    BY <2>6, StatusOK
  <2> QED
    BY <2>4, <2>5, <2>6, <2>7, QuietTwice
<1>3. CASE ~ Active(t) /\ ~ StartsItself(t)
  BY <1>3, QuietItself DEF OnTurnStarted
<1> QED
  BY <1>1, <1>2, <1>3

\* The end of a turn is quiet.
LEMMA OnTurnFinishedOK ==
  ASSUME NEW t, TaskOK(t), NEW ok \in BOOLEAN, NEW drains \in BOOLEAN
  PROVE  Quiet(t, OnTurnFinished(t, ok, drains))
<1>1. CASE ~ Active(t)
  BY <1>1, QuietItself DEF OnTurnFinished
<1>2. CASE Active(t)
  <2> DEFINE f == Finish(t, IF ok THEN "Completed" ELSE "Failed")
             c == CaptureLatest(f)
             status == IF ok THEN "Idle" ELSE "Failed"
             s == [c EXCEPT !.status = status]
             drain == s.drain \/ (drains /\ ok)
  <2>1. Quiet(t, f) /\ TaskOK(f)
    BY FinishOK DEF Quiet
  <2> HIDE DEF f
  <2>2. Quiet(f, c) /\ TaskOK(c)
    BY <2>1, CaptureLatestOK DEF Quiet
  <2>3. OnTurnFinished(t, ok, drains) = [c EXCEPT !.status = status, !.drain = @ \/ (drains /\ ok)]
    BY <1>2 DEF OnTurnFinished, f
  <2> HIDE DEF c
  <2>4. Quiet(c, s) /\ TaskOK(s)
    BY <2>2, StatusOK DEF Quiet
  <2>5. [c EXCEPT !.status = status, !.drain = @ \/ (drains /\ ok)] = [s EXCEPT !.drain = drain]
    BY <2>2 DEF TaskOK, Task
  <2>6. s.drain \in BOOLEAN
    BY <2>4 DEF TaskOK, Task
  <2>7. drain \in BOOLEAN
    OBVIOUS
  <2> HIDE DEF s, drain
  <2>8. Quiet(s, [s EXCEPT !.drain = drain])
    BY <2>4, <2>7, DrainFlagOK
  <2> QED
    BY <2>1, <2>2, <2>3, <2>4, <2>5, <2>8, QuietTwice
<1> QED
  BY <1>1, <1>2

\* An error is quiet.
LEMMA OnErrorOK ==
  ASSUME NEW t, TaskOK(t)
  PROVE  Quiet(t, OnError(t))
<1> DEFINE u == UnwindPursuit(t)
           status == IF Active(u) /\ u.status # "Working" THEN "Failed" ELSE u.status
<1>1. Quiet(t, u) /\ TaskOK(u)
  BY UnwindPursuitOK DEF Quiet
<1>2. OnError(t) = [u EXCEPT !.status = status]
  BY DEF OnError
<1> HIDE DEF u
<1>3. status \in {"Idle", "Connecting", "Working", "Waiting", "Failed"}
  BY <1>1 DEF TaskOK, Task
<1> HIDE DEF status
<1>4. Quiet(u, [u EXCEPT !.status = status])
  BY <1>1, <1>3, StatusOK
<1> QED
  BY <1>1, <1>2, <1>4, QuietTwice

\* What the end of a runtime, or an event that is not an answer, leaves.
Ends(t, u) ==
  /\ TaskOK(u) /\ (Settled(t) => Settled(u))
  /\ u.provider = t.provider /\ u.misread = t.misread
  /\ u.runtime => t.runtime
  /\ u.composer = t.composer /\ u.queue = t.queue /\ u.preparations = t.preparations
  /\ u.steers \in {t.steers, <<>>}

\* A quiet change ends nothing.
LEMMA QuietEnds ==
  ASSUME NEW t, NEW u, Quiet(t, u)
  PROVE  Ends(t, u)
BY DEF Quiet, Ends, Carries

\* A quiet change and an end.
LEMMA QuietThenEnds ==
  ASSUME NEW t, NEW u, NEW v, Quiet(t, u), Ends(u, v)
  PROVE  Ends(t, v)
BY DEF Quiet, Ends, Carries

\* A runtime that is dropped takes its steers along.
LEMMA DropRuntimeOK ==
  ASSUME NEW t, TaskOK(t)
  PROVE  /\ Ends(t, DropRuntime(t))
         /\ ~ DropRuntime(t).runtime /\ DropRuntime(t).steers = <<>>
<1> DEFINE u == DropRuntime(t)
<1>1. t \in Task /\ <<>> \in Seq(Messages)
  BY EmptySeq DEF TaskOK
<1>2. u \in Task
  BY <1>1 DEF DropRuntime, Task
<1>3. /\ TaskOK(u) /\ u.turns = t.turns /\ u.captures = t.captures /\ u.inFlight = t.inFlight
      /\ u.provider = t.provider /\ u.misread = t.misread /\ ~ u.runtime /\ u.steers = <<>>
      /\ u.composer = t.composer /\ u.queue = t.queue /\ u.preparations = t.preparations
  BY <1>1, <1>2 DEF TaskOK, DropRuntime, Task
<1> HIDE DEF u
<1>4. Settled(t) => Settled(u)
  BY <1>3, SettledLater DEF Active
<1> QED
  BY <1>3, <1>4 DEF Ends, u

\* The exit of the process ends the runtime and captures the turn it cut off.
LEMMA OnExitOK ==
  ASSUME NEW t, TaskOK(t)
  PROVE  Ends(t, OnExit(t))
<1> DEFINE f == Finish(t, "Failed")
           u == [f EXCEPT !.status = "Failed"]
           w == IF Busy(t) THEN (IF Active(t) THEN CaptureLatest(u) ELSE u) ELSE t
<1>1. Quiet(t, f) /\ TaskOK(f)
  BY FinishOK DEF Quiet
<1>2. OnExit(t) = DropRuntime(w)
  BY DEF OnExit
<1> HIDE DEF f
<1>3. Quiet(f, u) /\ TaskOK(u)
  BY <1>1, StatusOK DEF Quiet
<1> HIDE DEF u
<1>4. Quiet(t, u) /\ Quiet(t, CaptureLatest(u))
  BY <1>1, <1>3, CaptureLatestOK, QuietTwice
<1>5. Quiet(t, w) /\ TaskOK(w)
  BY <1>4, QuietItself DEF Quiet
<1> HIDE DEF w
<1>6. Ends(w, DropRuntime(w))
  BY <1>5, DropRuntimeOK
<1> QED
  BY <1>2, <1>5, <1>6, QuietThenEnds

-----------------------------------------------------------------------------
(* The messages *)

\* Between the places of P messages have moved, and nowhere else.
Shuffles(at, bt, P) == \A m \in Messages : bt[m] = at[m] \/ {at[m], bt[m]} \subseteq P

TaskPlaces == {"composer", "queue", "preparing", "gone"}

\* The task took m, which was nowhere, or did nothing with it.
Receives(t, m, u) ==
  /\ TaskOK(u) /\ (Settled(t) => Settled(u))
  /\ u.provider = t.provider /\ u.misread = t.misread
  /\ u.runtime = t.runtime /\ u.steers = t.steers
  /\ \A at \in [Messages -> Places] : Holds(t, at) /\ at[m] = "gone" =>
       \E bt \in [Messages -> Places] : Holds(u, bt) /\ Shuffles(at, bt, TaskPlaces)

\* The places hold for a task with the same messages.
LEMMA HoldsSame ==
  ASSUME NEW t, NEW u, NEW at, Holds(t, at), u.composer = t.composer, u.queue = t.queue,
         u.preparations = t.preparations, u.steers \in {t.steers, <<>>}
  PROVE  Holds(u, at)
<1>1. CASE u.steers = t.steers
  BY <1>1 DEF Holds
<1>2. CASE u.steers = <<>>
  BY <1>2 DEF Holds
<1> QED
  BY <1>1, <1>2

\* Nothing has moved.
LEMMA ShufflesItself ==
  ASSUME NEW at, NEW P
  PROVE  Shuffles(at, at, P)
BY DEF Shuffles

\* Two moves are one.
LEMMA ShufflesTwice ==
  ASSUME NEW at, NEW bt, NEW ct, NEW P, Shuffles(at, bt, P), Shuffles(bt, ct, P)
  PROVE  Shuffles(at, ct, P)
<1>1. ASSUME NEW m \in Messages PROVE ct[m] = at[m] \/ {at[m], ct[m]} \subseteq P
  <2>1. bt[m] = at[m] \/ (at[m] \in P /\ bt[m] \in P)
    BY DEF Shuffles
  <2>2. ct[m] = bt[m] \/ (bt[m] \in P /\ ct[m] \in P)
    BY DEF Shuffles
  <2> QED BY <2>1, <2>2
<1> QED
  BY <1>1 DEF Shuffles

\* The types of what a task holds.
LEMMA MailTypes ==
  ASSUME NEW t \in Task
  PROVE  /\ t.queue \in Seq(Messages) /\ t.steers \in Seq(Messages)
         /\ t.preparations \in Seq(Preparation)
         /\ \A i \in DOMAIN t.queue : t.queue[i] \in Messages
         /\ \A i \in DOMAIN t.steers : t.steers[i] \in Messages
         /\ \A i \in DOMAIN t.preparations : t.preparations[i].message \in Messages
         /\ t.composer # NoMessage => t.composer \in Messages
<1>1. /\ t.queue \in Seq(Messages) /\ t.steers \in Seq(Messages)
      /\ t.preparations \in Seq(Preparation)
      /\ t.composer # NoMessage => t.composer \in Messages
  BY DEF Task
<1>2. \A i \in DOMAIN t.queue : t.queue[i] \in Messages
  BY <1>1, LenProperties, ElementOfSeq
<1>3. \A i \in DOMAIN t.steers : t.steers[i] \in Messages
  BY <1>1, LenProperties, ElementOfSeq
<1>4. \A i \in DOMAIN t.preparations : t.preparations[i] \in Preparation
  BY <1>1, LenProperties, ElementOfSeq
<1> QED
  BY <1>1, <1>2, <1>3, <1>4 DEF Preparation

\* m is not in the task.
Lacks(t, m) ==
  /\ t.composer # m
  /\ \A i \in DOMAIN t.queue : t.queue[i] # m
  /\ \A i \in DOMAIN t.preparations : t.preparations[i].message # m
  /\ \A i \in DOMAIN t.steers : t.steers[i] # m

\* A message the task lacks may be anywhere.
LEMMA HoldsAnywhere ==
  ASSUME NEW t \in Task, NEW m \in Messages, NEW place \in Places,
         NEW at \in [Messages -> Places], Holds(t, at), Lacks(t, m)
  PROVE  /\ [at EXCEPT ![m] = place] \in [Messages -> Places]
         /\ Holds(t, [at EXCEPT ![m] = place])
<1> DEFINE bt == [at EXCEPT ![m] = place]
<1>1. bt \in [Messages -> Places] /\ \A k \in Messages : k # m => bt[k] = at[k]
  OBVIOUS
<1> HIDE DEF bt
<1>2. t.composer # NoMessage => bt[t.composer] = "composer"
  BY <1>1, MailTypes DEF Holds, Lacks
<1>3. \A i \in DOMAIN t.queue : bt[t.queue[i]] = "queue"
  BY <1>1, MailTypes DEF Holds, Lacks
<1>4. \A i \in DOMAIN t.preparations : bt[t.preparations[i].message] = "preparing"
  BY <1>1, MailTypes DEF Holds, Lacks
<1>5. \A i \in DOMAIN t.steers : bt[t.steers[i]] \in {"called", "taken", "answered"}
  <2>1. \A i \in DOMAIN t.steers : t.steers[i] # m /\ t.steers[i] \in Messages
    BY MailTypes DEF Lacks
  <2> QED BY <1>1, <2>1 DEF Holds
<1>6. Holds(t, bt)
  BY <1>2, <1>3, <1>4, <1>5 DEF Holds
<1> QED
  BY <1>1, <1>6 DEF bt

\* A message that is not typed, sent or gone is not in the task.
LEMMA GoneIsLacked ==
  ASSUME NEW t \in Task, NEW m \in Messages,
         NEW at, Holds(t, at), at[m] \in {"fresh", "sent", "gone"}
  PROVE  Lacks(t, m)
BY NoMessageAssumption DEF Holds, Lacks

\* m comes to the end of the queue, or of the preparations.
LEMMA AppendHolds ==
  ASSUME NEW t \in Task, NEW m \in Messages, Lacks(t, m),
         NEW at \in [Messages -> Places], Holds(t, at), NEW u,
         u.composer = t.composer, u.steers = t.steers,
         \/ /\ u.queue = Append(t.queue, m) /\ u.preparations = t.preparations
            /\ at[m] = "queue"
         \/ /\ u.queue = t.queue
            /\ \E p \in Preparation : p.message = m /\ u.preparations = Append(t.preparations, p)
            /\ at[m] = "preparing"
  PROVE  Holds(u, at)
<1>1. CASE /\ u.queue = Append(t.queue, m) /\ u.preparations = t.preparations
           /\ at[m] = "queue"
  <2>1. /\ t.queue \in Seq(Messages)
        /\ Append(t.queue, m) \in Seq(Messages) /\ Len(Append(t.queue, m)) = Len(t.queue) + 1
        /\ \A i \in 1..Len(t.queue) : Append(t.queue, m)[i] = t.queue[i]
        /\ Append(t.queue, m)[Len(t.queue) + 1] = m
    BY MailTypes, AppendProperties
  <2>2. DOMAIN t.queue = 1..Len(t.queue) /\ DOMAIN u.queue = 1..(Len(t.queue) + 1) /\ Len(t.queue) \in Nat
    BY <1>1, <2>1, LenProperties
  <2>3. \A i \in DOMAIN u.queue : at[u.queue[i]] = "queue"
    BY <1>1, <2>1, <2>2 DEF Holds
  <2>4. \A i, j \in DOMAIN u.queue : u.queue[i] = u.queue[j] => i = j
    BY <1>1, <2>1, <2>2 DEF Holds, Lacks
  <2> QED
    BY <1>1, <2>3, <2>4 DEF Holds
<1>2. ASSUME u.queue = t.queue, at[m] = "preparing",
             NEW p \in Preparation, p.message = m, u.preparations = Append(t.preparations, p)
      PROVE  Holds(u, at)
  <2> DEFINE s == t.preparations
  <2>1. /\ s \in Seq(Preparation)
        /\ Append(s, p) \in Seq(Preparation) /\ Len(Append(s, p)) = Len(s) + 1
        /\ \A i \in 1..Len(s) : Append(s, p)[i] = s[i]
        /\ Append(s, p)[Len(s) + 1] = p
    BY MailTypes, AppendProperties
  <2>2. DOMAIN s = 1..Len(s) /\ DOMAIN u.preparations = 1..(Len(s) + 1) /\ Len(s) \in Nat
    BY <1>2, <2>1, LenProperties
  <2>3. \A i \in DOMAIN u.preparations : at[u.preparations[i].message] = "preparing"
    BY <1>2, <2>1, <2>2 DEF Holds
  <2>4. \A i, j \in DOMAIN u.preparations :
          u.preparations[i].message = u.preparations[j].message => i = j
    BY <1>2, <2>1, <2>2 DEF Holds, Lacks
  <2> QED
    BY <1>2, <2>3, <2>4 DEF Holds
<1> QED
  BY <1>1, <1>2

\* A message that was nowhere is put into the queue, or prepared.
LEMMA AppendReceives ==
  ASSUME NEW t, TaskOK(t), NEW m \in Messages, NEW u, TaskOK(u), Settled(t) => Settled(u),
         u.provider = t.provider, u.misread = t.misread, u.runtime = t.runtime,
         u.composer = t.composer, u.steers = t.steers,
         \/ u.queue = Append(t.queue, m) /\ u.preparations = t.preparations
         \/ /\ u.queue = t.queue
            /\ \E p \in Preparation : p.message = m /\ u.preparations = Append(t.preparations, p)
  PROVE  Receives(t, m, u)
<1>1. ASSUME NEW at \in [Messages -> Places], Holds(t, at), at[m] = "gone"
      PROVE  \E bt \in [Messages -> Places] : Holds(u, bt) /\ Shuffles(at, bt, TaskPlaces)
  <2>1. t \in Task /\ Lacks(t, m)
    BY <1>1, GoneIsLacked DEF TaskOK
  <2>2. ASSUME NEW place \in {"queue", "preparing"}, Holds(u, [at EXCEPT ![m] = place])
        PROVE  \E bt \in [Messages -> Places] : Holds(u, bt) /\ Shuffles(at, bt, TaskPlaces)
    <3>1. Shuffles(at, [at EXCEPT ![m] = place], TaskPlaces)
      BY <1>1 DEF Shuffles, TaskPlaces
    <3>2. [at EXCEPT ![m] = place] \in [Messages -> Places]
      BY DEF Places
    <3> QED BY <2>2, <3>1, <3>2
  <2>3. CASE u.queue = Append(t.queue, m) /\ u.preparations = t.preparations
    <3> DEFINE bt == [at EXCEPT ![m] = "queue"]
    <3>1. bt \in [Messages -> Places] /\ Holds(t, bt)
      BY <1>1, <2>1, HoldsAnywhere DEF Places
    <3>2. bt[m] = "queue"
      OBVIOUS
    <3> HIDE DEF bt
    <3>3. Holds(u, bt)
      BY <2>1, <2>3, <3>1, <3>2, AppendHolds
    <3> QED BY <2>2, <3>3 DEF bt
  <2>4. CASE /\ u.queue = t.queue
             /\ \E p \in Preparation : p.message = m /\ u.preparations = Append(t.preparations, p)
    <3> DEFINE bt == [at EXCEPT ![m] = "preparing"]
    <3>1. bt \in [Messages -> Places] /\ Holds(t, bt)
      BY <1>1, <2>1, HoldsAnywhere DEF Places
    <3>2. bt[m] = "preparing"
      OBVIOUS
    <3> HIDE DEF bt
    <3>3. Holds(u, bt)
      BY <2>1, <2>4, <3>1, <3>2, AppendHolds
    <3> QED BY <2>2, <3>3 DEF bt
  <2> QED
    BY <2>3, <2>4
<1> QED
  BY <1>1 DEF Receives

\* The queue takes a message.
LEMMA EnqueueOK ==
  ASSUME NEW t, TaskOK(t), NEW m \in Messages
  PROVE  Receives(t, m, Enqueue(t, m))
<1> DEFINE u == Enqueue(t, m)
<1>1. t \in Task /\ Append(t.queue, m) \in Seq(Messages)
  BY MailTypes, AppendProperties DEF TaskOK
<1>2. u \in Task
  BY <1>1 DEF Enqueue, Task
<1>3. /\ TaskOK(u) /\ u.turns = t.turns /\ u.captures = t.captures /\ u.inFlight = t.inFlight
      /\ u.provider = t.provider /\ u.misread = t.misread /\ u.runtime = t.runtime
      /\ u.steers = t.steers /\ u.composer = t.composer /\ u.preparations = t.preparations
      /\ u.queue = Append(t.queue, m)
  BY <1>1, <1>2 DEF TaskOK, Enqueue, Task
<1> HIDE DEF u
<1>4. Settled(t) => Settled(u)
  BY <1>3, SettledLater DEF Active
<1>5. Receives(t, m, u)
  BY <1>3, <1>4, AppendReceives
<1> QED
  BY <1>5 DEF u

\* To receive and a quiet change.
LEMMA ReceivesThenQuiet ==
  ASSUME NEW t, NEW m, NEW u, NEW v, Receives(t, m, u), Quiet(u, v)
  PROVE  Receives(t, m, v)
<1>1. \A at : Holds(u, at) => Holds(v, at)
  BY HoldsSame DEF Quiet, Carries
<1> QED
  BY <1>1 DEF Receives, Quiet, Carries

\* The queue takes a message, and a drain is to follow.
LEMMA EnqueueDeferredOK ==
  ASSUME NEW t, TaskOK(t), NEW m \in Messages
  PROVE  Receives(t, m, EnqueueDeferred(t, m))
<1> DEFINE u == Enqueue(t, m)
<1>1. Receives(t, m, u) /\ TaskOK(u)
  BY EnqueueOK DEF Receives
<1> HIDE DEF u
<1>2. Quiet(u, [u EXCEPT !.drain = TRUE])
  BY <1>1, DrainFlagOK
<1> QED
  BY <1>1, <1>2, ReceivesThenQuiet DEF EnqueueDeferred, u

\* Nothing is begun while a checkpoint of the last turn is to come.
LEMMA SubmitOK ==
  ASSUME NEW t, TaskOK(t), NEW m \in Messages
  PROVE  Receives(t, m, Submit(t, m))
<1>1. CASE t.fork
  <2>1. Receives(t, m, t)
    BY <1>1, ShufflesItself DEF Receives
  <2> QED BY <1>1, <2>1 DEF Submit
<1>2. CASE ~ t.fork /\ (CapturePending(t) \/ t.goalStart)
  BY <1>2, EnqueueDeferredOK DEF Submit
<1>3. CASE ~ t.fork /\ ~ CapturePending(t) /\ ~ t.goalStart /\ Busy(t)
  BY <1>3, EnqueueOK DEF Submit
<1>4. CASE ~ t.fork /\ ~ CapturePending(t) /\ ~ t.goalStart /\ ~ Busy(t)
  <2> DEFINE b == BeginTurn(t, <<m>>)
             p == [message |-> m, starts |-> ~ t.runtime]
             u == [b EXCEPT !.status = "Connecting", !.preparing = TRUE,
                            !.preparations = Append(@, p)]
  <2>1. Submit(t, m) = u
    BY <1>4 DEF Submit
  <2>2. <<m>> \in Seq(Messages) /\ p \in Preparation
    BY DEF Preparation
  <2>3. /\ TaskOK(b) /\ Carries(t, b) /\ b = [t EXCEPT !.turns = b.turns]
        /\ b.turns # <<>> /\ Len(b.turns) = Len(t.turns) + 1 /\ Active(b)
    BY <2>2, BeginTurnOK
  <2> HIDE DEF b, p
  <2>4. /\ b \in Task /\ Append(b.preparations, p) \in Seq(Preparation)
        /\ Append(b.preparations, p) # <<>>
    BY <2>2, <2>3, MailTypes, AppendProperties DEF TaskOK
  <2>5. u \in Task
    BY <2>4 DEF Task
  <2>6. /\ TaskOK(u) /\ u.turns = b.turns /\ u.captures = b.captures /\ u.inFlight = b.inFlight
        /\ u.provider = b.provider /\ u.misread = b.misread /\ u.runtime = b.runtime
        /\ u.steers = b.steers /\ u.composer = b.composer /\ u.queue = b.queue
        /\ u.preparations = Append(b.preparations, p)
    BY <2>3, <2>4, <2>5 DEF TaskOK, Task
  <2>7. b.captures = t.captures /\ b.inFlight = t.inFlight
    BY <2>3 DEF TaskOK, Task
  <2> HIDE DEF u
  <2>8. ASSUME Settled(t) PROVE Settled(u)
    <3>1. SUFFICES ASSUME ~ SetsGoals(t) PROVE t.captures = {} /\ t.inFlight = {}
      BY <2>3, <2>6, <2>7 DEF Settled, SetsGoals, Carries
    <3>2. CASE Active(t)
      BY <2>8, <3>1, <3>2 DEF Settled
    <3>3. CASE ~ Active(t)
      BY <1>4, <2>8, <3>1, <3>3 DEF Settled, CapturePending
    <3> QED BY <3>2, <3>3
  <2>9. p.message = m
    BY DEF p
  <2>10. Receives(t, m, u)
    BY <2>2, <2>3, <2>6, <2>8, <2>9, AppendReceives DEF Carries
  <2> QED
    BY <2>1, <2>10
<1> QED
  BY <1>1, <1>2, <1>3, <1>4

\* What the composer sends is queued or submitted.
LEMMA SubmitComposerOK ==
  ASSUME NEW t, TaskOK(t), NEW m \in Messages
  PROVE  Receives(t, m, SubmitComposer(t, m))
BY EnqueueOK, SubmitOK DEF SubmitComposer

-----------------------------------------------------------------------------
(* The follow-up queue *)

\* u goes on with the mail of t.
Follows(t, u) ==
  /\ TaskOK(u) /\ (Settled(t) => Settled(u))
  /\ u.provider = t.provider /\ u.misread = t.misread
  /\ u.runtime = t.runtime /\ u.steers = t.steers
  /\ \A at \in [Messages -> Places] : Holds(t, at) =>
       \E bt \in [Messages -> Places] : Holds(u, bt) /\ Shuffles(at, bt, TaskPlaces)

\* A quiet change follows.
LEMMA QuietFollows ==
  ASSUME NEW t, NEW u, Quiet(t, u)
  PROVE  Follows(t, u)
<1>1. \A at \in [Messages -> Places] : Holds(t, at) => Holds(u, at) /\ Shuffles(at, at, TaskPlaces)
  BY HoldsSame, ShufflesItself DEF Quiet, Carries
<1> QED
  BY <1>1 DEF Follows, Quiet, Carries

\* Following is transitive.
LEMMA FollowsTwice ==
  ASSUME NEW t, NEW u, NEW v, Follows(t, u), Follows(u, v)
  PROVE  Follows(t, v)
<1>1. ASSUME NEW at \in [Messages -> Places], Holds(t, at)
      PROVE  \E bt \in [Messages -> Places] : Holds(v, bt) /\ Shuffles(at, bt, TaskPlaces)
  <2>1. PICK bt \in [Messages -> Places] : Holds(u, bt) /\ Shuffles(at, bt, TaskPlaces)
    BY <1>1 DEF Follows
  <2>2. PICK ct \in [Messages -> Places] : Holds(v, ct) /\ Shuffles(bt, ct, TaskPlaces)
    BY <2>1 DEF Follows
  <2> QED
    BY <2>1, <2>2, ShufflesTwice
<1> QED
  BY <1>1 DEF Follows

\* The tail is what is left without the first.
LEMMA TailRemoves ==
  ASSUME NEW S, NEW s \in Seq(S), s # <<>>
  PROVE  Tail(s) = RemoveAt(s, 1) /\ Head(s) = s[1] /\ 1 \in DOMAIN s
<1>1. Len(s) \in Nat \ {0} /\ DOMAIN s = 1..Len(s) /\ Tail(s) \in Seq(S) /\ Tail(s) = SubSeq(s, 2, Len(s))
  BY LenProperties, EmptySeq, HeadTailProperties, TailIsSubSeq
<1>2. SubSeq(s, 1, 0) = <<>>
  BY SubSeqEmpty, 1 \in Int, 0 \in Int
<1>3. <<>> \o Tail(s) = Tail(s)
  BY <1>1, ConcatEmptySeq
<1>4. RemoveAt(s, 1) = SubSeq(s, 1, 0) \o SubSeq(s, 2, Len(s))
  BY DEF RemoveAt
<1> QED
  BY <1>1, <1>2, <1>3, <1>4

\* A message that is taken out of the queue, and goes nowhere yet.
LEMMA QueueTaken ==
  ASSUME NEW t, TaskOK(t), NEW i \in DOMAIN t.queue
  PROVE  LET u == [t EXCEPT !.queue = RemoveAt(@, i)]
             m == t.queue[i]
         IN  /\ m \in Messages /\ TaskOK(u) /\ (Settled(t) => Settled(u))
             /\ u.provider = t.provider /\ u.misread = t.misread
             /\ u.runtime = t.runtime /\ u.steers = t.steers /\ u.composer = t.composer
             /\ u.preparations = t.preparations /\ u.queue = RemoveAt(t.queue, i)
             /\ \A at \in [Messages -> Places] : Holds(t, at) =>
                  /\ at[m] = "queue" /\ Lacks(u, m)
                  /\ [at EXCEPT ![m] = "gone"] \in [Messages -> Places]
                  /\ Holds(u, [at EXCEPT ![m] = "gone"])
<1> DEFINE u == [t EXCEPT !.queue = RemoveAt(@, i)]
           m == t.queue[i]
           r == RemoveAt(t.queue, i)
<1>1. t \in Task /\ t.queue \in Seq(Messages) /\ m \in Messages
  BY MailTypes DEF TaskOK
<1>2. r \in Seq(Messages) /\ Omits(t.queue, i, r)
  BY <1>1, RemoveAtOmits
<1> HIDE DEF r
<1>3. u = [t EXCEPT !.queue = r]
  BY DEF r
<1>4. u \in Task
  BY <1>1, <1>2, <1>3 DEF Task
<1>5. /\ TaskOK(u) /\ u.turns = t.turns /\ u.captures = t.captures /\ u.inFlight = t.inFlight
      /\ u.provider = t.provider /\ u.misread = t.misread /\ u.runtime = t.runtime
      /\ u.steers = t.steers /\ u.composer = t.composer /\ u.preparations = t.preparations
      /\ u.queue = r
  BY <1>1, <1>3, <1>4 DEF TaskOK, Task
<1> HIDE DEF u, m
<1>6. Settled(t) => Settled(u)
  BY <1>5, SettledLater DEF Active
<1>7. ASSUME NEW at \in [Messages -> Places], Holds(t, at)
      PROVE  /\ at[m] = "queue" /\ Lacks(u, m)
             /\ [at EXCEPT ![m] = "gone"] \in [Messages -> Places]
             /\ Holds(u, [at EXCEPT ![m] = "gone"])
  <2>1. at[m] = "queue"
    BY <1>7 DEF Holds, m
  <2>2. \A j \in DOMAIN u.queue : u.queue[j] # m
    BY <1>2, <1>5, <1>7 DEF Holds, Omits, m
  <2>3. u.composer # m
    BY <1>1, <1>5, <1>7, <2>1, NoMessageAssumption DEF Holds
  <2>4. \A j \in DOMAIN u.preparations : u.preparations[j].message # m
    BY <1>5, <1>7, <2>1 DEF Holds
  <2>5. \A j \in DOMAIN u.steers : u.steers[j] # m
    BY <1>5, <1>7, <2>1 DEF Holds
  <2>6. Lacks(u, m)
    BY <2>2, <2>3, <2>4, <2>5 DEF Lacks
  <2>7. \A j \in DOMAIN u.queue : at[u.queue[j]] = "queue"
    BY <1>2, <1>5, <1>7 DEF Holds, Omits
  <2>8. \A j, k \in DOMAIN u.queue : u.queue[j] = u.queue[k] => j = k
    BY <1>2, <1>5, <1>7 DEF Holds, Omits
  <2>9. Holds(u, at)
    BY <1>5, <1>7, <2>7, <2>8 DEF Holds
  <2> QED
    BY <1>1, <1>4, <2>1, <2>6, <2>9, HoldsAnywhere DEF Places
<1> QED
  BY <1>1, <1>5, <1>6, <1>7 DEF u, m, r

\* To drain the queue moves its first message, and never to two places.
LEMMA DrainOK ==
  ASSUME NEW t, TaskOK(t)
  PROVE  Follows(t, Drain(t))
<1>1. CASE t.fork \/ Busy(t) \/ t.queue = <<>> \/ CapturePending(t) \/ t.goalStart
  BY <1>1, QuietItself, QuietFollows DEF Drain
<1>2. CASE ~ (t.fork \/ Busy(t) \/ t.queue = <<>> \/ CapturePending(t) \/ t.goalStart)
  <2> DEFINE u == [t EXCEPT !.queue = RemoveAt(@, 1)]
             m == t.queue[1]
             v == Submit(u, m)
  <2>1. Tail(t.queue) = RemoveAt(t.queue, 1) /\ Head(t.queue) = m /\ 1 \in DOMAIN t.queue
    BY <1>2, MailTypes, TailRemoves DEF TaskOK
  <2>2. Drain(t) = v
    BY <1>2, <2>1 DEF Drain
  <2>3. /\ m \in Messages /\ TaskOK(u) /\ (Settled(t) => Settled(u))
        /\ u.provider = t.provider /\ u.misread = t.misread
        /\ u.runtime = t.runtime /\ u.steers = t.steers
        /\ \A at \in [Messages -> Places] : Holds(t, at) =>
             /\ at[m] = "queue" /\ [at EXCEPT ![m] = "gone"] \in [Messages -> Places]
             /\ Holds(u, [at EXCEPT ![m] = "gone"])
    BY <2>1, QueueTaken
  <2> HIDE DEF u, m
  <2>4. Receives(u, m, v)
    BY <2>3, SubmitOK
  <2> HIDE DEF v
  <2>5. ASSUME NEW at \in [Messages -> Places], Holds(t, at)
        PROVE  \E bt \in [Messages -> Places] : Holds(v, bt) /\ Shuffles(at, bt, TaskPlaces)
    <3> DEFINE ct == [at EXCEPT ![m] = "gone"]
    <3>1. at[m] = "queue" /\ ct \in [Messages -> Places] /\ Holds(u, ct)
      BY <2>3, <2>5
    <3>2. ct[m] = "gone" /\ Shuffles(at, ct, TaskPlaces)
      BY <2>3, <3>1 DEF Shuffles, TaskPlaces
    <3> HIDE DEF ct
    <3>3. PICK bt \in [Messages -> Places] : Holds(v, bt) /\ Shuffles(ct, bt, TaskPlaces)
      BY <2>4, <3>1, <3>2 DEF Receives
    <3> QED BY <3>2, <3>3, ShufflesTwice
  <2> QED
    BY <2>2, <2>3, <2>4, <2>5 DEF Follows, Receives
<1> QED
  BY <1>1, <1>2

\* The drain that was put off.
LEMMA TakeDrainOK ==
  ASSUME NEW t, TaskOK(t)
  PROVE  Follows(t, TakeDrain(t))
<1> DEFINE u == [t EXCEPT !.drain = FALSE]
<1>1. Quiet(t, u) /\ TaskOK(u)
  BY DrainFlagOK DEF Quiet
<1>2. TakeDrain(t) = IF t.drain THEN Drain(u) ELSE t
  BY DEF TakeDrain
<1> HIDE DEF u
<1>3. Follows(t, Drain(u)) /\ Follows(t, t)
  BY <1>1, DrainOK, QuietFollows, QuietItself, FollowsTwice
<1> QED
  BY <1>2, <1>3

\* The end of an event pass.
LEMMA EndOfPassOK ==
  ASSUME NEW t, TaskOK(t)
  PROVE  Follows(t, EndOfPass(t))
BY TakeDrainOK, QuietItself, QuietFollows DEF EndOfPass

-----------------------------------------------------------------------------
(* Answers *)

\* u is what handling the first n events "es" makes of t.
Handles(es, t, u, first, n) ==
  /\ TaskOK(u) /\ (Settled(t) => Settled(u))
  /\ u.provider = t.provider /\ (t.misread => u.misread) /\ (u.runtime => t.runtime)
  /\ u.misread \/ \A at \in [Messages -> Places] : Holds(t, at) /\ Answers(es, first, at) =>
       \E bt \in [Messages -> Places] : /\ Holds(u, bt) /\ Answers(es, n, bt)
                                        /\ Shuffles(at, bt, TaskPlaces \cup {"answered"})

\* The kinds of events, and what they carry.
LEMMA EventTypes ==
  ASSUME NEW e \in Events
  PROVE  /\ IsAnswer(e) => e.message \in Messages /\ e \in {SteerAccepted(e.message), SteerRejected(e.message)}
         /\ e.event = "TurnFinished" => e.success \in BOOLEAN
         /\ e.event \in {"TurnStarted", "Connected", "Output", "Permission", "SteerAccepted",
                         "SteerRejected", "TurnFinished", "Error", "ProcessExited"}
BY DEF Events, Chatter, Signal, TurnFinished, SteerAccepted, SteerRejected, IsAnswer

\* Nothing else that answers m waits behind its answer.
LEMMA AnswerHandled ==
  ASSUME NEW es \in Seq(Events), NEW i \in DOMAIN es, IsAnswer(es[i]),
         NEW at \in [Messages -> Places], Answers(es, i - 1, at)
  PROVE  /\ es[i].message \in Messages /\ at[es[i].message] = "answered"
         /\ Answers(es, i, [at EXCEPT ![es[i].message] = "gone"])
<1> DEFINE m == es[i].message
           bt == [at EXCEPT ![m] = "gone"]
<1>0. DOMAIN es = 1..Len(es) /\ Len(es) \in Nat /\ \A j \in DOMAIN es : es[j] \in Events
  BY LenProperties, ElementOfSeq
<1>1. m \in Messages /\ at[m] = "answered"
  BY <1>0, EventTypes DEF Answers
<1>2. bt[m] = "gone" /\ \A k \in Messages : k # m => bt[k] = at[k]
  BY <1>1
<1> HIDE DEF bt
<1>3. ASSUME NEW j \in DOMAIN es, i < j, IsAnswer(es[j]) PROVE bt[es[j].message] = "answered"
  <2>1. es[j].message # m
    BY <1>0, <1>3 DEF Answers
  <2>2. es[j].message \in Messages /\ at[es[j].message] = "answered"
    BY <1>0, <1>3, EventTypes DEF Answers
  <2> QED BY <1>2, <2>1, <2>2
<1>4. ASSUME NEW j \in DOMAIN es, NEW k \in DOMAIN es, i < j, i < k, IsAnswer(es[j]), IsAnswer(es[k]),
             es[j].message = es[k].message
      PROVE  j = k
  BY <1>0, <1>4 DEF Answers
<1>5. ASSUME NEW k \in Messages, bt[k] = "answered"
      PROVE  \E j \in DOMAIN es : i < j /\ es[j] \in {SteerAccepted(k), SteerRejected(k)}
  <2>1. k # m /\ at[k] = "answered"
    BY <1>2, <1>5
  <2>2. PICK j \in DOMAIN es : i - 1 < j /\ es[j] \in {SteerAccepted(k), SteerRejected(k)}
    BY <2>1 DEF Answers
  <2>3. es[j].message = k
    BY <2>2 DEF SteerAccepted, SteerRejected
  <2>4. i < j
    BY <1>0, <2>1, <2>2, <2>3
  <2> QED BY <2>2, <2>4
<1> QED
  BY <1>1, <1>3, <1>4, <1>5 DEF Answers, bt

\* An event that is no answer leaves the answers as they are.
LEMMA OtherHandled ==
  ASSUME NEW es \in Seq(Events), NEW i \in DOMAIN es, ~ IsAnswer(es[i]),
         NEW at, Answers(es, i - 1, at)
  PROVE  Answers(es, i, at)
<1>0. DOMAIN es = 1..Len(es) /\ Len(es) \in Nat
  BY LenProperties
<1>1. \A k : es[i] \notin {SteerAccepted(k), SteerRejected(k)}
  BY DEF IsAnswer, SteerAccepted, SteerRejected
<1>2. \A j \in DOMAIN es : i - 1 < j /\ j # i => i < j
  BY <1>0
<1>3. \A j \in DOMAIN es : i < j => i - 1 < j
  BY <1>0
<1>4. \A m \in Messages : at[m] = "answered" =>
        \E j \in DOMAIN es : i < j /\ es[j] \in {SteerAccepted(m), SteerRejected(m)}
  BY <1>1, <1>2 DEF Answers
<1> QED
  BY <1>3, <1>4 DEF Answers

\* Answers do not mind what moves elsewhere.
LEMMA AnswersShuffled ==
  ASSUME NEW es \in Seq(Events), NEW n, NEW at, NEW bt, NEW P, Answers(es, n, at), Shuffles(at, bt, P),
         "answered" \notin P
  PROVE  Answers(es, n, bt)
<1>0. \A j \in DOMAIN es : IsAnswer(es[j]) => es[j].message \in Messages
  BY LenProperties, ElementOfSeq, EventTypes
<1>1. \A m \in Messages : at[m] = "answered" <=> bt[m] = "answered"
  BY DEF Shuffles
<1> QED
  BY <1>0, <1>1 DEF Answers

\* To move between fewer places is to move between more.
LEMMA ShufflesMore ==
  ASSUME NEW at, NEW bt, NEW P, NEW Q, P \subseteq Q, Shuffles(at, bt, P)
  PROVE  Shuffles(at, bt, Q)
BY DEF Shuffles

\* An event that is no answer is handled when the task ends something or is quiet.
LEMMA EndsHandles ==
  ASSUME NEW es \in Seq(Events), NEW i \in DOMAIN es, ~ IsAnswer(es[i]), NEW t, NEW u, Ends(t, u)
  PROVE  Handles(es, t, u, i - 1, i)
<1>1. ASSUME NEW at \in [Messages -> Places], Holds(t, at), Answers(es, i - 1, at)
      PROVE  Holds(u, at) /\ Answers(es, i, at) /\ Shuffles(at, at, TaskPlaces \cup {"answered"})
  <2>1. Holds(u, at)
    BY <1>1, HoldsSame DEF Ends
  <2> QED
    BY <1>1, <2>1, OtherHandled, ShufflesItself
<1> QED
  BY <1>1 DEF Handles, Ends

\* An event after the end of the runtime is not handled.
LEMMA UnreadHandles ==
  ASSUME NEW es \in Seq(Events), NEW i \in DOMAIN es, NEW t, TaskOK(t), ~ t.runtime
  PROVE  Handles(es, t, t, i - 1, i)
<1>1. CASE ~ IsAnswer(es[i])
  BY <1>1, QuietItself, QuietEnds, EndsHandles
<1>2. CASE IsAnswer(es[i])
  <2>1. ASSUME NEW at \in [Messages -> Places], Holds(t, at), Answers(es, i - 1, at)
        PROVE  \E bt \in [Messages -> Places] : /\ Holds(t, bt) /\ Answers(es, i, bt)
                                                /\ Shuffles(at, bt, TaskPlaces \cup {"answered"})
    <3> DEFINE m == es[i].message
               bt == [at EXCEPT ![m] = "gone"]
    <3>1. m \in Messages /\ at[m] = "answered" /\ Answers(es, i, bt)
      BY <1>2, <2>1, AnswerHandled
    <3>2. t \in Task /\ t.steers = <<>>
      BY DEF TaskOK
    <3>3. Lacks(t, m)
      BY <2>1, <3>1, <3>2, NoMessageAssumption DEF Holds, Lacks
    <3>4. bt \in [Messages -> Places] /\ Holds(t, bt)
      BY <2>1, <3>1, <3>2, <3>3, HoldsAnywhere DEF Places
    <3>5. Shuffles(at, bt, TaskPlaces \cup {"answered"})
      BY <2>1, <3>1 DEF Shuffles, TaskPlaces
    <3> QED BY <3>1, <3>4, <3>5
  <2> QED BY <2>1 DEF Handles
<1> QED
  BY <1>1, <1>2

\* u awaits what t does, but for the steer that an answer with m is for.
Withdraws(t, m, u) ==
  /\ TaskOK(u) /\ (Settled(t) => Settled(u))
  /\ u.provider = t.provider /\ u.misread = t.misread /\ u.runtime = t.runtime
  /\ u.queue = t.queue /\ u.composer = t.composer /\ u.preparations = t.preparations
  /\ \A at \in [Messages -> Places] : Holds(t, at) =>
       Holds(u, at) /\ \A i \in DOMAIN u.steers : u.steers[i] # m

\* The steer that is answered is withdrawn, and no other.
LEMMA WithoutSteerOK ==
  ASSUME NEW t, TaskOK(t), t.runtime, NEW m \in Messages
  PROVE  Answered(t, m) \in Messages /\ Withdraws(t, m, WithoutSteer(t, m))
<1> DEFINE u == WithoutSteer(t, m)
           a == Answered(t, m)
           r == RemoveFirst(t.steers, a)
<1>1. t \in Task /\ t.steers \in Seq(Messages)
  BY MailTypes DEF TaskOK
<1>2. a \in Messages /\ (m \in Range(t.steers) => a = m)
  BY <1>1, HeadTailProperties DEF Answered
<1> HIDE DEF a
<1>3. /\ a \notin Range(t.steers) => r = t.steers
      /\ a \in Range(t.steers) => \E i \in DOMAIN t.steers : t.steers[i] = a /\ r = RemoveAt(t.steers, i)
  BY <1>1, RemoveFirstProperties
<1>4. u = [t EXCEPT !.steers = r]
  BY DEF WithoutSteer, a
<1> HIDE DEF r
<1>5. CASE a \notin Range(t.steers)
  <2>1. u = t
    BY <1>1, <1>3, <1>4, <1>5 DEF Task
  <2>2. \A i \in DOMAIN t.steers : t.steers[i] # m
    BY <1>2, <1>5 DEF Range
  <2> HIDE DEF u
  <2> QED
    BY <1>2, <2>1, <2>2 DEF Withdraws, a, u
<1>6. CASE a \in Range(t.steers)
  <2>1. PICK i \in DOMAIN t.steers : t.steers[i] = a /\ r = RemoveAt(t.steers, i)
    BY <1>3, <1>6
  <2>2. r \in Seq(Messages) /\ Omits(t.steers, i, r)
    BY <1>1, <2>1, RemoveAtOmits
  <2>3. u \in Task
    BY <1>1, <1>4, <2>2 DEF Task
  <2>4. /\ TaskOK(u) /\ u.turns = t.turns /\ u.captures = t.captures /\ u.inFlight = t.inFlight
        /\ u.provider = t.provider /\ u.misread = t.misread /\ u.runtime = t.runtime
        /\ u.steers = r /\ u.composer = t.composer /\ u.preparations = t.preparations
        /\ u.queue = t.queue
    BY <1>1, <1>4, <2>3 DEF TaskOK, Task
  <2> HIDE DEF u
  <2>5. Settled(t) => Settled(u)
    BY <2>4, SettledLater DEF Active
  <2>6. ASSUME NEW at \in [Messages -> Places], Holds(t, at)
        PROVE  Holds(u, at) /\ \A j \in DOMAIN u.steers : u.steers[j] # m
    <3>1. \A j \in DOMAIN u.steers : at[u.steers[j]] \in {"called", "taken", "answered"}
      BY <2>2, <2>4, <2>6 DEF Holds, Omits
    <3>2. \A j, k \in DOMAIN u.steers : u.steers[j] = u.steers[k] => j = k
      BY <2>2, <2>4, <2>6 DEF Holds, Omits
    <3>3. \A j \in DOMAIN u.steers : u.steers[j] # a /\ u.steers[j] \in Range(t.steers)
      BY <2>1, <2>2, <2>4, <2>6 DEF Holds, Omits, Range
    <3>4. \A j \in DOMAIN u.steers : u.steers[j] # m
      BY <1>2, <3>3
    <3> QED BY <2>4, <2>6, <3>1, <3>2, <3>4 DEF Holds
  <2> QED
    BY <1>2, <2>4, <2>5, <2>6 DEF Withdraws, a, u
<1> QED
  BY <1>5, <1>6

-----------------------------------------------------------------------------
(* Events are handled *)

\* A message that waited as an answer, and is nowhere else in the task.
LEMMA AnsweredIsLacked ==
  ASSUME NEW t \in Task, NEW m \in Messages, NEW at \in [Messages -> Places], Holds(t, at),
         at[m] = "answered", \A i \in DOMAIN t.steers : t.steers[i] # m
  PROVE  /\ Lacks(t, m) /\ [at EXCEPT ![m] = "gone"] \in [Messages -> Places]
         /\ Holds(t, [at EXCEPT ![m] = "gone"])
         /\ Shuffles(at, [at EXCEPT ![m] = "gone"], TaskPlaces \cup {"answered"})
<1>1. Lacks(t, m)
  BY NoMessageAssumption DEF Holds, Lacks
<1>2. Shuffles(at, [at EXCEPT ![m] = "gone"], TaskPlaces \cup {"answered"})
  BY DEF Shuffles, TaskPlaces
<1> QED
  BY <1>1, <1>2, HoldsAnywhere DEF Places

\* A steer that is accepted leaves the mail for the transcript.
LEMMA AcceptedOK ==
  ASSUME NEW es \in Seq(Events), NEW i \in DOMAIN es, IsAnswer(es[i]), NEW t, TaskOK(t), t.runtime
  PROVE  Handles(es, t, PushMessage(WithoutSteer(t, es[i].message), es[i].message), i - 1, i)
<1> DEFINE m == es[i].message
           w == WithoutSteer(t, m)
           v == PushMessage(w, m)
<1>0. m \in Messages
  BY LenProperties, ElementOfSeq, EventTypes
<1> HIDE DEF m
<1>w. Withdraws(t, m, w)
  BY <1>0, WithoutSteerOK
<1>1. /\ TaskOK(w) /\ (Settled(t) => Settled(w))
      /\ w.provider = t.provider /\ w.misread = t.misread /\ w.runtime = t.runtime
      /\ \A at \in [Messages -> Places] : Holds(t, at) =>
           Holds(w, at) /\ \A k \in DOMAIN w.steers : w.steers[k] # m
  BY <1>w DEF Withdraws
<1> HIDE DEF w
<1>2. Quiet(w, v)
  BY <1>0, <1>1, PushMessageOK
<1> HIDE DEF v
<1>3. ASSUME NEW at \in [Messages -> Places], Holds(t, at), Answers(es, i - 1, at)
      PROVE  \E bt \in [Messages -> Places] : /\ Holds(v, bt) /\ Answers(es, i, bt)
                                              /\ Shuffles(at, bt, TaskPlaces \cup {"answered"})
  <2> DEFINE bt == [at EXCEPT ![m] = "gone"]
  <2>1. at[m] = "answered" /\ Answers(es, i, bt)
    BY <1>3, AnswerHandled DEF m
  <2>2. w \in Task /\ Holds(w, at) /\ \A k \in DOMAIN w.steers : w.steers[k] # m
    BY <1>1, <1>3 DEF TaskOK
  <2>3. /\ bt \in [Messages -> Places] /\ Holds(w, bt)
        /\ Shuffles(at, bt, TaskPlaces \cup {"answered"})
    BY <1>0, <2>1, <2>2, AnsweredIsLacked
  <2> HIDE DEF bt
  <2>4. Holds(v, bt)
    BY <1>2, <2>3, HoldsSame DEF Quiet, Carries
  <2> QED
    BY <2>1, <2>3, <2>4
<1>4. Handles(es, t, v, i - 1, i)
  BY <1>1, <1>2, <1>3 DEF Handles, Quiet, Carries
<1> QED
  BY <1>4 DEF v, w, m

\* The front of the queue takes a message.
LEMMA ConsReceives ==
  ASSUME NEW t, TaskOK(t), NEW m \in Messages, NEW drain \in BOOLEAN
  PROVE  Receives(t, m, [t EXCEPT !.queue = <<m>> \o @, !.drain = drain])
<1> DEFINE q == <<m>> \o t.queue
           u == [t EXCEPT !.queue = q, !.drain = drain]
<1>1. t \in Task /\ t.queue \in Seq(Messages) /\ <<m>> \in Seq(Messages) /\ Len(<<m>>) = 1
      /\ <<m>>[1] = m
  BY MailTypes DEF TaskOK
<1>2. /\ q \in Seq(Messages) /\ Len(q) = 1 + Len(t.queue)
      /\ \A i \in 1..(1 + Len(t.queue)) : q[i] = IF i <= 1 THEN <<m>>[i] ELSE t.queue[i - 1]
  BY <1>1, ConcatProperties
<1> HIDE DEF q
<1>3. u \in Task
  BY <1>1, <1>2 DEF Task
<1>4. /\ TaskOK(u) /\ u.turns = t.turns /\ u.captures = t.captures /\ u.inFlight = t.inFlight
      /\ u.provider = t.provider /\ u.misread = t.misread /\ u.runtime = t.runtime
      /\ u.steers = t.steers /\ u.composer = t.composer /\ u.preparations = t.preparations
      /\ u.queue = q
  BY <1>1, <1>3 DEF TaskOK, Task
<1> HIDE DEF u
<1>5. Settled(t) => Settled(u)
  BY <1>4, SettledLater DEF Active
<1>6. ASSUME NEW at \in [Messages -> Places], Holds(t, at), at[m] = "gone"
      PROVE  \E bt \in [Messages -> Places] : Holds(u, bt) /\ Shuffles(at, bt, TaskPlaces)
  <2> DEFINE bt == [at EXCEPT ![m] = "queue"]
  <2>1. Lacks(t, m)
    BY <1>1, <1>6, GoneIsLacked
  <2>2. bt \in [Messages -> Places] /\ Holds(t, bt)
    BY <1>1, <1>6, <2>1, HoldsAnywhere DEF Places
  <2>3. bt[m] = "queue" /\ Shuffles(at, bt, TaskPlaces)
    BY <1>6 DEF Shuffles, TaskPlaces
  <2> HIDE DEF bt
  <2>4. /\ DOMAIN t.queue = 1..Len(t.queue) /\ DOMAIN u.queue = 1..(1 + Len(t.queue))
        /\ Len(t.queue) \in Nat
    BY <1>1, <1>2, <1>4, LenProperties
  <2>5. \A i \in DOMAIN u.queue : \/ i = 1 /\ u.queue[i] = m
                                  \/ i - 1 \in DOMAIN t.queue /\ u.queue[i] = t.queue[i - 1]
    BY <1>1, <1>2, <1>4, <2>4
  <2>6. \A i \in DOMAIN u.queue : bt[u.queue[i]] = "queue"
    BY <2>2, <2>3, <2>5 DEF Holds
  <2>7. ASSUME NEW i \in DOMAIN u.queue, NEW j \in DOMAIN u.queue, u.queue[i] = u.queue[j]
        PROVE  i = j
    <3>0. \A k \in DOMAIN t.queue : t.queue[k] # m
      BY <2>1 DEF Lacks
    <3>1. CASE i = 1 \/ j = 1
      BY <2>4, <2>5, <2>7, <3>0, <3>1
    <3>2. CASE i # 1 /\ j # 1
      <4>1. i - 1 = j - 1
        BY <2>2, <2>5, <2>7, <3>2 DEF Holds
      <4> QED BY <2>4, <4>1
    <3> QED BY <3>1, <3>2
  <2>8. Holds(u, bt)
    BY <1>4, <2>2, <2>6, <2>7 DEF Holds
  <2> QED
    BY <2>2, <2>3, <2>8
<1>7. Receives(t, m, u)
  BY <1>4, <1>5, <1>6 DEF Receives
<1> QED
  BY <1>7 DEF u, q

\* A steer that is rejected goes into the queue, and is awaited no more.
LEMMA RejectedOK ==
  ASSUME NEW es \in Seq(Events), NEW i \in DOMAIN es, IsAnswer(es[i]), NEW t, TaskOK(t), t.runtime,
         NEW drains \in BOOLEAN
  PROVE  Handles(es, t, OnSteerRejected(t, es[i].message, drains), i - 1, i)
<1> DEFINE m == es[i].message
           a == Answered(t, m)
           w == WithoutSteer(t, m)
           misread == w.misread \/ a # m
           u == [w EXCEPT !.misread = misread]
           v == OnSteerRejected(t, m, drains)
           drain == u.drain \/ drains
<1>0. m \in Messages
  BY LenProperties, ElementOfSeq, EventTypes
<1> HIDE DEF m
<1>a. a \in Messages /\ Withdraws(t, m, w)
  BY <1>0, WithoutSteerOK
<1>1. /\ TaskOK(w) /\ (Settled(t) => Settled(w)) /\ a \in Messages
      /\ w.provider = t.provider /\ w.misread = t.misread /\ w.runtime = t.runtime
      /\ \A at \in [Messages -> Places] : Holds(t, at) =>
           Holds(w, at) /\ \A k \in DOMAIN w.steers : w.steers[k] # m
  BY <1>a DEF Withdraws
<1>2. v \in {[u EXCEPT !.queue = <<a>> \o @, !.drain = drain], Enqueue(u, a)}
  BY DEF OnSteerRejected
<1> HIDE DEF w, a, v
<1>3. w \in Task /\ misread \in BOOLEAN
  BY <1>1 DEF TaskOK
<1> HIDE DEF misread
<1>4. u \in Task
  BY <1>3 DEF Task
<1>5. /\ TaskOK(u) /\ u.turns = w.turns /\ u.captures = w.captures /\ u.inFlight = w.inFlight
      /\ u.provider = w.provider /\ u.misread = misread /\ u.runtime = w.runtime
      /\ u.steers = w.steers /\ u.composer = w.composer /\ u.preparations = w.preparations
      /\ u.queue = w.queue
  BY <1>1, <1>3, <1>4 DEF TaskOK, Task
<1> HIDE DEF u
<1>6. Settled(w) => Settled(u)
  BY <1>5, SettledLater DEF Active
<1>7. drain \in BOOLEAN
  BY DEF drain
<1> HIDE DEF drain
<1>8. Receives(u, a, v)
  <2>1. Receives(u, a, [u EXCEPT !.queue = <<a>> \o @, !.drain = drain])
    BY <1>1, <1>5, <1>7, ConsReceives
  <2>2. Receives(u, a, Enqueue(u, a))
    BY <1>1, <1>5, EnqueueOK
  <2> QED BY <1>2, <2>1, <2>2
<1>9. ASSUME misread PROVE Handles(es, t, v, i - 1, i)
  BY <1>1, <1>5, <1>6, <1>8, <1>9 DEF Receives, Handles
<1>10. ASSUME ~ misread PROVE Handles(es, t, v, i - 1, i)
  <2>1. a = m
    BY <1>10 DEF misread
  <2>2. ASSUME NEW at \in [Messages -> Places], Holds(t, at), Answers(es, i - 1, at)
        PROVE  \E ct \in [Messages -> Places] : /\ Holds(v, ct) /\ Answers(es, i, ct)
                                                /\ Shuffles(at, ct, TaskPlaces \cup {"answered"})
    <3> DEFINE bt == [at EXCEPT ![m] = "gone"]
    <3>1. at[m] = "answered" /\ Answers(es, i, bt)
      BY <2>2, AnswerHandled DEF m
    <3>2. Holds(u, at) /\ \A k \in DOMAIN u.steers : u.steers[k] # m
      BY <1>1, <1>5, <2>2, HoldsSame
    <3>3. /\ bt \in [Messages -> Places] /\ Holds(u, bt)
          /\ Shuffles(at, bt, TaskPlaces \cup {"answered"})
      BY <1>0, <1>4, <3>1, <3>2, AnsweredIsLacked
    <3>4. bt[m] = "gone"
      BY <1>0
    <3> HIDE DEF bt
    <3>5. PICK ct \in [Messages -> Places] : Holds(v, ct) /\ Shuffles(bt, ct, TaskPlaces)
      BY <1>8, <2>1, <3>3, <3>4 DEF Receives
    <3>6. Answers(es, i, ct)
      BY <3>1, <3>5, AnswersShuffled DEF TaskPlaces
    <3>7. Shuffles(bt, ct, TaskPlaces \cup {"answered"})
      BY <3>5, ShufflesMore
    <3>8. Shuffles(at, ct, TaskPlaces \cup {"answered"})
      BY <3>3, <3>7, ShufflesTwice
    <3> QED BY <3>5, <3>6, <3>8
  <2>3. /\ TaskOK(v) /\ (Settled(t) => Settled(v))
        /\ v.provider = t.provider /\ (t.misread => v.misread) /\ (v.runtime => t.runtime)
    BY <1>1, <1>5, <1>6, <1>8, <1>10 DEF Receives, misread
  <2> QED
    BY <2>2, <2>3 DEF Handles
<1>11. Handles(es, t, v, i - 1, i)
  BY <1>9, <1>10
<1> QED
  BY <1>11 DEF v, m

\* Every event is handled like that.
LEMMA HandleEventOK ==
  ASSUME NEW es \in Seq(Events), NEW i \in DOMAIN es, NEW t, TaskOK(t), NEW drains \in BOOLEAN
  PROVE  Handles(es, t, HandleEvent(t, es[i], drains), i - 1, i)
<1> DEFINE e == es[i]
           v == HandleEvent(t, e, drains)
<1>0. e \in Events
  BY LenProperties, ElementOfSeq
<1> HIDE DEF e
<1>1. CASE ~ t.runtime
  BY <1>1, UnreadHandles DEF HandleEvent, e
<1>2. CASE t.runtime /\ IsAnswer(e)
  <2>1. CASE e.event = "SteerAccepted"
    <3>1. v = PushMessage(WithoutSteer(t, e.message), e.message)
      BY <1>2, <2>1 DEF HandleEvent
    <3> QED BY <1>2, <3>1, AcceptedOK DEF e
  <2>2. CASE e.event = "SteerRejected"
    <3>1. v = OnSteerRejected(t, e.message, drains)
      BY <1>2, <2>2 DEF HandleEvent
    <3> QED BY <1>2, <3>1, RejectedOK DEF e
  <2> QED
    BY <1>2, <2>1, <2>2 DEF IsAnswer
<1>3. CASE t.runtime /\ ~ IsAnswer(e)
  <2>1. e.event \in {"TurnStarted", "Connected", "Output", "Permission", "TurnFinished", "Error",
                     "ProcessExited"}
    BY <1>0, <1>3, EventTypes DEF IsAnswer
  <2>2. Ends(t, v)
    <3>1. CASE e.event = "TurnStarted"
      <4>1. v = OnTurnStarted(t)
        BY <1>3, <3>1 DEF HandleEvent
      <4> QED BY <4>1, OnTurnStartedOK, QuietEnds
    <3>2. CASE e.event = "Connected"
      <4> DEFINE status == IF t.status = "Connecting" THEN "Working" ELSE t.status
      <4>1. v = [t EXCEPT !.status = status]
        BY <1>3, <3>2 DEF HandleEvent
      <4>2. status \in {"Idle", "Connecting", "Working", "Waiting", "Failed"}
        BY DEF TaskOK, Task
      <4> HIDE DEF status
      <4> QED BY <4>1, <4>2, StatusOK, QuietEnds
    <3>3. CASE e.event = "Output"
      <4>1. v = TakeOutput(t)
        BY <1>3, <3>3 DEF HandleEvent
      <4> QED BY <4>1, TakeOutputOK, QuietEnds
    <3>4. CASE e.event = "Permission"
      <4> DEFINE w == TakeOutput(t)
      <4>1. v = IF AcceptsOutput(t) THEN [w EXCEPT !.status = "Waiting"] ELSE t
        BY <1>3, <3>4 DEF HandleEvent
      <4>2. Quiet(t, w) /\ TaskOK(w)
        BY TakeOutputOK DEF Quiet
      <4> HIDE DEF w
      <4>3. Quiet(t, [w EXCEPT !.status = "Waiting"])
        BY <4>2, StatusOK, QuietTwice
      <4> QED BY <4>1, <4>3, QuietItself, QuietEnds
    <3>5. CASE e.event = "TurnFinished"
      <4>1. v = OnTurnFinished(t, e.success, drains)
        BY <1>3, <3>5 DEF HandleEvent
      <4>2. e.success \in BOOLEAN
        BY <1>0, <3>5, EventTypes
      <4> QED BY <4>1, <4>2, OnTurnFinishedOK, QuietEnds
    <3>6. CASE e.event = "Error"
      <4>1. v = OnError(t)
        BY <1>3, <3>6 DEF HandleEvent
      <4> QED BY <4>1, OnErrorOK, QuietEnds
    <3>7. CASE e.event = "ProcessExited"
      <4>1. v = OnExit(t)
        BY <1>3, <3>7 DEF HandleEvent
      <4> QED BY <4>1, OnExitOK
    <3> QED
      BY <2>1, <3>1, <3>2, <3>3, <3>4, <3>5, <3>6, <3>7
  <2> QED
    BY <1>3, <2>2, EndsHandles DEF e
<1> QED
  BY <1>1, <1>2, <1>3 DEF e

\* To handle some events and then more.
LEMMA HandlesTwice ==
  ASSUME NEW es, NEW t, NEW u, NEW v, NEW k, NEW m, NEW n,
         Handles(es, t, u, k, m), Handles(es, u, v, m, n)
  PROVE  Handles(es, t, v, k, n)
<1>1. ASSUME ~ v.misread, NEW at \in [Messages -> Places], Holds(t, at), Answers(es, k, at)
      PROVE  \E ct \in [Messages -> Places] : /\ Holds(v, ct) /\ Answers(es, n, ct)
                                              /\ Shuffles(at, ct, TaskPlaces \cup {"answered"})
  <2>0. ~ u.misread
    BY <1>1 DEF Handles
  <2>1. PICK bt \in [Messages -> Places] : /\ Holds(u, bt) /\ Answers(es, m, bt)
                                           /\ Shuffles(at, bt, TaskPlaces \cup {"answered"})
    BY <1>1, <2>0 DEF Handles
  <2>2. PICK ct \in [Messages -> Places] : /\ Holds(v, ct) /\ Answers(es, n, ct)
                                           /\ Shuffles(bt, ct, TaskPlaces \cup {"answered"})
    BY <1>1, <2>1 DEF Handles
  <2> QED
    BY <2>1, <2>2, ShufflesTwice
<1> QED
  BY <1>1 DEF Handles

\* All unread events are handled, one after the other.
LEMMA HandleEventsOK ==
  ASSUME events \in Seq(Events), NEW t, TaskOK(t), NEW drains \in BOOLEAN
  PROVE  Handles(events, t, HandleEvents(t, drains), 0, Len(events))
<1> DEFINE n == Len(events)
           S == {u \in Task : TaskOK(u)}
           step == [i \in 1..n |-> [u \in S |-> HandleEvent(u, events[i], drains)]]
           after == CHOOSE f : f = [i \in 0..n |-> IF i = 0 THEN t ELSE HandleEvent(f[i - 1], events[i], drains)]
<1>0. n \in Nat /\ DOMAIN events = 1..n /\ t \in S
  BY LenProperties DEF TaskOK
<1>1. \A u \in S, i \in 1..n : HandleEvent(u, events[i], drains) \in S
  BY <1>0, HandleEventOK DEF Handles, TaskOK
<1>2. HandleEvents(t, drains) = after[n]
  BY DEF HandleEvents
<1> HIDE DEF n, S
<1>3. step \in [1..n -> [S -> S]]
  BY <1>1
<1> HIDE DEF step
<1>4. PICK f \in [0..n -> S] : f = [i \in 0..n |-> IF i = 0 THEN t ELSE step[i][f[i - 1]]]
  <2>1. n \in Nat /\ t \in S
    BY <1>0
  <2> QED BY ONLY <1>3, <2>1, Recursion
<1>5. f = [i \in 0..n |-> IF i = 0 THEN t ELSE HandleEvent(f[i - 1], events[i], drains)]
  <2>1. ASSUME NEW i \in 0..n, i # 0 PROVE step[i][f[i - 1]] = HandleEvent(f[i - 1], events[i], drains)
    <3>1. i \in 1..n /\ i - 1 \in 0..n
      BY <1>0, <2>1
    <3> QED BY <1>4, <3>1 DEF step
  <2> QED BY <1>4, <2>1
<1>6. after = [i \in 0..n |-> IF i = 0 THEN t ELSE HandleEvent(after[i - 1], events[i], drains)]
  BY <1>5
<1> HIDE DEF after
<1>7. after[0] = t /\ \A i \in 1..n : after[i] = HandleEvent(after[i - 1], events[i], drains)
  BY <1>0, <1>6
<1> DEFINE Reached == {k \in Nat : k <= n => Handles(events, t, after[k], 0, k)}
<1>8. 0 \in Reached
  BY <1>0, <1>7, ShufflesItself DEF Handles
<1>9. ASSUME NEW k \in Nat, k \in Reached PROVE k + 1 \in Reached
  <2>1. SUFFICES ASSUME k + 1 <= n PROVE Handles(events, t, after[k + 1], 0, k + 1)
    OBVIOUS
  <2>2. Handles(events, t, after[k], 0, k)
    BY <1>0, <1>9, <2>1
  <2>3. k + 1 \in 1..n /\ (k + 1) - 1 = k
    BY <1>0, <2>1
  <2>a. TaskOK(after[k]) /\ k + 1 \in DOMAIN events
    BY <1>0, <2>2, <2>3 DEF Handles
  <2>4. Handles(events, after[k], HandleEvent(after[k], events[k + 1], drains), (k + 1) - 1, k + 1)
    BY <2>a, HandleEventOK
  <2>5. after[k + 1] = HandleEvent(after[k], events[k + 1], drains)
    BY <1>7, <2>3
  <2> QED
    BY <2>2, <2>3, <2>4, <2>5, HandlesTwice
<1> HIDE DEF Reached
<1>10. n \in Reached
  BY <1>0, <1>8, <1>9, Induction
<1> QED
  BY <1>0, <1>2, <1>10 DEF Reached, n

-----------------------------------------------------------------------------
(* Calls and prompts *)

\* Every message is in one place only, when the task is t, the first n events
\* have been handled, "typed" is still to be typed and the driver got the prompts.
Placed(t, typed, prompts, n) ==
  t.misread \/ \E at \in [Messages -> Places] :
    /\ Holds(t, at) /\ Writes(typed, prompts, at)
    /\ Asks(calls, steering, at) /\ Answers(events, n, at)

\* The same, and m is in none of them.
Freed(t, m, typed, prompts, n) ==
  t.misread \/ \E at \in [Messages -> Places] :
    /\ Holds(t, at) /\ Writes(typed, prompts, at) /\ at[m] = "gone"
    /\ Asks(calls, steering, at) /\ Answers(events, n, at)

NoSteers(more) == more \in Seq(Calls) /\ \A i \in DOMAIN more : more[i].call # "steer"

\* The kinds of calls, and what a steer carries.
LEMMA CallTypes ==
  ASSUME NEW c \in Calls
  PROVE  /\ c.call \in {"prompt", "steer", "cancel", "goal"}
         /\ c.call = "steer" => c.message \in Messages /\ c = Steer(c.message)
BY DEF Calls, Prompt, Steer, Cancel, Goal

\* A steer is a call.
LEMMA SteerType ==
  ASSUME NEW m \in Messages
  PROVE  Steer(m) \in Calls /\ Steer(m).call = "steer" /\ Steer(m).message = m
BY DEF Calls, Steer

\* What the desktop asks of the driver beside steers.
LEMMA MoreCalls ==
  /\ NoSteers(<<>>) /\ NoSteers(<<Goal>>) /\ NoSteers(<<Cancel>>)
  /\ \A m \in Messages : NoSteers(<<Prompt(m)>>)
<1>1. /\ {Goal, Cancel} \subseteq Calls /\ Goal.call # "steer" /\ Cancel.call # "steer"
      /\ \A m \in Messages : Prompt(m) \in Calls /\ Prompt(m).call # "steer"
  BY DEF Calls, Prompt, Cancel, Goal
<1>2. ASSUME NEW c \in Calls, c.call # "steer" PROVE NoSteers(<<c>>)
  <2>1. <<c>> \in Seq(Calls) /\ DOMAIN <<c>> = 1..1 /\ <<c>>[1] = c
    OBVIOUS
  <2> QED BY <1>2, <2>1 DEF NoSteers
<1>3. NoSteers(<<>>)
  BY DEF NoSteers
<1> QED
  BY <1>1, <1>2, <1>3

\* Two sequences of calls that are no steers are one.
LEMMA NoSteersTogether ==
  ASSUME NEW p, NEW q, NoSteers(p), NoSteers(q)
  PROVE  NoSteers(p \o q)
<1>1. /\ p \o q \in Seq(Calls) /\ Len(p \o q) = Len(p) + Len(q)
      /\ \A i \in 1..(Len(p) + Len(q)) : (p \o q)[i] = IF i <= Len(p) THEN p[i] ELSE q[i - Len(p)]
  BY ConcatProperties DEF NoSteers
<1>2. /\ DOMAIN p = 1..Len(p) /\ DOMAIN q = 1..Len(q) /\ Len(p) \in Nat /\ Len(q) \in Nat
      /\ DOMAIN (p \o q) = 1..(Len(p) + Len(q))
  BY <1>1, LenProperties DEF NoSteers
<1>3. ASSUME NEW i \in DOMAIN (p \o q) PROVE (p \o q)[i].call # "steer"
  <2>1. CASE i <= Len(p)
    <3>1. i \in DOMAIN p /\ (p \o q)[i] = p[i]
      BY <1>1, <1>2, <2>1
    <3> QED BY <3>1 DEF NoSteers
  <2>2. CASE ~ (i <= Len(p))
    <3>1. i - Len(p) \in DOMAIN q /\ (p \o q)[i] = q[i - Len(p)]
      BY <1>1, <1>2, <2>2
    <3> QED BY <3>1 DEF NoSteers
  <2> QED BY <2>1, <2>2
<1> QED
  BY <1>1, <1>3 DEF NoSteers

\* The driver is asked nothing that is answered.
LEMMA AsksMore ==
  ASSUME NEW cs \in Seq(Calls), NEW more, NoSteers(more), NEW took, NEW at, Asks(cs, took, at)
  PROVE  Asks(cs \o more, took, at)
<1> DEFINE s == cs \o more
<1>1. /\ s \in Seq(Calls) /\ Len(s) = Len(cs) + Len(more)
      /\ \A i \in 1..(Len(cs) + Len(more)) : s[i] = IF i <= Len(cs) THEN cs[i] ELSE more[i - Len(cs)]
  BY ConcatProperties DEF NoSteers
<1>2. /\ DOMAIN cs = 1..Len(cs) /\ DOMAIN more = 1..Len(more) /\ Len(cs) \in Nat /\ Len(more) \in Nat
      /\ DOMAIN s = 1..(Len(cs) + Len(more))
  BY <1>1, LenProperties DEF NoSteers
<1> HIDE DEF s
<1>3. ASSUME NEW i \in DOMAIN s, s[i].call = "steer" PROVE i \in DOMAIN cs /\ s[i] = cs[i]
  <2>1. CASE i <= Len(cs)
    BY <1>1, <1>2, <2>1
  <2>2. CASE ~ (i <= Len(cs))
    <3>1. i - Len(cs) \in DOMAIN more /\ s[i] = more[i - Len(cs)]
      BY <1>1, <1>2, <2>2
    <3> QED BY <1>3, <3>1 DEF NoSteers
  <2> QED BY <2>1, <2>2
<1>4. \A i \in DOMAIN cs : i \in DOMAIN s /\ s[i] = cs[i]
  BY <1>1, <1>2
<1>5. Range(cs) \subseteq Range(s)
  BY <1>4 DEF Range
<1>6. Asks(s, took, at)
  BY <1>3, <1>5 DEF Asks
<1> QED
  BY <1>6 DEF s

\* A steer is asked of the driver.
LEMMA AsksSteer ==
  ASSUME NEW cs \in Seq(Calls), NEW m \in Messages, NEW took,
         NEW at \in [Messages -> Places], Asks(cs, took, at), at[m] = "gone"
  PROVE  Asks(cs \o <<Steer(m)>>, took, [at EXCEPT ![m] = "called"])
<1> DEFINE s == cs \o <<Steer(m)>>
           bt == [at EXCEPT ![m] = "called"]
<1>0. /\ Steer(m) \in Calls /\ Steer(m).call = "steer" /\ Steer(m).message = m
      /\ <<Steer(m)>> \in Seq(Calls) /\ Len(<<Steer(m)>>) = 1 /\ <<Steer(m)>>[1] = Steer(m)
  BY SteerType
<1>1. /\ s \in Seq(Calls) /\ Len(s) = Len(cs) + 1
      /\ \A i \in 1..(Len(cs) + 1) : s[i] = IF i <= Len(cs) THEN cs[i] ELSE <<Steer(m)>>[i - Len(cs)]
  BY <1>0, ConcatProperties
<1>2. DOMAIN cs = 1..Len(cs) /\ Len(cs) \in Nat /\ DOMAIN s = 1..(Len(cs) + 1)
  BY <1>1, LenProperties
<1>3. bt[m] = "called" /\ \A k \in Messages : k # m => bt[k] = at[k]
  OBVIOUS
<1> HIDE DEF s, bt
<1>4. \A i \in DOMAIN s : \/ i \in DOMAIN cs /\ s[i] = cs[i]
                          \/ i = Len(cs) + 1 /\ s[i] = Steer(m)
  BY <1>0, <1>1, <1>2
<1>5. \A i \in DOMAIN cs : i \in DOMAIN s /\ s[i] = cs[i]
  BY <1>1, <1>2
<1>6. Len(cs) + 1 \in DOMAIN s /\ s[Len(cs) + 1] = Steer(m)
  BY <1>0, <1>1, <1>2
<1>7. \A i \in DOMAIN cs : cs[i].call = "steer" => cs[i].message \in Messages /\ cs[i].message # m
  BY <1>2, CallTypes, ElementOfSeq DEF Asks
<1>8. Range(cs) \subseteq Range(s) /\ Steer(m) \in Range(s)
  BY <1>5, <1>6 DEF Range
<1>9. \A i \in DOMAIN s : s[i].call = "steer" => bt[s[i].message] = "called"
  BY <1>0, <1>3, <1>4, <1>7 DEF Asks
<1>10. \A i, j \in DOMAIN s :
        s[i].call = "steer" /\ s[j].call = "steer" /\ s[i].message = s[j].message => i = j
  BY <1>0, <1>4, <1>7 DEF Asks
<1>11. \A k \in Messages : bt[k] = "called" => Steer(k) \in Range(s)
  BY <1>3, <1>8 DEF Asks
<1>12. \A k \in Messages : k \in took <=> bt[k] = "taken"
  BY <1>3 DEF Asks
<1>13. Asks(s, took, bt)
  BY <1>9, <1>10, <1>11, <1>12 DEF Asks
<1> QED
  BY <1>13 DEF s, bt

\* The calls do not mind what moves elsewhere.
LEMMA AsksShuffled ==
  ASSUME NEW cs \in Seq(Calls), NEW took, NEW at, NEW bt, NEW P, Asks(cs, took, at), Shuffles(at, bt, P),
         "called" \notin P, "taken" \notin P
  PROVE  Asks(cs, took, bt)
<1>1. \A m \in Messages : (at[m] = "called" <=> bt[m] = "called") /\ (at[m] = "taken" <=> bt[m] = "taken")
  BY DEF Shuffles
<1>2. \A i \in DOMAIN cs : cs[i].call = "steer" => cs[i].message \in Messages
  BY CallTypes, LenProperties, ElementOfSeq
<1> QED
  BY <1>1, <1>2 DEF Asks

Prompts == Seq([turn : Nat, message : Messages])

\* A prompt the driver got is a message.
LEMMA PromptTypes ==
  ASSUME NEW prompts \in Prompts
  PROVE  \A i \in DOMAIN prompts : prompts[i].message \in Messages
<1>1. \A i \in DOMAIN prompts : prompts[i] \in [turn : Nat, message : Messages]
  BY LenProperties, ElementOfSeq DEF Prompts
<1> QED BY <1>1

\* What is typed and what was sent do not mind what moves elsewhere.
LEMMA WritesShuffled ==
  ASSUME NEW typed \in SUBSET Messages, NEW prompts \in Prompts, NEW at, NEW bt, NEW P,
         Writes(typed, prompts, at), Shuffles(at, bt, P), "fresh" \notin P, "sent" \notin P
  PROVE  Writes(typed, prompts, bt)
<1>1. \A m \in Messages : (at[m] = "fresh" <=> bt[m] = "fresh") /\ (at[m] = "sent" <=> bt[m] = "sent")
  BY DEF Shuffles
<1>2. \A i \in DOMAIN prompts : prompts[i].message \in Messages
  BY PromptTypes
<1> QED
  BY <1>1, <1>2 DEF Writes

-----------------------------------------------------------------------------
(* How an action ends *)

\* The messages stay where they are as long as the task follows.
LEMMA FollowsPlaced ==
  ASSUME calls \in Seq(Calls), events \in Seq(Events),
         NEW typed \in SUBSET Messages, NEW prompts \in Prompts, NEW n,
         NEW t, NEW u, Follows(t, u), Placed(t, typed, prompts, n)
  PROVE  Placed(u, typed, prompts, n)
<1>1. CASE t.misread
  BY <1>1 DEF Placed, Follows
<1>2. CASE ~ t.misread
  <2>1. PICK at \in [Messages -> Places] :
          /\ Holds(t, at) /\ Writes(typed, prompts, at)
          /\ Asks(calls, steering, at) /\ Answers(events, n, at)
    BY <1>2 DEF Placed
  <2>2. PICK bt \in [Messages -> Places] : Holds(u, bt) /\ Shuffles(at, bt, TaskPlaces)
    BY <2>1 DEF Follows
  <2>3. Writes(typed, prompts, bt)
    BY <2>1, <2>2, WritesShuffled DEF TaskPlaces
  <2>4. Asks(calls, steering, bt)
    BY <2>1, <2>2, AsksShuffled DEF TaskPlaces
  <2>5. Answers(events, n, bt)
    BY <2>1, <2>2, AnswersShuffled DEF TaskPlaces
  <2> QED
    BY <2>2, <2>3, <2>4, <2>5 DEF Placed
<1> QED
  BY <1>1, <1>2

\* A message that was free is placed when the task receives it.
LEMMA ReceivesPlaced ==
  ASSUME calls \in Seq(Calls), events \in Seq(Events),
         NEW typed \in SUBSET Messages, NEW prompts \in Prompts, NEW n, NEW m \in Messages,
         NEW t, NEW u, Receives(t, m, u), Freed(t, m, typed, prompts, n)
  PROVE  Placed(u, typed, prompts, n)
<1>1. CASE t.misread
  BY <1>1 DEF Placed, Receives
<1>2. CASE ~ t.misread
  <2>1. PICK at \in [Messages -> Places] :
          /\ Holds(t, at) /\ Writes(typed, prompts, at) /\ at[m] = "gone"
          /\ Asks(calls, steering, at) /\ Answers(events, n, at)
    BY <1>2 DEF Freed
  <2>2. PICK bt \in [Messages -> Places] : Holds(u, bt) /\ Shuffles(at, bt, TaskPlaces)
    BY <2>1 DEF Receives
  <2>3. Writes(typed, prompts, bt)
    BY <2>1, <2>2, WritesShuffled DEF TaskPlaces
  <2>4. Asks(calls, steering, bt)
    BY <2>1, <2>2, AsksShuffled DEF TaskPlaces
  <2>5. Answers(events, n, bt)
    BY <2>1, <2>2, AnswersShuffled DEF TaskPlaces
  <2> QED
    BY <2>2, <2>3, <2>4, <2>5 DEF Placed
<1> QED
  BY <1>1, <1>2

\* The messages stay where they are when a runtime ends.
LEMMA EndsPlaced ==
  ASSUME NEW typed, NEW prompts, NEW n, NEW t, NEW u, Ends(t, u), Placed(t, typed, prompts, n)
  PROVE  Placed(u, typed, prompts, n)
<1>1. \A at : Holds(t, at) => Holds(u, at)
  BY HoldsSame DEF Ends
<1> QED
  BY <1>1 DEF Placed, Ends

\* To have a free message is to have all placed.
LEMMA FreedPlaced ==
  ASSUME NEW typed, NEW prompts, NEW n, NEW m, NEW t, Freed(t, m, typed, prompts, n)
  PROVE  Placed(t, typed, prompts, n)
BY DEF Freed, Placed

\* The messages are placed behind the events that are handled.
LEMMA HandlesPlaced ==
  ASSUME calls \in Seq(Calls), events \in Seq(Events),
         NEW typed \in SUBSET Messages, NEW prompts \in Prompts, NEW n,
         NEW t, NEW u, Handles(events, t, u, 0, n), Placed(t, typed, prompts, 0)
  PROVE  Placed(u, typed, prompts, n)
<1>1. CASE u.misread
  BY <1>1 DEF Placed
<1>2. CASE ~ u.misread
  <2>0. ~ t.misread
    BY <1>2 DEF Handles
  <2>1. PICK at \in [Messages -> Places] :
          /\ Holds(t, at) /\ Writes(typed, prompts, at)
          /\ Asks(calls, steering, at) /\ Answers(events, 0, at)
    BY <2>0 DEF Placed
  <2>2. PICK bt \in [Messages -> Places] : /\ Holds(u, bt) /\ Answers(events, n, bt)
                                           /\ Shuffles(at, bt, TaskPlaces \cup {"answered"})
    BY <1>2, <2>1 DEF Handles
  <2>3. Writes(typed, prompts, bt)
    BY <2>1, <2>2, WritesShuffled DEF TaskPlaces
  <2>4. Asks(calls, steering, bt)
    BY <2>1, <2>2, AsksShuffled DEF TaskPlaces
  <2> QED
    BY <2>2, <2>3, <2>4 DEF Placed
<1> QED
  BY <1>1, <1>2

-----------------------------------------------------------------------------
(* How an action ends. *)

\* How an action ends, by type.
LEMMA BecomeTypes ==
  ASSUME DesktopTypeOK, NEW t, TaskOK(t), NEW more \in Seq(Calls), NEW unread \in Seq(Events),
         Become(t, more, unread)
  PROVE  /\ task' = t /\ TaskOK(task')
         /\ StreamTypeOK'
         /\ ~ task'.runtime => calls' = <<>> /\ events' = <<>> /\ steering' = {}
<1>1. task' = t /\ UNCHANGED <<pursues, attempts, eager>>
  BY DEF Become
<1>2. /\ calls \in Seq(Calls) /\ events \in Seq(Events) /\ {starts, finishes} \subseteq Nat
      /\ steering \subseteq Messages /\ {exited, pursues, eager} \subseteq BOOLEAN /\ attempts \in {1, 2}
  BY DEF DesktopTypeOK, StreamTypeOK
<1>3. calls' \in {calls \o more, more, <<>>} /\ calls' \in Seq(Calls)
  <2>1. calls' \in {calls \o more, more, <<>>}
    BY DEF Become
  <2>2. calls \o more \in Seq(Calls) /\ <<>> \in Seq(Calls)
    BY <1>2, ConcatProperties, EmptySeq
  <2> QED BY <2>1, <2>2
<1>4. events' \in Seq(Events)
  BY EmptySeq DEF Become
<1>5. starts' \in Nat /\ finishes' \in Nat
  BY <1>2 DEF Become, UnaskedStarts, UnaskedFinishes
<1>6. steering' \subseteq Messages /\ exited' \in BOOLEAN
  BY <1>2 DEF Become
<1>7. StreamTypeOK'
  BY <1>1, <1>2, <1>3, <1>4, <1>5, <1>6 DEF StreamTypeOK
<1>8. ~ t.runtime => calls' = <<>> /\ events' = <<>> /\ steering' = {}
  BY DEF Become, Keeps, Opens
<1> QED
  BY <1>1, <1>7, <1>8

\* A runtime that is new, or gone, has been given no steer.
LEMMA NothingAsked ==
  ASSUME NEW more, NoSteers(more), NEW at \in [Messages -> Places],
         NEW cs \in Seq(Calls), NEW took, Asks(cs, took, at), NEW es, NEW n, Answers(es, n, at)
  PROVE  \E bt \in [Messages -> Places] :
           /\ Asks(more, {}, bt) /\ Answers(<<>>, 0, bt)
           /\ Shuffles(at, bt, {"called", "taken", "answered", "gone"})
           /\ \A t \in Task : Holds(t, at) /\ t.steers = <<>> => Holds(t, bt)
<1> DEFINE P == {"called", "taken", "answered", "gone"}
           bt == [m \in Messages |-> IF at[m] \in P THEN "gone" ELSE at[m]]
<1>1. bt \in [Messages -> Places]
  BY DEF Places
<1>2. \A m \in Messages : bt[m] = (IF at[m] \in P THEN "gone" ELSE at[m])
  OBVIOUS
<1> HIDE DEF bt
<1>3. Shuffles(at, bt, P)
  BY <1>2 DEF Shuffles
<1>4. Asks(more, {}, bt)
  BY <1>2 DEF Asks, NoSteers
<1>5. Answers(<<>>, 0, bt)
  BY <1>2 DEF Answers
<1>6. ASSUME NEW t \in Task, Holds(t, at), t.steers = <<>> PROVE Holds(t, bt)
  <2>1. t.composer # NoMessage => bt[t.composer] = "composer"
    BY <1>2, <1>6, MailTypes DEF Holds
  <2>2. \A i \in DOMAIN t.queue : bt[t.queue[i]] = "queue"
    BY <1>2, <1>6, MailTypes DEF Holds
  <2>3. \A i \in DOMAIN t.preparations : bt[t.preparations[i].message] = "preparing"
    BY <1>2, <1>6, MailTypes DEF Holds
  <2> QED
    BY <1>6, <2>1, <2>2, <2>3 DEF Holds
<1> QED
  BY <1>1, <1>3, <1>4, <1>5, <1>6

\* No answer is left when every event has been handled.
LEMMA AllAnswersHandled ==
  ASSUME NEW es \in Seq(Events), NEW at, Answers(es, Len(es), at)
  PROVE  Answers(<<>>, 0, at)
<1>0. \A i \in DOMAIN es : ~ (Len(es) < i)
  BY LenProperties
<1>1. \A m \in Messages : at[m] # "answered"
  BY <1>0 DEF Answers
<1> QED
  BY <1>1 DEF Answers

\* How an action ends, for the messages.
LEMMA BecomePlaced ==
  ASSUME DesktopTypeOK, NEW t, TaskOK(t), NEW more, NoSteers(more), NEW unread, NEW n,
         \/ n = 0 /\ unread = events
         \/ n = Len(events) /\ unread = <<>>,
         Opens(t) => t.steers = <<>>,
         Become(t, more, unread), fresh' \subseteq Messages, sent' \in Prompts,
         Placed(t, fresh', sent', n)
  PROVE  InOnePlace'
<1>0. calls \in Seq(Calls) /\ events \in Seq(Events) /\ t \in Task /\ task' = t
  BY DEF DesktopTypeOK, StreamTypeOK, TaskOK, Become
<1>1. CASE t.misread
  BY <1>0, <1>1 DEF InOnePlace
<1>2. CASE ~ t.misread
  <2>1. PICK at \in [Messages -> Places] :
          /\ Holds(t, at) /\ Writes(fresh', sent', at)
          /\ Asks(calls, steering, at) /\ Answers(events, n, at)
    BY <1>2 DEF Placed
  <2>2. CASE Keeps(t)
    <3>1. calls' = calls \o more /\ steering' = steering /\ events' = unread
      BY <2>2 DEF Become, Keeps, Opens
    <3>2. Asks(calls', steering', at)
      BY <1>0, <2>1, <3>1, AsksMore
    <3>3. Answers(events', 0, at)
      BY <1>0, <2>1, <3>1, AllAnswersHandled
    <3>4. Holds(task', at)
      BY <1>0, <2>1
    <3> QED BY <2>1, <3>2, <3>3, <3>4 DEF InOnePlace
  <2>3. CASE ~ Keeps(t)
    <3>1. /\ calls' = IF Opens(t) THEN more ELSE <<>>
          /\ steering' = {} /\ events' = <<>>
      BY <2>3 DEF Become
    <3>2. NoSteers(calls')
      BY <3>1 DEF NoSteers
    <3>3. t.steers = <<>>
      BY <2>3 DEF TaskOK, Keeps, Opens
    <3>4. PICK bt \in [Messages -> Places] :
            /\ Asks(calls', {}, bt) /\ Answers(<<>>, 0, bt)
            /\ Shuffles(at, bt, {"called", "taken", "answered", "gone"})
            /\ \A u \in Task : Holds(u, at) /\ u.steers = <<>> => Holds(u, bt)
      BY <1>0, <2>1, <3>2, NothingAsked
    <3>5. Writes(fresh', sent', bt)
      BY <2>1, <3>4, WritesShuffled
    <3>6. Holds(task', bt)
      BY <1>0, <2>1, <3>3, <3>4
    <3> QED BY <3>1, <3>4, <3>5, <3>6 DEF InOnePlace
  <2> QED
    BY <2>2, <2>3
<1> QED
  BY <1>1, <1>2

\* An action that leaves a task of the right type, settled and with every message
\* placed keeps the invariant.
LEMMA ActionOK ==
  ASSUME DesktopTypeOK, NEW t, TaskOK(t), Settled(t), NEW more, NoSteers(more), NEW unread, NEW n,
         \/ n = 0 /\ unread = events
         \/ n = Len(events) /\ unread = <<>>,
         Opens(t) => t.steers = <<>>,
         Become(t, more, unread),
         NEW stop \in BOOLEAN, NEW prompts \in Prompts, Remember(stop, prompts),
         fresh' \subseteq Messages, wake' \in BOOLEAN,
         Placed(t, fresh', sent \o prompts, n)
  PROVE  DesktopIInv'
<1>1. more \in Seq(Calls) /\ unread \in Seq(Events)
  BY EmptySeq DEF NoSteers, DesktopTypeOK, StreamTypeOK
<1>2. sent \in Prompts
  BY DEF DesktopTypeOK, Prompts
<1>3. sent' = sent \o prompts /\ sent' \in Prompts
  BY <1>2, ConcatProperties DEF Remember, Prompts
<1>4. owed' \in BOOLEAN
  BY DEF Remember
<1>5. /\ task' = t /\ TaskOK(task') /\ StreamTypeOK'
      /\ ~ task'.runtime => calls' = <<>> /\ events' = <<>> /\ steering' = {}
  BY <1>1, BecomeTypes
<1>6. DesktopTypeOK'
  BY <1>3, <1>4, <1>5 DEF DesktopTypeOK, TaskOK, Prompts
<1>7. InOnePlace'
  BY <1>3, BecomePlaced
<1> QED
  BY <1>5, <1>6, <1>7 DEF DesktopIInv

-----------------------------------------------------------------------------
(* The user: typing and sending *)

\* What the invariant says, in the form the lemmas take.
LEMMA InvariantFacts ==
  ASSUME DesktopIInv
  PROVE  /\ DesktopTypeOK /\ TaskOK(task) /\ Settled(task) /\ Placed(task, fresh, sent, 0)
         /\ calls \in Seq(Calls) /\ events \in Seq(Events)
         /\ fresh \subseteq Messages /\ sent \in Prompts /\ wake \in BOOLEAN
         /\ sent \o <<>> = sent /\ <<>> \in Prompts
<1>1. sent \in Prompts
  BY DEF DesktopIInv, DesktopTypeOK, Prompts
<1>2. sent \o <<>> = sent /\ <<>> \in Prompts
  BY <1>1, ConcatEmptySeq, EmptySeq DEF Prompts
<1>3. Placed(task, fresh, sent, 0)
  BY DEF DesktopIInv, InOnePlace, Placed
<1> QED
  BY <1>1, <1>2, <1>3 DEF DesktopIInv, DesktopTypeOK, StreamTypeOK, TaskOK

\* An action of the user keeps the invariant when its task is all right.
LEMMA UserOK ==
  ASSUME DesktopIInv, NEW t, TaskOK(t), Settled(t), NEW more, NoSteers(more),
         Opens(t) => t.steers = <<>>, UserDoes(t, more),
         fresh' \subseteq Messages, Placed(t, fresh', sent, 0)
  PROVE  DesktopIInv'
<1>1. /\ Become(t, more, events) /\ Remember(FALSE, <<>>) /\ wake' \in BOOLEAN
  BY InvariantFacts DEF UserDoes
<1>2. Placed(t, fresh', sent \o <<>>, 0)
  BY InvariantFacts
<1> QED
  BY <1>1, <1>2, ActionOK, InvariantFacts

\* A report keeps the invariant when its task is all right.
LEMMA ReportOK ==
  ASSUME DesktopIInv, NEW t, TaskOK(t), Settled(t), NEW more, NoSteers(more),
         Opens(t) => t.steers = <<>>, NEW prompts \in Prompts, Reports(t, more, prompts),
         Placed(t, fresh, sent \o prompts, 0)
  PROVE  DesktopIInv'
<1>1. /\ Become(t, more, events) /\ Remember(FALSE, prompts) /\ fresh' = fresh
      /\ wake' \in BOOLEAN
  BY InvariantFacts DEF Reports
<1> QED
  BY <1>1, ActionOK, InvariantFacts

\* A task that follows is all right.
LEMMA FollowsStays ==
  ASSUME DesktopIInv, NEW t, Follows(task, t)
  PROVE  /\ TaskOK(t) /\ Settled(t) /\ ~ Opens(t) /\ Placed(t, fresh, sent, 0)
<1>1. Placed(t, fresh, sent, 0)
  BY InvariantFacts, FollowsPlaced
<1> QED
  BY <1>1, InvariantFacts DEF Follows, Opens

\* The user types a message that was fresh.
LEMMA TypeOK ==
  ASSUME DesktopIInv, NEW m \in Messages, Type(m)
  PROVE  DesktopIInv'
<1> DEFINE u == [task EXCEPT !.composer = m]
<1>1. /\ task.composer = NoMessage /\ m \in fresh /\ fresh' = fresh \ {m} /\ task' = u
      /\ UNCHANGED <<wake, sent, owed, streamVars>>
  BY DEF Type
<1>2. u \in Task
  BY InvariantFacts DEF TaskOK, Task
<1>3. /\ TaskOK(u) /\ u.turns = task.turns /\ u.captures = task.captures /\ u.inFlight = task.inFlight
      /\ u.provider = task.provider /\ u.misread = task.misread /\ u.runtime = task.runtime
      /\ u.steers = task.steers /\ u.composer = m /\ u.preparations = task.preparations
      /\ u.queue = task.queue
  BY <1>2, InvariantFacts DEF TaskOK, Task
<1> HIDE DEF u
<1>4. Settled(u)
  BY <1>3, InvariantFacts, SettledLater DEF Active
<1>5. DesktopTypeOK'
  BY <1>1, <1>3 DEF DesktopIInv, DesktopTypeOK, StreamTypeOK, streamVars, TaskOK
<1>6. CASE task.misread
  BY <1>1, <1>3, <1>4, <1>5, <1>6 DEF DesktopIInv, InOnePlace
<1>7. CASE ~ task.misread
  <2>1. PICK at \in [Messages -> Places] :
          /\ Holds(task, at) /\ Writes(fresh, sent, at)
          /\ Asks(calls, steering, at) /\ Answers(events, 0, at)
    BY <1>7 DEF DesktopIInv, InOnePlace
  <2> DEFINE bt == [at EXCEPT ![m] = "composer"]
  <2>2. at[m] = "fresh"
    BY <1>1, <2>1 DEF Writes
  <2>3. bt \in [Messages -> Places] /\ Holds(task, bt)
    BY <2>1, <2>2, GoneIsLacked, HoldsAnywhere, InvariantFacts DEF TaskOK, Places
  <2>4. bt[m] = "composer" /\ (\A k \in Messages : k # m => bt[k] = at[k])
        /\ Shuffles(at, bt, {"fresh", "composer"})
    BY <2>2 DEF Shuffles
  <2> HIDE DEF bt
  <2>5. Holds(u, bt)
    BY <1>3, <2>3, <2>4 DEF Holds
  <2>6. \A i \in DOMAIN sent : sent[i].message \in Messages
    BY InvariantFacts, PromptTypes
  <2>7. Writes(fresh', sent, bt)
    BY <1>1, <2>1, <2>2, <2>4, <2>6, InvariantFacts DEF Writes
  <2>8. Asks(calls, steering, bt)
    BY <2>1, <2>4, AsksShuffled, InvariantFacts
  <2>9. Answers(events, 0, bt)
    BY <2>1, <2>4, AnswersShuffled, InvariantFacts
  <2>10. InOnePlace'
    BY <1>1, <2>3, <2>5, <2>7, <2>8, <2>9 DEF InOnePlace, streamVars
  <2> QED
    BY <1>1, <1>4, <1>5, <2>10 DEF DesktopIInv
<1> QED
  BY <1>6, <1>7

\* What the user sends leaves the composer.
LEMMA ComposerTaken ==
  ASSUME DesktopIInv, task.composer # NoMessage
  PROVE  LET t == [task EXCEPT !.composer = NoMessage]
         IN  /\ TaskOK(t) /\ Settled(t) /\ task.composer \in Messages
             /\ t.runtime = task.runtime /\ t.steers = task.steers
             /\ Freed(t, task.composer, fresh, sent, 0)
<1> DEFINE t == [task EXCEPT !.composer = NoMessage]
           m == task.composer
<1>1. t \in Task /\ m \in Messages
  BY InvariantFacts DEF TaskOK, Task
<1>2. /\ TaskOK(t) /\ t.turns = task.turns /\ t.captures = task.captures /\ t.inFlight = task.inFlight
      /\ t.provider = task.provider /\ t.misread = task.misread /\ t.runtime = task.runtime
      /\ t.steers = task.steers /\ t.composer = NoMessage /\ t.preparations = task.preparations
      /\ t.queue = task.queue
  BY <1>1, InvariantFacts DEF TaskOK, Task
<1> HIDE DEF t, m
<1>3. Settled(t)
  BY <1>2, InvariantFacts, SettledLater DEF Active
<1>4. ASSUME NEW at \in [Messages -> Places], Holds(task, at), Writes(fresh, sent, at),
             Asks(calls, steering, at), Answers(events, 0, at)
      PROVE  \E bt \in [Messages -> Places] :
               /\ Holds(t, bt) /\ Writes(fresh, sent, bt) /\ bt[m] = "gone"
               /\ Asks(calls, steering, bt) /\ Answers(events, 0, bt)
  <2> DEFINE bt == [at EXCEPT ![m] = "gone"]
  <2>1. at[m] = "composer"
    BY <1>1, <1>4 DEF Holds, m
  <2>2. Holds(t, at)
    BY <1>2, <1>4 DEF Holds
  <2>3. Lacks(t, m)
    BY <1>1, <1>2, <2>1, <2>2, NoMessageAssumption DEF Holds, Lacks
  <2>4. bt \in [Messages -> Places] /\ Holds(t, bt)
    BY <1>1, <2>2, <2>3, HoldsAnywhere DEF Places
  <2>5. bt[m] = "gone" /\ Shuffles(at, bt, TaskPlaces)
    BY <1>1, <2>1 DEF Shuffles, TaskPlaces
  <2> HIDE DEF bt
  <2>6. Writes(fresh, sent, bt)
    BY <1>4, <2>5, WritesShuffled, InvariantFacts DEF TaskPlaces
  <2>7. Asks(calls, steering, bt)
    BY <1>4, <2>5, AsksShuffled, InvariantFacts DEF TaskPlaces
  <2>8. Answers(events, 0, bt)
    BY <1>4, <2>5, AnswersShuffled, InvariantFacts DEF TaskPlaces
  <2> QED
    BY <2>4, <2>5, <2>6, <2>7, <2>8
<1>5. Freed(t, m, fresh, sent, 0)
  BY <1>2, <1>4, InvariantFacts DEF Freed, Placed
<1> QED
  BY <1>1, <1>2, <1>3, <1>5 DEF t, m

\* Send.
LEMMA SendOK ==
  ASSUME DesktopIInv, Send
  PROVE  DesktopIInv'
<1> DEFINE t == [task EXCEPT !.composer = NoMessage]
           m == task.composer
           u == SubmitComposer(t, m)
<1>1. m # NoMessage /\ UserDoes(u, <<>>) /\ fresh' = fresh
  BY DEF Send, CanSend
<1>2. /\ TaskOK(t) /\ Settled(t) /\ m \in Messages
      /\ t.runtime = task.runtime /\ t.steers = task.steers
      /\ Freed(t, m, fresh, sent, 0)
  BY <1>1, ComposerTaken
<1> HIDE DEF t, m
<1>3. Receives(t, m, u)
  BY <1>2, SubmitComposerOK
<1> HIDE DEF u
<1>4. Placed(u, fresh, sent, 0)
  BY <1>2, <1>3, ReceivesPlaced, InvariantFacts
<1>5. TaskOK(u) /\ Settled(u) /\ ~ Opens(u)
  BY <1>2, <1>3 DEF Receives, Opens
<1> QED
  BY <1>1, <1>2, <1>4, <1>5, UserOK, MoreCalls, InvariantFacts

-----------------------------------------------------------------------------
(* The user: steers, the queue, goals and forks *)

\* The driver is given a message that is nowhere else, as a steer.
LEMMA SteersPlaced ==
  ASSUME DesktopIInv, NEW t, TaskOK(t), t.runtime, task.runtime, NEW m \in Messages,
         Freed(t, m, fresh, sent, 0), NEW u, u = [t EXCEPT !.steers = Append(@, m)],
         Become(u, <<Steer(m)>>, events), fresh' = fresh, sent' = sent
  PROVE  InOnePlace'
<1>1. /\ u \in Task /\ u.misread = t.misread /\ u.runtime = t.runtime /\ u.composer = t.composer
      /\ u.queue = t.queue /\ u.preparations = t.preparations /\ u.steers = Append(t.steers, m)
  <2>1. t \in Task /\ t.steers \in Seq(Messages) /\ Append(t.steers, m) \in Seq(Messages)
    BY MailTypes, AppendProperties DEF TaskOK
  <2> QED BY <2>1 DEF Task
<1>2. /\ task' = u /\ calls' = calls \o <<Steer(m)>> /\ events' = events /\ steering' = steering
  BY <1>1 DEF Become, Keeps, Opens
<1>3. CASE t.misread
  BY <1>1, <1>2, <1>3 DEF InOnePlace
<1>4. CASE ~ t.misread
  <2>1. PICK at \in [Messages -> Places] :
          /\ Holds(t, at) /\ Writes(fresh, sent, at) /\ at[m] = "gone"
          /\ Asks(calls, steering, at) /\ Answers(events, 0, at)
    BY <1>4 DEF Freed
  <2> DEFINE bt == [at EXCEPT ![m] = "called"]
  <2>2. bt \in [Messages -> Places] /\ Holds(t, bt) /\ Lacks(t, m)
    BY <2>1, GoneIsLacked, HoldsAnywhere DEF TaskOK, Places
  <2>3. Asks(calls', steering', bt)
    BY <1>2, <2>1, AsksSteer, InvariantFacts
  <2>4. bt[m] = "called" /\ Shuffles(at, bt, {"gone", "called"})
    BY <2>1 DEF Shuffles
  <2> HIDE DEF bt
  <2>5. Writes(fresh, sent, bt)
    BY <2>1, <2>4, WritesShuffled, InvariantFacts
  <2>6. Answers(events, 0, bt)
    BY <2>1, <2>4, AnswersShuffled, InvariantFacts
  <2>7. /\ \A i \in DOMAIN u.steers : bt[u.steers[i]] \in {"called", "taken", "answered"}
        /\ \A i, j \in DOMAIN u.steers : u.steers[i] = u.steers[j] => i = j
    <3>1. t.steers \in Seq(Messages)
      BY MailTypes DEF TaskOK
    <3>2. /\ u.steers \in Seq(Messages) /\ Len(u.steers) = Len(t.steers) + 1 /\ Len(t.steers) \in Nat
          /\ \A i \in 1..Len(t.steers) : u.steers[i] = t.steers[i]
          /\ u.steers[Len(t.steers) + 1] = m
      BY <1>1, <3>1, AppendProperties, LenProperties
    <3>3. DOMAIN t.steers = 1..Len(t.steers) /\ DOMAIN u.steers = 1..(Len(t.steers) + 1)
      BY <3>1, <3>2, LenProperties
    <3>4. \A i \in DOMAIN u.steers : \/ i \in DOMAIN t.steers /\ u.steers[i] = t.steers[i]
                                     \/ i = Len(t.steers) + 1 /\ u.steers[i] = m
      BY <3>2, <3>3
    <3>5. \A i \in DOMAIN t.steers : t.steers[i] # m
      BY <2>2 DEF Lacks
    <3> QED BY <2>2, <2>4, <3>4, <3>5 DEF Holds
  <2>8. Holds(u, bt)
    BY <1>1, <2>2, <2>7 DEF Holds
  <2> QED
    BY <1>2, <2>2, <2>3, <2>5, <2>6, <2>8 DEF InOnePlace
<1> QED
  BY <1>3, <1>4

\* To steer with a message that is free.
LEMMA SteerWithOK ==
  ASSUME DesktopIInv, NEW t, TaskOK(t), Settled(t), NEW m \in Messages,
         t.runtime = task.runtime, Freed(t, m, fresh, sent, 0),
         SteerWith(t, m), fresh' = fresh
  PROVE  DesktopIInv'
<1>1. ASSUME NEW u, Receives(t, m, u), UserDoes(u, <<>>)
      PROVE  DesktopIInv'
  <2>1. Placed(u, fresh, sent, 0)
    BY <1>1, ReceivesPlaced, InvariantFacts
  <2>2. TaskOK(u) /\ Settled(u) /\ ~ Opens(u)
    BY <1>1 DEF Receives, Opens
  <2> QED
    BY <1>1, <2>1, <2>2, UserOK, MoreCalls, InvariantFacts
<1>2. CASE ~ Busy(t) /\ UserDoes(SubmitComposer(t, m), <<>>)
  BY <1>1, <1>2, SubmitComposerOK
<1>3. CASE UserDoes(Enqueue(t, m), <<>>)
  BY <1>1, <1>3, EnqueueOK
<1>4. ASSUME NEW u, u = [t EXCEPT !.steers = Append(@, m)], CanSteer(t), UserDoes(u, <<Steer(m)>>)
      PROVE  DesktopIInv'
  <2>1. t.runtime /\ task.runtime
    BY <1>4 DEF CanSteer
  <2>2. Become(u, <<Steer(m)>>, events) /\ wake' \in BOOLEAN /\ owed' \in BOOLEAN
    BY <1>4, InvariantFacts DEF UserDoes, Remember
  <2>3. sent' = sent
    BY <1>4, InvariantFacts DEF UserDoes, Remember
  <2>4. t \in Task /\ t.steers \in Seq(Messages) /\ Append(t.steers, m) \in Seq(Messages)
    BY MailTypes, AppendProperties DEF TaskOK
  <2>5. u \in Task
    BY <1>4, <2>4 DEF Task
  <2>6. /\ TaskOK(u) /\ u.runtime /\ u.provider = t.provider /\ u.turns = t.turns
        /\ u.captures = t.captures /\ u.inFlight = t.inFlight
    BY <1>4, <2>1, <2>4, <2>5 DEF TaskOK, Task
  <2>7. Settled(u)
    BY <2>6, SettledLater DEF Active
  <2>8. InOnePlace'
    BY <1>4, <2>1, <2>2, <2>3, SteersPlaced
  <2>9. <<Steer(m)>> \in Seq(Calls) /\ events \in Seq(Events) /\ DesktopTypeOK
    BY SteerType, InvariantFacts
  <2>10. /\ task' = u /\ TaskOK(task') /\ StreamTypeOK'
         /\ ~ task'.runtime => calls' = <<>> /\ events' = <<>> /\ steering' = {}
    BY <2>2, <2>6, <2>9, BecomeTypes
  <2>11. DesktopTypeOK'
    BY <2>2, <2>3, <2>9, <2>10 DEF DesktopTypeOK, TaskOK
  <2> QED
    BY <2>7, <2>8, <2>10, <2>11 DEF DesktopIInv
<1> QED
  BY <1>2, <1>3, <1>4 DEF SteerWith

\* The composer is sent as a steer.
LEMMA SendSteerOK ==
  ASSUME DesktopIInv, SendSteer
  PROVE  DesktopIInv'
<1> DEFINE t == [task EXCEPT !.composer = NoMessage]
           m == task.composer
<1>1. m # NoMessage /\ SteerWith(t, m) /\ fresh' = fresh
  BY DEF SendSteer, CanSend
<1>2. /\ TaskOK(t) /\ Settled(t) /\ m \in Messages
      /\ t.runtime = task.runtime /\ Freed(t, m, fresh, sent, 0)
  BY <1>1, ComposerTaken
<1> HIDE DEF t, m
<1> QED
  BY <1>1, <1>2, SteerWithOK

\* What the user takes out of the queue.
LEMMA QueueFreed ==
  ASSUME DesktopIInv, NEW i \in DOMAIN task.queue
  PROVE  LET t == [task EXCEPT !.queue = RemoveAt(@, i)]
             m == task.queue[i]
         IN  /\ TaskOK(t) /\ Settled(t) /\ m \in Messages
             /\ t.runtime = task.runtime /\ t.steers = task.steers
             /\ Freed(t, m, fresh, sent, 0)
<1> DEFINE t == [task EXCEPT !.queue = RemoveAt(@, i)]
           m == task.queue[i]
<1>1. /\ m \in Messages /\ TaskOK(t) /\ Settled(t)
      /\ t.misread = task.misread /\ t.runtime = task.runtime /\ t.steers = task.steers
      /\ \A at \in [Messages -> Places] : Holds(task, at) =>
                  /\ at[m] = "queue" /\ Lacks(t, m)
                  /\ [at EXCEPT ![m] = "gone"] \in [Messages -> Places]
                  /\ Holds(t, [at EXCEPT ![m] = "gone"])
  BY InvariantFacts, QueueTaken
<1> HIDE DEF t, m
<1>2. ASSUME NEW at \in [Messages -> Places], Holds(task, at), Writes(fresh, sent, at),
             Asks(calls, steering, at), Answers(events, 0, at)
      PROVE  \E bt \in [Messages -> Places] :
               /\ Holds(t, bt) /\ Writes(fresh, sent, bt) /\ bt[m] = "gone"
               /\ Asks(calls, steering, bt) /\ Answers(events, 0, bt)
  <2> DEFINE bt == [at EXCEPT ![m] = "gone"]
  <2>1. bt \in [Messages -> Places] /\ Holds(t, bt) /\ at[m] = "queue"
    BY <1>1, <1>2
  <2>2. bt[m] = "gone" /\ Shuffles(at, bt, TaskPlaces)
    BY <1>1, <2>1 DEF Shuffles, TaskPlaces
  <2> HIDE DEF bt
  <2>6. Writes(fresh, sent, bt)
    BY <1>2, <2>2, WritesShuffled, InvariantFacts DEF TaskPlaces
  <2>7. Asks(calls, steering, bt)
    BY <1>2, <2>2, AsksShuffled, InvariantFacts DEF TaskPlaces
  <2>8. Answers(events, 0, bt)
    BY <1>2, <2>2, AnswersShuffled, InvariantFacts DEF TaskPlaces
  <2> QED
    BY <2>1, <2>2, <2>6, <2>7, <2>8
<1>3. Freed(t, m, fresh, sent, 0)
  BY <1>1, <1>2, InvariantFacts DEF Freed, Placed
<1> QED
  BY <1>1, <1>3 DEF t, m

\* A queued message is sent as a steer.
LEMMA SteerQueuedOK ==
  ASSUME DesktopIInv, NEW i \in DOMAIN task.queue, SteerQueued(i)
  PROVE  DesktopIInv'
<1> DEFINE t == [task EXCEPT !.queue = RemoveAt(@, i)]
           m == task.queue[i]
<1>1. SteerWith(t, m) /\ fresh' = fresh
  BY DEF SteerQueued
<1>2. /\ TaskOK(t) /\ Settled(t) /\ m \in Messages
      /\ t.runtime = task.runtime /\ Freed(t, m, fresh, sent, 0)
  BY QueueFreed
<1> HIDE DEF t, m
<1> QED
  BY <1>1, <1>2, SteerWithOK

\* A queued message is removed.
LEMMA RemoveQueuedOK ==
  ASSUME DesktopIInv, NEW i \in DOMAIN task.queue, RemoveQueued(i)
  PROVE  DesktopIInv'
<1> DEFINE t == [task EXCEPT !.queue = RemoveAt(@, i)]
           m == task.queue[i]
<1>1. UserDoes(t, <<>>) /\ fresh' = fresh
  BY DEF RemoveQueued
<1>2. /\ TaskOK(t) /\ Settled(t) /\ m \in Messages
      /\ t.runtime = task.runtime /\ Freed(t, m, fresh, sent, 0)
  BY QueueFreed
<1> HIDE DEF t, m
<1>3. Placed(t, fresh, sent, 0) /\ ~ Opens(t)
  BY <1>2, FreedPlaced DEF Opens
<1> QED
  BY <1>1, <1>2, <1>3, UserOK, MoreCalls, InvariantFacts

\* The composer takes a message that is nowhere else.
LEMMA ComposerReceives ==
  ASSUME NEW t, TaskOK(t), NEW m \in Messages
  PROVE  Receives(t, m, [t EXCEPT !.composer = m])
<1> DEFINE u == [t EXCEPT !.composer = m]
<1>1. u \in Task
  BY DEF TaskOK, Task
<1>2. /\ TaskOK(u) /\ u.turns = t.turns /\ u.captures = t.captures /\ u.inFlight = t.inFlight
      /\ u.provider = t.provider /\ u.misread = t.misread /\ u.runtime = t.runtime
      /\ u.steers = t.steers /\ u.composer = m /\ u.preparations = t.preparations
      /\ u.queue = t.queue
  BY <1>1 DEF TaskOK, Task
<1> HIDE DEF u
<1>3. Settled(t) => Settled(u)
  BY <1>2, SettledLater DEF Active
<1>4. ASSUME NEW at \in [Messages -> Places], Holds(t, at), at[m] = "gone"
      PROVE  \E bt \in [Messages -> Places] : Holds(u, bt) /\ Shuffles(at, bt, TaskPlaces)
  <2> DEFINE bt == [at EXCEPT ![m] = "composer"]
  <2>1. bt \in [Messages -> Places] /\ Holds(t, bt)
    BY <1>4, GoneIsLacked, HoldsAnywhere DEF TaskOK, Places
  <2>2. bt[m] = "composer" /\ Shuffles(at, bt, TaskPlaces)
    BY <1>4 DEF Shuffles, TaskPlaces
  <2> HIDE DEF bt
  <2>3. Holds(u, bt)
    BY <1>2, <2>1, <2>2 DEF Holds
  <2> QED BY <2>1, <2>2, <2>3
<1>5. Receives(t, m, u)
  BY <1>2, <1>3, <1>4 DEF Receives
<1> QED
  BY <1>5 DEF u

\* A queued message is taken back into the composer; what the composer held is lost.
LEMMA EditQueuedOK ==
  ASSUME DesktopIInv, NEW i \in DOMAIN task.queue, EditQueued(i)
  PROVE  DesktopIInv'
<1> DEFINE t == [task EXCEPT !.queue = RemoveAt(@, i)]
           m == task.queue[i]
           u == [t EXCEPT !.composer = m]
<1>1. UserDoes(u, <<>>) /\ fresh' = fresh
  BY DEF EditQueued
<1>2. /\ TaskOK(t) /\ Settled(t) /\ m \in Messages
      /\ t.runtime = task.runtime /\ Freed(t, m, fresh, sent, 0)
  BY QueueFreed
<1> HIDE DEF t, m
<1>3. Receives(t, m, u)
  BY <1>2, ComposerReceives
<1> HIDE DEF u
<1>4. Placed(u, fresh, sent, 0)
  BY <1>2, <1>3, ReceivesPlaced, InvariantFacts
<1>5. TaskOK(u) /\ Settled(u) /\ ~ Opens(u)
  BY <1>2, <1>3 DEF Receives, Opens
<1> QED
  BY <1>1, <1>4, <1>5, UserOK, MoreCalls, InvariantFacts

\* An action of the user that leaves the messages where they are.
LEMMA UserFollows ==
  ASSUME DesktopIInv, NEW t, Follows(task, t), NEW more, NoSteers(more), UserDoes(t, more), fresh' = fresh
  PROVE  DesktopIInv'
BY FollowsStays, UserOK, InvariantFacts

\* The user answers a permission.
LEMMA RespondPermissionOK ==
  ASSUME DesktopIInv, RespondPermission
  PROVE  DesktopIInv'
<1>1. Quiet(task, [task EXCEPT !.status = "Working"])
  BY StatusOK, InvariantFacts
<1>2. UserDoes([task EXCEPT !.status = "Working"], <<>>) /\ fresh' = fresh
  BY DEF RespondPermission
<1> QED
  BY <1>1, <1>2, UserFollows, QuietFollows, MoreCalls

\* The user forks a response.
LEMMA ForkResponseOK ==
  ASSUME DesktopIInv, ForkResponse
  PROVE  DesktopIInv'
<1> DEFINE u == [task EXCEPT !.fork = TRUE, !.forkDriver = ForkStarts(task) /\ ~ task.runtime]
<1>1. UserDoes(u, <<>>) /\ fresh' = fresh
  BY DEF ForkResponse
<1>2. TaskOK(task) /\ task \in Task /\ task.runtime \in BOOLEAN
  BY InvariantFacts DEF TaskOK, Task
<1>3. u \in Task
  BY <1>2 DEF Task, ForkStarts
<1>4. /\ Carries(task, u) /\ u.turns = task.turns /\ u.captures = task.captures
      /\ u.inFlight = task.inFlight /\ (u.preparing => u.preparations # <<>>) /\ (u.forkDriver => u.fork)
  BY <1>2, <1>3 DEF TaskOK, Task, Carries
<1> HIDE DEF u
<1>5. Quiet(task, u)
  BY <1>2, <1>3, <1>4, SameTurns
<1> QED
  BY <1>1, <1>5, UserFollows, QuietFollows, MoreCalls

\* A goal begins a turn only of a task that may have one running with captures.
LEMMA PursueGoalOK ==
  ASSUME NEW t, TaskOK(t), SetsGoals(t), NEW active
  PROVE  Quiet(t, PursueGoal(t, active))
<1> DEFINE b == BeginTurn(t, <<>>)
           u == [b EXCEPT !.status = "Connecting"]
<1>1. <<>> \in Seq(Messages)
  BY EmptySeq
<1>2. TaskOK(b) /\ Carries(t, b)
  BY <1>1, BeginTurnOK
<1> HIDE DEF b
<1>3. Quiet(b, u)
  BY <1>2, StatusOK
<1> HIDE DEF u
<1>4. TaskOK(u) /\ Carries(t, u)
  BY <1>2, <1>3 DEF Quiet, Carries
<1>5. Settled(u)
  BY <1>4 DEF Settled, SetsGoals, Carries
<1>6. Quiet(t, u)
  BY <1>4, <1>5 DEF Quiet
<1>7. PursueGoal(t, active) \in {u, t}
  BY DEF PursueGoal, u, b
<1> QED
  BY <1>6, <1>7, QuietItself

\* A goal starts a runtime.
LEMMA StartGoalOK ==
  ASSUME NEW t, TaskOK(t)
  PROVE  Quiet(t, StartGoal(t))
<1> DEFINE u == StartGoal(t)
<1>1. t \in Task /\ t.preparing \in BOOLEAN /\ t.goalStart \in BOOLEAN
  BY DEF TaskOK, Task
<1>2. u \in Task
  BY <1>1 DEF Task, StartGoal
<1>3. /\ Carries(t, u) /\ u.turns = t.turns /\ u.captures = t.captures
      /\ u.inFlight = t.inFlight /\ (u.preparing => u.preparations # <<>>) /\ (u.forkDriver => u.fork)
  BY <1>1 DEF TaskOK, Task, Carries, StartGoal
<1> HIDE DEF u
<1> QED
  BY <1>2, <1>3, SameTurns DEF u

\* The user sets, pauses or clears a goal.
LEMMA SetGoalOK ==
  ASSUME DesktopIInv, NEW active, SetGoal(active)
  PROVE  DesktopIInv'
<1> DEFINE p == PursueGoal(task, active)
<1>1. Quiet(task, p) /\ TaskOK(p)
  BY PursueGoalOK, InvariantFacts DEF SetGoal, Quiet
<1>2. /\ fresh' = fresh
      /\ UserDoes(p, <<Goal>>) \/ UserDoes(StartGoal(p), <<>>)
  BY DEF SetGoal
<1> HIDE DEF p
<1>3. Quiet(task, StartGoal(p))
  BY <1>1, StartGoalOK, QuietTwice
<1>4. CASE UserDoes(p, <<Goal>>)
  <2>1. NoSteers(<<Goal>>)
    BY DEF NoSteers, Calls, Goal
  <2> QED BY <1>1, <1>2, <1>4, <2>1, UserFollows, QuietFollows
<1>5. CASE UserDoes(StartGoal(p), <<>>)
  <2>1. NoSteers(<<>>)
    BY DEF NoSteers
  <2> QED BY <1>2, <1>3, <1>5, <2>1, UserFollows, QuietFollows
<1> QED
  BY <1>2, <1>4, <1>5

-----------------------------------------------------------------------------
(* Stop, and reports of background tasks *)

\* A change of the entry for goals is quiet.
LEMMA GoalsFlagOK ==
  ASSUME NEW t, TaskOK(t), NEW goals \in BOOLEAN
  PROVE  Quiet(t, [t EXCEPT !.goals = goals])
<1> DEFINE u == [t EXCEPT !.goals = goals]
<1>1. t \in Task
  BY DEF TaskOK
<1>2. u \in Task
  BY <1>1 DEF Task
<1>3. /\ Carries(t, u) /\ u.turns = t.turns /\ u.captures = t.captures
      /\ u.inFlight = t.inFlight /\ (u.preparing => u.preparations # <<>>) /\ (u.forkDriver => u.fork)
  BY <1>1 DEF TaskOK, Task, Carries
<1> HIDE DEF u
<1>4. Quiet(t, u)
  BY <1>2, <1>3, SameTurns
<1> QED
  BY <1>4 DEF u

\* The running turn is ended, and what it changed is captured at once.
LEMMA EndTurnOK ==
  ASSUME NEW t, TaskOK(t), NEW outcome \in {"Failed", "Interrupted"}, NEW status \in {"Idle", "Failed"}
  PROVE  Quiet(t, StartCaptures(CaptureLatest([Finish(t, outcome) EXCEPT !.status = status])))
<1> DEFINE f == Finish(t, outcome)
           s == [f EXCEPT !.status = status]
           c == CaptureLatest(s)
<1>1. Quiet(t, f) /\ TaskOK(f)
  BY FinishOK DEF Quiet
<1> HIDE DEF f
<1>2. Quiet(f, s) /\ TaskOK(s)
  BY <1>1, StatusOK DEF Quiet
<1> HIDE DEF s
<1>3. Quiet(s, c) /\ TaskOK(c)
  BY <1>2, CaptureLatestOK DEF Quiet
<1> HIDE DEF c
<1>4. Quiet(c, StartCaptures(c))
  BY <1>3, StartCapturesOK
<1>5. Quiet(t, StartCaptures(c))
  BY <1>1, <1>2, <1>3, <1>4, QuietTwice
<1> QED
  BY <1>5 DEF f, s, c

\* Stop: what is there is handled, and the turn ended.
LEMMA StopOK ==
  ASSUME DesktopIInv, Stop
  PROVE  DesktopIInv'
<1> DEFINE t == [task EXCEPT !.goals = FALSE]
           flushed == HandleEvents(t, FALSE)
           ended == StartCaptures(CaptureLatest([Finish(flushed, "Interrupted") EXCEPT !.status = "Idle"]))
           settled == IF Active(flushed) THEN ended ELSE flushed
           rest == [settled EXCEPT !.drain = FALSE]
           u == IF KeepsRuntime(rest) THEN rest ELSE DropRuntime(rest)
<1>1. Become(u, <<Cancel>>, <<>>) /\ Remember(TRUE, <<>>) /\ wake' = wake /\ fresh' = fresh
  BY DEF Stop
<1>2. Quiet(task, t) /\ TaskOK(t) /\ t.runtime = task.runtime
  BY GoalsFlagOK, InvariantFacts DEF Quiet, Carries
<1> HIDE DEF t
<1>3. Settled(t) /\ Placed(t, fresh, sent, 0)
  BY <1>2, QuietFollows, FollowsPlaced, InvariantFacts DEF Quiet
<1>4. Handles(events, t, flushed, 0, Len(events))
  BY <1>2, HandleEventsOK, InvariantFacts
<1> HIDE DEF flushed
<1>5. TaskOK(flushed) /\ Settled(flushed) /\ (flushed.runtime => task.runtime)
  BY <1>2, <1>3, <1>4 DEF Handles
<1>6. Placed(flushed, fresh, sent, Len(events))
  BY <1>3, <1>4, HandlesPlaced, InvariantFacts
<1>7. Quiet(flushed, ended) /\ Quiet(flushed, flushed)
  BY <1>5, EndTurnOK, QuietItself
<1> HIDE DEF ended
<1>8. Quiet(flushed, settled) /\ TaskOK(settled)
  BY <1>5, <1>7 DEF Quiet
<1> HIDE DEF settled
<1>9. Quiet(settled, rest)
  BY <1>8, DrainFlagOK
<1> HIDE DEF rest
<1>10. Quiet(flushed, rest) /\ TaskOK(rest)
  BY <1>8, <1>9, QuietTwice DEF Quiet
<1>11. Ends(rest, DropRuntime(rest))
  BY <1>10, DropRuntimeOK
<1>12. Ends(flushed, u)
  BY <1>10, <1>11, QuietEnds, QuietThenEnds
<1> HIDE DEF u
<1>13. TaskOK(u) /\ Settled(u) /\ ~ Opens(u)
  BY <1>5, <1>12 DEF Ends, Opens
<1>14. Placed(u, fresh', sent \o <<>>, Len(events))
  BY <1>1, <1>6, <1>12, EndsPlaced, InvariantFacts
<1>15. /\ NoSteers(<<Cancel>>) /\ <<>> \in Prompts /\ fresh' \subseteq Messages /\ wake' \in BOOLEAN
       /\ DesktopTypeOK
  BY <1>1, MoreCalls, InvariantFacts
<1> QED
  BY <1>1, <1>13, <1>14, <1>15, ActionOK

-----------------------------------------------------------------------------
(* Reports *)

\* The messages stay where they are; the steers may be forgotten, and are when
\* a runtime opens.
Renews(t, u) ==
  /\ TaskOK(u) /\ (Settled(t) => Settled(u))
  /\ u.provider = t.provider /\ u.misread = t.misread
  /\ u.composer = t.composer /\ u.queue = t.queue /\ u.preparations = t.preparations
  /\ u.steers \in {t.steers, <<>>}
  /\ u.runtime /\ ~ t.runtime => u.steers = <<>>

\* An end renews.
LEMMA EndsRenews ==
  ASSUME NEW t, NEW u, Ends(t, u)
  PROVE  Renews(t, u)
BY DEF Ends, Renews

\* The messages stay where they are when a runtime opens or ends.
LEMMA RenewsPlaced ==
  ASSUME NEW typed, NEW prompts, NEW n, NEW t, NEW u, Renews(t, u), Placed(t, typed, prompts, n)
  PROVE  Placed(u, typed, prompts, n)
<1>1. \A at : Holds(t, at) => Holds(u, at)
  BY HoldsSame DEF Renews
<1> QED
  BY <1>1 DEF Placed, Renews

\* A runtime opens, and awaits nothing.
LEMMA InstallOK ==
  ASSUME NEW t, TaskOK(t)
  PROVE  Renews(t, Install(t)) /\ Install(t).runtime /\ Install(t).steers = <<>>
         /\ Install(t).turns = t.turns
<1> DEFINE u == Install(t)
<1>1. t \in Task
  BY DEF TaskOK
<1>2. u \in Task
  BY <1>1, EmptySeq DEF Task, Install
<1>3. /\ TaskOK(u) /\ u.turns = t.turns /\ u.captures = t.captures /\ u.inFlight = t.inFlight
      /\ u.provider = t.provider /\ u.misread = t.misread /\ u.runtime /\ u.steers = <<>>
      /\ u.composer = t.composer /\ u.queue = t.queue /\ u.preparations = t.preparations
  BY <1>1, <1>2 DEF TaskOK, Task, Install
<1> HIDE DEF u
<1>4. Settled(t) => Settled(u)
  BY <1>3, SettledLater DEF Active
<1>5. Renews(t, u)
  BY <1>3, <1>4 DEF Renews
<1> QED
  BY <1>3, <1>5 DEF u

\* The steers are forgotten.
LEMMA ForgetSteersOK ==
  ASSUME NEW t, TaskOK(t)
  PROVE  LET u == [t EXCEPT !.steers = <<>>]
         IN  Renews(t, u) /\ u.runtime = t.runtime /\ u.steers = <<>>
<1> DEFINE u == [t EXCEPT !.steers = <<>>]
<1>1. t \in Task
  BY DEF TaskOK
<1>2. u \in Task
  BY <1>1, EmptySeq DEF Task
<1>3. /\ TaskOK(u) /\ u.turns = t.turns /\ u.captures = t.captures /\ u.inFlight = t.inFlight
      /\ u.provider = t.provider /\ u.misread = t.misread /\ u.runtime = t.runtime /\ u.steers = <<>>
      /\ u.composer = t.composer /\ u.queue = t.queue /\ u.preparations = t.preparations
  BY <1>1, <1>2 DEF TaskOK, Task
<1> HIDE DEF u
<1>4. Settled(t) => Settled(u)
  BY <1>3, SettledLater DEF Active
<1>5. Renews(t, u)
  BY <1>3, <1>4 DEF Renews
<1> QED
  BY <1>3, <1>5 DEF u

\* A report after which the task goes on with its messages, after it may have
\* lost or got a runtime.
LEMMA ReportRenews ==
  ASSUME DesktopIInv, NEW t, Renews(task, t), NEW u, Follows(t, u),
         NEW more, NoSteers(more), Reports(u, more, <<>>)
  PROVE  DesktopIInv'
<1>1. Placed(t, fresh, sent, 0)
  BY InvariantFacts, RenewsPlaced
<1>2. Placed(u, fresh, sent \o <<>>, 0)
  BY <1>1, InvariantFacts, FollowsPlaced
<1>3. TaskOK(u) /\ Settled(u) /\ (Opens(u) => u.steers = <<>>)
  BY InvariantFacts DEF Renews, Follows, Opens
<1> QED
  BY <1>2, <1>3, ReportOK, InvariantFacts

\* A quiet change renews.
LEMMA QuietRenews ==
  ASSUME NEW t, NEW u, Quiet(t, u)
  PROVE  Renews(t, u)
BY QuietEnds, EndsRenews

\* A quiet change, then another runtime.
LEMMA QuietThenRenews ==
  ASSUME NEW t, NEW u, NEW v, Quiet(t, u), Renews(u, v)
  PROVE  Renews(t, v)
BY DEF Quiet, Carries, Renews

\* A task follows itself.
LEMMA FollowsItself ==
  ASSUME NEW t, TaskOK(t)
  PROVE  Follows(t, t)
BY QuietItself, QuietFollows

\* A checkpoint has landed.
LEMMA FinishCaptureOK ==
  ASSUME DesktopIInv, NEW n, FinishCapture(n)
  PROVE  DesktopIInv'
<1> DEFINE u == [task EXCEPT !.inFlight = @ \ {n}]
<1>1. Reports(TakeDrain(u), <<>>, <<>>)
  BY DEF FinishCapture
<1>2. task \in Task /\ TaskOK(task)
  BY InvariantFacts DEF TaskOK
<1>3. u \in Task
  BY <1>2 DEF Task
<1>4. /\ TaskOK(u) /\ Carries(task, u) /\ u.turns = task.turns /\ u.captures = task.captures
      /\ u.inFlight = task.inFlight \ {n}
  BY <1>2, <1>3 DEF TaskOK, Task, Carries
<1> HIDE DEF u
<1>5. Settled(task) => Settled(u)
  BY <1>4 DEF Settled, SetsGoals, Carries, Active
<1>6. Quiet(task, u)
  BY <1>4, <1>5 DEF Quiet
<1>7. Renews(task, u) /\ Follows(u, TakeDrain(u)) /\ NoSteers(<<>>)
  BY <1>4, <1>6, QuietRenews, TakeDrainOK, MoreCalls
<1> QED
  BY <1>1, <1>7, ReportRenews

\* The goals that waited are no steers.
LEMMA WaitingGoalsOK ==
  ASSUME NEW t
  PROVE  NoSteers(WaitingGoals(t))
BY MoreCalls DEF WaitingGoals

\* The runtime a goal wanted is there, or failed.
LEMMA FinishGoalStartOK ==
  ASSUME DesktopIInv, FinishGoalStart
  PROVE  DesktopIInv'
<1> DEFINE t == [task EXCEPT !.goalStart = FALSE]
           g == [t EXCEPT !.goals = FALSE]
           failed == UnwindPursuit(g)
           opened == IF t.runtime THEN g ELSE Install(t)
<1>1. \/ Reports(Drain(failed), <<>>, <<>>)
      \/ Reports(Drain(opened), WaitingGoals(t), <<>>)
  BY DEF FinishGoalStart
<1>2. task \in Task /\ TaskOK(task)
  BY InvariantFacts DEF TaskOK
<1>3. t \in Task
  BY <1>2 DEF Task
<1>4. /\ Carries(task, t) /\ t.turns = task.turns /\ t.captures = task.captures
      /\ t.inFlight = task.inFlight /\ (t.preparing => t.preparations # <<>>) /\ (t.forkDriver => t.fork)
  BY <1>2, <1>3 DEF TaskOK, Task, Carries
<1> HIDE DEF t
<1>5. Quiet(task, t) /\ TaskOK(t)
  BY <1>2, <1>3, <1>4, SameTurns DEF Quiet
<1>6. Quiet(t, g) /\ TaskOK(g)
  BY <1>5, GoalsFlagOK DEF Quiet
<1> HIDE DEF g
<1>7. Quiet(g, failed) /\ TaskOK(failed)
  BY <1>6, UnwindPursuitOK DEF Quiet
<1> HIDE DEF failed
<1>8. Renews(task, failed) /\ Follows(failed, Drain(failed))
  BY <1>5, <1>6, <1>7, QuietTwice, QuietRenews, DrainOK
<1>9. Renews(t, g) /\ Renews(t, Install(t))
  BY <1>5, <1>6, QuietRenews, InstallOK
<1>10. Renews(task, opened) /\ TaskOK(opened)
  BY <1>5, <1>9, QuietThenRenews DEF Renews
<1> HIDE DEF opened
<1>11. Follows(opened, Drain(opened)) /\ NoSteers(WaitingGoals(t)) /\ NoSteers(<<>>)
  BY <1>10, DrainOK, WaitingGoalsOK, MoreCalls
<1>12. CASE Reports(Drain(failed), <<>>, <<>>)
  BY <1>8, <1>11, <1>12, ReportRenews
<1>13. CASE Reports(Drain(opened), WaitingGoals(t), <<>>)
  BY <1>10, <1>11, <1>13, ReportRenews
<1> QED
  BY <1>1, <1>12, <1>13

\* A fork is there, or failed.
LEMMA FinishForkOK ==
  ASSUME DesktopIInv, FinishFork
  PROVE  DesktopIInv'
<1> DEFINE t == [task EXCEPT !.fork = FALSE, !.forkDriver = FALSE]
           failed == IF FailedForkCloses(t) THEN DropRuntime(t) ELSE t
           u == IF task.forkDriver /\ ~ t.runtime THEN Install(t) ELSE t
           more == IF Opens(u) THEN WaitingGoals(t) ELSE <<>>
<1>1. \/ Reports(Drain(failed), <<>>, <<>>)
      \/ Reports(Drain(u), more, <<>>)
  BY DEF FinishFork
<1>2. task \in Task /\ TaskOK(task)
  BY InvariantFacts DEF TaskOK
<1>3. t \in Task
  BY <1>2 DEF Task
<1>4. /\ Carries(task, t) /\ t.turns = task.turns /\ t.captures = task.captures
      /\ t.inFlight = task.inFlight /\ (t.preparing => t.preparations # <<>>) /\ (t.forkDriver => t.fork)
  BY <1>2, <1>3 DEF TaskOK, Task, Carries
<1> HIDE DEF t
<1>5. Quiet(task, t) /\ TaskOK(t) /\ Renews(t, t)
  BY <1>2, <1>3, <1>4, SameTurns, QuietItself, QuietRenews DEF Quiet
<1>6. Renews(t, DropRuntime(t)) /\ Renews(t, Install(t))
  BY <1>5, DropRuntimeOK, EndsRenews, InstallOK
<1>7. Renews(task, failed) /\ TaskOK(failed)
  BY <1>5, <1>6, QuietThenRenews DEF Renews
<1>8. Renews(task, u) /\ TaskOK(u)
  BY <1>5, <1>6, QuietThenRenews DEF Renews
<1> HIDE DEF failed, u
<1>9. NoSteers(more) /\ NoSteers(<<>>)
  BY WaitingGoalsOK, MoreCalls
<1> HIDE DEF more
<1>10. Follows(failed, Drain(failed)) /\ Follows(u, Drain(u))
  BY <1>7, <1>8, DrainOK
<1>11. CASE Reports(Drain(failed), <<>>, <<>>)
  BY <1>7, <1>9, <1>10, <1>11, ReportRenews
<1>12. CASE Reports(Drain(u), more, <<>>)
  BY <1>8, <1>9, <1>10, <1>12, ReportRenews
<1> QED
  BY <1>1, <1>11, <1>12

\* The watchdog takes back the turn of a goal.
LEMMA GoalWatchdogOK ==
  ASSUME DesktopIInv, GoalWatchdog
  PROVE  DesktopIInv'
<1>1. Quiet(task, UnwindPursuit(task)) /\ TaskOK(UnwindPursuit(task))
  BY UnwindPursuitOK, InvariantFacts DEF Quiet
<1>2. Reports(UnwindPursuit(task), <<>>, <<>>) /\ NoSteers(<<>>)
  BY MoreCalls DEF GoalWatchdog
<1> QED
  BY <1>1, <1>2, QuietRenews, FollowsItself, ReportRenews

\* A runtime is closed because of its options or its idleness.
LEMMA RuntimeDropped ==
  ASSUME DesktopIInv, OptionsRefused \/ ReapIdle
  PROVE  DesktopIInv'
<1>1. Ends(task, DropRuntime(task)) /\ TaskOK(DropRuntime(task))
  BY DropRuntimeOK, InvariantFacts DEF Ends
<1>2. Reports(DropRuntime(task), <<>>, <<>>) /\ NoSteers(<<>>)
  BY MoreCalls DEF OptionsRefused, ReapIdle
<1> QED
  BY <1>1, <1>2, EndsRenews, FollowsItself, ReportRenews

-----------------------------------------------------------------------------
(* Preparations and the event pump *)

\* The message of a preparation that ends is nowhere for a moment.
LEMMA PreparationFreed ==
  ASSUME DesktopIInv, NEW i \in DOMAIN task.preparations
  PROVE  LET t == [task EXCEPT !.preparations = RemoveAt(@, i), !.preparing = FALSE]
             m == task.preparations[i].message
         IN  /\ TaskOK(t) /\ Settled(t) /\ m \in Messages
             /\ t.runtime = task.runtime /\ t.steers = task.steers
             /\ Freed(t, m, fresh, sent, 0)
<1> DEFINE t == [task EXCEPT !.preparations = RemoveAt(@, i), !.preparing = FALSE]
           m == task.preparations[i].message
           r == RemoveAt(task.preparations, i)
<1>1. task \in Task /\ task.preparations \in Seq(Preparation) /\ m \in Messages /\ TaskOK(task)
  BY InvariantFacts, MailTypes DEF TaskOK
<1>2. r \in Seq(Preparation) /\ Omits(task.preparations, i, r)
  BY <1>1, RemoveAtOmits
<1> HIDE DEF r
<1>3. t = [task EXCEPT !.preparations = r, !.preparing = FALSE]
  BY DEF r
<1>4. t \in Task
  BY <1>1, <1>2, <1>3 DEF Task
<1>5. /\ TaskOK(t) /\ t.turns = task.turns /\ t.captures = task.captures /\ t.inFlight = task.inFlight
      /\ t.provider = task.provider /\ t.misread = task.misread /\ t.runtime = task.runtime
      /\ t.steers = task.steers /\ t.composer = task.composer /\ t.queue = task.queue
      /\ t.preparations = r
  BY <1>1, <1>3, <1>4 DEF TaskOK, Task
<1> HIDE DEF t, m
<1>6. Settled(t)
  BY <1>5, InvariantFacts, SettledLater DEF Active
<1>7. ASSUME NEW at \in [Messages -> Places], Holds(task, at), Writes(fresh, sent, at),
             Asks(calls, steering, at), Answers(events, 0, at)
      PROVE  \E bt \in [Messages -> Places] :
               /\ Holds(t, bt) /\ Writes(fresh, sent, bt) /\ bt[m] = "gone"
               /\ Asks(calls, steering, bt) /\ Answers(events, 0, bt)
  <2> DEFINE bt == [at EXCEPT ![m] = "gone"]
  <2>1. at[m] = "preparing"
    BY <1>7 DEF Holds, m
  <2>2. \A j \in DOMAIN t.preparations : t.preparations[j].message # m
    BY <1>2, <1>5, <1>7 DEF Holds, Omits, m
  <2>3. t.composer # m
    BY <1>1, <1>5, <1>7, <2>1, NoMessageAssumption DEF Holds
  <2>4. \A j \in DOMAIN t.queue : t.queue[j] # m
    BY <1>5, <1>7, <2>1 DEF Holds
  <2>5. \A j \in DOMAIN t.steers : t.steers[j] # m
    BY <1>5, <1>7, <2>1 DEF Holds
  <2>6. Lacks(t, m)
    BY <2>2, <2>3, <2>4, <2>5 DEF Lacks
  <2>7. \A j \in DOMAIN t.preparations : at[t.preparations[j].message] = "preparing"
    BY <1>2, <1>5, <1>7 DEF Holds, Omits
  <2>8. \A j, k \in DOMAIN t.preparations :
          t.preparations[j].message = t.preparations[k].message => j = k
    BY <1>2, <1>5, <1>7 DEF Holds, Omits
  <2>9. Holds(t, at)
    BY <1>5, <1>7, <2>7, <2>8 DEF Holds
  <2>10. bt \in [Messages -> Places] /\ Holds(t, bt)
    BY <1>1, <1>4, <2>6, <2>9, HoldsAnywhere DEF Places
  <2>11. bt[m] = "gone" /\ Shuffles(at, bt, TaskPlaces)
    BY <1>1, <2>1 DEF Shuffles, TaskPlaces
  <2> HIDE DEF bt
  <2>12. Writes(fresh, sent, bt)
    BY <1>7, <2>11, WritesShuffled, InvariantFacts DEF TaskPlaces
  <2>13. Asks(calls, steering, bt)
    BY <1>7, <2>11, AsksShuffled, InvariantFacts DEF TaskPlaces
  <2>14. Answers(events, 0, bt)
    BY <1>7, <2>11, AnswersShuffled, InvariantFacts DEF TaskPlaces
  <2> QED
    BY <2>10, <2>11, <2>12, <2>13, <2>14
<1>8. Freed(t, m, fresh, sent, 0)
  BY <1>5, <1>7, InvariantFacts DEF Freed, Placed
<1> QED
  BY <1>1, <1>5, <1>6, <1>8 DEF t, m

\* The driver gets a message that is nowhere else, as a prompt.
LEMMA PromptPlaced ==
  ASSUME calls \in Seq(Calls), events \in Seq(Events), NEW typed \in SUBSET Messages,
         NEW prompts \in Prompts, NEW m \in Messages, NEW n \in Nat,
         NEW t, TaskOK(t), Freed(t, m, typed, prompts, 0)
  PROVE  Placed(t, typed, prompts \o <<[turn |-> n, message |-> m]>>, 0)
<1> DEFINE p == [turn |-> n, message |-> m]
           s == prompts \o <<p>>
<1>1. CASE t.misread
  BY <1>1 DEF Placed
<1>2. CASE ~ t.misread
  <2>1. PICK at \in [Messages -> Places] :
          /\ Holds(t, at) /\ Writes(typed, prompts, at) /\ at[m] = "gone"
          /\ Asks(calls, steering, at) /\ Answers(events, 0, at)
    BY <1>2 DEF Freed
  <2> DEFINE bt == [at EXCEPT ![m] = "sent"]
  <2>2. bt \in [Messages -> Places] /\ Holds(t, bt)
    BY <2>1, GoneIsLacked, HoldsAnywhere DEF TaskOK, Places
  <2>3. /\ bt[m] = "sent" /\ (\A k \in Messages : k # m => bt[k] = at[k])
        /\ Shuffles(at, bt, {"gone", "sent"})
    BY <2>1 DEF Shuffles
  <2> HIDE DEF bt
  <2>4. Asks(calls, steering, bt)
    BY <2>1, <2>3, AsksShuffled
  <2>5. Answers(events, 0, bt)
    BY <2>1, <2>3, AnswersShuffled
  <2>6. p.message = m /\ p \in [turn : Nat, message : Messages]
    OBVIOUS
  <2> HIDE DEF p
  <2>7. \A i \in DOMAIN s : \/ i \in DOMAIN prompts /\ s[i] = prompts[i]
                            \/ i = Len(prompts) + 1 /\ s[i] = p
    <3>1. /\ <<p>> \in Seq([turn : Nat, message : Messages]) /\ Len(<<p>>) = 1 /\ <<p>>[1] = p
          /\ prompts \in Seq([turn : Nat, message : Messages])
      BY <2>6 DEF Prompts
    <3>2. /\ s \in Seq([turn : Nat, message : Messages]) /\ Len(s) = Len(prompts) + 1
          /\ \A i \in 1..(Len(prompts) + 1) :
               s[i] = IF i <= Len(prompts) THEN prompts[i] ELSE <<p>>[i - Len(prompts)]
      BY <3>1, ConcatProperties
    <3>3. DOMAIN prompts = 1..Len(prompts) /\ Len(prompts) \in Nat /\ DOMAIN s = 1..(Len(prompts) + 1)
      BY <3>1, <3>2, LenProperties
    <3> HIDE DEF s
    <3> QED BY <3>1, <3>2, <3>3
  <2> HIDE DEF s
  <2>8. \A i \in DOMAIN prompts : prompts[i].message \in Messages /\ prompts[i].message # m
    BY <2>1, PromptTypes DEF Writes
  <2>9. \A k \in typed : bt[k] = "fresh"
    BY <2>1, <2>3 DEF Writes
  <2>10. \A i \in DOMAIN s : bt[s[i].message] = "sent"
    BY <2>1, <2>3, <2>6, <2>7, <2>8 DEF Writes
  <2>11. \A i, j \in DOMAIN s : s[i].message = s[j].message => i = j
    BY <2>1, <2>6, <2>7, <2>8 DEF Writes
  <2>12. Writes(typed, s, bt)
    BY <2>9, <2>10, <2>11 DEF Writes
  <2>13. Placed(t, typed, s, 0)
    BY <2>2, <2>4, <2>5, <2>12 DEF Placed
  <2> QED
    BY <2>13 DEF s, p
<1> QED
  BY <1>1, <1>2

\* A message stays free when a runtime opens or ends.
LEMMA RenewsFreed ==
  ASSUME NEW typed, NEW prompts, NEW n, NEW t, NEW u, Renews(t, u), NEW m, Freed(t, m, typed, prompts, n)
  PROVE  Freed(u, m, typed, prompts, n)
<1>1. \A at : Holds(t, at) => Holds(u, at)
  BY HoldsSame DEF Renews
<1> QED
  BY <1>1 DEF Freed, Renews

\* A preparation has failed: its message goes back to the composer, or is lost.
LEMMA PreparationFailedOK ==
  ASSUME NEW t, TaskOK(t), Settled(t), NEW m \in Messages, NEW selected \in BOOLEAN,
         Freed(t, m, fresh, sent, 0), DesktopIInv
  PROVE  LET u == PreparationFailed(t, m, selected)
         IN  TaskOK(u) /\ Settled(u) /\ u.runtime = t.runtime /\ Placed(u, fresh, sent, 0)
<1> DEFINE w == Unwind(t)
           x == [w EXCEPT !.status = "Idle"]
           v == IF t.status = "Connecting" THEN x ELSE t
           c == [v EXCEPT !.composer = m]
<1>1. Quiet(t, w) /\ TaskOK(w)
  BY UnwindOK DEF Quiet
<1> HIDE DEF w
<1>2. Quiet(w, x)
  BY <1>1, StatusOK
<1> HIDE DEF x
<1>3. Quiet(t, v) /\ TaskOK(v) /\ Settled(v) /\ v.runtime = t.runtime
  BY <1>1, <1>2, QuietTwice, QuietItself DEF Quiet, Carries
<1> HIDE DEF v
<1>4. Freed(v, m, fresh, sent, 0)
  BY <1>3, QuietRenews, RenewsFreed
<1>5. Placed(v, fresh, sent, 0)
  BY <1>4, FreedPlaced
<1>6. Receives(v, m, c)
  BY <1>3, ComposerReceives
<1> HIDE DEF c
<1>7. Placed(c, fresh, sent, 0)
  BY <1>4, <1>6, ReceivesPlaced, InvariantFacts
<1>8. TaskOK(c) /\ Settled(c) /\ c.runtime = t.runtime
  BY <1>3, <1>6 DEF Receives
<1>9. PreparationFailed(t, m, selected) = IF selected THEN c ELSE v
  BY DEF PreparationFailed, c, v, x, w
<1> QED
  BY <1>3, <1>5, <1>7, <1>8, <1>9

\* A preparation is ready: its message is handed over, or lost.
LEMMA PreparationReadyOK ==
  ASSUME NEW t, TaskOK(t), Settled(t), NEW p \in Preparation, NEW hasDriver,
         t.runtime = task.runtime, ~ p.starts => hasDriver = task.runtime,
         Freed(t, p.message, fresh, sent, 0), DesktopIInv,
         PreparationReady(t, p, hasDriver)
  PROVE  DesktopIInv'
<1> DEFINE m == p.message
           s == [t EXCEPT !.steers = IF t.runtime THEN <<>> ELSE @]
           x == [t EXCEPT !.steers = <<>>]
           d == NoDriver(s)
           u == IF p.starts THEN Install(t) ELSE x
           more == (IF p.starts THEN WaitingGoals(t) ELSE <<>>) \o <<Prompt(m)>>
           prompt == <<[turn |-> Len(t.turns), message |-> m]>>
<1>1. m \in Messages /\ Len(t.turns) \in Nat
  BY TurnsOK DEF Preparation, TaskOK
<1>2. Placed(t, fresh, sent, 0) /\ ~ Opens(t)
  BY FreedPlaced DEF Opens
<1>3. CASE Reports(t, <<>>, <<>>)
  BY <1>2, <1>3, ReportOK, MoreCalls, InvariantFacts
<1>4. Renews(t, x) /\ x.runtime = t.runtime /\ x.steers = <<>>
  BY ForgetSteersOK
<1>5. CASE Reports(d, <<>>, <<>>)
  <2>1. s = x
    BY DEF TaskOK, Task
  <2>2. Renews(t, s) /\ TaskOK(s) /\ s.runtime = t.runtime
    BY <1>4, <2>1 DEF Renews
  <2> HIDE DEF s
  <2>3. Quiet(s, d)
    BY <2>2, EndTurnOK DEF NoDriver
  <2> HIDE DEF d
  <2>4. Placed(s, fresh, sent, 0)
    BY <1>2, <2>2, RenewsPlaced
  <2>5. Placed(d, fresh, sent, 0)
    BY <2>3, <2>4, QuietRenews, RenewsPlaced
  <2>6. TaskOK(d) /\ Settled(d) /\ ~ Opens(d)
    BY <2>2, <2>3 DEF Quiet, Carries, Renews, Opens
  <2>7. Placed(d, fresh, sent \o <<>>, 0)
    BY <2>5, InvariantFacts
  <2> QED
    BY <1>5, <2>6, <2>7, ReportOK, MoreCalls, InvariantFacts
<1>6. CASE Reports(u, more, prompt)
  <2>1. Renews(t, Install(t)) /\ Install(t).steers = <<>>
    BY InstallOK
  <2> HIDE DEF x
  <2>2. Renews(t, u) /\ u.steers = <<>>
    BY <1>4, <2>1
  <2> HIDE DEF u
  <2>3. TaskOK(u) /\ Settled(u)
    BY <2>2 DEF Renews
  <2>4. Freed(u, m, fresh, sent, 0)
    BY <2>2, RenewsFreed
  <2>5. Placed(u, fresh, sent \o prompt, 0)
    BY <1>1, <2>3, <2>4, PromptPlaced, InvariantFacts
  <2>6. prompt \in Prompts
    <3>1. [turn |-> Len(t.turns), message |-> m] \in [turn : Nat, message : Messages]
      BY <1>1
    <3> QED BY <3>1 DEF Prompts
  <2>7. NoSteers(more)
    BY <1>1, WaitingGoalsOK, MoreCalls, NoSteersTogether
  <2> HIDE DEF prompt, more
  <2> QED
    BY <1>6, <2>2, <2>3, <2>5, <2>6, <2>7, ReportOK
<1>7. \/ Reports(t, <<>>, <<>>) \/ Reports(d, <<>>, <<>>) \/ Reports(u, more, prompt)
  BY Zenon DEF PreparationReady
<1> QED
  BY <1>3, <1>5, <1>6, <1>7

\* A preparation has ended.
LEMMA FinishPreparationOK ==
  ASSUME DesktopIInv, NEW i \in DOMAIN task.preparations, FinishPreparation(i)
  PROVE  DesktopIInv'
<1> DEFINE t == [task EXCEPT !.preparations = RemoveAt(@, i), !.preparing = FALSE]
           p == task.preparations[i]
<1>1. \/ Reports(t, <<>>, <<>>)
      \/ \E selected \in BOOLEAN : Reports(PreparationFailed(t, p.message, selected), <<>>, <<>>)
      \/ \E hasDriver \in (IF p.starts THEN BOOLEAN ELSE {task.runtime}) :
           PreparationReady(t, p, hasDriver)
  BY DEF FinishPreparation
<1>2. /\ TaskOK(t) /\ Settled(t) /\ p.message \in Messages
      /\ t.runtime = task.runtime /\ Freed(t, p.message, fresh, sent, 0)
  BY PreparationFreed
<1>3. p \in Preparation
  BY InvariantFacts, MailTypes, LenProperties, ElementOfSeq DEF TaskOK
<1> HIDE DEF t, p
<1>4. CASE Reports(t, <<>>, <<>>)
  BY <1>2, <1>4, FreedPlaced, ReportOK, MoreCalls, InvariantFacts DEF Opens
<1>5. ASSUME NEW selected \in BOOLEAN, Reports(PreparationFailed(t, p.message, selected), <<>>, <<>>)
      PROVE  DesktopIInv'
  <2> DEFINE u == PreparationFailed(t, p.message, selected)
  <2>1. TaskOK(u) /\ Settled(u) /\ u.runtime = t.runtime /\ Placed(u, fresh, sent, 0)
    BY <1>2, PreparationFailedOK
  <2>2. Reports(u, <<>>, <<>>)
    BY <1>5
  <2> HIDE DEF u
  <2> QED
    BY <1>2, <2>1, <2>2, ReportOK, MoreCalls, InvariantFacts DEF Opens
<1>6. ASSUME NEW hasDriver \in (IF p.starts THEN BOOLEAN ELSE {task.runtime}),
             PreparationReady(t, p, hasDriver)
      PROVE  DesktopIInv'
  <2>1. ~ p.starts => hasDriver = task.runtime
    BY <1>6
  <2> QED
    BY <1>2, <1>3, <1>6, <2>1, PreparationReadyOK
<1> QED
  BY <1>1, <1>4, <1>5, <1>6

\* The event pump.
LEMMA EventPumpOK ==
  ASSUME DesktopIInv, EventPump
  PROVE  DesktopIInv'
<1> DEFINE h == HandleEvents(task, TRUE)
           e == EndOfPass(h)
           u == StartCaptures(e)
<1>1. Become(u, <<>>, <<>>) /\ Remember(FALSE, <<>>) /\ wake' = FALSE /\ fresh' = fresh
  BY DEF EventPump
<1>2. Handles(events, task, h, 0, Len(events))
  BY HandleEventsOK, InvariantFacts
<1> HIDE DEF h
<1>3. Placed(h, fresh, sent, Len(events))
  BY <1>2, HandlesPlaced, InvariantFacts
<1>4. TaskOK(h) /\ Settled(h) /\ (h.runtime => task.runtime)
  BY <1>2, InvariantFacts DEF Handles
<1>5. Follows(h, e) /\ TaskOK(e)
  BY <1>4, EndOfPassOK DEF Follows
<1> HIDE DEF e
<1>6. Follows(e, u)
  BY <1>5, StartCapturesOK, QuietFollows
<1> HIDE DEF u
<1>7. Follows(h, u)
  BY <1>5, <1>6, FollowsTwice
<1>8. Placed(u, fresh', sent \o <<>>, Len(events))
  BY <1>1, <1>3, <1>7, FollowsPlaced, InvariantFacts
<1>9. TaskOK(u) /\ Settled(u) /\ ~ Opens(u)
  BY <1>4, <1>7 DEF Follows, Opens
<1>10. /\ NoSteers(<<>>) /\ <<>> \in Prompts /\ fresh' \subseteq Messages /\ wake' \in BOOLEAN
       /\ DesktopTypeOK
  BY <1>1, MoreCalls, InvariantFacts
<1> QED
  BY <1>1, <1>8, <1>9, <1>10, ActionOK

-----------------------------------------------------------------------------
(* The driver's channels *)

\* What is due is a number.
LEMMA OwesOK ==
  ASSUME NEW a \in Nat, NEW b \in Nat, Owes(a, b)
  PROVE  starts' \in Nat /\ finishes' \in Nat
BY DEF Owes, Due

\* A driver that serves its calls keeps the types of its channels.
LEMMA ServeTypes ==
  ASSUME StreamTypeOK, Serve
  PROVE  StreamTypeOK'
<1>1. /\ calls \in Seq(Calls) /\ events \in Seq(Events) /\ starts \in Nat /\ finishes \in Nat
      /\ steering \subseteq Messages /\ {exited, pursues, eager} \subseteq BOOLEAN /\ attempts \in {1, 2}
  BY DEF StreamTypeOK
<1>2. CASE TakePrompt
  <2>1. calls' \in Seq(Calls)
    BY <1>1, <1>2, HeadTailProperties DEF TakePrompt, Takes
  <2>2. starts' \in Nat /\ finishes' \in Nat
    BY <1>1, <1>2, OwesOK DEF TakePrompt
  <2> QED BY <1>1, <1>2, <2>1, <2>2 DEF TakePrompt, StreamTypeOK
<1>3. CASE AnnounceTurn
  <2>1. Signal("TurnStarted") \in Events
    BY DEF Events
  <2>2. events' \in Seq(Events)
    BY <1>1, <1>3, <2>1, AppendProperties DEF AnnounceTurn, Sends
  <2>3. starts' \in Nat /\ finishes' \in Nat
    BY <1>1, <1>3, OwesOK DEF AnnounceTurn
  <2> QED BY <1>1, <1>3, <2>2, <2>3 DEF AnnounceTurn, StreamTypeOK
<1>4. CASE TakeSteer
  <2>1. calls' \in Seq(Calls) /\ Head(calls) \in Calls /\ Head(calls).call = "steer"
    BY <1>1, <1>4, HeadTailProperties DEF TakeSteer, Takes
  <2>2. steering' \subseteq Messages
    BY <1>1, <1>4, <2>1, CallTypes DEF TakeSteer
  <2> QED BY <1>1, <1>4, <2>1, <2>2 DEF TakeSteer, StreamTypeOK
<1>5. CASE TakeCancel
  <2>1. calls' \in Seq(Calls)
    BY <1>1, <1>5, HeadTailProperties DEF TakeCancel, Takes
  <2> QED BY <1>1, <1>5, <2>1 DEF TakeCancel, StreamTypeOK
<1>6. CASE TakeGoal
  <2>1. calls' \in Seq(Calls)
    BY <1>1, <1>6, HeadTailProperties DEF TakeGoal, Takes
  <2> QED BY <1>1, <1>6, <2>1 DEF TakeGoal, StreamTypeOK
<1>7. ASSUME NEW m \in steering, AnswerSteer(m) PROVE StreamTypeOK'
  <2>1. SteerAccepted(m) \in Events /\ SteerRejected(m) \in Events
    BY <1>1 DEF Events
  <2>2. events' \in {Append(events, SteerAccepted(m)), Append(events, SteerRejected(m))}
    BY <1>7 DEF AnswerSteer, Sends
  <2>4. events' \in Seq(Events)
    BY <1>1, <2>1, <2>2, AppendProperties
  <2>3. starts' \in Nat /\ finishes' \in Nat
    BY <1>1, <1>7, OwesOK DEF AnswerSteer
  <2> QED BY <1>1, <1>7, <2>4, <2>3 DEF AnswerSteer, StreamTypeOK
<1>8. ASSUME NEW ok \in BOOLEAN, FinishTurn(ok) PROVE StreamTypeOK'
  <2>1. TurnFinished(ok) \in Events
    BY DEF Events
  <2>2. events' \in Seq(Events)
    BY <1>1, <1>8, <2>1, AppendProperties DEF FinishTurn, Sends
  <2>3. starts' \in Nat /\ finishes' \in Nat
    BY <1>1, <1>8, OwesOK DEF FinishTurn
  <2> QED BY <1>1, <1>8, <2>2, <2>3 DEF FinishTurn, StreamTypeOK
<1> QED
  BY <1>2, <1>3, <1>4, <1>5, <1>6, <1>7, <1>8 DEF Serve

\* A driver that does something by itself keeps them, too.
LEMMA OtherTypes ==
  ASSUME StreamTypeOK, Resume \/ Exit \/ \E e \in Chatter : Chat(e)
  PROVE  StreamTypeOK'
<1>1. /\ calls \in Seq(Calls) /\ events \in Seq(Events) /\ starts \in Nat /\ finishes \in Nat
      /\ steering \subseteq Messages /\ {exited, pursues, eager} \subseteq BOOLEAN /\ attempts \in {1, 2}
  BY DEF StreamTypeOK
<1>2. CASE Resume
  <2>1. starts' \in Nat /\ finishes' \in Nat
    BY <1>1, <1>2, OwesOK DEF Resume
  <2> QED BY <1>1, <1>2, <2>1 DEF Resume, StreamTypeOK
<1>3. CASE Exit
  <2>1. Signal("ProcessExited") \in Events
    BY DEF Events
  <2>2. events' \in Seq(Events)
    BY <1>1, <1>3, <2>1, AppendProperties DEF Exit, Sends
  <2> QED BY <1>1, <1>3, <2>2 DEF Exit, StreamTypeOK
<1>4. ASSUME NEW e \in Chatter, Chat(e) PROVE StreamTypeOK'
  <2>1. e \in Events
    BY DEF Events
  <2>2. events' \in Seq(Events)
    BY <1>1, <1>4, <2>1, AppendProperties DEF Chat, Sends
  <2>3. starts' \in Nat /\ finishes' \in Nat
    BY <1>1, <1>4, OwesOK DEF Chat
  <2> QED BY <1>1, <1>4, <2>2, <2>3 DEF Chat, StreamTypeOK
<1> QED
  BY <1>2, <1>3, <1>4

-----------------------------------------------------------------------------
(* Steers on their way: given to the driver, taken, answered. *)

SteerPlaces == {"called", "taken", "answered"}

\* The task does not mind how far its steers are.
LEMMA HoldsShuffled ==
  ASSUME NEW t \in Task, NEW at, NEW bt, Holds(t, at), Shuffles(at, bt, SteerPlaces)
  PROVE  Holds(t, bt)
<1>1. \A m \in Messages : /\ at[m] \notin SteerPlaces => bt[m] = at[m]
                          /\ at[m] \in SteerPlaces => bt[m] \in SteerPlaces
  BY DEF Shuffles
<1>2. \A i \in DOMAIN t.steers : bt[t.steers[i]] \in SteerPlaces
  BY <1>1, MailTypes DEF Holds, SteerPlaces
<1>3. t.composer # NoMessage => bt[t.composer] = "composer"
  BY <1>1, MailTypes DEF Holds, SteerPlaces
<1>4. \A i \in DOMAIN t.queue : bt[t.queue[i]] = "queue"
  BY <1>1, MailTypes DEF Holds, SteerPlaces
<1>5. \A i \in DOMAIN t.preparations : bt[t.preparations[i].message] = "preparing"
  BY <1>1, MailTypes DEF Holds, SteerPlaces
<1> QED
  BY <1>2, <1>3, <1>4, <1>5 DEF Holds, SteerPlaces

\* The elements of the tail are those behind the first.
LEMMA TailOf ==
  ASSUME NEW S, NEW s \in Seq(S), s # <<>>
  PROVE  /\ Head(s) = s[1] /\ 1 \in DOMAIN s /\ Tail(s) \in Seq(S)
         /\ \A i \in DOMAIN Tail(s) : i + 1 \in DOMAIN s /\ i + 1 # 1 /\ Tail(s)[i] = s[i + 1]
         /\ \A i \in DOMAIN s : i # 1 => i - 1 \in DOMAIN Tail(s) /\ Tail(s)[i - 1] = s[i]
         /\ DOMAIN s \subseteq Nat /\ DOMAIN Tail(s) \subseteq Nat
<1> DEFINE r == Tail(s)
<1>1. Len(s) \in Nat /\ DOMAIN s = 1..Len(s) /\ Len(s) # 0
  BY LenProperties, EmptySeq
<1>2. /\ Head(s) = s[1] /\ r \in Seq(S) /\ Len(r) = Len(s) - 1
      /\ \A i \in 1..Len(r) : r[i] = s[i + 1]
  BY HeadTailProperties
<1>3. DOMAIN r = 1..(Len(s) - 1)
  BY <1>2, LenProperties
<1> HIDE DEF r
<1>4. \A i \in 1..(Len(s) - 1) : i \in Nat /\ i + 1 \in 1..Len(s) /\ i + 1 # 1 /\ r[i] = s[i + 1]
  BY <1>1, <1>2
<1>5. \A i \in 1..Len(s) : i # 1 => i - 1 \in 1..(Len(s) - 1) /\ r[i - 1] = s[i]
  <2> TAKE i \in 1..Len(s)
  <2> HAVE i # 1
  <2>1. i - 1 \in 1..(Len(s) - 1) /\ (i - 1) + 1 = i
    BY <1>1
  <2> QED BY <1>4, <2>1
<1>6. 1 \in 1..Len(s) /\ 1..Len(s) \subseteq Nat /\ 1..(Len(s) - 1) \subseteq Nat
  BY <1>1
<1>7. \A i \in DOMAIN r : i + 1 \in DOMAIN s /\ i + 1 # 1 /\ r[i] = s[i + 1]
  BY <1>1, <1>3, <1>4
<1>8. \A i \in DOMAIN s : i # 1 => i - 1 \in DOMAIN r /\ r[i - 1] = s[i]
  BY <1>1, <1>3, <1>5
<1>9. 1 \in DOMAIN s /\ DOMAIN s \subseteq Nat /\ DOMAIN r \subseteq Nat
  BY <1>1, <1>3, <1>6
<1>10. Head(s) = s[1] /\ r \in Seq(S)
  BY <1>2
<1> QED
  BY <1>7, <1>8, <1>9, <1>10 DEF r

\* The driver takes a call that is no steer.
LEMMA AsksTail ==
  ASSUME NEW cs \in Seq(Calls), cs # <<>>, Head(cs).call # "steer", NEW took, NEW at, Asks(cs, took, at)
  PROVE  Asks(Tail(cs), took, at)
<1> DEFINE r == Tail(cs)
<1>1. /\ Head(cs) = cs[1] /\ 1 \in DOMAIN cs
      /\ \A i \in DOMAIN r : i + 1 \in DOMAIN cs /\ i + 1 # 1 /\ r[i] = cs[i + 1]
      /\ \A i \in DOMAIN cs : i # 1 => i - 1 \in DOMAIN r /\ r[i - 1] = cs[i]
      /\ DOMAIN cs \subseteq Nat /\ DOMAIN r \subseteq Nat
  BY TailOf
<1> HIDE DEF r
<1>2. \A i \in DOMAIN r : r[i].call = "steer" => at[r[i].message] = "called"
  BY <1>1 DEF Asks
<1>3. \A i, j \in DOMAIN r :
        r[i].call = "steer" /\ r[j].call = "steer" /\ r[i].message = r[j].message => i + 1 = j + 1
  <2>1. \A i, j \in DOMAIN cs :
         cs[i].call = "steer" /\ cs[j].call = "steer" /\ cs[i].message = cs[j].message => i = j
    BY DEF Asks
  <2>2. \A i \in DOMAIN r : i + 1 \in DOMAIN cs /\ r[i] = cs[i + 1]
    BY <1>1
  <2> QED BY <2>1, <2>2
<1>4. \A i, j \in DOMAIN r : i + 1 = j + 1 => i = j
  BY <1>1
<1>5. ASSUME NEW m \in Messages, at[m] = "called" PROVE Steer(m) \in Range(r)
  <2>1. PICK i \in DOMAIN cs : cs[i] = Steer(m)
    BY <1>5 DEF Asks, Range
  <2>2. i # 1
    BY <1>1, <2>1, SteerType
  <2>3. i - 1 \in DOMAIN r /\ r[i - 1] = Steer(m)
    BY <1>1, <2>1, <2>2
  <2> QED BY <2>3 DEF Range
<1>6. Asks(r, took, at)
  BY <1>2, <1>3, <1>4, <1>5 DEF Asks
<1> QED
  BY <1>6 DEF r

\* The driver takes a steer.
LEMMA AsksTaken ==
  ASSUME NEW cs \in Seq(Calls), cs # <<>>, Head(cs).call = "steer", NEW took,
         NEW at \in [Messages -> Places], Asks(cs, took, at), NEW m, m = Head(cs).message
  PROVE  /\ m \in Messages /\ at[m] = "called"
         /\ Asks(Tail(cs), took \cup {m}, [at EXCEPT ![m] = "taken"])
<1> DEFINE r == Tail(cs)
           bt == [at EXCEPT ![m] = "taken"]
<1>1. /\ Head(cs) = cs[1] /\ 1 \in DOMAIN cs
      /\ \A i \in DOMAIN r : i + 1 \in DOMAIN cs /\ i + 1 # 1 /\ r[i] = cs[i + 1]
      /\ \A i \in DOMAIN cs : i # 1 => i - 1 \in DOMAIN r /\ r[i - 1] = cs[i]
      /\ DOMAIN cs \subseteq Nat /\ DOMAIN r \subseteq Nat
  BY TailOf
<1> HIDE DEF r
<1>2. m \in Messages /\ at[m] = "called"
  BY <1>1, CallTypes, LenProperties, ElementOfSeq DEF Asks
<1>3. bt[m] = "taken" /\ \A k \in Messages : k # m => bt[k] = at[k]
  BY <1>2
<1> HIDE DEF bt
<1>4. \A i \in DOMAIN cs : cs[i].call = "steer" => cs[i].message \in Messages
  BY CallTypes, LenProperties, ElementOfSeq
<1>5. \A i \in DOMAIN r : r[i].call = "steer" => r[i].message # m
  BY <1>1 DEF Asks
<1>6. \A i \in DOMAIN r : r[i].call = "steer" => bt[r[i].message] = "called"
  BY <1>1, <1>3, <1>4, <1>5 DEF Asks
<1>7. \A i, j \in DOMAIN r :
        r[i].call = "steer" /\ r[j].call = "steer" /\ r[i].message = r[j].message => i + 1 = j + 1
  <2>1. \A i, j \in DOMAIN cs :
         cs[i].call = "steer" /\ cs[j].call = "steer" /\ cs[i].message = cs[j].message => i = j
    BY DEF Asks
  <2>2. \A i \in DOMAIN r : i + 1 \in DOMAIN cs /\ r[i] = cs[i + 1]
    BY <1>1
  <2> QED BY <2>1, <2>2
<1>8. \A i, j \in DOMAIN r : i + 1 = j + 1 => i = j
  BY <1>1
<1>9. ASSUME NEW k \in Messages, bt[k] = "called" PROVE Steer(k) \in Range(r)
  <2>0. k # m /\ at[k] = "called"
    BY <1>3, <1>9
  <2>1. PICK i \in DOMAIN cs : cs[i] = Steer(k)
    BY <2>0 DEF Asks, Range
  <2>2. i # 1
    BY <1>1, <2>0, <2>1, SteerType
  <2>3. i - 1 \in DOMAIN r /\ r[i - 1] = Steer(k)
    BY <1>1, <2>1, <2>2
  <2> QED BY <2>3 DEF Range
<1>10. \A k \in Messages : k \in took \cup {m} <=> bt[k] = "taken"
  BY <1>2, <1>3 DEF Asks
<1>11. Asks(r, took \cup {m}, bt)
  BY <1>6, <1>7, <1>8, <1>9, <1>10 DEF Asks
<1> QED
  BY <1>2, <1>11 DEF r, bt

\* The driver answers a steer it took.
LEMMA AsksAnswered ==
  ASSUME NEW cs \in Seq(Calls), NEW took, NEW at \in [Messages -> Places], Asks(cs, took, at),
         NEW m \in Messages, m \in took
  PROVE  at[m] = "taken" /\ Asks(cs, took \ {m}, [at EXCEPT ![m] = "answered"])
<1> DEFINE bt == [at EXCEPT ![m] = "answered"]
<1>1. at[m] = "taken" /\ bt[m] = "answered" /\ \A k \in Messages : k # m => bt[k] = at[k]
  BY DEF Asks
<1> HIDE DEF bt
<1>2. \A i \in DOMAIN cs : cs[i].call = "steer" => cs[i].message \in Messages
  BY CallTypes, LenProperties, ElementOfSeq
<1>3. \A k \in Messages : k \in took \ {m} <=> bt[k] = "taken"
  BY <1>1 DEF Asks
<1>4. Asks(cs, took \ {m}, bt)
  BY <1>1, <1>2, <1>3 DEF Asks
<1> QED
  BY <1>1, <1>4 DEF bt

\* An event comes that is no answer, or the answer to a steer that was taken.
LEMMA EventSent ==
  ASSUME NEW es \in Seq(Events), NEW e \in Events
  PROVE  /\ DOMAIN Append(es, e) \subseteq Nat
         /\ \A i \in DOMAIN es : i \in DOMAIN Append(es, e) /\ Append(es, e)[i] = es[i] /\ 0 < i
         /\ \E k \in DOMAIN Append(es, e) :
              /\ Append(es, e)[k] = e /\ 0 < k
              /\ \A i \in DOMAIN Append(es, e) : i # k => i \in DOMAIN es
<1> DEFINE s == Append(es, e)
<1>1. /\ s \in Seq(Events) /\ Len(s) = Len(es) + 1 /\ Len(es) \in Nat
      /\ \A i \in 1..Len(es) : s[i] = es[i]
      /\ s[Len(es) + 1] = e
  BY AppendProperties, LenProperties
<1>2. DOMAIN es = 1..Len(es) /\ DOMAIN s = 1..(Len(es) + 1)
  BY <1>1, LenProperties
<1> HIDE DEF s
<1>3. DOMAIN s \subseteq Nat /\ \A i \in DOMAIN es : i \in DOMAIN s /\ s[i] = es[i] /\ 0 < i
  BY <1>1, <1>2
<1>4. /\ Len(es) + 1 \in DOMAIN s /\ s[Len(es) + 1] = e /\ 0 < Len(es) + 1
      /\ \A i \in DOMAIN s : i # Len(es) + 1 => i \in DOMAIN es
  BY <1>1, <1>2
<1> QED
  BY <1>3, <1>4 DEF s

\* An event that is no answer comes.
LEMMA OtherSent ==
  ASSUME NEW es \in Seq(Events), NEW e \in Events, ~ IsAnswer(e), NEW at, Answers(es, 0, at)
  PROVE  Answers(Append(es, e), 0, at)
<1> DEFINE s == Append(es, e)
<1>1. \A i \in DOMAIN es : i \in DOMAIN s /\ s[i] = es[i] /\ 0 < i
  BY EventSent
<1>2. PICK k \in DOMAIN s : s[k] = e /\ \A i \in DOMAIN s : i # k => i \in DOMAIN es
  BY EventSent
<1> HIDE DEF s
<1>3. \A i \in DOMAIN s : IsAnswer(s[i]) => i \in DOMAIN es /\ s[i] = es[i] /\ 0 < i
  BY <1>1, <1>2
<1>4. \A m \in Messages : at[m] = "answered" =>
        \E i \in DOMAIN s : 0 < i /\ s[i] \in {SteerAccepted(m), SteerRejected(m)}
  <2> TAKE m \in Messages
  <2> HAVE at[m] = "answered"
  <2>1. PICK i \in DOMAIN es : es[i] \in {SteerAccepted(m), SteerRejected(m)}
    BY DEF Answers
  <2> QED BY <1>1, <2>1
<1>5. Answers(s, 0, at)
  BY <1>3, <1>4 DEF Answers
<1> QED
  BY <1>5 DEF s

\* An answer comes to a steer that was taken.
LEMMA AnswerSent ==
  ASSUME NEW es \in Seq(Events), NEW m \in Messages, NEW e \in {SteerAccepted(m), SteerRejected(m)},
         NEW at \in [Messages -> Places], at[m] = "taken", Answers(es, 0, at)
  PROVE  Answers(Append(es, e), 0, [at EXCEPT ![m] = "answered"])
<1> DEFINE s == Append(es, e)
           bt == [at EXCEPT ![m] = "answered"]
<1>0. e \in Events /\ e.message = m
  BY DEF Events, SteerAccepted, SteerRejected
<1>1. \A i \in DOMAIN es : i \in DOMAIN s /\ s[i] = es[i] /\ 0 < i
  BY <1>0, EventSent
<1>2. PICK k \in DOMAIN s : s[k] = e /\ 0 < k /\ \A i \in DOMAIN s : i # k => i \in DOMAIN es
  BY <1>0, EventSent
<1>3. bt[m] = "answered" /\ \A j \in Messages : j # m => bt[j] = at[j]
  OBVIOUS
<1> HIDE DEF s, bt
<1>4. \A i \in DOMAIN es : IsAnswer(es[i]) => es[i].message \in Messages /\ es[i].message # m
                                               /\ at[es[i].message] = "answered"
  <2>1. \A i \in DOMAIN es : es[i] \in Events
    BY LenProperties, ElementOfSeq
  <2>2. \A i \in DOMAIN es : IsAnswer(es[i]) => at[es[i].message] = "answered"
    BY <1>1 DEF Answers
  <2> QED BY <2>1, <2>2, EventTypes
<1>5. \A i \in DOMAIN s : IsAnswer(s[i]) => bt[s[i].message] = "answered"
  BY <1>0, <1>1, <1>2, <1>3, <1>4
<1>6. \A i, j \in DOMAIN s : IsAnswer(s[i]) /\ IsAnswer(s[j]) /\ s[i].message = s[j].message => i = j
  <2>1. \A i, j \in DOMAIN es :
          IsAnswer(es[i]) /\ IsAnswer(es[j]) /\ es[i].message = es[j].message => i = j
    BY <1>1 DEF Answers
  <2>2. \A i \in DOMAIN s : i # k => i \in DOMAIN es /\ s[i] = es[i]
    BY <1>1, <1>2
  <2> QED BY <1>0, <1>2, <1>4, <2>1, <2>2
<1>7. ASSUME NEW j \in Messages, bt[j] = "answered"
      PROVE  \E i \in DOMAIN s : 0 < i /\ s[i] \in {SteerAccepted(j), SteerRejected(j)}
  <2>1. CASE j = m
    BY <1>2, <2>1
  <2>2. CASE j # m
    <3>1. PICK i \in DOMAIN es : es[i] \in {SteerAccepted(j), SteerRejected(j)}
      BY <1>3, <1>7, <2>2 DEF Answers
    <3> QED BY <1>1, <3>1
  <2> QED BY <2>1, <2>2
<1>8. Answers(s, 0, bt)
  BY <1>5, <1>6, <1>7 DEF Answers
<1> QED
  BY <1>8 DEF s, bt

-----------------------------------------------------------------------------
(* The driver, the invariant and the theorems *)

SignalsAnswerNothing ==
  \A e \in Chatter \cup {Signal("TurnStarted"), Signal("ProcessExited")}
             \cup {TurnFinished(ok) : ok \in BOOLEAN} : e \in Events /\ ~ IsAnswer(e)

\* The events that are no answers.
LEMMA SignalsOK == SignalsAnswerNothing
<1>1. \A k \in {"Connected", "Output", "Permission", "Error", "TurnStarted", "ProcessExited"} :
        ~ IsAnswer(Signal(k))
  BY DEF IsAnswer, Signal
<1>2. \A ok : ~ IsAnswer(TurnFinished(ok))
  BY DEF IsAnswer, TurnFinished
<1> QED
  BY <1>1, <1>2 DEF SignalsAnswerNothing, Events, Chatter

\* Where the messages are after a step of the driver.
Moves(at, cs, took, es) ==
  \E bt \in [Messages -> Places] :
    Asks(cs, took, bt) /\ Answers(es, 0, bt) /\ Shuffles(at, bt, SteerPlaces)

\* A driver that serves its calls moves steers from place to place.
LEMMA ServeMoves ==
  ASSUME calls \in Seq(Calls), events \in Seq(Events), steering \subseteq Messages, Serve,
         NEW at \in [Messages -> Places], Asks(calls, steering, at), Answers(events, 0, at)
  PROVE  Moves(at, calls', steering', events')
<1>1. Shuffles(at, at, SteerPlaces)
  BY ShufflesItself
<1>2. ASSUME calls # <<>>, Head(calls).call # "steer", calls' = Tail(calls),
             steering' = steering, events' = events
      PROVE  Moves(at, calls', steering', events')
  <2>1. Asks(calls', steering', at)
    BY <1>2, AsksTail
  <2> QED BY <1>1, <1>2, <2>1 DEF Moves
<1>3. ASSUME NEW e \in Events, ~ IsAnswer(e), events' = Append(events, e),
             calls' = calls, steering' = steering
      PROVE  Moves(at, calls', steering', events')
  <2>1. Answers(events', 0, at)
    BY <1>3, OtherSent
  <2> QED BY <1>1, <1>3, <2>1 DEF Moves
<1>4. CASE TakePrompt \/ TakeCancel \/ TakeGoal
  BY <1>2, <1>4 DEF TakePrompt, TakeCancel, TakeGoal, Takes
<1>5. CASE AnnounceTurn
  BY <1>3, <1>5, SignalsOK DEF AnnounceTurn, Sends, SignalsAnswerNothing
<1>6. ASSUME NEW ok \in BOOLEAN, FinishTurn(ok) PROVE Moves(at, calls', steering', events')
  BY <1>3, <1>6, SignalsOK DEF FinishTurn, Sends, SignalsAnswerNothing
<1>7. CASE TakeSteer
  <2> DEFINE m == Head(calls).message
             bt == [at EXCEPT ![m] = "taken"]
  <2>1. /\ calls # <<>> /\ Head(calls).call = "steer" /\ calls' = Tail(calls)
        /\ steering' = steering \cup {m} /\ events' = events
    BY <1>7 DEF TakeSteer, Takes
  <2>2. m \in Messages /\ at[m] = "called" /\ Asks(calls', steering', bt)
    BY <2>1, AsksTaken
  <2> HIDE DEF m
  <2>3. bt \in [Messages -> Places]
    BY DEF Places
  <2>4. Shuffles(at, bt, SteerPlaces)
    BY <2>2 DEF Shuffles, SteerPlaces
  <2>5. Shuffles(at, bt, {"called", "taken"})
    BY <2>2 DEF Shuffles
  <2> HIDE DEF bt
  <2>6. Answers(events', 0, bt)
    BY <2>1, <2>5, AnswersShuffled
  <2> QED BY <2>2, <2>3, <2>4, <2>6 DEF Moves
<1>8. ASSUME NEW m \in steering, AnswerSteer(m) PROVE Moves(at, calls', steering', events')
  <2> DEFINE bt == [at EXCEPT ![m] = "answered"]
  <2>1. /\ m \in Messages /\ steering' = steering \ {m} /\ calls' = calls
        /\ \E e \in {SteerAccepted(m), SteerRejected(m)} : events' = Append(events, e)
    BY <1>8 DEF AnswerSteer, Sends
  <2>2. at[m] = "taken" /\ Asks(calls', steering', bt)
    BY <2>1, AsksAnswered
  <2>3. Answers(events', 0, bt)
    BY <2>1, <2>2, AnswerSent
  <2>4. bt \in [Messages -> Places]
    BY DEF Places
  <2>5. Shuffles(at, bt, SteerPlaces)
    BY <2>1, <2>2 DEF Shuffles, SteerPlaces
  <2> QED BY <2>2, <2>3, <2>4, <2>5 DEF Moves
<1> QED
  BY <1>4, <1>5, <1>6, <1>7, <1>8 DEF Serve

\* What it does by itself moves none.
LEMMA OtherMoves ==
  ASSUME events \in Seq(Events), Resume \/ Exit \/ \E e \in Chatter : Chat(e),
         NEW at \in [Messages -> Places], Asks(calls, steering, at), Answers(events, 0, at)
  PROVE  Moves(at, calls', steering', events')
<1>1. Shuffles(at, at, SteerPlaces)
  BY ShufflesItself
<1>2. /\ calls' = calls /\ steering' = steering
      /\ \/ events' = events
         \/ \E e \in Chatter \cup {Signal("ProcessExited")} : events' = Append(events, e)
  BY DEF Resume, Exit, Chat, Sends
<1>3. Answers(events', 0, at)
  BY <1>2, OtherSent, SignalsOK DEF SignalsAnswerNothing
<1> QED
  BY <1>1, <1>2, <1>3 DEF Moves

\* The driver.
LEMMA ProviderOK ==
  ASSUME DesktopIInv, Provider
  PROVE  DesktopIInv'
<1>1. /\ task.runtime /\ UNCHANGED <<task, fresh, sent, owed>> /\ wake' \in BOOLEAN
      /\ Serve \/ (Resume \/ Exit \/ \E e \in Noise(task.provider) : Chat(e))
  BY InvariantFacts DEF Provider
<1>2. Noise(task.provider) \subseteq Chatter
  BY InvariantFacts, NoiseAssumption DEF TaskOK, Task
<1>3. Serve \/ (Resume \/ Exit \/ \E e \in Chatter : Chat(e))
  BY <1>1, <1>2
<1>4. StreamTypeOK
  BY DEF DesktopIInv, DesktopTypeOK
<1>5. StreamTypeOK'
  BY <1>3, <1>4, ServeTypes, OtherTypes
<1>6. DesktopTypeOK'
  BY <1>1, <1>5 DEF DesktopIInv, DesktopTypeOK
<1>7. Settled(task')
  BY <1>1, InvariantFacts
<1>8. CASE task.misread
  BY <1>1, <1>6, <1>7, <1>8 DEF DesktopIInv, InOnePlace
<1>9. CASE ~ task.misread
  <2>1. PICK at \in [Messages -> Places] :
          /\ Holds(task, at) /\ Writes(fresh, sent, at)
          /\ Asks(calls, steering, at) /\ Answers(events, 0, at)
    BY <1>9 DEF DesktopIInv, InOnePlace
  <2>2. Moves(at, calls', steering', events')
    BY <1>3, <1>4, <2>1, ServeMoves, OtherMoves DEF StreamTypeOK
  <2>3. PICK bt \in [Messages -> Places] :
          Asks(calls', steering', bt) /\ Answers(events', 0, bt) /\ Shuffles(at, bt, SteerPlaces)
    BY <2>2 DEF Moves
  <2>4. Holds(task, bt)
    BY <2>1, <2>3, HoldsShuffled, InvariantFacts DEF TaskOK
  <2>5. Writes(fresh, sent, bt)
    BY <2>1, <2>3, WritesShuffled, InvariantFacts DEF SteerPlaces
  <2>6. InOnePlace'
    BY <1>1, <2>3, <2>4, <2>5 DEF InOnePlace
  <2> QED BY <1>6, <1>7, <2>6 DEF DesktopIInv
<1> QED
  BY <1>8, <1>9

\* Nothing happens.
LEMMA StutterOK ==
  ASSUME DesktopIInv, UNCHANGED desktopVars
  PROVE  DesktopIInv'
<1>1. /\ UNCHANGED <<task, wake, fresh, sent, owed>>
      /\ UNCHANGED <<calls, starts, finishes, steering, events, exited, pursues, attempts, eager>>
  BY DEF desktopVars, streamVars
<1>2. DesktopTypeOK'
  BY <1>1 DEF DesktopIInv, DesktopTypeOK, StreamTypeOK
<1>3. Settled(task')
  BY <1>1 DEF DesktopIInv
<1>4. InOnePlace'
  BY <1>1 DEF DesktopIInv, InOnePlace
<1> QED
  BY <1>2, <1>3, <1>4 DEF DesktopIInv

\* The invariant holds in the beginning.
LEMMA InitOK ==
  ASSUME DesktopInit
  PROVE  DesktopIInv
<1>1. PICK p \in Providers : task = NewTask(p)
  BY DEF DesktopInit
<1>2. fresh = Texts(p) /\ fresh \subseteq Messages
  BY <1>1, NoiseAssumption DEF DesktopInit, NewTask
<1>3. task \in Task /\ TaskOK(task)
  BY <1>1, EmptySeq DEF NewTask, Task, TaskOK
<1>4. /\ calls = <<>> /\ events = <<>> /\ steering = {} /\ starts = 0 /\ finishes = 0
      /\ attempts \in {1, 2} /\ eager \in BOOLEAN /\ exited = FALSE /\ pursues = FALSE
      /\ wake = FALSE /\ sent = <<>> /\ owed = FALSE
  BY DEF DesktopInit, StreamInit
<1>5. StreamTypeOK
  <2>1. calls \in Seq(Calls) /\ events \in Seq(Events) /\ steering \subseteq Messages
    BY <1>4, EmptySeq
  <2>2. {starts, finishes} \subseteq Nat /\ attempts \in {1, 2}
    BY <1>4
  <2>3. {exited, pursues, eager} \subseteq BOOLEAN
    BY <1>4
  <2> QED BY <2>1, <2>2, <2>3 DEF StreamTypeOK
<1>6. DesktopTypeOK
  BY <1>2, <1>3, <1>4, <1>5, EmptySeq DEF DesktopTypeOK, TaskOK
<1>7. Settled(task)
  BY <1>1 DEF NewTask, Settled
<1> DEFINE at == [m \in Messages |-> IF m \in fresh THEN "fresh" ELSE "gone"]
<1>8. at \in [Messages -> Places] /\ \A m \in Messages : at[m] = IF m \in fresh THEN "fresh" ELSE "gone"
  BY DEF Places
<1> HIDE DEF at
<1>9. /\ task.composer = NoMessage /\ task.queue = <<>> /\ task.preparations = <<>>
      /\ task.steers = <<>>
  BY <1>1 DEF NewTask
<1>10. Holds(task, at)
  BY <1>9 DEF Holds
<1>11. Writes(fresh, sent, at)
  BY <1>2, <1>4, <1>8 DEF Writes
<1>12. Asks(calls, steering, at)
  BY <1>4, <1>8 DEF Asks
<1>13. Answers(events, 0, at)
  BY <1>4, <1>8 DEF Answers
<1>14. InOnePlace
  BY <1>8, <1>10, <1>11, <1>12, <1>13 DEF InOnePlace
<1> QED
  BY <1>6, <1>7, <1>14 DEF DesktopIInv

\* Every step keeps the invariant.
LEMMA NextOK ==
  ASSUME DesktopIInv, [DesktopNext]_desktopVars
  PROVE  DesktopIInv'
<1>1. CASE UserNext
  BY <1>1, TypeOK, SendOK, SendSteerOK, StopOK, RespondPermissionOK, ForkResponseOK,
     SteerQueuedOK, RemoveQueuedOK, EditQueuedOK, SetGoalOK DEF UserNext
<1>2. CASE TaskReports
  BY <1>2, FinishPreparationOK, FinishCaptureOK, FinishGoalStartOK, FinishForkOK DEF TaskReports
<1>3. CASE GoalWatchdog \/ OptionsRefused \/ ReapIdle
  BY <1>3, GoalWatchdogOK, RuntimeDropped
<1>4. CASE EventPump
  BY <1>4, EventPumpOK
<1>5. CASE Provider
  BY <1>5, ProviderOK
<1>6. CASE UNCHANGED desktopVars
  BY <1>6, StutterOK
<1> QED
  BY <1>1, <1>2, <1>3, <1>4, <1>5, <1>6 DEF DesktopNext

\* The inductive invariant holds of the desktop, whatever the providers, the messages and
\* the bounds: its types, checkpoints only of a last turn that has ended, and every message
\* in one place only (runtime.rs, streaming.rs).
THEOREM DesktopInductive == DesktopSpec => []DesktopIInv
<1>1. DesktopInit => DesktopIInv
  BY InitOK
<1>2. DesktopIInv /\ [DesktopNext]_desktopVars => DesktopIInv'
  BY NextOK
<1> QED
  BY <1>1, <1>2, PTL DEF DesktopSpec

\* The types, and that nothing is awaited or in a driver's channels without a runtime.
THEOREM DesktopTypes == DesktopSpec => []DesktopTypeOK
<1>1. DesktopIInv => DesktopTypeOK
  BY DEF DesktopIInv
<1> QED
  BY <1>1, DesktopInductive, PTL

\* No message is handed to the driver as a prompt twice, unless a rejection was taken for
\* another steer's (runtime.rs:3405).
THEOREM SentOnce == DesktopSpec => []NeverSentTwice
<1>1. DesktopIInv => NeverSentTwice
  BY DEF DesktopIInv, InOnePlace, Writes, NeverSentTwice
<1> QED
  BY <1>1, DesktopInductive, PTL

\* Every steer the desktop awaits an answer to is with the driver, or its answer waits to be
\* read (streaming.rs:414).
THEOREM SteersAnswered == DesktopSpec => []SteersAreAnswered
<1>1. ASSUME DesktopIInv, ~ task.misread, NEW m \in Range(task.steers)
      PROVE  \/ Steer(m) \in Range(calls) \/ m \in steering
             \/ {SteerAccepted(m), SteerRejected(m)} \cap Range(events) # {}
  <2>1. PICK at \in [Messages -> Places] :
          /\ Holds(task, at) /\ Writes(fresh, sent, at)
          /\ Asks(calls, steering, at) /\ Answers(events, 0, at)
    BY <1>1 DEF DesktopIInv, InOnePlace
  <2>2. PICK i \in DOMAIN task.steers : task.steers[i] = m
    BY DEF Range
  <2>3. m \in Messages /\ at[m] \in {"called", "taken", "answered"}
    BY <1>1, <2>1, <2>2, MailTypes, InvariantFacts DEF Holds, TaskOK
  <2>4. CASE at[m] = "answered"
    <3>1. PICK j \in DOMAIN events : events[j] \in {SteerAccepted(m), SteerRejected(m)}
      BY <2>1, <2>3, <2>4 DEF Answers
    <3>2. events[j] \in Range(events)
      BY DEF Range
    <3> QED BY <3>1, <3>2
  <2> QED
    BY <2>1, <2>3, <2>4 DEF Asks
<1>2. DesktopIInv => SteersAreAnswered
  BY <1>1 DEF SteersAreAnswered
<1> QED
  BY <1>2, DesktopInductive, PTL

\* An action that hands over no prompt.
LEMMA NothingSent ==
  ASSUME DesktopIInv, NEW t, NEW more, Reports(t, more, <<>>) \/ UserDoes(t, more)
  PROVE  sent' = sent
BY InvariantFacts DEF Reports, UserDoes, Remember

\* A prompt is handed over only by a preparation whose turn is still to start.
LEMMA PromptsWaitStep ==
  ASSUME DesktopIInv, [DesktopNext]_desktopVars, sent' # sent, ~ SetsGoals(task)
  PROVE  task.captures = {} /\ task.inFlight = {}
<1>1. ASSUME NEW i \in DOMAIN task.preparations, FinishPreparation(i)
      PROVE  Active(task)
  <2> DEFINE t == [task EXCEPT !.preparations = RemoveAt(@, i), !.preparing = FALSE]
             p == task.preparations[i]
  <2>1. t.turns = task.turns
    BY InvariantFacts DEF TaskOK, Task
  <2> HIDE DEF t
  <2>2. PICK hasDriver : PreparationReady(t, p, hasDriver)
    BY <1>1, NothingSent DEF FinishPreparation, t
  <2>3. t.status = "Connecting" /\ Unstarted(t)
    BY <2>2, NothingSent DEF PreparationReady
  <2> QED
    BY <2>1, <2>3 DEF Unstarted, Active
<1>2. CASE UserNext
  <2>1. sent' = sent
    BY <1>2, NothingSent, InvariantFacts
       DEF UserNext, Type, Send, SendSteer, SteerQueued, SteerWith, Stop, Remember, RespondPermission,
           ForkResponse, RemoveQueued, EditQueued, SetGoal
  <2> QED BY <2>1
<1>3. CASE TaskReports
  <2>1. (FinishGoalStart \/ FinishFork \/ \E n \in task.inFlight : FinishCapture(n)) => sent' = sent
    BY NothingSent DEF FinishGoalStart, FinishFork, FinishCapture
  <2>2. Active(task)
    BY <1>1, <1>3, <2>1 DEF TaskReports
  <2> QED BY <2>2 DEF DesktopIInv, Settled
<1>4. CASE GoalWatchdog \/ OptionsRefused \/ ReapIdle \/ EventPump \/ Provider \/ UNCHANGED desktopVars
  <2>1. sent' = sent
    BY <1>4, NothingSent, InvariantFacts
       DEF GoalWatchdog, OptionsRefused, ReapIdle, EventPump, Remember, Provider, desktopVars
  <2> QED BY <2>1
<1> QED
  BY <1>2, <1>3, <1>4 DEF DesktopNext

\* A prompt is handed over only when no checkpoint of an earlier turn is being captured,
\* of a task without goals (runtime.rs, finish_submission_preparation).
THEOREM PromptsWait == DesktopSpec => CheckpointsPrecedePrompts
<1>1. DesktopIInv /\ [DesktopNext]_desktopVars =>
        [sent' # sent /\ ~ SetsGoals(task) => task.captures = {} /\ task.inFlight = {}]_desktopVars
  BY PromptsWaitStep
<1> QED
  BY <1>1, DesktopInductive, PTL DEF DesktopSpec, CheckpointsPrecedePrompts

=============================================================================
