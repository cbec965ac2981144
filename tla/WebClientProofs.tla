-------------------------- MODULE WebClientProofs --------------------------
(***************************************************************************)
(* Proofs about WebClient, for any sockets, runtimes, events, limits and   *)
(* faults: its types; that the page's task has the session's events in     *)
(* order and once; that the client skips none; that what waits is awaited; *)
(* and that no socket given up takes the connection that followed it.      *)
(***************************************************************************)
EXTENDS WebClient, EventHubProofs, SequenceTheorems, WellFoundedInduction

\* Event e comes before event f in what was published.
Before(events, e, f) == \E m, n \in 1..Len(events) : m < n /\ events[m] = e /\ events[n] = f

\* It is of the same runtime, or of an earlier one.
NotLater(events, e, f) == e.runtime = f.runtime \/ Before(events, e, f)

\* The events of a runtime are numbered in the order they were published, with no other's between.
RunsAreWhole ==
  \A m, n \in 1..Len(published) : m < n /\ published[m].runtime = published[n].runtime =>
    /\ published[m].epoch = published[n].epoch
    /\ published[m].sequence < published[n].sequence
    /\ \A k \in m..n : published[k].runtime = published[m].runtime

\* Those of the active runtime are the newest, and the hub has counted and recorded them.
ActiveIsNewest ==
  \A m \in 1..Len(published) : published[m].runtime = activeRuntimes[Session] =>
    /\ published[m].epoch = epoch
    /\ published[m].sequence <= nextSequences[Session][activeRuntimes[Session]]
    /\ \E i \in 1..Len(emitted[Session][activeRuntimes[Session]]) :
         emitted[Session][activeRuntimes[Session]][i] = published[m]
    /\ \A k \in m..Len(published) : published[k].runtime = activeRuntimes[Session]

\* What the hub recorded of a runtime was published, in the order of its numbers.
EmittedIsPublished ==
  \A r \in Runtimes : \A i \in 1..Len(emitted[Session][r]) :
    /\ emitted[Session][r][i] \in ToSet(published) /\ emitted[Session][r][i].runtime = r
    /\ \A j \in 1..Len(emitted[Session][r]) :
         i < j => emitted[Session][r][i].sequence < emitted[Session][r][j].sequence

\* The journal of the active runtime is the newest part of that.
JournalIsKept ==
  activeRuntimes[Session] # NoRuntime =>
    IsNewestOf(journal[Session][activeRuntimes[Session]], emitted[Session][activeRuntimes[Session]])

\* A socket carries published events, in their order.
FramesInOrder ==
  \A c \in Connections : \A i \in 1..Len(outgoing[c][Session]) :
    /\ outgoing[c][Session][i] \in ToSet(published)
    /\ \A j \in 1..Len(outgoing[c][Session]) :
         i < j => Before(published, outgoing[c][Session][i], outgoing[c][Session][j])

HubFollows ==
  /\ HubTypeOK /\ RunsAreWhole /\ ActiveIsNewest /\ EmittedIsPublished /\ JournalIsKept
  /\ FramesInOrder

\* A runtime is drawn once, asked for once, and not running before that.
AskedFor(r) == \E c \in Connections : \E i \in 1..Len(requests[c]) :
                 requests[c][i].kind = "start" /\ requests[c][i].runtime = r
StartsOnce ==
  /\ used \subseteq Runtimes
  /\ \A r \in Runtimes : AskedFor(r) => r \in used
  /\ \A r \in Runtimes :
       activeRuntimes[Session] = r \/ (\E m \in 1..Len(published) : published[m].runtime = r) =>
         r \in used /\ ~ AskedFor(r)
  /\ \A c, d \in Connections : \A i \in 1..Len(requests[c]), j \in 1..Len(requests[d]) :
       /\ requests[c][i].kind = "start" /\ requests[d][j].kind = "start"
       /\ requests[c][i].runtime = requests[d][j].runtime
       => c = d /\ i = j

\* The page's entry, with listeners for it.
Pages == [entry : Runtimes \cup {NoRuntime}, listeners : [Runtimes -> Nat], applied : Seq(Event),
          local : BOOLEAN, heard : SUBSET Event]
Listens(p) == p.entry # NoRuntime => p.listeners[p.entry] > 0

\* What is on the way is typed; answers wait behind the events that were sent before them.
WebRequests == [id : Nat, kind : {"attach", "start", "prompt", "close"},
                runtime : Runtimes \cup {NoRuntime}]
Answers == [id : Nat, ok : BOOLEAN, runtime : Runtimes \cup {NoRuntime}, at : Nat]
OnTheWay ==
  /\ page \in Pages /\ heldLocal \in BOOLEAN /\ resumeFrom \in [Connections -> [Runtimes -> Cursor]]
  /\ asked \in 0..MaxRequests
  /\ \A p \in pending : p.id <= asked /\ \A q \in pending : p.id = q.id => p = q
  /\ \A p, q \in pending :
       {p.kind, q.kind} \subseteq {"start", "prompt"} => p = q /\ prompting = "asked"
  /\ requests \in [Connections -> Seq(WebRequests)]
  /\ \A c \in Connections : \A i \in 1..Len(requests[c]) :
       requests[c][i].kind \in {"start", "close"} => requests[c][i].runtime \in Runtimes
  /\ answers \in [Connections -> Seq(Answers)]
  /\ received \in [Connections -> Nat]
  /\ \A c \in Connections :
       /\ received[c] <= Len(outgoing[c][Session])
       /\ \A i \in 1..Len(answers[c]) :
            /\ received[c] <= answers[c][i].at /\ answers[c][i].at <= Len(outgoing[c][Session])
            /\ \A j \in 1..Len(answers[c]) : i < j => answers[c][i].at <= answers[c][j].at

\* What a socket has of what is done in order: made, open, greeted, subscribed.
Sockets ==
  /\ state # "disconnected" => current # NoSocket /\ socket = current
  /\ \A c \in Connections :
       /\ link[c] = "none" => c # current
       /\ link[c] \in {"none", "connecting"} => accepted[c] = "no"
       /\ accepted[c] = "subscribed" <=> c \in opened
       /\ c \in subscribers => c \in opened
       /\ c \notin opened => outgoing[c][Session] = << >> /\ answers[c] = << >> /\ received[c] = 0
       /\ c = current /\ accepted[c] \in {"greeted", "answered"} => resumeFrom[c] = sequences
       /\ link[c] \notin {"none", "closed"} /\ c \notin settled => c = current /\ state = "connecting"

\* The events the page and its client hold, in one of their copies.
Known == ToSet(page.applied) \cup ToSet(held) \cup ToSet(stored)
           \cup UNION {ToSet(pendingEvents[r]) : r \in Runtimes}

\* A copy of the task has its events in the order they were published.
InOrder(events, copy) == \A i, j \in 1..Len(copy) : i < j => Before(events, copy[i], copy[j])

\* The newest events are not in it unless they are of the runtime of what comes next.
Copies ==
  /\ Known \subseteq ToSet(published)
  /\ InOrder(published, page.applied) /\ InOrder(published, held) /\ InOrder(published, stored)
  /\ \A r \in Runtimes : \A i \in 1..Len(pendingEvents[r]) : pendingEvents[r][i].runtime = r
  /\ current # NoSocket =>
       /\ \A x \in Known : \A i \in (received[current] + 1)..Len(outgoing[current][Session]) :
            NotLater(published, x, outgoing[current][Session][i])
       /\ \A k \in 1..Len(answers[current]) :
            LET seen == Known \cup {outgoing[current][Session][i] : i \in 1..answers[current][k].at}
            IN \A x, e \in seen : e.runtime = answers[current][k].runtime => NotLater(published, x, e)

\* An event the client need not ask for again.
Covered(f) == f \in page.heard \cup ToSet(pendingEvents[f.runtime]) \cup lost
Coming(f, upto) == \E j \in (received[current] + 1)..upto : outgoing[current][Session][j] = f

\* Between what was seen and a frame on the way there is no gap; nor after the last frame.
NoGap ==
  current # NoSocket =>
    /\ \A i \in (received[current] + 1)..Len(outgoing[current][Session]) :
         \A f \in ToSet(published) :
           /\ f.runtime = outgoing[current][Session][i].runtime
           /\ f.sequence < outgoing[current][Session][i].sequence
           => Covered(f) \/ Coming(f, i - 1)
    /\ current \in subscribers =>
         \A f \in ToSet(published) :
           f.runtime = activeRuntimes[Session] =>
             Covered(f) \/ Coming(f, Len(outgoing[current][Session]))

\* The cursors are of events that were published.
CursorsFollow ==
  \A r \in Runtimes : sequences[r].sequence # 0 =>
    \E f \in ToSet(published) : /\ f.runtime = r /\ f.epoch = sequences[r].epoch
                                /\ f.sequence = sequences[r].sequence

\* The page has attached over this client: what it holds has been seen on its sockets.
Placed == page.local \/ heldLocal \/ page.entry # NoRuntime
            \/ prompting \in {"preparing", "asked", "started"}

\* A local cursor tells no event that was applied from a new one, so that each event of a runtime
\* must be newer than those held of it.
Newer(x, e) == x.runtime = e.runtime => x.sequence < e.sequence
Seen(x) == x.epoch = sequences[x.runtime].epoch /\ x.sequence <= sequences[x.runtime].sequence
SeenOnceHad(x, upto) ==
  Seen(x) \/ \E i \in (received[current] + 1)..upto :
               /\ outgoing[current][Session][i].runtime = x.runtime
               /\ x.sequence <= outgoing[current][Session][i].sequence

\* The places on the socket after which it need be so: of the answers, and as soon as the page has
\* attached, of what it has taken.
Marks == {answers[current][k].at : k \in 1..Len(answers[current])}
           \cup (IF Placed THEN {received[current]} ELSE {})

FramesAreNewer ==
  current # NoSocket =>
    \A m \in Marks, x \in Known : \A i \in (m + 1)..Len(outgoing[current][Session]) :
      Newer(x, outgoing[current][Session][i])

\* By then, what is held of the active runtime will not be sent again on another socket.
ActiveIsSeen ==
  \A x \in Known : x.runtime = activeRuntimes[Session] =>
    /\ Placed => Seen(x)
    /\ current # NoSocket =>
         /\ \A m \in Marks : SeenOnceHad(x, m)
         /\ current \in subscribers => SeenOnceHad(x, Len(outgoing[current][Session]))

\* A runtime the page may attach to after an answer: it runs, or a later answer names it.
Attachable(r, k) ==
  \/ r \in Runtimes /\ r = activeRuntimes[Session]
  \/ current # NoSocket /\ \E j \in k..Len(answers[current]) : r = answers[current][j].runtime

\* One that is not of that answer had published nothing.
AnswersTell ==
  current # NoSocket =>
    \A k \in 1..Len(answers[current]) : \A r \in Runtimes :
      Attachable(r, k) /\ r # answers[current][k].runtime =>
        /\ \A x \in Known : x.runtime # r
        /\ \A i \in 1..answers[current][k].at : outgoing[current][Session][i].runtime # r

\* What is kept of one for its listener is newer than the copies.
InCopies == ToSet(page.applied) \cup ToSet(held) \cup ToSet(stored)
BufferIsNewer ==
  Placed => \A r \in Runtimes : Attachable(r, 1) =>
    \A x \in InCopies, e \in ToSet(pendingEvents[r]) : Newer(x, e)

LocalTurns ==
  /\ FramesAreNewer /\ ActiveIsSeen /\ AnswersTell /\ BufferIsNewer

WebIInv ==
  /\ WebInvariant /\ HubFollows /\ StartsOnce /\ OnTheWay /\ Sockets /\ Copies /\ CursorsFollow
  /\ NoGap /\ LocalTurns


-----------------------------------------------------------------------------
(* Induction without an operator for the property *)

\* A set of numbers that is not empty has a least one.
LEMMA LeastNumber ==
  ASSUME NEW S \in SUBSET Nat, S # {}
  PROVE  \E n \in S : \A m \in S : n <= m
<1>1. ASSUME NEW R, IsWellFoundedOn(R, Nat)
      PROVE  \E n \in S : \A m \in S : ~ (<<m, n>> \in R)
  BY <1>1, WFMin, Zenon
<1>2. \A m, n \in Nat : m < n => <<m, n>> \in OpToRel(<, Nat)
  BY DEF OpToRel
<1>3. ASSUME NEW R, IsWellFoundedOn(R, Nat), \A x, y \in Nat : x < y => <<x, y>> \in R
      PROVE  \E n \in S : \A m \in S : n <= m
  <2>1. PICK n \in S : \A m \in S : ~ (<<m, n>> \in R)
    BY <1>1, <1>3
  <2>2. \A m \in S : ~ (m < n)
    BY <1>3, <2>1
  <2> QED
    BY <2>2
<1> QED
  BY <1>2, <1>3, NatLessThanWellFounded, Zenon

\* Induction over the numbers, for a set of them instead of an operator.
LEMMA Induction ==
  ASSUME NEW S, 0 \in S, \A n \in Nat : n \in S => n + 1 \in S
  PROVE  Nat \subseteq S
<1>1. SUFFICES ASSUME Nat \ S # {} PROVE FALSE
  OBVIOUS
<1>2. PICK n \in Nat \ S : \A m \in Nat \ S : n <= m
  BY <1>1, LeastNumber
<1>3. n - 1 \in Nat /\ n - 1 \in S
  BY <1>2
<1> QED
  BY <1>2, <1>3


\* A page that events are applied to.
Folded(p, es) == FoldLeft(ApplyEvent, p, es)

\* A fold takes a sequence from its first element to its last.
LEMMA FoldSteps ==
  ASSUME NEW p, NEW es \in Seq(Event)
  PROVE  \E f : /\ f[0] = p /\ f[Len(es)] = Folded(p, es)
                /\ \A i \in 1..Len(es) : f[i] = ApplyEvent(f[i - 1], es[i])
<1> DEFINE Folds(f, n) ==
             f = [s \in SUBSET (1..n) |->
                    IF s = {} THEN p ELSE ApplyEvent(f[s \ {Max(s)}], es[Max(s)])]
           Exists == {n \in Nat : \E f : Folds(f, n)}
<1>1. ASSUME NEW n \in Nat, NEW s \in SUBSET (1..n), n \in s PROVE Max(s) = n
  <2>1. \A x \in s : n >= x /\ x \in Nat
    BY <1>1
  <2>2. \A x \in s : (\A y \in s : x >= y) => x = n
    BY <1>1, <2>1
  <2> QED BY <1>1, <2>1, <2>2 DEF Max
<1>2. 0 \in Exists
  <2> DEFINE f == [s \in SUBSET (1..0) |-> p]
  <2>1. SUBSET (1..0) = {{}}
    OBVIOUS
  <2>2. Folds(f, 0)
    BY <2>1
  <2> QED BY <2>2
<1>3. ASSUME NEW n \in Nat, n \in Exists PROVE n + 1 \in Exists
  <2>1. PICK f : Folds(f, n)
    BY <1>3
  <2> DEFINE g == [s \in SUBSET (1..(n + 1)) |->
                     IF n + 1 \in s THEN ApplyEvent(f[s \ {n + 1}], es[n + 1]) ELSE f[s]]
  <2>2. ASSUME NEW s \in SUBSET (1..(n + 1))
        PROVE  g[s] = IF s = {} THEN p ELSE ApplyEvent(g[s \ {Max(s)}], es[Max(s)])
    <3>1. CASE n + 1 \in s
      <4>1. Max(s) = n + 1
        BY <1>1, <3>1
      <4>2. s \ {n + 1} \in SUBSET (1..(n + 1)) /\ n + 1 \notin s \ {n + 1} /\ s # {}
        BY <3>1
      <4>3. g[s \ {n + 1}] = f[s \ {n + 1}]
        BY <4>2
      <4> QED BY <3>1, <4>1, <4>2, <4>3
    <3>2. CASE n + 1 \notin s
      <4>1. s \in SUBSET (1..n)
        BY <3>2
      <4>2. f[s] = IF s = {} THEN p ELSE ApplyEvent(f[s \ {Max(s)}], es[Max(s)])
        BY <2>1, <4>1
      <4>3. g[s] = f[s] /\ g[s \ {Max(s)}] = f[s \ {Max(s)}]
        BY <3>2
      <4> QED BY <4>2, <4>3
    <3> QED BY <3>1, <3>2
  <2>3. g = [s \in SUBSET (1..(n + 1)) |-> g[s]]
    OBVIOUS
  <2> HIDE DEF g
  <2>4. Folds(g, n + 1)
    BY <2>2, <2>3
  <2> HIDE DEF Folds
  <2> QED BY <1>3, <2>4
<1> HIDE DEF Exists
<1>4. Len(es) \in Nat /\ DOMAIN es = 1..Len(es)
  BY LenProperties
<1>5. Len(es) \in Exists
  BY <1>2, <1>3, <1>4, Induction
<1> DEFINE iter == CHOOSE f : Folds(f, Len(es))
<1>6. Folds(iter, Len(es))
  BY <1>5 DEF Exists
<1>7. Folded(p, es) = iter[1..Len(es)]
  BY <1>4 DEF Folded, FoldLeft, MapThenFoldSet
<1> HIDE DEF iter
<1> DEFINE f == [n \in 0..Len(es) |-> iter[1..n]]
<1>8. f[0] = p
  <2>1. iter[{}] = p
    BY <1>6
  <2>2. 1..0 = {}
    OBVIOUS
  <2> QED BY <1>4, <2>1, <2>2
<1>9. ASSUME NEW n \in 1..Len(es) PROVE f[n] = ApplyEvent(f[n - 1], es[n])
  <2>1. n \in Nat /\ n \in 1..n /\ 1..n \in SUBSET (1..Len(es)) /\ (1..n) \ {n} = 1..(n - 1)
    BY <1>4
  <2>2. Max(1..n) = n
    BY <1>1, <2>1
  <2>3. iter[1..n] = ApplyEvent(iter[(1..n) \ {n}], es[n])
    BY <1>6, <2>1, <2>2
  <2> QED BY <1>4, <2>1, <2>3
<1>10. f[Len(es)] = Folded(p, es)
  BY <1>4, <1>7
<1> QED BY <1>8, <1>9, <1>10

-----------------------------------------------------------------------------
(* The order of publication *)

\* The places of what was published.
LEMMA PublishedPlaces ==
  ASSUME published \in Seq(Event), NEW e, e \in ToSet(published)
  PROVE  \E m \in 1..Len(published) : published[m] = e
BY LenProperties DEF ToSet

\* No event is published twice.
LEMMA PublishedOnce ==
  ASSUME published \in Seq(Event), RunsAreWhole,
         NEW m \in 1..Len(published), NEW n \in 1..Len(published), published[m] = published[n]
  PROVE  m = n
<1>1. \A k \in 1..Len(published) : published[k].sequence \in Nat
  BY EventFields
<1>2. ~ (published[m].sequence < published[n].sequence)
  BY <1>1
<1>3. ~ (published[n].sequence < published[m].sequence)
  BY <1>1
<1> QED BY <1>2, <1>3, LenProperties DEF RunsAreWhole

\* Coming before is transitive, each event being published once.
LEMMA BeforeTransitive ==
  ASSUME published \in Seq(Event), RunsAreWhole, NEW e, NEW f, NEW g,
         Before(published, e, f), Before(published, f, g)
  PROVE  Before(published, e, g)
<1>0. Len(published) \in Nat
  BY LenProperties
<1>1. PICK k, m \in 1..Len(published) : k < m /\ published[k] = e /\ published[m] = f
  BY DEF Before
<1>2. PICK l, n \in 1..Len(published) : l < n /\ published[l] = f /\ published[n] = g
  BY DEF Before
<1>3. m = l
  BY <1>1, <1>2, PublishedOnce
<1>4. k < n
  BY <1>0, <1>1, <1>2, <1>3
<1> QED BY <1>1, <1>2, <1>4 DEF Before

\* Two events of one runtime were published in the order of their numbers.
LEMMA BeforeByNumber ==
  ASSUME published \in Seq(Event), RunsAreWhole, NEW e, NEW f,
         e \in ToSet(published), f \in ToSet(published), e.runtime = f.runtime
  PROVE  /\ e.epoch = f.epoch /\ e.sequence \in Nat /\ f.sequence \in Nat
         /\ Before(published, e, f) <=> e.sequence < f.sequence
         /\ e.sequence = f.sequence => e = f
<1>0. Len(published) \in Nat
  BY LenProperties
<1>1. PICK m \in 1..Len(published) : published[m] = e
  BY PublishedPlaces
<1>2. PICK n \in 1..Len(published) : published[n] = f
  BY PublishedPlaces
<1>3. e.sequence \in Nat /\ f.sequence \in Nat
  BY <1>1, <1>2, EventFields
<1>4. CASE m = n
  <2>1. ~ Before(published, e, f)
    <3>1. \A k, l \in 1..Len(published) : published[k] = e /\ published[l] = f => k = m /\ l = m
      BY <1>1, <1>2, <1>4, PublishedOnce
    <3> QED BY <3>1, <1>0 DEF Before
  <2> QED BY <1>1, <1>2, <1>3, <1>4, <2>1
<1>5. CASE m < n
  BY <1>1, <1>2, <1>3, <1>5 DEF RunsAreWhole, Before
<1>6. CASE n < m
  <2>1. f.epoch = e.epoch /\ f.sequence < e.sequence
    BY <1>1, <1>2, <1>6 DEF RunsAreWhole
  <2>2. ~ Before(published, e, f)
    <3>1. \A k, l \in 1..Len(published) : published[k] = e /\ published[l] = f => k = m /\ l = n
      BY <1>1, <1>2, PublishedOnce
    <3> QED BY <3>1, <1>0, <1>6 DEF Before
  <2> QED BY <1>3, <2>1, <2>2
<1> QED BY <1>0, <1>4, <1>5, <1>6

\* Nothing published is later than an event of the active runtime.
LEMMA NothingAfterActive ==
  ASSUME published \in Seq(Event), ActiveIsNewest, NEW x, NEW e,
         x \in ToSet(published), e \in ToSet(published), e.runtime = activeRuntimes[Session]
  PROVE  NotLater(published, x, e)
<1>0. Len(published) \in Nat
  BY LenProperties
<1>1. PICK m \in 1..Len(published) : published[m] = x
  BY PublishedPlaces
<1>2. PICK n \in 1..Len(published) : published[n] = e
  BY PublishedPlaces
<1>3. CASE m < n
  BY <1>1, <1>2, <1>3 DEF NotLater, Before
<1>4. CASE ~ (m < n)
  <2>1. m \in n..Len(published)
    BY <1>0, <1>4
  <2>2. published[m].runtime = activeRuntimes[Session]
    BY <1>2, <2>1 DEF ActiveIsNewest
  <2> QED BY <1>1, <2>2 DEF NotLater
<1> QED BY <1>3, <1>4

-----------------------------------------------------------------------------
(* What the page does with events *)

\* An event is added to a copy that has nothing later, unless it is there.
LEMMA AppendInOrder ==
  ASSUME published \in Seq(Event), RunsAreWhole, NEW copy \in Seq(Event), InOrder(published, copy),
         ToSet(copy) \subseteq ToSet(published), NEW e, e \in ToSet(published),
         \A x \in ToSet(copy) : NotLater(published, x, e),
         copy # << >> => ~ (/\ Last(copy).runtime = e.runtime /\ Last(copy).epoch = e.epoch
                            /\ Last(copy).sequence >= e.sequence)
  PROVE  /\ Append(copy, e) \in Seq(Event) /\ InOrder(published, Append(copy, e))
         /\ ToSet(Append(copy, e)) = ToSet(copy) \cup {e}
<1>1. e \in Event
  BY PublishedPlaces, ElementOfSeq
<1>2. /\ Append(copy, e) \in Seq(Event) /\ Len(copy) \in Nat
      /\ Len(Append(copy, e)) = Len(copy) + 1 /\ Append(copy, e)[Len(copy) + 1] = e
      /\ \A i \in 1..Len(copy) : Append(copy, e)[i] = copy[i] /\ copy[i] \in ToSet(copy)
      /\ DOMAIN copy = 1..Len(copy) /\ DOMAIN Append(copy, e) = 1..(Len(copy) + 1)
  BY <1>1, AppendProperties, LenProperties DEF ToSet
<1>3. ASSUME NEW i \in 1..Len(copy) PROVE Before(published, copy[i], e)
  <2>1. copy # << >> /\ Len(copy) \in 1..Len(copy) /\ Last(copy) = copy[Len(copy)]
    BY <1>2, <1>3 DEF Last
  <2>2. Last(copy) \in ToSet(copy)
    BY <1>2, <2>1
  <2>3. Before(published, Last(copy), e)
    <3>1. CASE Last(copy).runtime = e.runtime
      <4>1. /\ Last(copy).epoch = e.epoch /\ Last(copy).sequence \in Nat /\ e.sequence \in Nat
            /\ Before(published, Last(copy), e) <=> Last(copy).sequence < e.sequence
        BY <2>2, <3>1, BeforeByNumber
      <4> QED BY <2>1, <3>1, <4>1
    <3>2. CASE Last(copy).runtime # e.runtime
      BY <2>2, <3>2 DEF NotLater
    <3> QED BY <3>1, <3>2
  <2>4. CASE i = Len(copy)
    BY <2>1, <2>3, <2>4
  <2>5. CASE i < Len(copy)
    <3>1. Before(published, copy[i], Last(copy))
      BY <2>1, <2>5 DEF InOrder
    <3> QED BY <2>3, <3>1, BeforeTransitive
  <2>6. i = Len(copy) \/ i < Len(copy)
    <3>1. Len(copy) \in Nat /\ i \in 1..Len(copy)
      BY <1>2, <1>3
    <3> QED BY <3>1
  <2> QED BY <2>4, <2>5, <2>6
<1>4. InOrder(published, Append(copy, e))
  <2> SUFFICES ASSUME NEW i \in 1..Len(Append(copy, e)), NEW j \in 1..Len(Append(copy, e)), i < j
               PROVE  Before(published, Append(copy, e)[i], Append(copy, e)[j])
    BY DEF InOrder
  <2>1. i \in 1..Len(copy) /\ (j \in 1..Len(copy) \/ j = Len(copy) + 1)
    BY <1>2
  <2> QED BY <1>2, <1>3, <2>1 DEF InOrder
<1>5. ToSet(Append(copy, e)) = ToSet(copy) \cup {e}
  <2>1. \A i \in 1..(Len(copy) + 1) : i \in 1..Len(copy) \/ i = Len(copy) + 1
    BY <1>2
  <2>2. 1..Len(copy) \subseteq 1..(Len(copy) + 1) /\ Len(copy) + 1 \in 1..(Len(copy) + 1)
    BY <1>2
  <2> QED BY <1>2, <2>1, <2>2 DEF ToSet
<1> QED BY <1>2, <1>4, <1>5

\* How the page p has become q by events E: its copy is in order, its entry and listeners stay
\* or one goes.
Hears(p, q, E) ==
  /\ q \in Pages /\ Listens(q) /\ InOrder(published, q.applied)
  /\ q.heard = p.heard \cup E /\ ToSet(q.applied) \subseteq ToSet(p.applied) \cup E
  /\ \A r \in Runtimes : q.listeners[r] <= p.listeners[r]
  /\ q.entry \in {p.entry, NoRuntime} /\ (q.local => p.local)

\* removeRuntime takes the entry and one listener, and leaves what was applied and heard.
LEMMA RemoveRuntimeKeeps ==
  ASSUME NEW p \in Pages, Listens(p)
  PROVE  LET q == RemoveRuntime(p) IN
         /\ q \in Pages /\ Listens(q) /\ q.applied = p.applied /\ q.heard = p.heard
         /\ \A r \in Runtimes : q.listeners[r] <= p.listeners[r]
         /\ q.entry = NoRuntime /\ q.local = p.local
<1>1. CASE p.entry = NoRuntime
  BY <1>1 DEF RemoveRuntime, Pages
<1>2. CASE p.entry # NoRuntime
  <2>1. p.entry \in Runtimes /\ p.listeners[p.entry] \in Nat \ {0} /\ p.listeners[p.entry] - 1 \in Nat
    BY <1>2 DEF Pages, Listens
  <2>2. RemoveRuntime(p) = [p EXCEPT !.entry = NoRuntime, !.listeners[p.entry] = @ - 1]
    BY <1>2 DEF RemoveRuntime
  <2>3. RemoveRuntime(p) \in Pages /\ RemoveRuntime(p).applied = p.applied
        /\ RemoveRuntime(p).heard = p.heard /\ RemoveRuntime(p).entry = NoRuntime
        /\ RemoveRuntime(p).local = p.local
    <3>1. [p.listeners EXCEPT ![p.entry] = @ - 1] \in [Runtimes -> Nat]
      BY <2>1 DEF Pages
    <3>2. RemoveRuntime(p) = [entry |-> NoRuntime,
                               listeners |-> [p.listeners EXCEPT ![p.entry] = @ - 1],
                              applied |-> p.applied, local |-> p.local, heard |-> p.heard]
      BY <2>1, <2>2 DEF Pages
    <3> QED BY <3>1, <3>2 DEF Pages
  <2>4. \A r \in Runtimes : RemoveRuntime(p).listeners[r] <= p.listeners[r]
    BY <2>1, <2>2 DEF Pages
  <2> QED BY <2>3, <2>4 DEF Listens
<1> QED BY <1>1, <1>2

\* A listener is called with an event that is not before what the task has.
LEMMA ApplyEventHears ==
  ASSUME published \in Seq(Event), RunsAreWhole, NEW p \in Pages, Listens(p),
         InOrder(published, p.applied),
         ToSet(p.applied) \subseteq ToSet(published), NEW e, e \in ToSet(published),
         \A x \in ToSet(p.applied) : NotLater(published, x, e) /\ (p.local => Newer(x, e))
  PROVE  Hears(p, ApplyEvent(p, e), {e}) /\ ApplyEvent(p, e).local = FALSE
<1>1. e \in Event
  BY PublishedPlaces, ElementOfSeq
<1> DEFINE heard == [p EXCEPT !.heard = @ \cup {e}]
           applied == [heard EXCEPT !.applied = Append(@, e), !.local = FALSE]
<1>2. heard \in Pages /\ Listens(heard) /\ heard.heard = p.heard \cup {e} /\ heard.applied = p.applied
      /\ heard.listeners = p.listeners /\ heard.entry = p.entry /\ heard.local = p.local
  BY <1>1 DEF Pages, Listens
<1>3. \A r \in Runtimes : p.listeners[r] \in Nat
  BY DEF Pages
<1>4. CASE AlreadyApplied(p, e)
  BY <1>2, <1>3, <1>4 DEF ApplyEvent, Hears, AlreadyApplied
<1>5. CASE ~ AlreadyApplied(p, e)
  <2>1. /\ Append(p.applied, e) \in Seq(Event) /\ InOrder(published, Append(p.applied, e))
        /\ ToSet(Append(p.applied, e)) = ToSet(p.applied) \cup {e}
    <3>1. p.applied \in Seq(Event)
      BY DEF Pages
    <3>2. p.applied # << >> => ~ (/\ Last(p.applied).runtime = e.runtime
                                 /\ Last(p.applied).epoch = e.epoch
                                 /\ Last(p.applied).sequence >= e.sequence)
      <4>1. CASE ~ p.local
        BY <1>5, <4>1 DEF AlreadyApplied
      <4>2. CASE p.local /\ p.applied # << >>
        <5>1. Last(p.applied) \in ToSet(p.applied)
          <6>1. Len(p.applied) \in Nat /\ Len(p.applied) # 0 /\ DOMAIN p.applied = 1..Len(p.applied)
            BY <3>1, <4>2, EmptySeq, LenProperties
          <6>2. Len(p.applied) \in DOMAIN p.applied
            BY <6>1
          <6> QED BY <6>2 DEF Last, ToSet
        <5>2. Newer(Last(p.applied), e)
          BY <4>2, <5>1
        <5>3. Last(p.applied).sequence \in Nat /\ e.sequence \in Nat
          BY <5>1, PublishedPlaces, EventFields
        <5> QED BY <5>2, <5>3 DEF Newer
      <4> QED BY <4>1, <4>2
    <3> QED BY <3>1, <3>2, AppendInOrder
  <2>2. /\ applied \in Pages /\ Listens(applied) /\ applied.heard = p.heard \cup {e}
        /\ applied.applied = Append(p.applied, e) /\ applied.listeners = p.listeners
        /\ applied.entry = p.entry /\ applied.local = FALSE
    BY <1>1, <2>1 DEF Pages, Listens
  <2>3. Hears(p, applied, {e})
    BY <1>3, <2>1, <2>2 DEF Hears
  <2>4. Hears(p, RemoveRuntime(applied), {e}) /\ RemoveRuntime(applied).local = FALSE
    <3>1. LET q == RemoveRuntime(applied) IN
             /\ q \in Pages /\ Listens(q) /\ q.applied = applied.applied /\ q.heard = applied.heard
             /\ \A r \in Runtimes : q.listeners[r] <= applied.listeners[r]
             /\ q.entry = NoRuntime /\ q.local = applied.local
      BY <2>2, RemoveRuntimeKeeps
    <3> QED BY <2>1, <2>2, <3>1 DEF Hears
  <2> QED BY <1>5, <2>2, <2>3, <2>4 DEF ApplyEvent
<1> QED BY <1>4, <1>5

\* Several events of one runtime.
LEMMA FoldHears ==
  ASSUME published \in Seq(Event), RunsAreWhole, NEW p \in Pages, Listens(p),
         InOrder(published, p.applied),
         ToSet(p.applied) \subseteq ToSet(published), NEW es \in Seq(Event), NEW r,
         \A i \in 1..Len(es) : /\ es[i] \in ToSet(published) /\ es[i].runtime = r
                               /\ \A x \in ToSet(p.applied) :
                                    NotLater(published, x, es[i]) /\ (p.local => Newer(x, es[i]))
  PROVE  Hears(p, Folded(p, es), ToSet(es))
<1>0. Len(es) \in Nat /\ DOMAIN es = 1..Len(es)
  BY LenProperties
<1>1. PICK f : /\ f[0] = p /\ f[Len(es)] = Folded(p, es)
               /\ \A i \in 1..Len(es) : f[i] = ApplyEvent(f[i - 1], es[i])
  BY FoldSteps
<1> DEFINE Reached == {n \in Nat : n <= Len(es) => /\ Hears(p, f[n], {es[i] : i \in 1..n})
                                                   /\ f[n].local => f[n] = p}
<1>2. 0 \in Reached
  <2>1. {es[i] : i \in 1..0} = {} /\ \A s \in Runtimes : p.listeners[s] \in Nat
    BY DEF Pages
  <2> QED BY <1>1, <2>1 DEF Hears
<1>3. ASSUME NEW n \in Nat, n \in Reached PROVE n + 1 \in Reached
  <2> SUFFICES ASSUME n + 1 <= Len(es)
               PROVE  /\ Hears(p, f[n + 1], {es[i] : i \in 1..(n + 1)})
                      /\ f[n + 1].local => f[n + 1] = p
    BY <1>3
  <2>0. n + 1 \in 1..Len(es) /\ (n + 1) - 1 = n
    BY <1>0
  <2>1. Hears(p, f[n], {es[i] : i \in 1..n}) /\ (f[n].local => f[n] = p)
    BY <1>0, <1>3
  <2>2. \A i \in 1..n : i \in 1..Len(es)
    BY <1>0
  <2>3. /\ ToSet(f[n].applied) \subseteq ToSet(published)
        /\ \A x \in ToSet(f[n].applied) : NotLater(published, x, es[n + 1])
    BY <2>0, <2>1, <2>2 DEF Hears, NotLater
  <2>31. \A x \in ToSet(f[n].applied) : f[n].local => Newer(x, es[n + 1])
    BY <2>0, <2>1
  <2>4. Hears(f[n], ApplyEvent(f[n], es[n + 1]), {es[n + 1]}) /\ ApplyEvent(f[n], es[n + 1]).local = FALSE
    BY <2>31, <2>0, <2>1, <2>3, ApplyEventHears DEF Hears
  <2>5. f[n + 1] = ApplyEvent(f[n], es[n + 1])
    BY <1>1, <2>0
  <2>6. {es[i] : i \in 1..(n + 1)} = {es[i] : i \in 1..n} \cup {es[n + 1]}
    BY <1>3
  <2>7. \A s \in Runtimes : f[n + 1].listeners[s] <= p.listeners[s]
    <3>1. \A s \in Runtimes : /\ f[n].listeners[s] \in Nat /\ f[n + 1].listeners[s] \in Nat
                              /\ p.listeners[s] \in Nat
      BY <2>1, <2>4, <2>5 DEF Hears, Pages
    <3> QED BY <2>1, <2>4, <2>5, <3>1 DEF Hears
  <2> QED BY <2>1, <2>4, <2>5, <2>6, <2>7 DEF Hears
<1> HIDE DEF Reached
<1>4. Len(es) \in Reached
  BY <1>0, <1>2, <1>3, Induction
<1>5. ToSet(es) = {es[i] : i \in 1..Len(es)}
  BY <1>0 DEF ToSet
<1> QED BY <1>0, <1>1, <1>4, <1>5 DEF Reached

-----------------------------------------------------------------------------
(* The hub, and what it has published *)

\* What was published before stays so, and before the new event.
LEMMA PublishedGrows ==
  ASSUME published \in Seq(Event), NEW e \in Event, published' = Append(published, e)
  PROVE  /\ published' \in Seq(Event) /\ Len(published') = Len(published) + 1
         /\ published'[Len(published) + 1] = e
         /\ \A m \in 1..Len(published) : published'[m] = published[m]
         /\ ToSet(published)' = ToSet(published) \cup {e}
         /\ \A x, y : Before(published, x, y) => Before(published', x, y)
         /\ \A x, y : NotLater(published, x, y) => NotLater(published', x, y)
         /\ \A x \in ToSet(published) : Before(published', x, e) /\ NotLater(published', x, e)
<1>1. /\ published' \in Seq(Event) /\ Len(published') = Len(published) + 1 /\ Len(published) \in Nat
      /\ published'[Len(published) + 1] = e
      /\ \A m \in 1..Len(published) : published'[m] = published[m]
      /\ DOMAIN published = 1..Len(published) /\ DOMAIN published' = 1..(Len(published) + 1)
  BY AppendProperties, LenProperties
<1>2. /\ 1..Len(published) \subseteq 1..(Len(published) + 1)
      /\ Len(published) + 1 \in 1..(Len(published) + 1)
      /\ \A m \in 1..(Len(published) + 1) : m \in 1..Len(published) \/ m = Len(published) + 1
      /\ \A m \in 1..Len(published) : m < Len(published) + 1
  BY <1>1
<1>3. ToSet(published)' = ToSet(published) \cup {e}
  BY <1>1, <1>2 DEF ToSet
<1>4. ASSUME NEW x, NEW y, Before(published, x, y) PROVE Before(published', x, y)
  <2>1. PICK m, n \in 1..Len(published) : m < n /\ published[m] = x /\ published[n] = y
    BY <1>4 DEF Before
  <2> QED BY <1>1, <1>2, <2>1 DEF Before
<1>5. ASSUME NEW x \in ToSet(published) PROVE Before(published', x, e)
  <2>1. PICK m \in 1..Len(published) : published[m] = x
    BY PublishedPlaces
  <2> QED BY <1>1, <1>2, <2>1 DEF Before
<1> QED BY <1>1, <1>3, <1>4, <1>5 DEF NotLater

\* Nothing is sent.
LEMMA FramesKept ==
  ASSUME FramesInOrder, UNCHANGED <<outgoing, published>>
  PROVE  FramesInOrder'
BY DEF FramesInOrder, Before

\* The hub does nothing.
LEMMA HubKept ==
  ASSUME HubFollows, UNCHANGED <<hubVars, published>>
  PROVE  HubFollows'
<1>0. /\ HubTypeOK /\ RunsAreWhole /\ ActiveIsNewest /\ EmittedIsPublished /\ JournalIsKept
      /\ FramesInOrder
      /\ UNCHANGED <<epoch, activeRuntimes, nextSequences, journal, subscribers, opened, outgoing,
                     begun, emitted, resumedAt, published>>
  BY DEF HubFollows, hubVars
<1>1. HubTypeOK'
  BY <1>0 DEF HubTypeOK
<1>2. RunsAreWhole' /\ ActiveIsNewest'
  BY <1>0 DEF RunsAreWhole, ActiveIsNewest
<1>3. EmittedIsPublished' /\ JournalIsKept'
  BY <1>0 DEF EmittedIsPublished, JournalIsKept
<1>4. FramesInOrder'
  BY <1>0, FramesKept
<1> QED BY <1>1, <1>2, <1>3, <1>4 DEF HubFollows

\* A runtime begins that has published nothing, or the hub forgets the one it had.
LEMMA HubBegins ==
  ASSUME HubFollows, HubTypeOK', published \in Seq(Event), UNCHANGED <<outgoing, published>>,
         NEW r \in Runtimes \cup {NoRuntime}, activeRuntimes'[Session] = r,
         \A m \in 1..Len(published) : published[m].runtime # r,
         \A q \in Runtimes : emitted'[Session][q] \in {emitted[Session][q], << >>},
         r \in Runtimes => journal'[Session][r] = << >>
  PROVE  HubFollows'
<1>1. RunsAreWhole'
  BY DEF HubFollows, RunsAreWhole
<1>2. ActiveIsNewest'
  BY DEF ActiveIsNewest
<1>3. EmittedIsPublished'
  BY DEF HubFollows, EmittedIsPublished
<1>4. JournalIsKept'
  <2> SUFFICES ASSUME r # NoRuntime
               PROVE  IsNewestOf(journal'[Session][r], emitted'[Session][r])
    BY DEF JournalIsKept
  <2>1. r \in Runtimes /\ emitted'[Session][r] \in Seq(Event)
    BY WebSessionAssumption DEF HubTypeOK
  <2>2. ASSUME NEW i \in 1..Len(emitted'[Session][r]) PROVE FALSE
    <3>1. emitted'[Session][r] = emitted[Session][r]
      BY <2>1, <2>2
    <3>2. emitted[Session][r][i] \in ToSet(published) /\ emitted[Session][r][i].runtime = r
      BY <2>1, <2>2, <3>1 DEF HubFollows, EmittedIsPublished
    <3> QED BY <3>2, PublishedPlaces
  <2>3. Len(emitted'[Session][r]) = 0 /\ Len(<< >>) = 0
    BY <2>1, <2>2, LenProperties
  <2>4. journal'[Session][r] = << >>
    BY <2>1
  <2> QED BY <2>3, <2>4, MaxReplayAssumption DEF IsNewestOf
<1>5. FramesInOrder'
  BY FramesKept DEF HubFollows
<1> QED BY <1>1, <1>2, <1>3, <1>4, <1>5 DEF HubFollows

\* The hub emits an event of the active runtime: it is numbered, kept in the journal and sent to
\* each subscriber behind what that was sent before.
LEMMA PublicationHub ==
  ASSUME HubFollows, published \in Seq(Event), NEW r \in Runtimes, NEW payload \in Payloads,
         Publication(r, payload)
  PROVE  \E e \in Event :
           /\ HubFollows' /\ published' = Append(published, e) /\ e.runtime = r
           /\ activeRuntimes[Session] = r /\ activeRuntimes' = activeRuntimes
           /\ subscribers' = subscribers /\ opened' = opened
           /\ \A c \in Connections :
                outgoing'[c][Session] = IF c \in subscribers THEN Append(outgoing[c][Session], e)
                                                             ELSE outgoing[c][Session]
<1> DEFINE e == [runtime |-> r, epoch |-> epoch, sequence |-> SequenceOfNext(Session, r),
                 payload |-> payload]
<1>0. Session \in Sessions /\ HubTypeOK /\ RunsAreWhole /\ ActiveIsNewest /\ EmittedIsPublished
      /\ JournalIsKept /\ FramesInOrder
  BY WebSessionAssumption DEF HubFollows
<1>1. /\ activeRuntimes[Session] = r /\ Publish(Session, r, payload, TRUE)
      /\ published' = Append(published, e)
  BY DEF Publication, Emit
<1>2. HubTypeOK'
  BY <1>0, <1>1, PublishType
<1>3. /\ e \in Event /\ e.runtime = r /\ e.epoch = epoch
      /\ e.sequence = nextSequences[Session][r] + 1 /\ nextSequences[Session][r] \in Nat
  BY <1>0 DEF HubTypeOK, Event, SequenceOfNext
<1>4. /\ nextSequences'[Session][r] = e.sequence
      /\ journal'[Session][r] = Retain(Append(journal[Session][r], e))
      /\ emitted'[Session][r] = Append(emitted[Session][r], e)
      /\ \A q \in Runtimes : q # r => emitted'[Session][q] = emitted[Session][q]
      /\ UNCHANGED <<epoch, activeRuntimes, subscribers, opened>>
  BY <1>0, <1>1, <1>3 DEF Publish, HubTypeOK
<1>5. \A c \in Connections :
        outgoing'[c][Session] = IF c \in subscribers THEN Append(outgoing[c][Session], e)
                                                     ELSE outgoing[c][Session]
  BY <1>0, <1>1 DEF Publish, HubTypeOK
<1> HIDE DEF e
<1>61. Len(published) \in Nat
  BY LenProperties
<1>6. /\ Len(published') = Len(published) + 1 /\ Len(published) \in Nat
      /\ published'[Len(published) + 1] = e
      /\ \A m \in 1..Len(published) : published'[m] = published[m]
      /\ ToSet(published)' = ToSet(published) \cup {e}
      /\ \A x, y : Before(published, x, y) => Before(published', x, y)
      /\ \A x \in ToSet(published) : Before(published', x, e)
  BY <1>1, <1>3, <1>61, PublishedGrows
<1>7. \A m \in 1..Len(published') : m \in 1..Len(published) \/ m = Len(published) + 1
  BY <1>6
<1>8. \A m \in 1..Len(published) : published[m].runtime = r =>
        /\ published[m].epoch = epoch /\ published[m].sequence < e.sequence
        /\ published[m].sequence \in Nat
        /\ \A k \in m..Len(published) : published[k].runtime = r
  BY <1>0, <1>1, <1>3, EventFields DEF ActiveIsNewest
<1>9. RunsAreWhole'
  <2> SUFFICES ASSUME NEW m \in 1..Len(published'), NEW n \in 1..Len(published'), m < n,
                      published'[m].runtime = published'[n].runtime
               PROVE  /\ published'[m].epoch = published'[n].epoch
                      /\ published'[m].sequence < published'[n].sequence
                      /\ \A k \in m..n : published'[k].runtime = published'[m].runtime
    BY DEF RunsAreWhole
  <2>1. m \in 1..Len(published)
    BY <1>6
  <2>2. CASE n \in 1..Len(published)
    <3>1. \A k \in m..n : k \in 1..Len(published)
      BY <1>6, <2>1, <2>2
    <3> QED BY <1>0, <1>6, <2>1, <2>2, <3>1 DEF RunsAreWhole
  <2>3. CASE n = Len(published) + 1
    <3>1. published[m].runtime = r
      BY <1>3, <1>6, <2>1, <2>3
    <3>2. \A k \in m..n : k = Len(published) + 1 \/ (k \in m..Len(published) /\ k \in 1..Len(published))
      BY <1>6, <2>1, <2>3
    <3> QED BY <1>3, <1>6, <1>8, <2>1, <2>3, <3>1, <3>2
  <2> QED BY <1>7, <2>2, <2>3
<1>10. ActiveIsNewest'
  <2> SUFFICES ASSUME NEW m \in 1..Len(published'), published'[m].runtime = r
               PROVE  /\ published'[m].epoch = epoch
                      /\ published'[m].sequence <= nextSequences'[Session][r]
                      /\ \E i \in 1..Len(emitted'[Session][r]) : emitted'[Session][r][i] = published'[m]
                      /\ \A k \in m..Len(published') : published'[k].runtime = r
    BY <1>1, <1>4 DEF ActiveIsNewest
  <2>0. emitted[Session][r] \in Seq(Event)
    BY <1>0 DEF HubTypeOK
  <2>1. /\ Len(emitted[Session][r]) \in Nat
        /\ Len(emitted'[Session][r]) = Len(emitted[Session][r]) + 1
        /\ emitted'[Session][r][Len(emitted[Session][r]) + 1] = e
        /\ \A i \in 1..Len(emitted[Session][r]) : emitted'[Session][r][i] = emitted[Session][r][i]
    BY <1>3, <1>4, <2>0, AppendFacts
  <2>2. CASE m \in 1..Len(published)
    <3>1. PICK i \in 1..Len(emitted[Session][r]) : emitted[Session][r][i] = published[m]
      BY <1>0, <1>1, <1>6, <2>2 DEF ActiveIsNewest
    <3>2. i \in 1..Len(emitted'[Session][r]) /\ emitted'[Session][r][i] = published'[m]
      BY <1>6, <2>1, <2>2, <3>1
    <3>3. \A k \in m..Len(published') :
            k = Len(published) + 1 \/ (k \in m..Len(published) /\ k \in 1..Len(published))
      BY <1>6, <2>2
    <3>4. published'[m] = published[m] /\ published[m].runtime = r
      BY <1>6, <2>2
    <3>5. /\ published[m].epoch = epoch /\ published[m].sequence \in Nat
          /\ published[m].sequence < e.sequence
          /\ \A k \in m..Len(published) : published[k].runtime = r
      BY <1>8, <2>2, <3>4
    <3>6. \A k \in m..Len(published') : published'[k].runtime = r
      BY <1>3, <1>6, <3>3, <3>5
    <3>7. published'[m].sequence <= nextSequences'[Session][r]
      BY <1>3, <1>4, <3>4, <3>5
    <3> QED BY <3>2, <3>4, <3>5, <3>6, <3>7
  <2>3. CASE m = Len(published) + 1
    <3>1. Len(emitted[Session][r]) + 1 \in 1..Len(emitted'[Session][r])
      BY <2>1
    <3>2. \A k \in m..Len(published') : k = Len(published) + 1
      BY <1>6, <2>3
    <3>3. published'[m] = e
      BY <1>6, <2>3
    <3>4. e.sequence <= nextSequences'[Session][r]
      BY <1>3, <1>4
    <3>5. \A k \in m..Len(published') : published'[k].runtime = r
      BY <1>3, <1>6, <3>2
    <3> QED BY <1>3, <2>1, <3>1, <3>3, <3>4, <3>5
  <2> QED BY <1>7, <2>2, <2>3
<1>11. EmittedIsPublished'
  <2> SUFFICES ASSUME NEW q \in Runtimes, NEW i \in 1..Len(emitted'[Session][q])
               PROVE  /\ emitted'[Session][q][i] \in ToSet(published)'
                      /\ emitted'[Session][q][i].runtime = q
                      /\ \A j \in 1..Len(emitted'[Session][q]) : i < j =>
                           emitted'[Session][q][i].sequence < emitted'[Session][q][j].sequence
    BY DEF EmittedIsPublished
  <2>1. CASE q # r
    BY <1>0, <1>4, <1>6, <2>1 DEF EmittedIsPublished
  <2>2. CASE q = r
    <3>0. emitted[Session][r] \in Seq(Event)
      BY <1>0 DEF HubTypeOK
    <3>1. /\ Len(emitted[Session][r]) \in Nat
          /\ Len(emitted'[Session][r]) = Len(emitted[Session][r]) + 1
          /\ emitted'[Session][r][Len(emitted[Session][r]) + 1] = e
          /\ \A k \in 1..Len(emitted[Session][r]) : emitted'[Session][r][k] = emitted[Session][r][k]
      BY <1>3, <1>4, <3>0, AppendFacts
    <3>2. ASSUME NEW k \in 1..Len(emitted[Session][r])
          PROVE  /\ emitted[Session][r][k] \in ToSet(published) /\ emitted[Session][r][k].runtime = r
                 /\ emitted[Session][r][k].sequence < e.sequence
      <4>1. emitted[Session][r][k] \in ToSet(published) /\ emitted[Session][r][k].runtime = r
        BY <1>0 DEF EmittedIsPublished
      <4> QED BY <1>8, <4>1, PublishedPlaces
    <3>3. \A j \in 1..Len(emitted'[Session][r]) :
            j \in 1..Len(emitted[Session][r]) \/ j = Len(emitted[Session][r]) + 1
      BY <3>1
    <3>4. CASE i \in 1..Len(emitted[Session][r])
      <4>1. \A j \in 1..Len(emitted[Session][r]) :
              i < j => emitted[Session][r][i].sequence < emitted[Session][r][j].sequence
        BY <1>0, <3>4 DEF EmittedIsPublished
      <4> QED BY <1>6, <2>2, <3>1, <3>2, <3>3, <3>4, <4>1
    <3>5. CASE i = Len(emitted[Session][r]) + 1
      BY <1>3, <1>6, <2>2, <3>1, <3>5
    <3> QED BY <2>2, <3>3, <3>4, <3>5
  <2> QED BY <2>1, <2>2
<1>12. JournalIsKept'
  <2>1. r # NoRuntime /\ IsNewestOf(journal[Session][r], emitted[Session][r])
    BY <1>0, <1>1, NoRuntimeAssumption DEF JournalIsKept
  <2>2. journal[Session][r] \in Seq(Event) /\ emitted[Session][r] \in Seq(Event)
    BY <1>0 DEF HubTypeOK
  <2> QED BY <1>1, <1>3, <1>4, <2>1, <2>2, RetainKeepsNewest DEF JournalIsKept
<1>13. FramesInOrder'
  <2> SUFFICES ASSUME NEW c \in Connections, NEW i \in 1..Len(outgoing'[c][Session])
               PROVE  /\ outgoing'[c][Session][i] \in ToSet(published)'
                      /\ \A j \in 1..Len(outgoing'[c][Session]) :
                           i < j => Before(published', outgoing'[c][Session][i], outgoing'[c][Session][j])
    BY DEF FramesInOrder
  <2>0. outgoing[c][Session] \in Seq(Event)
    BY <1>0 DEF HubTypeOK
  <2>1. CASE c \notin subscribers
    BY <1>0, <1>5, <1>6, <2>1 DEF FramesInOrder
  <2>2. CASE c \in subscribers
    <3>0. outgoing'[c][Session] = Append(outgoing[c][Session], e)
      BY <1>5, <2>2
    <3>1. /\ Len(outgoing[c][Session]) \in Nat
          /\ Len(outgoing'[c][Session]) = Len(outgoing[c][Session]) + 1
          /\ outgoing'[c][Session][Len(outgoing[c][Session]) + 1] = e
          /\ \A k \in 1..Len(outgoing[c][Session]) : outgoing'[c][Session][k] = outgoing[c][Session][k]
      BY <1>3, <2>0, <3>0, AppendFacts
    <3>2. \A k \in 1..Len(outgoing[c][Session]) :
            /\ outgoing[c][Session][k] \in ToSet(published)
            /\ \A j \in 1..Len(outgoing[c][Session]) :
                 k < j => Before(published, outgoing[c][Session][k], outgoing[c][Session][j])
      BY <1>0 DEF FramesInOrder
    <3>3. \A j \in 1..Len(outgoing'[c][Session]) :
            j \in 1..Len(outgoing[c][Session]) \/ j = Len(outgoing[c][Session]) + 1
      BY <3>1
    <3>4. CASE i \in 1..Len(outgoing[c][Session])
      <4>1. /\ outgoing'[c][Session][i] = outgoing[c][Session][i]
            /\ outgoing[c][Session][i] \in ToSet(published)
        BY <3>1, <3>2, <3>4
      <4>2. ASSUME NEW j \in 1..Len(outgoing'[c][Session]), i < j
            PROVE  Before(published', outgoing'[c][Session][i], outgoing'[c][Session][j])
        <5>1. CASE j \in 1..Len(outgoing[c][Session])
          <6>1. Before(published, outgoing[c][Session][i], outgoing[c][Session][j])
            BY <3>2, <3>4, <4>2, <5>1
          <6> QED BY <1>6, <3>1, <4>1, <5>1, <6>1
        <5>2. CASE j = Len(outgoing[c][Session]) + 1
          BY <1>6, <3>1, <4>1, <5>2
        <5> QED BY <3>3, <5>1, <5>2
      <4> QED BY <1>6, <4>1, <4>2
    <3>5. CASE i = Len(outgoing[c][Session]) + 1
      <4>1. \A j \in 1..Len(outgoing'[c][Session]) : ~ (i < j)
        BY <3>1, <3>5
      <4> QED BY <1>6, <3>1, <3>5, <4>1
    <3> QED BY <3>3, <3>4, <3>5
  <2> QED BY <2>1, <2>2
<1> QED BY <1>1, <1>2, <1>3, <1>4, <1>5, <1>9, <1>10, <1>11, <1>12, <1>13 DEF HubFollows

\* What a new subscriber is sent: the events of the active runtime after its cursor, in order.
LEMMA SubscribeHub ==
  ASSUME HubFollows, published \in Seq(Event), NEW c \in Connections, NEW cursors,
         \A s \in Sessions, r \in Runtimes : cursors[s][r] \in Cursor, Subscribe(c, cursors),
         UNCHANGED published
  PROVE  /\ HubFollows'
         /\ \A d \in Connections : d # c => outgoing'[d] = outgoing[d]
         /\ \A i \in 1..Len(outgoing'[c][Session]) :
              /\ outgoing'[c][Session][i] \in ToSet(published)
              /\ outgoing'[c][Session][i].runtime = activeRuntimes[Session]
         /\ \A f \in ToSet(published) :
              /\ f.runtime = activeRuntimes[Session]
              /\ f.sequence > ResumePoint(cursors, Session, f.runtime)
              /\ f.sequence > EvictedUpTo(Session, f.runtime)
              => \E i \in 1..Len(outgoing'[c][Session]) : outgoing'[c][Session][i] = f
         /\ \A i \in 1..Len(outgoing'[c][Session]) :
              outgoing'[c][Session][i].sequence > ResumePoint(cursors, Session, activeRuntimes[Session])
         /\ \A f \in ToSet(published) :
              /\ f.runtime = activeRuntimes[Session]
              /\ f.sequence > ResumePoint(cursors, Session, f.runtime)
              => \E i \in 1..Len(outgoing'[c][Session]) : f.sequence <= outgoing'[c][Session][i].sequence
<1> DEFINE r == activeRuntimes[Session]
           log == journal[Session][r]
           all == emitted[Session][r]
           sent == outgoing'[c][Session]
<1>0. Session \in Sessions /\ HubTypeOK /\ RunsAreWhole /\ ActiveIsNewest /\ EmittedIsPublished
      /\ JournalIsKept /\ FramesInOrder
  BY WebSessionAssumption DEF HubFollows
<1>1. HubTypeOK'
  BY <1>0, SubscribeType
<1>2. PICK cut \in [Sessions -> 0..MaxReplay] :
        /\ \A s \in Sessions : ReplayCut(cursors, s, cut[s])
        /\ outgoing' = [outgoing EXCEPT ![c] = [s \in Sessions |->
                          SubSeq(JournalOf(s), cut[s] + 1, Len(JournalOf(s)))]]
  BY DEF Subscribe
<1>3. UNCHANGED <<epoch, activeRuntimes, nextSequences, journal, begun, emitted>>
  BY DEF Subscribe
<1>4. /\ sent = SubSeq(JournalOf(Session), cut[Session] + 1, Len(JournalOf(Session)))
      /\ \A d \in Connections : d # c => outgoing'[d] = outgoing[d]
      /\ cut[Session] \in Nat
  BY <1>0, <1>2, MaxReplayAssumption DEF HubTypeOK
<1>5. CASE r = NoRuntime
  <2>1. JournalOf(Session) = << >> /\ cut[Session] = 0
    BY <1>0, <1>2, <1>5 DEF JournalOf, ReplayCut
  <2>2. Len(sent) = 0
    <3>1. sent = SubSeq(<< >>, 1, Len(<< >>)) /\ Len(<< >>) = 0
      BY <1>4, <2>1
    <3> QED BY <3>1
  <2>3. \A f \in ToSet(published) : f.runtime # r
    BY <1>5, PublishedPlaces, EventFields, NoRuntimeAssumption
  <2>4. /\ \A i \in 1..Len(sent) : FALSE
    BY <2>2
  <2> HIDE DEF sent
  <2>5. FramesInOrder'
    <3> SUFFICES ASSUME NEW d \in Connections, NEW i \in 1..Len(outgoing'[d][Session])
                 PROVE  /\ outgoing'[d][Session][i] \in ToSet(published)
                        /\ \A j \in 1..Len(outgoing'[d][Session]) :
                             i < j => Before(published, outgoing'[d][Session][i], outgoing'[d][Session][j])
      BY DEF FramesInOrder, Before
    <3>1. d # c
      BY <2>4 DEF sent
    <3> QED BY <1>0, <1>4, <3>1 DEF FramesInOrder
  <2>6. HubFollows'
    BY <1>0, <1>1, <1>3, <2>5 DEF HubFollows, RunsAreWhole, ActiveIsNewest, EmittedIsPublished,
                                  JournalIsKept
  <2> QED BY <1>4, <2>3, <2>4, <2>6 DEF sent
<1>6. CASE r # NoRuntime
  <2>0. r \in Runtimes /\ log \in Seq(Event) /\ all \in Seq(Event)
    BY <1>0, <1>6 DEF HubTypeOK
  <2>1. JournalOf(Session) = log /\ IsCut(log, ResumePoint(cursors, Session, r), cut[Session])
    BY <1>0, <1>2, <1>6 DEF JournalOf, ReplayCut
  <2>2. IsNewestOf(log, all)
    BY <1>0, <1>6 DEF JournalIsKept
  <2> HIDE DEF r
  <2>3. PICK k \in Nat, n \in Nat : k = Len(log) /\ n = Len(all) /\ k <= n
    BY <2>0, <2>2, LenProperties DEF IsNewestOf
  <2>4. \A i \in 1..k : log[i] = all[n - k + i]
    BY <2>2, <2>3 DEF IsNewestOf
  <2>5. PICK u \in 0..k : /\ u = cut[Session]
                          /\ \A i \in 1..u : log[i].sequence <= ResumePoint(cursors, Session, r)
    BY <2>1, <2>3 DEF IsCut
  <2>51. u \in Nat /\ u <= k /\ k \in Nat /\ n \in Nat /\ k <= n
    BY <2>3
  <2>6. Len(sent) = k - u
        /\ \A i \in 1..(k - u) : sent[i] = all[n - k + (u + i)] /\ n - k + (u + i) \in 1..n
    <3>1. sent = SubSeq(log, u + 1, k)
      BY <1>4, <2>1, <2>3, <2>5
    <3>2. Len(sent) = k - u /\ \A i \in 1..(k - u) : sent[i] = log[u + i] /\ u + i \in 1..k
      BY <2>0, <2>3, <2>51, <3>1
    <3> HIDE DEF sent
    <3>3. \A i \in 1..(k - u) : n - k + (u + i) \in 1..n
      <4> SUFFICES ASSUME NEW i \in 1..(k - u) PROVE n - k + (u + i) \in 1..n
        OBVIOUS
      <4> QED BY <2>51
    <3> QED BY <2>4, <3>2, <3>3
  <2> HIDE DEF sent
  <2>7. \A i \in 1..n : /\ all[i] \in ToSet(published) /\ all[i].runtime = r
                        /\ \A j \in 1..n : i < j => all[i].sequence < all[j].sequence
    BY <1>0, <2>0, <2>3 DEF EmittedIsPublished
  <2> HIDE DEF all
  <2>8. \A i \in 1..Len(sent) : sent[i] \in ToSet(published) /\ sent[i].runtime = r
    BY <2>6, <2>7
  <2>9. ASSUME NEW i \in 1..Len(sent), NEW j \in 1..Len(sent), i < j
        PROVE  Before(published, sent[i], sent[j])
    <3>0. i \in 1..(k - u) /\ j \in 1..(k - u)
      BY <2>6
    <3>1. n - k + (u + i) < n - k + (u + j)
      BY <2>51, <2>9, <3>0
    <3>2. sent[i].sequence < sent[j].sequence
      BY <2>6, <2>7, <3>0, <3>1
    <3> QED BY <1>0, <2>8, <3>2, BeforeByNumber
  <2>10. FramesInOrder'
    <3> SUFFICES ASSUME NEW d \in Connections, NEW i \in 1..Len(outgoing'[d][Session])
                 PROVE  /\ outgoing'[d][Session][i] \in ToSet(published)
                        /\ \A j \in 1..Len(outgoing'[d][Session]) :
                             i < j => Before(published, outgoing'[d][Session][i], outgoing'[d][Session][j])
      BY DEF FramesInOrder, Before
    <3>1. CASE d = c
      BY <2>8, <2>9, <3>1 DEF sent
    <3>2. CASE d # c
      BY <1>0, <1>4, <3>2 DEF FramesInOrder
    <3> QED BY <3>1, <3>2
  <2>11. HubFollows'
    BY <1>0, <1>1, <1>3, <2>10 DEF HubFollows, RunsAreWhole, ActiveIsNewest, EmittedIsPublished,
                                   JournalIsKept
  <2>12. ASSUME NEW f \in ToSet(published), f.runtime = r,
                f.sequence > ResumePoint(cursors, Session, r), f.sequence > EvictedUpTo(Session, r)
         PROVE  \E i \in 1..Len(sent) : sent[i] = f
    <3>1. PICK m \in 1..Len(published) : published[m] = f
      BY PublishedPlaces
    <3>2. PICK i \in 1..n : all[i] = f
      <4>1. published[m].runtime = activeRuntimes[Session]
        BY <2>12, <3>1 DEF r
      <4>2. \E i \in 1..Len(emitted[Session][activeRuntimes[Session]]) :
              emitted[Session][activeRuntimes[Session]][i] = published[m]
        BY <1>0, <4>1 DEF ActiveIsNewest
      <4> QED BY <2>3, <3>1, <4>2 DEF all, r
    <3>3. f.sequence \in Nat
      BY <3>1, EventFields
    <3>4. n - k < i
      <4>1. CASE n - k > 0
        <5>1. EvictedUpTo(Session, r) = all[n - k].sequence
          BY <2>3, <4>1 DEF EvictedUpTo, all, r
        <5>2. n - k \in 1..n
          BY <2>3, <4>1
        <5>3. all[n - k].sequence \in Nat
          BY <2>7, <5>2, PublishedPlaces, EventFields
        <5>4. ~ (f.sequence < all[n - k].sequence) /\ f # all[n - k]
          BY <2>12, <3>3, <5>1, <5>3
        <5>5. ~ (i < n - k) /\ i # n - k
          BY <2>7, <3>2, <5>2, <5>4
        <5> QED BY <3>2, <5>2, <5>5
      <4>2. CASE ~ (n - k > 0)
        BY <2>3, <4>2
      <4> QED BY <4>1, <4>2
    <3>5. i - (n - k) \in 1..k /\ n - k + (i - (n - k)) = i
      <4>1. i \in Nat /\ i <= n
        BY <2>51
      <4> QED BY <2>51, <3>4, <4>1
    <3>6. log[i - (n - k)] = f
      BY <2>4, <3>2, <3>5
    <3>7. ~ (i - (n - k) <= u)
      <4>1. ASSUME i - (n - k) <= u PROVE FALSE
        <5>1. i - (n - k) \in 1..u
          BY <3>5, <4>1
        <5>2. f.sequence <= ResumePoint(cursors, Session, r)
          BY <2>5, <3>6, <5>1
        <5>3. cursors[Session][r] \in Cursor /\ epoch \in Nat
          BY <1>0, <2>0 DEF HubTypeOK
        <5>4. ResumePoint(cursors, Session, r) \in Nat
          BY <5>3 DEF ResumePoint, Cursor
        <5> QED BY <2>12, <3>3, <5>2, <5>4
      <4> QED BY <4>1
    <3>8. i - (n - k) - u \in 1..(k - u) /\ n - k + (u + (i - (n - k) - u)) = i
      BY <2>5, <3>5, <3>7
    <3> QED BY <2>6, <3>2, <3>8
  <2>13. \A i \in 1..Len(sent) : sent[i].sequence > ResumePoint(cursors, Session, r)
    <3>1. ASSUME NEW i \in 1..(k - u)
          PROVE  /\ u + i \in (u + 1)..k /\ u + i \in 1..k /\ n - k + (u + i) \in 1..n
      BY <2>51, <2>6
    <3>2. \A j \in (u + 1)..k : log[j].sequence > ResumePoint(cursors, Session, r)
      BY <2>1, <2>3, <2>5 DEF IsCut
    <3>3. ASSUME NEW i \in 1..(k - u)
          PROVE  sent[i].sequence > ResumePoint(cursors, Session, r)
      <4>1. sent[i] = all[n - k + (u + i)]
        BY <2>6
      <4>2. log[u + i] = all[n - k + (u + i)]
        BY <2>4, <3>1
      <4> QED BY <3>1, <3>2, <4>1, <4>2
    <3> QED BY <2>6, <3>3
  <2>14. ASSUME NEW f \in ToSet(published), f.runtime = r,
                f.sequence > ResumePoint(cursors, Session, r)
         PROVE  \E i \in 1..Len(sent) : f.sequence <= sent[i].sequence
    <3>1. PICK m \in 1..Len(published) : published[m] = f
      BY PublishedPlaces
    <3>2. PICK i \in 1..n : all[i] = f
      <4>1. published[m].runtime = activeRuntimes[Session]
        BY <2>14, <3>1 DEF r
      <4>2. \E j \in 1..Len(emitted[Session][activeRuntimes[Session]]) :
              emitted[Session][activeRuntimes[Session]][j] = published[m]
        BY <1>0, <4>1 DEF ActiveIsNewest
      <4> QED BY <2>3, <3>1, <4>2 DEF all, r
    <3>3. k > 0 /\ n \in 1..n
      <4>1. k = MaxReplay \/ k = n
        BY <2>2, <2>3 DEF IsNewestOf
      <4> QED BY <2>51, <3>2, <4>1, MaxReplayAssumption
    <3>4. f.sequence \in Nat /\ all[n].sequence \in Nat
      BY <2>7, <3>1, <3>3, PublishedPlaces, EventFields
    <3>5. f.sequence <= all[n].sequence
      <4>1. CASE i = n
        BY <3>2, <3>4, <4>1
      <4>2. CASE i < n
        BY <2>7, <3>2, <3>3, <3>4, <4>2
      <4> QED BY <2>51, <3>2, <4>1, <4>2
    <3>6. log[k] = all[n]
      <4>1. k \in 1..k /\ n - k + k = n
        BY <2>51, <3>3
      <4> QED BY <2>4, <4>1
    <3>7. ResumePoint(cursors, Session, r) \in Nat
      <4>1. cursors[Session][r] \in Cursor /\ epoch \in Nat
        BY <1>0, <2>0 DEF HubTypeOK
      <4> QED BY <4>1 DEF ResumePoint, Cursor
    <3>8. u < k
      <4>1. ASSUME u = k PROVE FALSE
        <5>1. log[k].sequence <= ResumePoint(cursors, Session, r)
          BY <2>5, <2>51, <3>3, <4>1
        <5> QED BY <2>14, <3>4, <3>5, <3>6, <3>7, <5>1
      <4> QED BY <2>51, <4>1
    <3>9. k - u \in 1..(k - u) /\ n - k + (u + (k - u)) = n
      BY <2>51, <3>8
    <3>10. sent[k - u] = all[n]
      BY <2>6, <3>9
    <3> QED BY <2>6, <3>5, <3>9, <3>10
  <2> QED BY <1>4, <2>8, <2>11, <2>12, <2>13, <2>14 DEF sent, r
<1> QED BY <1>5, <1>6

-----------------------------------------------------------------------------
(* What a step makes of the copies of the task *)

\* The copies afterwards are in order, of events that were held before or are in E.
CopiesGain(E) ==
  /\ page' \in Pages /\ Listens(page') /\ {held', stored'} \subseteq Seq(Event)
  /\ InOrder(published, page'.applied) /\ InOrder(published, held') /\ InOrder(published, stored')
  /\ pendingEvents' \in [Runtimes -> Seq(Event)]
  /\ \A r \in Runtimes : /\ page'.listeners[r] > 0 => pendingEvents'[r] = << >>
                         /\ \A i \in 1..Len(pendingEvents'[r]) : pendingEvents'[r][i].runtime = r
  /\ Known' \subseteq Known \cup E

\* What need not be asked for again stays so.
CoverageKept == \A f \in ToSet(published) : Covered(f) => Covered(f)'

\* No copy and no buffer has an event that was in none before.
CopiesMove ==
  /\ InCopies' \subseteq InCopies
  /\ \A r \in Runtimes : ToSet(pendingEvents'[r]) \subseteq ToSet(pendingEvents[r])

\* One copy is put in the place of another, or a listener goes.
Recached ==
  /\ page' \in Pages /\ Listens(page') /\ page'.heard = page.heard
  /\ \A r \in Runtimes : page'.listeners[r] <= page.listeners[r]
  /\ {page'.applied, held', stored'} \subseteq {page.applied, held, stored, << >>}
  /\ UNCHANGED pendingEvents

\* What the invariant says of the copies.
LEMMA CopiesNow ==
  ASSUME WebIInv
  PROVE  /\ HubTypeOK /\ published \in Seq(Event) /\ RunsAreWhole /\ ActiveIsNewest
         /\ page \in Pages /\ Listens(page) /\ {held, stored} \subseteq Seq(Event)
         /\ heldLocal \in BOOLEAN
         /\ InOrder(published, page.applied) /\ InOrder(published, held)
         /\ InOrder(published, stored)
         /\ pendingEvents \in [Runtimes -> Seq(Event)]
         /\ \A r \in Runtimes : /\ page.listeners[r] > 0 => pendingEvents[r] = << >>
                                /\ \A i \in 1..Len(pendingEvents[r]) : pendingEvents[r][i].runtime = r
         /\ Known \subseteq ToSet(published)
<1>1. WebTypeOK /\ EntryIsHeard /\ HubFollows /\ OnTheWay /\ Copies
  BY DEF WebIInv, WebInvariant
<1>2. /\ published \in Seq(Event) /\ {held, stored} \subseteq Seq(Event)
      /\ pendingEvents \in [Runtimes -> Seq(Event)]
  BY <1>1 DEF WebTypeOK
<1>3. HubTypeOK /\ RunsAreWhole /\ ActiveIsNewest /\ page \in Pages
      /\ heldLocal \in BOOLEAN
  BY <1>1 DEF HubFollows, OnTheWay
<1>4. Listens(page) /\ \A r \in Runtimes : page.listeners[r] > 0 => pendingEvents[r] = << >>
  BY <1>1 DEF EntryIsHeard, Listens
<1>5. /\ InOrder(published, page.applied) /\ InOrder(published, held)
      /\ InOrder(published, stored) /\ Known \subseteq ToSet(published)
      /\ \A r \in Runtimes : \A i \in 1..Len(pendingEvents[r]) : pendingEvents[r][i].runtime = r
  BY <1>1 DEF Copies
<1> QED BY <1>2, <1>3, <1>4, <1>5

\* Nothing is in no order.
LEMMA NothingInOrder == InOrder(published, << >>) /\ << >> \in Seq(Event) /\ ToSet(<< >>) = {}
<1>1. Len(<< >>) = 0 /\ DOMAIN << >> = {}
  OBVIOUS
<1> QED BY <1>1 DEF InOrder, ToSet

\* Copies that change places bring no event, and cover what they did.
LEMMA RecachedKeeps ==
  ASSUME WebIInv, Recached
  PROVE  CopiesGain({}) /\ CopiesMove /\ (lost \subseteq lost' => CoverageKept)
<1>1. \A r \in Runtimes : page.listeners[r] \in Nat /\ page'.listeners[r] \in Nat
  BY CopiesNow DEF Pages, Recached
<1>2. \A r \in Runtimes : /\ page'.listeners[r] > 0 => pendingEvents'[r] = << >>
                          /\ \A i \in 1..Len(pendingEvents'[r]) : pendingEvents'[r][i].runtime = r
  BY <1>1, CopiesNow DEF Recached
<1>3. /\ InOrder(published, page'.applied) /\ InOrder(published, held') /\ InOrder(published, stored')
      /\ {held', stored'} \subseteq Seq(Event) /\ pendingEvents' \in [Runtimes -> Seq(Event)]
  <2>1. page.applied \in Seq(Event)
    BY CopiesNow DEF Pages
  <2> QED BY <2>1, CopiesNow, NothingInOrder DEF Recached
<1>4. Known' \subseteq Known
  <2>1. \A copy \in {page.applied, held, stored, << >>} : ToSet(copy) \subseteq Known
    BY NothingInOrder DEF Known
  <2>2. Known' = ToSet(page'.applied) \cup ToSet(held') \cup ToSet(stored')
                   \cup UNION {ToSet(pendingEvents[r]) : r \in Runtimes}
    BY DEF Known, Recached
  <2>3. UNION {ToSet(pendingEvents[r]) : r \in Runtimes} \subseteq Known
    BY DEF Known
  <2>4. /\ ToSet(page'.applied) \subseteq Known /\ ToSet(held') \subseteq Known
        /\ ToSet(stored') \subseteq Known
    BY <2>1 DEF Recached
  <2> QED BY <2>2, <2>3, <2>4
<1>5. lost \subseteq lost' => CoverageKept
  BY DEF CoverageKept, Covered, Recached
<1>6. CopiesMove
  <2>1. \A copy \in {page.applied, held, stored, << >>} : ToSet(copy) \subseteq InCopies
    BY NothingInOrder DEF InCopies
  <2>2. InCopies' = ToSet(page'.applied) \cup ToSet(held') \cup ToSet(stored')
    BY DEF InCopies
  <2>3. /\ ToSet(page'.applied) \subseteq InCopies /\ ToSet(held') \subseteq InCopies
        /\ ToSet(stored') \subseteq InCopies
    BY <2>1 DEF Recached
  <2>4. \A r \in Runtimes : ToSet(pendingEvents'[r]) \subseteq ToSet(pendingEvents[r])
    BY DEF Recached
  <2> QED BY <2>2, <2>3, <2>4 DEF CopiesMove
<1> QED BY <1>2, <1>3, <1>4, <1>5, <1>6 DEF CopiesGain, Recached

\* The cache is another copy, with the cursor of its last event.
LEMMA CacheKeeps ==
  ASSUME NEW p \in Pages, Listens(p), NEW copy \in Seq(Event)
  PROVE  LET q == [p EXCEPT !.applied = copy, !.local = FALSE] IN
         /\ q \in Pages /\ Listens(q) /\ q.applied = copy /\ q.heard = p.heard
         /\ q.entry = p.entry /\ q.listeners = p.listeners /\ ~q.local
BY DEF Pages, Listens

\* ... with a listener less.
LEMMA TurnFailedKeeps ==
  ASSUME NEW p \in Pages, Listens(p), NEW copy \in Seq(Event)
  PROVE  LET q == TurnFailed(p, copy) IN
         /\ q \in Pages /\ Listens(q) /\ q.applied = copy /\ q.heard = p.heard
         /\ \A r \in Runtimes : q.listeners[r] <= p.listeners[r]
<1> DEFINE o == RemoveRuntime(p)
<1>1. /\ o \in Pages /\ Listens(o) /\ o.heard = p.heard
      /\ \A r \in Runtimes : o.listeners[r] <= p.listeners[r]
  BY RemoveRuntimeKeeps
<1>2. TurnFailed(p, copy) = [o EXCEPT !.applied = copy, !.local = TRUE]
  BY DEF TurnFailed
<1> HIDE DEF o
<1>3. LET q == [o EXCEPT !.applied = copy, !.local = TRUE] IN
      /\ q \in Pages /\ Listens(q) /\ q.applied = copy /\ q.heard = o.heard
      /\ q.listeners = o.listeners
  BY <1>1 DEF Pages, Listens
<1> QED BY <1>1, <1>2, <1>3

\* A rejection takes back what sendPrompt had put on the page.
LEMMA RejectionRecaches ==
  ASSUME WebIInv, UNCHANGED <<stored, pendingEvents>>,
         PreparationRejected \/ \E failed : Rejected(failed)
  PROVE  Recached
<1>1. /\ page \in Pages /\ Listens(page) /\ held \in Seq(Event) /\ heldLocal \in BOOLEAN
      /\ \A r \in Runtimes : page.listeners[r] \in Nat
  BY CopiesNow DEF Pages
<1>2. /\ page' \in {page, CacheHeld(page), TurnFailed(page, held)}
      /\ held' \in {held, << >>}
  BY DEF PreparationRejected, Rejected
<1>3. CASE page' = page
  BY <1>1, <1>2, <1>3 DEF Recached
<1>4. CASE page' = CacheHeld(page)
  <2>1. /\ page' \in Pages /\ Listens(page') /\ page'.applied = held
        /\ page'.heard = page.heard /\ page'.listeners = page.listeners
    BY <1>1, <1>4 DEF CacheHeld, Pages, Listens
  <2> QED BY <1>1, <1>2, <2>1 DEF Recached
<1>5. CASE page' = TurnFailed(page, held)
  BY <1>1, <1>2, <1>5, TurnFailedKeeps DEF Recached
<1> QED BY <1>2, <1>3, <1>4, <1>5

\* What the daemon has stored afterwards is one of the two.
LEMMA ProjectionsOf ==
  ASSUME NEW incoming, NEW projection \in Projections(incoming)
  PROVE  projection \in {stored, incoming}
BY DEF Projections

-----------------------------------------------------------------------------
(* The steps, as the copies of the task see them *)

\* Steps that leave the copies where they are.
RestNext ==
  \/ \E c \in Connections :
       \/ Connect(c) \/ Opened(c) \/ HandshakeMessage(c) \/ SocketErrors(c) \/ ConnectionEnds(c)
       \/ AnswerHello(c) \/ SubscribeConnection(c) \/ HandleRequest(c) \/ StartFails(c)
  \/ \E r \in Runtimes :
       StartedElsewhere(r) \/ \E payload \in Payloads : Publication(r, payload)
  \/ ClosedElsewhere \/ DaemonRestart
  \/ AttachSession \/ CloseSession
  \/ UNCHANGED webVars

\* Steps that move them.
MoveNext ==
  \/ \E c \in Connections : SocketCloses(c)
  \/ \E request \in pending : TimeOut(request)
  \/ Disconnect
  \/ SendPrompt \/ PreparationFails \/ PromptStarted \/ PersistProjection \/ RefetchSession
  \/ \E projection \in Projections(held) : PromptRuntime(projection)

\* The steps, by what they do to the copies.
LEMMA WebSteps ==
  ASSUME [WebNext]_webVars
  PROVE  \/ RestNext \/ MoveNext \/ Reload
         \/ \E c \in Connections : EventMessage(c) \/ ResponseMessage(c)
         \/ \E projection \in Projections(held), r \in Runtimes : StartRuntime(r, projection)
BY DEF WebNext, ClientNext, PageNext, DaemonNext, RestNext, MoveNext

\* The first kind leaves the copies and the cursors.
LEMMA RestLeaves ==
  ASSUME RestNext
  PROVE  /\ UNCHANGED <<page, held, heldLocal, stored, pendingEvents, sequences, prompting>>
         /\ lost' = lost \/ \E c \in Connections : SubscribeConnection(c)
         /\ current' = current \/ \E c \in Connections : Connect(c)
<1> USE DEF clientVars, pageVars, historyVars, webVars
<1>1. ASSUME NEW c \in Connections,
             \/ Connect(c) \/ Opened(c) \/ HandshakeMessage(c) \/ SocketErrors(c)
      PROVE  UNCHANGED <<page, held, heldLocal, stored, pendingEvents, sequences, prompting, lost>>
  BY <1>1 DEF Connect, Opened, HandshakeMessage, SocketErrors
<1>2. ASSUME NEW c \in Connections,
             ConnectionEnds(c) \/ AnswerHello(c) \/ HandleRequest(c) \/ StartFails(c)
      PROVE  UNCHANGED <<page, held, heldLocal, stored, pendingEvents, sequences, prompting, lost, current>>
  BY <1>2 DEF ConnectionEnds, AnswerHello, HandleRequest, StartFails
<1>3. ASSUME NEW c \in Connections, SubscribeConnection(c)
      PROVE  UNCHANGED <<page, held, heldLocal, stored, pendingEvents, sequences, prompting, current>>
  BY <1>3 DEF SubscribeConnection
<1>4. ASSUME NEW r \in Runtimes,
             StartedElsewhere(r) \/ \E payload \in Payloads : Publication(r, payload)
      PROVE  UNCHANGED <<page, held, heldLocal, stored, pendingEvents, sequences, prompting, lost, current>>
  BY <1>4 DEF StartedElsewhere, Publication
<1>5. ASSUME ClosedElsewhere \/ DaemonRestart \/ AttachSession \/ CloseSession \/ UNCHANGED webVars
      PROVE  UNCHANGED <<page, held, heldLocal, stored, pendingEvents, sequences, prompting, lost, current>>
  BY <1>5 DEF ClosedElsewhere, DaemonRestart, AttachSession, CloseSession
<1>6. ASSUME NEW c \in Connections, Opened(c) \/ HandshakeMessage(c) \/ SocketErrors(c)
      PROVE  UNCHANGED current
  BY <1>6 DEF Opened, HandshakeMessage, SocketErrors
<1> QED BY <1>1, <1>2, <1>3, <1>4, <1>5, <1>6 DEF RestNext

\* ... so that they are recached, and no event is counted as lost that was not.
LEMMA RestRecaches ==
  ASSUME WebIInv, RestNext
  PROVE  Recached /\ lost \subseteq lost'
<1>1. page \in Pages /\ Listens(page) /\ \A r \in Runtimes : page.listeners[r] \in Nat
  BY CopiesNow DEF Pages
<1>2. UNCHANGED <<page, held, stored, pendingEvents>>
  BY RestLeaves
<1>3. Recached
  BY <1>1, <1>2 DEF Recached
<1>4. ASSUME NEW c \in Connections, SubscribeConnection(c) PROVE lost \subseteq lost'
  BY <1>4 DEF SubscribeConnection
<1> QED BY <1>3, <1>4, RestLeaves

\* The second kind recaches them: a rejection, a save, a fetch.
LEMMA MoveRecaches ==
  ASSUME WebIInv, MoveNext
  PROVE  /\ Recached
         /\ UNCHANGED <<lost, sequences, hubVars, published, used, received, accepted, resumeFrom>>
         /\ current' \in {current, NoSocket}
<1> USE DEF socketVars, clientVars, pageVars, historyVars
<1>0. /\ page \in Pages /\ Listens(page) /\ held \in Seq(Event) /\ stored \in Seq(Event)
      /\ {TRUE, FALSE} \subseteq BOOLEAN
      /\ \A r \in Runtimes : page.listeners[r] \in Nat
  BY CopiesNow DEF Pages
<1>1. UNCHANGED <<lost, sequences, hubVars, published, used, received, accepted, resumeFrom>>
  BY DEF MoveNext, SocketCloses, TimeOut, Disconnect, SendPrompt, PreparationFails, PromptStarted,
         PersistProjection, RefetchSession, PromptRuntime
<1>2. current' \in {current, NoSocket}
  BY DEF MoveNext, SocketCloses, TimeOut, Disconnect, GiveUp, SendPrompt, PreparationFails,
         PromptStarted, PersistProjection, RefetchSession, PromptRuntime
<1>3. ASSUME UNCHANGED <<page, stored, pendingEvents>>, held' \in {held, page.applied, stored, << >>}
      PROVE  Recached
  BY <1>0, <1>3 DEF Recached
<1>4. ASSUME MarkDisconnected, UNCHANGED <<stored, pendingEvents>> PROVE Recached
  BY <1>4, RejectionRecaches DEF MarkDisconnected
<1>5. ASSUME NEW c \in Connections, SocketCloses(c) PROVE Recached
  <2>1. UNCHANGED <<stored, pendingEvents>> /\ (MarkDisconnected \/ UNCHANGED <<page, held>>)
    BY <1>5 DEF SocketCloses
  <2> QED BY <1>3, <1>4, <2>1
<1>6. ASSUME NEW request \in pending, TimeOut(request) PROVE Recached
  BY <1>6, RejectionRecaches DEF TimeOut
<1>7. ASSUME Disconnect PROVE Recached
  BY <1>4, <1>7 DEF Disconnect
<1>8. ASSUME SendPrompt PROVE Recached
  BY <1>3, <1>8 DEF SendPrompt
<1>9. ASSUME PreparationFails PROVE Recached
  BY <1>9, RejectionRecaches DEF PreparationFails
<1>10. ASSUME PromptStarted PROVE Recached
  <2>1. UNCHANGED <<stored, pendingEvents>>
    BY <1>10 DEF PromptStarted
  <2>2. \/ UNCHANGED <<page, held>>
        \/ page' = TurnFailed(page, held) /\ held' = << >>
    BY <1>10 DEF PromptStarted
  <2>3. CASE page' = TurnFailed(page, held) /\ held' = << >>
    BY <1>0, <2>1, <2>3, TurnFailedKeeps DEF Recached
  <2> QED BY <1>3, <2>1, <2>2, <2>3
<1>11. ASSUME PersistProjection PROVE Recached
  <2>1. UNCHANGED <<page, held, pendingEvents>> /\ stored' \in Projections(page.applied)
    BY <1>11 DEF PersistProjection
  <2>2. stored' \in {stored, page.applied}
    BY <2>1, ProjectionsOf
  <2> QED BY <1>0, <2>1, <2>2 DEF Recached
<1>12. ASSUME RefetchSession PROVE Recached
  <2>1. UNCHANGED <<stored, held, pendingEvents>>
        /\ page' = [page EXCEPT !.applied = stored, !.local = FALSE]
    BY <1>12 DEF RefetchSession
  <2>2. /\ page' \in Pages /\ Listens(page') /\ page'.applied = stored
        /\ page'.heard = page.heard /\ page'.listeners = page.listeners
    BY <1>0, <2>1 DEF Pages, Listens
  <2> QED BY <1>0, <2>1, <2>2 DEF Recached
<1>13. ASSUME NEW projection \in Projections(held), PromptRuntime(projection) PROVE Recached
  <2>1. projection \in {stored, held}
    BY ProjectionsOf
  <2>2. stored' = projection /\ UNCHANGED pendingEvents /\ held' \in {projection, << >>}
    BY <1>13 DEF PromptRuntime
  <2>0. projection \in Seq(Event)
    BY <1>0, <2>1
  <2> DEFINE o == CacheSaved(projection)
  <2>3. /\ o \in Pages /\ Listens(o) /\ o.applied = projection /\ o.heard = page.heard
        /\ o.listeners = page.listeners
    BY <1>0, <2>0 DEF CacheSaved, Pages, Listens
  <2>4. page' \in {o, TurnFailed(o, projection)}
    BY <1>13 DEF PromptRuntime
  <2> HIDE DEF o
  <2>5. CASE page' = o
    BY <1>0, <2>1, <2>2, <2>3, <2>5 DEF Recached
  <2>6. CASE page' = TurnFailed(o, projection)
    BY <1>0, <2>1, <2>2, <2>3, <2>6, TurnFailedKeeps DEF Recached
  <2> QED BY <2>4, <2>5, <2>6
<1> QED BY <1>1, <1>2, <1>5, <1>6, <1>7, <1>8, <1>9, <1>10, <1>11, <1>12, <1>13 DEF MoveNext

-----------------------------------------------------------------------------
(* An event is heard *)

\* What was published is an event.
LEMMA PublishedEvents ==
  ASSUME published \in Seq(Event), NEW e \in ToSet(published)
  PROVE  /\ e \in Event /\ e.runtime \in Runtimes /\ e.epoch \in Nat
         /\ e.sequence \in Nat /\ e.sequence > 0
<1>1. PICK m \in 1..Len(published) : published[m] = e
  BY PublishedPlaces
<1>2. e \in Event
  BY <1>1, ElementOfSeq
<1> QED BY <1>2 DEF Event

\* The next event on the socket, and what the page has against it.
LEMMA NextEvent ==
  ASSUME WebIInv, NEW c \in Connections, EventMessage(c), NEW e,
         e = outgoing[c][Session][received[c] + 1]
  PROVE  /\ c = current /\ current # NoSocket /\ c \in settled
         /\ received[c] \in Nat /\ received[c] + 1 \in 1..Len(outgoing[c][Session])
         /\ e \in ToSet(published) /\ e \in Event
         /\ \A x \in Known : NotLater(published, x, e) /\ (Placed => Newer(x, e))
<1>1. /\ c = current /\ c \in settled /\ received[c] < Len(outgoing[c][Session])
  BY DEF EventMessage, IsCurrent
<1>2. current # NoSocket
  BY <1>1, WebSocketsAssumption
<1>3. /\ received[c] \in Nat /\ outgoing[c][Session] \in Seq(Event)
  BY CopiesNow, WebSessionAssumption DEF WebIInv, OnTheWay, HubTypeOK
<1>4. /\ received[c] + 1 \in 1..Len(outgoing[c][Session])
      /\ received[c] + 1 \in (received[c] + 1)..Len(outgoing[c][Session])
  <2>1. Len(outgoing[c][Session]) \in Nat
    BY <1>3, LenProperties
  <2> QED BY <1>1, <1>3, <2>1
<1>5. e \in ToSet(published)
  BY <1>4 DEF WebIInv, HubFollows, FramesInOrder
<1>6. e \in Event
  <2>1. published \in Seq(Event)
    BY CopiesNow
  <2> QED BY <1>5, <2>1, PublishedEvents
<1>7. \A x \in Known : NotLater(published, x, e)
  BY <1>1, <1>2, <1>4 DEF WebIInv, Copies
<1>8. Placed => \A x \in Known : Newer(x, e)
  BY <1>1, <1>2, <1>4 DEF WebIInv, LocalTurns, FramesAreNewer, Marks
<1> QED BY <1>1, <1>2, <1>3, <1>4, <1>5, <1>6, <1>7, <1>8

\* What an event adds to a buffer that may lose its oldest.
LEMMA BufferKeeps ==
  ASSUME WebIInv, NEW e \in Event, Buffer(e)
  PROVE  /\ pendingEvents' \in [Runtimes -> Seq(Event)]
         /\ \A r \in Runtimes : r # e.runtime => pendingEvents'[r] = pendingEvents[r]
         /\ ToSet(pendingEvents'[e.runtime]) \subseteq ToSet(pendingEvents[e.runtime]) \cup {e}
         /\ ToSet(pendingEvents[e.runtime]) \cup {e}
              \subseteq ToSet(pendingEvents'[e.runtime]) \cup lost'
         /\ lost \subseteq lost'
<1> DEFINE old == pendingEvents[e.runtime]
           buffered == Append(old, e)
<1>1. e.runtime \in Runtimes /\ old \in Seq(Event) /\ pendingEvents \in [Runtimes -> Seq(Event)]
  <2>1. pendingEvents \in [Runtimes -> Seq(Event)]
    BY CopiesNow
  <2> QED BY <2>1 DEF Event
<1>2. /\ buffered \in Seq(Event) /\ buffered # << >> /\ Len(buffered) = Len(old) + 1
      /\ Len(old) \in Nat /\ buffered[Len(old) + 1] = e
      /\ \A i \in 1..Len(old) : buffered[i] = old[i]
  BY <1>1, AppendProperties, LenProperties
<1>3. ToSet(buffered) = ToSet(old) \cup {e}
  <2>1. DOMAIN buffered = 1..(Len(old) + 1) /\ DOMAIN old = 1..Len(old)
    BY <1>1, <1>2, LenProperties
  <2>2. /\ 1..Len(old) \subseteq 1..(Len(old) + 1) /\ Len(old) + 1 \in 1..(Len(old) + 1)
        /\ \A i \in 1..(Len(old) + 1) : i \in 1..Len(old) \/ i = Len(old) + 1
    BY <1>2
  <2> QED BY <1>2, <2>1, <2>2 DEF ToSet
<1>4. CASE Len(buffered) > MaxBuffered
  <2>1. /\ pendingEvents' = [pendingEvents EXCEPT ![e.runtime] = Tail(buffered)]
        /\ lost' = lost \cup {Head(buffered)}
    BY <1>4 DEF Buffer
  <2>2. Tail(buffered) \in Seq(Event) /\ ToSet(buffered) = ToSet(Tail(buffered)) \cup {Head(buffered)}
    <3> HIDE DEF buffered
    <3>1. /\ Tail(buffered) \in Seq(Event) /\ Len(Tail(buffered)) = Len(buffered) - 1
          /\ \A i \in 1..Len(Tail(buffered)) : Tail(buffered)[i] = buffered[i + 1]
          /\ Head(buffered) = buffered[1] /\ Len(buffered) \in Nat \ {0}
      BY <1>2, HeadTailProperties, LenProperties
    <3>2. DOMAIN buffered = 1..Len(buffered) /\ DOMAIN Tail(buffered) = 1..(Len(buffered) - 1)
      BY <1>2, <3>1, LenProperties
    <3>3. \A i \in 1..Len(buffered) : i = 1 \/ (i - 1 \in 1..(Len(buffered) - 1) /\ (i - 1) + 1 = i)
      BY <3>1
    <3>4. 1 \in 1..Len(buffered) /\ \A i \in 1..(Len(buffered) - 1) : i + 1 \in 1..Len(buffered)
      BY <3>1
    <3>5. ToSet(buffered) \subseteq ToSet(Tail(buffered)) \cup {Head(buffered)}
      <4> SUFFICES ASSUME NEW i \in 1..Len(buffered)
                   PROVE  buffered[i] \in ToSet(Tail(buffered)) \cup {Head(buffered)}
        BY <3>2 DEF ToSet
      <4>1. CASE i = 1
        BY <3>1, <4>1
      <4>2. CASE i # 1
        <5>1. i - 1 \in DOMAIN Tail(buffered) /\ Tail(buffered)[i - 1] = buffered[i]
          BY <3>1, <3>2, <3>3, <4>2
        <5> QED BY <5>1 DEF ToSet
      <4> QED BY <4>1, <4>2
    <3>6. ToSet(Tail(buffered)) \cup {Head(buffered)} \subseteq ToSet(buffered)
      <4>1. Head(buffered) \in ToSet(buffered)
        BY <3>1, <3>2, <3>4 DEF ToSet
      <4>2. ASSUME NEW i \in 1..(Len(buffered) - 1) PROVE Tail(buffered)[i] \in ToSet(buffered)
        BY <3>1, <3>2, <3>4 DEF ToSet
      <4> QED BY <3>2, <4>1, <4>2 DEF ToSet
    <3> QED BY <3>1, <3>5, <3>6
  <2> HIDE DEF buffered
  <2> QED BY <1>1, <1>3, <2>1, <2>2
<1>5. CASE ~ (Len(buffered) > MaxBuffered)
  <2>1. /\ pendingEvents' = [pendingEvents EXCEPT ![e.runtime] = buffered] /\ lost' = lost
    BY <1>5 DEF Buffer
  <2> HIDE DEF buffered
  <2> QED BY <1>1, <1>2, <1>3, <2>1
<1> QED BY <1>4, <1>5

\* As often as there are listeners, the same event.
Times(n, e) == [i \in 1..n |-> e]

\* The event once for each of the listeners.
LEMMA ManyOfOne ==
  ASSUME NEW n \in Nat \ {0}, NEW e \in Event
  PROVE  /\ Times(n, e) \in Seq(Event) /\ ToSet(Times(n, e)) = {e}
         /\ \A i \in 1..Len(Times(n, e)) : Times(n, e)[i] = e
<1> DEFINE es == [i \in 1..n |-> e]
<1>1. es \in Seq(Event) /\ Len(es) = n
  OBVIOUS
<1>2. DOMAIN es = 1..n /\ 1 \in 1..n /\ \A i \in 1..n : es[i] = e
  OBVIOUS
<1>3. ToSet(es) = {e}
  <2> HIDE DEF es
  <2> QED BY <1>2 DEF ToSet
<1> QED BY <1>1, <1>2, <1>3 DEF Times

\* An event is heard: the copies gain it, or it waits or was dropped; either way it is covered.
LEMMA EventPage ==
  ASSUME WebIInv, NEW c \in Connections, EventMessage(c), NEW e,
         e = outgoing[c][Session][received[c] + 1]
  PROVE  /\ CopiesGain({e}) /\ CoverageKept /\ Covered(e)'
         /\ Placed' => Placed
         /\ \/ CopiesMove
            \/ InCopies' \subseteq InCopies \cup {e} /\ UNCHANGED pendingEvents
                 /\ pendingEvents[e.runtime] = << >>
            \/ /\ InCopies' = InCopies
               /\ \A r \in Runtimes :
                    ToSet(pendingEvents'[r]) \subseteq ToSet(pendingEvents[r]) \cup {e}
<1>0. /\ published \in Seq(Event) /\ RunsAreWhole /\ page \in Pages /\ Listens(page)
      /\ {held, stored} \subseteq Seq(Event)
      /\ InOrder(published, page.applied) /\ InOrder(published, held) /\ InOrder(published, stored)
      /\ pendingEvents \in [Runtimes -> Seq(Event)]
      /\ \A r \in Runtimes : /\ page.listeners[r] > 0 => pendingEvents[r] = << >>
                             /\ \A i \in 1..Len(pendingEvents[r]) : pendingEvents[r][i].runtime = r
                             /\ page.listeners[r] \in Nat
      /\ Known \subseteq ToSet(published)
  BY CopiesNow DEF Pages
<1>1. /\ e \in ToSet(published) /\ e \in Event /\ e.runtime \in Runtimes
      /\ \A x \in Known : NotLater(published, x, e) /\ (Placed => Newer(x, e))
  <2>1. /\ e \in ToSet(published)
        /\ \A x \in Known : NotLater(published, x, e) /\ (Placed => Newer(x, e))
    BY NextEvent
  <2> QED BY <1>0, <2>1, PublishedEvents
<1>2. /\ UNCHANGED <<held, heldLocal, stored, prompting>>
      /\ \/ ~ IsNews(e) /\ UNCHANGED <<pendingEvents, page, lost>>
         \/ /\ page.listeners[e.runtime] > 0 /\ UNCHANGED <<pendingEvents, lost>>
            /\ page' = Folded(page, Times(page.listeners[e.runtime], e))
         \/ ~ (page.listeners[e.runtime] > 0) /\ Buffer(e) /\ UNCHANGED page
  BY DEF EventMessage, Folded, Times
<1>3. CASE ~ IsNews(e) /\ UNCHANGED <<pendingEvents, page, lost>>
  <2>1. /\ sequences[e.runtime].epoch = e.epoch /\ e.sequence <= sequences[e.runtime].sequence
    BY <1>3 DEF IsNews
  <2>2. Covered(e)
    <3>1. NothingSkipped
      BY DEF WebIInv, WebInvariant
    <3> QED BY <1>1, <2>1, <3>1 DEF NothingSkipped, Covered
  <2>3. Recached
    BY <1>0, <1>2, <1>3 DEF Recached
  <2>4. CopiesGain({}) /\ CopiesMove /\ CoverageKept
    BY <1>3, <2>3, RecachedKeeps
  <2>5. Placed' => Placed
    BY <1>2, <1>3 DEF Placed
  <2>6. CopiesGain({e}) /\ Covered(e)'
    BY <1>1, <2>2, <2>4 DEF CopiesGain, CoverageKept
  <2> QED BY <2>4, <2>5, <2>6
<1>4. CASE /\ page.listeners[e.runtime] > 0 /\ UNCHANGED <<pendingEvents, lost>>
           /\ page' = Folded(page, Times(page.listeners[e.runtime], e))
  <2> DEFINE es == Times(page.listeners[e.runtime], e)
  <2>0. page.listeners[e.runtime] \in Nat \ {0}
    <3>1. \A r \in Runtimes : page.listeners[r] \in Nat
      BY <1>0
    <3>2. page.listeners[e.runtime] \in Nat /\ page.listeners[e.runtime] > 0
      BY <1>1, <1>4, <3>1
    <3> QED BY <3>2
  <2>1. es \in Seq(Event) /\ ToSet(es) = {e} /\ \A i \in 1..Len(es) : es[i] = e
    BY <1>1, <2>0, ManyOfOne
  <2>2. page' = Folded(page, es)
    BY <1>4
  <2> HIDE DEF es
  <2>3. ToSet(page.applied) \subseteq Known
    BY DEF Known
  <2>31. \A i \in 1..Len(es) : /\ es[i] \in ToSet(published) /\ es[i].runtime = e.runtime
                               /\ \A x \in ToSet(page.applied) :
                                    NotLater(published, x, es[i]) /\ (page.local => Newer(x, es[i]))
    BY <1>1, <2>1, <2>3 DEF Placed
  <2>32. ToSet(page.applied) \subseteq ToSet(published)
    BY <1>0, <2>3
  <2>4. Hears(page, Folded(page, es), ToSet(es))
    BY <1>0, <2>1, <2>31, <2>32, FoldHears
  <2>5. Hears(page, page', {e})
    BY <2>1, <2>2, <2>4
  <2>6. /\ page' \in Pages /\ Listens(page') /\ InOrder(published, page'.applied)
        /\ page'.heard = page.heard \cup {e}
        /\ ToSet(page'.applied) \subseteq ToSet(page.applied) \cup {e}
        /\ \A r \in Runtimes : page'.listeners[r] <= page.listeners[r] /\ page'.listeners[r] \in Nat
        /\ page'.entry \in {page.entry, NoRuntime} /\ (page'.local => page.local)
    BY <2>5 DEF Hears, Pages
  <2>7. Known' \subseteq Known \cup {e}
    <3>1. Known' = ToSet(page'.applied) \cup ToSet(held) \cup ToSet(stored)
                     \cup UNION {ToSet(pendingEvents[r]) : r \in Runtimes}
      <4>1. held' = held /\ stored' = stored /\ pendingEvents' = pendingEvents
        BY <1>2, <1>4
      <4> QED BY <4>1 DEF Known
    <3>2. ToSet(page'.applied) \subseteq ToSet(page.applied) \cup {e}
      BY <2>6
    <3> QED BY <3>1, <3>2 DEF Known
  <2>8. \A r \in Runtimes : page'.listeners[r] > 0 => page.listeners[r] > 0
    BY <1>0, <2>6
  <2>9. CopiesGain({e})
    BY <1>0, <1>2, <1>4, <2>6, <2>7, <2>8 DEF CopiesGain
  <2>10. Placed' => Placed
    BY <1>2, <2>6 DEF Placed
  <2>11. InCopies' \subseteq InCopies \cup {e}
    BY <1>2, <2>6 DEF InCopies
  <2>12. pendingEvents[e.runtime] = << >>
    BY <1>0, <1>1, <1>4
  <2>13. CoverageKept /\ Covered(e)'
    BY <1>4, <2>6 DEF CoverageKept, Covered
  <2> QED BY <1>4, <2>9, <2>10, <2>11, <2>12, <2>13
<1>5. CASE ~ (page.listeners[e.runtime] > 0) /\ Buffer(e) /\ UNCHANGED page
  <2>1. /\ pendingEvents' \in [Runtimes -> Seq(Event)]
        /\ \A r \in Runtimes : r # e.runtime => pendingEvents'[r] = pendingEvents[r]
        /\ ToSet(pendingEvents'[e.runtime]) \subseteq ToSet(pendingEvents[e.runtime]) \cup {e}
        /\ ToSet(pendingEvents[e.runtime]) \cup {e}
             \subseteq ToSet(pendingEvents'[e.runtime]) \cup lost'
        /\ lost \subseteq lost'
    BY <1>1, <1>5, BufferKeeps
  <2>2. \A r \in Runtimes : ToSet(pendingEvents'[r]) \subseteq ToSet(pendingEvents[r]) \cup {e}
    BY <2>1
  <2>3. Known' \subseteq Known \cup {e}
    <3>1. Known' = ToSet(page.applied) \cup ToSet(held) \cup ToSet(stored)
                     \cup UNION {ToSet(pendingEvents'[r]) : r \in Runtimes}
      BY <1>2, <1>5 DEF Known
    <3>2. UNION {ToSet(pendingEvents'[r]) : r \in Runtimes} \subseteq Known \cup {e}
      BY <2>2 DEF Known
    <3> QED BY <3>1, <3>2 DEF Known
  <2>4. \A r \in Runtimes : \A i \in 1..Len(pendingEvents'[r]) : pendingEvents'[r][i].runtime = r
    <3> SUFFICES ASSUME NEW i \in 1..Len(pendingEvents'[e.runtime])
                 PROVE  pendingEvents'[e.runtime][i].runtime = e.runtime
      BY <1>0, <2>1
    <3>1. pendingEvents'[e.runtime][i] \in ToSet(pendingEvents'[e.runtime])
      BY <1>1, <2>1, LenProperties DEF ToSet
    <3>2. \A x \in ToSet(pendingEvents[e.runtime]) : x.runtime = e.runtime
      <4>1. pendingEvents[e.runtime] \in Seq(Event)
        BY <1>0, <1>1
      <4>2. DOMAIN pendingEvents[e.runtime] = 1..Len(pendingEvents[e.runtime])
        BY <4>1, LenProperties
      <4>3. \A k \in 1..Len(pendingEvents[e.runtime]) :
              pendingEvents[e.runtime][k].runtime = e.runtime
        <5>1. \A r \in Runtimes : \A k \in 1..Len(pendingEvents[r]) : pendingEvents[r][k].runtime = r
          BY <1>0
        <5> QED BY <1>1, <5>1
      <4> QED BY <4>2, <4>3 DEF ToSet
    <3> QED BY <2>1, <3>1, <3>2
  <2>5. CopiesGain({e})
    BY <1>0, <1>2, <1>5, <2>1, <2>3, <2>4 DEF CopiesGain
  <2>6. CoverageKept
    <3> SUFFICES ASSUME NEW f \in ToSet(published), Covered(f) PROVE Covered(f)'
      BY DEF CoverageKept
    <3>1. f.runtime \in Runtimes
      BY <1>0, PublishedPlaces, EventFields
    <3>2. f \in page.heard \cup ToSet(pendingEvents[f.runtime]) \cup lost
      BY DEF Covered
    <3>3. f \in page.heard \cup ToSet(pendingEvents'[f.runtime]) \cup lost'
      <4>1. CASE f.runtime = e.runtime
        BY <2>1, <3>2, <4>1
      <4>2. CASE f.runtime # e.runtime
        BY <2>1, <3>1, <3>2, <4>2
      <4> QED BY <4>1, <4>2
    <3> QED BY <1>5, <3>3 DEF Covered
  <2>7. Covered(e)'
    BY <1>5, <2>1 DEF Covered
  <2>8. (Placed' => Placed) /\ InCopies' = InCopies
    BY <1>2, <1>5 DEF Placed, InCopies
  <2> QED BY <2>2, <2>5, <2>6, <2>7, <2>8
<1> QED BY <1>2, <1>3, <1>4, <1>5

-----------------------------------------------------------------------------
(* The page subscribes *)

\* The page p has subscribed to runtime r as q, and was handed the events E.
Subscribes(p, q, r, E) ==
  /\ q \in Pages /\ Listens(q) /\ InOrder(published, q.applied)
  /\ q.heard = p.heard \cup E /\ ToSet(q.applied) \subseteq ToSet(p.applied) \cup E
  /\ \A s \in Runtimes : s # r => q.listeners[s] <= p.listeners[s]

\* A page with another entry and other listeners.
LEMMA PageWith ==
  ASSUME NEW p \in Pages, NEW r \in Runtimes, NEW more \in [Runtimes -> Nat]
  PROVE  [p EXCEPT !.entry = r, !.listeners = more] \in Pages
BY DEF Pages

\* An entry, with one listener more.
LEMMA ListenerAdded ==
  ASSUME NEW p \in Pages, NEW r \in Runtimes
  PROVE  LET q == [p EXCEPT !.entry = r, !.listeners[r] = @ + 1] IN
         /\ q \in Pages /\ Listens(q) /\ q.applied = p.applied /\ q.heard = p.heard
         /\ q.local = p.local
         /\ \A s \in Runtimes : s # r => q.listeners[s] = p.listeners[s]
<1> DEFINE more == [p.listeners EXCEPT ![r] = @ + 1]
           q == [p EXCEPT !.entry = r, !.listeners[r] = @ + 1]
<1>1. p.listeners \in [Runtimes -> Nat] /\ p.listeners[r] + 1 \in Nat \ {0}
  BY DEF Pages
<1>2. more \in [Runtimes -> Nat] /\ more[r] > 0 /\ \A s \in Runtimes : s # r => more[s] = p.listeners[s]
  BY <1>1
<1>3. /\ q.entry = r /\ q.listeners = more /\ q.applied = p.applied /\ q.heard = p.heard
      /\ q.local = p.local
  BY DEF Pages
<1>4. q = [p EXCEPT !.entry = r, !.listeners = more]
  OBVIOUS
<1> HIDE DEF more, q
<1>5. q \in Pages
  BY <1>2, <1>4, PageWith
<1>6. Listens(q)
  BY <1>2, <1>3 DEF Listens
<1> QED BY <1>2, <1>3, <1>5, <1>6 DEF q

\* The page subscribes to a runtime and is handed the events that waited for a listener.
LEMMA SubscribedKeeps ==
  ASSUME WebIInv, NEW p \in Pages, NEW r \in Runtimes,
         InOrder(published, p.applied), ToSet(p.applied) \subseteq Known,
         \A x \in Known, e \in ToSet(pendingEvents[r]) : NotLater(published, x, e),
         p.local => \A x \in ToSet(p.applied), e \in ToSet(pendingEvents[r]) : Newer(x, e)
  PROVE  Subscribes(p, Subscribed(p, r), r, ToSet(pendingEvents[r]))
<1> DEFINE es == pendingEvents[r]
           o == [p EXCEPT !.entry = r, !.listeners[r] = @ + 1]
<1>1. /\ published \in Seq(Event) /\ RunsAreWhole /\ es \in Seq(Event)
      /\ \A i \in 1..Len(es) : es[i].runtime = r
      /\ Known \subseteq ToSet(published)
  BY CopiesNow
<1>2. /\ o \in Pages /\ Listens(o) /\ o.applied = p.applied /\ o.heard = p.heard
      /\ o.local = p.local
      /\ \A s \in Runtimes : s # r => o.listeners[s] = p.listeners[s]
  BY ListenerAdded
<1>3. Subscribed(p, r) = Folded(o, es)
  BY DEF Subscribed, Folded
<1> HIDE DEF o
<1>4. \A i \in 1..Len(es) : es[i] \in ToSet(es) /\ es[i] \in Known
  <2>1. \A i \in 1..Len(es) : es[i] \in ToSet(es)
    BY <1>1, LenProperties DEF ToSet
  <2> QED BY <2>1 DEF Known
<1> HIDE DEF es
<1>5. \A i \in 1..Len(es) : /\ es[i] \in ToSet(published) /\ es[i].runtime = r
                            /\ \A x \in ToSet(o.applied) :
                                 NotLater(published, x, es[i]) /\ (o.local => Newer(x, es[i]))
  BY <1>1, <1>2, <1>4 DEF es
<1>6. ToSet(o.applied) \subseteq ToSet(published) /\ InOrder(published, o.applied)
  BY <1>1, <1>2
<1>7. Hears(o, Folded(o, es), ToSet(es))
  BY <1>1, <1>2, <1>5, <1>6, FoldHears
<1>8. Subscribes(p, Folded(o, es), r, ToSet(es))
  BY <1>2, <1>7 DEF Hears, Subscribes
<1> QED BY <1>3, <1>8 DEF es

\* What was kept of a runtime is in a copy, and no longer kept.
HandedOver(r) ==
  /\ InCopies' \subseteq InCopies \cup ToSet(pendingEvents[r]) /\ pendingEvents'[r] = << >>
  /\ \A s \in Runtimes : s # r => pendingEvents'[s] = pendingEvents[s]

\* ... and the buffer is handed over.
LEMMA SubscribedPage ==
  ASSUME WebIInv, NEW r \in Runtimes, NEW q, Subscribes(page, q, r, ToSet(pendingEvents[r])),
         page' = q \/ page' = [q EXCEPT !.applied = held, !.local = heldLocal], ForgetBuffer(r),
         UNCHANGED <<held, stored, lost>>
  PROVE  /\ CopiesGain({}) /\ CoverageKept /\ q.entry \in Runtimes \cup {NoRuntime}
         /\ HandedOver(r)
<1>1. /\ {held, stored} \subseteq Seq(Event) /\ InOrder(published, page.applied)
      /\ heldLocal \in BOOLEAN /\ InOrder(published, held) /\ InOrder(published, stored)
      /\ pendingEvents \in [Runtimes -> Seq(Event)]
      /\ \A s \in Runtimes : /\ page.listeners[s] > 0 => pendingEvents[s] = << >>
                             /\ \A i \in 1..Len(pendingEvents[s]) : pendingEvents[s][i].runtime = s
                             /\ page.listeners[s] \in Nat
  BY CopiesNow DEF Pages
<1>2. /\ q \in Pages /\ Listens(q) /\ InOrder(published, q.applied)
      /\ q.heard = page.heard \cup ToSet(pendingEvents[r])
      /\ ToSet(q.applied) \subseteq ToSet(page.applied) \cup ToSet(pendingEvents[r])
      /\ \A s \in Runtimes : s # r => q.listeners[s] <= page.listeners[s]
  BY DEF Subscribes
<1>3. /\ page' \in Pages /\ Listens(page') /\ page'.heard = q.heard /\ page'.listeners = q.listeners
      /\ page'.applied \in {q.applied, held}
  <2>1. CASE page' = q
    BY <1>2, <2>1
  <2>2. CASE page' = [q EXCEPT !.applied = held, !.local = heldLocal]
    BY <1>1, <1>2, <2>2 DEF Pages, Listens
  <2> QED BY <2>1, <2>2
<1>4. /\ pendingEvents' \in [Runtimes -> Seq(Event)] /\ pendingEvents'[r] = << >>
      /\ \A s \in Runtimes : s # r => pendingEvents'[s] = pendingEvents[s]
  BY <1>1, NothingInOrder DEF ForgetBuffer
<1>5. \A s \in Runtimes : /\ page'.listeners[s] > 0 => pendingEvents'[s] = << >>
                          /\ \A i \in 1..Len(pendingEvents'[s]) : pendingEvents'[s][i].runtime = s
  <2>1. \A s \in Runtimes : s # r /\ page'.listeners[s] > 0 => page.listeners[s] > 0
    <3>1. \A s \in Runtimes : page'.listeners[s] \in Nat
      BY <1>3 DEF Pages
    <3> QED BY <1>1, <1>2, <1>3, <3>1
  <2>2. Len(<< >>) = 0
    OBVIOUS
  <2> QED BY <1>1, <1>4, <2>1, <2>2
<1>6. Known' \subseteq Known
  <2>1. Known' = ToSet(page'.applied) \cup ToSet(held) \cup ToSet(stored)
                   \cup UNION {ToSet(pendingEvents'[s]) : s \in Runtimes}
    BY DEF Known
  <2>2. \A s \in Runtimes : ToSet(pendingEvents'[s]) \subseteq ToSet(pendingEvents[s])
    BY <1>4, NothingInOrder
  <2>3. ToSet(page'.applied) \subseteq Known
    BY <1>2, <1>3 DEF Known
  <2>4. UNION {ToSet(pendingEvents'[s]) : s \in Runtimes} \subseteq Known
    BY <2>2 DEF Known
  <2>5. ToSet(held) \cup ToSet(stored) \subseteq Known
    BY DEF Known
  <2> QED BY <2>1, <2>3, <2>4, <2>5
<1>7. CopiesGain({})
  BY <1>1, <1>2, <1>3, <1>4, <1>5, <1>6 DEF CopiesGain
<1>8. CoverageKept
  <2> SUFFICES ASSUME NEW f \in ToSet(published), Covered(f) PROVE Covered(f)'
    BY DEF CoverageKept
  <2>1. f.runtime \in Runtimes
    BY CopiesNow, PublishedEvents
  <2>2. f \in page.heard \cup ToSet(pendingEvents[f.runtime]) \cup lost
    BY DEF Covered
  <2>3. f \in page'.heard \cup ToSet(pendingEvents'[f.runtime]) \cup lost
    BY <1>2, <1>3, <1>4, <2>1, <2>2
  <2> QED BY <2>3 DEF Covered
<1>9. HandedOver(r)
  <2>1. InCopies' = ToSet(page'.applied) \cup ToSet(held) \cup ToSet(stored)
    BY DEF InCopies
  <2>2. ToSet(page'.applied) \subseteq InCopies \cup ToSet(pendingEvents[r])
    BY <1>2, <1>3 DEF InCopies
  <2>3. InCopies' \subseteq InCopies \cup ToSet(pendingEvents[r])
    BY <2>1, <2>2 DEF InCopies
  <2> QED BY <1>4, <2>3 DEF HandedOver
<1> QED BY <1>2, <1>7, <1>8, <1>9 DEF Pages

\* The response that is heard next.
LEMMA NextAnswer ==
  ASSUME WebIInv, NEW c \in Connections, ResponseMessage(c)
  PROVE  /\ c = current /\ current # NoSocket /\ answers[c] # << >> /\ answers[c] \in Seq(Answers)
         /\ Head(answers[c]) \in Answers /\ Head(answers[c]) = answers[c][1]
         /\ answers[c][1].at = received[c] /\ Len(answers[c]) \in Nat /\ 1 \in 1..Len(answers[c])
         /\ answers' = [answers EXCEPT ![c] = Tail(answers[c])]
         /\ \A x, e \in Known : e.runtime = Head(answers[c]).runtime => NotLater(published, x, e)
         /\ Attachable(Head(answers[c]).runtime, 1)
<1>1. /\ c = current /\ answers[c] # << >> /\ Head(answers[c]).at = received[c]
      /\ answers' = [answers EXCEPT ![c] = Tail(answers[c])]
  BY DEF ResponseMessage, IsCurrent, AnswerIsNext
<1>2. answers[c] \in Seq(Answers) /\ current # NoSocket
  BY <1>1, WebSocketsAssumption DEF WebIInv, OnTheWay
<1>3. Head(answers[c]) \in Answers /\ Head(answers[c]) = answers[c][1]
  BY <1>1, <1>2, HeadTailProperties
<1>4. Len(answers[c]) \in Nat /\ 1 \in 1..Len(answers[c])
  <2>1. Len(answers[c]) \in Nat /\ Len(answers[c]) # 0
    BY <1>1, <1>2, EmptySeq, LenProperties
  <2> QED BY <2>1
<1>5. ASSUME NEW x \in Known, NEW e \in Known, e.runtime = Head(answers[c]).runtime
      PROVE  NotLater(published, x, e)
  BY <1>1, <1>2, <1>3, <1>4, <1>5 DEF WebIInv, Copies
<1>6. Attachable(Head(answers[c]).runtime, 1)
  BY <1>1, <1>2, <1>3, <1>4 DEF Attachable
<1> QED BY <1>1, <1>2, <1>3, <1>4, <1>5, <1>6

\* The page is not placed by an answer but with what was kept of the runtime, if one runs.
AnswerPlaces(r) ==
  \/ CopiesMove /\ ((Placed' => Placed) \/ r = NoRuntime)
  \/ r \in Runtimes /\ HandedOver(r)

\* A response brings the copies nothing but what waited for a listener.
LEMMA ResponsePage ==
  ASSUME WebIInv, NEW c \in Connections, ResponseMessage(c)
  PROVE  /\ CopiesGain({}) /\ CoverageKept
         /\ held' \in {held, << >>} /\ captured' \in Runtimes \cup {NoRuntime}
         /\ AnswerPlaces(Head(answers[c]).runtime)
<1> DEFINE answer == Head(answers[c])
           awaited == {request \in pending : request.id = answer.id}
<1>0. /\ page \in Pages /\ Listens(page) /\ held \in Seq(Event) /\ InOrder(published, page.applied)
      /\ heldLocal \in BOOLEAN
      /\ \A r \in Runtimes : page.listeners[r] \in Nat
  BY CopiesNow DEF Pages
<1>1. /\ answer \in Answers
      /\ \A x, e \in Known : e.runtime = answer.runtime => NotLater(published, x, e)
      /\ Attachable(answer.runtime, 1)
  BY NextAnswer
<1>2. UNCHANGED <<stored, lost>> /\ captured \in Runtimes \cup {NoRuntime}
  BY DEF ResponseMessage, historyVars, WebIInv, WebInvariant, WebTypeOK
<1>3. \/ UNCHANGED <<page, pendingEvents, prompting, captured, held, heldLocal>>
      \/ \E request \in pending : Settle(request, answer)
  BY DEF ResponseMessage
<1>4. ASSUME Recached PROVE CopiesGain({}) /\ CoverageKept /\ CopiesMove
  BY <1>2, <1>4, RecachedKeeps
<1>5. CASE UNCHANGED <<page, pendingEvents, prompting, captured, held, heldLocal>>
  <2>1. Recached
    BY <1>0, <1>2, <1>5 DEF Recached
  <2>2. Placed' => Placed
    BY <1>5 DEF Placed
  <2> QED BY <1>2, <1>4, <1>5, <2>1, <2>2 DEF AnswerPlaces
<1> HIDE DEF answer
<1>6. ASSUME NEW request \in pending, Settle(request, answer)
      PROVE  /\ CopiesGain({}) /\ CoverageKept
             /\ held' \in {held, << >>} /\ captured' \in Runtimes \cup {NoRuntime}
             /\ AnswerPlaces(answer.runtime)
  <2>1. CASE request.kind = "attach"
    <3> DEFINE stays == answer.runtime = NoRuntime \/ page.entry # NoRuntime
               attached == IF stays THEN page ELSE Subscribed(page, answer.runtime)
    <3>1. /\ page' = IF prompting = "attaching" THEN CacheHeld(attached) ELSE attached
          /\ IF stays THEN UNCHANGED pendingEvents ELSE ForgetBuffer(answer.runtime)
          /\ captured' = attached.entry \/ captured' = captured
          /\ held' = held
      BY <1>6, <2>1 DEF Settle
    <3>2. CASE stays
      <4>1. attached = page
        BY <3>2
      <4>2. Recached
        <5>1. CASE page' = page
          BY <1>0, <1>2, <3>1, <3>2, <5>1 DEF Recached
        <5>2. CASE page' = CacheHeld(page)
          <6>1. /\ page' \in Pages /\ Listens(page') /\ page'.applied = held
                /\ page'.heard = page.heard /\ page'.listeners = page.listeners
            BY <1>0, <5>2 DEF CacheHeld, Pages, Listens
          <6> QED BY <1>0, <1>2, <3>1, <3>2, <6>1 DEF Recached
        <5> QED BY <3>1, <4>1, <5>1, <5>2
      <4>3. page.entry \in Runtimes \cup {NoRuntime}
        BY <1>0 DEF Pages
      <4>4. Placed \/ answer.runtime = NoRuntime
        BY <3>2 DEF Placed
      <4>5. AnswerPlaces(answer.runtime)
        BY <1>4, <4>2, <4>4 DEF AnswerPlaces
      <4> QED BY <1>2, <1>4, <3>1, <4>1, <4>2, <4>3, <4>5
    <3>3. CASE ~ stays
      <4> DEFINE q == Subscribed(page, answer.runtime)
      <4>1. answer.runtime \in Runtimes /\ attached = q /\ ForgetBuffer(answer.runtime)
        BY <1>1, <3>1, <3>3 DEF Answers
      <4>2. ToSet(page.applied) \subseteq Known
        BY DEF Known
      <4>3. \A x \in Known, e \in ToSet(pendingEvents[answer.runtime]) : NotLater(published, x, e)
        <5>1. \A e \in ToSet(pendingEvents[answer.runtime]) : e.runtime = answer.runtime
          <6>1. /\ pendingEvents[answer.runtime] \in Seq(Event)
                /\ \A i \in 1..Len(pendingEvents[answer.runtime]) :
                     pendingEvents[answer.runtime][i].runtime = answer.runtime
            BY <4>1, CopiesNow
          <6>2. DOMAIN pendingEvents[answer.runtime] = 1..Len(pendingEvents[answer.runtime])
            BY <6>1, LenProperties
          <6> QED BY <6>1, <6>2 DEF ToSet
        <5>2. ToSet(pendingEvents[answer.runtime]) \subseteq Known
          BY <4>1 DEF Known
        <5> QED BY <1>1, <5>1, <5>2
      <4>31. page.local => \A x \in ToSet(page.applied), e \in ToSet(pendingEvents[answer.runtime]) :
                             Newer(x, e)
        BY <1>1, <4>1 DEF WebIInv, LocalTurns, BufferIsNewer, Placed, InCopies
      <4>4. Subscribes(page, q, answer.runtime, ToSet(pendingEvents[answer.runtime]))
        BY <1>0, <4>1, <4>2, <4>3, <4>31, SubscribedKeeps
      <4> HIDE DEF q
      <4>5. page' = q \/ page' = [q EXCEPT !.applied = held, !.local = heldLocal]
        BY <3>1, <4>1 DEF CacheHeld
      <4>6. /\ CopiesGain({}) /\ CoverageKept /\ q.entry \in Runtimes \cup {NoRuntime}
            /\ HandedOver(answer.runtime)
        BY <1>2, <3>1, <4>1, <4>4, <4>5, SubscribedPage
      <4> QED BY <1>2, <3>1, <4>1, <4>6 DEF AnswerPlaces
    <3> QED BY <3>2, <3>3
  <2>2. CASE request.kind # "attach"
    <3>0. (Placed' => Placed)
      <4>1. CASE request.kind \in {"start", "prompt"}
        <5>1. prompting = "asked"
          BY <4>1 DEF WebIInv, OnTheWay
        <5> QED BY <5>1 DEF Placed
      <4>2. CASE request.kind \notin {"start", "prompt"}
        <5>1. request.kind = "close"
          BY <2>2, <4>2 DEF WebIInv, WebInvariant, WebTypeOK
        <5>2. page' = RemoveRuntime(page) /\ UNCHANGED <<prompting, heldLocal>>
          BY <1>6, <5>1 DEF Settle
        <5>3. page'.entry = NoRuntime /\ page'.local = page.local
          BY <1>0, <5>2, RemoveRuntimeKeeps
        <5> QED BY <5>2, <5>3 DEF Placed
      <4> QED BY <4>1, <4>2
    <3>1. /\ UNCHANGED <<pendingEvents, captured>>
          /\ \/ UNCHANGED page /\ held' \in {held, << >>}
             \/ page' = RemoveRuntime(page) /\ UNCHANGED held
             \/ Rejected({request})
      BY <1>6, <2>2 DEF Settle
    <3>2. CASE UNCHANGED page /\ held' \in {held, << >>}
      <4>1. Recached
        BY <1>0, <1>2, <3>1, <3>2 DEF Recached
      <4> QED BY <1>2, <1>4, <3>0, <3>1, <3>2, <4>1 DEF AnswerPlaces
    <3>3. CASE page' = RemoveRuntime(page) /\ UNCHANGED held
      <4>1. Recached
        BY <1>0, <1>2, <3>1, <3>3, RemoveRuntimeKeeps DEF Recached
      <4> QED BY <1>2, <1>4, <3>0, <3>1, <3>3, <4>1 DEF AnswerPlaces
    <3>4. CASE Rejected({request})
      <4>1. Recached
        BY <1>2, <3>1, <3>4, RejectionRecaches
      <4>2. held' \in {held, << >>}
        BY <3>4 DEF Rejected
      <4> QED BY <1>2, <1>4, <3>0, <3>1, <4>1, <4>2 DEF AnswerPlaces
    <3> QED BY <3>1, <3>2, <3>3, <3>4
  <2> QED BY <2>1, <2>2
<1> QED BY <1>3, <1>5, <1>6 DEF answer

\* A runtime that was not drawn yet has published nothing.
LEMMA NewIsUnpublished ==
  ASSUME WebIInv, NEW r \in Runtimes, r \notin used
  PROVE  /\ \A x \in ToSet(published) : x.runtime # r
         /\ activeRuntimes[Session] # r /\ pendingEvents[r] = << >>
<1>1. /\ \A m \in 1..Len(published) : published[m].runtime # r
      /\ activeRuntimes[Session] # r
  BY DEF WebIInv, StartsOnce
<1>2. \A x \in ToSet(published) : x.runtime # r
  BY <1>1, CopiesNow, PublishedPlaces
<1>3. pendingEvents[r] = << >>
  <2>1. /\ pendingEvents[r] \in Seq(Event) /\ Known \subseteq ToSet(published)
        /\ \A i \in 1..Len(pendingEvents[r]) : pendingEvents[r][i].runtime = r
    BY CopiesNow
  <2>2. Len(pendingEvents[r]) \in Nat /\ DOMAIN pendingEvents[r] = 1..Len(pendingEvents[r])
    BY <2>1, LenProperties
  <2>3. ASSUME NEW i \in 1..Len(pendingEvents[r]) PROVE FALSE
    <3>1. pendingEvents[r][i] \in ToSet(pendingEvents[r])
      BY <2>2 DEF ToSet
    <3>2. pendingEvents[r][i] \in Known
      BY <3>1 DEF Known
    <3> QED BY <1>2, <2>1, <3>2
  <2>4. Len(pendingEvents[r]) = 0
    BY <2>2, <2>3
  <2> QED BY <2>1, <2>4, EmptySeq
<1> QED BY <1>1, <1>2, <1>3

\* Nor does the listener for a runtime that is to be started.
LEMMA StartPage ==
  ASSUME WebIInv, NEW projection \in Projections(held), NEW r \in Runtimes,
         StartRuntime(r, projection)
  PROVE  CopiesGain({}) /\ CoverageKept /\ CopiesMove
<1>0. /\ page \in Pages /\ Listens(page) /\ {held, stored} \subseteq Seq(Event)
      /\ InOrder(published, held) /\ InOrder(published, stored)
      /\ pendingEvents \in [Runtimes -> Seq(Event)]
      /\ \A s \in Runtimes : /\ page.listeners[s] > 0 => pendingEvents[s] = << >>
                             /\ \A i \in 1..Len(pendingEvents[s]) : pendingEvents[s][i].runtime = s
                             /\ page.listeners[s] \in Nat
  BY CopiesNow DEF Pages
<1> DEFINE o == CacheSaved(projection)
           q == Subscribed(o, r)
<1>1. /\ projection \in {stored, held} /\ projection \in Seq(Event)
      /\ InOrder(published, projection) /\ ToSet(projection) \subseteq Known
  <2>1. projection \in {stored, held}
    BY ProjectionsOf
  <2> QED BY <1>0, <2>1 DEF Known
<1>2. /\ r \notin used /\ stored' = projection /\ ForgetBuffer(r) /\ lost' = lost
      /\ page' = q \/ page' = TurnFailed(q, projection)
      /\ held' = projection \/ held' = << >>
  BY DEF StartRuntime
<1>3. pendingEvents[r] = << >>
  BY <1>2, NewIsUnpublished
<1>4. UNCHANGED pendingEvents
  BY <1>0, <1>2, <1>3 DEF ForgetBuffer
<1>5. /\ o \in Pages /\ o.applied = projection /\ o.heard = page.heard
      /\ o.listeners = page.listeners /\ o.local = FALSE
  BY <1>0, <1>1 DEF CacheSaved, Pages
<1> HIDE DEF o
<1>6. Subscribes(o, q, r, {})
  <2>1. ToSet(pendingEvents[r]) = {}
    BY <1>3, NothingInOrder
  <2>2. \A x \in Known, e \in ToSet(pendingEvents[r]) : NotLater(published, x, e)
    BY <2>1
  <2>3. InOrder(published, o.applied) /\ ToSet(o.applied) \subseteq Known
    BY <1>1, <1>5
  <2>4. Subscribes(o, q, r, ToSet(pendingEvents[r]))
    BY <1>5, <2>2, <2>3, SubscribedKeeps
  <2> QED BY <2>1, <2>4
<1> HIDE DEF q
<1>7. /\ q \in Pages /\ Listens(q) /\ InOrder(published, q.applied) /\ q.heard = page.heard
      /\ ToSet(q.applied) \subseteq ToSet(projection)
      /\ \A s \in Runtimes : q.listeners[s] \in Nat /\ (s # r => q.listeners[s] <= page.listeners[s])
  BY <1>1, <1>5, <1>6 DEF Subscribes, Pages
<1>8. /\ page' \in Pages /\ Listens(page') /\ page'.applied \in {q.applied, projection}
      /\ page'.heard = page.heard
      /\ \A s \in Runtimes : page'.listeners[s] <= q.listeners[s] /\ page'.listeners[s] \in Nat
  <2>1. CASE page' = q
    BY <1>7, <2>1
  <2>2. CASE page' = TurnFailed(q, projection)
    <3>1. /\ page' \in Pages /\ Listens(page') /\ page'.applied = projection /\ page'.heard = q.heard
          /\ \A s \in Runtimes : page'.listeners[s] <= q.listeners[s]
      BY <1>1, <1>7, <2>2, TurnFailedKeeps
    <3> QED BY <1>7, <3>1 DEF Pages
  <2> QED BY <1>2, <2>1, <2>2
<1>9. \A s \in Runtimes : page'.listeners[s] > 0 => pendingEvents'[s] = << >>
  <2>1. ASSUME NEW s \in Runtimes, s # r, page'.listeners[s] > 0
        PROVE  page.listeners[s] > 0
    <3>1. page'.listeners[s] <= q.listeners[s] /\ page'.listeners[s] \in Nat
      BY <1>8
    <3>2. q.listeners[s] <= page.listeners[s] /\ q.listeners[s] \in Nat
      BY <1>7, <2>1
    <3>3. page.listeners[s] \in Nat
      BY <1>0
    <3> QED BY <2>1, <3>1, <3>2, <3>3
  <2> QED BY <1>0, <1>3, <1>4, <2>1
<1>10. Known' \subseteq Known
  <2>1. Known' = ToSet(page'.applied) \cup ToSet(held') \cup ToSet(stored')
                   \cup UNION {ToSet(pendingEvents[s]) : s \in Runtimes}
    BY <1>4 DEF Known
  <2>2. ToSet(held') \subseteq Known /\ ToSet(stored') \subseteq Known
    BY <1>1, <1>2, NothingInOrder
  <2>3. ToSet(page'.applied) \subseteq Known
    BY <1>1, <1>7, <1>8
  <2>4. UNION {ToSet(pendingEvents[s]) : s \in Runtimes} \subseteq Known
    BY DEF Known
  <2> QED BY <2>1, <2>2, <2>3, <2>4
<1>11. /\ InOrder(published, page'.applied) /\ InOrder(published, held') /\ InOrder(published, stored')
       /\ {held', stored'} \subseteq Seq(Event)
  BY <1>1, <1>2, <1>7, <1>8, NothingInOrder
<1>12. CopiesGain({})
  BY <1>0, <1>4, <1>8, <1>9, <1>10, <1>11 DEF CopiesGain
<1>13. CoverageKept
  BY <1>2, <1>4, <1>8 DEF CoverageKept, Covered
<1>14. CopiesMove
  <2>1. InCopies' = ToSet(page'.applied) \cup ToSet(held') \cup ToSet(stored')
    BY DEF InCopies
  <2>2. ToSet(projection) \subseteq InCopies
    BY <1>1 DEF InCopies
  <2>3. /\ ToSet(held') \subseteq InCopies /\ ToSet(stored') \subseteq InCopies
        /\ ToSet(page'.applied) \subseteq InCopies
    BY <1>2, <1>7, <1>8, <2>2, NothingInOrder
  <2>4. InCopies' \subseteq InCopies
    BY <2>1, <2>3
  <2> QED BY <1>4, <2>4 DEF CopiesMove
<1> QED BY <1>12, <1>13, <1>14

\* A page that is loaded anew has the task as the daemon stores it.
LEMMA ReloadPage ==
  ASSUME WebIInv, Reload
  PROVE  CopiesGain({}) /\ current' = NoSocket /\ ~Placed'
<1>0. stored \in Seq(Event) /\ InOrder(published, stored)
  BY CopiesNow
<1>1. /\ page' = [NoPage EXCEPT !.applied = stored] /\ stored' = stored /\ held' = << >>
      /\ pendingEvents' = [r \in Runtimes |-> << >>] /\ current' = NoSocket
      /\ heldLocal' = FALSE /\ prompting' = "no"
  BY DEF Reload, GiveUp
<1>2. NoPage \in Pages /\ Listens(NoPage) /\ \A r \in Runtimes : NoPage.listeners[r] = 0
  <2>1. NoPage.listeners \in [Runtimes -> Nat]
    BY DEF NoPage
  <2> QED BY <2>1, NothingInOrder DEF NoPage, Pages, Listens
<1>3. /\ page' \in Pages /\ Listens(page') /\ page'.applied = stored
      /\ page'.listeners = NoPage.listeners /\ page'.entry = NoRuntime /\ page'.local = FALSE
  BY <1>0, <1>1, <1>2 DEF NoPage, Pages, Listens
<1>4. /\ pendingEvents' \in [Runtimes -> Seq(Event)]
      /\ \A r \in Runtimes : pendingEvents'[r] = << >> /\ ToSet(pendingEvents'[r]) = {}
  BY <1>1, NothingInOrder
<1>5. Known' \subseteq Known
  <2>1. Known' = ToSet(stored) \cup ToSet(<< >>) \cup ToSet(stored)
                   \cup UNION {ToSet(pendingEvents'[r]) : r \in Runtimes}
    BY <1>1, <1>3 DEF Known
  <2>2. UNION {ToSet(pendingEvents'[r]) : r \in Runtimes} = {}
    BY <1>4
  <2>3. ToSet(stored) \subseteq Known
    BY DEF Known
  <2> QED BY <2>1, <2>2, <2>3, NothingInOrder
<1>6. Len(<< >>) = 0
  OBVIOUS
<1>7. ~Placed'
  BY <1>1, <1>3 DEF Placed
<1> QED BY <1>0, <1>1, <1>2, <1>3, <1>4, <1>5, <1>6, <1>7, NothingInOrder DEF CopiesGain

-----------------------------------------------------------------------------
(* The sockets, and the client's state *)

\* The types of what belongs to a connection.
SocketTypes ==
  /\ link \in [Connections -> {"none", "connecting", "open", "closing", "broken", "errored",
                               "closed"}]
  /\ accepted \in [Connections -> {"no", "greeted", "answered", "rejected", "subscribed"}]
  /\ state \in {"disconnected", "connecting", "connected"}
  /\ {socket, current} \subseteq Connections \cup {NoSocket} /\ settled \subseteq Connections
  /\ sequences \in [Runtimes -> Cursor] /\ resumeFrom \in [Connections -> [Runtimes -> Cursor]]

\* Steps that leave the sockets and the client's state.
ElsewhereNext ==
  \/ \E c \in Connections : ResponseMessage(c) \/ HandleRequest(c) \/ StartFails(c)
  \/ \E request \in pending : TimeOut(request)
  \/ AttachSession \/ SendPrompt \/ PreparationFails \/ PromptStarted
  \/ CloseSession \/ PersistProjection \/ RefetchSession
  \/ \E projection \in Projections(held) :
       PromptRuntime(projection) \/ \E r \in Runtimes : StartRuntime(r, projection)
  \/ \E r \in Runtimes :
       StartedElsewhere(r) \/ \E payload \in Payloads : Publication(r, payload)
  \/ ClosedElsewhere
  \/ UNCHANGED webVars

\* Steps of a socket, and of the client with it.
SocketNext ==
  \/ \E c \in Connections :
       \/ Connect(c) \/ Opened(c) \/ HandshakeMessage(c) \/ EventMessage(c) \/ SocketErrors(c)
       \/ SocketCloses(c) \/ ConnectionEnds(c) \/ AnswerHello(c) \/ SubscribeConnection(c)
  \/ Disconnect \/ Reload \/ DaemonRestart

\* The steps, by whether a socket or the client's state has a part in them.
LEMMA SocketSteps ==
  ASSUME [WebNext]_webVars
  PROVE  SocketNext \/ ElsewhereNext
BY DEF WebNext, ClientNext, PageNext, DaemonNext, SocketNext, ElsewhereNext

\* An answer goes out behind the events sent so far, if the connection is still there.
Answered(c, runtime) ==
  \/ UNCHANGED answers
  \/ /\ c \in subscribers
     /\ \E answer \in Answers :
          /\ answer.at = Len(outgoing[c][Session]) /\ answer.runtime = runtime
          /\ answers' = [answers EXCEPT ![c] = Append(@, answer)]

\* What the mailbox does with a request.
LEMMA RequestHandled ==
  ASSUME WebIInv, NEW c \in Connections, HandleRequest(c)
  PROVE  /\ accepted[c] = "subscribed" /\ requests[c] # << >> /\ Head(requests[c]) \in WebRequests
         /\ Head(requests[c]) = requests[c][1] /\ 1 \in 1..Len(requests[c])
         /\ requests' = [requests EXCEPT ![c] = Tail(@)]
         /\ Answered(c, activeRuntimes[Session])
         /\ \/ UNCHANGED hubVars
            \/ /\ Head(requests[c]).kind = "start" /\ Head(requests[c]).runtime \in Runtimes
               /\ BeginRuntime(Session, Head(requests[c]).runtime)
            \/ /\ activeRuntimes[Session] \in Runtimes
               /\ EndRuntime(Session, activeRuntimes[Session])
         /\ UNCHANGED <<link, accepted, resumeFrom, received, clientVars, pending, pageVars,
                        historyVars, boundVars>>
<1> DEFINE request == Head(requests[c])
           active == activeRuntimes[Session]
<1>1. /\ accepted[c] = "subscribed" /\ requests[c] # << >>
      /\ requests' = [requests EXCEPT ![c] = Tail(@)]
      /\ UNCHANGED <<link, accepted, resumeFrom, received, clientVars, pending, pageVars,
                     historyVars, boundVars>>
  BY DEF HandleRequest
<1>2. /\ requests[c] \in Seq(WebRequests) /\ outgoing[c][Session] \in Seq(Event)
      /\ active \in Runtimes \cup {NoRuntime}
      /\ \A i \in 1..Len(requests[c]) :
           requests[c][i].kind \in {"start", "close"} => requests[c][i].runtime \in Runtimes
  BY CopiesNow, WebSessionAssumption DEF WebIInv, OnTheWay, HubTypeOK
<1>3. request \in WebRequests /\ request = requests[c][1] /\ 1 \in 1..Len(requests[c])
  <2>1. Len(requests[c]) \in Nat /\ Len(requests[c]) # 0
    BY <1>1, <1>2, EmptySeq, LenProperties
  <2> QED BY <1>1, <1>2, <2>1, HeadTailProperties
<1>4. Len(outgoing[c][Session]) \in Nat
  BY <1>2, LenProperties
<1> HIDE DEF request
<1>5. request.kind \in {"start", "close"} => request.runtime \in Runtimes
  BY <1>2, <1>3
<1> DEFINE Replies(ok) ==
             answers' = IF c \in subscribers
                          THEN [answers EXCEPT ![c] = Append(@,
                                 [id |-> request.id, ok |-> ok, runtime |-> active,
                                  at |-> Len(outgoing[c][Session])])]
                          ELSE answers
<1>6. ASSUME NEW ok \in BOOLEAN, Replies(ok) PROVE Answered(c, active)
  <2> DEFINE answer == [id |-> request.id, ok |-> ok, runtime |-> active,
                        at |-> Len(outgoing[c][Session])]
  <2>1. answer \in Answers /\ answer.at = Len(outgoing[c][Session]) /\ answer.runtime = active
    BY <1>2, <1>3, <1>4 DEF Answers, WebRequests
  <2> HIDE DEF answer
  <2>2. answers' = IF c \in subscribers THEN [answers EXCEPT ![c] = Append(@, answer)] ELSE answers
    BY <1>6 DEF answer
  <2> QED BY <2>1, <2>2 DEF Answered
<1>7. request.kind \in {"attach", "start", "prompt", "close"}
  BY <1>3 DEF WebRequests
<1>8. /\ \E ok \in BOOLEAN : Replies(ok)
      /\ \/ UNCHANGED hubVars
         \/ request.kind = "start" /\ BeginRuntime(Session, request.runtime)
         \/ request.kind = "close" /\ active = request.runtime /\ EndRuntime(Session, active)
  <2>1. CASE request.kind = "attach"
    BY <2>1 DEF HandleRequest, request
  <2>2. CASE request.kind = "start"
    BY <2>2 DEF HandleRequest, request
  <2>3. CASE request.kind = "prompt"
    BY <2>3 DEF HandleRequest, request
  <2>4. CASE request.kind = "close"
    BY <2>4 DEF HandleRequest, request
  <2> QED BY <1>7, <2>1, <2>2, <2>3, <2>4
<1> HIDE DEF Replies
<1>9. Answered(c, active)
  BY <1>6, <1>8
<1> QED BY <1>1, <1>3, <1>5, <1>8, <1>9 DEF request

\* The others leave both.
LEMMA ElsewhereLeaves ==
  ASSUME WebIInv, ElsewhereNext
  PROVE  UNCHANGED <<link, accepted, resumeFrom, state, socket, current, settled, sequences,
                     received, opened, subscribers>>
<1> USE DEF hubVars, socketVars, clientVars, pageVars, historyVars, webVars
<1>1. ASSUME NEW c \in Connections, ResponseMessage(c)
      PROVE  UNCHANGED <<link, accepted, resumeFrom, state, socket, current, settled, sequences,
                         received, opened, subscribers>>
  BY <1>1 DEF ResponseMessage
<1>2. ASSUME NEW c \in Connections, HandleRequest(c)
      PROVE  UNCHANGED <<link, accepted, resumeFrom, state, socket, current, settled, sequences,
                         received, opened, subscribers>>
  BY <1>2, RequestHandled DEF BeginRuntime, EndRuntime
<1>3. ASSUME NEW c \in Connections, StartFails(c)
      PROVE  UNCHANGED <<link, accepted, resumeFrom, state, socket, current, settled, sequences,
                         received, opened, subscribers>>
  BY <1>3 DEF StartFails
<1>4. ASSUME NEW request \in pending, TimeOut(request)
      PROVE  UNCHANGED <<link, accepted, resumeFrom, state, socket, current, settled, sequences,
                         received, opened, subscribers>>
  BY <1>4 DEF TimeOut
<1>5. ASSUME \/ AttachSession \/ SendPrompt \/ PreparationFails \/ PromptStarted
             \/ CloseSession \/ PersistProjection \/ RefetchSession
      PROVE  UNCHANGED <<link, accepted, resumeFrom, state, socket, current, settled, sequences,
                         received, opened, subscribers>>
  BY <1>5 DEF AttachSession, SendPrompt, PreparationFails, PromptStarted, CloseSession,
              PersistProjection, RefetchSession
<1>6. ASSUME NEW projection,
             PromptRuntime(projection) \/ \E r \in Runtimes : StartRuntime(r, projection)
      PROVE  UNCHANGED <<link, accepted, resumeFrom, state, socket, current, settled, sequences,
                         received, opened, subscribers>>
  <2>1. CASE PromptRuntime(projection)
    BY <2>1 DEF PromptRuntime
  <2>2. ASSUME NEW r \in Runtimes, StartRuntime(r, projection)
        PROVE  UNCHANGED <<link, accepted, resumeFrom, state, socket, current, settled, sequences,
                           received, opened, subscribers>>
    BY <2>2 DEF StartRuntime
  <2> QED BY <1>6, <2>1, <2>2
<1>7. ASSUME NEW r \in Runtimes,
             StartedElsewhere(r) \/ \E payload \in Payloads : Publication(r, payload)
      PROVE  UNCHANGED <<link, accepted, resumeFrom, state, socket, current, settled, sequences,
                         received, opened, subscribers>>
  BY <1>7 DEF StartedElsewhere, Publication, BeginRuntime, Emit, Publish
<1>8. ASSUME ClosedElsewhere \/ UNCHANGED webVars
      PROVE  UNCHANGED <<link, accepted, resumeFrom, state, socket, current, settled, sequences,
                         received, opened, subscribers>>
  BY <1>8 DEF ClosedElsewhere, EndRuntime
<1> QED BY <1>1, <1>2, <1>3, <1>4, <1>5, <1>6, <1>7, <1>8 DEF ElsewhereNext

\* The types of the sockets.
LEMMA SocketTypesNow ==
  ASSUME WebIInv
  PROVE  SocketTypes /\ Sockets
<1>1. resumeFrom \in [Connections -> [Runtimes -> Cursor]]
  BY DEF WebIInv, OnTheWay
<1> QED BY <1>1 DEF WebIInv, WebInvariant, WebTypeOK, SocketTypes

\* They keep their types in every step.
LEMMA SocketTypesStep ==
  ASSUME WebIInv, [WebNext]_webVars
  PROVE  SocketTypes'
<1> USE DEF clientVars
<1>0. SocketTypes /\ (state # "disconnected" => current \in Connections)
  BY SocketTypesNow DEF Sockets, SocketTypes
<1>1. CASE ElsewhereNext
  BY <1>0, <1>1, ElsewhereLeaves DEF SocketTypes
<1>2. ASSUME NEW c \in Connections, Connect(c) PROVE SocketTypes'
  BY <1>0, <1>2 DEF SocketTypes, Connect
<1>3. ASSUME NEW c \in Connections, Opened(c) PROVE SocketTypes'
  BY <1>0, <1>3 DEF SocketTypes, Opened
<1>4. ASSUME NEW c \in Connections, HandshakeMessage(c) PROVE SocketTypes'
  BY <1>0, <1>4 DEF SocketTypes, HandshakeMessage, FailHandshake
<1>5. ASSUME NEW c \in Connections, EventMessage(c) PROVE SocketTypes'
  <2> DEFINE e == outgoing[c][Session][received[c] + 1]
  <2>1. e \in Event
    BY <1>5, NextEvent
  <2>2. \/ sequences' = sequences
        \/ sequences' = [sequences EXCEPT ![e.runtime] = [epoch |-> e.epoch, sequence |-> e.sequence]]
    BY <1>5 DEF EventMessage
  <2>3. UNCHANGED <<link, accepted, state, socket, current, settled, resumeFrom>>
    BY <1>5 DEF EventMessage
  <2> HIDE DEF e
  <2>4. [epoch |-> e.epoch, sequence |-> e.sequence] \in Cursor
    BY <2>1 DEF Event, Cursor
  <2> QED BY <1>0, <2>2, <2>3, <2>4 DEF SocketTypes
<1>6. ASSUME NEW c \in Connections, SocketErrors(c) PROVE SocketTypes'
  BY <1>0, <1>6 DEF SocketTypes, SocketErrors, FailHandshake
<1>7. ASSUME NEW c \in Connections, SocketCloses(c) PROVE SocketTypes'
  BY <1>0, <1>7 DEF SocketTypes, SocketCloses, MarkDisconnected
<1>8. ASSUME NEW c \in Connections, ConnectionEnds(c) PROVE SocketTypes'
  BY <1>0, <1>8 DEF SocketTypes, ConnectionEnds
<1>9. ASSUME NEW c \in Connections, AnswerHello(c) PROVE SocketTypes'
  BY <1>0, <1>9 DEF SocketTypes, AnswerHello
<1>10. ASSUME NEW c \in Connections, SubscribeConnection(c) PROVE SocketTypes'
  <2>1. [r \in Runtimes |-> NoCursor] \in [Runtimes -> Cursor]
    BY DEF NoCursor, Cursor
  <2> QED BY <1>0, <1>10, <2>1 DEF SocketTypes, SubscribeConnection
<1>11. ASSUME Disconnect PROVE SocketTypes'
  BY <1>0, <1>11 DEF SocketTypes, Disconnect, GiveUp, MarkDisconnected
<1>12. ASSUME Reload PROVE SocketTypes'
  <2>1. [r \in Runtimes |-> NoCursor] \in [Runtimes -> Cursor]
    BY DEF NoCursor, Cursor
  <2> QED BY <1>0, <1>12, <2>1 DEF SocketTypes, Reload, GiveUp
<1>13. ASSUME DaemonRestart PROVE SocketTypes'
  BY <1>0, <1>13 DEF SocketTypes, DaemonRestart
<1> QED BY <1>1, <1>2, <1>3, <1>4, <1>5, <1>6, <1>7, <1>8, <1>9, <1>10, <1>11, <1>12, <1>13,
           SocketSteps DEF SocketNext

\* A socket that has not subscribed is sent nothing.
LEMMA UnopenedStays ==
  ASSUME WebIInv, ElsewhereNext
  PROVE  \A c \in Connections \ opened :
           outgoing'[c][Session] = outgoing[c][Session] /\ answers'[c] = answers[c]
<1> USE DEF hubVars, socketVars, clientVars, pageVars, historyVars, webVars
<1> DEFINE Stays == \A c \in Connections \ opened :
                      outgoing'[c][Session] = outgoing[c][Session] /\ answers'[c] = answers[c]
<1>0. /\ Sockets /\ answers \in [Connections -> Seq(Answers)] /\ Session \in Sessions
      /\ outgoing \in [Connections -> [Sessions -> Seq(Event)]]
  BY CopiesNow, WebSessionAssumption DEF WebIInv, OnTheWay, HubTypeOK
<1>1. ASSUME NEW c \in Connections, ResponseMessage(c) PROVE Stays
  <2>1. answers[c] # << >> /\ answers' = [answers EXCEPT ![c] = Tail(@)] /\ outgoing' = outgoing
    BY <1>1 DEF ResponseMessage, AnswerIsNext
  <2>2. c \in opened
    BY <1>0, <2>1 DEF Sockets
  <2> QED BY <1>0, <2>1, <2>2
<1>2. ASSUME NEW c \in Connections, HandleRequest(c) PROVE Stays
  <2>1. accepted[c] = "subscribed" /\ Answered(c, activeRuntimes[Session]) /\ outgoing' = outgoing
    BY <1>2, RequestHandled DEF BeginRuntime, EndRuntime
  <2>2. c \in opened
    BY <1>0, <2>1 DEF Sockets
  <2> QED BY <1>0, <2>1, <2>2 DEF Answered
<1>3. ASSUME NEW c \in Connections, StartFails(c) PROVE Stays
  <2>1. accepted[c] = "subscribed" /\ outgoing' = outgoing
        /\ \E x : answers' = answers \/ answers' = [answers EXCEPT ![c] = x]
    BY <1>3 DEF StartFails
  <2>2. c \in opened
    BY <1>0, <2>1 DEF Sockets
  <2> QED BY <1>0, <2>1, <2>2
<1>4. ASSUME NEW r \in Runtimes, \E payload \in Payloads : Publication(r, payload) PROVE Stays
  <2>1. answers' = answers /\ \A c \in Connections \ subscribers : outgoing'[c] = outgoing[c]
    BY <1>4 DEF Publication, Emit, Publish
  <2>2. subscribers \subseteq opened
    BY <1>0, CopiesNow DEF Sockets, HubTypeOK
  <2> QED BY <2>1, <2>2
<1>5. ASSUME \/ \E request \in pending : TimeOut(request)
             \/ AttachSession \/ SendPrompt \/ PreparationFails \/ PromptStarted
             \/ CloseSession \/ PersistProjection \/ RefetchSession
      PROVE  UNCHANGED <<outgoing, answers>>
  BY <1>5 DEF TimeOut, AttachSession, SendPrompt, PreparationFails, PromptStarted, CloseSession,
              PersistProjection, RefetchSession
<1>6. ASSUME NEW projection, PromptRuntime(projection) PROVE UNCHANGED <<outgoing, answers>>
  BY <1>6 DEF PromptRuntime
<1>7. ASSUME NEW projection, NEW r \in Runtimes, StartRuntime(r, projection)
      PROVE  UNCHANGED <<outgoing, answers>>
  BY <1>7 DEF StartRuntime
<1>8. ASSUME NEW r \in Runtimes, StartedElsewhere(r) PROVE UNCHANGED <<outgoing, answers>>
  BY <1>8 DEF StartedElsewhere, BeginRuntime
<1>9. ASSUME ClosedElsewhere \/ UNCHANGED webVars PROVE UNCHANGED <<outgoing, answers>>
  BY <1>9 DEF ClosedElsewhere, EndRuntime
<1> QED BY <1>1, <1>2, <1>3, <1>4, <1>5, <1>6, <1>7, <1>8, <1>9 DEF ElsewhereNext

\* What Sockets says of one of them.
SocketInOrder(c) ==
  /\ link[c] = "none" => c # current
  /\ link[c] \in {"none", "connecting"} => accepted[c] = "no"
  /\ accepted[c] = "subscribed" <=> c \in opened
  /\ c \in subscribers => c \in opened
  /\ c \notin opened => outgoing[c][Session] = << >> /\ answers[c] = << >> /\ received[c] = 0
  /\ c = current /\ accepted[c] \in {"greeted", "answered"} => resumeFrom[c] = sequences
  /\ link[c] \notin {"none", "closed"} /\ c \notin settled => c = current /\ state = "connecting"

\* The sockets keep their order in every step.
LEMMA SocketsStep ==
  ASSUME WebIInv, [WebNext]_webVars
  PROVE  Sockets'
<1> USE DEF hubVars, clientVars
<1>0. /\ SocketTypes /\ \A c \in Connections : SocketInOrder(c)
      /\ state # "disconnected" => current # NoSocket /\ socket = current
      /\ HubTypeOK /\ NoSocket \notin Connections /\ answers \in [Connections -> Seq(Answers)]
      /\ received \in [Connections -> Nat]
  BY SocketTypesNow, CopiesNow, WebSocketsAssumption DEF Sockets, SocketInOrder, WebIInv, OnTheWay
<1>00. SUFFICES /\ state' # "disconnected" => current' # NoSocket /\ socket' = current'
                /\ \A d \in Connections : SocketInOrder(d)'
  BY DEF Sockets, SocketInOrder
<1> DEFINE Kept == /\ state' # "disconnected" => current' # NoSocket /\ socket' = current'
                   /\ \A d \in Connections : SocketInOrder(d)'
<1>1. CASE ElsewhereNext
  <2>1. UNCHANGED <<link, accepted, resumeFrom, state, socket, current, settled, sequences,
                    received, opened, subscribers>>
    BY <1>1, ElsewhereLeaves
  <2>2. \A c \in Connections \ opened :
           outgoing'[c][Session] = outgoing[c][Session] /\ answers'[c] = answers[c]
    BY <1>1, UnopenedStays
  <2> QED BY <1>0, <2>1, <2>2 DEF SocketInOrder
<1>2. ASSUME NEW c \in Connections, Connect(c) PROVE Kept
  <2>1. /\ state = "disconnected" /\ link[c] = "none"
        /\ state' = "connecting" /\ socket' = c /\ current' = c
        /\ link' = [link EXCEPT ![c] = "connecting"]
        /\ UNCHANGED <<hubVars, accepted, resumeFrom, received, answers, settled, sequences>>
    BY <1>2 DEF Connect
  <2> QED BY <1>0, <2>1 DEF SocketInOrder, SocketTypes
<1>3. ASSUME NEW c \in Connections, Opened(c) PROVE Kept
  <2>1. /\ link[c] = "connecting" /\ link' = [link EXCEPT ![c] = "open"]
        /\ \/ /\ accepted' = [accepted EXCEPT ![c] = "greeted"]
              /\ resumeFrom' = [resumeFrom EXCEPT ![c] = sequences]
           \/ c # current /\ UNCHANGED <<accepted, resumeFrom>>
        /\ UNCHANGED <<hubVars, received, answers, clientVars>>
    BY <1>3 DEF Opened, IsCurrent
  <2> QED BY <1>0, <2>1 DEF SocketInOrder, SocketTypes
<1>4. ASSUME NEW c \in Connections, HandshakeMessage(c) PROVE Kept
  <2>1. /\ link[c] \in {"open", "closing", "broken"} /\ c = current
        /\ settled' = settled \cup {c} /\ state' \in {"connected", "disconnected"}
        /\ \/ UNCHANGED link
           \/ link' = [link EXCEPT ![c] = IF @ = "open" THEN "closing" ELSE @]
        /\ UNCHANGED <<hubVars, accepted, resumeFrom, received, answers, socket, current, sequences>>
    BY <1>4 DEF HandshakeMessage, FailHandshake, Readable, IsCurrent
  <2>2. /\ \A d \in Connections : d # c => link'[d] = link[d]
        /\ link'[c] \in {"open", "closing", "broken"}
    BY <1>0, <2>1 DEF SocketTypes
  <2>3. state' # "disconnected" => current' # NoSocket /\ socket' = current'
    <3>1. state = "connecting"
      BY <1>0, <1>4, <2>1 DEF SocketInOrder, HandshakeMessage
    <3> QED BY <1>0, <2>1, <3>1
  <2> QED BY <1>0, <2>1, <2>2, <2>3 DEF SocketInOrder
<1>5. ASSUME NEW c \in Connections, EventMessage(c) PROVE Kept
  <2>1. /\ c = current /\ received' = [received EXCEPT ![c] = @ + 1]
        /\ UNCHANGED <<hubVars, link, accepted, resumeFrom, answers, state, socket, current, settled>>
    BY <1>5 DEF EventMessage, IsCurrent
  <2>2. Len(outgoing[c][Session]) # 0
    <3>1. received[c] + 1 \in 1..Len(outgoing[c][Session]) /\ received[c] \in Nat
      BY <1>5, NextEvent
    <3> QED BY <3>1
  <2>3. c \in opened
    BY <1>0, <2>2 DEF SocketInOrder
  <2>4. accepted[c] = "subscribed"
    BY <1>0, <2>3 DEF SocketInOrder
  <2> QED BY <1>0, <2>1, <2>3, <2>4 DEF SocketInOrder
<1>6. ASSUME NEW c \in Connections, SocketErrors(c) PROVE Kept
  <2>1. /\ link[c] = "broken" /\ c \notin settled /\ link' = [link EXCEPT ![c] = "errored"]
        /\ settled' = settled \cup {c} /\ state' = "disconnected"
        /\ UNCHANGED <<hubVars, accepted, resumeFrom, received, answers, socket, current, sequences>>
    BY <1>6 DEF SocketErrors, FailHandshake
  <2>2. c = current
    BY <1>0, <2>1 DEF SocketInOrder
  <2> QED BY <1>0, <2>1, <2>2 DEF SocketInOrder, SocketTypes
<1>7. ASSUME NEW c \in Connections, SocketCloses(c) PROVE Kept
  <2>1. /\ link[c] \in {"broken", "errored"} /\ link' = [link EXCEPT ![c] = "closed"]
        /\ answers' = [answers EXCEPT ![c] = << >>]
        /\ UNCHANGED <<hubVars, accepted, resumeFrom, received, current, sequences>>
        /\ \/ c = current /\ settled' = settled \cup {c} /\ state' = "disconnected"
           \/ UNCHANGED <<settled, state, socket>>
    BY <1>7 DEF SocketCloses, MarkDisconnected, IsCurrent
  <2>2. \A d \in Connections : d # c => link'[d] = link[d] /\ answers'[d] = answers[d]
    BY <1>0, <2>1 DEF SocketTypes
  <2>3. link'[c] = "closed" /\ answers'[c] = << >>
    BY <1>0, <2>1 DEF SocketTypes
  <2> QED BY <1>0, <2>1, <2>2, <2>3 DEF SocketInOrder
<1>8. ASSUME NEW c \in Connections, ConnectionEnds(c) PROVE Kept
  <2>1. /\ link[c] \in {"connecting", "open", "closing"} /\ link' = [link EXCEPT ![c] = "broken"]
        /\ subscribers' \subseteq subscribers
        /\ UNCHANGED <<opened, outgoing, accepted, resumeFrom, received, answers, clientVars>>
    BY <1>8 DEF ConnectionEnds, Unsubscribe
  <2> QED BY <1>0, <2>1 DEF SocketInOrder, SocketTypes
<1>9. ASSUME NEW c \in Connections, AnswerHello(c) PROVE Kept
  <2>1. /\ accepted[c] = "greeted" /\ link[c] \in {"open", "closing"}
        /\ \E a \in {"answered", "rejected"} : accepted' = [accepted EXCEPT ![c] = a]
        /\ UNCHANGED <<hubVars, link, resumeFrom, received, answers, clientVars>>
    BY <1>9 DEF AnswerHello
  <2> QED BY <1>0, <2>1 DEF SocketInOrder, SocketTypes
<1>10. ASSUME NEW c \in Connections, SubscribeConnection(c) PROVE Kept
  <2>1. /\ accepted[c] = "answered" /\ link[c] \in {"open", "closing"}
        /\ accepted' = [accepted EXCEPT ![c] = "subscribed"]
        /\ \E x : resumeFrom' = [resumeFrom EXCEPT ![c] = x]
        /\ \E x : outgoing' = [outgoing EXCEPT ![c] = x]
        /\ opened' = opened \cup {c} /\ subscribers' = subscribers \cup {c}
        /\ UNCHANGED <<link, received, answers, clientVars>>
    BY <1>10 DEF SubscribeConnection, Subscribe
  <2>2. /\ \A d \in Connections : d # c => /\ accepted'[d] = accepted[d]
                                           /\ resumeFrom'[d] = resumeFrom[d]
                                           /\ outgoing'[d] = outgoing[d]
        /\ accepted'[c] = "subscribed"
    BY <1>0, <2>1 DEF SocketTypes, HubTypeOK
  <2> QED BY <1>0, <2>1, <2>2 DEF SocketInOrder
<1>11. ASSUME Disconnect \/ Reload PROVE Kept
  <2>1. /\ current' = NoSocket /\ state' = "disconnected"
        /\ settled' = IF state = "connecting" THEN settled \cup {current} ELSE settled
        /\ link' = [c \in Connections |->
                      IF c = socket /\ link[c] \in {"connecting", "open"} THEN "closing" ELSE link[c]]
        /\ UNCHANGED <<hubVars, accepted, resumeFrom, received, answers>>
    BY <1>11 DEF Disconnect, Reload, GiveUp, MarkDisconnected
  <2>2. \A d \in Connections : /\ link'[d] = "none" <=> link[d] = "none"
                               /\ link'[d] = "connecting" => link[d] = "connecting"
                               /\ link'[d] = "closed" <=> link[d] = "closed"
    BY <1>0, <2>1
  <2> QED BY <1>0, <2>1, <2>2 DEF SocketInOrder
<1>12. ASSUME DaemonRestart PROVE Kept
  <2>1. /\ subscribers' = {} /\ UNCHANGED <<opened, outgoing, accepted, resumeFrom, received, answers,
                                           clientVars>>
        /\ link' = [c \in Connections |->
                     IF link[c] \in {"connecting", "open", "closing"} THEN "broken" ELSE link[c]]
    BY <1>12 DEF DaemonRestart, Restart
  <2>2. \A d \in Connections : /\ link'[d] = "none" <=> link[d] = "none"
                               /\ link'[d] # "connecting"
                               /\ link'[d] = "closed" <=> link[d] = "closed"
    BY <1>0, <2>1
  <2> QED BY <1>0, <2>1, <2>2 DEF SocketInOrder
<1> QED BY <1>1, <1>2, <1>3, <1>4, <1>5, <1>6, <1>7, <1>8, <1>9, <1>10, <1>11, <1>12,
           SocketSteps DEF SocketNext

-----------------------------------------------------------------------------
(* The requests that are awaited *)

Kinds == {"attach", "start", "prompt", "close"}

\* sendPrompt waits for one request at a time.
OneTurn ==
  \A p, q \in pending :
    {p.kind, q.kind} \subseteq {"start", "prompt"} => p = q /\ prompting = "asked"

\* Requests that wait for an answer are of the connection, and have an identity of their own.
Awaited ==
  /\ pending \subseteq [id : 1..MaxRequests, kind : Kinds, runtime : Runtimes \cup {NoRuntime}]
  /\ asked \in 0..MaxRequests
  /\ \A p \in pending : p.id <= asked /\ \A q \in pending : p.id = q.id => p = q
  /\ OneTurn
  /\ prompting \in {"no", "attaching", "preparing", "asked", "started"}
  /\ captured \in Runtimes \cup {NoRuntime}
  /\ RequestsAreAwaited

\* What the invariant says of them.
LEMMA AwaitedNow ==
  ASSUME WebIInv
  PROVE  Awaited /\ MaxRequests \in Nat
BY WebBoundsAssumption DEF WebIInv, WebInvariant, WebTypeOK, OnTheWay, Awaited, OneTurn, Kinds

\* A request is sent while there is a connection.
LEMMA RequestSent ==
  ASSUME WebIInv, NEW kind \in Kinds, NEW r \in Runtimes \cup {NoRuntime}, Request(kind, r),
         state = "connected", state' = state
  PROVE  /\ asked' \in 0..MaxRequests /\ state' = "connected"
         /\ pending' \subseteq [id : 1..MaxRequests, kind : Kinds, runtime : Runtimes \cup {NoRuntime}]
         /\ \A p \in pending' : p.id <= asked' /\ \A q \in pending' : p.id = q.id => p = q
         /\ \E request \in pending' : request.kind = kind /\ pending' = pending \cup {request}
<1> DEFINE request == [id |-> asked + 1, kind |-> kind, runtime |-> r]
<1>1. /\ asked < MaxRequests /\ asked' = asked + 1 /\ pending' = pending \cup {request}
  BY DEF Request
<1>2. /\ pending \subseteq [id : 1..MaxRequests, kind : Kinds, runtime : Runtimes \cup {NoRuntime}]
      /\ asked \in 0..MaxRequests /\ MaxRequests \in Nat
      /\ \A p \in pending : p.id <= asked /\ \A q \in pending : p.id = q.id => p = q
  BY AwaitedNow DEF Awaited
<1>3. /\ request \in [id : 1..MaxRequests, kind : Kinds, runtime : Runtimes \cup {NoRuntime}]
      /\ request.id = asked + 1 /\ request.kind = kind
  BY <1>1, <1>2
<1> HIDE DEF request
<1>4. \A p \in pending : p.id \in Nat /\ p.id <= asked
  BY <1>2
<1>5. \A p \in pending' : p.id <= asked' /\ \A q \in pending' : p.id = q.id => p = q
  BY <1>1, <1>2, <1>3, <1>4
<1> QED BY <1>1, <1>2, <1>3, <1>5

\* Requests of a connection that is gone are not awaited.
LEMMA DisconnectedAwaits ==
  ASSUME WebIInv, MarkDisconnected, UNCHANGED <<asked, captured>>
  PROVE  Awaited'
<1>1. Awaited
  BY AwaitedNow
<1>2. pending' = {} /\ prompting' \in {"no", "preparing", "started"}
  <2>1. CASE prompting = "preparing"
    BY <2>1 DEF MarkDisconnected, PreparationRejected
  <2>2. CASE prompting # "preparing"
    <3>1. pending' = {} /\ Rejected(pending)
      BY <2>2 DEF MarkDisconnected
    <3>2. \/ prompting' = "no"
          \/ /\ prompting' = prompting
             /\ ~ \E request \in pending : request.kind \in {"start", "prompt"}
             /\ ~ (prompting = "attaching" /\ \E request \in pending : request.kind = "attach")
      BY <3>1 DEF Rejected
    <3> QED BY <1>1, <3>1, <3>2 DEF Awaited, RequestsAreAwaited, AwaitsAttach
  <2> QED BY <2>1, <2>2
<1> QED BY <1>1, <1>2 DEF Awaited, OneTurn, RequestsAreAwaited

\* A request that is settled or rejected is the one that sendPrompt waited for, or not.
LEMMA OneLessAwaited ==
  ASSUME WebIInv, NEW request \in pending, pending' = pending \ {request},
         UNCHANGED <<state, asked>>, captured' \in Runtimes \cup {NoRuntime},
         \/ /\ prompting' \in {"no", "preparing", "started"}
            /\ request.kind \in {"start", "prompt"} \/ prompting # "asked"
         \/ /\ prompting' = prompting
            /\ request.kind \notin {"start", "prompt"}
            /\ prompting = "attaching" => request.kind # "attach"
  PROVE  Awaited'
<1>1. Awaited
  BY AwaitedNow
<1>2. prompting' = "attaching" => \E q \in pending' : q.kind = "attach"
  BY <1>1 DEF Awaited, RequestsAreAwaited, AwaitsAttach
<1>3. prompting' = "asked" => \E q \in pending' : q.kind \in {"start", "prompt"}
  BY <1>1 DEF Awaited, RequestsAreAwaited
<1>4. OneTurn'
  <2> SUFFICES ASSUME NEW p \in pending', NEW q \in pending',
                      {p.kind, q.kind} \subseteq {"start", "prompt"}
               PROVE  p = q /\ prompting' = "asked"
    BY DEF OneTurn
  <2>1. p \in pending /\ p # request /\ q \in pending
    OBVIOUS
  <2>2. p = q /\ prompting = "asked"
    BY <1>1, <2>1 DEF Awaited, OneTurn
  <2>3. request.kind \notin {"start", "prompt"}
    <3>1. {p.kind, request.kind} \subseteq {"start", "prompt"} => p = request
      BY <1>1, <2>1 DEF Awaited, OneTurn
    <3> QED BY <2>1, <3>1
  <2> QED BY <2>2, <2>3
<1> QED BY <1>1, <1>2, <1>3, <1>4 DEF Awaited, RequestsAreAwaited, AwaitsAttach

\* It holds after every step: no promise is left without its connection.
LEMMA AwaitedStep ==
  ASSUME WebIInv, [WebNext]_webVars
  PROVE  Awaited'
<1> USE DEF hubVars, socketVars, clientVars, pageVars, historyVars, boundVars, webVars
<1>0. Awaited /\ MaxRequests \in Nat /\ page.entry \in Runtimes \cup {NoRuntime}
  BY AwaitedNow, CopiesNow DEF Pages
<1>1. ASSUME UNCHANGED <<pending, asked, prompting, captured>>, state' = state \/ pending = {}
      PROVE  Awaited'
  BY <1>0, <1>1 DEF Awaited, OneTurn, RequestsAreAwaited, AwaitsAttach
<1>2. ASSUME NEW c \in Connections,
             Connect(c) \/ HandshakeMessage(c) \/ SocketErrors(c)
      PROVE  Awaited'
  <2>1. UNCHANGED <<pending, asked, prompting, captured>>
    BY <1>2 DEF Connect, HandshakeMessage, SocketErrors
  <2>2. state # "connected"
    <3>1. CASE Connect(c)
      BY <3>1 DEF Connect
    <3>2. CASE HandshakeMessage(c) \/ SocketErrors(c)
      <4>1. link[c] \notin {"none", "closed"} /\ c \notin settled
        BY <3>2 DEF HandshakeMessage, SocketErrors, Readable
      <4> QED BY <4>1, SocketTypesNow DEF Sockets
    <3> QED BY <1>2, <3>1, <3>2
  <2>3. pending = {}
    BY <1>0, <2>2 DEF Awaited, RequestsAreAwaited
  <2> QED BY <1>1, <2>1, <2>3
<1>3. ASSUME NEW c \in Connections,
             \/ Opened(c) \/ EventMessage(c) \/ ConnectionEnds(c) \/ AnswerHello(c)
             \/ SubscribeConnection(c)
      PROVE  Awaited'
  <2>1. UNCHANGED <<pending, asked, prompting, captured, state>>
    BY <1>3 DEF Opened, EventMessage, ConnectionEnds, AnswerHello, SubscribeConnection
  <2> QED BY <1>1, <2>1
<1>4. ASSUME NEW c \in Connections, HandleRequest(c) \/ StartFails(c) PROVE Awaited'
  <2>1. UNCHANGED <<pending, asked, prompting, captured, state>>
    BY <1>4 DEF HandleRequest, StartFails
  <2> QED BY <1>1, <2>1
<1>5. ASSUME NEW r \in Runtimes,
             StartedElsewhere(r) \/ \E payload \in Payloads : Publication(r, payload)
      PROVE  Awaited'
  <2>1. UNCHANGED <<pending, asked, prompting, captured, state>>
    BY <1>5 DEF StartedElsewhere, Publication
  <2> QED BY <1>1, <2>1
<1>6. ASSUME \/ ClosedElsewhere \/ DaemonRestart \/ PersistProjection \/ RefetchSession
             \/ UNCHANGED webVars
      PROVE  Awaited'
  <2>1. UNCHANGED <<pending, asked, prompting, captured, state>>
    BY <1>6 DEF ClosedElsewhere, DaemonRestart, PersistProjection, RefetchSession
  <2> QED BY <1>1, <2>1
<1>7. ASSUME NEW c \in Connections, SocketCloses(c) PROVE Awaited'
  <2>1. UNCHANGED <<asked, captured>> /\ (MarkDisconnected \/ UNCHANGED <<pending, prompting, state>>)
    BY <1>7 DEF SocketCloses
  <2> QED BY <1>1, <2>1, DisconnectedAwaits
<1>8. ASSUME Disconnect PROVE Awaited'
  <2>1. UNCHANGED <<asked, captured>> /\ MarkDisconnected
    BY <1>8 DEF Disconnect
  <2> QED BY <2>1, DisconnectedAwaits
<1>9. ASSUME Reload PROVE Awaited'
  <2>1. /\ UNCHANGED asked /\ captured' = NoRuntime /\ prompting' = "no" /\ pending' = {}
    BY <1>9 DEF Reload
  <2> QED BY <1>0, <2>1 DEF Awaited, OneTurn, RequestsAreAwaited
<1>10. ASSUME NEW request \in pending, TimeOut(request) PROVE Awaited'
  <2>1. /\ pending' = pending \ {request} /\ UNCHANGED <<state, asked, captured>>
        /\ Rejected({request})
    BY <1>10 DEF TimeOut
  <2>2. \/ /\ prompting' = "no"
           /\ request.kind \in {"start", "prompt"} \/ prompting = "attaching"
        \/ /\ prompting' = prompting
           /\ request.kind \notin {"start", "prompt"}
           /\ prompting = "attaching" => request.kind # "attach"
    BY <2>1 DEF Rejected
  <2>3. captured' \in Runtimes \cup {NoRuntime}
    BY <1>0, <2>1 DEF Awaited
  <2> QED BY <2>1, <2>2, <2>3, OneLessAwaited
<1>11. ASSUME NEW c \in Connections, ResponseMessage(c) PROVE Awaited'
  <2> DEFINE answer == Head(answers[c])
             awaited == {request \in pending : request.id = answer.id}
  <2>1. /\ pending' = pending \ awaited /\ UNCHANGED <<state, asked>>
        /\ IF awaited = {}
             THEN UNCHANGED <<page, pendingEvents, prompting, captured, held, heldLocal>>
             ELSE \A request \in awaited : Settle(request, answer)
    BY <1>11 DEF ResponseMessage
  <2>2. captured' \in Runtimes \cup {NoRuntime}
    BY <1>11, ResponsePage
  <2>3. CASE awaited = {}
    BY <1>1, <2>1, <2>3
  <2>4. ASSUME NEW request \in awaited PROVE Awaited'
    <3>1. awaited = {request} /\ request \in pending
      BY <1>0 DEF Awaited
    <3>2. pending' = pending \ {request} /\ Settle(request, answer)
      BY <2>1, <3>1
    <3> HIDE DEF awaited, answer
    <3>3. \/ /\ prompting' \in {"no", "preparing", "started"}
             /\ request.kind \in {"start", "prompt"} \/ prompting # "asked"
          \/ /\ prompting' = prompting
             /\ request.kind \notin {"start", "prompt"}
             /\ prompting = "attaching" => request.kind # "attach"
      <4>1. request.kind \in Kinds
        BY <1>0, <3>1 DEF Awaited
      <4>2. CASE request.kind = "attach"
        BY <3>2, <4>2 DEF Settle
      <4>3. CASE request.kind = "start" /\ answer.ok
        BY <3>2, <4>3 DEF Settle
      <4>4. CASE request.kind = "prompt" /\ answer.ok
        BY <3>2, <4>4 DEF Settle
      <4>5. CASE request.kind = "close"
        BY <3>2, <4>5 DEF Settle
      <4>6. CASE request.kind \in {"start", "prompt"} /\ ~ answer.ok
        <5>1. Rejected({request})
          BY <3>2, <4>6 DEF Settle
        <5> QED BY <4>6, <5>1 DEF Rejected
      <4> QED BY <4>1, <4>2, <4>3, <4>4, <4>5, <4>6 DEF Kinds
    <3> QED BY <2>1, <2>2, <3>1, <3>2, <3>3, OneLessAwaited
  <2> QED BY <2>3, <2>4
<1>12. ASSUME NEW kind \in Kinds, NEW r \in Runtimes \cup {NoRuntime}, Request(kind, r), HasSocket,
              state' = state, captured' \in Runtimes \cup {NoRuntime},
              \/ prompting' = prompting /\ kind \notin {"start", "prompt"}
              \/ prompting = "no" /\ prompting' = "attaching" /\ kind = "attach"
              \/ /\ prompting \in {"preparing", "started"}
                 /\ prompting' = "asked" /\ kind \in {"start", "prompt"}
       PROVE  Awaited'
  <2>1. state = "connected"
    BY <1>12 DEF HasSocket
  <2>2. /\ asked' \in 0..MaxRequests /\ state' = "connected"
        /\ pending' \subseteq [id : 1..MaxRequests, kind : Kinds, runtime : Runtimes \cup {NoRuntime}]
        /\ \A p \in pending' : p.id <= asked' /\ \A q \in pending' : p.id = q.id => p = q
        /\ \E request \in pending' : request.kind = kind /\ pending' = pending \cup {request}
    BY <1>12, <2>1, RequestSent
  <2>3. /\ prompting' = "attaching" => \E q \in pending' : q.kind = "attach"
        /\ prompting' = "asked" => \E q \in pending' : q.kind \in {"start", "prompt"}
    BY <1>0, <1>12, <2>2 DEF Awaited, RequestsAreAwaited, AwaitsAttach
  <2>4. prompting' \in {"no", "attaching", "preparing", "asked", "started"}
    BY <1>0, <1>12 DEF Awaited
  <2>5. OneTurn'
    <3>1. PICK request \in pending' : request.kind = kind /\ pending' = pending \cup {request}
      BY <2>2
    <3>2. CASE kind \notin {"start", "prompt"}
      <4>1. prompting = "asked" => prompting' = "asked"
        BY <1>12, <3>2
      <4>2. OneTurn
        BY <1>0 DEF Awaited
      <4> QED BY <3>1, <3>2, <4>1, <4>2 DEF OneTurn
    <3>3. CASE kind \in {"start", "prompt"}
      <4>1. prompting # "asked" /\ prompting' = "asked"
        BY <1>12, <3>3
      <4>2. \A p \in pending : p.kind \notin {"start", "prompt"}
        BY <1>0, <4>1 DEF Awaited, OneTurn
      <4> QED BY <3>1, <4>1, <4>2 DEF OneTurn
    <3> QED BY <3>2, <3>3
  <2> QED BY <1>12, <2>2, <2>3, <2>4, <2>5 DEF Awaited, RequestsAreAwaited, AwaitsAttach
<1>13. ASSUME UNCHANGED <<pending, asked, state>>, captured' \in Runtimes \cup {NoRuntime},
              prompting \in {"no", "preparing", "started"},
              \/ prompting' \in {"no", "preparing", "started"}
              \/ prompting' = "attaching" /\ AwaitsAttach
       PROVE  Awaited'
  BY <1>0, <1>13 DEF Awaited, OneTurn, RequestsAreAwaited, AwaitsAttach
<1>14. captured \in Runtimes \cup {NoRuntime}
  BY <1>0 DEF Awaited
<1>15. ASSUME AttachSession PROVE Awaited'
  <2>1. Request("attach", NoRuntime) /\ HasSocket /\ UNCHANGED <<state, captured, prompting>>
    BY <1>15 DEF AttachSession
  <2> QED BY <1>12, <1>14, <2>1 DEF Kinds
<1>16. ASSUME SendPrompt PROVE Awaited'
  <2>1. UNCHANGED state /\ captured' \in {captured, page.entry} /\ prompting = "no"
    BY <1>16 DEF SendPrompt
  <2>2. \/ prompting' = "preparing" /\ UNCHANGED <<pending, asked>>
        \/ prompting' = "attaching" /\ AwaitsAttach /\ UNCHANGED <<pending, asked>>
        \/ prompting' = "attaching" /\ HasSocket /\ Request("attach", NoRuntime)
    BY <1>16 DEF SendPrompt
  <2>3. captured' \in Runtimes \cup {NoRuntime}
    BY <1>0, <1>14, <2>1
  <2> QED BY <1>12, <1>13, <2>1, <2>2, <2>3 DEF Kinds
<1>17. ASSUME PreparationFails PROVE Awaited'
  BY <1>13, <1>14, <1>17 DEF PreparationFails, PreparationRejected
<1>18. ASSUME PromptStarted PROVE Awaited'
  <2>1. /\ prompting = "started" /\ UNCHANGED <<state, captured>>
        /\ \/ HasSocket /\ Request("prompt", captured) /\ prompting' = "asked"
           \/ prompting' = "no" /\ UNCHANGED <<pending, asked>>
    BY <1>18 DEF PromptStarted
  <2> QED BY <1>12, <1>13, <1>14, <2>1 DEF Kinds
<1>19. ASSUME CloseSession PROVE Awaited'
  <2>1. Request("close", page.entry) /\ HasSocket /\ UNCHANGED <<state, captured, prompting>>
    BY <1>19 DEF CloseSession
  <2> QED BY <1>0, <1>12, <1>14, <2>1 DEF Kinds
<1>20. ASSUME NEW projection, PromptRuntime(projection) PROVE Awaited'
  <2>1. /\ prompting = "preparing" /\ UNCHANGED <<state, captured>>
        /\ \/ HasSocket /\ Request("prompt", captured) /\ prompting' = "asked"
           \/ prompting' = "no" /\ UNCHANGED <<pending, asked>>
    BY <1>20 DEF PromptRuntime, Prepared
  <2> QED BY <1>12, <1>13, <1>14, <2>1 DEF Kinds
<1>21. ASSUME NEW projection, NEW r \in Runtimes, StartRuntime(r, projection) PROVE Awaited'
  <2>1. /\ prompting = "preparing" /\ UNCHANGED state /\ captured' = r
        /\ \/ HasSocket /\ Request("start", r) /\ prompting' = "asked"
           \/ prompting' = "no" /\ UNCHANGED <<pending, asked>>
    BY <1>21 DEF StartRuntime, Prepared
  <2> QED BY <1>12, <1>13, <2>1 DEF Kinds
<1> QED BY <1>2, <1>3, <1>4, <1>5, <1>6, <1>7, <1>8, <1>9, <1>10, <1>11, <1>15, <1>16, <1>17,
           <1>18, <1>19, <1>20, <1>21 DEF WebNext, ClientNext, PageNext, DaemonNext

-----------------------------------------------------------------------------
(* The requests on the way *)

\* What is on the way, by its type.
Wanted ==
  /\ requests \in [Connections -> Seq(WebRequests)]
  /\ \A c \in Connections : \A i \in 1..Len(requests[c]) :
       requests[c][i].kind \in {"start", "close"} => requests[c][i].runtime \in Runtimes

\* Requests were taken from the front of the ways.
Taken(shift) ==
  \A c \in Connections : \A i \in 1..Len(requests'[c]) :
    i + shift[c] \in 1..Len(requests[c]) /\ requests'[c][i] = requests[c][i + shift[c]]

\* What the invariant says of the starts that are asked for.
LEMMA StartsNow ==
  ASSUME WebIInv
  PROVE  StartsOnce /\ Wanted
BY DEF WebIInv, OnTheWay, Wanted

\* No request is taken from a connection.
LEMMA NoneTaken ==
  ASSUME Wanted, UNCHANGED requests
  PROVE  Taken([c \in Connections |-> 0]) /\ Wanted'
<1>1. \A c \in Connections : Len(requests[c]) \in Nat
  BY LenProperties DEF Wanted
<1> QED BY <1>1 DEF Taken, Wanted

\* The mailbox takes the first request of one connection.
LEMMA OneTaken ==
  ASSUME Wanted, NEW c \in Connections, requests[c] # << >>,
         requests' = [requests EXCEPT ![c] = Tail(@)]
  PROVE  /\ Taken([d \in Connections |-> IF d = c THEN 1 ELSE 0]) /\ Wanted'
         /\ \A d \in Connections : \A i \in 1..Len(requests'[d]) :
              ~ (d = c /\ i + (IF d = c THEN 1 ELSE 0) = 1)
<1>1. /\ requests[c] \in Seq(WebRequests) /\ \A d \in Connections : Len(requests[d]) \in Nat
  BY LenProperties DEF Wanted
<1>2. /\ Tail(requests[c]) \in Seq(WebRequests) /\ Len(Tail(requests[c])) = Len(requests[c]) - 1
      /\ \A i \in 1..Len(Tail(requests[c])) : Tail(requests[c])[i] = requests[c][i + 1]
  BY <1>1, HeadTailProperties
<1>3. /\ requests'[c] = Tail(requests[c])
      /\ \A d \in Connections : d # c => requests'[d] = requests[d]
      /\ requests' \in [Connections -> Seq(WebRequests)]
  BY <1>2 DEF Wanted
<1>4. \A i \in 1..Len(requests'[c]) :
        i + 1 \in 1..Len(requests[c]) /\ i + 1 # 1 /\ requests'[c][i] = requests[c][i + 1]
  BY <1>1, <1>2, <1>3
<1>5. Taken([d \in Connections |-> IF d = c THEN 1 ELSE 0])
  <2> SUFFICES ASSUME NEW d \in Connections, NEW i \in 1..Len(requests'[d])
               PROVE  LET k == i + (IF d = c THEN 1 ELSE 0) IN
                      k \in 1..Len(requests[d]) /\ requests'[d][i] = requests[d][k]
    BY DEF Taken
  <2>1. CASE d = c
    BY <1>4, <2>1
  <2>2. CASE d # c
    <3>1. i + 0 = i
      BY <1>1, <1>3, <2>2
    <3> QED BY <1>3, <2>2, <3>1
  <2> QED BY <2>1, <2>2
<1>6. Wanted'
  <2> SUFFICES ASSUME NEW d \in Connections, NEW i \in 1..Len(requests'[d])
               PROVE  requests'[d][i].kind \in {"start", "close"}
                        => requests'[d][i].runtime \in Runtimes
    BY <1>3 DEF Wanted
  <2>1. CASE d = c
    BY <1>4, <2>1 DEF Wanted
  <2>2. CASE d # c
    BY <1>3, <2>2 DEF Wanted
  <2> QED BY <2>1, <2>2
<1> QED BY <1>4, <1>5, <1>6

\* A new daemon has none of them.
LEMMA AllTaken ==
  ASSUME requests' = [c \in Connections |-> << >>]
  PROVE  Taken([c \in Connections |-> 0]) /\ Wanted'
<1>1. \A c \in Connections : requests'[c] = << >> /\ Len(requests'[c]) = 0
  OBVIOUS
<1>2. << >> \in Seq(WebRequests)
  OBVIOUS
<1> QED BY <1>1, <1>2 DEF Taken, Wanted

\* Runtimes that run or publish now did so before, or were drawn and are not asked for any more.
LEMMA StartsKept ==
  ASSUME WebIInv, NEW shift \in [Connections -> Nat], Taken(shift), Wanted',
         used \subseteq used', used' \subseteq Runtimes,
         \A r \in Runtimes :
           activeRuntimes'[Session] = r \/ (\E m \in 1..Len(published') : published'[m].runtime = r) =>
             \/ activeRuntimes[Session] = r \/ \E m \in 1..Len(published) : published[m].runtime = r
             \/ r \in used' /\ ~ AskedFor(r)'
  PROVE  StartsOnce'
<1>0. StartsOnce /\ Wanted
  BY StartsNow
<1>1. ASSUME NEW r \in Runtimes, AskedFor(r)' PROVE AskedFor(r)
  <2>0. PICK c \in Connections : \E i \in 1..Len(requests'[c]) :
          requests'[c][i].kind = "start" /\ requests'[c][i].runtime = r
    BY <1>1 DEF AskedFor
  <2>1. PICK i \in 1..Len(requests'[c]) :
          requests'[c][i].kind = "start" /\ requests'[c][i].runtime = r
    BY <2>0
  <2>2. i + shift[c] \in 1..Len(requests[c]) /\ requests'[c][i] = requests[c][i + shift[c]]
    BY DEF Taken
  <2> QED BY <2>1, <2>2 DEF AskedFor
<1>2. ASSUME NEW c \in Connections, NEW d \in Connections, NEW i \in 1..Len(requests'[c]),
             NEW j \in 1..Len(requests'[d]), requests'[c][i].kind = "start",
             requests'[d][j].kind = "start",
             requests'[c][i].runtime = requests'[d][j].runtime
      PROVE  c = d /\ i = j
  <2>1. /\ i + shift[c] \in 1..Len(requests[c]) /\ requests'[c][i] = requests[c][i + shift[c]]
        /\ j + shift[d] \in 1..Len(requests[d]) /\ requests'[d][j] = requests[d][j + shift[d]]
    BY DEF Taken
  <2>2. c = d /\ i + shift[c] = j + shift[d]
    BY <1>0, <1>2, <2>1 DEF StartsOnce
  <2>3. i \in Nat /\ j \in Nat /\ shift[c] \in Nat
    BY LenProperties DEF Wanted
  <2> QED BY <2>2, <2>3
<1>3. ASSUME NEW r \in Runtimes,
             activeRuntimes'[Session] = r \/ \E m \in 1..Len(published') : published'[m].runtime = r
      PROVE  r \in used' /\ ~ AskedFor(r)'
  BY <1>0, <1>1, <1>3 DEF StartsOnce
<1>4. \A r \in Runtimes : AskedFor(r)' => r \in used'
  BY <1>0, <1>1 DEF StartsOnce
<1> QED BY <1>2, <1>3, <1>4 DEF StartsOnce

\* A request for a start asks for a runtime that was drawn for it.
LEMMA StartsAdded ==
  ASSUME WebIInv, NEW c \in Connections, NEW kind \in Kinds, NEW r \in Runtimes \cup {NoRuntime},
         NEW id \in Nat,
         requests' = [requests EXCEPT ![c] = Append(@, [id |-> id, kind |-> kind, runtime |-> r])],
         kind \in {"start", "close"} => r \in Runtimes,
         kind = "start" => r \notin used /\ used' = used \cup {r},
         kind # "start" => used' = used,
         UNCHANGED <<activeRuntimes, published>>
  PROVE  StartsOnce' /\ Wanted'
<1> DEFINE request == [id |-> id, kind |-> kind, runtime |-> r]
<1>0. StartsOnce /\ Wanted
  BY StartsNow
<1>1. request \in WebRequests /\ request.kind = kind /\ request.runtime = r
  BY DEF WebRequests, Kinds
<1> HIDE DEF request
<1>2. requests' = [requests EXCEPT ![c] = Append(@, request)]
  BY DEF request
<1>3. requests[c] \in Seq(WebRequests) /\ Len(requests[c]) \in Nat
  BY <1>0, LenProperties DEF Wanted
<1>4. /\ Append(requests[c], request) \in Seq(WebRequests)
      /\ Len(Append(requests[c], request)) = Len(requests[c]) + 1
      /\ Append(requests[c], request)[Len(requests[c]) + 1] = request
      /\ \A i \in 1..Len(requests[c]) : Append(requests[c], request)[i] = requests[c][i]
  BY <1>1, <1>3, AppendProperties
<1>5. /\ requests' \in [Connections -> Seq(WebRequests)]
      /\ \A d \in Connections : d # c => requests'[d] = requests[d]
      /\ requests'[c] = Append(requests[c], request)
  BY <1>0, <1>2, <1>4 DEF Wanted
<1>6. \A d \in Connections : \A i \in 1..Len(requests'[d]) :
        \/ i \in 1..Len(requests[d]) /\ requests'[d][i] = requests[d][i]
        \/ d = c /\ i = Len(requests[c]) + 1 /\ requests'[d][i] = request
  <2> SUFFICES ASSUME NEW i \in 1..Len(requests'[c])
               PROVE  \/ i \in 1..Len(requests[c]) /\ requests'[c][i] = requests[c][i]
                      \/ i = Len(requests[c]) + 1 /\ requests'[c][i] = request
    BY <1>5
  <2>1. i \in 1..Len(requests[c]) \/ i = Len(requests[c]) + 1
    BY <1>3, <1>4, <1>5
  <2> QED BY <1>4, <1>5, <2>1
<1>7. Wanted'
  BY <1>0, <1>1, <1>5, <1>6 DEF Wanted
<1>8. \A s \in Runtimes : AskedFor(s)' => AskedFor(s) \/ (kind = "start" /\ s = r)
  BY <1>1, <1>6 DEF AskedFor
<1>9. \A s \in Runtimes : AskedFor(s)' => s \in used'
  BY <1>0, <1>8 DEF StartsOnce
<1>10. \A s \in Runtimes :
         activeRuntimes[Session] = s \/ (\E m \in 1..Len(published) : published[m].runtime = s) =>
           s \in used' /\ ~ AskedFor(s)'
  BY <1>0, <1>8 DEF StartsOnce
<1>11. ASSUME NEW d \in Connections, NEW e \in Connections, NEW i \in 1..Len(requests'[d]),
              NEW j \in 1..Len(requests'[e]), requests'[d][i].kind = "start",
              requests'[e][j].kind = "start",
              requests'[d][i].runtime = requests'[e][j].runtime
       PROVE  d = e /\ i = j
  <2>1. ASSUME NEW b \in Connections, NEW k \in 1..Len(requests[b]), requests[b][k].kind = "start",
               requests[b][k].runtime = r, kind = "start"
        PROVE  FALSE
    <3>1. r \in Runtimes /\ AskedFor(r)
      BY <2>1 DEF AskedFor
    <3> QED BY <1>0, <2>1, <3>1 DEF StartsOnce
  <2>2. CASE /\ i \in 1..Len(requests[d]) /\ requests'[d][i] = requests[d][i]
             /\ j \in 1..Len(requests[e]) /\ requests'[e][j] = requests[e][j]
    BY <1>0, <1>11, <2>2 DEF StartsOnce
  <2>3. CASE /\ i \in 1..Len(requests[d]) /\ requests'[d][i] = requests[d][i]
             /\ requests'[e][j] = request
    BY <1>1, <1>11, <2>1, <2>3
  <2>4. CASE /\ requests'[d][i] = request
             /\ j \in 1..Len(requests[e]) /\ requests'[e][j] = requests[e][j]
    BY <1>1, <1>11, <2>1, <2>4
  <2>5. CASE d = c /\ i = Len(requests[c]) + 1 /\ e = c /\ j = Len(requests[c]) + 1
    BY <2>5
  <2> QED BY <1>6, <2>2, <2>3, <2>4, <2>5
<1>12. used' \subseteq Runtimes
  BY <1>0 DEF StartsOnce
<1> QED BY <1>7, <1>9, <1>10, <1>11, <1>12 DEF StartsOnce

\* A request of the page is put on its socket.
LEMMA RequestStarts ==
  ASSUME WebIInv, NEW kind \in Kinds, NEW r \in Runtimes \cup {NoRuntime}, HasSocket,
         Request(kind, r), kind \in {"start", "close"} => r \in Runtimes,
         kind = "start" => r \notin used /\ used' = used \cup {r},
         kind # "start" => used' = used,
         UNCHANGED <<activeRuntimes, published>>
  PROVE  StartsOnce' /\ Wanted'
<1>1. socket \in Connections /\ asked + 1 \in Nat
  BY SocketTypesNow, AwaitedNow DEF HasSocket, SocketTypes, Awaited
<1>2. requests' = [requests EXCEPT ![socket] =
                     Append(@, [id |-> asked + 1, kind |-> kind, runtime |-> r])]
  BY DEF Request
<1> QED BY <1>1, <1>2, StartsAdded

\* No step asks for the start of a runtime again, or has one run that may yet be asked for.
LEMMA StartsStep ==
  ASSUME WebIInv, [WebNext]_webVars
  PROVE  StartsOnce' /\ Wanted'
<1> USE DEF socketVars, clientVars, pageVars, historyVars, boundVars
<1>0. /\ StartsOnce /\ Wanted /\ HubTypeOK /\ published \in Seq(Event) /\ Session \in Sessions
      /\ NoRuntime \notin Runtimes
      /\ page.entry \in Runtimes \cup {NoRuntime} /\ captured \in Runtimes \cup {NoRuntime}
  BY StartsNow, CopiesNow, AwaitedNow, WebSessionAssumption, NoRuntimeAssumption DEF Pages, Awaited
<1>1. ASSUME UNCHANGED <<requests, used, published>>,
             activeRuntimes'[Session] \in {activeRuntimes[Session], NoRuntime}
      PROVE  StartsOnce' /\ Wanted'
  <2>1. Taken([c \in Connections |-> 0]) /\ Wanted'
    BY <1>0, <1>1, NoneTaken
  <2>2. [c \in Connections |-> 0] \in [Connections -> Nat] /\ used' \subseteq Runtimes
    BY <1>0, <1>1 DEF StartsOnce
  <2>3. \A r \in Runtimes :
          activeRuntimes'[Session] = r \/ (\E m \in 1..Len(published') : published'[m].runtime = r) =>
            activeRuntimes[Session] = r \/ \E m \in 1..Len(published) : published[m].runtime = r
    BY <1>0, <1>1
  <2> QED BY <1>1, <2>1, <2>2, <2>3, StartsKept
<1>2. ASSUME NEW c \in Connections,
             \/ Connect(c) \/ Opened(c) \/ HandshakeMessage(c) \/ EventMessage(c)
             \/ ResponseMessage(c) \/ SocketErrors(c) \/ SocketCloses(c) \/ ConnectionEnds(c)
             \/ AnswerHello(c) \/ SubscribeConnection(c)
      PROVE  UNCHANGED <<requests, used, published, activeRuntimes>>
  <2> USE DEF hubVars
  <2>1. CASE \/ Connect(c) \/ Opened(c) \/ HandshakeMessage(c) \/ EventMessage(c)
             \/ ResponseMessage(c)
    BY <2>1 DEF Connect, Opened, HandshakeMessage, EventMessage, ResponseMessage
  <2>2. CASE SocketErrors(c) \/ SocketCloses(c) \/ ConnectionEnds(c)
             \/ AnswerHello(c) \/ SubscribeConnection(c)
    BY <2>2 DEF SocketErrors, SocketCloses, ConnectionEnds, AnswerHello, SubscribeConnection,
                Subscribe, Unsubscribe
  <2> QED BY <1>2, <2>1, <2>2
<1>3. ASSUME \/ \E request \in pending : TimeOut(request)
             \/ Disconnect \/ Reload \/ PreparationFails \/ PersistProjection \/ RefetchSession
             \/ UNCHANGED webVars
      PROVE  UNCHANGED <<requests, used, published, activeRuntimes>>
  BY <1>3 DEF TimeOut, Disconnect, Reload, PreparationFails, PersistProjection, RefetchSession,
              webVars, hubVars
<1>4. ASSUME ClosedElsewhere PROVE StartsOnce' /\ Wanted'
  <2>1. /\ UNCHANGED <<requests, used, published>>
        /\ activeRuntimes' = [activeRuntimes EXCEPT ![Session] = NoRuntime]
    BY <1>4 DEF ClosedElsewhere, EndRuntime
  <2> QED BY <1>0, <1>1, <2>1 DEF HubTypeOK
<1>5. ASSUME UNCHANGED <<hubVars, published, used>>,
             UNCHANGED requests
             \/ \E kind \in {"attach", "prompt"}, r \in Runtimes \cup {NoRuntime} :
                  HasSocket /\ Request(kind, r)
      PROVE  StartsOnce' /\ Wanted'
  <2>1. UNCHANGED activeRuntimes
    BY <1>5 DEF hubVars
  <2>2. CASE UNCHANGED requests
    BY <1>1, <1>5, <2>1, <2>2
  <2>3. ASSUME NEW kind \in {"attach", "prompt"}, NEW r \in Runtimes \cup {NoRuntime},
               HasSocket, Request(kind, r)
        PROVE  StartsOnce' /\ Wanted'
    BY <1>5, <2>1, <2>3, RequestStarts DEF Kinds
  <2> QED BY <1>5, <2>2, <2>3
<1>6. ASSUME AttachSession PROVE StartsOnce' /\ Wanted'
  <2>1. UNCHANGED <<hubVars, published, used>> /\ HasSocket /\ Request("attach", NoRuntime)
    BY <1>6 DEF AttachSession
  <2> QED BY <1>5, <2>1
<1>7. ASSUME SendPrompt PROVE StartsOnce' /\ Wanted'
  <2>1. UNCHANGED <<hubVars, published, used>>
        /\ (UNCHANGED requests \/ (HasSocket /\ Request("attach", NoRuntime)))
    BY <1>7 DEF SendPrompt
  <2> QED BY <1>5, <2>1
<1>8. ASSUME PromptStarted \/ \E projection \in Projections(held) : PromptRuntime(projection)
      PROVE StartsOnce' /\ Wanted'
  <2>1. UNCHANGED <<hubVars, published, used>>
        /\ (UNCHANGED requests \/ (HasSocket /\ Request("prompt", captured)))
    BY <1>8 DEF PromptStarted, PromptRuntime
  <2> QED BY <1>0, <1>5, <2>1
<1>9. ASSUME CloseSession PROVE StartsOnce' /\ Wanted'
  <2>1. /\ UNCHANGED <<hubVars, published, used>> /\ HasSocket /\ Request("close", page.entry)
        /\ page.entry # NoRuntime
    BY <1>9 DEF CloseSession
  <2> QED BY <1>0, <2>1, RequestStarts DEF Kinds, hubVars
<1>10. ASSUME NEW projection, NEW r \in Runtimes, StartRuntime(r, projection)
       PROVE  StartsOnce' /\ Wanted'
  <2>1. /\ r \notin used /\ used' = used \cup {r} /\ UNCHANGED <<hubVars, published>>
        /\ (UNCHANGED requests \/ (HasSocket /\ Request("start", r)))
    BY <1>10 DEF StartRuntime
  <2>2. CASE HasSocket /\ Request("start", r)
    BY <2>1, <2>2, RequestStarts DEF Kinds, hubVars
  <2>3. CASE UNCHANGED requests
    <3>1. Taken([c \in Connections |-> 0]) /\ Wanted'
      BY <1>0, <2>3, NoneTaken
    <3>2. /\ [c \in Connections |-> 0] \in [Connections -> Nat] /\ used' \subseteq Runtimes
          /\ used \subseteq used'
      BY <1>0, <2>1 DEF StartsOnce
    <3>3. \A s \in Runtimes :
            activeRuntimes'[Session] = s \/ (\E m \in 1..Len(published') : published'[m].runtime = s) =>
              activeRuntimes[Session] = s \/ \E m \in 1..Len(published) : published[m].runtime = s
      BY <2>1 DEF hubVars
    <3> QED BY <3>1, <3>2, <3>3, StartsKept
  <2> QED BY <2>1, <2>2, <2>3
<1>11. ASSUME NEW c \in Connections, requests[c] # << >>,
              requests' = [requests EXCEPT ![c] = Tail(@)], UNCHANGED <<used, published>>,
              \/ activeRuntimes'[Session] \in {activeRuntimes[Session], NoRuntime}
              \/ /\ requests[c][1].kind = "start" /\ 1 \in 1..Len(requests[c])
                 /\ activeRuntimes'[Session] = requests[c][1].runtime
       PROVE  StartsOnce' /\ Wanted'
  <2> DEFINE shift == [d \in Connections |-> IF d = c THEN 1 ELSE 0]
  <2>1. /\ Taken(shift) /\ Wanted'
        /\ \A d \in Connections : \A i \in 1..Len(requests'[d]) : ~ (d = c /\ i + shift[d] = 1)
    BY <1>0, <1>11, OneTaken
  <2>2. shift \in [Connections -> Nat] /\ used' \subseteq Runtimes
    BY <1>0, <1>11 DEF StartsOnce
  <2> HIDE DEF shift
  <2>3. ASSUME NEW r \in Runtimes, requests[c][1].kind = "start", 1 \in 1..Len(requests[c]),
               requests[c][1].runtime = r
        PROVE  r \in used' /\ ~ AskedFor(r)'
    <3>1. r \in used
      BY <1>0, <2>3 DEF StartsOnce, AskedFor
    <3>2. ASSUME NEW d \in Connections, NEW i \in 1..Len(requests'[d]),
                 requests'[d][i].kind = "start", requests'[d][i].runtime = r
          PROVE  FALSE
      <4>1. i + shift[d] \in 1..Len(requests[d]) /\ requests'[d][i] = requests[d][i + shift[d]]
        BY <2>1 DEF Taken
      <4>2. d = c /\ i + shift[d] = 1
        BY <1>0, <2>3, <3>2, <4>1 DEF StartsOnce
      <4> QED BY <2>1, <4>2
    <3> QED BY <1>11, <3>1, <3>2 DEF AskedFor
  <2>4. \A r \in Runtimes :
           activeRuntimes'[Session] = r \/ (\E m \in 1..Len(published') : published'[m].runtime = r) =>
             \/ activeRuntimes[Session] = r \/ \E m \in 1..Len(published) : published[m].runtime = r
             \/ r \in used' /\ ~ AskedFor(r)'
    BY <1>0, <1>11, <2>3
  <2> QED BY <1>11, <2>1, <2>2, <2>4, StartsKept
<1>12. ASSUME NEW c \in Connections, HandleRequest(c) PROVE StartsOnce' /\ Wanted'
  <2>1. /\ requests[c] # << >> /\ Head(requests[c]) = requests[c][1] /\ 1 \in 1..Len(requests[c])
        /\ requests' = [requests EXCEPT ![c] = Tail(@)] /\ UNCHANGED <<used, published>>
        /\ \/ UNCHANGED hubVars
           \/ /\ Head(requests[c]).kind = "start"
              /\ BeginRuntime(Session, Head(requests[c]).runtime)
           \/ EndRuntime(Session, activeRuntimes[Session])
    BY <1>12, RequestHandled
  <2>2. CASE UNCHANGED hubVars
    BY <1>11, <2>1, <2>2 DEF hubVars
  <2>3. CASE Head(requests[c]).kind = "start" /\ BeginRuntime(Session, Head(requests[c]).runtime)
    <3>1. activeRuntimes'[Session] = Head(requests[c]).runtime
      BY <1>0, <2>3 DEF BeginRuntime, HubTypeOK
    <3> QED BY <1>11, <2>1, <2>3, <3>1
  <2>4. CASE EndRuntime(Session, activeRuntimes[Session])
    <3>1. activeRuntimes'[Session] = NoRuntime
      BY <1>0, <2>4 DEF EndRuntime, HubTypeOK
    <3> QED BY <1>11, <2>1, <3>1
  <2> QED BY <2>1, <2>2, <2>3, <2>4
<1>13. ASSUME NEW c \in Connections, StartFails(c) PROVE StartsOnce' /\ Wanted'
  <2>1. /\ requests[c] # << >> /\ requests' = [requests EXCEPT ![c] = Tail(@)]
        /\ UNCHANGED <<used, published>>
        /\ activeRuntimes' = [activeRuntimes EXCEPT ![Session] = NoRuntime]
    BY <1>13 DEF StartFails
  <2>2. activeRuntimes'[Session] = NoRuntime
    BY <1>0, <2>1 DEF HubTypeOK
  <2> QED BY <1>11, <2>1, <2>2
<1>14. ASSUME NEW r \in Runtimes, StartedElsewhere(r) PROVE StartsOnce' /\ Wanted'
  <2>1. /\ r \notin used /\ used' = used \cup {r} /\ UNCHANGED <<requests, published>>
        /\ activeRuntimes'[Session] = r
    BY <1>0, <1>14 DEF StartedElsewhere, BeginRuntime, HubTypeOK
  <2>2. Taken([c \in Connections |-> 0]) /\ Wanted'
    BY <1>0, <2>1, NoneTaken
  <2>3. /\ [c \in Connections |-> 0] \in [Connections -> Nat] /\ used' \subseteq Runtimes
        /\ used \subseteq used'
    BY <1>0, <2>1 DEF StartsOnce
  <2>4. r \in used' /\ ~ AskedFor(r)'
    BY <1>0, <2>1 DEF StartsOnce, AskedFor
  <2>5. \A s \in Runtimes :
           activeRuntimes'[Session] = s \/ (\E m \in 1..Len(published') : published'[m].runtime = s) =>
             \/ activeRuntimes[Session] = s \/ \E m \in 1..Len(published) : published[m].runtime = s
             \/ s \in used' /\ ~ AskedFor(s)'
    BY <2>1, <2>4
  <2> QED BY <2>2, <2>3, <2>5, StartsKept
<1>15. ASSUME NEW r \in Runtimes, NEW payload \in Payloads, Publication(r, payload)
       PROVE  StartsOnce' /\ Wanted'
  <2>1. UNCHANGED <<requests, used>>
    BY <1>15 DEF Publication
  <2>2. PICK e \in Event : /\ published' = Append(published, e) /\ e.runtime = r
                           /\ activeRuntimes[Session] = r /\ activeRuntimes' = activeRuntimes
    BY <1>0, <1>15, PublicationHub DEF WebIInv
  <2>3. /\ Len(published) \in Nat /\ Len(published') = Len(published) + 1
        /\ published'[Len(published) + 1] = e
        /\ \A m \in 1..Len(published) : published'[m] = published[m]
    BY <1>0, <2>2, LenProperties, PublishedGrows
  <2>4. \A m \in 1..Len(published') : m \in 1..Len(published) \/ m = Len(published) + 1
    BY <2>3
  <2>5. \A s \in Runtimes :
           activeRuntimes'[Session] = s \/ (\E m \in 1..Len(published') : published'[m].runtime = s) =>
             activeRuntimes[Session] = s \/ \E m \in 1..Len(published) : published[m].runtime = s
    BY <2>2, <2>3, <2>4
  <2>6. Taken([c \in Connections |-> 0]) /\ Wanted'
    BY <1>0, <2>1, NoneTaken
  <2>7. [c \in Connections |-> 0] \in [Connections -> Nat] /\ used' \subseteq Runtimes
    BY <1>0, <2>1 DEF StartsOnce
  <2> QED BY <2>1, <2>5, <2>6, <2>7, StartsKept
<1>16. ASSUME DaemonRestart PROVE StartsOnce' /\ Wanted'
  <2>1. /\ requests' = [c \in Connections |-> << >>] /\ UNCHANGED <<used, published>>
        /\ activeRuntimes'[Session] = NoRuntime
    BY <1>0, <1>16 DEF DaemonRestart, Restart
  <2>2. Taken([c \in Connections |-> 0]) /\ Wanted'
    BY <2>1, AllTaken
  <2>3. [c \in Connections |-> 0] \in [Connections -> Nat] /\ used' \subseteq Runtimes
    BY <1>0, <2>1 DEF StartsOnce
  <2>4. \A s \in Runtimes :
           activeRuntimes'[Session] = s \/ (\E m \in 1..Len(published') : published'[m].runtime = s) =>
             activeRuntimes[Session] = s \/ \E m \in 1..Len(published) : published[m].runtime = s
    BY <1>0, <2>1
  <2> QED BY <2>1, <2>2, <2>3, <2>4, StartsKept
<1>17. ASSUME UNCHANGED <<requests, used, published, activeRuntimes>> PROVE StartsOnce' /\ Wanted'
  BY <1>1, <1>17
<1> QED BY <1>2, <1>3, <1>4, <1>6, <1>7, <1>8, <1>9, <1>10, <1>12, <1>13, <1>14, <1>15, <1>16, <1>17
        DEF WebNext, ClientNext, PageNext, DaemonNext

-----------------------------------------------------------------------------
(* The hub, step by step *)

\* What the client resumes from is a cursor for every session and runtime.
LEMMA CursorsTyped ==
  ASSUME SocketTypes, NEW c \in Connections
  PROVE  /\ \A s \in Sessions, r \in Runtimes : HelloCursors(c)[s][r] \in Cursor
         /\ Session \in Sessions /\ HelloCursors(c)[Session] = resumeFrom[c]
BY WebSessionAssumption DEF SocketTypes, HelloCursors, NoCursor, Cursor

\* The hub forgets the session's runtime.
LEMMA HubForgets ==
  ASSUME WebIInv, HubTypeOK', UNCHANGED <<outgoing, published>>,
         activeRuntimes'[Session] = NoRuntime,
         \A q \in Runtimes : emitted'[Session][q] \in {emitted[Session][q], << >>}
  PROVE  HubFollows'
<1>1. published \in Seq(Event) /\ HubFollows
  BY CopiesNow DEF WebIInv
<1>2. NoRuntime \in Runtimes \cup {NoRuntime} /\ ~ (NoRuntime \in Runtimes)
  BY NoRuntimeAssumption
<1>3. \A m \in 1..Len(published) : published[m].runtime # NoRuntime
  BY <1>1, <1>2, EventFields
<1> QED BY <1>1, <1>2, <1>3, HubBegins

\* The hub begins a runtime that has not published.
LEMMA HubStarts ==
  ASSUME WebIInv, NEW r \in Runtimes, BeginRuntime(Session, r), UNCHANGED published,
         \A m \in 1..Len(published) : published[m].runtime # r
  PROVE  HubFollows' /\ activeRuntimes'[Session] = r
<1>1. published \in Seq(Event) /\ HubFollows /\ HubTypeOK /\ Session \in Sessions
  BY CopiesNow, WebSessionAssumption DEF WebIInv
<1>2. HubTypeOK'
  BY <1>1, HubTypeStep DEF HubNext
<1>3. /\ activeRuntimes'[Session] = r /\ journal'[Session][r] = << >>
      /\ UNCHANGED <<outgoing, emitted>>
  BY <1>1 DEF BeginRuntime, ForgetSession, HubTypeOK
<1> QED BY <1>1, <1>2, <1>3, HubBegins

\* The hub follows what was published in every step, of the daemon or of others.
LEMMA HubStep ==
  ASSUME WebIInv, [WebNext]_webVars
  PROVE  HubFollows' /\ published' \in Seq(Event)
<1>0. HubFollows /\ HubTypeOK /\ published \in Seq(Event) /\ Session \in Sessions /\ StartsOnce
  BY CopiesNow, StartsNow, WebSessionAssumption DEF WebIInv
<1> DEFINE Follows == HubFollows' /\ published' \in Seq(Event)
<1>1. ASSUME UNCHANGED <<hubVars, published>> PROVE Follows
  BY <1>0, <1>1, HubKept
<1>2. ASSUME NEW c \in Connections,
             \/ Connect(c) \/ Opened(c) \/ HandshakeMessage(c) \/ EventMessage(c)
             \/ ResponseMessage(c) \/ SocketErrors(c) \/ SocketCloses(c) \/ AnswerHello(c)
      PROVE  UNCHANGED <<hubVars, published>>
  <2> USE DEF historyVars
  <2>1. CASE \/ Connect(c) \/ Opened(c) \/ HandshakeMessage(c) \/ EventMessage(c)
    BY <2>1 DEF Connect, Opened, HandshakeMessage, EventMessage
  <2>2. CASE ResponseMessage(c) \/ SocketErrors(c) \/ SocketCloses(c) \/ AnswerHello(c)
    BY <2>2 DEF ResponseMessage, SocketErrors, SocketCloses, AnswerHello
  <2> QED BY <1>2, <2>1, <2>2
<1>3. ASSUME \/ \E request \in pending : TimeOut(request)
             \/ Disconnect \/ Reload \/ PageNext \/ UNCHANGED webVars
      PROVE  UNCHANGED <<hubVars, published>>
  <2> USE DEF historyVars, webVars
  <2>1. CASE (\E request \in pending : TimeOut(request)) \/ Disconnect \/ Reload \/ UNCHANGED webVars
    BY <2>1 DEF TimeOut, Disconnect, Reload
  <2>2. CASE PageNext
    BY <2>2 DEF PageNext, AttachSession, SendPrompt, PreparationFails, PromptStarted, CloseSession,
                PersistProjection, RefetchSession, PromptRuntime, StartRuntime
  <2> QED BY <1>3, <2>1, <2>2
<1>4. ASSUME NEW c \in Connections, ConnectionEnds(c) PROVE Follows
  <2>1. /\ UNCHANGED published
        /\ UNCHANGED hubVars \/ Unsubscribe(c)
    BY <1>4 DEF ConnectionEnds, historyVars
  <2>2. CASE Unsubscribe(c)
    <3>1. HubTypeOK'
      BY <1>0, <2>2, HubTypeStep DEF HubNext
    <3>2. UNCHANGED <<epoch, activeRuntimes, nextSequences, journal, opened, outgoing, begun,
                      emitted, resumedAt>>
      BY <2>2 DEF Unsubscribe
    <3>3. RunsAreWhole' /\ ActiveIsNewest'
      BY <1>0, <2>1, <3>2 DEF HubFollows, RunsAreWhole, ActiveIsNewest
    <3>4. EmittedIsPublished' /\ JournalIsKept'
      BY <1>0, <2>1, <3>2 DEF HubFollows, EmittedIsPublished, JournalIsKept
    <3>5. FramesInOrder'
      BY <1>0, <2>1, <3>2, FramesKept DEF HubFollows
    <3> QED BY <1>0, <2>1, <3>1, <3>3, <3>4, <3>5 DEF HubFollows
  <2> QED BY <1>1, <2>1, <2>2
<1>5. ASSUME NEW c \in Connections, SubscribeConnection(c) PROVE Follows
  <2>1. UNCHANGED published /\ Subscribe(c, HelloCursors(c))
    BY <1>5 DEF SubscribeConnection
  <2>2. \A s \in Sessions, r \in Runtimes : HelloCursors(c)[s][r] \in Cursor
    BY SocketTypesNow, CursorsTyped
  <2> QED BY <1>0, <2>1, <2>2, SubscribeHub
<1>6. ASSUME EndRuntime(Session, activeRuntimes[Session]), activeRuntimes[Session] \in Runtimes,
             UNCHANGED published
      PROVE  Follows
  <2>1. HubTypeOK'
    BY <1>0, <1>6, HubTypeStep DEF HubNext
  <2>2. activeRuntimes'[Session] = NoRuntime /\ UNCHANGED <<outgoing, emitted>>
    BY <1>0, <1>6 DEF EndRuntime, HubTypeOK
  <2> QED BY <1>0, <1>6, <2>1, <2>2, HubForgets
<1>7. ASSUME NEW c \in Connections, HandleRequest(c) PROVE Follows
  <2>1. /\ Head(requests[c]) = requests[c][1] /\ 1 \in 1..Len(requests[c])
        /\ UNCHANGED published
        /\ \/ UNCHANGED hubVars
           \/ /\ Head(requests[c]).kind = "start" /\ Head(requests[c]).runtime \in Runtimes
              /\ BeginRuntime(Session, Head(requests[c]).runtime)
           \/ /\ activeRuntimes[Session] \in Runtimes
              /\ EndRuntime(Session, activeRuntimes[Session])
    BY <1>7, RequestHandled DEF historyVars
  <2>2. CASE /\ Head(requests[c]).kind = "start" /\ Head(requests[c]).runtime \in Runtimes
             /\ BeginRuntime(Session, Head(requests[c]).runtime)
    <3>1. AskedFor(Head(requests[c]).runtime)
      BY <2>1, <2>2 DEF AskedFor
    <3>2. \A m \in 1..Len(published) : published[m].runtime # Head(requests[c]).runtime
      BY <1>0, <2>2, <3>1 DEF StartsOnce
    <3> QED BY <1>0, <2>1, <2>2, <3>2, HubStarts
  <2> QED BY <1>1, <1>6, <2>1, <2>2
<1>8. ASSUME NEW c \in Connections, StartFails(c) PROVE Follows
  <2>1. /\ requests[c] # << >> /\ Head(requests[c]).kind = "start"
        /\ activeRuntimes' = [activeRuntimes EXCEPT ![Session] = NoRuntime]
        /\ ForgetSession(Session)
        /\ begun' = [begun EXCEPT ![Session] = Append(@, Head(requests[c]).runtime)]
        /\ UNCHANGED <<epoch, subscribers, opened, outgoing, emitted, resumedAt, published>>
    BY <1>8 DEF StartFails, historyVars
  <2>2. Head(requests[c]).runtime \in Runtimes
    <3>1. requests[c] \in Seq(WebRequests) /\ Wanted
      BY StartsNow DEF Wanted
    <3>2. Len(requests[c]) \in Nat /\ Len(requests[c]) # 0 /\ Head(requests[c]) = requests[c][1]
      BY <2>1, <3>1, EmptySeq, LenProperties, HeadTailProperties
    <3>3. 1 \in 1..Len(requests[c])
      BY <3>2
    <3> QED BY <2>1, <3>1, <3>2, <3>3 DEF Wanted
  <2>3. HubTypeOK'
    <3>1. /\ activeRuntimes' \in [Sessions -> Runtimes \cup {NoRuntime}]
          /\ begun' \in [Sessions -> Seq(Runtimes)]
      BY <1>0, <2>1, <2>2 DEF HubTypeOK
    <3>2. /\ nextSequences' \in [Sessions -> [Runtimes -> Nat]]
          /\ journal' \in [Sessions -> [Runtimes -> Seq(Event)]]
      BY <1>0, <2>1 DEF HubTypeOK, ForgetSession
    <3> QED BY <1>0, <2>1, <3>1, <3>2 DEF HubTypeOK
  <2>4. activeRuntimes'[Session] = NoRuntime
    BY <1>0, <2>1 DEF HubTypeOK
  <2> QED BY <1>0, <2>1, <2>3, <2>4, HubForgets
<1>9. ASSUME NEW r \in Runtimes, StartedElsewhere(r) PROVE Follows
  <2>1. r \notin used /\ BeginRuntime(Session, r) /\ UNCHANGED published
    BY <1>9 DEF StartedElsewhere
  <2>2. \A m \in 1..Len(published) : published[m].runtime # r
    BY <1>0, <2>1 DEF StartsOnce
  <2> QED BY <1>0, <2>1, <2>2, HubStarts
<1>10. ASSUME NEW r \in Runtimes, NEW payload \in Payloads, Publication(r, payload) PROVE Follows
  <2>1. PICK e \in Event : HubFollows' /\ published' = Append(published, e)
    BY <1>0, <1>10, PublicationHub
  <2> QED BY <1>0, <2>1, AppendProperties
<1>11. ASSUME ClosedElsewhere PROVE Follows
  <2>1. /\ activeRuntimes[Session] # NoRuntime /\ EndRuntime(Session, activeRuntimes[Session])
        /\ UNCHANGED published
    BY <1>11 DEF ClosedElsewhere, historyVars
  <2>2. activeRuntimes[Session] \in Runtimes
    BY <1>0, <2>1 DEF HubTypeOK
  <2> QED BY <1>6, <2>1, <2>2
<1>12. ASSUME DaemonRestart PROVE Follows
  <2>1. epoch < MaxEpoch /\ Restart /\ UNCHANGED published
    BY <1>12 DEF DaemonRestart, historyVars
  <2>2. HubTypeOK'
    BY <1>0, <2>1, HubTypeStep DEF HubNext
  <2>3. /\ activeRuntimes'[Session] = NoRuntime /\ UNCHANGED outgoing
        /\ \A q \in Runtimes : emitted'[Session][q] = << >>
    BY <1>0, <2>1 DEF Restart
  <2> QED BY <1>0, <2>1, <2>2, <2>3, HubForgets
<1> QED BY <1>1, <1>2, <1>3, <1>4, <1>5, <1>7, <1>8, <1>9, <1>10, <1>11, <1>12
        DEF WebNext, ClientNext, DaemonNext

-----------------------------------------------------------------------------
(* What is on the way *)

\* No step but an event gives the copies what they had not, and only a reload takes from them what
\* the client has seen.
LEMMA PageStep ==
  ASSUME WebIInv, [WebNext]_webVars
  PROVE  /\ CopiesGain(ToSet(published))
         /\ CopiesGain({}) \/ \E c \in Connections : EventMessage(c)
         /\ CoverageKept \/ Reload
<1>1. \A E \in SUBSET ToSet(published) : CopiesGain(E) => CopiesGain(ToSet(published))
  BY DEF CopiesGain
<1>2. CopiesGain({}) => CopiesGain(ToSet(published))
  BY <1>1
<1>3. CASE RestNext
  BY <1>2, <1>3, RestRecaches, RecachedKeeps
<1>4. CASE MoveNext
  <2>1. Recached /\ lost' = lost
    BY <1>4, MoveRecaches
  <2> QED BY <1>2, <2>1, RecachedKeeps
<1>5. CASE Reload
  BY <1>2, <1>5, ReloadPage
<1>6. ASSUME NEW c \in Connections, EventMessage(c)
      PROVE  CopiesGain(ToSet(published)) /\ CoverageKept
  <2> DEFINE e == outgoing[c][Session][received[c] + 1]
  <2>1. e \in ToSet(published)
    BY <1>6, NextEvent
  <2>2. CopiesGain({e}) /\ CoverageKept
    BY <1>6, EventPage
  <2> HIDE DEF e
  <2>3. {e} \in SUBSET ToSet(published)
    BY <2>1
  <2> QED BY <1>1, <2>2, <2>3
<1>7. ASSUME NEW c \in Connections, ResponseMessage(c) PROVE CopiesGain({}) /\ CoverageKept
  BY <1>7, ResponsePage
<1>8. ASSUME NEW projection \in Projections(held), NEW r \in Runtimes, StartRuntime(r, projection)
      PROVE  CopiesGain({}) /\ CoverageKept
  BY <1>8, StartPage
<1> QED BY <1>2, <1>3, <1>4, <1>5, <1>6, <1>7, <1>8, WebSteps

\* What waits on the socket of a connection: events, and answers behind some of them.
WayOf(c) ==
  /\ received[c] <= Len(outgoing[c][Session])
  /\ \A i \in 1..Len(answers[c]) :
       /\ received[c] <= answers[c][i].at /\ answers[c][i].at <= Len(outgoing[c][Session])
       /\ \A j \in 1..Len(answers[c]) : i < j => answers[c][i].at <= answers[c][j].at

Ways ==
  /\ answers \in [Connections -> Seq(Answers)] /\ received \in [Connections -> Nat]
  /\ \A c \in Connections : WayOf(c)

\* The answer to a Start that failed.
LEMMA FailureAnswered ==
  ASSUME WebIInv, NEW c \in Connections, StartFails(c)
  PROVE  /\ accepted[c] = "subscribed" /\ Answered(c, NoRuntime)
         /\ UNCHANGED <<outgoing, received, opened, subscribers, published>>
<1> DEFINE answer == [id |-> Head(requests[c]).id, ok |-> FALSE, runtime |-> NoRuntime,
                      at |-> Len(outgoing[c][Session])]
<1>1. /\ requests[c] # << >> /\ accepted[c] = "subscribed"
      /\ answers' = IF c \in subscribers THEN [answers EXCEPT ![c] = Append(@, answer)] ELSE answers
      /\ UNCHANGED <<outgoing, received, opened, subscribers, published>>
  BY DEF StartFails, historyVars
<1>2. requests[c] \in Seq(WebRequests) /\ outgoing[c][Session] \in Seq(Event)
  BY StartsNow, CopiesNow, WebSessionAssumption DEF Wanted, HubTypeOK
<1>3. Head(requests[c]) \in WebRequests /\ Len(outgoing[c][Session]) \in Nat
  BY <1>1, <1>2, HeadTailProperties, LenProperties
<1>4. /\ answer \in Answers /\ answer.at = Len(outgoing[c][Session])
      /\ answer.runtime = NoRuntime
  BY <1>3 DEF Answers, WebRequests
<1> HIDE DEF answer
<1> QED BY <1>1, <1>4 DEF Answered

\* What the invariant says of what is on the way.
LEMMA WaysNow ==
  ASSUME WebIInv
  PROVE  /\ Ways /\ \A c \in Connections : /\ outgoing[c][Session] \in Seq(Event)
                                           /\ Len(outgoing[c][Session]) \in Nat
                                           /\ Len(answers[c]) \in Nat
<1>1. Ways /\ \A c \in Connections : outgoing[c][Session] \in Seq(Event)
  BY CopiesNow, WebSessionAssumption DEF WebIInv, OnTheWay, HubTypeOK, Ways, WayOf
<1> QED BY <1>1, LenProperties DEF Ways

\* Nothing is heard or answered, and nothing that was sent is taken back.
LEMMA WaysKept ==
  ASSUME WebIInv, UNCHANGED <<answers, received>>,
         \A c \in Connections :
           \/ /\ Len(outgoing'[c][Session]) \in Nat
              /\ Len(outgoing[c][Session]) <= Len(outgoing'[c][Session])
           \/ /\ answers[c] = << >> /\ received[c] = 0
              /\ Len(outgoing'[c][Session]) \in Nat
  PROVE  Ways'
<1>1. Ways /\ \A c \in Connections : Len(outgoing[c][Session]) \in Nat
  BY WaysNow
<1>2. ASSUME NEW c \in Connections PROVE WayOf(c)'
  <2>1. CASE /\ Len(outgoing'[c][Session]) \in Nat
             /\ Len(outgoing[c][Session]) <= Len(outgoing'[c][Session])
    <3>1. \A i \in 1..Len(answers[c]) : answers[c][i].at \in Nat
      <4>1. answers[c] \in Seq(Answers)
        BY <1>1 DEF Ways
      <4>2. \A i \in 1..Len(answers[c]) : answers[c][i] \in Answers
        BY <4>1, ElementOfSeq
      <4> QED BY <4>2 DEF Answers
    <3>2. received[c] \in Nat /\ WayOf(c)
      BY <1>1 DEF Ways
    <3>3. received'[c] = received[c] /\ answers'[c] = answers[c] /\ Len(outgoing[c][Session]) \in Nat
      BY <1>1
    <3>4. /\ received[c] <= Len(outgoing'[c][Session])
          /\ \A i \in 1..Len(answers[c]) : answers[c][i].at <= Len(outgoing'[c][Session])
      BY <2>1, <3>1, <3>2, <3>3 DEF WayOf
    <3> QED BY <3>2, <3>3, <3>4 DEF WayOf
  <2>2. CASE /\ answers[c] = << >> /\ received[c] = 0
             /\ Len(outgoing'[c][Session]) \in Nat
    <3>1. Len(answers'[c]) = 0
      BY <2>2
    <3> QED BY <2>2, <3>1 DEF WayOf
  <2> QED BY <2>1, <2>2
<1> QED BY <1>1, <1>2 DEF Ways

\* The first answer is heard, or none will be.
LEMMA WaysTaken ==
  ASSUME WebIInv, NEW c \in Connections, UNCHANGED <<outgoing, received>>,
         \/ answers[c] # << >> /\ answers' = [answers EXCEPT ![c] = Tail(@)]
         \/ answers' = [answers EXCEPT ![c] = << >>]
  PROVE  Ways'
<1>1. Ways /\ answers[c] \in Seq(Answers) /\ Len(answers[c]) \in Nat
  BY WaysNow DEF Ways
<1>2. CASE answers[c] # << >> /\ answers' = [answers EXCEPT ![c] = Tail(@)]
  <2>1. /\ Tail(answers[c]) \in Seq(Answers) /\ Len(Tail(answers[c])) = Len(answers[c]) - 1
        /\ \A i \in 1..Len(Tail(answers[c])) : Tail(answers[c])[i] = answers[c][i + 1]
    BY <1>1, <1>2, HeadTailProperties
  <2>2. /\ answers' \in [Connections -> Seq(Answers)] /\ answers'[c] = Tail(answers[c])
        /\ \A d \in Connections : d # c => answers'[d] = answers[d]
    BY <1>1, <1>2, <2>1 DEF Ways
  <2>3. \A i \in 1..Len(answers'[c]) : i + 1 \in 1..Len(answers[c])
    BY <1>1, <2>1, <2>2
  <2>4. WayOf(c)'
    <3>1. WayOf(c)
      BY <1>1 DEF Ways
    <3>2. \A i, j \in 1..Len(answers'[c]) : i < j => i + 1 < j + 1
      BY <2>3
    <3> QED BY <2>1, <2>2, <2>3, <3>1, <3>2 DEF WayOf
  <2> QED BY <1>1, <2>2, <2>4 DEF Ways, WayOf
<1>3. CASE answers' = [answers EXCEPT ![c] = << >>]
  <2>1. /\ answers' \in [Connections -> Seq(Answers)] /\ answers'[c] = << >>
        /\ \A d \in Connections : d # c => answers'[d] = answers[d]
    BY <1>1, <1>3 DEF Ways
  <2>2. Len(answers'[c]) = 0
    BY <2>1
  <2>3. WayOf(c)'
    <3>1. WayOf(c)
      BY <1>1 DEF Ways
    <3> QED BY <2>2, <3>1 DEF WayOf
  <2> QED BY <1>1, <2>1, <2>3 DEF Ways, WayOf
<1> QED BY <1>2, <1>3

\* An answer comes last.
LEMMA WaysAnswered ==
  ASSUME WebIInv, NEW c \in Connections, UNCHANGED <<outgoing, received>>, NEW answer \in Answers,
         answer.at = Len(outgoing[c][Session]), answers' = [answers EXCEPT ![c] = Append(@, answer)]
  PROVE  Ways'
<1>1. /\ Ways /\ answers[c] \in Seq(Answers) /\ Len(answers[c]) \in Nat
      /\ Len(outgoing[c][Session]) \in Nat /\ received[c] \in Nat
  BY WaysNow DEF Ways
<1>2. /\ Append(answers[c], answer) \in Seq(Answers)
      /\ Len(Append(answers[c], answer)) = Len(answers[c]) + 1
      /\ Append(answers[c], answer)[Len(answers[c]) + 1] = answer
      /\ \A i \in 1..Len(answers[c]) : Append(answers[c], answer)[i] = answers[c][i]
  BY <1>1, AppendProperties
<1>3. /\ answers' \in [Connections -> Seq(Answers)] /\ answers'[c] = Append(answers[c], answer)
      /\ \A d \in Connections : d # c => answers'[d] = answers[d]
  BY <1>1, <1>2 DEF Ways
<1>4. \A i \in 1..Len(answers'[c]) : i \in 1..Len(answers[c]) \/ i = Len(answers[c]) + 1
  BY <1>1, <1>2, <1>3
<1>5. WayOf(c)'
  <2>1. WayOf(c)
    BY <1>1 DEF Ways
  <2>2. \A i \in 1..Len(answers'[c]) :
          /\ received[c] <= answers'[c][i].at /\ answers'[c][i].at <= Len(outgoing[c][Session])
    BY <1>1, <1>2, <1>3, <1>4, <2>1 DEF WayOf
  <2>3. ASSUME NEW i \in 1..Len(answers'[c]), NEW j \in 1..Len(answers'[c]), i < j
        PROVE  answers'[c][i].at <= answers'[c][j].at
    <3>1. i \in 1..Len(answers[c])
      BY <1>1, <1>4, <2>3
    <3>2. CASE j \in 1..Len(answers[c])
      BY <1>2, <1>3, <2>1, <2>3, <3>1, <3>2 DEF WayOf
    <3>3. CASE j = Len(answers[c]) + 1
      BY <1>2, <1>3, <2>2, <3>3
    <3> QED BY <1>4, <3>2, <3>3
  <2> QED BY <2>1, <2>2, <2>3 DEF WayOf
<1> QED BY <1>1, <1>3, <1>5 DEF Ways, WayOf

\* An event is heard when no answer is next.
LEMMA WaysHeard ==
  ASSUME WebIInv, NEW c \in Connections, EventMessage(c)
  PROVE  /\ Ways'
         /\ \A k \in 1..Len(answers[c]) : received[c] + 1 <= answers[c][k].at
<1>1. /\ Ways /\ WayOf(c) /\ answers[c] \in Seq(Answers) /\ Len(answers[c]) \in Nat
      /\ Len(outgoing[c][Session]) \in Nat /\ received[c] \in Nat
  BY WaysNow DEF Ways
<1>2. /\ received[c] < Len(outgoing[c][Session]) /\ ~ AnswerIsNext(c)
      /\ received' = [received EXCEPT ![c] = @ + 1] /\ UNCHANGED <<answers, outgoing>>
  BY DEF EventMessage, hubVars
<1>3. \A k \in 1..Len(answers[c]) : answers[c][k].at \in Nat
  <2>1. \A k \in 1..Len(answers[c]) : answers[c][k] \in Answers
    BY <1>1, ElementOfSeq
  <2> QED BY <2>1 DEF Answers
<1>4. ASSUME NEW k \in 1..Len(answers[c]) PROVE received[c] + 1 <= answers[c][k].at
  <2>1. answers[c] # << >> /\ 1 \in 1..Len(answers[c]) /\ (k = 1 \/ 1 < k)
    <3>1. Len(answers[c]) # 0
      BY <1>1, <1>4
    <3> QED BY <1>1, <3>1, EmptySeq
  <2>2. Head(answers[c]) = answers[c][1]
    BY <1>1, <2>1, HeadTailProperties
  <2>3. answers[c][1].at # received[c] /\ received[c] <= answers[c][1].at
    BY <1>1, <1>2, <2>1, <2>2 DEF AnswerIsNext, WayOf
  <2>4. answers[c][1].at <= answers[c][k].at
    <3>1. CASE k = 1
      BY <1>3, <3>1, <2>1
    <3>2. CASE 1 < k
      BY <1>1, <2>1, <3>2 DEF WayOf
    <3> QED BY <2>1, <3>1, <3>2
  <2> QED BY <1>1, <1>3, <2>1, <2>3, <2>4
<1>5. /\ received' \in [Connections -> Nat] /\ received'[c] = received[c] + 1
      /\ \A d \in Connections : d # c => received'[d] = received[d]
  BY <1>1, <1>2 DEF Ways
<1>6. WayOf(c)'
  BY <1>1, <1>2, <1>4, <1>5 DEF WayOf
<1> QED BY <1>1, <1>2, <1>4, <1>5, <1>6 DEF Ways, WayOf

\* What is on the way, after every step.
LEMMA WaysStep ==
  ASSUME WebIInv, [WebNext]_webVars
  PROVE  Ways'
<1> USE DEF hubVars, socketVars, historyVars
<1>0. \A c \in Connections : Len(outgoing[c][Session]) \in Nat /\ outgoing[c][Session] \in Seq(Event)
  BY WaysNow
<1>1. ASSUME UNCHANGED <<outgoing, answers, received>> PROVE Ways'
  BY <1>0, <1>1, WaysKept
<1>2. ASSUME NEW c \in Connections,
             \/ Connect(c) \/ Opened(c) \/ HandshakeMessage(c) \/ SocketErrors(c)
             \/ ConnectionEnds(c) \/ AnswerHello(c)
      PROVE  Ways'
  <2>1. UNCHANGED <<outgoing, answers, received>>
    BY <1>2 DEF Connect, Opened, HandshakeMessage, SocketErrors, ConnectionEnds, AnswerHello,
                Unsubscribe
  <2> QED BY <1>1, <2>1
<1>3. ASSUME NEW c \in Connections, EventMessage(c) PROVE Ways'
  BY <1>3, WaysHeard
<1>4. ASSUME NEW c \in Connections, ResponseMessage(c) PROVE Ways'
  <2>1. /\ UNCHANGED <<outgoing, received>> /\ answers[c] # << >>
        /\ answers' = [answers EXCEPT ![c] = Tail(@)]
    BY <1>4 DEF ResponseMessage, AnswerIsNext
  <2> QED BY <2>1, WaysTaken
<1>5. ASSUME NEW c \in Connections, SocketCloses(c) PROVE Ways'
  <2>1. UNCHANGED <<outgoing, received>> /\ answers' = [answers EXCEPT ![c] = << >>]
    BY <1>5 DEF SocketCloses
  <2> QED BY <2>1, WaysTaken
<1>6. ASSUME NEW c \in Connections, NEW r, Answered(c, r), UNCHANGED <<outgoing, received>>
      PROVE  Ways'
  <2>1. CASE UNCHANGED answers
    BY <1>1, <1>6, <2>1
  <2>2. ASSUME NEW answer \in Answers, answer.at = Len(outgoing[c][Session]),
               answers' = [answers EXCEPT ![c] = Append(@, answer)]
        PROVE  Ways'
    BY <1>6, <2>2, WaysAnswered
  <2> QED BY <1>6, <2>1, <2>2 DEF Answered
<1>7. ASSUME NEW c \in Connections, HandleRequest(c) PROVE Ways'
  <2>1. Answered(c, activeRuntimes[Session]) /\ UNCHANGED <<outgoing, received>>
    BY <1>7, RequestHandled DEF BeginRuntime, EndRuntime
  <2> QED BY <1>6, <2>1
<1>8. ASSUME NEW c \in Connections, StartFails(c) PROVE Ways'
  BY <1>6, <1>8, FailureAnswered
<1>9. ASSUME NEW c \in Connections, SubscribeConnection(c) PROVE Ways'
  <2>1. /\ Subscribe(c, HelloCursors(c)) /\ c \notin opened
        /\ UNCHANGED <<answers, received, published>>
    BY <1>9 DEF SubscribeConnection, Subscribe
  <2>2. answers[c] = << >> /\ received[c] = 0
    BY <2>1, SocketTypesNow DEF Sockets
  <2>3. outgoing'[c][Session] \in Seq(Event)
    BY HubStep, WebSessionAssumption, <1>9 DEF HubFollows, HubTypeOK, WebNext, DaemonNext
  <2>4. \A d \in Connections : d # c => outgoing'[d] = outgoing[d]
    <3>1. HubTypeOK
      BY CopiesNow
    <3> QED BY <2>1, <3>1 DEF Subscribe, HubTypeOK
  <2>5. Len(outgoing'[c][Session]) \in Nat
    BY <2>3, LenProperties
  <2>6. \A d \in Connections \ {c} : Len(outgoing[d][Session]) <= Len(outgoing'[d][Session])
                                    /\ Len(outgoing'[d][Session]) \in Nat
    BY <1>0, <2>4
  <2> QED BY <2>1, <2>2, <2>5, <2>6, WaysKept
<1>10. ASSUME NEW r \in Runtimes, NEW payload \in Payloads, Publication(r, payload) PROVE Ways'
  <2>1. UNCHANGED <<answers, received>>
    BY <1>10 DEF Publication
  <2>2. PICK e \in Event :
          \A c \in Connections :
            outgoing'[c][Session] = IF c \in subscribers THEN Append(outgoing[c][Session], e)
                                                         ELSE outgoing[c][Session]
    BY <1>10, CopiesNow, PublicationHub DEF WebIInv
  <2>3. \A c \in Connections : Len(Append(outgoing[c][Session], e)) = Len(outgoing[c][Session]) + 1
    BY <1>0, AppendProperties
  <2>4. \A c \in Connections : /\ Len(outgoing'[c][Session]) \in Nat
                               /\ Len(outgoing[c][Session]) <= Len(outgoing'[c][Session])
    <3> SUFFICES ASSUME NEW c \in Connections
                 PROVE  /\ Len(outgoing'[c][Session]) \in Nat
                        /\ Len(outgoing[c][Session]) <= Len(outgoing'[c][Session])
      OBVIOUS
    <3>1. CASE c \in subscribers
      <4>1. Len(outgoing'[c][Session]) = Len(outgoing[c][Session]) + 1
        BY <2>2, <2>3, <3>1
      <4> QED BY <1>0, <4>1
    <3>2. CASE c \notin subscribers
      <4>1. outgoing'[c][Session] = outgoing[c][Session]
        BY <2>2, <3>2
      <4> QED BY <1>0, <4>1
    <3> QED BY <3>1, <3>2
  <2> QED BY <2>1, <2>4, WaysKept
<1>11. ASSUME \/ \E request \in pending : TimeOut(request)
              \/ Disconnect \/ Reload \/ PageNext \/ UNCHANGED webVars
       PROVE  Ways'
  <2>1. CASE (\E request \in pending : TimeOut(request)) \/ Disconnect \/ Reload \/ UNCHANGED webVars
    <3>1. UNCHANGED <<outgoing, answers, received>>
      BY <2>1 DEF TimeOut, Disconnect, Reload, webVars
    <3> QED BY <1>1, <3>1
  <2>2. CASE PageNext
    <3>1. UNCHANGED <<outgoing, answers, received>>
      BY <2>2 DEF PageNext, AttachSession, SendPrompt, PreparationFails, PromptStarted, CloseSession,
                  PersistProjection, RefetchSession, PromptRuntime, StartRuntime
    <3> QED BY <1>1, <3>1
  <2> QED BY <1>11, <2>1, <2>2
<1>12. ASSUME NEW r \in Runtimes, StartedElsewhere(r) PROVE Ways'
  <2>1. UNCHANGED <<outgoing, answers, received>>
    BY <1>12 DEF StartedElsewhere, BeginRuntime
  <2> QED BY <1>1, <2>1
<1>13. ASSUME ClosedElsewhere \/ DaemonRestart PROVE Ways'
  <2>1. UNCHANGED <<outgoing, answers, received>>
    BY <1>13 DEF ClosedElsewhere, DaemonRestart, EndRuntime, Restart
  <2> QED BY <1>1, <2>1
<1> QED BY <1>2, <1>3, <1>4, <1>5, <1>7, <1>8, <1>9, <1>10, <1>11, <1>12, <1>13
        DEF WebNext, ClientNext, DaemonNext

\* The cursor that sendPrompt holds is local or not.
LEMMA HeldLocalStep ==
  ASSUME WebIInv, [WebNext]_webVars
  PROVE  heldLocal' \in BOOLEAN
<1>0. heldLocal \in BOOLEAN /\ page.local \in BOOLEAN
  BY CopiesNow DEF Pages
<1>1. CASE RestNext
  BY <1>0, <1>1, RestLeaves
<1>2. ASSUME PreparationRejected \/ \E failed : Rejected(failed) PROVE heldLocal' \in BOOLEAN
  BY <1>2 DEF PreparationRejected, Rejected
<1>3. CASE MoveNext
  <2>1. ASSUME NEW c \in Connections, SocketCloses(c) PROVE heldLocal' \in BOOLEAN
    <3>1. MarkDisconnected \/ heldLocal' = heldLocal
      BY <2>1 DEF SocketCloses
    <3> QED BY <1>0, <1>2, <3>1 DEF MarkDisconnected
  <2>2. ASSUME NEW request \in pending, TimeOut(request) PROVE heldLocal' \in BOOLEAN
    BY <1>2, <2>2 DEF TimeOut
  <2>3. ASSUME Disconnect PROVE heldLocal' \in BOOLEAN
    BY <1>2, <2>3 DEF Disconnect, MarkDisconnected
  <2>4. ASSUME \/ SendPrompt \/ PersistProjection \/ RefetchSession
               \/ PromptStarted \/ \E projection \in Projections(held) : PromptRuntime(projection)
        PROVE  heldLocal' \in {heldLocal, page.local}
    BY <2>4 DEF SendPrompt, PersistProjection, RefetchSession, PromptStarted, PromptRuntime
  <2>5. ASSUME PreparationFails PROVE heldLocal' \in BOOLEAN
    BY <1>2, <2>5 DEF PreparationFails
  <2> QED BY <1>0, <1>3, <2>1, <2>2, <2>3, <2>4, <2>5 DEF MoveNext
<1>4. CASE Reload
  BY <1>4 DEF Reload
<1>5. ASSUME NEW c \in Connections, EventMessage(c) PROVE heldLocal' \in BOOLEAN
  BY <1>0, <1>5 DEF EventMessage
<1>6. ASSUME NEW c \in Connections, ResponseMessage(c) PROVE heldLocal' \in BOOLEAN
  <2>1. \/ heldLocal' = heldLocal
        \/ \E request \in pending : Settle(request, Head(answers[c]))
    BY <1>6 DEF ResponseMessage
  <2>2. ASSUME NEW request \in pending, NEW answer, Settle(request, answer)
        PROVE  heldLocal' \in BOOLEAN
    <3>1. request.kind \in {"attach", "start", "prompt", "close"}
      BY AwaitedNow DEF Awaited, Kinds
    <3>2. CASE request.kind = "attach"
      BY <1>0, <2>2, <3>2 DEF Settle
    <3>3. CASE request.kind = "start"
      BY <1>0, <1>2, <2>2, <3>3 DEF Settle
    <3>4. CASE request.kind = "prompt"
      BY <1>2, <2>2, <3>4 DEF Settle
    <3>5. CASE request.kind = "close"
      BY <1>0, <2>2, <3>5 DEF Settle
    <3> QED BY <3>1, <3>2, <3>3, <3>4, <3>5
  <2> QED BY <1>0, <2>1, <2>2
<1>7. ASSUME NEW projection, NEW r \in Runtimes, StartRuntime(r, projection)
      PROVE  heldLocal' \in BOOLEAN
  BY <1>0, <1>7 DEF StartRuntime
<1> QED BY <1>1, <1>3, <1>4, <1>5, <1>6, <1>7, WebSteps

\* What is on the way keeps its types and its order in every step.
LEMMA OnTheWayStep ==
  ASSUME WebIInv, [WebNext]_webVars
  PROVE  OnTheWay'
<1>1. page' \in Pages /\ heldLocal' \in BOOLEAN
  BY PageStep, HeldLocalStep DEF CopiesGain
<1>2. resumeFrom' \in [Connections -> [Runtimes -> Cursor]]
  BY SocketTypesStep DEF SocketTypes
<1>3. /\ asked' \in 0..MaxRequests
      /\ \A p \in pending' : p.id <= asked' /\ \A q \in pending' : p.id = q.id => p = q
      /\ OneTurn'
  BY AwaitedStep DEF Awaited
<1>4. Wanted'
  BY StartsStep
<1>5. Ways'
  BY WaysStep
<1> QED BY <1>1, <1>2, <1>3, <1>4, <1>5 DEF OnTheWay, OneTurn, Wanted, Ways, WayOf

-----------------------------------------------------------------------------
(* The order of the copies, step by step *)

\* What was published stays, in its order.
LEMMA OrderKept ==
  ASSUME WebIInv, [WebNext]_webVars
  PROVE  /\ ToSet(published) \subseteq ToSet(published)'
         /\ \A x, y : Before(published, x, y) => Before(published', x, y)
         /\ \A x, y : NotLater(published, x, y) => NotLater(published', x, y)
         /\ UNCHANGED published \/ \E r \in Runtimes, payload \in Payloads : Publication(r, payload)
<1> USE DEF historyVars
<1>0. HubFollows /\ published \in Seq(Event)
  BY CopiesNow DEF WebIInv
<1>1. UNCHANGED published \/ \E r \in Runtimes, payload \in Payloads : Publication(r, payload)
  <2>1. CASE ClientNext
    BY <2>1 DEF ClientNext, Connect, Opened, HandshakeMessage, EventMessage, ResponseMessage,
                SocketErrors, SocketCloses, TimeOut, Disconnect, Reload
  <2>2. CASE PageNext
    BY <2>2 DEF PageNext, AttachSession, SendPrompt, PreparationFails, PromptStarted, CloseSession,
                PersistProjection, RefetchSession, PromptRuntime, StartRuntime
  <2>3. CASE DaemonNext
    BY <2>3 DEF DaemonNext, ConnectionEnds, AnswerHello, SubscribeConnection, HandleRequest,
                StartFails, StartedElsewhere, ClosedElsewhere, DaemonRestart
  <2> QED BY <2>1, <2>2, <2>3 DEF WebNext, webVars
<1>2. CASE UNCHANGED published
  BY <1>1, <1>2
<1>3. ASSUME NEW r \in Runtimes, NEW payload \in Payloads, Publication(r, payload)
      PROVE  /\ ToSet(published) \subseteq ToSet(published)'
             /\ \A x, y : Before(published, x, y) => Before(published', x, y)
             /\ \A x, y : NotLater(published, x, y) => NotLater(published', x, y)
  <2>1. PICK e \in Event : published' = Append(published, e)
    BY <1>0, <1>3, PublicationHub
  <2> QED BY <1>0, <2>1, PublishedGrows
<1> QED BY <1>1, <1>2, <1>3

\* The frames that the page has not taken are not earlier than what it has.
FramesAfter ==
  current # NoSocket =>
    \A x \in Known : \A i \in (received[current] + 1)..Len(outgoing[current][Session]) :
      NotLater(published, x, outgoing[current][Session][i])

\* What the page has seen by the time of an answer ends with the runtime it tells of.
SeenBy(known, frames, at) == known \cup {frames[i] : i \in 1..at}
AnswersAfter ==
  current # NoSocket =>
    \A k \in 1..Len(answers[current]) :
      \A x, e \in SeenBy(Known, outgoing[current][Session], answers[current][k].at) :
        e.runtime = answers[current][k].runtime => NotLater(published, x, e)

\* What the invariant says of the present socket.
LEMMA PresentNow ==
  ASSUME WebIInv
  PROVE  /\ FramesAfter /\ AnswersAfter /\ Known \subseteq ToSet(published)
         /\ published \in Seq(Event) /\ current \in Connections \cup {NoSocket}
         /\ NoSocket \notin Connections
<1>1. FramesAfter /\ AnswersAfter
  BY DEF WebIInv, Copies, FramesAfter, AnswersAfter, SeenBy
<1> QED BY <1>1, CopiesNow, SocketTypesNow, WebSocketsAssumption DEF SocketTypes

\* Nothing is heard on the present socket, and nothing comes on it.
LEMMA PresentKept ==
  ASSUME WebIInv, [WebNext]_webVars, Known' \subseteq Known,
         current' = current, current # NoSocket, received'[current] = received[current],
         outgoing'[current][Session] = outgoing[current][Session],
         \A k \in 1..Len(answers'[current]) :
           \E j \in 1..Len(answers[current]) : answers'[current][k] = answers[current][j]
  PROVE  FramesAfter' /\ AnswersAfter'
<1>1. FramesAfter'
  BY PresentNow, OrderKept DEF FramesAfter
<1>2. ASSUME NEW k \in 1..Len(answers'[current]) 
      PROVE  \A x, e \in SeenBy(Known', outgoing'[current][Session], answers'[current][k].at) :
               e.runtime = answers'[current][k].runtime => NotLater(published', x, e)
  <2>1. PICK j \in 1..Len(answers[current]) : answers'[current][k] = answers[current][j]
    OBVIOUS
  <2>2. SeenBy(Known', outgoing'[current][Session], answers'[current][k].at)
          \subseteq SeenBy(Known, outgoing[current][Session], answers[current][j].at)
    BY <2>1 DEF SeenBy
  <2>3. \A x, e \in SeenBy(Known, outgoing[current][Session], answers[current][j].at) :
          e.runtime = answers[current][j].runtime => NotLater(published, x, e)
    BY PresentNow DEF AnswersAfter
  <2> QED BY <2>1, <2>2, <2>3, OrderKept
<1>3. AnswersAfter'
  BY <1>2 DEF AnswersAfter
<1> QED BY <1>1, <1>3

\* What the page has seen, or will by an answer, was published.
LEMMA SeenPublished ==
  ASSUME WebIInv, current # NoSocket, NEW at \in Nat, at <= Len(outgoing[current][Session])
  PROVE  SeenBy(Known, outgoing[current][Session], at) \subseteq ToSet(published)
<1>1. current \in Connections /\ Len(outgoing[current][Session]) \in Nat
  BY PresentNow, WaysNow
<1>2. \A i \in 1..at : i \in 1..Len(outgoing[current][Session])
  BY <1>1
<1>3. \A i \in 1..at : outgoing[current][Session][i] \in ToSet(published)
  BY <1>1, <1>2 DEF WebIInv, HubFollows, FramesInOrder
<1> QED BY <1>3, PresentNow DEF SeenBy

\* An answer tells of the runtime that is active, or of none.
LEMMA PresentAnswered ==
  ASSUME WebIInv, NEW c \in Connections, NEW r \in {activeRuntimes[Session], NoRuntime},
         Answered(c, r), UNCHANGED <<current, received, outgoing, published>>, Known' \subseteq Known,
         [WebNext]_webVars, current # NoSocket
  PROVE  FramesAfter' /\ AnswersAfter'
<1>0. /\ current \in Connections /\ Ways /\ Len(answers[current]) \in Nat /\ published \in Seq(Event)
      /\ Len(outgoing[current][Session]) \in Nat /\ answers[current] \in Seq(Answers)
  BY PresentNow, WaysNow DEF Ways
<1>1. CASE answers'[current] = answers[current]
  BY <1>1, PresentKept
<1>2. CASE answers'[current] # answers[current]
  <2>1. PICK answer \in Answers : /\ answer.at = Len(outgoing[c][Session]) /\ answer.runtime = r
                                  /\ answers' = [answers EXCEPT ![c] = Append(@, answer)]
    BY <1>2 DEF Answered
  <2>2. c = current /\ answers'[current] = Append(answers[current], answer)
    BY <1>0, <1>2, <2>1 DEF Ways
  <2>3. /\ Len(answers'[current]) = Len(answers[current]) + 1
        /\ answers'[current][Len(answers[current]) + 1] = answer
        /\ \A k \in 1..Len(answers[current]) : answers'[current][k] = answers[current][k]
    BY <1>0, <2>2, AppendProperties
  <2>4. FramesAfter'
    BY PresentNow DEF FramesAfter
  <2>5. ASSUME NEW k \in 1..Len(answers'[current])
        PROVE  \A x, e \in SeenBy(Known', outgoing'[current][Session], answers'[current][k].at) :
                 e.runtime = answers'[current][k].runtime => NotLater(published, x, e)
    <3>1. SeenBy(Known', outgoing'[current][Session], answers'[current][k].at)
          \subseteq SeenBy(Known, outgoing[current][Session], answers'[current][k].at)
      BY DEF SeenBy
    <3>2. k \in 1..Len(answers[current]) \/ k = Len(answers[current]) + 1
      BY <1>0, <2>3
    <3>3. CASE k \in 1..Len(answers[current])
      BY <2>3, <3>1, <3>3, PresentNow DEF AnswersAfter
    <3>4. CASE k = Len(answers[current]) + 1
      <4>1. answers'[current][k] = answer
        BY <2>3, <3>4
      <4>2. SeenBy(Known, outgoing[current][Session], answer.at) \subseteq ToSet(published)
        BY <1>0, <2>1, <2>2, SeenPublished
      <4>3. \A e \in ToSet(published) : e.runtime # NoRuntime
        BY <1>0, PublishedEvents, NoRuntimeAssumption
      <4>4. \A x, e \in ToSet(published) : e.runtime = r => NotLater(published, x, e)
        BY <1>0, <4>3, CopiesNow, NothingAfterActive
      <4> QED BY <2>1, <3>1, <4>1, <4>2, <4>4
    <3> QED BY <3>2, <3>3, <3>4
  <2>6. AnswersAfter'
    BY <2>5 DEF AnswersAfter
  <2> QED BY <2>4, <2>6
<1> QED BY <1>1, <1>2

\* After every step the present socket goes on from what the page has.
LEMMA PresentStep ==
  ASSUME WebIInv, [WebNext]_webVars
  PROVE  FramesAfter' /\ AnswersAfter'
<1> USE DEF hubVars, socketVars, clientVars, historyVars
<1> DEFINE Present == FramesAfter' /\ AnswersAfter'
<1>0. /\ FramesAfter /\ AnswersAfter /\ Known \subseteq ToSet(published) /\ published \in Seq(Event)
      /\ current \in Connections \cup {NoSocket} /\ NoSocket \notin Connections
  BY PresentNow
<1>1. CASE current' = NoSocket
  BY <1>1 DEF FramesAfter, AnswersAfter
<1>2. CopiesGain({}) => Known' \subseteq Known
  BY DEF CopiesGain
<1>3. ASSUME NEW c \in Connections, EventMessage(c) PROVE Present
  <2> DEFINE e == outgoing[c][Session][received[c] + 1]
  <2>1. /\ c = current /\ current' = current /\ received[c] \in Nat
        /\ received[c] + 1 \in 1..Len(outgoing[c][Session]) /\ received'[c] = received[c] + 1
        /\ UNCHANGED <<outgoing, answers, published>>
    <3>1. Ways
      BY WaysNow
    <3> QED BY <1>3, <3>1, NextEvent DEF EventMessage, Ways
  <2>2. Known' \subseteq Known \cup {e}
    BY <1>3, EventPage DEF CopiesGain
  <2>3. Len(outgoing[c][Session]) \in Nat
    BY WaysNow
  <2>4. FramesAfter'
    <3> SUFFICES ASSUME NEW x \in Known',
                        NEW i \in (received[c] + 2)..Len(outgoing[c][Session])
                 PROVE  NotLater(published, x, outgoing[c][Session][i])
      BY <2>1 DEF FramesAfter
    <3>1. CASE x \in Known
      <4>1. i \in (received[c] + 1)..Len(outgoing[c][Session])
        BY <2>1, <2>3
      <4> QED BY <1>0, <2>1, <3>1, <4>1, PresentNow DEF FramesAfter
    <3>2. CASE x = e
      <4>1. i \in 1..Len(outgoing[c][Session]) /\ received[c] + 1 < i
        BY <2>1, <2>3
      <4>2. Before(published, e, outgoing[c][Session][i])
        BY <2>1, <4>1 DEF WebIInv, HubFollows, FramesInOrder
      <4> QED BY <3>2, <4>2 DEF NotLater
    <3> QED BY <2>2, <3>1, <3>2
  <2>5. ASSUME NEW k \in 1..Len(answers[c])
        PROVE  SeenBy(Known', outgoing[c][Session], answers[c][k].at)
                 \subseteq SeenBy(Known, outgoing[c][Session], answers[c][k].at)
    <3>1. received[c] + 1 <= answers[c][k].at
      BY <1>3, WaysHeard
    <3>2. answers[c][k].at \in Nat
      <4>1. answers[c] \in Seq(Answers)
        BY WaysNow DEF Ways
      <4>2. answers[c][k] \in Answers
        BY <4>1, ElementOfSeq
      <4> QED BY <4>2 DEF Answers
    <3>3. received[c] + 1 \in 1..answers[c][k].at
      BY <2>1, <3>1, <3>2
    <3>4. e \in SeenBy(Known, outgoing[c][Session], answers[c][k].at)
      BY <3>3 DEF SeenBy
    <3> HIDE DEF e
    <3> QED BY <2>2, <3>4 DEF SeenBy
  <2>6. AnswersAfter'
    <3> SUFFICES ASSUME NEW k \in 1..Len(answers[c]),
                        NEW x \in SeenBy(Known', outgoing[c][Session], answers[c][k].at),
                        NEW f \in SeenBy(Known', outgoing[c][Session], answers[c][k].at),
                        f.runtime = answers[c][k].runtime
                 PROVE  NotLater(published, x, f)
      BY <2>1 DEF AnswersAfter
    <3>1. x \in SeenBy(Known, outgoing[c][Session], answers[c][k].at)
          /\ f \in SeenBy(Known, outgoing[c][Session], answers[c][k].at)
      BY <2>5
    <3> QED BY <1>0, <2>1, <3>1, PresentNow DEF AnswersAfter
  <2> QED BY <2>4, <2>6
<1>4. ASSUME current # NoSocket, current' = current, UNCHANGED <<received, outgoing, answers>>,
             CopiesGain({})
      PROVE  Present
  BY <1>2, <1>4, PresentKept
<1>5. ASSUME NEW c \in Connections, Connect(c) PROVE Present
  <2>1. /\ link[c] = "none" /\ current' = c /\ UNCHANGED <<received, outgoing, answers>>
    BY <1>5 DEF Connect
  <2>2. outgoing[c][Session] = << >> /\ answers[c] = << >>
    <3>1. c \notin opened
      BY <2>1, SocketTypesNow DEF Sockets
    <3> QED BY <3>1, SocketTypesNow DEF Sockets
  <2>3. Len(outgoing'[c][Session]) = 0 /\ Len(answers'[c]) = 0 /\ received'[c] \in Nat
    BY <2>1, <2>2, WaysNow DEF Ways
  <2>4. (received'[c] + 1)..Len(outgoing'[c][Session]) = {} /\ 1..Len(answers'[c]) = {}
    BY <2>3
  <2> QED BY <2>1, <2>4 DEF FramesAfter, AnswersAfter
<1>6. ASSUME NEW c \in Connections, ResponseMessage(c) PROVE Present
  <2>1. /\ c = current /\ current # NoSocket /\ Len(answers[c]) \in Nat
        /\ answers' = [answers EXCEPT ![c] = Tail(answers[c])]
        /\ answers[c] # << >> /\ answers[c] \in Seq(Answers)
    BY <1>6, NextAnswer
  <2>2. UNCHANGED <<current, received, outgoing>>
    BY <1>6 DEF ResponseMessage
  <2>3. /\ answers'[c] = Tail(answers[c]) /\ Len(Tail(answers[c])) = Len(answers[c]) - 1
        /\ \A k \in 1..Len(Tail(answers[c])) : Tail(answers[c])[k] = answers[c][k + 1]
    BY <2>1, HeadTailProperties, WaysNow DEF Ways
  <2>4. \A k \in 1..Len(answers'[c]) : k + 1 \in 1..Len(answers[c])
    <3>1. Len(answers'[c]) = Len(answers[c]) - 1
      BY <2>3
    <3> QED BY <2>1, <3>1
  <2>5. \A k \in 1..Len(answers'[c]) : \E j \in 1..Len(answers[c]) : answers'[c][k] = answers[c][j]
    BY <2>3, <2>4
  <2>6. CopiesGain({})
    BY <1>6, ResponsePage
  <2> QED BY <1>2, <2>1, <2>2, <2>5, <2>6, PresentKept
<1>7. ASSUME NEW c \in Connections, SocketCloses(c), current # NoSocket, CopiesGain({}) PROVE Present
  <2>1. /\ answers' = [answers EXCEPT ![c] = << >>] /\ UNCHANGED <<current, received, outgoing>>
    BY <1>7 DEF SocketCloses
  <2>2. Len(<< >>) = 0 /\ current \in Connections /\ Ways
    BY <1>0, <1>7, WaysNow
  <2>3. \A k \in 1..Len(answers'[current]) :
          \E j \in 1..Len(answers[current]) : answers'[current][k] = answers[current][j]
    BY <2>1, <2>2 DEF Ways
  <2> QED BY <1>2, <1>7, <2>1, <2>3, PresentKept
<1>8. ASSUME NEW c \in Connections, HandleRequest(c), current # NoSocket, CopiesGain({})
      PROVE  Present
  <2>1. /\ Answered(c, activeRuntimes[Session])
        /\ UNCHANGED <<current, received, outgoing, published>>
    BY <1>8, RequestHandled DEF BeginRuntime, EndRuntime
  <2> QED BY <1>2, <1>8, <2>1, PresentAnswered
<1>9. ASSUME NEW c \in Connections, StartFails(c), current # NoSocket, CopiesGain({})
      PROVE  Present
  <2>1. Answered(c, NoRuntime) /\ UNCHANGED <<current, received, outgoing, published>>
    BY <1>9, FailureAnswered DEF StartFails
  <2> QED BY <1>2, <1>9, <2>1, PresentAnswered
<1>10. ASSUME NEW c \in Connections, SubscribeConnection(c), current # NoSocket, CopiesGain({})
       PROVE  Present
  <2>1. /\ Subscribe(c, HelloCursors(c)) /\ c \notin opened
        /\ UNCHANGED <<answers, received, published, current>>
    BY <1>10 DEF SubscribeConnection, Subscribe
  <2>2. \A s \in Sessions, r \in Runtimes : HelloCursors(c)[s][r] \in Cursor
    BY SocketTypesNow, CursorsTyped
  <2>3. /\ \A d \in Connections : d # c => outgoing'[d] = outgoing[d]
        /\ \A i \in 1..Len(outgoing'[c][Session]) :
             /\ outgoing'[c][Session][i] \in ToSet(published)
             /\ outgoing'[c][Session][i].runtime = activeRuntimes[Session]
    BY <1>0, <2>1, <2>2, SubscribeHub DEF WebIInv
  <2>4. CASE c # current
    BY <1>0, <1>2, <1>10, <2>1, <2>3, <2>4, PresentKept
  <2>5. CASE c = current
    <3>1. answers[c] = << >> /\ received[c] = 0 /\ Len(<< >>) = 0
      BY <2>1, SocketTypesNow DEF Sockets
    <3>2. \A i \in (received[c] + 1)..Len(outgoing'[c][Session]) : i \in 1..Len(outgoing'[c][Session])
      BY <3>1
    <3>3. \A x \in Known', i \in (received[c] + 1)..Len(outgoing'[c][Session]) :
            NotLater(published, x, outgoing'[c][Session][i])
      BY <1>0, <1>2, <1>10, <2>3, <3>2, CopiesNow, NothingAfterActive
    <3>4. FramesAfter'
      BY <2>1, <2>5, <3>3 DEF FramesAfter
    <3>5. 1..Len(answers'[current]) = {}
      BY <2>1, <2>5, <3>1
    <3>6. AnswersAfter'
      BY <2>1, <3>5 DEF AnswersAfter
    <3> QED BY <3>4, <3>6
  <2> QED BY <2>4, <2>5
<1>11. ASSUME NEW r \in Runtimes, NEW payload \in Payloads, Publication(r, payload),
              current # NoSocket, CopiesGain({})
       PROVE  Present
  <2>0. /\ current \in Connections /\ outgoing[current][Session] \in Seq(Event)
        /\ Len(outgoing[current][Session]) \in Nat /\ Ways /\ received[current] \in Nat
    BY <1>0, <1>11, WaysNow DEF Ways
  <2>1. UNCHANGED <<answers, received, current>>
    BY <1>11 DEF Publication
  <2>2. PICK e \in Event :
          /\ published' = Append(published, e)
          /\ \A c \in Connections :
               outgoing'[c][Session] = IF c \in subscribers THEN Append(outgoing[c][Session], e)
                                                            ELSE outgoing[c][Session]
    BY <1>11, CopiesNow, PublicationHub DEF WebIInv
  <2>3. CASE current \notin subscribers
    BY <1>2, <1>11, <2>0, <2>1, <2>2, <2>3, PresentKept
  <2>4. CASE current \in subscribers
    <3>0. outgoing'[current][Session] = Append(outgoing[current][Session], e)
      BY <2>0, <2>2, <2>4
    <3>1. /\ Len(outgoing'[current][Session]) = Len(outgoing[current][Session]) + 1
          /\ outgoing'[current][Session][Len(outgoing[current][Session]) + 1] = e
          /\ \A i \in 1..Len(outgoing[current][Session]) :
               outgoing'[current][Session][i] = outgoing[current][Session][i]
      BY <2>0, <2>2, <3>0, AppendFacts
    <3>2. \A x \in Known' : x \in Known /\ NotLater(published', x, e)
      BY <1>0, <1>2, <1>11, <2>2, PublishedGrows
    <3>3. ASSUME NEW x \in Known',
                 NEW i \in (received[current] + 1)..Len(outgoing'[current][Session])
          PROVE  NotLater(published', x, outgoing'[current][Session][i])
      <4>1. \/ i \in (received[current] + 1)..Len(outgoing[current][Session])
               /\ i \in 1..Len(outgoing[current][Session])
            \/ i = Len(outgoing[current][Session]) + 1
        BY <2>0, <3>1
      <4>2. CASE i = Len(outgoing[current][Session]) + 1
        BY <3>1, <3>2, <4>2
      <4>3. CASE i \in (received[current] + 1)..Len(outgoing[current][Session])
                 /\ i \in 1..Len(outgoing[current][Session])
        <5>1. NotLater(published, x, outgoing[current][Session][i])
          BY <1>11, <3>2, <4>3, PresentNow DEF FramesAfter
        <5> QED BY <3>1, <4>3, <5>1, OrderKept
      <4> QED BY <4>1, <4>2, <4>3
    <3>4. FramesAfter'
      BY <2>1, <3>3 DEF FramesAfter
    <3>5. ASSUME NEW k \in 1..Len(answers[current])
          PROVE  SeenBy(Known', outgoing'[current][Session], answers[current][k].at)
                   \subseteq SeenBy(Known, outgoing[current][Session], answers[current][k].at)
      <4>1. answers[current][k].at \in Nat /\ answers[current][k].at <= Len(outgoing[current][Session])
        <5>1. WayOf(current) /\ answers[current] \in Seq(Answers)
          BY <2>0 DEF Ways
        <5>2. answers[current][k] \in Answers
          BY <5>1, ElementOfSeq
        <5> QED BY <5>1, <5>2 DEF WayOf, Answers
      <4>2. \A i \in 1..answers[current][k].at : i \in 1..Len(outgoing[current][Session])
        BY <2>0, <4>1
      <4> QED BY <3>1, <3>2, <4>2 DEF SeenBy
    <3>6. AnswersAfter'
      <4> SUFFICES ASSUME NEW k \in 1..Len(answers[current]),
                          NEW x \in SeenBy(Known', outgoing'[current][Session], answers[current][k].at),
                          NEW f \in SeenBy(Known', outgoing'[current][Session], answers[current][k].at),
                          f.runtime = answers[current][k].runtime
                   PROVE  NotLater(published', x, f)
        BY <2>1 DEF AnswersAfter
      <4>1. x \in SeenBy(Known, outgoing[current][Session], answers[current][k].at)
            /\ f \in SeenBy(Known, outgoing[current][Session], answers[current][k].at)
        BY <3>5
      <4>2. NotLater(published, x, f)
        BY <1>11, <4>1, PresentNow DEF AnswersAfter
      <4> QED BY <4>2, OrderKept
    <3> QED BY <3>4, <3>6
  <2> QED BY <2>3, <2>4
<1>12. ASSUME NEW c \in Connections, 
              Opened(c) \/ HandshakeMessage(c) \/ SocketErrors(c) \/ ConnectionEnds(c) \/ AnswerHello(c)
       PROVE  UNCHANGED <<current, received, outgoing, answers>>
  BY <1>12 DEF Opened, HandshakeMessage, SocketErrors, ConnectionEnds, AnswerHello, Unsubscribe
<1>13. ASSUME (\E request \in pending : TimeOut(request)) \/ PageNext \/ UNCHANGED webVars
       PROVE  UNCHANGED <<current, received, outgoing, answers>>
  <2>1. CASE (\E request \in pending : TimeOut(request)) \/ UNCHANGED webVars
    BY <2>1 DEF TimeOut, webVars
  <2>2. CASE PageNext
    BY <2>2 DEF PageNext, AttachSession, SendPrompt, PreparationFails, PromptStarted, CloseSession,
                PersistProjection, RefetchSession, PromptRuntime, StartRuntime
  <2> QED BY <1>13, <2>1, <2>2
<1>14. ASSUME (\E r \in Runtimes : StartedElsewhere(r)) \/ ClosedElsewhere \/ DaemonRestart
       PROVE  UNCHANGED <<current, received, outgoing, answers>>
  BY <1>14 DEF StartedElsewhere, ClosedElsewhere, DaemonRestart, BeginRuntime, EndRuntime, Restart
<1>15. ASSUME Disconnect \/ Reload PROVE current' = NoSocket
  BY <1>15 DEF Disconnect, Reload, GiveUp
<1>16. ASSUME NEW c \in Connections,
              HandleRequest(c) \/ StartFails(c) \/ SubscribeConnection(c) \/ SocketCloses(c)
       PROVE  UNCHANGED current
  BY <1>16 DEF HandleRequest, StartFails, SubscribeConnection, SocketCloses
<1>17. ASSUME NEW r \in Runtimes, NEW payload \in Payloads, Publication(r, payload)
       PROVE  UNCHANGED current
  BY <1>17 DEF Publication
<1>18. CopiesGain({}) \/ \E c \in Connections : EventMessage(c)
  BY PageStep
<1> HIDE DEF Present
<1> SUFFICES Present
  BY DEF Present
<1>19. CASE CopiesGain({}) /\ current = NoSocket
             /\ ~ (\E c \in Connections : Connect(c) \/ EventMessage(c) \/ ResponseMessage(c))
  <2>1. current' = current
    BY <1>12, <1>13, <1>14, <1>15, <1>16, <1>17, <1>19 DEF WebNext, ClientNext, DaemonNext
  <2> QED BY <1>1, <1>19, <2>1 DEF Present
<1>20. CASE CopiesGain({}) /\ current # NoSocket /\ ~ (\E c \in Connections : EventMessage(c))
  BY <1>1, <1>4, <1>5, <1>6, <1>7, <1>8, <1>9, <1>10, <1>11, <1>12, <1>13, <1>14, <1>15, <1>20
     DEF WebNext, ClientNext, DaemonNext, Present
<1> QED BY <1>3, <1>5, <1>6, <1>18, <1>19, <1>20

\* The copies after every step.
LEMMA CopiesStep ==
  ASSUME WebIInv, [WebNext]_webVars
  PROVE  Copies'
<1>1. CopiesGain(ToSet(published)) /\ Known \subseteq ToSet(published)
  BY PageStep, PresentNow
<1>2. Known' \subseteq ToSet(published)'
  BY <1>1, OrderKept DEF CopiesGain
<1>3. /\ InOrder(published', page'.applied) /\ InOrder(published', held')
      /\ InOrder(published', stored')
      /\ \A r \in Runtimes : \A i \in 1..Len(pendingEvents'[r]) : pendingEvents'[r][i].runtime = r
  BY <1>1, OrderKept DEF CopiesGain, InOrder
<1>4. FramesAfter' /\ AnswersAfter'
  BY PresentStep
<1> QED BY <1>2, <1>3, <1>4 DEF Copies, FramesAfter, AnswersAfter, SeenBy

-----------------------------------------------------------------------------
(* Nothing is skipped *)

\* A frame that the page has not taken yet, up to one of them.
IsComing(frames, taken, f, upto) == \E j \in (taken + 1)..upto : frames[j] = f

\* Before each frame there is no gap.
FramesCover ==
  current # NoSocket =>
    \A i \in (received[current] + 1)..Len(outgoing[current][Session]) :
      \A f \in ToSet(published) :
        /\ f.runtime = outgoing[current][Session][i].runtime
        /\ f.sequence < outgoing[current][Session][i].sequence
        => Covered(f) \/ IsComing(outgoing[current][Session], received[current], f, i - 1)

\* While the socket is subscribed, there is none after the last.
NewestCovered ==
  current # NoSocket /\ current \in subscribers =>
    \A f \in ToSet(published) :
      f.runtime = activeRuntimes[Session] =>
        Covered(f) \/ IsComing(outgoing[current][Session], received[current], f,
                               Len(outgoing[current][Session]))

\* What the invariant says of events to come.
LEMMA GapsNow ==
  ASSUME WebIInv
  PROVE  /\ FramesCover /\ NewestCovered /\ NothingSkipped /\ CursorsFollow
         /\ published \in Seq(Event) /\ RunsAreWhole /\ ActiveIsNewest /\ HubFollows /\ HubTypeOK
         /\ current \in Connections \cup {NoSocket} /\ sequences \in [Runtimes -> Cursor]
         /\ Session \in Sessions
<1>1. FramesCover /\ NewestCovered
  BY DEF WebIInv, NoGap, FramesCover, NewestCovered, Coming, IsComing
<1> QED BY <1>1, CopiesNow, SocketTypesNow, WebSessionAssumption
        DEF WebIInv, WebInvariant, SocketTypes

\* Nothing is heard, sent or published; the hub has the runtime it had or one without events.
LEMMA GapsKept ==
  ASSUME WebIInv, CoverageKept, UNCHANGED published, current' = current, current # NoSocket,
         received'[current] = received[current],
         outgoing'[current][Session] = outgoing[current][Session],
         current \in subscribers' => current \in subscribers,
         \/ activeRuntimes'[Session] = activeRuntimes[Session]
         \/ \A f \in ToSet(published) : f.runtime # activeRuntimes'[Session]
  PROVE  FramesCover' /\ NewestCovered'
<1>1. FramesCover'
  BY GapsNow DEF FramesCover, CoverageKept
<1>2. NewestCovered'
  BY GapsNow DEF NewestCovered, CoverageKept
<1> QED BY <1>1, <1>2

\* The event that is published is the newest of its runtime.
LEMMA PublishedIsNewest ==
  ASSUME WebIInv, NEW r \in Runtimes, NEW payload \in Payloads, Publication(r, payload)
  PROVE  \E e \in Event :
           /\ published' = Append(published, e) /\ e.runtime = r /\ activeRuntimes[Session] = r
           /\ ToSet(published)' = ToSet(published) \cup {e}
           /\ UNCHANGED <<activeRuntimes, subscribers>>
           /\ \A f \in ToSet(published) : f.runtime = r => f.sequence < e.sequence
           /\ \A c \in Connections :
                outgoing'[c][Session] = IF c \in subscribers THEN Append(outgoing[c][Session], e)
                                                             ELSE outgoing[c][Session]
<1>1. PICK e \in Event :
        /\ HubFollows' /\ published' = Append(published, e) /\ e.runtime = r
        /\ activeRuntimes[Session] = r /\ UNCHANGED <<activeRuntimes, subscribers>>
        /\ \A c \in Connections :
             outgoing'[c][Session] = IF c \in subscribers THEN Append(outgoing[c][Session], e)
                                                          ELSE outgoing[c][Session]
  BY GapsNow, PublicationHub
<1>2. /\ Len(published') = Len(published) + 1 /\ published'[Len(published) + 1] = e
      /\ \A m \in 1..Len(published) : published'[m] = published[m]
      /\ ToSet(published)' = ToSet(published) \cup {e} /\ published \in Seq(Event)
  BY <1>1, GapsNow, PublishedGrows
<1>3. Len(published) \in Nat
  BY <1>2, LenProperties
<1>4. ASSUME NEW f \in ToSet(published), f.runtime = r PROVE f.sequence < e.sequence
  <2>1. PICK m \in 1..Len(published) : published[m] = f
    BY <1>2, PublishedPlaces
  <2>2. /\ m \in 1..Len(published') /\ Len(published) + 1 \in 1..Len(published')
        /\ m < Len(published) + 1
    BY <1>2, <1>3, <2>1
  <2>3. RunsAreWhole'
    BY <1>1 DEF HubFollows
  <2>4. published'[m] = f /\ published'[Len(published) + 1] = e
    BY <1>2, <2>1
  <2> QED BY <1>1, <1>4, <2>2, <2>3, <2>4 DEF RunsAreWhole
<1> QED BY <1>1, <1>2, <1>4

\* An event is heard: what precedes the next ones is covered or comes before them still.
LEMMA GapsHeard ==
  ASSUME WebIInv, NEW c \in Connections, EventMessage(c)
  PROVE  /\ FramesCover' /\ NewestCovered' /\ NothingSkipped' /\ CursorsFollow'
<1>0. PICK e : e = outgoing[c][Session][received[c] + 1]
  OBVIOUS
<1>1. /\ c = current /\ current # NoSocket /\ received[c] \in Nat
      /\ received[c] + 1 \in 1..Len(outgoing[c][Session]) /\ e \in ToSet(published) /\ e \in Event
  BY <1>0, NextEvent
<1>2. /\ UNCHANGED <<current, outgoing, published, subscribers, activeRuntimes>>
      /\ received'[c] = received[c] + 1
  BY WaysNow DEF EventMessage, hubVars, Ways
<1>3. Len(outgoing[c][Session]) \in Nat
  BY WaysNow
<1>4. CoverageKept /\ Covered(e)'
  BY <1>0, EventPage
<1>5. \/ UNCHANGED sequences
      \/ sequences' = [sequences EXCEPT ![e.runtime] = [epoch |-> e.epoch, sequence |-> e.sequence]]
  BY <1>0 DEF EventMessage
<1>6. \A i \in (received[c] + 2)..Len(outgoing[c][Session]) :
        i \in (received[c] + 1)..Len(outgoing[c][Session])
  BY <1>1, <1>3
<1>8. ASSUME NEW f \in ToSet(published), NEW n \in Int,
             Covered(f) \/ IsComing(outgoing[c][Session], received[c], f, n)
      PROVE  Covered(f)' \/ IsComing(outgoing[c][Session], received[c] + 1, f, n)
  <2>1. CASE Covered(f)
    BY <1>4, <2>1 DEF CoverageKept
  <2>2. ASSUME NEW j \in (received[c] + 1)..n, outgoing[c][Session][j] = f
        PROVE  Covered(f)' \/ IsComing(outgoing[c][Session], received[c] + 1, f, n)
    <3>1. CASE j = received[c] + 1
      BY <1>4, <1>0, <2>2, <3>1
    <3>2. CASE j # received[c] + 1
      <4>1. j \in (received[c] + 1 + 1)..n
        BY <1>1, <3>2
      <4> QED BY <2>2, <4>1 DEF IsComing
    <3> QED BY <3>1, <3>2
  <2> QED BY <1>8, <2>1, <2>2 DEF IsComing
<1>9. FramesCover'
  <2> SUFFICES ASSUME NEW i \in (received[c] + 1 + 1)..Len(outgoing[c][Session]),
                      NEW f \in ToSet(published),
                      f.runtime = outgoing[c][Session][i].runtime,
                      f.sequence < outgoing[c][Session][i].sequence
               PROVE  Covered(f)' \/ IsComing(outgoing[c][Session], received[c] + 1, f, i - 1)
    BY <1>1, <1>2 DEF FramesCover
  <2>1. i \in (received[c] + 1)..Len(outgoing[c][Session]) /\ i - 1 \in Int
    BY <1>1, <1>3
  <2>2. Covered(f) \/ IsComing(outgoing[c][Session], received[c], f, i - 1)
    BY <1>1, <2>1, GapsNow DEF FramesCover
  <2> QED BY <1>8, <2>1, <2>2
<1>10. NewestCovered'
  <2> SUFFICES ASSUME current \in subscribers, NEW f \in ToSet(published),
                      f.runtime = activeRuntimes[Session]
               PROVE  Covered(f)' \/ IsComing(outgoing[c][Session], received[c] + 1, f,
                                              Len(outgoing[c][Session]))
    BY <1>1, <1>2 DEF NewestCovered
  <2>1. Covered(f) \/ IsComing(outgoing[c][Session], received[c], f, Len(outgoing[c][Session]))
    BY <1>1, GapsNow DEF NewestCovered
  <2> QED BY <1>3, <1>8, <2>1
<1>11. ASSUME NEW f \in ToSet(published), f.runtime = e.runtime, f.sequence <= e.sequence
       PROVE  Covered(f)'
  <2>0. f.sequence \in Nat /\ e.sequence \in Nat /\ (f.sequence = e.sequence => f = e)
    BY <1>1, <1>11, GapsNow, BeforeByNumber
  <2>1. CASE f.sequence = e.sequence
    BY <1>4, <2>0, <2>1
  <2>2. CASE f.sequence < e.sequence
    <3>1. received[c] + 1 \in (received[c] + 1)..Len(outgoing[c][Session])
      BY <1>1, <1>3
    <3>2. Covered(f) \/ IsComing(outgoing[c][Session], received[c], f, received[c] + 1 - 1)
      BY <1>1, <1>0, <1>11, <2>2, <3>1, GapsNow DEF FramesCover
    <3>3. (received[c] + 1)..(received[c] + 1 - 1) = {}
      BY <1>1
    <3>4. Covered(f)
      BY <3>2, <3>3 DEF IsComing
    <3> QED BY <1>4, <3>4 DEF CoverageKept
  <2> QED BY <1>11, <2>0, <2>1, <2>2
<1>12. \A f \in ToSet(published) : f.runtime \in Runtimes
  BY GapsNow, PublishedEvents
<1>13. NothingSkipped'
  <2> SUFFICES ASSUME NEW f \in ToSet(published), sequences'[f.runtime].epoch = f.epoch,
                      f.sequence <= sequences'[f.runtime].sequence
               PROVE  Covered(f)'
    BY <1>2 DEF NothingSkipped, Covered
  <2>1. CASE sequences'[f.runtime] = sequences[f.runtime]
    <3>1. Covered(f)
      BY <2>1, GapsNow DEF NothingSkipped, Covered
    <3> QED BY <1>4, <3>1 DEF CoverageKept
  <2>2. CASE sequences'[f.runtime] # sequences[f.runtime]
    <3>1. f.runtime = e.runtime /\ sequences'[f.runtime].sequence = e.sequence
      BY <1>5, <1>12, <2>2, GapsNow
    <3> QED BY <1>11, <3>1
  <2> QED BY <2>1, <2>2
<1>14. CursorsFollow'
  <2> SUFFICES ASSUME NEW r \in Runtimes, sequences'[r].sequence # 0
               PROVE  \E f \in ToSet(published) : /\ f.runtime = r /\ f.epoch = sequences'[r].epoch
                                                  /\ f.sequence = sequences'[r].sequence
    BY <1>2 DEF CursorsFollow
  <2>1. CASE sequences'[r] = sequences[r]
    BY <2>1, GapsNow DEF CursorsFollow
  <2>2. CASE sequences'[r] # sequences[r]
    <3>1. r = e.runtime /\ sequences'[r] = [epoch |-> e.epoch, sequence |-> e.sequence]
      BY <1>5, <2>2, GapsNow
    <3> QED BY <1>1, <3>1
  <2> QED BY <2>1, <2>2
<1> QED BY <1>9, <1>10, <1>13, <1>14

\* An event is published: it goes behind what the connection was sent, or is missed with the rest.
LEMMA GapsPublished ==
  ASSUME WebIInv, [WebNext]_webVars, NEW r \in Runtimes, NEW payload \in Payloads,
         Publication(r, payload)
  PROVE  FramesCover' /\ NewestCovered' /\ NothingSkipped' /\ CursorsFollow'
<1>1. PICK e \in Event :
        /\ published' = Append(published, e) /\ e.runtime = r /\ activeRuntimes[Session] = r
        /\ ToSet(published)' = ToSet(published) \cup {e}
        /\ UNCHANGED <<activeRuntimes, subscribers>>
        /\ \A f \in ToSet(published) : f.runtime = r => f.sequence < e.sequence
        /\ \A c \in Connections :
             outgoing'[c][Session] = IF c \in subscribers THEN Append(outgoing[c][Session], e)
                                                          ELSE outgoing[c][Session]
  BY PublishedIsNewest
<1>2. UNCHANGED <<received, current, sequences, page, pendingEvents, lost>>
  BY DEF Publication, socketVars, clientVars, pageVars
<1>3. \A f : Covered(f) => Covered(f)'
  BY <1>2 DEF Covered
<1>4. e.sequence \in Nat /\ \A f \in ToSet(published) : f.sequence \in Nat /\ f.runtime \in Runtimes
  BY <1>1, GapsNow, PublishedEvents DEF Event
<1>5. ASSUME NEW f \in ToSet(published)', sequences[f.runtime].epoch = f.epoch,
             f.sequence <= sequences[f.runtime].sequence
      PROVE  Covered(f)'
  <2>1. CASE f \in ToSet(published)
    BY <1>3, <1>5, <2>1, GapsNow DEF NothingSkipped, Covered
  <2>2. CASE f = e
    <3>1. sequences[r] \in Cursor /\ e.sequence # 0
      BY GapsNow, <1>1 DEF Event
    <3>2. sequences[r].sequence \in Nat /\ sequences[r].sequence # 0
      BY <1>1, <1>4, <1>5, <2>2, <3>1 DEF Cursor
    <3>3. PICK g \in ToSet(published) : g.runtime = r /\ g.sequence = sequences[r].sequence
      BY <3>2, GapsNow DEF CursorsFollow
    <3>4. g.sequence < e.sequence /\ e.sequence <= g.sequence
      BY <1>1, <1>5, <2>2, <3>3
    <3> QED BY <1>4, <3>3, <3>4
  <2> QED BY <1>1, <2>1, <2>2
<1>6. NothingSkipped'
  BY <1>2, <1>5 DEF NothingSkipped, Covered
<1>7. CursorsFollow'
  BY <1>1, <1>2, GapsNow DEF CursorsFollow
<1>8. CASE current = NoSocket
  BY <1>2, <1>6, <1>7, <1>8 DEF FramesCover, NewestCovered
<1>9. CASE current # NoSocket
  <2> DEFINE frames == outgoing[current][Session]
             taken == received[current]
  <2>1. /\ current \in Connections /\ frames \in Seq(Event) /\ Len(frames) \in Nat
        /\ taken \in Nat /\ taken <= Len(frames)
        /\ \A i \in 1..Len(frames) : frames[i] \in ToSet(published)
    <3>1. current \in Connections
      BY <1>9, GapsNow
    <3> QED BY <3>1, WaysNow DEF Ways, WayOf, WebIInv, HubFollows, FramesInOrder
  <2>2. \A i \in (taken + 1)..Len(frames) : \A f \in ToSet(published) :
          f.runtime = frames[i].runtime /\ f.sequence < frames[i].sequence =>
            Covered(f) \/ IsComing(frames, taken, f, i - 1)
    BY <1>9, GapsNow DEF FramesCover
  <2>3. current \in subscribers => \A f \in ToSet(published) :
          f.runtime = r => Covered(f) \/ IsComing(frames, taken, f, Len(frames))
    BY <1>1, <1>9, GapsNow DEF NewestCovered
  <2>4. outgoing'[current][Session] = IF current \in subscribers THEN Append(frames, e) ELSE frames
    BY <1>1, <2>1
  <2>5. SUFFICES /\ \A i \in (taken + 1)..Len(outgoing'[current][Session]) :
                      \A f \in ToSet(published) \cup {e} :
                        /\ f.runtime = outgoing'[current][Session][i].runtime
                        /\ f.sequence < outgoing'[current][Session][i].sequence
                        => Covered(f) \/ IsComing(outgoing'[current][Session], taken, f, i - 1)
                 /\ current \in subscribers => \A f \in ToSet(published) \cup {e} :
                      f.runtime = r =>
                        Covered(f) \/ IsComing(outgoing'[current][Session], taken, f,
                                               Len(outgoing'[current][Session]))
    BY <1>1, <1>2, <1>3, <1>6, <1>7 DEF FramesCover, NewestCovered
  <2> HIDE DEF frames, taken
  \* A frame that was sent before is not of the new event's runtime and later.
  <2>6. \A i \in (taken + 1)..Len(frames) :
          /\ i \in 1..Len(frames)
          /\ ~ (e.runtime = frames[i].runtime /\ e.sequence < frames[i].sequence)
    <3> SUFFICES ASSUME NEW i \in (taken + 1)..Len(frames)
                 PROVE  /\ i \in 1..Len(frames)
                        /\ ~ (e.runtime = frames[i].runtime /\ e.sequence < frames[i].sequence)
      OBVIOUS
    <3>1. i \in 1..Len(frames)
      BY <2>1
    <3>2. frames[i] \in ToSet(published)
      BY <2>1, <3>1
    <3> QED BY <1>1, <1>4, <3>1, <3>2
  <2>7. CASE current \notin subscribers
    BY <2>2, <2>4, <2>6, <2>7
  <2>8. CASE current \in subscribers
    <3> DEFINE sent == Append(frames, e)
    <3>1. /\ Len(sent) = Len(frames) + 1 /\ sent[Len(frames) + 1] = e
          /\ \A i \in 1..Len(frames) : sent[i] = frames[i]
      BY <2>1, AppendFacts
    <3>2. outgoing'[current][Session] = sent
      BY <2>4, <2>8
    <3> HIDE DEF sent
    <3>3. ASSUME NEW f, NEW n \in Int, NEW m \in Int, n <= m, n <= Len(frames),
                 IsComing(frames, taken, f, n)
          PROVE  IsComing(sent, taken, f, m)
      <4>1. PICK j \in (taken + 1)..n : frames[j] = f
        BY <3>3 DEF IsComing
      <4>2. j \in 1..Len(frames) /\ j \in (taken + 1)..m
        BY <2>1, <3>3
      <4> QED BY <3>1, <4>1, <4>2 DEF IsComing
    <3>4. ASSUME NEW i \in (taken + 1)..Len(sent), NEW f \in ToSet(published) \cup {e},
                 f.runtime = sent[i].runtime, f.sequence < sent[i].sequence
          PROVE  Covered(f) \/ IsComing(sent, taken, f, i - 1)
      <4>1. i \in (taken + 1)..Len(frames) \/ i = Len(frames) + 1
        BY <2>1, <3>1
      <4>2. CASE i \in (taken + 1)..Len(frames)
        <5>1. sent[i] = frames[i] /\ i - 1 \in Int /\ i - 1 <= Len(frames)
          BY <2>1, <2>6, <3>1, <4>2
        <5>2. f \in ToSet(published)
          BY <2>6, <3>4, <4>2, <5>1
        <5>3. Covered(f) \/ IsComing(frames, taken, f, i - 1)
          BY <2>2, <3>4, <4>2, <5>1, <5>2
        <5> QED BY <3>3, <5>1, <5>3
      <4>3. CASE i = Len(frames) + 1
        <5>1. sent[i] = e /\ i - 1 = Len(frames)
          BY <2>1, <3>1, <4>3
        <5>2. f \in ToSet(published) /\ f.runtime = r
          BY <1>1, <1>4, <3>4, <5>1
        <5>3. Covered(f) \/ IsComing(frames, taken, f, Len(frames))
          BY <2>3, <2>8, <5>2
        <5> QED BY <2>1, <3>3, <5>1, <5>3
      <4> QED BY <4>1, <4>2, <4>3
    <3>5. ASSUME NEW f \in ToSet(published) \cup {e}, f.runtime = r
          PROVE  Covered(f) \/ IsComing(sent, taken, f, Len(sent))
      <4>1. CASE f \in ToSet(published)
        <5>1. Covered(f) \/ IsComing(frames, taken, f, Len(frames))
          BY <2>3, <2>8, <3>5, <4>1
        <5> QED BY <2>1, <3>1, <3>3, <5>1
      <4>2. CASE f = e
        <5>1. Len(frames) + 1 \in (taken + 1)..Len(sent)
          BY <2>1, <3>1
        <5> QED BY <3>1, <4>2, <5>1 DEF IsComing
      <4> QED BY <4>1, <4>2
    <3> QED BY <3>2, <3>4, <3>5
  <2> QED BY <2>7, <2>8
<1> QED BY <1>8, <1>9

\* The present socket subscribes with the client's cursors: what it is not sent it has, or the
\* journal has dropped.
LEMMA GapsSubscribed ==
  ASSUME WebIInv, CoverageKept, SubscribeConnection(current), current \in Connections
  PROVE  FramesCover' /\ NewestCovered'
<1> DEFINE active == activeRuntimes[Session]
           frames == outgoing'[current][Session]
<1>1. /\ Subscribe(current, HelloCursors(current)) /\ current \notin opened
      /\ accepted[current] = "answered"
      /\ UNCHANGED <<answers, received, published, current>>
      /\ lost' = lost \cup
           {event \in ToSet(published) :
              /\ event.runtime = active /\ event.epoch = epoch
              /\ event.sequence > ResumePoint(HelloCursors(current), Session, active)
              /\ event.sequence <= EvictedUpTo(Session, active)}
  <2>1. /\ Subscribe(current, HelloCursors(current)) /\ accepted[current] = "answered"
        /\ UNCHANGED <<answers, received, published, current>>
    BY DEF SubscribeConnection, clientVars
  <2>2. current \notin opened
    BY <2>1 DEF Subscribe
  <2>3. lost' = lost \cup
           {event \in ToSet(published) :
              /\ event.runtime = active /\ event.epoch = epoch
              /\ event.sequence > ResumePoint(HelloCursors(current), Session, active)
              /\ event.sequence <= EvictedUpTo(Session, active)}
    BY DEF SubscribeConnection
  <2> QED BY <2>1, <2>2, <2>3
<1>2. /\ received[current] = 0 /\ resumeFrom[current] = sequences
  BY <1>1, SocketTypesNow DEF Sockets
<1>3. /\ \A s \in Sessions, r \in Runtimes : HelloCursors(current)[s][r] \in Cursor
      /\ HelloCursors(current)[Session] = sequences
  BY <1>2, SocketTypesNow, CursorsTyped
<1>4. /\ HubFollows' /\ activeRuntimes' = activeRuntimes
      /\ \A i \in 1..Len(frames) : /\ frames[i] \in ToSet(published) /\ frames[i].runtime = active
      /\ \A f \in ToSet(published) :
              /\ f.runtime = active
              /\ f.sequence > ResumePoint(HelloCursors(current), Session, f.runtime)
              /\ f.sequence > EvictedUpTo(Session, f.runtime)
              => \E i \in 1..Len(frames) : frames[i] = f
  BY <1>1, <1>3, GapsNow, SubscribeHub DEF Subscribe
<1>5. Len(frames) \in Nat
  <2>1. frames \in Seq(Event)
    BY <1>1, <1>4, GapsNow DEF HubFollows, HubTypeOK
  <2> QED BY <2>1, LenProperties
<1>6. ASSUME NEW f \in ToSet(published), f.runtime = active
      PROVE  Covered(f)' \/ \E i \in 1..Len(frames) : frames[i] = f
  <2>0. f.sequence \in Nat /\ f.sequence > 0 /\ f.runtime \in Runtimes /\ f.epoch = epoch
    <3>1. PICK m \in 1..Len(published) : published[m] = f
      BY GapsNow, PublishedPlaces
    <3>2. f.epoch = epoch
      BY <1>6, <3>1, GapsNow DEF ActiveIsNewest
    <3> QED BY <3>2, GapsNow, PublishedEvents
  <2>1. /\ sequences[active] \in Cursor
        /\ EvictedUpTo(Session, active) \in Nat
    BY <1>3, <1>6, <2>0, GapsNow, NotOwedType
  <2>2. ResumePoint(HelloCursors(current), Session, active)
          = IF sequences[active].epoch = epoch THEN sequences[active].sequence ELSE 0
    BY <1>3 DEF ResumePoint
  <2>3. CASE f.sequence > ResumePoint(HelloCursors(current), Session, active)
    <3>1. CASE f.sequence > EvictedUpTo(Session, active)
      BY <1>4, <1>6, <2>3, <3>1
    <3>2. CASE ~ (f.sequence > EvictedUpTo(Session, active))
      <4>1. f.sequence <= EvictedUpTo(Session, active)
        BY <2>0, <2>1, <3>2
      <4>2. f \in lost'
        BY <1>1, <1>6, <2>0, <2>3, <4>1
      <4> QED BY <4>2 DEF Covered
    <3> QED BY <3>1, <3>2
  <2>4. CASE ~ (f.sequence > ResumePoint(HelloCursors(current), Session, active))
    <3>1. sequences[active].epoch = epoch /\ f.sequence <= sequences[active].sequence
      <4>1. sequences[active].sequence \in Nat
        BY <2>1 DEF Cursor
      <4> QED BY <2>0, <2>2, <2>4, <4>1
    <3>2. Covered(f)
      BY <1>6, <2>0, <3>1, GapsNow DEF NothingSkipped, Covered
    <3> QED BY <3>2 DEF CoverageKept
  <2> QED BY <2>3, <2>4
<1>7. \A f \in ToSet(published) : f.runtime = active =>
        Covered(f)' \/ IsComing(frames, received[current], f, Len(frames))
  BY <1>2, <1>6 DEF IsComing
<1>8. NewestCovered'
  BY <1>1, <1>4, <1>7 DEF NewestCovered
<1>9. ASSUME NEW i \in (received[current] + 1)..Len(frames), NEW f \in ToSet(published),
             f.runtime = frames[i].runtime, f.sequence < frames[i].sequence
      PROVE  Covered(f)' \/ IsComing(frames, received[current], f, i - 1)
  <2>1. i \in 1..Len(frames)
    BY <1>2, <1>5
  <2>2. f.runtime = active /\ frames[i] \in ToSet(published)
    BY <1>4, <1>9, <2>1
  <2>3. ASSUME NEW j \in 1..Len(frames), frames[j] = f PROVE j \in 1..(i - 1)
    <3>0. PICK g \in ToSet(published) : g = frames[i]
      BY <2>2
    <3>1. f.sequence \in Nat /\ g.sequence \in Nat /\ ~ Before(published, g, f) /\ f # g
      <4>1. g.runtime = f.runtime /\ f.sequence < g.sequence
        BY <1>9, <3>0
      <4>2. published \in Seq(Event) /\ RunsAreWhole
        BY GapsNow
      <4>3. /\ g.sequence \in Nat /\ f.sequence \in Nat
            /\ Before(published, g, f) <=> g.sequence < f.sequence
        BY <4>1, <4>2, BeforeByNumber
      <4>4. ~ (g.sequence < f.sequence) /\ (g = f => g.sequence = f.sequence)
        BY <4>1, <4>3
      <4> QED BY <4>1, <4>3, <4>4
    <3>6. ~ Before(published, frames[i], f) /\ f # frames[i]
      BY <3>0, <3>1
    <3>2. FramesInOrder' /\ published' = published
      BY <1>1, <1>4 DEF HubFollows
    <3>3. \A k \in 1..Len(frames) : i < k => Before(published, frames[i], frames[k])
      BY <1>1, <2>1, <3>2 DEF FramesInOrder
    <3>4. ~ (i < j)
      BY <2>3, <3>3, <3>6
    <3>5. j # i
      BY <2>3, <3>6
    <3> QED BY <1>5, <2>1, <3>4, <3>5
  <2>4. CASE \E j \in 1..Len(frames) : frames[j] = f
    <3>1. PICK j \in 1..Len(frames) : frames[j] = f
      BY <2>4
    <3>2. j \in 1..(i - 1)
      BY <2>3, <3>1
    <3> QED BY <1>2, <3>1, <3>2 DEF IsComing
  <2> QED BY <1>6, <2>2, <2>4
<1>10. FramesCover'
  BY <1>1, <1>9 DEF FramesCover
<1> QED BY <1>8, <1>10

\* A step that neither hears, sends nor publishes an event, and begins no runtime that has some.
Still ==
  /\ UNCHANGED <<published, outgoing, received, current, sequences>>
  /\ subscribers' \subseteq subscribers
  /\ \/ activeRuntimes'[Session] = activeRuntimes[Session]
     \/ \A f \in ToSet(published) : f.runtime # activeRuntimes'[Session]

\* The hub forgets the runtime it has, or begins one without events.
LEMMA StillBegins ==
  ASSUME WebIInv, UNCHANGED <<published, outgoing, received, current, sequences>>,
         subscribers' \subseteq subscribers,
         \/ activeRuntimes'[Session] \in {activeRuntimes[Session], NoRuntime}
         \/ \E r \in Runtimes : /\ activeRuntimes'[Session] = r
                                /\ \A m \in 1..Len(published) : published[m].runtime # r
  PROVE  Still
<1>1. \A f \in ToSet(published) : f.runtime # NoRuntime
  BY GapsNow, PublishedEvents, NoRuntimeAssumption
<1>2. ASSUME NEW r \in Runtimes, activeRuntimes'[Session] = r,
             \A m \in 1..Len(published) : published[m].runtime # r
      PROVE  \A f \in ToSet(published) : f.runtime # activeRuntimes'[Session]
  BY <1>2, GapsNow, PublishedPlaces
<1> QED BY <1>1, <1>2 DEF Still

\* A request that the mailbox takes, or one that fails.
LEMMA StillHandled ==
  ASSUME WebIInv, NEW c \in Connections, HandleRequest(c) \/ StartFails(c)
  PROVE  Still
<1> USE DEF hubVars, clientVars, historyVars
<1>0. HubTypeOK /\ Session \in Sessions /\ StartsOnce
  BY GapsNow, StartsNow
<1>1. CASE StartFails(c)
  <2>1. /\ UNCHANGED <<outgoing, received, current, sequences, subscribers, published>>
        /\ activeRuntimes' = [activeRuntimes EXCEPT ![Session] = NoRuntime]
    BY <1>1 DEF StartFails
  <2>2. activeRuntimes'[Session] = NoRuntime
    BY <1>0, <2>1 DEF HubTypeOK
  <2> QED BY <2>1, <2>2, StillBegins
<1>2. CASE HandleRequest(c)
  <2>1. /\ Head(requests[c]) = requests[c][1] /\ 1 \in 1..Len(requests[c])
        /\ UNCHANGED <<published, received, current, sequences>>
        /\ \/ UNCHANGED hubVars
           \/ /\ Head(requests[c]).kind = "start" /\ Head(requests[c]).runtime \in Runtimes
              /\ BeginRuntime(Session, Head(requests[c]).runtime)
           \/ /\ activeRuntimes[Session] \in Runtimes
              /\ EndRuntime(Session, activeRuntimes[Session])
    BY <1>2, RequestHandled
  <2>2. CASE UNCHANGED hubVars
    BY <2>1, <2>2, StillBegins
  <2>3. CASE /\ Head(requests[c]).kind = "start" /\ Head(requests[c]).runtime \in Runtimes
             /\ BeginRuntime(Session, Head(requests[c]).runtime)
    <3>1. AskedFor(Head(requests[c]).runtime)
      BY <2>1, <2>3 DEF AskedFor
    <3>2. \A m \in 1..Len(published) : published[m].runtime # Head(requests[c]).runtime
      BY <1>0, <2>3, <3>1 DEF StartsOnce
    <3>3. UNCHANGED <<outgoing, subscribers>>
          /\ activeRuntimes'[Session] = Head(requests[c]).runtime
      BY <1>0, <2>3 DEF BeginRuntime, HubTypeOK
    <3> QED BY <2>1, <2>3, <3>2, <3>3, StillBegins
  <2>4. CASE EndRuntime(Session, activeRuntimes[Session])
    <3>1. UNCHANGED <<outgoing, subscribers>> /\ activeRuntimes'[Session] = NoRuntime
      BY <1>0, <2>4 DEF EndRuntime, HubTypeOK
    <3> QED BY <2>1, <3>1, StillBegins
  <2> QED BY <2>1, <2>2, <2>3, <2>4
<1> QED BY <1>1, <1>2

\* So are all steps but those of a present socket and its events.
LEMMA StillSteps ==
  ASSUME WebIInv, [WebNext]_webVars
  PROVE  \/ Still \/ Disconnect \/ Reload
         \/ \E c \in Connections : Connect(c) \/ EventMessage(c) \/ SubscribeConnection(c)
         \/ \E r \in Runtimes, payload \in Payloads : Publication(r, payload)
<1> USE DEF hubVars, socketVars, clientVars, pageVars, historyVars, webVars
<1>0. HubTypeOK /\ Session \in Sessions /\ StartsOnce
  BY GapsNow, StartsNow
<1>1. ASSUME UNCHANGED <<published, outgoing, received, current, sequences, subscribers,
                         activeRuntimes>>
      PROVE  Still
  BY <1>1 DEF Still
<1>2. ASSUME NEW c \in Connections,
             \/ Opened(c) \/ HandshakeMessage(c) \/ ResponseMessage(c) \/ SocketErrors(c)
             \/ SocketCloses(c) \/ AnswerHello(c)
      PROVE  Still
  <2>1. CASE Opened(c) \/ HandshakeMessage(c) \/ ResponseMessage(c)
    BY <1>1, <2>1 DEF Opened, HandshakeMessage, ResponseMessage
  <2>2. CASE SocketErrors(c) \/ SocketCloses(c) \/ AnswerHello(c)
    BY <1>1, <2>2 DEF SocketErrors, SocketCloses, AnswerHello
  <2> QED BY <1>2, <2>1, <2>2
<1>3. ASSUME \/ \E request \in pending : TimeOut(request)
             \/ PageNext \/ UNCHANGED webVars
      PROVE  Still
  <2>1. CASE (\E request \in pending : TimeOut(request)) \/ UNCHANGED webVars
    BY <1>1, <2>1 DEF TimeOut
  <2>2. CASE \/ AttachSession \/ SendPrompt \/ PreparationFails \/ PromptStarted
             \/ CloseSession \/ PersistProjection \/ RefetchSession
    BY <1>1, <2>2 DEF AttachSession, SendPrompt, PreparationFails, PromptStarted, CloseSession,
                      PersistProjection, RefetchSession
  <2>3. ASSUME NEW projection, PromptRuntime(projection)
        PROVE  Still
    BY <1>1, <2>3 DEF PromptRuntime
  <2>4. ASSUME NEW projection, NEW r \in Runtimes, StartRuntime(r, projection)
        PROVE  Still
    BY <1>1, <2>4 DEF StartRuntime
  <2> QED BY <1>3, <2>1, <2>2, <2>3, <2>4 DEF PageNext
<1>4. ASSUME NEW c \in Connections, ConnectionEnds(c) PROVE Still
  BY <1>4 DEF ConnectionEnds, Unsubscribe, Still
<1>5. ASSUME NEW r \in Runtimes, StartedElsewhere(r) PROVE Still
  <2>1. /\ r \notin used /\ BeginRuntime(Session, r)
        /\ UNCHANGED <<received, current, sequences, published>>
    BY <1>5 DEF StartedElsewhere
  <2>2. \A m \in 1..Len(published) : published[m].runtime # r
    BY <1>0, <2>1 DEF StartsOnce
  <2>3. UNCHANGED <<outgoing, subscribers>> /\ activeRuntimes'[Session] = r
    BY <1>0, <2>1 DEF BeginRuntime, HubTypeOK
  <2> QED BY <2>1, <2>2, <2>3, StillBegins
<1>6. CASE ClosedElsewhere
  <2>1. /\ EndRuntime(Session, activeRuntimes[Session])
        /\ UNCHANGED <<received, current, sequences, published>>
    BY <1>6 DEF ClosedElsewhere
  <2>2. UNCHANGED <<outgoing, subscribers>> /\ activeRuntimes'[Session] = NoRuntime
    BY <1>0, <2>1 DEF EndRuntime, HubTypeOK
  <2> QED BY <2>1, <2>2, StillBegins
<1>7. CASE DaemonRestart
  <2>1. /\ Restart /\ UNCHANGED <<received, current, sequences, published>>
    BY <1>7 DEF DaemonRestart
  <2>2. /\ UNCHANGED outgoing /\ subscribers' \subseteq subscribers
        /\ activeRuntimes'[Session] = NoRuntime
    BY <1>0, <2>1 DEF Restart
  <2> QED BY <2>1, <2>2, StillBegins
<1> QED BY <1>2, <1>3, <1>4, <1>5, <1>6, <1>7, StillHandled DEF WebNext, ClientNext, DaemonNext

\* The cursors stay where they are, and nothing is published.
LEMMA SeenKept ==
  ASSUME WebIInv, CoverageKept, UNCHANGED <<published, sequences>>
  PROVE  NothingSkipped' /\ CursorsFollow'
<1>1. NothingSkipped'
  BY GapsNow DEF NothingSkipped, CoverageKept, Covered
<1>2. CursorsFollow'
  BY GapsNow DEF CursorsFollow
<1> QED BY <1>1, <1>2

\* The present socket is made: nothing was sent on it yet.
LEMMA GapsConnected ==
  ASSUME WebIInv, NEW c \in Connections, Connect(c)
  PROVE  FramesCover' /\ NewestCovered'
<1>1. /\ current' = c /\ link[c] = "none" /\ UNCHANGED <<hubVars, received>>
  BY DEF Connect
<1>2. accepted[c] = "no"
  BY <1>1, SocketTypesNow DEF Sockets
<1>3. c \notin opened
  BY <1>2, SocketTypesNow DEF Sockets
<1>4. c \notin subscribers /\ outgoing[c][Session] = << >> /\ received[c] = 0
  BY <1>3, SocketTypesNow DEF Sockets
<1>5. (received[c] + 1)..Len(outgoing[c][Session]) = {}
  BY <1>4
<1>6. UNCHANGED <<outgoing, subscribers>>
  BY <1>1 DEF hubVars
<1>7. FramesCover'
  BY <1>1, <1>5, <1>6 DEF FramesCover
<1>8. NewestCovered'
  BY <1>1, <1>4, <1>6 DEF NewestCovered
<1> QED BY <1>7, <1>8

\* A connection subscribes.
LEMMA GapsOpened ==
  ASSUME WebIInv, [WebNext]_webVars, NEW c \in Connections, SubscribeConnection(c), CoverageKept
  PROVE  FramesCover' /\ NewestCovered' /\ UNCHANGED <<published, sequences>>
<1>1. /\ Subscribe(c, HelloCursors(c))
      /\ UNCHANGED <<received, published, current, sequences>>
  BY DEF SubscribeConnection, clientVars
<1>2. CASE current = NoSocket
  BY <1>1, <1>2 DEF FramesCover, NewestCovered
<1>3. CASE current # NoSocket /\ c = current
  BY <1>1, <1>3, GapsSubscribed
<1>4. CASE current # NoSocket /\ c # current
  <2>1. current \in Connections /\ HubTypeOK
    BY <1>4, GapsNow
  <2>2. /\ outgoing'[current] = outgoing[current] /\ activeRuntimes' = activeRuntimes
        /\ subscribers' = subscribers \cup {c}
    BY <1>1, <1>4, <2>1 DEF Subscribe, HubTypeOK
  <2> QED BY <1>1, <1>4, <2>2, GapsKept
<1> QED BY <1>1, <1>2, <1>3, <1>4

\* A new client has seen nothing.
LEMMA GapsReloaded ==
  ASSUME WebIInv, Reload
  PROVE  FramesCover' /\ NewestCovered' /\ NothingSkipped' /\ CursorsFollow'
<1>1. current' = NoSocket /\ UNCHANGED published /\ sequences' = [r \in Runtimes |-> NoCursor]
  BY DEF Reload, GiveUp, historyVars
<1>2. \A r \in Runtimes : sequences'[r].sequence = 0
  BY <1>1 DEF NoCursor
<1>3. \A f \in ToSet(published) : f.runtime \in Runtimes /\ f.sequence \in Nat /\ f.sequence > 0
  BY GapsNow, PublishedEvents
<1>4. NothingSkipped'
  <2>1. \A f \in ToSet(published) : ~ (f.sequence <= sequences'[f.runtime].sequence)
    BY <1>2, <1>3
  <2> QED BY <1>1, <2>1 DEF NothingSkipped
<1>5. CursorsFollow'
  BY <1>2 DEF CursorsFollow
<1> QED BY <1>1, <1>4, <1>5 DEF FramesCover, NewestCovered

\* After every step the client has seen what it counts as seen, and what is sent next follows it.
LEMMA GapsStep ==
  ASSUME WebIInv, [WebNext]_webVars
  PROVE  NoGap' /\ NothingSkipped' /\ CursorsFollow'
<1> DEFINE Whole == FramesCover' /\ NewestCovered' /\ NothingSkipped' /\ CursorsFollow'
<1>1. ASSUME Reload PROVE Whole
  BY <1>1, GapsReloaded
<1>2. ASSUME CoverageKept, Still PROVE Whole
  <2>1. /\ UNCHANGED <<published, outgoing, received, current, sequences>>
        /\ subscribers' \subseteq subscribers
        /\ \/ activeRuntimes'[Session] = activeRuntimes[Session]
           \/ \A f \in ToSet(published) : f.runtime # activeRuntimes'[Session]
    BY <1>2 DEF Still
  <2>2. NothingSkipped' /\ CursorsFollow'
    BY <1>2, <2>1, SeenKept
  <2>3. CASE current = NoSocket
    BY <2>1, <2>2, <2>3 DEF FramesCover, NewestCovered
  <2>4. CASE current # NoSocket
    BY <1>2, <2>1, <2>2, <2>4, GapsKept
  <2> QED BY <2>3, <2>4
<1>3. ASSUME CoverageKept, Disconnect PROVE Whole
  <2>1. current' = NoSocket /\ UNCHANGED <<published, sequences>>
    BY <1>3 DEF Disconnect, GiveUp, historyVars
  <2> QED BY <1>3, <2>1, SeenKept DEF FramesCover, NewestCovered
<1>4. ASSUME NEW c \in Connections, CoverageKept, Connect(c) PROVE Whole
  <2>1. UNCHANGED <<published, sequences>>
    BY <1>4 DEF Connect, historyVars
  <2> QED BY <1>4, <2>1, GapsConnected, SeenKept
<1>5. ASSUME NEW c \in Connections, EventMessage(c) PROVE Whole
  BY <1>5, GapsHeard
<1>6. ASSUME NEW c \in Connections, CoverageKept, SubscribeConnection(c) PROVE Whole
  BY <1>6, GapsOpened, SeenKept
<1>7. ASSUME NEW r \in Runtimes, NEW payload \in Payloads, Publication(r, payload) PROVE Whole
  BY <1>7, GapsPublished
<1>8. Whole
  <2>1. CoverageKept \/ Reload
    BY PageStep
  <2> QED BY <1>1, <1>2, <1>3, <1>4, <1>5, <1>6, <1>7, <2>1, StillSteps
<1>9. NoGap'
  BY <1>8 DEF NoGap, FramesCover, NewestCovered, Coming, IsComing
<1> QED BY <1>8, <1>9

-----------------------------------------------------------------------------
(* What a local cursor needs *)

\* An event is seen by cursors; a frame of its runtime, as new as it, comes before it is needed.
SeenAt(cursors, x) ==
  x.epoch = cursors[x.runtime].epoch /\ x.sequence <= cursors[x.runtime].sequence
HadOf(frames, taken, x, upto) ==
  \E i \in (taken + 1)..upto : frames[i].runtime = x.runtime /\ x.sequence <= frames[i].sequence
ActiveSeen ==
  \A x \in Known : x.runtime = activeRuntimes[Session] =>
    /\ Placed => SeenAt(sequences, x)
    /\ current # NoSocket =>
         /\ \A m \in Marks :
              SeenAt(sequences, x) \/ HadOf(outgoing[current][Session], received[current], x, m)
         /\ current \in subscribers =>
              \/ SeenAt(sequences, x)
              \/ HadOf(outgoing[current][Session], received[current], x,
                       Len(outgoing[current][Session]))

\* The runtime that runs is the one that ran, or one of which nothing was published.
Unpublished(r) == \A f \in ToSet(published) : f.runtime # r
ActiveStays ==
  activeRuntimes'[Session] = activeRuntimes[Session] \/ Unpublished(activeRuntimes'[Session])

\* What the page may attach to after the step, it might have attached to before.
Reattaches == \A r \in Runtimes : Attachable(r, 1)' => Attachable(r, 1) \/ Unpublished(r)

\* What the invariant says of a local cursor.
LEMMA LocalNow ==
  ASSUME WebIInv
  PROVE  /\ FramesAreNewer /\ ActiveSeen /\ AnswersTell /\ BufferIsNewer
         /\ Known \subseteq ToSet(published) /\ published \in Seq(Event) /\ RunsAreWhole
         /\ \A r \in Runtimes : \A e \in ToSet(pendingEvents[r]) : e.runtime = r /\ e \in Known
         /\ InCopies \subseteq Known /\ NoRuntime \notin Runtimes
<1>1. FramesAreNewer /\ ActiveIsSeen /\ AnswersTell /\ BufferIsNewer
  BY DEF WebIInv, LocalTurns
<1>2. ActiveSeen
  BY <1>1 DEF ActiveIsSeen, ActiveSeen, SeenOnceHad, Seen, SeenAt, HadOf
<1>3. ASSUME NEW r \in Runtimes, NEW e \in ToSet(pendingEvents[r])
      PROVE  e.runtime = r /\ e \in Known
  <2>1. /\ pendingEvents[r] \in Seq(Event)
        /\ \A i \in 1..Len(pendingEvents[r]) : pendingEvents[r][i].runtime = r
    BY CopiesNow
  <2>2. DOMAIN pendingEvents[r] = 1..Len(pendingEvents[r])
    BY <2>1, LenProperties
  <2> QED BY <2>1, <2>2 DEF ToSet, Known
<1>4. InCopies \subseteq Known
  BY DEF InCopies, Known
<1> QED BY <1>1, <1>2, <1>3, <1>4, CopiesNow, NoRuntimeAssumption

\* That is what it has to keep.
LEMMA LocalLater ==
  ASSUME FramesAreNewer', ActiveSeen', AnswersTell', BufferIsNewer'
  PROVE  LocalTurns'
<1>1. ActiveIsSeen'
  BY DEF ActiveIsSeen, ActiveSeen, SeenOnceHad, Seen, SeenAt, HadOf
<1> QED BY <1>1 DEF LocalTurns

\* The page is placed by an answer only.
LEMMA PlacedStep ==
  ASSUME WebIInv, [WebNext]_webVars
  PROVE  (Placed' => Placed) \/ \E c \in Connections : ResponseMessage(c)
<1>1. CASE RestNext
  BY <1>1, RestLeaves DEF Placed
<1>2. ASSUME NEW failed \in SUBSET pending, Rejected(failed) PROVE Placed' => Placed
  <2>1. CASE \E request \in failed : request.kind \in {"start", "prompt"}
    <3>1. PICK request \in pending : request.kind \in {"start", "prompt"}
      BY <2>1
    <3>2. prompting = "asked"
      BY <3>1, AwaitedNow DEF Awaited, OneTurn
    <3> QED BY <3>2 DEF Placed
  <2>2. CASE ~ \E request \in failed : request.kind \in {"start", "prompt"}
    <3>1. page' = page /\ prompting' \in {prompting, "no"} /\ (heldLocal' => heldLocal)
      BY <1>2, <2>2 DEF Rejected
    <3> QED BY <3>1 DEF Placed
  <2> QED BY <2>1, <2>2
<1>3. ASSUME MarkDisconnected PROVE Placed' => Placed
  BY <1>2, <1>3 DEF MarkDisconnected, Placed
<1>4. CASE MoveNext
  <2>1. ASSUME NEW c \in Connections, SocketCloses(c) PROVE Placed' => Placed
    <3>1. MarkDisconnected \/ UNCHANGED <<page, prompting, heldLocal>>
      BY <2>1 DEF SocketCloses
    <3> QED BY <1>3, <3>1 DEF Placed
  <2>2. ASSUME NEW request \in pending, TimeOut(request) PROVE Placed' => Placed
    <3>1. Rejected({request}) /\ {request} \in SUBSET pending
      BY <2>2 DEF TimeOut
    <3> QED BY <1>2, <3>1
  <2>3. ASSUME Disconnect PROVE Placed' => Placed
    BY <1>3, <2>3 DEF Disconnect
  <2>4. ASSUME SendPrompt PROVE Placed' => Placed
    BY <2>4 DEF SendPrompt, Placed
  <2>5. ASSUME \/ PreparationFails \/ PromptStarted
               \/ \E projection \in Projections(held) : PromptRuntime(projection)
        PROVE  Placed
    BY <2>5 DEF PreparationFails, PromptStarted, PromptRuntime, Prepared, Placed
  <2>6. ASSUME PersistProjection PROVE Placed' => Placed
    BY <2>6 DEF PersistProjection, Placed
  <2>7. ASSUME RefetchSession PROVE Placed' => Placed
    <3>1. page'.entry = page.entry /\ page'.local = FALSE /\ UNCHANGED <<prompting, heldLocal>>
      BY <2>7, CopiesNow DEF RefetchSession, Pages
    <3> QED BY <3>1 DEF Placed
  <2> QED BY <1>4, <2>1, <2>2, <2>3, <2>4, <2>5, <2>6, <2>7 DEF MoveNext
<1>5. ASSUME NEW c \in Connections, EventMessage(c) PROVE Placed' => Placed
  <2>1. PICK e : e = outgoing[c][Session][received[c] + 1]
    OBVIOUS
  <2> QED BY <1>5, <2>1, EventPage
<1>6. ASSUME NEW projection, NEW r \in Runtimes, StartRuntime(r, projection) PROVE Placed
  BY <1>6 DEF StartRuntime, Prepared, Placed
<1> QED BY <1>1, <1>4, <1>5, <1>6, ReloadPage, WebSteps

\* The copies get no event but by what is heard.
LEMMA MoveStep ==
  ASSUME WebIInv, [WebNext]_webVars
  PROVE  \/ CopiesMove /\ Known' \subseteq Known
         \/ Reload \/ \E c \in Connections : EventMessage(c) \/ ResponseMessage(c)
<1>1. ASSUME RestNext \/ MoveNext PROVE CopiesMove
  BY <1>1, RestRecaches, MoveRecaches, RecachedKeeps
<1>2. ASSUME NEW projection \in Projections(held), NEW r \in Runtimes, StartRuntime(r, projection)
      PROVE  CopiesMove
  BY <1>2, StartPage
<1>3. Known' \subseteq Known \/ \E c \in Connections : EventMessage(c)
  BY PageStep DEF CopiesGain
<1> QED BY <1>1, <1>2, <1>3, WebSteps

\* What is kept for a listener stays newer than copies that get nothing new.
LEMMA BufferMoves ==
  ASSUME WebIInv, CopiesMove, Placed' => Placed, Reattaches
  PROVE  BufferIsNewer'
<1> SUFFICES ASSUME Placed', NEW r \in Runtimes, Attachable(r, 1)',
                    NEW x \in InCopies', NEW e \in ToSet(pendingEvents'[r])
             PROVE  Newer(x, e)
  BY DEF BufferIsNewer
<1>1. e \in ToSet(pendingEvents[r]) /\ x \in InCopies /\ Placed
  BY DEF CopiesMove
<1>2. e \in ToSet(published) /\ e.runtime = r
  BY <1>1, LocalNow
<1>3. Attachable(r, 1)
  BY <1>2 DEF Reattaches, Unpublished
<1> QED BY <1>1, <1>3, LocalNow DEF BufferIsNewer

\* No socket is there.
LEMMA LocalNoSocket ==
  ASSUME WebIInv, current' = NoSocket, CopiesMove, Known' \subseteq Known, Placed' => Placed,
         UNCHANGED <<published, sequences>>, ActiveStays
  PROVE  LocalTurns'
<1>1. FramesAreNewer' /\ AnswersTell'
  BY DEF FramesAreNewer, AnswersTell
<1>2. ActiveSeen'
  <2>1. \A x \in Known' : x.runtime = activeRuntimes'[Session] =>
          x \in Known /\ x.runtime = activeRuntimes[Session]
    BY LocalNow DEF ActiveStays, Unpublished
  <2>2. \A x \in Known' : x.runtime = activeRuntimes'[Session] => (Placed' => SeenAt(sequences', x))
    BY <2>1, LocalNow DEF ActiveSeen
  <2> QED BY <2>2 DEF ActiveSeen
<1>3. Reattaches
  BY DEF Reattaches, Attachable, ActiveStays
<1>4. BufferIsNewer'
  BY <1>3, BufferMoves
<1> QED BY <1>1, <1>2, <1>4, LocalLater

\* A new page is not placed.
LEMMA LocalReloaded ==
  ASSUME WebIInv, Reload
  PROVE  LocalTurns'
<1>1. current' = NoSocket /\ ~ Placed'
  BY ReloadPage
<1>2. FramesAreNewer' /\ AnswersTell' /\ BufferIsNewer' /\ ActiveSeen'
  BY <1>1 DEF FramesAreNewer, AnswersTell, BufferIsNewer, ActiveSeen
<1> QED BY <1>2, LocalLater

-----------------------------------------------------------------------------
(* ... while the present socket hears and is sent nothing *)

\* The present socket hears and is sent nothing.
Rests ==
  /\ current # NoSocket /\ current' = current /\ UNCHANGED <<published, sequences>>
  /\ received'[current] = received[current]
  /\ outgoing'[current][Session] = outgoing[current][Session]
  /\ current \in subscribers' => current \in subscribers
  /\ ActiveStays

\* Answers that wait on it are the ones that did, but for the first, or one more was added.
Shifted(s) ==
  \A k \in 1..Len(answers'[current]) :
    k + s \in 1..Len(answers[current]) /\ answers'[current][k] = answers[current][k + s]
Added(a) ==
  /\ current \in subscribers
  /\ a.at = Len(outgoing[current][Session])
  /\ a.runtime \in {activeRuntimes[Session], NoRuntime}
  /\ answers'[current] = Append(answers[current], a)
  /\ \A r \in Runtimes : r = activeRuntimes'[Session] /\ r # a.runtime => Unpublished(r)

\* Places where the frames have to be newer are the old ones, or the end.
OldMarks ==
  \A m \in Marks' : m \in Marks \/ (m = Len(outgoing[current][Session]) /\ current \in subscribers)

\* The frames on the way, and what is held of the active runtime.
LEMMA LocalRests ==
  ASSUME WebIInv, Rests, Known' \subseteq Known, OldMarks
  PROVE  FramesAreNewer' /\ ActiveSeen'
<1>0. current \in Connections /\ current # NoSocket /\ current' = current
  BY GapsNow DEF Rests
<1> DEFINE frames == outgoing[current][Session]
           taken == received[current]
<1>1. /\ outgoing'[current'][Session] = frames /\ received'[current'] = taken
      /\ sequences' = sequences /\ (current' \in subscribers' => current \in subscribers)
  BY <1>0 DEF Rests
<1>2. Len(frames) \in Nat /\ taken \in Nat
  BY <1>0, WaysNow DEF Ways
<1>3. \A m \in Marks, x \in Known : \A i \in (m + 1)..Len(frames) : Newer(x, frames[i])
  BY <1>0, LocalNow DEF FramesAreNewer
<1>4. \A x \in Known : x.runtime = activeRuntimes[Session] =>
        /\ \A m \in Marks : SeenAt(sequences, x) \/ HadOf(frames, taken, x, m)
        /\ current \in subscribers => SeenAt(sequences, x) \/ HadOf(frames, taken, x, Len(frames))
  BY <1>0, LocalNow DEF ActiveSeen
<1>5. \A m \in Marks' : m \in Marks \/ (m = Len(frames) /\ current \in subscribers)
  BY DEF OldMarks
<1>6. Placed' => taken \in Marks'
  BY <1>1 DEF Marks
<1>7. \A x \in Known' : /\ x \in Known
                        /\ x.runtime = activeRuntimes'[Session] => x.runtime = activeRuntimes[Session]
  BY LocalNow DEF Rests, ActiveStays, Unpublished
<1> HIDE DEF frames, taken
<1>8. \A m \in Marks', x \in Known' : \A i \in (m + 1)..Len(frames) : Newer(x, frames[i])
  <2> SUFFICES ASSUME NEW m \in Marks', NEW x \in Known', NEW i \in (m + 1)..Len(frames)
               PROVE  Newer(x, frames[i])
    OBVIOUS
  <2>1. CASE m \in Marks
    BY <1>3, <1>7, <2>1
  <2>2. CASE m = Len(frames)
    <3>1. (Len(frames) + 1)..Len(frames) = {}
      BY <1>2
    <3> QED BY <2>2, <3>1
  <2> QED BY <1>5, <2>1, <2>2
<1>9. FramesAreNewer'
  BY <1>1, <1>8 DEF FramesAreNewer
<1>10. ASSUME NEW x \in Known', x.runtime = activeRuntimes'[Session]
       PROVE  /\ Placed' => SeenAt(sequences, x)
              /\ \A m \in Marks' : SeenAt(sequences, x) \/ HadOf(frames, taken, x, m)
              /\ current \in subscribers =>
                   SeenAt(sequences, x) \/ HadOf(frames, taken, x, Len(frames))
  <2>1. x \in Known /\ x.runtime = activeRuntimes[Session]
    BY <1>7, <1>10
  <2>2. \A m \in Marks' : SeenAt(sequences, x) \/ HadOf(frames, taken, x, m)
    BY <1>4, <1>5, <2>1
  <2>3. ~ HadOf(frames, taken, x, taken)
    <3>1. (taken + 1)..taken = {}
      BY <1>2
    <3> QED BY <3>1 DEF HadOf
  <2> QED BY <1>4, <1>6, <2>1, <2>2, <2>3
<1>11. ActiveSeen'
  BY <1>1, <1>10 DEF ActiveSeen
<1> QED BY <1>9, <1>11

\* The frames before an answer were published.
LEMMA FramesAnswered ==
  ASSUME WebIInv, current \in Connections, NEW k \in 1..Len(answers[current]),
         NEW i \in 1..answers[current][k].at
  PROVE  outgoing[current][Session][i] \in ToSet(published)
<1>1. /\ answers[current][k].at <= Len(outgoing[current][Session])
      /\ Len(outgoing[current][Session]) \in Nat
  BY WaysNow DEF Ways, WayOf
<1>2. answers[current][k] \in Answers
  BY ElementOfSeq DEF WebIInv, OnTheWay
<1>3. i \in 1..Len(outgoing[current][Session])
  BY <1>1, <1>2 DEF Answers
<1> QED BY <1>3 DEF WebIInv, HubFollows, FramesInOrder

\* The answers that wait, when the first are gone.
LEMMA LocalShifted ==
  ASSUME WebIInv, Rests, Known' \subseteq Known, NEW s \in Nat, Shifted(s)
  PROVE  AnswersTell' /\ Reattaches
<1>0. current \in Connections /\ current # NoSocket /\ current' = current
  BY GapsNow DEF Rests
<1>1. Len(answers[current]) \in Nat
  BY <1>0, WaysNow
<1>2. ASSUME NEW r \in Runtimes, NEW k \in Nat \ {0}, Attachable(r, k)'
      PROVE  Unpublished(r) \/ (Attachable(r, k + s) /\ Attachable(r, 1))
  <2>1. CASE r = activeRuntimes'[Session]
    BY <2>1 DEF Rests, ActiveStays, Attachable
  <2>2. ASSUME NEW j \in k..Len(answers'[current]), r = answers'[current][j].runtime
        PROVE  Attachable(r, k + s) /\ Attachable(r, 1)
    <3>1. j \in 1..Len(answers'[current])
      BY <1>0, <2>2
    <3>2. j + s \in 1..Len(answers[current]) /\ r = answers[current][j + s].runtime
      BY <2>2, <3>1 DEF Shifted
    <3>3. j + s \in (k + s)..Len(answers[current])
      BY <1>1, <3>1, <3>2
    <3> QED BY <1>0, <3>2, <3>3 DEF Attachable
  <2> QED BY <1>0, <1>2, <2>1, <2>2 DEF Attachable
<1>3. Reattaches
  BY <1>2 DEF Reattaches
<1>4. AnswersTell'
  <2> SUFFICES ASSUME NEW k \in 1..Len(answers'[current]), NEW r \in Runtimes, Attachable(r, k)',
                      r # answers'[current][k].runtime
               PROVE  /\ \A x \in Known' : x.runtime # r
                      /\ \A i \in 1..answers'[current][k].at : outgoing'[current][Session][i].runtime # r
    BY <1>0 DEF AnswersTell
  <2>1. /\ k + s \in 1..Len(answers[current]) /\ answers'[current][k] = answers[current][k + s]
        /\ k \in Nat \ {0} /\ outgoing'[current][Session] = outgoing[current][Session]
    BY DEF Shifted, Rests
  <2>2. CASE Unpublished(r)
    <3>1. \A x \in Known' : x.runtime # r
      BY <2>2, LocalNow DEF Unpublished
    <3>2. \A i \in 1..answers[current][k + s].at : outgoing[current][Session][i].runtime # r
      BY <1>0, <2>1, <2>2, FramesAnswered DEF Unpublished
    <3> QED BY <2>1, <3>1, <3>2
  <2>3. CASE Attachable(r, k + s)
    <3>1. /\ \A x \in Known : x.runtime # r
          /\ \A i \in 1..answers[current][k + s].at : outgoing[current][Session][i].runtime # r
      BY <1>0, <2>1, <2>3, LocalNow DEF AnswersTell
    <3> QED BY <2>1, <3>1
  <2> QED BY <1>2, <2>1, <2>2, <2>3
<1> QED BY <1>3, <1>4

\* ... and when one was added.
LEMMA LocalAdded ==
  ASSUME WebIInv, Rests, Known' \subseteq Known, NEW a \in Answers, Added(a)
  PROVE  AnswersTell' /\ Reattaches
<1>0. current \in Connections /\ current # NoSocket /\ current' = current
  BY GapsNow DEF Rests
<1> DEFINE old == answers[current]
           new == answers'[current]
<1>1. /\ Len(old) \in Nat /\ Len(new) = Len(old) + 1 /\ new[Len(old) + 1] = a
      /\ \A k \in 1..Len(old) : new[k] = old[k]
  <2>1. old \in Seq(Answers)
    BY <1>0 DEF WebIInv, OnTheWay
  <2> QED BY <2>1, AppendFacts DEF Added
<1> HIDE DEF old, new
<1>2. ASSUME NEW r \in Runtimes, NEW k \in Nat \ {0}, Attachable(r, k)'
      PROVE  Unpublished(r) \/ (Attachable(r, k) /\ Attachable(r, 1))
  <2>1. CASE r = activeRuntimes'[Session]
    BY <2>1 DEF Rests, ActiveStays, Attachable
  <2>2. ASSUME NEW j \in k..Len(new), r = new[j].runtime
        PROVE  Attachable(r, k) /\ Attachable(r, 1)
    <3>1. CASE j \in 1..Len(old)
      <4>1. j \in k..Len(old) /\ j \in 1..Len(old) /\ r = old[j].runtime
        BY <1>1, <2>2, <3>1
      <4> QED BY <1>0, <4>1 DEF Attachable, old
    <3>2. CASE j = Len(old) + 1
      <4>1. r \in {activeRuntimes[Session], NoRuntime}
        BY <1>1, <2>2, <3>2 DEF Added
      <4> QED BY <4>1, LocalNow DEF Attachable
    <3>3. j \in 1..Len(old) \/ j = Len(old) + 1
      BY <1>1, <2>2
    <3> QED BY <3>1, <3>2, <3>3
  <2> QED BY <1>0, <1>2, <2>1, <2>2 DEF Attachable, new
<1>3. Reattaches
  BY <1>2 DEF Reattaches
<1>4. AnswersTell'
  <2> SUFFICES ASSUME NEW k \in 1..Len(new), NEW r \in Runtimes, Attachable(r, k)',
                      r # new[k].runtime
               PROVE  /\ \A x \in Known' : x.runtime # r
                      /\ \A i \in 1..new[k].at : outgoing'[current][Session][i].runtime # r
    BY <1>0 DEF AnswersTell, new
  <2>1. /\ k \in Nat \ {0} /\ outgoing'[current][Session] = outgoing[current][Session]
        /\ k \in 1..Len(old) \/ k = Len(old) + 1
    BY <1>1 DEF Rests
  <2>2. \A i \in 1..new[k].at : outgoing[current][Session][i] \in ToSet(published)
    <3>1. CASE k \in 1..Len(old)
      BY <1>0, <1>1, <3>1, FramesAnswered DEF old
    <3>2. CASE k = Len(old) + 1
      BY <1>0, <1>1, <3>2 DEF Added, WebIInv, HubFollows, FramesInOrder
    <3> QED BY <2>1, <3>1, <3>2
  <2>3. CASE Unpublished(r)
    BY <2>1, <2>2, <2>3, LocalNow DEF Unpublished
  <2>4. CASE k \in 1..Len(old) /\ Attachable(r, k)
    <3>1. /\ \A x \in Known : x.runtime # r
          /\ \A i \in 1..old[k].at : outgoing[current][Session][i].runtime # r
      BY <1>0, <1>1, <2>4, LocalNow DEF AnswersTell, old
    <3> QED BY <1>1, <2>1, <2>4, <3>1
  <2>5. CASE k = Len(old) + 1
    <3>1. \A j \in k..Len(new) : j = k
      BY <1>1, <2>5
    <3>2. r = activeRuntimes'[Session]
      BY <1>0, <3>1 DEF Attachable, new
    <3>3. Unpublished(r)
      BY <1>1, <2>5, <3>2 DEF Added
    <3> QED BY <2>3, <3>3
  <2> QED BY <1>2, <2>1, <2>3, <2>4, <2>5
<1> QED BY <1>3, <1>4

\* The marks of the answers that wait.
LEMMA MarksShifted ==
  ASSUME WebIInv, Rests, NEW s \in Nat, Shifted(s),
         Placed' => Placed \/ received[current] \in Marks
  PROVE  OldMarks
<1>1. current' = current /\ received'[current] = received[current]
  BY DEF Rests
<1>2. ASSUME NEW k \in 1..Len(answers'[current]) PROVE answers'[current][k].at \in Marks
  BY <1>2 DEF Shifted, Marks
<1>3. Placed' => received'[current'] \in Marks
  BY <1>1 DEF Marks
<1> QED BY <1>1, <1>2, <1>3 DEF OldMarks, Marks

LEMMA MarksAdded ==
  ASSUME WebIInv, Rests, NEW a \in Answers, Added(a), Placed' => Placed
  PROVE  OldMarks
<1>1. current' = current /\ received'[current] = received[current] /\ current \in Connections
  BY GapsNow DEF Rests
<1>2. /\ Len(answers[current]) \in Nat /\ Len(answers'[current]) = Len(answers[current]) + 1
      /\ answers'[current][Len(answers[current]) + 1] = a
      /\ \A k \in 1..Len(answers[current]) : answers'[current][k] = answers[current][k]
  <2>1. answers[current] \in Seq(Answers)
    BY <1>1 DEF WebIInv, OnTheWay
  <2> QED BY <2>1, AppendFacts DEF Added
<1>3. ASSUME NEW k \in 1..Len(answers'[current])
      PROVE  answers'[current][k].at \in Marks \/ answers'[current][k].at = Len(outgoing[current][Session])
  <2>1. k \in 1..Len(answers[current]) \/ k = Len(answers[current]) + 1
    BY <1>2
  <2> QED BY <1>2, <2>1 DEF Added, Marks
<1>4. Placed' => received'[current'] \in Marks
  BY <1>1 DEF Marks
<1>5. current \in subscribers
  BY DEF Added
<1> QED BY <1>1, <1>3, <1>4, <1>5 DEF OldMarks, Marks

\* The socket rests.
LEMMA LocalKept ==
  ASSUME WebIInv, Rests, CopiesMove, Known' \subseteq Known, Placed' => Placed,
         (\E s \in Nat : Shifted(s)) \/ (\E a \in Answers : Added(a))
  PROVE  LocalTurns'
<1>1. OldMarks /\ AnswersTell' /\ Reattaches
  BY MarksShifted, MarksAdded, LocalShifted, LocalAdded
<1> QED BY <1>1, LocalRests, BufferMoves, LocalLater

\* A response is heard: the page may be placed, with what was kept of the runtime it names.
LEMMA LocalAnswered ==
  ASSUME WebIInv, NEW c \in Connections, ResponseMessage(c)
  PROVE  LocalTurns'
<1> DEFINE answer == Head(answers[c])
<1>1. /\ c = current /\ current # NoSocket /\ Len(answers[c]) \in Nat /\ 1 \in 1..Len(answers[c])
      /\ answer = answers[c][1] /\ answers[c][1].at = received[c] /\ answer \in Answers
      /\ answers' = [answers EXCEPT ![c] = Tail(answers[c])] /\ Attachable(answer.runtime, 1)
      /\ answers[c] \in Seq(Answers) /\ answers[c] # << >>
  BY NextAnswer
<1>2. /\ UNCHANGED <<hubVars, received, current, sequences, historyVars>>
  BY DEF ResponseMessage
<1>3. Known' \subseteq Known /\ AnswerPlaces(answer.runtime)
  BY ResponsePage DEF CopiesGain
<1>4. Rests
  BY <1>1, <1>2 DEF Rests, ActiveStays, hubVars, historyVars
<1>5. Shifted(1)
  <2>1. /\ Len(Tail(answers[c])) = Len(answers[c]) - 1
        /\ \A k \in 1..Len(Tail(answers[c])) : Tail(answers[c])[k] = answers[c][k + 1]
    BY <1>1, HeadTailProperties
  <2>2. answers'[c] = Tail(answers[c])
    BY <1>1 DEF WebIInv, OnTheWay
  <2>3. \A k \in 1..(Len(answers[c]) - 1) : k + 1 \in 1..Len(answers[c])
    BY <1>1
  <2> QED BY <1>1, <2>1, <2>2, <2>3 DEF Shifted
<1>6. received[current] \in Marks
  BY <1>1 DEF Marks
<1> HIDE DEF answer
<1>7. FramesAreNewer' /\ ActiveSeen' /\ AnswersTell' /\ Reattaches
  BY <1>3, <1>4, <1>5, <1>6, MarksShifted, LocalShifted, LocalRests
<1>8. BufferIsNewer'
  <2> SUFFICES ASSUME Placed', NEW r \in Runtimes, Attachable(r, 1)',
                      NEW x \in InCopies', NEW e \in ToSet(pendingEvents'[r])
               PROVE  Newer(x, e)
    BY DEF BufferIsNewer
  <2>1. ASSUME e \in ToSet(pendingEvents[r])
        PROVE  Attachable(r, 1) /\ e.runtime = r /\ e \in Known
    <3>1. e \in ToSet(published) /\ e.runtime = r /\ e \in Known
      BY <2>1, LocalNow
    <3> QED BY <1>7, <3>1 DEF Reattaches, Unpublished
  <2>2. ASSUME ~ Placed, r # answer.runtime, e \in ToSet(pendingEvents[r]) PROVE FALSE
    <3>1. 1 \in 1..Len(answers[current]) /\ answers[current][1].runtime = answer.runtime
      BY <1>1 DEF answer
    <3>2. \A y \in Known : y.runtime # r
      BY <1>1, <2>1, <2>2, <3>1, LocalNow DEF AnswersTell
    <3> QED BY <2>1, <2>2, <3>2
  <2>3. CASE CopiesMove /\ ((Placed' => Placed) \/ answer.runtime = NoRuntime)
    <3>1. e \in ToSet(pendingEvents[r]) /\ x \in InCopies
      BY <2>3 DEF CopiesMove
    <3>2. CASE Placed
      BY <2>1, <3>1, <3>2, LocalNow DEF BufferIsNewer
    <3>3. CASE ~ Placed
      <4>1. r # answer.runtime
        BY <2>3, <3>3, LocalNow
      <4> QED BY <2>2, <3>1, <3>3, <4>1
    <3> QED BY <3>2, <3>3
  <2>4. CASE answer.runtime \in Runtimes /\ HandedOver(answer.runtime)
    <3>1. r # answer.runtime
      BY <2>4, NothingInOrder DEF HandedOver
    <3>2. /\ e \in ToSet(pendingEvents[r])
          /\ x \in InCopies \/ x \in ToSet(pendingEvents[answer.runtime])
      BY <2>4, <3>1 DEF HandedOver
    <3>3. Placed
      BY <2>2, <3>1, <3>2
    <3>4. CASE x \in InCopies
      BY <2>1, <3>2, <3>3, <3>4, LocalNow DEF BufferIsNewer
    <3>5. CASE x \in ToSet(pendingEvents[answer.runtime])
      <4>1. x.runtime # e.runtime
        BY <2>1, <2>4, <3>1, <3>2, <3>5, LocalNow
      <4> QED BY <4>1 DEF Newer
    <3> QED BY <3>2, <3>4, <3>5
  <2> QED BY <1>3, <2>3, <2>4 DEF AnswerPlaces
<1> QED BY <1>7, <1>8, LocalLater

\* The present socket is made: nothing was sent on it yet, and no answer waits.
LEMMA LocalConnected ==
  ASSUME WebIInv, NEW c \in Connections, Connect(c), CopiesMove, Known' \subseteq Known,
         Placed' => Placed
  PROVE  LocalTurns'
<1>1. /\ current' = c /\ link[c] = "none" /\ c # NoSocket
      /\ UNCHANGED <<hubVars, received, answers, sequences, published>>
  BY WebSocketsAssumption DEF Connect, historyVars
<1>2. c \notin opened
  BY <1>1, SocketTypesNow DEF Sockets
<1>3. c \notin subscribers /\ outgoing[c][Session] = << >> /\ received[c] = 0 /\ answers[c] = << >>
  BY <1>2, SocketTypesNow DEF Sockets
<1>4. Len(outgoing[c][Session]) = 0 /\ Len(answers[c]) = 0
  BY <1>3
<1>5. UNCHANGED <<outgoing, subscribers, activeRuntimes>>
  BY <1>1 DEF hubVars
<1>6. \A m \in Marks' : m = 0 /\ Placed
  BY <1>1, <1>3, <1>4 DEF Marks
<1>7. FramesAreNewer'
  <2>1. \A m \in Marks' : (m + 1)..Len(outgoing'[current'][Session]) = {}
    BY <1>1, <1>4, <1>5, <1>6
  <2> QED BY <2>1 DEF FramesAreNewer
<1>8. ActiveSeen'
  BY <1>1, <1>3, <1>5, <1>6, LocalNow DEF ActiveSeen
<1>9. AnswersTell'
  BY <1>1, <1>4 DEF AnswersTell
<1>10. Reattaches
  BY <1>1, <1>4, <1>5 DEF Reattaches, Attachable
<1> QED BY <1>7, <1>8, <1>9, <1>10, BufferMoves, LocalLater

-----------------------------------------------------------------------------
(* ... and while it does *)

\* An event is published: it is newer than all that is held.
LEMMA LocalPublished ==
  ASSUME WebIInv, NEW r \in Runtimes, NEW payload \in Payloads, Publication(r, payload)
  PROVE  LocalTurns'
<1>1. PICK e \in Event :
        /\ e.runtime = r /\ activeRuntimes[Session] = r
        /\ UNCHANGED <<activeRuntimes, subscribers>>
        /\ \A f \in ToSet(published) : f.runtime = r => f.sequence < e.sequence
        /\ \A c \in Connections :
             outgoing'[c][Session] = IF c \in subscribers THEN Append(outgoing[c][Session], e)
                                                          ELSE outgoing[c][Session]
  BY PublishedIsNewest
<1>2. /\ UNCHANGED <<received, answers, current, sequences, page, pendingEvents, held, stored,
                     heldLocal, prompting>>
  BY DEF Publication, socketVars, clientVars, pageVars
<1>3. Known' = Known /\ InCopies' = InCopies /\ Marks' = Marks /\ (Placed' <=> Placed)
  BY <1>2 DEF Known, InCopies, Marks, Placed
<1>4. \A q, k : Attachable(q, k)' <=> Attachable(q, k)
  BY <1>1, <1>2 DEF Attachable
<1>5. BufferIsNewer'
  BY <1>2, <1>3, <1>4, LocalNow DEF BufferIsNewer
<1>6. CASE current = NoSocket
  <2>1. FramesAreNewer' /\ AnswersTell'
    BY <1>2, <1>6 DEF FramesAreNewer, AnswersTell
  <2>2. ActiveSeen'
    BY <1>1, <1>2, <1>3, <1>6, LocalNow DEF ActiveSeen
  <2> QED BY <1>5, <2>1, <2>2, LocalLater
<1>7. CASE current # NoSocket
  <2> DEFINE frames == outgoing[current][Session]
             taken == received[current]
             sent == outgoing'[current][Session]
  <2>0. current \in Connections
    BY <1>7, GapsNow
  <2>1. /\ Len(frames) \in Nat /\ frames \in Seq(Event) /\ taken \in Nat /\ taken <= Len(frames)
        /\ \A k \in 1..Len(answers[current]) : answers[current][k].at <= Len(frames)
        /\ \A k \in 1..Len(answers[current]) : answers[current][k].at \in Nat
    <3>1. answers[current] \in Seq(Answers)
      BY <2>0, WaysNow DEF Ways
    <3>2. ASSUME NEW k \in 1..Len(answers[current]) PROVE answers[current][k].at \in Nat
      <4>1. answers[current][k] \in Answers
        BY <3>1, ElementOfSeq
      <4> QED BY <4>1 DEF Answers
    <3>3. \A k \in 1..Len(answers[current]) : answers[current][k].at <= Len(frames)
      BY <2>0, WaysNow DEF Ways, WayOf
    <3>4. /\ Len(frames) \in Nat /\ frames \in Seq(Event) /\ taken \in Nat /\ taken <= Len(frames)
      BY <2>0, WaysNow DEF Ways, WayOf
    <3> QED BY <3>2, <3>3, <3>4
  <2>2. \A m \in Marks : m \in Nat /\ m <= Len(frames)
    BY <2>1 DEF Marks
  <2>3. sent = IF current \in subscribers THEN Append(frames, e) ELSE frames
    BY <1>1, <2>0
  <2>4. /\ \A i \in 1..Len(frames) : sent[i] = frames[i]
        /\ \A i \in 1..Len(sent) : i \in 1..Len(frames) \/ sent[i] = e
        /\ Len(sent) \in Nat /\ Len(frames) <= Len(sent)
    <3>1. CASE current \in subscribers
      <4>1. sent = Append(frames, e)
        BY <2>3, <3>1
      <4>2. /\ Len(sent) = Len(frames) + 1 /\ sent[Len(frames) + 1] = e
            /\ \A i \in 1..Len(frames) : sent[i] = frames[i]
            /\ \A i \in 1..Len(sent) : i \in 1..Len(frames) \/ i = Len(frames) + 1
        BY <2>1, <4>1, AppendFacts
      <4> HIDE DEF sent, frames
      <4> QED BY <2>1, <4>2
    <3>2. CASE current \notin subscribers
      BY <2>1, <2>3, <3>2
    <3> QED BY <3>1, <3>2
  <2> HIDE DEF frames, sent, taken
  <2>5. \A m \in Marks, x \in Known : \A i \in (m + 1)..Len(sent) : Newer(x, sent[i])
    <3> SUFFICES ASSUME NEW m \in Marks, NEW x \in Known, NEW i \in (m + 1)..Len(sent)
                 PROVE  Newer(x, sent[i])
      OBVIOUS
    <3>1. i \in 1..Len(sent)
      BY <2>2, <2>4
    <3>2. CASE i \in 1..Len(frames)
      <4>1. i \in (m + 1)..Len(frames)
        BY <2>1, <2>2, <3>2
      <4>2. Newer(x, frames[i])
        BY <1>7, <4>1, LocalNow DEF FramesAreNewer, frames
      <4> QED BY <2>4, <3>2, <4>2
    <3>3. CASE sent[i] = e
      BY <1>1, <3>3, LocalNow DEF Newer
    <3> QED BY <2>4, <3>1, <3>2, <3>3
  <2>6. FramesAreNewer'
    BY <1>2, <1>3, <2>5 DEF FramesAreNewer, sent
  <2>7. ASSUME NEW x, NEW m \in Nat, NEW n \in Nat, m <= Len(frames), m <= n, HadOf(frames, taken, x, m)
        PROVE  HadOf(sent, taken, x, n)
    <3>1. PICK i \in (taken + 1)..m : frames[i].runtime = x.runtime /\ x.sequence <= frames[i].sequence
      BY <2>7 DEF HadOf
    <3>2. i \in (taken + 1)..n /\ i \in 1..Len(frames)
      BY <2>1, <2>7
    <3> QED BY <2>4, <3>1, <3>2 DEF HadOf
  <2>8. ASSUME NEW x \in Known, x.runtime = activeRuntimes[Session]
        PROVE  /\ Placed => SeenAt(sequences, x)
               /\ \A m \in Marks : SeenAt(sequences, x) \/ HadOf(sent, taken, x, m)
               /\ current \in subscribers =>
                    SeenAt(sequences, x) \/ HadOf(sent, taken, x, Len(sent))
    <3>1. /\ Placed => SeenAt(sequences, x)
          /\ \A m \in Marks : SeenAt(sequences, x) \/ HadOf(frames, taken, x, m)
          /\ current \in subscribers =>
               SeenAt(sequences, x) \/ HadOf(frames, taken, x, Len(frames))
      BY <1>7, <2>8, LocalNow DEF ActiveSeen, frames, taken
    <3>2. \A m \in Marks : m \in Nat /\ m <= Len(frames) /\ m <= m
      BY <2>2
    <3>3. Len(frames) \in Nat /\ Len(sent) \in Nat /\ Len(frames) <= Len(frames) /\ Len(frames) <= Len(sent)
      BY <2>1, <2>4
    <3>4. \A m \in Marks : HadOf(frames, taken, x, m) => HadOf(sent, taken, x, m)
      BY <2>7, <3>2
    <3>5. HadOf(frames, taken, x, Len(frames)) => HadOf(sent, taken, x, Len(sent))
      BY <2>7, <3>3
    <3> QED BY <3>1, <3>4, <3>5
  <2>9. ActiveSeen'
    BY <1>1, <1>2, <1>3, <2>8 DEF ActiveSeen, sent, taken
  <2>10. AnswersTell'
    <3> SUFFICES ASSUME NEW k \in 1..Len(answers[current]), NEW q \in Runtimes, Attachable(q, k)',
                        q # answers[current][k].runtime
                 PROVE  /\ \A x \in Known : x.runtime # q
                        /\ \A i \in 1..answers[current][k].at : sent[i].runtime # q
      BY <1>2, <1>3 DEF AnswersTell, sent
    <3>1. /\ \A x \in Known : x.runtime # q
          /\ \A i \in 1..answers[current][k].at : frames[i].runtime # q
      BY <1>4, <1>7, LocalNow DEF AnswersTell, frames
    <3>2. \A i \in 1..answers[current][k].at : i \in 1..Len(frames)
      BY <2>1
    <3> QED BY <2>4, <3>1, <3>2
  <2> QED BY <1>5, <2>6, <2>9, <2>10, LocalLater
<1> QED BY <1>6, <1>7

\* An event is heard: the copies that gain it have nothing as new of its runtime, and it is seen.
LEMMA LocalHeard ==
  ASSUME WebIInv, NEW c \in Connections, EventMessage(c)
  PROVE  LocalTurns'
<1> DEFINE frames == outgoing[c][Session]
           taken == received[c]
<1>0. PICK e : e = frames[taken + 1]
  OBVIOUS
<1>1. /\ c = current /\ current # NoSocket /\ taken \in Nat /\ taken + 1 \in 1..Len(frames)
      /\ e \in ToSet(published) /\ e \in Event /\ \A x \in Known : Placed => Newer(x, e)
  BY <1>0, NextEvent
<1>2. /\ UNCHANGED <<current, outgoing, published, subscribers, activeRuntimes, answers>>
      /\ received'[c] = taken + 1
  BY WaysNow DEF EventMessage, hubVars, Ways
<1>3. /\ Len(frames) \in Nat /\ \A i \in 1..Len(frames) : frames[i] \in ToSet(published)
      /\ \A i, j \in 1..Len(frames) : i < j => Before(published, frames[i], frames[j])
  BY WaysNow DEF WebIInv, HubFollows, FramesInOrder
<1>4. /\ Known' \subseteq Known \cup {e} /\ (Placed' => Placed)
      /\ \/ CopiesMove
         \/ InCopies' \subseteq InCopies \cup {e} /\ UNCHANGED pendingEvents
              /\ pendingEvents[e.runtime] = << >>
         \/ /\ InCopies' = InCopies
            /\ \A r \in Runtimes :
                 ToSet(pendingEvents'[r]) \subseteq ToSet(pendingEvents[r]) \cup {e}
  <2>0. e = outgoing[c][Session][received[c] + 1]
    BY <1>0
  <2> HIDE DEF frames, taken
  <2>1. CopiesGain({e}) /\ (Placed' => Placed)
    BY <2>0, EventPage
  <2>2. \/ CopiesMove
        \/ InCopies' \subseteq InCopies \cup {e} /\ UNCHANGED pendingEvents
             /\ pendingEvents[e.runtime] = << >>
        \/ /\ InCopies' = InCopies
           /\ \A r \in Runtimes :
                ToSet(pendingEvents'[r]) \subseteq ToSet(pendingEvents[r]) \cup {e}
    BY <2>0, EventPage
  <2>3. Known' \subseteq Known \cup {e}
    BY <2>1 DEF CopiesGain
  <2> QED BY <2>1, <2>2, <2>3
<1>5. \/ ~ IsNews(e) /\ UNCHANGED sequences
      \/ /\ IsNews(e)
         /\ sequences' = [sequences EXCEPT ![e.runtime] = [epoch |-> e.epoch, sequence |-> e.sequence]]
  BY <1>0 DEF EventMessage
<1>6. \A q, k : Attachable(q, k)' <=> Attachable(q, k)
  BY <1>2 DEF Attachable
<1>7. \A k \in 1..Len(answers[c]) : answers[c][k].at \in Nat /\ taken + 1 <= answers[c][k].at
  <2>1. answers[c] \in Seq(Answers)
    BY WaysNow DEF Ways
  <2>2. ASSUME NEW k \in 1..Len(answers[c]) PROVE answers[c][k].at \in Nat
    <3>1. answers[c][k] \in Answers
      BY <2>1, ElementOfSeq
    <3> QED BY <3>1 DEF Answers
  <2>3. \A k \in 1..Len(answers[c]) : taken + 1 <= answers[c][k].at
    BY WaysHeard
  <2> QED BY <2>2, <2>3
<1>8. \A m \in Marks' : \/ m \in Marks /\ m \in Nat /\ m >= taken + 1
                        \/ m = taken + 1 /\ Placed'
  BY <1>1, <1>2, <1>7 DEF Marks
<1>9. Placed => taken \in Marks
  BY <1>1 DEF Marks
<1> HIDE DEF frames, taken
<1>10. ASSUME NEW m \in Marks', NEW x \in Known', NEW i \in (m + 1)..Len(frames)
       PROVE  Newer(x, frames[i])
  <2>1. i \in (taken + 2)..Len(frames) /\ i \in 1..Len(frames) /\ taken + 1 < i
    BY <1>1, <1>3, <1>8
  <2>2. CASE x = e
    <3>1. Before(published, e, frames[i]) /\ frames[i] \in ToSet(published)
      BY <1>0, <1>1, <1>3, <2>1
    <3> QED BY <1>1, <2>2, <3>1, LocalNow, BeforeByNumber DEF Newer
  <2>3. CASE x \in Known
    <3>1. PICK n \in Marks : i \in (n + 1)..Len(frames)
      <4>1. CASE m \in Marks
        BY <1>10, <4>1
      <4>2. CASE m = taken + 1 /\ Placed'
        <5>1. i \in (taken + 1)..Len(frames)
          BY <1>1, <1>3, <2>1
        <5> QED BY <1>4, <1>9, <4>2, <5>1
      <4> QED BY <1>8, <4>1, <4>2
    <3> QED BY <1>1, <2>3, <3>1, LocalNow DEF FramesAreNewer, frames
  <2> QED BY <1>4, <2>2, <2>3
<1>11. FramesAreNewer'
  BY <1>1, <1>2, <1>10 DEF FramesAreNewer, frames
<1>12. ASSUME NEW x \in ToSet(published), SeenAt(sequences, x)
              \/ (x.runtime = e.runtime /\ x.sequence <= e.sequence)
       PROVE  SeenAt(sequences', x)
  <2>0. /\ x.runtime \in Runtimes /\ e.runtime \in Runtimes /\ x.sequence \in Nat /\ e.sequence \in Nat
        /\ x.runtime = e.runtime => x.epoch = e.epoch
    BY <1>1, LocalNow, PublishedEvents, BeforeByNumber
  <2>1. /\ sequences[e.runtime].sequence \in Nat /\ sequences \in [Runtimes -> Cursor]
    BY <2>0, GapsNow DEF Cursor
  <2>2. CASE x.runtime # e.runtime
    <3>1. sequences'[x.runtime] = sequences[x.runtime]
      BY <1>5, <2>0, <2>1, <2>2
    <3> QED BY <1>12, <2>2, <3>1 DEF SeenAt
  <2>3. CASE x.runtime = e.runtime /\ ~ IsNews(e)
    <3>1. /\ sequences' = sequences /\ sequences[e.runtime].epoch = e.epoch
          /\ e.sequence <= sequences[e.runtime].sequence
      BY <1>5, <2>3 DEF IsNews
    <3> QED BY <1>12, <2>0, <2>1, <2>3, <3>1 DEF SeenAt
  <2>4. CASE x.runtime = e.runtime /\ IsNews(e)
    <3>1. sequences'[x.runtime] = [epoch |-> e.epoch, sequence |-> e.sequence]
      BY <1>5, <2>0, <2>1, <2>4
    <3>2. ~ (sequences[e.runtime].epoch = e.epoch /\ e.sequence <= sequences[e.runtime].sequence)
      BY <2>4 DEF IsNews
    <3>3. x.sequence <= e.sequence
      BY <1>12, <2>0, <2>1, <2>4, <3>2 DEF SeenAt
    <3> QED BY <2>0, <2>4, <3>1, <3>3 DEF SeenAt
  <2> QED BY <2>2, <2>3, <2>4
<1>13. ASSUME NEW x \in Known', x.runtime = activeRuntimes[Session]
       PROVE  /\ Placed' => SeenAt(sequences', x)
              /\ \A m \in Marks' : SeenAt(sequences', x) \/ HadOf(frames, taken + 1, x, m)
              /\ current \in subscribers =>
                   SeenAt(sequences', x) \/ HadOf(frames, taken + 1, x, Len(frames))
  <2>1. CASE x = e
    <3>1. e.sequence <= e.sequence
      BY <1>1 DEF Event
    <3> QED BY <1>1, <1>12, <2>1, <3>1
  <2>2. CASE x \in Known
    <3>0. x \in ToSet(published)
      BY <2>2, LocalNow
    <3>1. /\ Placed => SeenAt(sequences, x)
          /\ \A m \in Marks : SeenAt(sequences, x) \/ HadOf(frames, taken, x, m)
          /\ current \in subscribers =>
               SeenAt(sequences, x) \/ HadOf(frames, taken, x, Len(frames))
      BY <1>1, <1>13, <2>2, LocalNow DEF ActiveSeen, frames, taken
    <3>2. SeenAt(sequences, x) => SeenAt(sequences', x)
      BY <1>12, <3>0
    <3>3. ASSUME NEW n \in Nat, HadOf(frames, taken, x, n)
          PROVE  SeenAt(sequences', x) \/ HadOf(frames, taken + 1, x, n)
      <4>1. PICK i \in (taken + 1)..n :
              frames[i].runtime = x.runtime /\ x.sequence <= frames[i].sequence
        BY <3>3 DEF HadOf
      <4>2. CASE i = taken + 1
        BY <1>0, <1>12, <3>0, <4>1, <4>2
      <4>3. CASE i # taken + 1
        <5>1. i \in (taken + 1 + 1)..n
          BY <1>1, <4>3
        <5> QED BY <4>1, <5>1 DEF HadOf
      <4> QED BY <4>2, <4>3
    <3>4. Placed' => SeenAt(sequences', x)
      BY <1>4, <3>1, <3>2
    <3>5. ASSUME NEW m \in Marks'
          PROVE  SeenAt(sequences', x) \/ HadOf(frames, taken + 1, x, m)
      <4>1. CASE m \in Marks /\ m \in Nat
        BY <3>1, <3>2, <3>3, <4>1
      <4> QED BY <1>8, <3>4, <4>1
    <3>6. current \in subscribers =>
            SeenAt(sequences', x) \/ HadOf(frames, taken + 1, x, Len(frames))
      BY <1>3, <3>1, <3>2, <3>3
    <3> QED BY <3>4, <3>5, <3>6
  <2> QED BY <1>4, <2>1, <2>2
<1>14. ActiveSeen'
  BY <1>1, <1>2, <1>13 DEF ActiveSeen, frames
<1>15. AnswersTell'
  <2> SUFFICES ASSUME NEW k \in 1..Len(answers[c]), NEW r \in Runtimes, Attachable(r, k)',
                      r # answers[c][k].runtime
               PROVE  /\ \A x \in Known' : x.runtime # r
                      /\ \A i \in 1..answers[c][k].at : frames[i].runtime # r
    BY <1>1, <1>2 DEF AnswersTell, frames
  <2>1. /\ \A x \in Known : x.runtime # r
        /\ \A i \in 1..answers[c][k].at : frames[i].runtime # r
    BY <1>1, <1>6, LocalNow DEF AnswersTell, frames
  <2>2. taken + 1 \in 1..answers[c][k].at
    BY <1>1, <1>7
  <2> QED BY <1>0, <1>4, <2>1, <2>2
<1>16. BufferIsNewer'
  <2> SUFFICES ASSUME Placed', NEW r \in Runtimes, Attachable(r, 1)',
                      NEW x \in InCopies', NEW y \in ToSet(pendingEvents'[r])
               PROVE  Newer(x, y)
    BY DEF BufferIsNewer
  <2>1. Placed /\ Attachable(r, 1)
    BY <1>4, <1>6
  <2>2. \A z \in InCopies, w \in ToSet(pendingEvents[r]) : Newer(z, w)
    BY <2>1, LocalNow DEF BufferIsNewer
  <2>3. CASE CopiesMove
    BY <2>2, <2>3 DEF CopiesMove
  <2>4. CASE /\ InCopies' \subseteq InCopies \cup {e} /\ UNCHANGED pendingEvents
             /\ pendingEvents[e.runtime] = << >>
    <3>1. CASE x = e
      <4>1. r # e.runtime
        BY <2>4, NothingInOrder
      <4>2. y.runtime = r
        BY <2>4, LocalNow
      <4> QED BY <3>1, <4>1, <4>2 DEF Newer
    <3> QED BY <2>2, <2>4, <3>1
  <2>5. CASE /\ InCopies' = InCopies
             /\ \A q \in Runtimes : ToSet(pendingEvents'[q]) \subseteq ToSet(pendingEvents[q]) \cup {e}
    <3>1. CASE y = e
      BY <1>1, <2>1, <2>5, <3>1, LocalNow
    <3> QED BY <2>2, <2>5, <3>1
  <2> QED BY <1>4, <2>3, <2>4, <2>5
<1> QED BY <1>11, <1>14, <1>15, <1>16, LocalLater

\* The present socket subscribes: it is sent what is newer than all that is held of the runtime, or,
\* if the page has not attached, something as new.
LEMMA LocalSubscribed ==
  ASSUME WebIInv, current \in Connections, SubscribeConnection(current), CopiesMove,
         Known' \subseteq Known, Placed' => Placed
  PROVE  LocalTurns'
<1> DEFINE active == activeRuntimes[Session]
           frames == outgoing'[current][Session]
           point == ResumePoint(HelloCursors(current), Session, active)
<1>1. /\ Subscribe(current, HelloCursors(current)) /\ current \notin opened
      /\ accepted[current] = "answered" /\ current # NoSocket
      /\ UNCHANGED <<answers, received, published, current, sequences>>
  <2>1. Subscribe(current, HelloCursors(current)) /\ accepted[current] = "answered"
        /\ UNCHANGED <<answers, received, published, current, sequences>>
    BY DEF SubscribeConnection, clientVars
  <2> QED BY <2>1, WebSocketsAssumption DEF Subscribe
<1>2. /\ received[current] = 0 /\ resumeFrom[current] = sequences /\ Len(answers[current]) = 0
  <2>1. answers[current] = << >>
    BY <1>1, SocketTypesNow DEF Sockets
  <2> QED BY <1>1, <2>1, SocketTypesNow DEF Sockets
<1>3. /\ \A s \in Sessions, r \in Runtimes : HelloCursors(current)[s][r] \in Cursor
      /\ HelloCursors(current)[Session] = sequences
  BY <1>2, SocketTypesNow, CursorsTyped
<1>4. /\ HubFollows' /\ activeRuntimes' = activeRuntimes
      /\ \A i \in 1..Len(frames) : /\ frames[i] \in ToSet(published) /\ frames[i].runtime = active
      /\ \A i \in 1..Len(frames) : frames[i].sequence > point
      /\ \A f \in ToSet(published) :
           /\ f.runtime = active
           /\ f.sequence > ResumePoint(HelloCursors(current), Session, f.runtime)
           => \E i \in 1..Len(frames) : f.sequence <= frames[i].sequence
  BY <1>1, <1>3, GapsNow, SubscribeHub DEF Subscribe
<1>5. Len(frames) \in Nat
  <2>1. frames \in Seq(Event)
    BY <1>1, <1>4, GapsNow DEF HubFollows, HubTypeOK
  <2> QED BY <2>1, LenProperties
<1>6. point = IF sequences[active].epoch = epoch THEN sequences[active].sequence ELSE 0
  BY <1>3 DEF ResumePoint
<1>7. \A i \in 1..Len(frames) : frames[i].sequence \in Nat
  BY <1>4, GapsNow, PublishedEvents
<1> HIDE DEF frames, point
<1>8. ASSUME NEW x \in Known, x.runtime = active
      PROVE  /\ x.sequence \in Nat /\ point \in Nat
             /\ SeenAt(sequences, x) => x.sequence <= point
             /\ ~ SeenAt(sequences, x) => x.sequence > point
  <2>1. /\ x \in ToSet(published) /\ x.sequence \in Nat /\ x.sequence > 0 /\ x.runtime \in Runtimes
    BY LocalNow, PublishedEvents
  <2>2. x.epoch = epoch
    <3>1. PICK m \in 1..Len(published) : published[m] = x
      BY <2>1, GapsNow, PublishedPlaces
    <3> QED BY <1>8, <3>1, GapsNow DEF ActiveIsNewest
  <2>3. sequences[active].sequence \in Nat
    BY <1>8, <2>1, GapsNow DEF Cursor
  <2> QED BY <1>6, <1>8, <2>1, <2>2, <2>3 DEF SeenAt
<1>9. \A m \in Marks' : m = 0 /\ Placed
  BY <1>1, <1>2 DEF Marks
<1>10. ASSUME NEW x \in Known, NEW i \in 1..Len(frames), Placed
       PROVE  Newer(x, frames[i])
  <2>1. CASE x.runtime # active
    BY <1>4, <2>1 DEF Newer, frames
  <2>2. CASE x.runtime = active
    <3>1. SeenAt(sequences, x)
      BY <1>10, <2>2, LocalNow DEF ActiveSeen
    <3>2. x.sequence <= point /\ x.sequence \in Nat /\ point \in Nat
      BY <1>8, <2>2, <3>1
    <3>3. frames[i].sequence > point /\ frames[i].sequence \in Nat
      BY <1>4, <1>7 DEF frames, point
    <3> QED BY <3>2, <3>3 DEF Newer
  <2> QED BY <2>1, <2>2
<1>11. FramesAreNewer'
  <2> SUFFICES ASSUME NEW m \in Marks', NEW x \in Known', NEW i \in (m + 1)..Len(frames)
               PROVE  Newer(x, frames[i])
    BY <1>1 DEF FramesAreNewer, frames
  <2>1. i \in 1..Len(frames)
    BY <1>5, <1>9
  <2> QED BY <1>9, <1>10, <2>1
<1>12. ASSUME NEW x \in Known, x.runtime = active, ~ SeenAt(sequences, x)
       PROVE  HadOf(frames, 0, x, Len(frames))
  <2>1. x \in ToSet(published) /\ x.sequence > point
    BY <1>8, <1>12, LocalNow
  <2>2. PICK i \in 1..Len(frames) : x.sequence <= frames[i].sequence
    BY <1>4, <1>12, <2>1 DEF frames, point
  <2>3. i \in (0 + 1)..Len(frames) /\ frames[i].runtime = x.runtime
    BY <1>4, <1>12, <2>2 DEF frames
  <2> QED BY <2>2, <2>3 DEF HadOf
<1>13. ActiveSeen'
  <2> SUFFICES ASSUME NEW x \in Known', x.runtime = active
               PROVE  /\ Placed' => SeenAt(sequences, x)
                      /\ \A m \in Marks' : SeenAt(sequences, x) \/ HadOf(frames, 0, x, m)
                      /\ SeenAt(sequences, x) \/ HadOf(frames, 0, x, Len(frames))
    BY <1>1, <1>2, <1>4 DEF ActiveSeen, frames
  <2>1. x \in Known /\ (Placed => SeenAt(sequences, x))
    BY LocalNow DEF ActiveSeen
  <2> QED BY <1>9, <1>12, <2>1
<1>14. AnswersTell'
  BY <1>1, <1>2 DEF AnswersTell
<1>15. Reattaches
  BY <1>1, <1>2, <1>4 DEF Reattaches, Attachable
<1> QED BY <1>11, <1>13, <1>14, <1>15, BufferMoves, LocalLater

\* The answers that wait on the present socket, in other steps.
LEMMA AnswersStep ==
  ASSUME WebIInv, [WebNext]_webVars, Rests
  PROVE  \/ \E s \in Nat : Shifted(s)
         \/ \E a \in Answers : Added(a)
<1> USE DEF hubVars, socketVars, webVars
<1>0. current \in Connections /\ answers \in [Connections -> Seq(Answers)]
  BY GapsNow, WaysNow DEF Rests, Ways
<1>1. ASSUME answers'[current] = answers[current] PROVE Shifted(0)
  <2>1. \A k \in 1..Len(answers[current]) : k + 0 = k
    OBVIOUS
  <2> QED BY <1>1, <2>1 DEF Shifted
<1>2. ASSUME UNCHANGED answers PROVE Shifted(0)
  BY <1>1, <1>2
<1>3. ASSUME NEW c \in Connections, SocketCloses(c) PROVE Shifted(0)
  <2>1. CASE c = current
    <3>1. answers'[current] = << >>
      BY <1>0, <1>3, <2>1 DEF SocketCloses
    <3>2. Len(answers'[current]) = 0
      BY <3>1
    <3> QED BY <3>2 DEF Shifted
  <2>2. CASE c # current
    BY <1>0, <1>1, <1>3, <2>2 DEF SocketCloses
  <2> QED BY <2>1, <2>2
<1>4. ASSUME NEW c \in Connections, ResponseMessage(c) PROVE Shifted(1)
  <2>1. /\ c = current /\ Len(answers[c]) \in Nat /\ answers[c] \in Seq(Answers) /\ answers[c] # << >>
        /\ answers' = [answers EXCEPT ![c] = Tail(answers[c])]
    BY <1>4, NextAnswer
  <2>2. /\ Len(Tail(answers[c])) = Len(answers[c]) - 1
        /\ \A k \in 1..Len(Tail(answers[c])) : Tail(answers[c])[k] = answers[c][k + 1]
    BY <2>1, HeadTailProperties
  <2>3. answers'[c] = Tail(answers[c])
    BY <1>0, <2>1
  <2>4. \A k \in 1..(Len(answers[c]) - 1) : k + 1 \in 1..Len(answers[c])
    BY <2>1
  <2> QED BY <2>1, <2>2, <2>3, <2>4 DEF Shifted
<1>5. ASSUME NEW c \in Connections, NEW r \in {activeRuntimes[Session], NoRuntime}, Answered(c, r),
             \A q \in Runtimes : q = activeRuntimes'[Session] /\ q # r => Unpublished(q)
      PROVE  Shifted(0) \/ \E a \in Answers : Added(a)
  <2>1. CASE UNCHANGED answers
    BY <1>2, <2>1
  <2>2. ASSUME NEW a \in Answers, c \in subscribers, a.at = Len(outgoing[c][Session]),
               a.runtime = r, answers' = [answers EXCEPT ![c] = Append(@, a)]
        PROVE  Shifted(0) \/ Added(a)
    <3>1. CASE c = current
      BY <1>0, <1>5, <2>2, <3>1 DEF Added
    <3>2. CASE c # current
      BY <1>0, <1>1, <2>2, <3>2
    <3> QED BY <3>1, <3>2
  <2> QED BY <1>5, <2>1, <2>2 DEF Answered
<1>6. ASSUME NEW c \in Connections, HandleRequest(c)
      PROVE  Shifted(0) \/ \E a \in Answers : Added(a)
  <2>1. Answered(c, activeRuntimes[Session])
    BY <1>6, RequestHandled
  <2>2. \A q \in Runtimes : q = activeRuntimes'[Session] /\ q # activeRuntimes[Session] => Unpublished(q)
    BY DEF Rests, ActiveStays
  <2> QED BY <1>5, <2>1, <2>2
<1>7. ASSUME NEW c \in Connections, StartFails(c)
      PROVE  Shifted(0) \/ \E a \in Answers : Added(a)
  <2>1. Answered(c, NoRuntime) /\ activeRuntimes'[Session] = NoRuntime
    <3>1. activeRuntimes' = [activeRuntimes EXCEPT ![Session] = NoRuntime]
      BY <1>7 DEF StartFails
    <3> QED BY <1>7, <3>1, FailureAnswered, GapsNow DEF HubTypeOK
  <2>2. \A q \in Runtimes : q # NoRuntime
    BY LocalNow
  <2> QED BY <1>5, <2>1, <2>2
<1>8. ASSUME NEW c \in Connections,
             \/ Connect(c) \/ Opened(c) \/ HandshakeMessage(c) \/ EventMessage(c) \/ SocketErrors(c)
             \/ ConnectionEnds(c) \/ AnswerHello(c) \/ SubscribeConnection(c)
      PROVE  UNCHANGED answers
  <2>1. CASE Connect(c) \/ Opened(c) \/ SocketErrors(c)
    BY <2>1 DEF Connect, Opened, SocketErrors
  <2>3. CASE HandshakeMessage(c)
    BY <2>3 DEF HandshakeMessage
  <2>4. CASE EventMessage(c)
    BY <2>4 DEF EventMessage
  <2>2. CASE ConnectionEnds(c) \/ AnswerHello(c) \/ SubscribeConnection(c)
    BY <2>2 DEF ConnectionEnds, AnswerHello, SubscribeConnection
  <2> QED BY <1>8, <2>1, <2>2, <2>3, <2>4
<1>9. ASSUME \/ \E request \in pending : TimeOut(request)
             \/ Disconnect \/ Reload \/ UNCHANGED webVars
             \/ PageNext \/ ClosedElsewhere \/ DaemonRestart
             \/ \E r \in Runtimes :
                  StartedElsewhere(r) \/ \E payload \in Payloads : Publication(r, payload)
      PROVE  UNCHANGED answers
  <2>1. CASE (\E request \in pending : TimeOut(request)) \/ Disconnect \/ Reload \/ UNCHANGED webVars
    BY <2>1 DEF TimeOut, Disconnect, Reload
  <2>2. CASE PageNext
    BY <2>2 DEF PageNext, AttachSession, SendPrompt, PreparationFails, PromptStarted, CloseSession,
                PersistProjection, RefetchSession, PromptRuntime, StartRuntime
  <2>3. CASE ClosedElsewhere \/ DaemonRestart
    BY <2>3 DEF ClosedElsewhere, DaemonRestart
  <2>4. ASSUME NEW r \in Runtimes,
               StartedElsewhere(r) \/ \E payload \in Payloads : Publication(r, payload)
        PROVE  UNCHANGED answers
    BY <2>4 DEF StartedElsewhere, Publication
  <2> QED BY <1>9, <2>1, <2>2, <2>3, <2>4
<1> QED BY <1>2, <1>3, <1>4, <1>6, <1>7, <1>8, <1>9 DEF WebNext, ClientNext, DaemonNext

\* After every step, what a local cursor does not tell from a new event is not handed to the page.
LEMMA LocalTurnsStep ==
  ASSUME WebIInv, [WebNext]_webVars
  PROVE  LocalTurns'
<1>1. ASSUME NEW c \in Connections, ResponseMessage(c) \/ EventMessage(c) PROVE LocalTurns'
  BY <1>1, LocalAnswered, LocalHeard
<1>2. ASSUME Reload PROVE LocalTurns'
  BY <1>2, LocalReloaded
<1>3. ASSUME NEW r \in Runtimes, NEW payload \in Payloads, Publication(r, payload) PROVE LocalTurns'
  BY <1>3, LocalPublished
<1>4. ASSUME CopiesMove, Known' \subseteq Known, Placed' => Placed PROVE LocalTurns'
             \/ Reload \/ (\E c \in Connections : EventMessage(c))
             \/ \E r \in Runtimes, payload \in Payloads : Publication(r, payload)
  <2>1. ASSUME Still PROVE LocalTurns'
    <3>1. UNCHANGED <<published, outgoing, received, current, sequences>>
          /\ subscribers' \subseteq subscribers /\ ActiveStays
      BY <2>1 DEF Still, ActiveStays, Unpublished
    <3>2. CASE current = NoSocket
      BY <1>4, <3>1, <3>2, LocalNoSocket
    <3>3. CASE current # NoSocket
      <4>1. Rests
        BY <3>1, <3>3 DEF Rests
      <4> QED BY <1>4, <4>1, AnswersStep, LocalKept
    <3> QED BY <3>2, <3>3
  <2>2. ASSUME Disconnect PROVE LocalTurns'
    <3>1. current' = NoSocket /\ UNCHANGED <<published, sequences, activeRuntimes>>
      BY <2>2 DEF Disconnect, GiveUp, historyVars, hubVars
    <3> QED BY <1>4, <3>1, LocalNoSocket DEF ActiveStays
  <2>3. ASSUME NEW c \in Connections, Connect(c) PROVE LocalTurns'
    BY <1>4, <2>3, LocalConnected
  <2>4. ASSUME NEW c \in Connections, SubscribeConnection(c) PROVE LocalTurns'
    <3>1. /\ Subscribe(c, HelloCursors(c))
          /\ UNCHANGED <<received, published, current, sequences>>
      BY <2>4 DEF SubscribeConnection, clientVars
    <3>2. UNCHANGED activeRuntimes /\ subscribers' = subscribers \cup {c}
          /\ \A d \in Connections : d # c => outgoing'[d] = outgoing[d]
      BY <3>1, GapsNow DEF Subscribe, HubTypeOK
    <3>3. CASE current = NoSocket
      BY <1>4, <3>1, <3>2, <3>3, LocalNoSocket DEF ActiveStays
    <3>4. CASE c = current
      BY <1>4, <2>4, <3>4, LocalSubscribed
    <3>5. CASE current # NoSocket /\ c # current
      <4>1. current \in Connections
        BY <3>5, GapsNow
      <4>2. Rests
        BY <3>1, <3>2, <3>5, <4>1 DEF Rests, ActiveStays
      <4> QED BY <1>4, <4>2, AnswersStep, LocalKept
    <3> QED BY <3>3, <3>4, <3>5
  <2> QED BY <2>1, <2>2, <2>3, <2>4, StillSteps
<1> QED BY <1>1, <1>2, <1>3, <1>4, MoveStep, PlacedStep

-----------------------------------------------------------------------------
(* The client is correct *)

\* The types, after every step.
LEMMA TypesStep ==
  ASSUME WebIInv, [WebNext]_webVars
  PROVE  WebTypeOK'
<1>1. SocketTypes'
  BY SocketTypesStep
<1>2. Awaited'
  BY AwaitedStep
<1>3. /\ page' \in Pages /\ {held', stored'} \subseteq Seq(Event) /\ heldLocal' \in BOOLEAN
      /\ pendingEvents' \in [Runtimes -> Seq(Event)]
  BY PageStep, HeldLocalStep DEF CopiesGain
<1>4. published' \in Seq(Event)
  BY HubStep
<1>5. \A c \in Connections : resumeFrom'[c] \in [Runtimes -> Cursor]
  BY <1>1 DEF SocketTypes
<1>6. {sequences'} \cup {resumeFrom'[c] : c \in Connections} \subseteq [Runtimes -> Cursor]
  BY <1>1, <1>5 DEF SocketTypes
<1>7. /\ page'.entry \in Runtimes \cup {NoRuntime} /\ page'.listeners \in [Runtimes -> Nat]
      /\ page'.applied \in Seq(Event) /\ page'.local \in BOOLEAN
  BY <1>3 DEF Pages
<1> QED BY <1>1, <1>2, <1>3, <1>4, <1>6, <1>7 DEF WebTypeOK, SocketTypes, Awaited, Kinds

\* The invariant of the run, after every step.
LEMMA InvariantStep ==
  ASSUME WebIInv, [WebNext]_webVars
  PROVE  WebInvariant'
<1>1. WebTypeOK'
  BY TypesStep
<1>2. AppliedInOrder'
  <2>1. InOrder(published', page'.applied)
    BY CopiesStep DEF Copies
  <2> QED BY <2>1 DEF AppliedInOrder, InOrder, Before
<1>3. NothingSkipped'
  BY GapsStep
<1>4. EntryIsHeard'
  BY PageStep DEF CopiesGain, EntryIsHeard, Listens
<1>5. RequestsAreAwaited'
  BY AwaitedStep DEF Awaited
<1> QED BY <1>1, <1>2, <1>3, <1>4, <1>5 DEF WebInvariant

\* The inductive invariant holds at first.
LEMMA WebStarts ==
  ASSUME WebInit
  PROVE  WebIInv
<1> USE DEF WebInit
<1>0. /\ << >> \in Seq(Event) /\ Len(<< >>) = 0 /\ ToSet(<< >>) = {}
      /\ InOrder(published, << >>) /\ published = << >>
  BY NothingInOrder
<1>1. HubInit /\ Session \in Sessions /\ NoRuntime \notin Runtimes
  BY WebSessionAssumption, NoRuntimeAssumption
<1>2. /\ activeRuntimes[Session] = NoRuntime
      /\ \A c \in Connections : outgoing[c][Session] = << >>
      /\ \A r \in Runtimes : emitted[Session][r] = << >>
      /\ subscribers = {} /\ opened = {}
  BY <1>1 DEF HubInit
<1>3. HubTypeOK
  <2>1. /\ << >> \in Seq(Event) /\ << >> \in Seq(Runtimes)
    OBVIOUS
  <2> QED BY <1>1, <2>1 DEF HubInit, HubTypeOK
<1>4. HubFollows
  <2>1. RunsAreWhole /\ ActiveIsNewest
    BY <1>0 DEF RunsAreWhole, ActiveIsNewest
  <2>2. EmittedIsPublished
    BY <1>2, <1>0 DEF EmittedIsPublished
  <2>3. JournalIsKept
    BY <1>2 DEF JournalIsKept
  <2>4. FramesInOrder
    BY <1>2, <1>0 DEF FramesInOrder
  <2> QED BY <1>3, <2>1, <2>2, <2>3, <2>4 DEF HubFollows
<1>5. NoPage \in Pages /\ Listens(NoPage)
  BY <1>0 DEF NoPage, Pages, Listens
<1>6. WebInvariant
  <2>1. /\ page.entry = NoRuntime /\ page.listeners \in [Runtimes -> Nat] /\ page.applied = << >>
        /\ {page.local, heldLocal} \subseteq BOOLEAN
    BY DEF NoPage
  <2>2. NoCursor \in Cursor
    BY DEF NoCursor, Cursor
  <2>3. {sequences} \cup {resumeFrom[c] : c \in Connections} \subseteq [Runtimes -> Cursor]
    BY <2>2
  <2>4. /\ pendingEvents \in [Runtimes -> Seq(Event)]
        /\ {page.applied, stored, held, published} \subseteq Seq(Event)
    BY <1>0, <2>1
  <2>5. WebTypeOK
    BY <2>1, <2>3, <2>4 DEF WebTypeOK
  <2>6. AppliedInOrder
    BY <1>0, <2>1 DEF AppliedInOrder
  <2>7. NothingSkipped
    BY <1>0 DEF NothingSkipped
  <2>8. EntryIsHeard
    BY <2>1 DEF EntryIsHeard
  <2>9. RequestsAreAwaited
    BY DEF RequestsAreAwaited
  <2> QED BY <2>5, <2>6, <2>7, <2>8, <2>9 DEF WebInvariant
<1>7. StartsOnce
  <2>1. \A c \in Connections : Len(requests[c]) = 0
    BY <1>0
  <2>2. \A r \in Runtimes : ~ AskedFor(r)
    BY <2>1 DEF AskedFor
  <2> QED BY <1>0, <1>1, <1>2, <2>1, <2>2 DEF StartsOnce
<1>8. OnTheWay
  <2>1. /\ << >> \in Seq(WebRequests) /\ << >> \in Seq(Answers) /\ NoCursor \in Cursor
        /\ MaxRequests \in Nat
    BY WebBoundsAssumption DEF NoCursor, Cursor
  <2>2. \A c \in Connections : /\ Len(requests[c]) = 0 /\ Len(answers[c]) = 0
                               /\ Len(outgoing[c][Session]) = 0 /\ received[c] = 0
    BY <1>0, <1>2
  <2>3. /\ resumeFrom \in [Connections -> [Runtimes -> Cursor]]
        /\ requests \in [Connections -> Seq(WebRequests)]
        /\ answers \in [Connections -> Seq(Answers)] /\ received \in [Connections -> Nat]
    BY <2>1
  <2>4. heldLocal \in BOOLEAN /\ page \in Pages
    BY <1>5
  <2>5. asked \in 0..MaxRequests /\ pending = {}
    BY <2>1
  <2> QED BY <2>2, <2>3, <2>4, <2>5 DEF OnTheWay
<1>9. Sockets
  <2>1. \A c \in Connections : /\ link[c] = "none" /\ accepted[c] = "no" /\ answers[c] = << >>
                               /\ received[c] = 0 /\ c # current
    BY WebSocketsAssumption
  <2> QED BY <1>2, <2>1 DEF Sockets
<1>10. Copies
  <2>1. Known = {} /\ \A r \in Runtimes : pendingEvents[r] = << >>
    BY <1>0 DEF Known, NoPage
  <2>2. page.applied = << >> /\ held = << >> /\ stored = << >>
    BY DEF NoPage
  <2> QED BY <1>0, <2>1, <2>2 DEF Copies
<1>11. CursorsFollow /\ NoGap
  BY DEF CursorsFollow, NoGap, NoCursor
<1>12. LocalTurns
  <2>1. Known = {} /\ current = NoSocket
    BY <1>0 DEF Known, NoPage
  <2>2. ~Placed
    BY DEF Placed, NoPage
  <2> QED BY <2>1, <2>2 DEF LocalTurns, FramesAreNewer, ActiveIsSeen, AnswersTell, BufferIsNewer
<1> QED BY <1>4, <1>6, <1>7, <1>8, <1>9, <1>10, <1>11, <1>12 DEF WebIInv

\* What the client, the page and the hub keep to (see WebIInv), however sockets end and reconnect,
\* the page loads again and runtimes begin and end.
THEOREM WebInductive == WebSpec => []WebIInv
<1>1. WebInit => WebIInv
  BY WebStarts
<1>2. WebIInv /\ [WebNext]_webVars => WebIInv'
  <2> SUFFICES ASSUME WebIInv, [WebNext]_webVars PROVE WebIInv'
    OBVIOUS
  <2>1. WebInvariant' /\ HubFollows' /\ StartsOnce' /\ OnTheWay'
    BY InvariantStep, HubStep, StartsStep, OnTheWayStep
  <2>2. Sockets' /\ Copies' /\ CursorsFollow' /\ NoGap'
    BY SocketsStep, CopiesStep, GapsStep
  <2>3. LocalTurns'
    BY LocalTurnsStep
  <2> QED BY <2>1, <2>2, <2>3 DEF WebIInv
<1> QED BY <1>1, <1>2, PTL DEF WebSpec

\* WebInvariant: the types; the cached task has the session's events in the order they were
\* published and once; no event is skipped but for one of the two limits; the page hears its
\* runtime; its requests are awaited on the present connection.
THEOREM WebCorrect == WebSpec => []WebInvariant
<1>1. WebIInv => WebInvariant
  BY DEF WebIInv
<1> QED BY <1>1, WebInductive, PTL

\* A connected client is disconnected by its user or by the end of its own socket only.
THEOREM ConnectionsStand == WebSpec => ConnectionStands
<1> DEFINE Stands == state = "connected" /\ state' # "connected"
                       => current' = NoSocket \/ link'[current] = "closed"
<1>1. WebIInv /\ [WebNext]_webVars => [Stands]_webVars
  <2> SUFFICES ASSUME WebIInv, [WebNext]_webVars, state = "connected", state' # "connected"
               PROVE  current' = NoSocket \/ link'[current] = "closed"
    OBVIOUS
  <2>1. SocketTypes /\ Sockets /\ current \in Connections
    BY SocketTypesNow DEF Sockets, SocketTypes
  <2>2. ASSUME NEW c \in Connections, Connect(c) \/ Opened(c) \/ EventMessage(c) PROVE FALSE
    BY <2>2 DEF Connect, Opened, EventMessage, clientVars
  <2>3. ASSUME NEW c \in Connections, ConnectionEnds(c) \/ AnswerHello(c) \/ SubscribeConnection(c)
        PROVE  FALSE
    BY <2>3 DEF ConnectionEnds, AnswerHello, SubscribeConnection, clientVars
  <2>4. ASSUME NEW c \in Connections, HandshakeMessage(c) \/ SocketErrors(c) PROVE FALSE
    <3>1. c \notin settled /\ link[c] \notin {"none", "closed"}
      BY <2>4 DEF HandshakeMessage, SocketErrors, Readable
    <3> QED BY <2>1, <3>1 DEF Sockets
  <2>5. ASSUME NEW c \in Connections, SocketCloses(c)
        PROVE  link'[current] = "closed"
    BY <2>1, <2>5 DEF SocketCloses, IsCurrent, SocketTypes
  <2>6. CASE Disconnect \/ Reload
    BY <2>6 DEF Disconnect, Reload, GiveUp
  <2>7. CASE DaemonRestart
    BY <2>7 DEF DaemonRestart, clientVars
  <2>8. CASE ElsewhereNext
    BY <2>8, ElsewhereLeaves
  <2> QED BY <2>2, <2>3, <2>4, <2>5, <2>6, <2>7, <2>8, SocketSteps DEF SocketNext
<1> QED BY <1>1, WebInductive, PTL DEF WebSpec, ConnectionStands
=============================================================================
