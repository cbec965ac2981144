----------------------------- MODULE StateStore -----------------------------
(***************************************************************************)
(* The daemon's database of tasks (StateStore in                           *)
(* crates/waku-core/src/persistence.rs): the three tables of SQLite, the   *)
(* PersistedState a daemon works on, and what a connection remembers of    *)
(* what it wrote.  A save is one transaction; it may fail, which rolls the *)
(* tables back and keeps whatever was already assigned in memory.          *)
(*                                                                         *)
(* Projects, blobs and the desktop's files are left out; a message is its  *)
(* id, for its text does not change; "native" says that provider_cursor,   *)
(* the agent's own name of the conversation, is known.                     *)
(***************************************************************************)
EXTENDS Integers, Sequences, Functions

CONSTANTS
  Sessions,  \* task ids
  NoTask     \* no such task, no such row

VARIABLES
  listed,       \* table sessions: title, updated_at, status
  details,      \* table session_details: turns, provider and event cursors
  messageRows,  \* table messages, in the order the rows were inserted
  tasks,        \* PersistedState::sessions
  dirty,        \* PersistedState::dirty_sessions
  persisted,    \* Storage::persisted_sessions
  written       \* Storage::written_messages

diskVars == <<listed, details, messageRows>>
storeVars == <<listed, details, messageRows, tasks, dirty, persisted, written>>

\* runtime_event_cursor is None: runtimes are numbered from 1.
NoCursor == [runtime |-> 0, sequence |-> 0]

HasStarted(task) ==
  ~task.loaded \/ task.turns # << >> \/ task.messages # << >> \/ task.native

\* The elements of s that are in S, in their order.
Among(s, S) ==
  LET upTo[n \in 0..Len(s)] ==
        IF n = 0 THEN << >>
        ELSE IF s[n] \in S THEN Append(upTo[n - 1], s[n]) ELSE upTo[n - 1]
  IN  upTo[Len(s)]

-----------------------------------------------------------------------------
\* Reading.

\* session_skeleton: a task as its list row has it.
Skeleton(row) ==
  [loaded |-> FALSE, title |-> row.title, at |-> row.at, busy |-> row.busy,
   native |-> FALSE, cursor |-> NoCursor, turns |-> << >>, messages |-> << >>]

\* ORDER BY position; rows with one position come in insertion order.
InOrder(rows) ==
  LET upTo[p \in 0..Len(rows)] ==
        IF p = 0 THEN << >>
        ELSE upTo[p - 1] \o Among(rows, {row \in Range(rows) : row.position = p})
      ordered == upTo[Len(rows)]
  IN  [i \in DOMAIN ordered |-> ordered[i].id]

\* hydrate, as the task it leaves.
Hydrated(s) ==
  IF tasks[s].loaded THEN tasks[s]
  ELSE IF details[s] = NoTask THEN [tasks[s] EXCEPT !.loaded = TRUE]
  ELSE [tasks[s] EXCEPT !.loaded = TRUE, !.turns = details[s].turns,
                        !.native = details[s].native, !.cursor = details[s].cursor,
                        !.messages = InOrder(messageRows[s])]

\* load, by a new daemon process.
LoadTasks ==
  /\ tasks' = [s \in Sessions |->
                 IF listed[s] = NoTask THEN NoTask ELSE Skeleton(listed[s])]
  /\ dirty' = {}
  /\ persisted' = {s \in Sessions : listed[s] # NoTask}
  /\ written' = [s \in Sessions |-> {}]
  /\ UNCHANGED diskVars

-----------------------------------------------------------------------------
(***************************************************************************)
(* save, of the tasks `now` with the sessions `marked` as changed.         *)
(***************************************************************************)

Live(now) == {s \in Sessions : now[s] # NoTask /\ HasStarted(now[s])}

\* Not loaded: only the list row is written.
ListOnly(now, marked) == {s \in Live(now) \cap marked : ~now[s].loaded}

\* Written with its transcript.
Whole(now, marked) ==
  {s \in Live(now) : now[s].loaded /\ (s \in marked \/ s \notin persisted)}

Upserted(now, marked) == ListOnly(now, marked) \cup Whole(now, marked)

\* The rows to delete: known to this connection, and no longer live.
Gone(now) == persisted \ Live(now)

Row(task) == [title |-> task.title, at |-> task.at, busy |-> task.busy]

Detail(task) == [turns |-> task.turns, native |-> task.native, cursor |-> task.cursor]

Positions(messages) ==
  {[id |-> messages[p], position |-> p] : p \in DOMAIN messages}

\* The messages write_messages upserts, by their fingerprints.
UnwrittenByPosition(messages, known) ==
  {row \in Positions(messages) : \A k \in known : k.position # row.position}

Unwritten(messages, known) == Positions(messages) \ known

(***************************************************************************)
(* write_messages: upsert what differs from what this connection wrote,    *)
(* then delete the positions past the end.  An upsert keeps the place of a *)
(* row that exists.                                                        *)
(***************************************************************************)
WriteMessages(rows, messages, known) ==
  LET upserts == Unwritten(messages, known)
      updated == [r \in DOMAIN rows |->
                    IF \E u \in upserts : u.id = rows[r].id
                    THEN CHOOSE u \in upserts : u.id = rows[r].id
                    ELSE rows[r]]
      all == [p \in DOMAIN messages |-> [id |-> messages[p], position |-> p]]
      inserted == Among(all, {u \in upserts : \A r \in DOMAIN rows : rows[r].id # u.id})
      both == updated \o inserted
  IN  Among(both, {row \in Range(both) : row.position <= Len(messages)})

SaveCommits(now, marked) ==
  LET upserted == Upserted(now, marked)
      whole == Whole(now, marked)
      gone == Gone(now)
  IN  /\ tasks' = now
      /\ dirty' = {}
      /\ persisted' = (persisted \cup upserted) \ gone
      /\ listed' = [s \in Sessions |-> IF s \in upserted THEN Row(now[s])
                                       ELSE IF s \in gone THEN NoTask ELSE listed[s]]
      /\ details' = [s \in Sessions |-> IF s \in whole THEN Detail(now[s])
                                        ELSE IF s \in gone THEN NoTask ELSE details[s]]
      /\ messageRows' =
           [s \in Sessions |->
              IF s \in whole THEN WriteMessages(messageRows[s], now[s].messages, written[s])
              ELSE IF s \in gone THEN << >> ELSE messageRows[s]]
      /\ written' = [s \in Sessions |-> IF s \in whole THEN Positions(now[s].messages)
                                        ELSE IF s \in gone THEN {} ELSE written[s]]

WrittenTooSoon(now, marked, dropped) ==
  [s \in Sessions |-> IF s \in dropped THEN {}
                      ELSE IF s \in Whole(now, marked) THEN Positions(now[s].messages)
                      ELSE written[s]]

WrittenAfterFailure(now, marked, dropped) ==
  [s \in Sessions |-> IF s \in dropped THEN {} ELSE written[s]]

(***************************************************************************)
(* A statement or the commit fails.  persisted_sessions has been told of   *)
(* the rows reached so far, and written_messages of the deletions.         *)
(***************************************************************************)
SaveFails(now, marked) ==
  /\ tasks' = now
  /\ dirty' = marked
  /\ \E told \in SUBSET Upserted(now, marked), dropped \in SUBSET Gone(now) :
       /\ dropped # {} => told = Upserted(now, marked)
       /\ persisted' = (persisted \cup told) \ dropped
       /\ written' = WrittenAfterFailure(now, marked, dropped)
  /\ UNCHANGED diskVars

SaveTasks(now, marked, ok) == IF ok THEN SaveCommits(now, marked) ELSE SaveFails(now, marked)

-----------------------------------------------------------------------------
(***************************************************************************)
(* What a connection believes to have written is there, whatever failed:   *)
(* a message the next save skips has its row at that position              *)
(* (persistence.rs:1328-1330).                                             *)
(***************************************************************************)
WrittenIsStored ==
  \A s \in Sessions : \A row \in written[s] :
    \E r \in DOMAIN messageRows[s] : messageRows[s][r] = row

\* A daemon that starts on these tables would show the task's transcript in this order.
Recovers(s) ==
  Among(InOrder(messageRows[s]), Range(tasks[s].messages)) = tasks[s].messages

(***************************************************************************)
(* A started task the next save would not write is stored: its list row,   *)
(* its turns and cursor, and every message in its place.  Saves that fail, *)
(* skeletons, and projections of clients in any order are among the steps. *)
(***************************************************************************)
CleanIsStored ==
  \A s \in Live(tasks) \ Upserted(tasks, dirty) :
    /\ listed[s] = Row(tasks[s])
    /\ tasks[s].loaded => details[s] = Detail(tasks[s]) /\ Recovers(s)
=============================================================================
