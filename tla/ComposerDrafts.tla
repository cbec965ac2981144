--------------------------- MODULE ComposerDrafts ---------------------------
(***************************************************************************)
(* Unsent composer text, by key (a started task, or a project's next       *)
(* task), on its way to the daemon's one document: the desktop's debounced *)
(* snapshots, saved by background jobs in any order (src/app/drafts.rs,    *)
(* crates/waku-client/src/persistence.rs), the web page's timers per key   *)
(* and its chain of writes (apps/web), and the daemon's keyed changes      *)
(* (crates/waku-core/src/persistence.rs). Every edit types a text of its   *)
(* own, a number; 0 is no draft.                                           *)
(***************************************************************************)
EXTENDS Integers, Sequences, Functions

CONSTANTS
  DesktopKeys, PageKeys,  \* the keys each client's user edits
  None,                   \* no timer
  MaxTexts,               \* bound of a run: texts typed
  MaxActs,                \* bound of a run: other acts of the users
  MaxFailed               \* bound of a run: requests that fail

ASSUME DraftKeysAssumption == DesktopKeys \cap PageKeys = {}
ASSUME DraftBoundsAssumption == MaxTexts \in Nat /\ MaxActs \in Nat /\ MaxFailed \in Nat
ASSUME NoTimerAssumption == None \notin 0..MaxTexts

Keys == DesktopKeys \cup PageKeys
Drafts == [Keys -> 0..MaxTexts]

VARIABLES
  stored,      \* the daemon's composer-drafts document
  \* The desktop:
  running,     \* "yes", "quitting" while the save of on_app_quit is awaited, "no"
  selected,    \* the key of the task on screen
  composer,    \* the text on screen
  drafts,      \* composer_drafts
  generation,  \* composer_draft_save_generation
  armed,       \* the timer of this generation runs (an older one does nothing)
  jobs,        \* saves spawned that did not get the lock of save_state yet
  snapshot,    \* save_state.snapshot
  saved,       \* save_state.latest_generation
  \* The page:
  page,        \* composerDraftState
  timers,      \* composerDraftTimers: the draft each will enqueue
  writes,      \* composerDraftWriteQueue
  texts, acts, failed,
  \* History:
  gone,        \* texts that were stored and are no more
  unanswered,  \* a save of this desktop was carried out without an answer
  unsure,      \* the keys it changed that no save has changed since
  missed       \* the page's keys whose last write was not carried out

desktopVars == <<running, selected, composer, drafts, generation, armed, jobs, snapshot, saved,
                 unanswered, unsure>>
pageVars == <<page, timers, writes, missed>>
storeVars == <<stored, gone>>
boundVars == <<texts, acts, failed>>
draftVars == <<storeVars, desktopVars, pageVars, boundVars>>

Empty == [key \in Keys |-> 0]

DraftsInit ==
  /\ stored = Empty /\ gone = {}
  /\ running = "yes" /\ selected \in DesktopKeys /\ composer = 0 /\ drafts = Empty
  /\ generation = 0 /\ armed = FALSE /\ jobs = {} /\ snapshot = Empty /\ saved = 0
  /\ unanswered = FALSE /\ unsure = {}
  /\ page = Empty /\ timers = [key \in PageKeys |-> None] /\ writes = << >> /\ missed = {}
  /\ texts = 0 /\ acts = 0 /\ failed = 0

\* A user types a new text, or does something else.
Types == texts < MaxTexts /\ texts' = texts + 1 /\ UNCHANGED <<acts, failed>>
Acts == acts < MaxActs /\ acts' = acts + 1 /\ UNCHANGED <<texts, failed>>
Fails == failed < MaxFailed /\ failed' = failed + 1 /\ UNCHANGED <<texts, acts>>

-----------------------------------------------------------------------------
\* Changes: the keys that change, each with its new draft.

\* Every key of the new snapshot, whatever changed.
EveryDraft(previous, next) == [key \in {k \in Keys : previous # next} |-> next[key]]

\* composer_draft_changes, from one snapshot to the next.
ComposerDraftChanges(previous, next) ==
  [key \in {k \in Keys : previous[k] # next[k]} |-> next[key]]

\* The drafts of a document after them.
Changed(document, changes) ==
  [key \in Keys |-> IF key \in DOMAIN changes THEN changes[key] ELSE document[key]]

\* ComposerDraftStore::apply_changes: load, change and rename under one lock.
ApplyChanges(changes) ==
  /\ stored' = Changed(stored, changes)
  /\ gone' = gone \cup (Range(stored) \ (Range(stored') \cup {0}))

-----------------------------------------------------------------------------
\* The desktop's user and its UI thread.

\* capture_current_composer_draft.
Capture == [drafts EXCEPT ![selected] = composer]

\* schedule_composer_draft_save.
ScheduleSave ==
  /\ generation' = generation + 1
  /\ armed' = TRUE

ScheduleSaveIf(changed) ==
  IF changed THEN ScheduleSave ELSE UNCHANGED <<generation, armed>>

\* ComposerEvent::Edited: the text is captured later.
Edit(text) ==
  /\ running = "yes" /\ composer # text
  /\ composer' = text
  /\ ScheduleSave
  /\ UNCHANGED <<storeVars, running, selected, drafts, jobs, snapshot, saved, unanswered,
                 unsure, pageVars>>

TypeText == Types /\ Edit(texts + 1)
ClearText == Acts /\ Edit(0)

\* activate_session, on navigation: capture, then restore the other task's draft.
SelectTask(key) ==
  /\ running = "yes" /\ key # selected /\ Acts
  /\ drafts' = Capture
  /\ selected' = key
  /\ composer' = drafts'[key]
  /\ ScheduleSaveIf(drafts' # drafts \/ composer' # composer)
  /\ UNCHANGED <<storeVars, running, jobs, snapshot, saved, unanswered,
                 unsure, pageVars>>

\* select_project_from_composer: the draft moves along if there is none at its new key.
MoveDraft(key) ==
  /\ running = "yes" /\ key # selected /\ Acts
  /\ composer # 0 /\ drafts[key] = 0
  /\ drafts' = [drafts EXCEPT ![selected] = 0, ![key] = composer]
  /\ selected' = key
  /\ ScheduleSave
  /\ UNCHANGED <<storeVars, running, composer, jobs, snapshot, saved, unanswered,
                 unsure, pageVars>>

\* submission_with_attachments: the composer is cleared and its draft discarded. A new task
\* gets a key of its own, which has no draft.
Submit(key) ==
  /\ running = "yes" /\ composer # 0 /\ Acts
  /\ drafts' = [drafts EXCEPT ![selected] = 0]
  /\ drafts'[key] = 0
  /\ selected' = key
  /\ composer' = 0
  /\ ScheduleSave
  /\ UNCHANGED <<storeVars, running, jobs, snapshot, saved, unanswered,
                 unsure, pageVars>>

Spawn(job) == jobs' = jobs \cup {job}

\* The timer of the newest generation: capture, and save in the background.
TimerFires ==
  /\ running = "yes" /\ armed
  /\ armed' = FALSE
  /\ drafts' = Capture
  /\ Spawn([drafts |-> drafts', generation |-> generation])
  /\ UNCHANGED <<storeVars, running, selected, composer, generation, snapshot, saved,
                 unanswered, unsure,
                 pageVars, boundVars>>

\* on_app_quit.
Quit ==
  /\ running = "yes" /\ Acts
  /\ running' = "quitting"
  /\ armed' = FALSE
  /\ drafts' = Capture
  /\ generation' = generation + 1
  /\ Spawn([drafts |-> drafts', generation |-> generation + 1])
  /\ UNCHANGED <<storeVars, selected, composer, snapshot, saved, unanswered,
                 unsure, pageVars>>

\* The quit is awaited briefly only, and a crash awaits nothing.
Stop ==
  /\ \/ running = "quitting" /\ UNCHANGED boundVars
     \/ running = "yes" /\ Fails
  /\ running' = "no"
  /\ jobs' = {} /\ armed' = FALSE
  /\ UNCHANGED <<storeVars, selected, composer, drafts, generation, snapshot, saved,
                 unanswered, unsure,
                 pageVars>>

\* ComposerDraftStore::load, at the start of the application.
Start ==
  /\ running = "no"
  /\ running' = "yes"
  /\ drafts' = stored /\ snapshot' = stored
  /\ selected' \in DesktopKeys /\ composer' = stored[selected']
  /\ generation' = 0 /\ saved' = 0
  /\ unanswered' = FALSE /\ unsure' = {}
  /\ UNCHANGED <<storeVars, armed, jobs, pageVars, boundVars>>

-----------------------------------------------------------------------------
\* ComposerDraftStore::save, on a background thread: it holds the lock of save_state from the
\* comparison to the answer, so only a change of stored by the page could come between.

\* No job is ever too old.
NeverOvertaken(job) == job.generation < 0

Overtaken(job) == job.generation < saved

Save(job) ==
  /\ job \in jobs /\ ~Overtaken(job)
  /\ jobs' = jobs \ {job}
  /\ saved' = job.generation /\ snapshot' = job.drafts
  /\ LET changes == ComposerDraftChanges(snapshot, job.drafts) IN
       /\ ApplyChanges(changes)
       /\ unsure' = unsure \ DOMAIN changes
  /\ UNCHANGED <<running, selected, composer, drafts, generation, armed, unanswered, pageVars,
                 boundVars>>

DropOvertaken(job) ==
  /\ job \in jobs /\ Overtaken(job)
  /\ jobs' = jobs \ {job}
  /\ UNCHANGED <<storeVars, running, selected, composer, drafts, generation, armed, snapshot,
                 saved, unanswered,
                 unsure, pageVars, boundVars>>

\* The request fails, before or after the daemon carried it out; nothing tries again.
SaveFails(job) ==
  /\ job \in jobs /\ ~Overtaken(job) /\ Fails
  /\ jobs' = jobs \ {job}
  /\ LET changes == ComposerDraftChanges(snapshot, job.drafts) IN
       /\ DOMAIN changes # {}
       /\ \/ UNCHANGED <<storeVars, unanswered, unsure>>
          \/ /\ ApplyChanges(changes)
             /\ unanswered' = TRUE /\ unsure' = unsure \cup DOMAIN changes
  /\ UNCHANGED <<running, selected, composer, drafts, generation, armed, snapshot, saved,
                 pageVars>>

-----------------------------------------------------------------------------
\* The page (waku-app.tsx). The text on screen is in composerDraftState at once.

Enqueue(changes) == writes' = Append(writes, changes)

OneChange(key, text) == [k \in {key} |-> text]

\* updateStoredComposerDraft: the key's timer starts again, with the new draft.
PageEdit(key, text) ==
  /\ page[key] # text
  /\ page' = [page EXCEPT ![key] = text]
  /\ timers' = [timers EXCEPT ![key] = text]
  /\ UNCHANGED <<storeVars, desktopVars, writes, missed>>

PageTypes(key) == Types /\ PageEdit(key, texts + 1)
PageClears(key) == Acts /\ PageEdit(key, 0)

PageTimerFires(key) ==
  /\ timers[key] # None
  /\ timers' = [timers EXCEPT ![key] = None]
  /\ Enqueue(OneChange(key, timers[key]))
  /\ UNCHANGED <<storeVars, desktopVars, page, missed, boundVars>>

\* removeStoredComposerDraft, on submission or when the task is removed.
PageSubmits(key) ==
  /\ page[key] # 0 /\ Acts
  /\ page' = [page EXCEPT ![key] = 0]
  /\ timers' = [timers EXCEPT ![key] = None]
  /\ Enqueue(OneChange(key, 0))
  /\ UNCHANGED <<storeVars, desktopVars, missed>>

\* moveStoredComposerDraft: nothing moves onto a draft.
PageMoves(source, destination) ==
  /\ page[source] # 0 /\ page[destination] = 0 /\ Acts
  /\ LET changes == [k \in {source, destination} |-> IF k = source THEN 0 ELSE page[source]] IN
       /\ page' = Changed(page, changes)
       /\ Enqueue(changes)
  /\ timers' = [timers EXCEPT ![source] = None, ![destination] = None]
  /\ UNCHANGED <<storeVars, desktopVars, missed>>

\* The chain's next request.
PageWrites ==
  /\ writes # << >>
  /\ writes' = Tail(writes)
  /\ ApplyChanges(Head(writes))
  /\ missed' = missed \ DOMAIN Head(writes)
  /\ UNCHANGED <<desktopVars, page, timers, boundVars>>

\* It fails, and the chain goes on (an answer that is lost changes nothing for the page).
PageWriteFails ==
  /\ writes # << >> /\ Fails
  /\ writes' = Tail(writes)
  /\ missed' = missed \cup DOMAIN Head(writes)
  /\ UNCHANGED <<storeVars, desktopVars, page, timers>>

\* The page is loaded again: what its timers and its chain held is lost.
PageReloads ==
  /\ Fails
  /\ page' = stored
  /\ timers' = [key \in PageKeys |-> None] /\ writes' = << >> /\ missed' = {}
  /\ UNCHANGED <<storeVars, desktopVars>>

-----------------------------------------------------------------------------
DesktopUserNext ==
  \/ TypeText \/ ClearText \/ Quit
  \/ \E key \in DesktopKeys : SelectTask(key) \/ MoveDraft(key) \/ Submit(key)

DesktopNext ==
  \/ TimerFires \/ Stop \/ Start
  \/ \E job \in jobs : Save(job) \/ DropOvertaken(job) \/ SaveFails(job)

PageUserNext ==
  \/ \E key \in PageKeys : PageTypes(key) \/ PageClears(key) \/ PageSubmits(key)
  \/ \E source, destination \in PageKeys : PageMoves(source, destination)

PageNext ==
  \/ \E key \in PageKeys : PageTimerFires(key)
  \/ PageWrites \/ PageWriteFails \/ PageReloads

DraftsNext == DesktopUserNext \/ DesktopNext \/ PageUserNext \/ PageNext

DraftsSpec == DraftsInit /\ [][DraftsNext]_draftVars

-----------------------------------------------------------------------------
(***************************************************************************)
(* Properties.                                                             *)
(***************************************************************************)

PageChanges == UNION {[changed -> 0..MaxTexts] : changed \in SUBSET PageKeys}

\* The type of every variable.
DraftsTypeOK ==
  /\ stored \in Drafts /\ drafts \in Drafts /\ snapshot \in Drafts /\ page \in Drafts
  /\ running \in {"yes", "quitting", "no"}
  /\ selected \in DesktopKeys /\ composer \in 0..MaxTexts
  /\ generation \in Nat /\ saved \in Nat /\ armed \in BOOLEAN
  /\ jobs \subseteq [drafts : Drafts, generation : Nat]
  /\ timers \in [PageKeys -> 0..MaxTexts \cup {None}]
  /\ writes \in Seq(PageChanges)
  /\ gone \subseteq 1..MaxTexts /\ unanswered \in BOOLEAN
  /\ unsure \subseteq DesktopKeys /\ missed \subseteq PageKeys

\* Everything the desktop wanted saved it has been told is saved; likewise the page, but for
\* the writes it reported as failed.
DesktopSettled == running # "no" /\ ~armed /\ jobs = {} /\ saved = generation
PageSettled(key) == timers[key] = None /\ writes = << >> /\ key \notin missed

(***************************************************************************)
(* A client that has nothing left to save finds every draft of its user in *)
(* the daemon, the text on screen included, and nothing it discarded: what *)
(* the other client wrote meanwhile, the order its jobs ran in and the     *)
(* failures before do not matter (persistence.rs, "concurrent clients      *)
(* cannot clobber unrelated draft keys"). Of a change that was carried out *)
(* unanswered the desktop's comparison knows nothing: such a key is exempt *)
(* until it is written again.                                              *)
(***************************************************************************)
SavedIsStored ==
  /\ DesktopSettled => \A key \in DesktopKeys \ unsure : stored[key] = Capture[key]
  /\ \A key \in PageKeys : PageSettled(key) => stored[key] = page[key]

\* What every state satisfies: the types, and what was saved is stored (SavedIsStored).
DraftsInvariant == DraftsTypeOK /\ SavedIsStored

(***************************************************************************)
(* A text that left the daemon's document, because it was edited, sent or  *)
(* removed, does not come back: no timer, job or write of an earlier       *)
(* moment puts it there (drafts.rs, "generation checks also make detached  *)
(* timers and out-of-order writes harmless"), unless a save of the desktop *)
(* was carried out unanswered, so that no generation was recorded for it,  *)
(* or a write of the page failed and a later move repeats it.              *)
(***************************************************************************)
NothingResurfaces ==
  [][~unanswered /\ missed = {} => gone \cap (Range(stored') \ Range(stored)) = {}]_draftVars
=============================================================================
