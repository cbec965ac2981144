---------------------- MODULE DraftsSettingsPoolProofs ----------------------
(***************************************************************************)
(* Proofs about three components that keep one thing up to date for many.  *)
(* ComposerDrafts, for any keys, texts, acts and failures: its types, that *)
(* what a client was told is saved is stored, and that a text that left    *)
(* the daemon's document does not come back.  SettingsWriter, for any      *)
(* settings and any number of updates, replacements and failures: its      *)
(* types, that what the supervisor believes persisted is what the daemon   *)
(* has, and that the daemon is current whenever nothing is left to do.     *)
(* ServerPool, for any sessions and any number of servers: its types, that *)
(* one process of the slot runs at a time, and that nobody holds a server  *)
(* the pool stops.                                                         *)
(***************************************************************************)
EXTENDS ComposerDrafts, SettingsWriter, ServerPool, SequenceTheorems, TLAPS

-----------------------------------------------------------------------------
(* ComposerDrafts *)

\* The desktop changes no key of the page.
DesktopKeepsPages ==
  \A key \in PageKeys :
    drafts[key] = snapshot[key] /\ \A job \in jobs : job.drafts[key] = snapshot[key]

\* What the desktop was told is saved is stored.
SnapshotIsStored == \A key \in DesktopKeys \ unsure : stored[key] = snapshot[key]

\* A timer runs for the newest generation, and none of its jobs or saves is
\* there yet; otherwise that generation's job, or save, has what the user sees.
JobsInOrder ==
  /\ saved <= generation /\ \A job \in jobs : job.generation <= generation
  /\ armed => saved < generation /\ \A job \in jobs : job.generation < generation
  /\ ~ armed => /\ saved = generation => snapshot = Capture
                /\ \A job \in jobs : job.generation = generation => job.drafts = Capture
  /\ running # "yes" => ~ armed
  /\ running = "no" => jobs = {}

IsLastWrite(i, key) ==
  /\ i \in 1..Len(writes) /\ key \in DOMAIN writes[i]
  /\ \A j \in (i + 1)..Len(writes) : key \notin DOMAIN writes[j]

\* The last thing on its way to the daemon about a key is what the page shows.
PageIsOnItsWay ==
  \A key \in PageKeys :
    /\ timers[key] # None => timers[key] = page[key]
    /\ timers[key] = None =>
         /\ \A i \in 1..Len(writes) : IsLastWrite(i, key) => writes[i][key] = page[key]
         /\ key \notin missed /\ (\A i \in 1..Len(writes) : key \notin DOMAIN writes[i]) =>
              stored[key] = page[key]

TextsCounted == texts \in 0..MaxTexts

DraftsIInv ==
  /\ DraftsTypeOK /\ TextsCounted /\ DesktopKeepsPages /\ SnapshotIsStored
  /\ JobsInOrder /\ PageIsOnItsWay

-----------------------------------------------------------------------------
(* The steps of the desktop, by what they do to what is to be saved. *)

LEMMA KeysApart ==
  /\ DesktopKeys \subseteq Keys /\ PageKeys \subseteq Keys
  /\ \A key \in PageKeys : key \notin DesktopKeys
  /\ \A key \in Keys : key \in DesktopKeys \/ key \in PageKeys
BY DraftKeysAssumption DEF Keys

LEMMA CaptureType ==
  ASSUME DraftsTypeOK
  PROVE  /\ Capture \in Drafts
         /\ \A key \in Keys : Capture[key] = IF key = selected THEN composer ELSE drafts[key]
BY KeysApart DEF DraftsTypeOK, Drafts, Capture

\* The user types, clears, navigates, moves a draft or sends it.
UserNext ==
  TypeText \/ ClearText \/ \E key \in DesktopKeys : SelectTask(key) \/ MoveDraft(key) \/ Submit(key)

LEMMA UserSteps ==
  ASSUME DraftsTypeOK, TextsCounted, UserNext
  PROVE  /\ running = "yes" /\ texts' \in 0..MaxTexts
         /\ UNCHANGED <<storeVars, running, jobs, snapshot, saved, unanswered, unsure, pageVars>>
         /\ drafts' \in Drafts /\ selected' \in DesktopKeys /\ composer' \in 0..MaxTexts
         /\ \A key \in PageKeys : drafts'[key] = drafts[key]
         /\ \/ generation' = generation + 1 /\ armed' = TRUE
            \/ UNCHANGED <<generation, armed>> /\ Capture' = Capture
<1> USE KeysApart, DraftBoundsAssumption DEF TextsCounted, Drafts, ScheduleSave
<1>1. /\ drafts \in Drafts /\ selected \in DesktopKeys /\ composer \in 0..MaxTexts
      /\ texts \in 0..MaxTexts
  BY DEF DraftsTypeOK
<1>2. ASSUME NEW text \in 0..MaxTexts, Edit(text), texts' \in 0..MaxTexts
      PROVE  /\ running = "yes" /\ texts' \in 0..MaxTexts
             /\ UNCHANGED <<storeVars, running, jobs, snapshot, saved, unanswered, unsure, pageVars>>
             /\ drafts' \in Drafts /\ selected' \in DesktopKeys /\ composer' \in 0..MaxTexts
             /\ \A key \in PageKeys : drafts'[key] = drafts[key]
             /\ generation' = generation + 1 /\ armed' = TRUE
  BY <1>1, <1>2 DEF Edit
<1>3. CASE TypeText
  <2>1. texts + 1 \in 0..MaxTexts /\ texts' = texts + 1 /\ Edit(texts + 1)
    BY <1>1, <1>3 DEF TypeText, Types
  <2> QED  BY <1>2, <2>1
<1>4. CASE ClearText
  <2>1. 0 \in 0..MaxTexts /\ texts' = texts /\ Edit(0)
    BY <1>1, <1>4 DEF ClearText, Acts
  <2> QED  BY <1>1, <1>2, <2>1
<1>5. ASSUME NEW key \in DesktopKeys, SelectTask(key)
      PROVE  /\ running = "yes" /\ texts' \in 0..MaxTexts
             /\ UNCHANGED <<storeVars, running, jobs, snapshot, saved, unanswered, unsure, pageVars>>
             /\ drafts' \in Drafts /\ selected' \in DesktopKeys /\ composer' \in 0..MaxTexts
             /\ \A k \in PageKeys : drafts'[k] = drafts[k]
             /\ \/ generation' = generation + 1 /\ armed' = TRUE
                \/ UNCHANGED <<generation, armed>> /\ Capture' = Capture
  <2>1. /\ drafts' = Capture /\ selected' = key /\ composer' = Capture[key]
        /\ running = "yes" /\ texts' = texts
        /\ UNCHANGED <<storeVars, running, jobs, snapshot, saved, unanswered, unsure, pageVars>>
        /\ \/ generation' = generation + 1 /\ armed' = TRUE
           \/ UNCHANGED <<generation, armed>>
    BY <1>5 DEF SelectTask, Acts, ScheduleSaveIf
  <2>2. Capture \in Drafts /\ \A k \in PageKeys : Capture[k] = drafts[k]
    BY <1>1, CaptureType
  <2>3. Capture' = [drafts' EXCEPT ![selected'] = composer']
    BY DEF Capture
  <2>4. Capture' = Capture
    BY <2>1, <2>2, <2>3
  <2> QED  BY <1>1, <2>1, <2>2, <2>4
<1>6. ASSUME NEW key \in DesktopKeys, MoveDraft(key) \/ Submit(key)
      PROVE  /\ running = "yes" /\ texts' \in 0..MaxTexts
             /\ UNCHANGED <<storeVars, running, jobs, snapshot, saved, unanswered, unsure, pageVars>>
             /\ drafts' \in Drafts /\ selected' \in DesktopKeys /\ composer' \in 0..MaxTexts
             /\ \A k \in PageKeys : drafts'[k] = drafts[k]
             /\ generation' = generation + 1 /\ armed' = TRUE
  BY <1>1, <1>6 DEF MoveDraft, Submit, Acts
<1> QED  BY <1>3, <1>4, <1>5, <1>6 DEF UserNext

\* A capture, and a job for it: at the timer, or when the application quits.
LEMMA CaptureSteps ==
  ASSUME DraftsTypeOK, TimerFires \/ Quit
  PROVE  /\ running = "yes" /\ armed' = FALSE /\ running' \in {"yes", "quitting"}
         /\ UNCHANGED <<storeVars, selected, composer, snapshot, saved, unanswered, unsure, pageVars,
                        texts>>
         /\ drafts' = Capture /\ Capture' = Capture
         /\ generation' \in {generation, generation + 1}
         /\ generation' = generation => armed
         /\ jobs' = jobs \cup {[drafts |-> Capture, generation |-> generation']}
<1>1. Capture' = [drafts' EXCEPT ![selected'] = composer']
  BY DEF Capture
<1>2. drafts' = Capture /\ UNCHANGED <<selected, composer>>
  BY DEF TimerFires, Quit
<1>3. Capture' = Capture
  BY <1>1, <1>2, CaptureType DEF Drafts
<1>4. CASE TimerFires
  BY <1>2, <1>3, <1>4 DEF TimerFires, Spawn, boundVars
<1>5. CASE Quit
  BY <1>2, <1>3, <1>5 DEF Quit, Spawn, Acts, DraftsTypeOK
<1> QED  BY <1>4, <1>5

\* What a save changes; the daemon's document afterwards.
LEMMA ChangesApplied ==
  ASSUME DraftsTypeOK, DesktopKeepsPages, NEW job \in jobs,
         ApplyChanges(ComposerDraftChanges(snapshot, job.drafts))
  PROVE  /\ stored' \in Drafts
         /\ DOMAIN ComposerDraftChanges(snapshot, job.drafts) \subseteq DesktopKeys
         /\ \A key \in PageKeys : stored'[key] = stored[key]
         /\ \A key \in DesktopKeys :
              IF key \in DOMAIN ComposerDraftChanges(snapshot, job.drafts)
                THEN stored'[key] = job.drafts[key]
                ELSE stored'[key] = stored[key] /\ snapshot[key] = job.drafts[key]
<1> DEFINE changes == ComposerDraftChanges(snapshot, job.drafts)
<1>1. stored \in Drafts /\ job.drafts \in Drafts
  BY DEF DraftsTypeOK
<1>2. /\ DOMAIN changes = {k \in Keys : snapshot[k] # job.drafts[k]}
      /\ \A key \in DOMAIN changes : changes[key] = job.drafts[key]
  BY DEF ComposerDraftChanges
<1>3. DOMAIN changes \subseteq DesktopKeys
  BY <1>2, KeysApart DEF DesktopKeepsPages
<1>4. stored' = [key \in Keys |-> IF key \in DOMAIN changes THEN changes[key] ELSE stored[key]]
  BY DEF ApplyChanges, Changed
<1>5. stored' \in Drafts
  BY <1>1, <1>2, <1>4 DEF Drafts
<1> HIDE DEF changes
<1>6. \A key \in Keys : stored'[key] = IF key \in DOMAIN changes THEN job.drafts[key] ELSE stored[key]
  BY <1>2, <1>4
<1> QED  BY <1>2, <1>3, <1>5, <1>6, KeysApart DEF changes

-----------------------------------------------------------------------------
(* Types. *)

LEMMA GoneType ==
  ASSUME DraftsTypeOK, NEW changes, ApplyChanges(changes)
  PROVE  gone' \subseteq 1..MaxTexts
<1>1. \A text \in Range(stored) : text \in 0..MaxTexts
  BY DEF DraftsTypeOK, Drafts, Range
<1>2. gone' \subseteq gone \cup (Range(stored) \ {0})
  BY DEF ApplyChanges
<1>3. gone \subseteq 1..MaxTexts
  BY DEF DraftsTypeOK
<1> QED  BY <1>1, <1>2, <1>3, DraftBoundsAssumption

LEMMA PageChangeType ==
  ASSUME NEW changes, NEW changed \in SUBSET PageKeys, changes \in [changed -> 0..MaxTexts]
  PROVE  changes \in PageChanges
BY DEF PageChanges

LEMMA PageStepTypes ==
  ASSUME DraftsTypeOK, TextsCounted, PageUserNext \/ PageNext
  PROVE  DraftsTypeOK'
<1> USE KeysApart, DraftBoundsAssumption DEF DraftsTypeOK, desktopVars, storeVars, pageVars
<1>1. /\ page \in Drafts /\ timers \in [PageKeys -> 0..MaxTexts \cup {None}]
      /\ writes \in Seq(PageChanges)
  OBVIOUS
<1>2. ASSUME NEW key \in PageKeys, NEW text \in 0..MaxTexts, PageEdit(key, text)
      PROVE  DraftsTypeOK'
  <2>1. page' \in Drafts /\ timers' \in [PageKeys -> 0..MaxTexts \cup {None}]
    BY <1>1, <1>2 DEF PageEdit, Drafts
  <2> QED  BY <1>2, <2>1 DEF PageEdit
<1>3. ASSUME NEW key \in PageKeys, PageTypes(key) \/ PageClears(key)
      PROVE  DraftsTypeOK'
  BY <1>2, <1>3 DEF PageTypes, PageClears, Types, TextsCounted
<1>4. ASSUME NEW key \in PageKeys, NEW text \in 0..MaxTexts
      PROVE  OneChange(key, text) \in PageChanges
  <2>1. OneChange(key, text) \in [{key} -> 0..MaxTexts] /\ {key} \in SUBSET PageKeys
    BY DEF OneChange
  <2> QED  BY <2>1, PageChangeType
<1>5. ASSUME NEW key \in PageKeys, PageTimerFires(key)
      PROVE  DraftsTypeOK'
  <2>1. timers[key] \in 0..MaxTexts
    BY <1>1, <1>5 DEF PageTimerFires
  <2>2. timers' \in [PageKeys -> 0..MaxTexts \cup {None}]
    BY <1>1, <1>5 DEF PageTimerFires
  <2>3. writes' \in Seq(PageChanges)
    BY <1>1, <1>4, <1>5, <2>1, AppendProperties DEF PageTimerFires, Enqueue
  <2> QED  BY <1>5, <2>2, <2>3 DEF PageTimerFires
<1>6. ASSUME NEW key \in PageKeys, PageSubmits(key)
      PROVE  DraftsTypeOK'
  <2>1. page' \in Drafts /\ timers' \in [PageKeys -> 0..MaxTexts \cup {None}]
    BY <1>1, <1>6 DEF PageSubmits, Drafts
  <2>2. writes' \in Seq(PageChanges)
    BY <1>1, <1>4, <1>6, AppendProperties DEF PageSubmits, Enqueue
  <2> QED  BY <1>6, <2>1, <2>2 DEF PageSubmits
<1>7. ASSUME NEW from \in PageKeys, NEW to \in PageKeys, PageMoves(from, to)
      PROVE  DraftsTypeOK'
  <2> DEFINE changes == [k \in {from, to} |-> IF k = from THEN 0 ELSE page[from]]
  <2>1. changes \in [{from, to} -> 0..MaxTexts] /\ {from, to} \in SUBSET PageKeys
    BY <1>1 DEF Drafts
  <2>2. changes \in PageChanges
    BY <2>1, PageChangeType
  <2>3. page' = Changed(page, changes) /\ writes' = Append(writes, changes)
    BY <1>7 DEF PageMoves, Enqueue
  <2>4. page' \in Drafts
    BY <1>1, <2>1, <2>3 DEF Changed, Drafts
  <2>5. writes' \in Seq(PageChanges)
    BY <1>1, <2>2, <2>3, AppendProperties
  <2>6. timers' \in [PageKeys -> 0..MaxTexts \cup {None}]
    BY <1>1, <1>7 DEF PageMoves
  <2> QED  BY <1>7, <2>4, <2>5, <2>6 DEF PageMoves
<1>8. writes # << >> =>
        /\ Tail(writes) \in Seq(PageChanges) /\ Head(writes) \in PageChanges
        /\ DOMAIN Head(writes) \subseteq PageKeys
        /\ \A key \in DOMAIN Head(writes) : Head(writes)[key] \in 0..MaxTexts
  <2>1. writes # << >> => Tail(writes) \in Seq(PageChanges) /\ Head(writes) \in PageChanges
    BY <1>1, HeadTailProperties
  <2>2. ASSUME NEW changes \in PageChanges
        PROVE  /\ DOMAIN changes \subseteq PageKeys
               /\ \A key \in DOMAIN changes : changes[key] \in 0..MaxTexts
    <3>1. PICK S \in SUBSET PageKeys : changes \in [S -> 0..MaxTexts]
      BY DEF PageChanges
    <3> QED  BY <3>1
  <2> QED  BY <2>1, <2>2
<1>9. CASE PageWrites
  <2>1. stored' = Changed(stored, Head(writes))
    BY <1>9 DEF PageWrites, ApplyChanges
  <2>2. stored' \in Drafts
    BY <1>8, <1>9, <2>1 DEF PageWrites, Changed, Drafts
  <2>3. gone' \subseteq 1..MaxTexts
    BY <1>9, GoneType DEF PageWrites
  <2> QED  BY <1>8, <1>9, <2>2, <2>3 DEF PageWrites
<1>10. CASE PageWriteFails
  BY <1>8, <1>10 DEF PageWriteFails
<1>11. CASE PageReloads
  BY <1>11 DEF PageReloads
<1> QED  BY <1>3, <1>5, <1>6, <1>7, <1>9, <1>10, <1>11 DEF PageUserNext, PageNext

LEMMA DesktopStepTypes ==
  ASSUME DraftsTypeOK, TextsCounted, DesktopKeepsPages, DesktopUserNext \/ DesktopNext
  PROVE  DraftsTypeOK'
<1> USE DEF DraftsTypeOK, storeVars, pageVars
<1>1. CASE UserNext
  <2>1. \/ generation' = generation + 1 /\ armed' = TRUE
        \/ generation' = generation /\ armed' = armed
    BY <1>1, UserSteps
  <2>2. generation' \in Nat
    BY <2>1
  <2>3. armed' \in BOOLEAN
    BY <2>1
  <2> QED  BY <1>1, <2>2, <2>3, UserSteps
<1>2. CASE TimerFires \/ Quit
  <2>1. /\ generation' \in {generation, generation + 1} /\ Capture \in Drafts
        /\ jobs' = jobs \cup {[drafts |-> Capture, generation |-> generation']}
    BY <1>2, CaptureSteps, CaptureType
  <2>2. generation' \in Nat
    BY <2>1
  <2>3. [drafts |-> Capture, generation |-> generation'] \in [drafts : Drafts, generation : Nat]
    BY <2>1, <2>2
  <2>4. jobs' \subseteq [drafts : Drafts, generation : Nat]
    BY <2>1, <2>3
  <2> QED  BY <1>2, <2>1, <2>2, <2>4, CaptureSteps
<1>3. CASE Stop
  BY <1>3 DEF Stop
<1>4. CASE Start
  <2>1. composer' \in 0..MaxTexts
    BY <1>4, KeysApart DEF Start, Drafts
  <2> QED  BY <1>4, <2>1 DEF Start
<1>5. ASSUME NEW job \in jobs, Save(job)  PROVE DraftsTypeOK'
  <2>1. job.drafts \in Drafts /\ job.generation \in Nat
    OBVIOUS
  <2>2. ApplyChanges(ComposerDraftChanges(snapshot, job.drafts))
    BY <1>5 DEF Save
  <2>3. stored' \in Drafts /\ gone' \subseteq 1..MaxTexts
    BY <2>2, ChangesApplied, GoneType
  <2> QED  BY <1>5, <2>1, <2>3 DEF Save
<1>6. ASSUME NEW job \in jobs, DropOvertaken(job)  PROVE DraftsTypeOK'
  BY <1>6 DEF DropOvertaken
<1>7. ASSUME NEW job \in jobs, SaveFails(job)  PROVE DraftsTypeOK'
  <2>1. CASE UNCHANGED <<storeVars, unanswered, unsure>>
    BY <1>7, <2>1 DEF SaveFails
  <2>2. CASE ApplyChanges(ComposerDraftChanges(snapshot, job.drafts)) /\ unanswered' = TRUE
             /\ unsure' = unsure \cup DOMAIN ComposerDraftChanges(snapshot, job.drafts)
    <3>1. stored' \in Drafts /\ gone' \subseteq 1..MaxTexts /\ unsure' \subseteq DesktopKeys
      BY <2>2, ChangesApplied, GoneType
    <3> QED  BY <1>7, <2>2, <3>1 DEF SaveFails
  <2> QED  BY <1>7, <2>1, <2>2 DEF SaveFails
<1> QED  BY <1>1, <1>2, <1>3, <1>4, <1>5, <1>6, <1>7 DEF DesktopUserNext, DesktopNext, UserNext

LEMMA PageFrame ==
  ASSUME PageUserNext \/ PageNext
  PROVE  UNCHANGED desktopVars
BY DEF PageUserNext, PageNext, PageTypes, PageClears, PageEdit, PageSubmits, PageMoves,
       PageTimerFires, PageWrites, PageWriteFails, PageReloads

LEMMA DesktopFrame ==
  ASSUME DesktopUserNext \/ DesktopNext
  PROVE  UNCHANGED pageVars
BY DEF DesktopUserNext, DesktopNext, TypeText, ClearText, Edit, Quit, SelectTask, MoveDraft, Submit,
       TimerFires, Stop, Start, Save, DropOvertaken, SaveFails

LEMMA TextsStep ==
  ASSUME TextsCounted, [DraftsNext]_draftVars
  PROVE  TextsCounted' /\ texts' \in {texts, texts + 1}
<1>1. texts \in 0..MaxTexts
  BY DEF TextsCounted
<1>2. texts' = texts \/ (texts < MaxTexts /\ texts' = texts + 1)
  BY DEF DraftsNext, DesktopUserNext, DesktopNext, PageUserNext, PageNext, TypeText, ClearText, Quit,
         SelectTask, MoveDraft, Submit, TimerFires, Stop, Start, Save, DropOvertaken, SaveFails,
         PageTypes, PageClears, PageSubmits, PageMoves, PageTimerFires, PageWrites, PageWriteFails,
         PageReloads, Types, Acts, Fails, boundVars, draftVars
<1> QED  BY <1>1, <1>2, DraftBoundsAssumption DEF TextsCounted

LEMMA KeepsPagesStep ==
  ASSUME DraftsTypeOK, TextsCounted, DesktopKeepsPages, JobsInOrder, [DraftsNext]_draftVars
  PROVE  DesktopKeepsPages'
<1>1. CASE UNCHANGED <<drafts, snapshot, jobs>>
  BY <1>1 DEF DesktopKeepsPages
<1>2. CASE UserNext
  BY <1>2, UserSteps DEF DesktopKeepsPages
<1>3. CASE TimerFires \/ Quit
  <2>1. /\ drafts' = Capture /\ snapshot' = snapshot
        /\ jobs' = jobs \cup {[drafts |-> Capture, generation |-> generation']}
    BY <1>3, CaptureSteps
  <2>2. \A key \in PageKeys : Capture[key] = snapshot[key]
    BY CaptureType, KeysApart DEF DesktopKeepsPages, DraftsTypeOK
  <2> QED  BY <2>1, <2>2 DEF DesktopKeepsPages
<1>4. CASE Stop
  BY <1>4 DEF Stop, DesktopKeepsPages
<1>5. CASE Start
  BY <1>5 DEF Start, DesktopKeepsPages, JobsInOrder
<1>6. ASSUME NEW job \in jobs, Save(job) \/ DropOvertaken(job) \/ SaveFails(job)
      PROVE  DesktopKeepsPages'
  BY <1>6 DEF Save, DropOvertaken, SaveFails, DesktopKeepsPages
<1>7. CASE PageUserNext \/ PageNext
  BY <1>1, <1>7, PageFrame DEF desktopVars
<1> QED  BY <1>1, <1>2, <1>3, <1>4, <1>5, <1>6, <1>7
         DEF DraftsNext, DesktopUserNext, DesktopNext, UserNext, draftVars, desktopVars

\* A step of the page leaves the drafts of the desktop's keys alone.
LEMMA PageKeepsDesktop ==
  ASSUME DraftsTypeOK, PageUserNext \/ PageNext
  PROVE  \A key \in DesktopKeys : stored'[key] = stored[key]
<1>1. CASE UNCHANGED stored
  BY <1>1
<1>2. CASE PageWrites
  <2>1. Head(writes) \in PageChanges /\ stored' = Changed(stored, Head(writes))
    BY <1>2, HeadTailProperties DEF PageWrites, ApplyChanges, DraftsTypeOK
  <2>2. DOMAIN Head(writes) \subseteq PageKeys
    BY <2>1 DEF PageChanges
  <2> QED  BY <2>1, <2>2, KeysApart DEF Changed
<1> QED  BY <1>1, <1>2
         DEF PageUserNext, PageNext, PageTypes, PageClears, PageEdit, PageSubmits, PageMoves,
             PageTimerFires, PageWriteFails, PageReloads, storeVars

LEMMA SnapshotStep ==
  ASSUME DraftsTypeOK, TextsCounted, DesktopKeepsPages, SnapshotIsStored, [DraftsNext]_draftVars
  PROVE  SnapshotIsStored'
<1>1. CASE UNCHANGED <<stored, snapshot, unsure>>
  BY <1>1 DEF SnapshotIsStored
<1>2. CASE UserNext
  BY <1>1, <1>2, UserSteps DEF storeVars
<1>3. CASE TimerFires \/ Quit
  BY <1>1, <1>3, CaptureSteps DEF storeVars
<1>4. CASE Stop
  BY <1>1, <1>4 DEF Stop, storeVars
<1>5. CASE Start
  BY <1>5 DEF Start, SnapshotIsStored, storeVars
<1>6. ASSUME NEW job \in jobs, Save(job)  PROVE SnapshotIsStored'
  <2>1. /\ ApplyChanges(ComposerDraftChanges(snapshot, job.drafts))
        /\ snapshot' = job.drafts
        /\ unsure' = unsure \ DOMAIN ComposerDraftChanges(snapshot, job.drafts)
    BY <1>6 DEF Save
  <2> QED  BY <2>1, ChangesApplied DEF SnapshotIsStored
<1>7. ASSUME NEW job \in jobs, DropOvertaken(job)  PROVE SnapshotIsStored'
  BY <1>1, <1>7 DEF DropOvertaken, storeVars
<1>8. ASSUME NEW job \in jobs, SaveFails(job)  PROVE SnapshotIsStored'
  <2>1. CASE UNCHANGED <<storeVars, unanswered, unsure>>
    BY <1>1, <1>8, <2>1 DEF SaveFails, storeVars
  <2>2. CASE ApplyChanges(ComposerDraftChanges(snapshot, job.drafts)) /\ unanswered' = TRUE
             /\ unsure' = unsure \cup DOMAIN ComposerDraftChanges(snapshot, job.drafts)
    <3>1. snapshot' = snapshot
      BY <1>8 DEF SaveFails
    <3> QED  BY <2>2, <3>1, ChangesApplied DEF SnapshotIsStored
  <2> QED  BY <1>8, <2>1, <2>2 DEF SaveFails
<1>9. CASE PageUserNext \/ PageNext
  BY <1>9, PageFrame, PageKeepsDesktop DEF desktopVars, SnapshotIsStored
<1> QED  BY <1>1, <1>2, <1>3, <1>4, <1>5, <1>6, <1>7, <1>8, <1>9
         DEF DraftsNext, DesktopUserNext, DesktopNext, UserNext, draftVars, desktopVars, storeVars

LEMMA JobsOrderStep ==
  ASSUME DraftsTypeOK, TextsCounted, JobsInOrder, [DraftsNext]_draftVars
  PROVE  JobsInOrder'
<1>1. /\ generation \in Nat /\ saved \in Nat /\ \A job \in jobs : job.generation \in Nat
      /\ running \in {"yes", "quitting", "no"}
  BY DEF DraftsTypeOK
<1>2. Capture' = [drafts' EXCEPT ![selected'] = composer']
  BY DEF Capture
<1>3. CASE UNCHANGED desktopVars
  BY <1>3 DEF desktopVars, JobsInOrder, Capture
<1>4. CASE UserNext
  <2>1. /\ running = "yes" /\ UNCHANGED <<running, jobs, snapshot, saved>>
        /\ \/ generation' = generation + 1 /\ armed' = TRUE
           \/ UNCHANGED <<generation, armed>> /\ Capture' = Capture
    BY <1>4, UserSteps
  <2>2. CASE UNCHANGED <<generation, armed>> /\ Capture' = Capture
    BY <2>1, <2>2 DEF JobsInOrder
  <2>3. CASE generation' = generation + 1 /\ armed' = TRUE
    <3>1. saved' < generation' /\ \A job \in jobs' : job.generation < generation'
      BY <1>1, <2>1, <2>3 DEF JobsInOrder
    <3>2. saved' <= generation' /\ \A job \in jobs' : job.generation <= generation'
      BY <1>1, <2>1, <2>3 DEF JobsInOrder
    <3> QED  BY <2>1, <2>3, <3>1, <3>2 DEF JobsInOrder
  <2> QED  BY <2>1, <2>2, <2>3
<1>5. CASE TimerFires \/ Quit
  <2>1. /\ running = "yes" /\ armed' = FALSE /\ running' \in {"yes", "quitting"}
        /\ UNCHANGED <<snapshot, saved>> /\ Capture' = Capture
        /\ generation' \in {generation, generation + 1}
        /\ generation' = generation => armed
        /\ jobs' = jobs \cup {[drafts |-> Capture, generation |-> generation']}
    BY <1>5, CaptureSteps
  <2>2. saved < generation' /\ \A job \in jobs : job.generation < generation'
    <3>1. CASE generation' = generation
      BY <2>1, <3>1 DEF JobsInOrder
    <3>2. CASE generation' = generation + 1
      BY <1>1, <3>2 DEF JobsInOrder
    <3> QED  BY <2>1, <3>1, <3>2
  <2>3. /\ generation' \in Nat /\ saved' <= generation' /\ saved' # generation'
        /\ \A job \in jobs : job.generation <= generation' /\ job.generation # generation'
    BY <1>1, <2>1, <2>2
  <2>4. \A job \in jobs' : \/ job \in jobs
                           \/ job.drafts = Capture /\ job.generation = generation'
    BY <2>1
  <2>5. \A job \in jobs' : job.generation <= generation'
    BY <2>3, <2>4
  <2>6. \A job \in jobs' : job.generation = generation' => job.drafts = Capture'
    BY <2>1, <2>3, <2>4
  <2> QED  BY <2>1, <2>3, <2>5, <2>6 DEF JobsInOrder
<1>6. CASE Stop
  <2>1. /\ jobs' = {} /\ armed' = FALSE /\ running' = "no" /\ running # "no"
        /\ UNCHANGED <<generation, saved, snapshot, drafts, selected, composer>>
    BY <1>6 DEF Stop
  <2>2. Capture' = Capture
    BY <2>1 DEF Capture
  <2>3. saved = generation => ~ armed
    BY <1>1 DEF JobsInOrder
  <2>4. saved' = generation' => snapshot' = Capture'
    BY <2>1, <2>2, <2>3 DEF JobsInOrder
  <2> QED  BY <2>1, <2>4 DEF JobsInOrder
<1>7. CASE Start
  <2>1. /\ running = "no" /\ running' = "yes" /\ UNCHANGED <<armed, jobs>>
        /\ drafts' = stored /\ snapshot' = stored /\ composer' = stored[selected']
        /\ selected' \in DesktopKeys /\ generation' = 0 /\ saved' = 0
    BY <1>7 DEF Start
  <2>2. ~ armed /\ jobs = {}
    BY <2>1 DEF JobsInOrder
  <2>3. Capture' = stored
    BY <1>2, <2>1, KeysApart DEF DraftsTypeOK, Drafts
  <2> QED  BY <2>1, <2>2, <2>3 DEF JobsInOrder
<1>8. ASSUME NEW job \in jobs, Save(job)  PROVE JobsInOrder'
  <2>1. /\ UNCHANGED <<running, drafts, selected, composer, generation, armed>>
        /\ jobs' = jobs \ {job} /\ saved' = job.generation /\ snapshot' = job.drafts
    BY <1>8 DEF Save
  <2>2. Capture' = Capture
    BY <2>1 DEF Capture
  <2> QED  BY <2>1, <2>2 DEF JobsInOrder
<1>9. ASSUME NEW job \in jobs, DropOvertaken(job) \/ SaveFails(job)  PROVE JobsInOrder'
  <2>1. /\ UNCHANGED <<running, drafts, selected, composer, generation, armed, snapshot, saved>>
        /\ jobs' = jobs \ {job}
    BY <1>9 DEF DropOvertaken, SaveFails
  <2>2. Capture' = Capture
    BY <2>1 DEF Capture
  <2> QED  BY <2>1, <2>2 DEF JobsInOrder
<1> QED  BY <1>3, <1>4, <1>5, <1>6, <1>7, <1>8, <1>9, PageFrame
         DEF DraftsNext, DesktopUserNext, DesktopNext, UserNext, draftVars

-----------------------------------------------------------------------------
(* The page's writes. *)

LEMMA QueueAppend ==
  ASSUME NEW S, NEW q \in Seq(S), NEW e \in S
  PROVE  /\ Len(q) \in Nat /\ Len(Append(q, e)) = Len(q) + 1
         /\ Append(q, e)[Len(q) + 1] = e
         /\ \A k \in 1..Len(q) : Append(q, e)[k] = q[k]
         /\ \A k \in 1..Len(Append(q, e)) : k \in 1..Len(q) \/ k = Len(q) + 1
  OBVIOUS

LEMMA QueueTail ==
  ASSUME NEW S, NEW q \in Seq(S), q # << >>
  PROVE  /\ Tail(q) \in Seq(S) /\ Head(q) = q[1] /\ 1 \in 1..Len(q)
         /\ Len(q) \in Nat /\ Len(Tail(q)) = Len(q) - 1
         /\ \A i \in 1..Len(Tail(q)) : i \in Nat /\ i + 1 \in 1..Len(q) /\ Tail(q)[i] = q[i + 1]
<1>1. Len(q) \in Nat /\ Len(q) > 0
  BY LenProperties
<1>2. Tail(q) \in Seq(S) /\ Len(Tail(q)) = Len(q) - 1 /\ Head(q) = q[1]
  BY HeadTailProperties
<1>3. \A i \in 1..Len(Tail(q)) : i \in Nat /\ i + 1 \in 1..Len(q) /\ Tail(q)[i] = q[i + 1]
  BY <1>1, <1>2
<1> QED  BY <1>1, <1>2, <1>3

\* A write of what the page shows, with the timers of its keys stopped.
LEMMA EnqueueKeeps ==
  ASSUME DraftsTypeOK, PageIsOnItsWay, NEW changes \in PageChanges,
         writes' = Append(writes, changes), UNCHANGED <<stored, missed>>,
         \A key \in PageKeys :
           IF key \in DOMAIN changes
             THEN timers'[key] = None /\ changes[key] = page'[key]
             ELSE timers'[key] = timers[key] /\ page'[key] = page[key]
  PROVE  PageIsOnItsWay'
<1>1. /\ Len(writes) \in Nat /\ Len(writes') = Len(writes) + 1
      /\ writes'[Len(writes) + 1] = changes
      /\ \A k \in 1..Len(writes) : writes'[k] = writes[k]
      /\ \A k \in 1..Len(writes') : k \in 1..Len(writes) \/ k = Len(writes) + 1
  BY QueueAppend DEF DraftsTypeOK
<1>2. Len(writes) + 1 \in 1..Len(writes')
  BY <1>1
<1> SUFFICES ASSUME NEW key \in PageKeys
             PROVE  /\ timers'[key] # None => timers'[key] = page'[key]
                    /\ timers'[key] = None =>
                         /\ \A i \in 1..Len(writes') : IsLastWrite(i, key)' => writes'[i][key] = page'[key]
                         /\ key \notin missed' /\ (\A i \in 1..Len(writes') : key \notin DOMAIN writes'[i]) =>
                              stored'[key] = page'[key]
  BY DEF PageIsOnItsWay
<1>3. CASE key \in DOMAIN changes
  <2>1. ASSUME NEW i \in 1..Len(writes'), IsLastWrite(i, key)'
        PROVE  i = Len(writes) + 1
    <3>1. \A j \in (i + 1)..Len(writes') : key \notin DOMAIN writes'[j]
      BY <2>1 DEF IsLastWrite
    <3>2. Len(writes) + 1 \notin (i + 1)..Len(writes')
      BY <1>1, <1>3, <3>1
    <3> QED  BY <1>1, <3>2
  <2>2. key \in DOMAIN writes'[Len(writes) + 1]
    BY <1>1, <1>3
  <2> QED  BY <1>1, <1>2, <1>3, <2>1, <2>2
<1>4. CASE key \notin DOMAIN changes
  <2>1. timers'[key] = timers[key] /\ page'[key] = page[key]
    BY <1>4
  <2>2. ASSUME NEW i \in 1..Len(writes'), IsLastWrite(i, key)'
        PROVE  IsLastWrite(i, key) /\ writes'[i] = writes[i]
    <3>1. /\ key \in DOMAIN writes'[i]
          /\ \A j \in (i + 1)..Len(writes') : key \notin DOMAIN writes'[j]
      BY <2>2 DEF IsLastWrite
    <3>2. i \in 1..Len(writes) /\ writes'[i] = writes[i]
      BY <1>1, <1>4, <3>1
    <3>3. \A j \in (i + 1)..Len(writes) : j \in 1..Len(writes) /\ j \in (i + 1)..Len(writes')
      BY <1>1, <3>2
    <3>4. \A j \in (i + 1)..Len(writes) : key \notin DOMAIN writes[j]
      BY <1>1, <3>1, <3>3
    <3> QED  BY <3>1, <3>2, <3>4 DEF IsLastWrite
  <2>3. (\A i \in 1..Len(writes') : key \notin DOMAIN writes'[i]) =>
          \A i \in 1..Len(writes) : key \notin DOMAIN writes[i]
    <3>1. \A i \in 1..Len(writes) : i \in 1..Len(writes') /\ writes'[i] = writes[i]
      BY <1>1
    <3> QED  BY <3>1
  <2>4. \A i \in 1..Len(writes') : IsLastWrite(i, key) => i \in 1..Len(writes)
    BY DEF IsLastWrite
  <2> QED  BY <2>1, <2>2, <2>3, <2>4 DEF PageIsOnItsWay
<1> QED  BY <1>3, <1>4

\* A write is carried out, or missed.
LEMMA WriteTaken ==
  ASSUME DraftsTypeOK, PageIsOnItsWay, writes # << >>, writes' = Tail(writes),
         UNCHANGED <<timers, page>>,
         \A key \in PageKeys :
           IF key \in DOMAIN Head(writes)
             THEN key \in missed' \/ stored'[key] = Head(writes)[key]
             ELSE stored'[key] = stored[key] /\ (key \in missed => key \in missed')
  PROVE  PageIsOnItsWay'
<1>1. /\ Head(writes) = writes[1] /\ 1 \in 1..Len(writes)
      /\ Len(writes) \in Nat /\ Len(writes') = Len(writes) - 1
      /\ \A i \in 1..Len(writes') : i \in Nat /\ i + 1 \in 1..Len(writes) /\ writes'[i] = writes[i + 1]
  BY QueueTail DEF DraftsTypeOK
<1> SUFFICES ASSUME NEW key \in PageKeys
             PROVE  /\ timers'[key] # None => timers'[key] = page'[key]
                    /\ timers'[key] = None =>
                         /\ \A i \in 1..Len(writes') : IsLastWrite(i, key)' => writes'[i][key] = page'[key]
                         /\ key \notin missed' /\ (\A i \in 1..Len(writes') : key \notin DOMAIN writes'[i]) =>
                              stored'[key] = page'[key]
  BY DEF PageIsOnItsWay
<1>2. \A j \in 2..Len(writes) : j - 1 \in 1..Len(writes') /\ writes'[j - 1] = writes[j]
  BY <1>1
<1>3. ASSUME NEW i \in 1..Len(writes'), IsLastWrite(i, key)'
      PROVE  IsLastWrite(i + 1, key) /\ writes'[i] = writes[i + 1]
  <2>1. /\ key \in DOMAIN writes'[i]
        /\ \A j \in (i + 1)..Len(writes') : key \notin DOMAIN writes'[j]
    BY <1>3 DEF IsLastWrite
  <2>2. ASSUME NEW j \in (i + 2)..Len(writes)
        PROVE  key \notin DOMAIN writes[j]
    <3>1. j - 1 \in (i + 1)..Len(writes') /\ j \in 2..Len(writes)
      BY <1>1
    <3>2. writes'[j - 1] = writes[j]
      BY <1>2, <3>1
    <3> QED  BY <2>1, <3>1, <3>2
  <2>3. i \in Nat /\ i + 1 \in 1..Len(writes) /\ writes'[i] = writes[i + 1]
    BY <1>1
  <2>4. \A j \in ((i + 1) + 1)..Len(writes) : key \notin DOMAIN writes[j]
    BY <2>2, <2>3
  <2> QED  BY <2>1, <2>3, <2>4 DEF IsLastWrite
<1>4. ASSUME key \notin missed', \A i \in 1..Len(writes') : key \notin DOMAIN writes'[i],
             timers[key] = None
      PROVE  stored'[key] = page[key]
  <2>1. \A j \in 2..Len(writes) : key \notin DOMAIN writes[j]
    BY <1>2, <1>4
  <2>2. CASE key \in DOMAIN Head(writes)
    <3>1. IsLastWrite(1, key)
      BY <1>1, <2>1, <2>2 DEF IsLastWrite
    <3>2. writes[1][key] = page[key]
      BY <1>1, <1>4, <3>1 DEF PageIsOnItsWay
    <3> QED  BY <1>1, <1>4, <2>2, <3>2
  <2>3. CASE key \notin DOMAIN Head(writes)
    <3>1. \A j \in 1..Len(writes) : key \notin DOMAIN writes[j]
      BY <1>1, <2>1, <2>3
    <3> QED  BY <1>4, <2>3, <3>1 DEF PageIsOnItsWay
  <2> QED  BY <2>2, <2>3
<1>5. \A i \in 1..Len(writes') : i + 1 \in 1..Len(writes)
  BY <1>1
<1> QED  BY <1>3, <1>4, <1>5 DEF PageIsOnItsWay

LEMMA DesktopKeepsPage ==
  ASSUME DraftsTypeOK, TextsCounted, DesktopKeepsPages, DesktopUserNext \/ DesktopNext
  PROVE  \A key \in PageKeys : stored'[key] = stored[key]
<1>1. CASE UNCHANGED stored
  BY <1>1
<1>2. ASSUME NEW job \in jobs, ApplyChanges(ComposerDraftChanges(snapshot, job.drafts))
      PROVE  \A key \in PageKeys : stored'[key] = stored[key]
  BY <1>2, ChangesApplied
<1> QED  BY <1>1, <1>2
         DEF DesktopUserNext, DesktopNext, TypeText, ClearText, Edit, Quit, SelectTask, MoveDraft,
             Submit, TimerFires, Stop, Start, Save, DropOvertaken, SaveFails, storeVars

LEMMA PageStep ==
  ASSUME DraftsTypeOK, TextsCounted, DesktopKeepsPages, PageIsOnItsWay, [DraftsNext]_draftVars
  PROVE  PageIsOnItsWay'
<1>1. /\ page \in Drafts /\ timers \in [PageKeys -> 0..MaxTexts \cup {None}]
      /\ writes \in Seq(PageChanges) /\ texts \in 0..MaxTexts
  BY DEF DraftsTypeOK, TextsCounted
<1>2. CASE UNCHANGED pageVars /\ \A key \in PageKeys : stored'[key] = stored[key]
  BY <1>2 DEF pageVars, PageIsOnItsWay, IsLastWrite
<1>3. ASSUME NEW key \in PageKeys, NEW text \in 0..MaxTexts, PageEdit(key, text)
      PROVE  PageIsOnItsWay'
  <2>1. /\ page' = [page EXCEPT ![key] = text] /\ timers' = [timers EXCEPT ![key] = text]
        /\ UNCHANGED <<stored, writes, missed>>
    BY <1>3 DEF PageEdit, storeVars
  <2>2. page'[key] = text /\ timers'[key] = text /\ text # None
    BY <1>1, <2>1, KeysApart, NoTimerAssumption DEF Drafts
  <2>3. \A k \in PageKeys : k # key => page'[k] = page[k] /\ timers'[k] = timers[k]
    BY <1>1, <2>1, KeysApart DEF Drafts
  <2> QED  BY <2>1, <2>2, <2>3 DEF PageIsOnItsWay, IsLastWrite
<1>4. ASSUME NEW key \in PageKeys, PageTypes(key) \/ PageClears(key)
      PROVE  PageIsOnItsWay'
  <2>1. texts < MaxTexts => texts + 1 \in 0..MaxTexts
    BY <1>1, DraftBoundsAssumption
  <2>2. 0 \in 0..MaxTexts
    BY DraftBoundsAssumption
  <2> QED  BY <1>3, <1>4, <2>1, <2>2 DEF PageTypes, PageClears, Types
<1>5. ASSUME NEW key \in PageKeys, NEW text \in 0..MaxTexts
      PROVE  /\ OneChange(key, text) \in PageChanges /\ DOMAIN OneChange(key, text) = {key}
             /\ OneChange(key, text)[key] = text
  <2>1. OneChange(key, text) \in [{key} -> 0..MaxTexts] /\ {key} \in SUBSET PageKeys
    BY DEF OneChange
  <2> QED  BY <2>1, PageChangeType DEF OneChange
<1>6. ASSUME NEW key \in PageKeys, PageTimerFires(key)
      PROVE  PageIsOnItsWay'
  <2>1. /\ timers[key] \in 0..MaxTexts /\ timers[key] = page[key]
        /\ timers' = [timers EXCEPT ![key] = None] /\ writes' = Append(writes, OneChange(key, timers[key]))
        /\ UNCHANGED <<stored, page, missed>>
    BY <1>1, <1>6 DEF PageTimerFires, Enqueue, PageIsOnItsWay, storeVars
  <2>2. \A k \in PageKeys : timers'[k] = IF k = key THEN None ELSE timers[k]
    BY <1>1, <2>1
  <2> DEFINE changes == OneChange(key, timers[key])
  <2>3. /\ changes \in PageChanges /\ DOMAIN changes = {key} /\ changes[key] = timers[key]
        /\ writes' = Append(writes, changes)
    BY <1>5, <2>1
  <2> HIDE DEF changes
  <2>4. \A k \in PageKeys :
          IF k \in DOMAIN changes
            THEN timers'[k] = None /\ changes[k] = page'[k]
            ELSE timers'[k] = timers[k] /\ page'[k] = page[k]
    BY <2>1, <2>2, <2>3
  <2> QED  BY <2>1, <2>3, <2>4, EnqueueKeeps
<1>7. ASSUME NEW key \in PageKeys, PageSubmits(key)
      PROVE  PageIsOnItsWay'
  <2>1. /\ page' = [page EXCEPT ![key] = 0]
        /\ timers' = [timers EXCEPT ![key] = None] /\ writes' = Append(writes, OneChange(key, 0))
        /\ UNCHANGED <<stored, missed>>
    BY <1>7 DEF PageSubmits, Enqueue, storeVars
  <2>2. \A k \in PageKeys : /\ timers'[k] = IF k = key THEN None ELSE timers[k]
                            /\ page'[k] = IF k = key THEN 0 ELSE page[k]
    BY <1>1, <2>1, KeysApart DEF Drafts
  <2>3. 0 \in 0..MaxTexts
    BY DraftBoundsAssumption
  <2> DEFINE changes == OneChange(key, 0)
  <2>4. /\ changes \in PageChanges /\ DOMAIN changes = {key} /\ changes[key] = 0
        /\ writes' = Append(writes, changes)
    BY <1>5, <2>1, <2>3
  <2> HIDE DEF changes
  <2>5. \A k \in PageKeys :
          IF k \in DOMAIN changes
            THEN timers'[k] = None /\ changes[k] = page'[k]
            ELSE timers'[k] = timers[k] /\ page'[k] = page[k]
    BY <2>1, <2>2, <2>4
  <2> QED  BY <2>1, <2>4, <2>5, EnqueueKeeps
<1>8. ASSUME NEW from \in PageKeys, NEW to \in PageKeys, PageMoves(from, to)
      PROVE  PageIsOnItsWay'
  <2> DEFINE changes == [k \in {from, to} |-> IF k = from THEN 0 ELSE page[from]]
  <2>1. changes \in [{from, to} -> 0..MaxTexts] /\ {from, to} \in SUBSET PageKeys
    BY <1>1, KeysApart, DraftBoundsAssumption DEF Drafts
  <2>2. changes \in PageChanges
    BY <2>1, PageChangeType
  <2>3. /\ page' = Changed(page, changes) /\ writes' = Append(writes, changes)
        /\ timers' = [timers EXCEPT ![from] = None, ![to] = None]
        /\ UNCHANGED <<stored, missed>>
    BY <1>8 DEF PageMoves, Enqueue, storeVars
  <2>4. DOMAIN changes = {from, to}
    OBVIOUS
  <2> HIDE DEF changes
  <2>5. \A k \in PageKeys : /\ timers'[k] = IF k \in {from, to} THEN None ELSE timers[k]
                            /\ page'[k] = IF k \in {from, to} THEN changes[k] ELSE page[k]
    BY <1>1, <2>3, <2>4, KeysApart DEF Changed
  <2> QED  BY <2>2, <2>3, <2>4, <2>5, EnqueueKeeps
<1>9. writes # << >> => Head(writes) \in PageChanges /\ DOMAIN Head(writes) \subseteq PageKeys
  <2>1. writes # << >> => Head(writes) \in PageChanges
    BY <1>1, HeadTailProperties
  <2> QED  BY <2>1 DEF PageChanges
<1>10. CASE PageWrites
  <2>1. /\ writes # << >> /\ writes' = Tail(writes) /\ stored' = Changed(stored, Head(writes))
        /\ missed' = missed \ DOMAIN Head(writes) /\ UNCHANGED <<timers, page>>
    BY <1>10 DEF PageWrites, ApplyChanges
  <2>2. \A k \in PageKeys :
          stored'[k] = IF k \in DOMAIN Head(writes) THEN Head(writes)[k] ELSE stored[k]
    BY <2>1, KeysApart DEF Changed
  <2>3. \A k \in PageKeys :
          IF k \in DOMAIN Head(writes)
            THEN k \in missed' \/ stored'[k] = Head(writes)[k]
            ELSE stored'[k] = stored[k] /\ (k \in missed => k \in missed')
    BY <2>1, <2>2
  <2> QED  BY <2>1, <2>3, WriteTaken
<1>11. CASE PageWriteFails
  <2>1. /\ writes # << >> /\ writes' = Tail(writes) /\ stored' = stored
        /\ missed' = missed \cup DOMAIN Head(writes) /\ UNCHANGED <<timers, page>>
    BY <1>11 DEF PageWriteFails, storeVars
  <2>2. \A k \in PageKeys :
          IF k \in DOMAIN Head(writes)
            THEN k \in missed' \/ stored'[k] = Head(writes)[k]
            ELSE stored'[k] = stored[k] /\ (k \in missed => k \in missed')
    BY <2>1
  <2> QED  BY <2>1, <2>2, WriteTaken
<1>12. CASE PageReloads
  <2>1. /\ page' = stored /\ timers' = [key \in PageKeys |-> None] /\ writes' = << >>
        /\ stored' = stored
    BY <1>12 DEF PageReloads, storeVars
  <2> QED  BY <2>1 DEF PageIsOnItsWay
<1>13. CASE DesktopUserNext \/ DesktopNext
  BY <1>2, <1>13, DesktopFrame, DesktopKeepsPage
<1>14. CASE UNCHANGED draftVars
  BY <1>2, <1>14 DEF draftVars, storeVars
<1> QED  BY <1>4, <1>6, <1>7, <1>8, <1>10, <1>11, <1>12, <1>13, <1>14
         DEF DraftsNext, PageUserNext, PageNext

-----------------------------------------------------------------------------

LEMMA DraftsInitially ==
  ASSUME DraftsInit
  PROVE  DraftsIInv
<1>1. Empty \in Drafts /\ 0 \in 0..MaxTexts
  BY DraftBoundsAssumption DEF Empty, Drafts
<1>2. Capture = Empty
  BY KeysApart DEF DraftsInit, Capture, Empty
<1>3. timers \in [PageKeys -> 0..MaxTexts \cup {None}] /\ writes \in Seq(PageChanges)
  BY DEF DraftsInit
<1>4. DraftsTypeOK
  BY <1>1, <1>3 DEF DraftsInit, DraftsTypeOK
<1>5. TextsCounted /\ DesktopKeepsPages /\ SnapshotIsStored
  BY <1>1 DEF DraftsInit, TextsCounted, DesktopKeepsPages, SnapshotIsStored
<1>6. JobsInOrder
  BY <1>2 DEF DraftsInit, JobsInOrder
<1>7. PageIsOnItsWay
  BY DEF DraftsInit, PageIsOnItsWay
<1> QED  BY <1>4, <1>5, <1>6, <1>7 DEF DraftsIInv

LEMMA DraftsStep ==
  ASSUME DraftsIInv, [DraftsNext]_draftVars
  PROVE  DraftsIInv'
<1>1. /\ DraftsTypeOK /\ TextsCounted /\ DesktopKeepsPages /\ SnapshotIsStored
      /\ JobsInOrder /\ PageIsOnItsWay
  BY DEF DraftsIInv
<1>2. DraftsTypeOK'
  <2>1. CASE UNCHANGED draftVars
    BY <1>1, <2>1 DEF draftVars, desktopVars, pageVars, storeVars, boundVars, DraftsTypeOK
  <2> QED  BY <1>1, <2>1, PageStepTypes, DesktopStepTypes DEF DraftsNext
<1>3. TextsCounted'
  BY <1>1, TextsStep
<1>4. DesktopKeepsPages'
  BY <1>1, KeepsPagesStep
<1>5. SnapshotIsStored'
  BY <1>1, SnapshotStep
<1>6. JobsInOrder'
  BY <1>1, JobsOrderStep
<1>7. PageIsOnItsWay'
  BY <1>1, PageStep
<1> QED  BY <1>2, <1>3, <1>4, <1>5, <1>6, <1>7 DEF DraftsIInv

(***************************************************************************)
(* The inductive invariant of the drafts: what is not stored yet is under  *)
(* way, in the job of the newest generation or in the last write of a key  *)
(* (drafts.rs, ComposerDraftStore::save, waku-app.tsx).                    *)
(***************************************************************************)
THEOREM DraftsInductive == DraftsSpec => []DraftsIInv
  BY DraftsInitially, DraftsStep, PTL DEF DraftsSpec

(***************************************************************************)
(* Whatever the two clients, their timers, jobs, failures and restarts do, *)
(* every variable keeps its type, and a client with nothing left to save   *)
(* finds each of its drafts stored.                                        *)
(***************************************************************************)
THEOREM DraftsCorrect == DraftsSpec => []DraftsInvariant
<1>1. DraftsIInv => DraftsInvariant
  <2> SUFFICES ASSUME DraftsIInv  PROVE SavedIsStored
    BY DEF DraftsIInv, DraftsInvariant
  <2>1. ASSUME DesktopSettled, NEW key \in DesktopKeys \ unsure
        PROVE  stored[key] = Capture[key]
    BY <2>1 DEF DraftsIInv, DesktopSettled, SnapshotIsStored, JobsInOrder
  <2>2. ASSUME NEW key \in PageKeys, PageSettled(key)
        PROVE  stored[key] = page[key]
    BY <2>2 DEF DraftsIInv, PageSettled, PageIsOnItsWay
  <2> QED  BY <2>1, <2>2 DEF SavedIsStored
<1> QED  BY <1>1, DraftsInductive, PTL
-----------------------------------------------------------------------------
(* Nothing comes back: the documents the daemon is still to hold, in their *)
(* order, for each client.                                                 *)

OnDesktop(text, document) == \E key \in DesktopKeys : document[key] = text
OnPage(text, document) == \E key \in PageKeys : document[key] = text

JobsDiffer ==
  /\ \A job \in jobs : job.generation # saved
  /\ \A job, other \in jobs : job.generation = other.generation => job = other

\* The saves that will be sent, unless a later one overtakes them.
Waiting == {job \in jobs : saved < job.generation}

\* A text that is gone, or was in the desktop's snapshot or a waiting save and is
\* not in a later one, is in none after that, nor on screen.
LeavesDesktop(text) ==
  /\ text \in gone /\ ~ OnDesktop(text, snapshot) =>
       /\ ~ OnDesktop(text, Capture)
       /\ \A job \in Waiting : ~ OnDesktop(text, job.drafts)
  /\ \A job \in Waiting :
       /\ ~ OnDesktop(text, job.drafts)
       /\ \/ OnDesktop(text, snapshot)
          \/ \E earlier \in Waiting :
               earlier.generation < job.generation /\ OnDesktop(text, earlier.drafts)
       => /\ ~ OnDesktop(text, Capture)
          /\ \A later \in Waiting :
               job.generation < later.generation => ~ OnDesktop(text, later.drafts)

DesktopLine ==
  /\ JobsDiffer
  /\ ~ unanswered => unsure = {} /\ \A text \in 1..MaxTexts : LeavesDesktop(text)

\* The page's drafts after each of its writes, had none of them failed.
IsLine(versions) ==
  /\ versions \in [0..Len(writes) -> [PageKeys -> 0..MaxTexts]]
  /\ \A key \in PageKeys \ missed : versions[0][key] = stored[key]
  /\ \A i \in 1..Len(writes) : \A key \in PageKeys :
       versions[i][key] = IF key \in DOMAIN writes[i] THEN writes[i][key] ELSE versions[i - 1][key]
  /\ \A key \in PageKeys : timers[key] = None => versions[Len(writes)][key] = page[key]

LeavesPage(versions, text) ==
  /\ (text \in gone \/ OnPage(text, stored)) /\ ~ OnPage(text, versions[0]) =>
       \A i \in 0..Len(writes) : ~ OnPage(text, versions[i])
  /\ \A i, j, k \in 0..Len(writes) :
       i < j /\ j < k /\ OnPage(text, versions[i]) /\ ~ OnPage(text, versions[j]) =>
         ~ OnPage(text, versions[k])

\* What waits for its timer nobody else knows.
OnlyTyped(versions, key) ==
  page[key] # 0 =>
    /\ page[key] \notin gone /\ ~ OnPage(page[key], stored)
    /\ \A i \in 0..Len(writes) : ~ OnPage(page[key], versions[i])
    /\ \A other \in PageKeys \ {key} : page[other] # page[key]

\* A text belongs to the client it was typed in, and the next one is new.
OfDesktop(text) ==
  \/ OnDesktop(text, stored) \/ OnDesktop(text, snapshot) \/ OnDesktop(text, Capture)
  \/ \E job \in jobs : OnDesktop(text, job.drafts)

OfPage(versions, text) ==
  \/ OnPage(text, page) \/ OnPage(text, stored)
  \/ \E i \in 0..Len(writes) : OnPage(text, versions[i])

Owned(versions, text) ==
  /\ ~ (OfDesktop(text) /\ OfPage(versions, text))
  /\ OfDesktop(text) \/ OfPage(versions, text) \/ text \in gone => text <= texts

PageLine(versions) ==
  /\ IsLine(versions)
  /\ \A key \in PageKeys : timers[key] # None => OnlyTyped(versions, key)
  /\ \A text \in 1..MaxTexts : LeavesPage(versions, text) /\ Owned(versions, text)

LinesIInv ==
  /\ DraftsIInv
  /\ DesktopLine
  /\ \E versions : PageLine(versions)
-----------------------------------------------------------------------------

\* What an application of changes takes out of the document.
LEMMA GoneStep ==
  ASSUME DraftsTypeOK, NEW changes, ApplyChanges(changes), NEW text \in 1..MaxTexts
  PROVE  text \in gone' =>
           \/ text \in gone
           \/ /\ OnDesktop(text, stored) \/ OnPage(text, stored)
              /\ ~ OnDesktop(text, stored') /\ ~ OnPage(text, stored')
<1>1. stored \in Drafts /\ stored' = [key \in Keys |-> IF key \in DOMAIN changes THEN changes[key] ELSE stored[key]]
  BY DEF DraftsTypeOK, ApplyChanges, Changed
<1>2. DOMAIN stored = Keys /\ DOMAIN stored' = Keys
  BY <1>1 DEF Drafts
<1>3. SUFFICES ASSUME text \in gone', text \notin gone
               PROVE  /\ OnDesktop(text, stored) \/ OnPage(text, stored)
                      /\ ~ OnDesktop(text, stored') /\ ~ OnPage(text, stored')
  OBVIOUS
<1>4. text \in Range(stored) /\ text \notin Range(stored')
  BY <1>3 DEF ApplyChanges
<1>5. \E key \in Keys : stored[key] = text
  BY <1>2, <1>4 DEF Range
<1>6. \A key \in Keys : stored'[key] # text
  BY <1>2, <1>4 DEF Range
<1> QED  BY <1>5, <1>6, KeysApart DEF OnDesktop, OnPage

\* What the user's steps put on screen is a new text, or was there.
LEMMA UserTexts ==
  ASSUME DraftsTypeOK, TextsCounted, UserNext, NEW text \in 1..MaxTexts, OnDesktop(text, Capture')
  PROVE  OnDesktop(text, Capture) \/ (text = texts + 1 /\ texts' = texts + 1)
<1>1. /\ drafts \in Drafts /\ selected \in DesktopKeys /\ composer \in 0..MaxTexts
      /\ texts \in 0..MaxTexts /\ text # 0
  BY DraftBoundsAssumption DEF DraftsTypeOK, TextsCounted
<1>2. Capture' = [drafts' EXCEPT ![selected'] = composer']
  BY DEF Capture
<1>3. /\ DesktopKeys \subseteq Keys
      /\ drafts' \in Drafts /\ selected' \in DesktopKeys /\ composer' \in 0..MaxTexts
  BY UserSteps, KeysApart
<1>4. \A key \in Keys : Capture'[key] = IF key = selected' THEN composer' ELSE drafts'[key]
  BY <1>2, <1>3 DEF Drafts
<1>5. \A key \in Keys : Capture[key] = IF key = selected THEN composer ELSE drafts[key]
  BY CaptureType
<1>6. PICK key \in DesktopKeys : Capture'[key] = text
  BY DEF OnDesktop
<1>7. ASSUME NEW typed, Edit(typed)
      PROVE  OnDesktop(text, Capture) \/ text = typed
  <2>1. composer' = typed /\ UNCHANGED <<drafts, selected>>
    BY <1>7 DEF Edit
  <2>2. CASE key = selected
    BY <1>3, <1>4, <1>6, <2>1, <2>2
  <2>3. CASE key # selected
    <3>1. Capture[key] = text
      BY <1>3, <1>4, <1>5, <1>6, <2>1, <2>3
    <3> QED  BY <3>1 DEF OnDesktop
  <2> QED  BY <2>2, <2>3
<1>8. CASE TypeText
  BY <1>7, <1>8 DEF TypeText, Types
<1>9. CASE ClearText
  BY <1>1, <1>7, <1>9 DEF ClearText
<1>10. ASSUME NEW to \in DesktopKeys, SelectTask(to)
       PROVE  OnDesktop(text, Capture)
  <2>1. drafts' = Capture /\ selected' = to /\ composer' = Capture[to]
    BY <1>10 DEF SelectTask
  <2>2. Capture[key] = text
    BY <1>3, <1>4, <1>6, <2>1
  <2> QED  BY <2>2 DEF OnDesktop
<1>11. ASSUME NEW to \in DesktopKeys, MoveDraft(to)
       PROVE  OnDesktop(text, Capture)
  <2>1. /\ to # selected /\ composer' = composer /\ selected' = to
        /\ drafts' = [drafts EXCEPT ![selected] = 0, ![to] = composer]
    BY <1>11 DEF MoveDraft
  <2>2. CASE key = to
    <3>1. Capture[selected] = text
      BY <1>1, <1>3, <1>4, <1>5, <1>6, <2>1, <2>2
    <3> QED  BY <1>1, <3>1 DEF OnDesktop
  <2>3. CASE key # to
    <3>1. drafts'[key] = text
      BY <1>3, <1>4, <1>6, <2>1, <2>3
    <3>2. key # selected /\ drafts[key] = text
      BY <1>1, <1>3, <2>1, <2>3, <3>1 DEF Drafts
    <3>3. Capture[key] = text
      BY <1>3, <1>5, <3>2
    <3> QED  BY <3>3 DEF OnDesktop
  <2> QED  BY <2>2, <2>3
<1>12. ASSUME NEW to \in DesktopKeys, Submit(to)
       PROVE  OnDesktop(text, Capture)
  <2>1. /\ composer' = 0 /\ selected' = to /\ drafts' = [drafts EXCEPT ![selected] = 0]
    BY <1>12 DEF Submit
  <2>2. key # to /\ drafts'[key] = text
    BY <1>1, <1>3, <1>4, <1>6, <2>1
  <2>3. key # selected /\ drafts[key] = text
    BY <1>1, <1>3, <2>1, <2>2 DEF Drafts
  <2>4. Capture[key] = text
    BY <1>3, <1>5, <2>3
  <2> QED  BY <2>4 DEF OnDesktop
<1> QED  BY <1>8, <1>9, <1>10, <1>11, <1>12 DEF UserNext

-----------------------------------------------------------------------------
(* The desktop's line. *)

\* A job that is dropped, sent in vain or forgotten; new texts gone that are not the desktop's.
LEMMA FewerJobs ==
  ASSUME DesktopLine, jobs' \subseteq jobs,
         UNCHANGED <<snapshot, saved, unanswered, unsure>>, Capture' = Capture,
         \A text \in 1..MaxTexts : text \in gone' => text \in gone \/ ~ OfDesktop(text)
  PROVE  DesktopLine'
<1>1. JobsDiffer'
  BY DEF DesktopLine, JobsDiffer
<1>2. Waiting' \subseteq Waiting /\ Waiting \subseteq jobs
  BY DEF Waiting
<1>3. SUFFICES ASSUME ~ unanswered, NEW text \in 1..MaxTexts
               PROVE  LeavesDesktop(text)'
  BY <1>1 DEF DesktopLine
<1>4. LeavesDesktop(text)
  BY <1>3 DEF DesktopLine
<1>5. OnDesktop(text, snapshot)' = OnDesktop(text, snapshot)
  BY DEF OnDesktop
<1>6. OnDesktop(text, Capture)' = OnDesktop(text, Capture)
  BY DEF OnDesktop
<1>7. ASSUME text \in gone', ~ OnDesktop(text, snapshot)
      PROVE  /\ ~ OnDesktop(text, Capture)
             /\ \A job \in Waiting : ~ OnDesktop(text, job.drafts)
  <2>1. CASE text \in gone
    BY <1>4, <1>7, <2>1 DEF LeavesDesktop
  <2>2. CASE text \notin gone
    BY <1>2, <1>7, <2>2 DEF OfDesktop
  <2> QED  BY <2>1, <2>2
<1> QED  BY <1>2, <1>4, <1>5, <1>6, <1>7 DEF LeavesDesktop

\* A text comes on screen that was there, or that is new.
LEMMA NewOnScreen ==
  ASSUME DesktopLine, UNCHANGED <<jobs, snapshot, saved, unanswered, unsure, gone>>,
         \A text \in 1..MaxTexts : OnDesktop(text, Capture)' =>
            \/ OnDesktop(text, Capture)
            \/ /\ text \notin gone /\ ~ OnDesktop(text, snapshot)
               /\ \A job \in jobs : ~ OnDesktop(text, job.drafts)
  PROVE  DesktopLine'
<1>1. JobsDiffer' /\ Waiting' = Waiting /\ Waiting \subseteq jobs
  BY DEF DesktopLine, JobsDiffer, Waiting
<1>2. SUFFICES ASSUME ~ unanswered, NEW text \in 1..MaxTexts
               PROVE  LeavesDesktop(text)'
  BY <1>1 DEF DesktopLine
<1>3. LeavesDesktop(text)
  BY <1>2 DEF DesktopLine
<1>4. OnDesktop(text, snapshot)' = OnDesktop(text, snapshot)
  BY DEF OnDesktop
<1>5. ASSUME OnDesktop(text, Capture)', ~ OnDesktop(text, Capture)
      PROVE  /\ text \notin gone /\ ~ OnDesktop(text, snapshot)
             /\ \A job \in Waiting : ~ OnDesktop(text, job.drafts)
  BY <1>1, <1>5
<1> QED  BY <1>1, <1>3, <1>4, <1>5 DEF LeavesDesktop

\* What is on screen is captured, in a job of a new generation.
LEMMA Captured ==
  ASSUME DesktopLine, DraftsTypeOK, NEW number \in Nat, saved < number,
         \A job \in jobs : job.generation < number,
         jobs' = jobs \cup {[drafts |-> Capture, generation |-> number]}, Capture' = Capture,
         UNCHANGED <<snapshot, saved, unanswered, unsure, gone>>
  PROVE  DesktopLine'
<1> DEFINE new == [drafts |-> Capture, generation |-> number]
<1>1. /\ saved \in Nat /\ \A job \in jobs : job.generation \in Nat
      /\ new.drafts = Capture /\ new.generation = number /\ jobs' = jobs \cup {new}
  BY DEF DraftsTypeOK
<1> HIDE DEF new
<1>2. JobsDiffer'
  <2>1. \A job \in jobs' : job.generation # saved
    BY <1>1 DEF DesktopLine, JobsDiffer
  <2>2. \A job, other \in jobs' : job.generation = other.generation => job = other
    BY <1>1 DEF DesktopLine, JobsDiffer
  <2> QED  BY <2>1, <2>2 DEF JobsDiffer
<1>3. Waiting' = Waiting \cup {new} /\ Waiting \subseteq jobs
  BY <1>1 DEF Waiting
<1>4. SUFFICES ASSUME ~ unanswered, NEW text \in 1..MaxTexts
               PROVE  LeavesDesktop(text)'
  BY <1>2 DEF DesktopLine
<1>5. LeavesDesktop(text)
  BY <1>4 DEF DesktopLine
<1>6. OnDesktop(text, snapshot)' = OnDesktop(text, snapshot)
  BY DEF OnDesktop
<1>7. OnDesktop(text, Capture)' = OnDesktop(text, Capture)
  BY DEF OnDesktop
<1>8. text \in gone /\ ~ OnDesktop(text, snapshot) =>
        /\ ~ OnDesktop(text, Capture)
        /\ \A job \in Waiting' : ~ OnDesktop(text, job.drafts)
  BY <1>1, <1>3, <1>5 DEF LeavesDesktop
<1>9. ASSUME NEW job \in Waiting', ~ OnDesktop(text, job.drafts),
             \/ OnDesktop(text, snapshot)
             \/ \E earlier \in Waiting' :
                  earlier.generation < job.generation /\ OnDesktop(text, earlier.drafts)
      PROVE  /\ ~ OnDesktop(text, Capture)
             /\ \A later \in Waiting' :
                  job.generation < later.generation => ~ OnDesktop(text, later.drafts)
  <2>1. CASE job = new
    <3>1. ~ OnDesktop(text, Capture)
      BY <1>1, <1>9, <2>1
    <3>2. \A later \in Waiting' : ~ (job.generation < later.generation)
      BY <1>1, <1>3, <2>1
    <3> QED  BY <3>1, <3>2
  <2>2. CASE job \in Waiting
    <3>1. ~ (new.generation < job.generation)
      BY <1>1, <1>3, <2>2
    <3>2. \/ OnDesktop(text, snapshot)
          \/ \E earlier \in Waiting :
               earlier.generation < job.generation /\ OnDesktop(text, earlier.drafts)
      BY <1>3, <1>9, <3>1
    <3>3. /\ ~ OnDesktop(text, Capture)
          /\ \A later \in Waiting :
               job.generation < later.generation => ~ OnDesktop(text, later.drafts)
      BY <1>5, <1>9, <2>2, <3>2 DEF LeavesDesktop
    <3> QED  BY <1>1, <1>3, <3>3
  <2> QED  BY <1>3, <2>1, <2>2
<1> QED  BY <1>6, <1>7, <1>8, <1>9 DEF LeavesDesktop

\* What a save that is carried out and answered makes of the document.
LEMMA SavedTexts ==
  ASSUME DraftsTypeOK, DesktopKeepsPages, SnapshotIsStored, NEW job \in jobs, unsure = {},
         ApplyChanges(ComposerDraftChanges(snapshot, job.drafts)), NEW text \in 1..MaxTexts
  PROVE  /\ OnDesktop(text, stored) <=> OnDesktop(text, snapshot)
         /\ OnDesktop(text, stored') <=> OnDesktop(text, job.drafts)
         /\ OnPage(text, stored') <=> OnPage(text, stored)
<1>1. /\ \A key \in PageKeys : stored'[key] = stored[key]
      /\ \A key \in DesktopKeys : stored[key] = snapshot[key] /\ stored'[key] = job.drafts[key]
  BY ChangesApplied DEF SnapshotIsStored
<1> QED  BY <1>1 DEF OnDesktop, OnPage

LEMMA SaveKeepsLine ==
  ASSUME DraftsTypeOK, DesktopKeepsPages, SnapshotIsStored, DesktopLine, NEW job \in jobs, Save(job)
  PROVE  DesktopLine'
<1>1. /\ UNCHANGED <<drafts, selected, composer, unanswered>> /\ ~ (job.generation < saved)
      /\ jobs' = jobs \ {job} /\ saved' = job.generation /\ snapshot' = job.drafts
      /\ ApplyChanges(ComposerDraftChanges(snapshot, job.drafts))
      /\ unsure' = unsure \ DOMAIN ComposerDraftChanges(snapshot, job.drafts)
  BY DEF Save, Overtaken
<1>2. saved < job.generation /\ saved \in Nat /\ \A other \in jobs : other.generation \in Nat
  BY <1>1 DEF DraftsTypeOK, DesktopLine, JobsDiffer
<1>3. JobsDiffer'
  BY <1>1 DEF DesktopLine, JobsDiffer
<1>4. /\ job \in Waiting
      /\ \A other \in Waiting' : other \in Waiting /\ job.generation < other.generation
  BY <1>1, <1>2 DEF Waiting
<1>5. SUFFICES ASSUME ~ unanswered, NEW text \in 1..MaxTexts
               PROVE  LeavesDesktop(text)'
  BY <1>1, <1>3 DEF DesktopLine
<1>6. LeavesDesktop(text) /\ unsure = {}
  BY <1>5 DEF DesktopLine
<1>7. OnDesktop(text, snapshot)' = OnDesktop(text, job.drafts)
  BY <1>1 DEF OnDesktop
<1>8. OnDesktop(text, Capture)' = OnDesktop(text, Capture)
  BY <1>1 DEF OnDesktop, Capture
<1>9. ASSUME text \in gone', ~ OnDesktop(text, job.drafts)
      PROVE  /\ ~ OnDesktop(text, Capture)
             /\ \A other \in Waiting' : ~ OnDesktop(text, other.drafts)
  <2>1. text \in gone \/ OnDesktop(text, snapshot)
    BY <1>1, <1>6, <1>9, SavedTexts, GoneStep
  <2>2. CASE OnDesktop(text, snapshot)
    BY <1>4, <1>6, <1>9, <2>2 DEF LeavesDesktop
  <2>3. CASE ~ OnDesktop(text, snapshot)
    BY <1>4, <1>6, <2>1, <2>3 DEF LeavesDesktop
  <2> QED  BY <2>2, <2>3
<1>10. ASSUME NEW other \in Waiting', ~ OnDesktop(text, other.drafts),
              \/ OnDesktop(text, job.drafts)
              \/ \E earlier \in Waiting' :
                   earlier.generation < other.generation /\ OnDesktop(text, earlier.drafts)
       PROVE  /\ ~ OnDesktop(text, Capture)
              /\ \A later \in Waiting' :
                   other.generation < later.generation => ~ OnDesktop(text, later.drafts)
  <2>1. \E earlier \in Waiting :
          earlier.generation < other.generation /\ OnDesktop(text, earlier.drafts)
    BY <1>4, <1>10
  <2> QED  BY <1>4, <1>6, <1>10, <2>1 DEF LeavesDesktop
<1> QED  BY <1>7, <1>8, <1>9, <1>10 DEF LeavesDesktop

\* What an application of the desktop's changes does to a text.
LEMMA AppliedTexts ==
  ASSUME DraftsTypeOK, DesktopKeepsPages, NEW job \in jobs,
         ApplyChanges(ComposerDraftChanges(snapshot, job.drafts)), NEW text \in 1..MaxTexts
  PROVE  /\ OnPage(text, stored') <=> OnPage(text, stored)
         /\ OnDesktop(text, stored') => OnDesktop(text, stored) \/ OnDesktop(text, job.drafts)
         /\ text \in gone' => text \in gone \/ OnDesktop(text, stored)
<1>1. /\ \A key \in PageKeys : stored'[key] = stored[key]
      /\ \A key \in DesktopKeys : stored'[key] \in {stored[key], job.drafts[key]}
  BY ChangesApplied
<1>2. OnPage(text, stored') <=> OnPage(text, stored)
  BY <1>1 DEF OnPage
<1>3. OnDesktop(text, stored') => OnDesktop(text, stored) \/ OnDesktop(text, job.drafts)
  BY <1>1 DEF OnDesktop
<1> QED  BY <1>2, <1>3, GoneStep

\* A step of the desktop makes no text but the one typed, and takes only its own away.
LEMMA DesktopOwns ==
  ASSUME DraftsIInv, DesktopUserNext \/ DesktopNext, NEW text \in 1..MaxTexts
  PROVE  /\ OfDesktop(text)' => OfDesktop(text) \/ (text = texts + 1 /\ texts' = texts + 1)
         /\ text \in gone' => text \in gone \/ OfDesktop(text)
<1>1. /\ DraftsTypeOK /\ TextsCounted /\ DesktopKeepsPages
  BY DEF DraftsIInv
<1>2. /\ OnDesktop(text, stored)' = OnDesktop(text, stored')
      /\ OnDesktop(text, snapshot)' = OnDesktop(text, snapshot')
      /\ OnDesktop(text, Capture)' = OnDesktop(text, Capture')
  BY DEF OnDesktop
<1>3. CASE UserNext
  <2>1. UNCHANGED <<stored, gone, snapshot, jobs>>
    BY <1>1, <1>3, UserSteps DEF storeVars
  <2> QED  BY <1>1, <1>2, <1>3, <2>1, UserTexts DEF OfDesktop
<1>4. CASE TimerFires \/ Quit
  <2>1. /\ UNCHANGED <<stored, gone, snapshot>> /\ Capture' = Capture
        /\ jobs' = jobs \cup {[drafts |-> Capture, generation |-> generation']}
    BY <1>1, <1>4, CaptureSteps DEF storeVars
  <2>2. \A job \in jobs' : job \in jobs \/ job.drafts = Capture
    BY <2>1
  <2> QED  BY <1>2, <2>1, <2>2 DEF OfDesktop
<1>5. CASE Stop
  <2>1. /\ UNCHANGED <<stored, gone, snapshot, drafts, selected, composer>> /\ jobs' = {}
    BY <1>5 DEF Stop, storeVars
  <2>2. Capture' = Capture
    BY <2>1 DEF Capture
  <2> QED  BY <1>2, <2>1, <2>2 DEF OfDesktop
<1>6. CASE Start
  <2>1. /\ UNCHANGED <<stored, gone, jobs>> /\ snapshot' = stored /\ drafts' = stored
        /\ composer' = stored[selected'] /\ selected' \in DesktopKeys
    BY <1>6 DEF Start, storeVars
  <2>2. Capture' = [drafts' EXCEPT ![selected'] = composer']
    BY DEF Capture
  <2>3. Capture' = stored
    BY <1>1, <2>1, <2>2, KeysApart DEF DraftsTypeOK, Drafts
  <2> QED  BY <1>2, <2>1, <2>3 DEF OfDesktop
<1>7. ASSUME NEW job \in jobs, Save(job) \/ DropOvertaken(job) \/ SaveFails(job)
      PROVE  /\ OfDesktop(text)' => OfDesktop(text)
             /\ text \in gone' => text \in gone \/ OfDesktop(text)
  <2>1. /\ UNCHANGED <<drafts, selected, composer>> /\ jobs' \subseteq jobs
        /\ snapshot' \in {snapshot, job.drafts}
        /\ \/ UNCHANGED <<stored, gone>>
           \/ ApplyChanges(ComposerDraftChanges(snapshot, job.drafts))
    BY <1>7 DEF Save, DropOvertaken, SaveFails, storeVars
  <2>2. Capture' = Capture
    BY <2>1 DEF Capture
  <2>3. OnDesktop(text, stored') => OfDesktop(text)
    BY <1>1, <2>1, AppliedTexts DEF OfDesktop
  <2>4. text \in gone' => text \in gone \/ OfDesktop(text)
    BY <1>1, <2>1, AppliedTexts DEF OfDesktop
  <2> QED  BY <1>2, <2>1, <2>2, <2>3, <2>4 DEF OfDesktop
<1> QED  BY <1>3, <1>4, <1>5, <1>6, <1>7 DEF DesktopUserNext, DesktopNext, UserNext

\* A step of the page takes none of the desktop's texts away.
LEMMA PageTakesItsOwn ==
  ASSUME DraftsIInv, NEW versions, PageLine(versions), PageUserNext \/ PageNext,
         NEW text \in 1..MaxTexts, text \in gone', text \notin gone
  PROVE  OnPage(text, stored) /\ ~ OfDesktop(text)
<1>1. DraftsTypeOK
  BY DEF DraftsIInv
<1>2. \A key \in DesktopKeys : stored'[key] = stored[key]
  BY <1>1, PageKeepsDesktop
<1>3. OnDesktop(text, stored') <=> OnDesktop(text, stored)
  BY <1>2 DEF OnDesktop
<1>4. PageWrites
  BY DEF PageUserNext, PageNext, PageTypes, PageClears, PageEdit, PageSubmits, PageMoves,
         PageTimerFires, PageWriteFails, PageReloads, storeVars
<1>5. OnPage(text, stored)
  BY <1>1, <1>3, <1>4, GoneStep DEF PageWrites
<1> QED  BY <1>5 DEF PageLine, Owned, OfPage

LEMMA DesktopLineStep ==
  ASSUME DraftsIInv, DesktopLine, NEW versions, PageLine(versions), [DraftsNext]_draftVars
  PROVE  DesktopLine'
<1>1. DraftsTypeOK /\ TextsCounted /\ DesktopKeepsPages /\ SnapshotIsStored /\ JobsInOrder
  BY DEF DraftsIInv
<1>2. CASE UNCHANGED desktopVars /\ \A text \in 1..MaxTexts :
             text \in gone' => text \in gone \/ ~ OfDesktop(text)
  <2>1. UNCHANGED <<jobs, snapshot, saved, unanswered, unsure, drafts, selected, composer>>
    BY <1>2 DEF desktopVars
  <2>2. Capture' = Capture
    BY <2>1 DEF Capture
  <2> QED  BY <1>2, <2>1, <2>2, FewerJobs
<1>3. CASE UserNext
  <2>1. UNCHANGED <<jobs, snapshot, saved, unanswered, unsure, gone>>
    BY <1>1, <1>3, UserSteps DEF storeVars
  <2>2. ASSUME NEW text \in 1..MaxTexts, OnDesktop(text, Capture)'
        PROVE  \/ OnDesktop(text, Capture)
               \/ /\ text \notin gone /\ ~ OnDesktop(text, snapshot)
                  /\ \A job \in jobs : ~ OnDesktop(text, job.drafts)
    <3>1. OnDesktop(text, Capture')
      BY <2>2 DEF OnDesktop
    <3>2. OnDesktop(text, Capture) \/ ~ (text <= texts)
      BY <1>1, <1>3, <3>1, UserTexts DEF TextsCounted
    <3> QED  BY <3>2 DEF PageLine, Owned, OfDesktop
  <2> QED  BY <2>1, <2>2, NewOnScreen
<1>4. CASE TimerFires \/ Quit
  <2>1. /\ UNCHANGED <<snapshot, saved, unanswered, unsure, gone>> /\ Capture' = Capture
        /\ generation' \in {generation, generation + 1}
        /\ generation' = generation => armed
        /\ jobs' = jobs \cup {[drafts |-> Capture, generation |-> generation']}
    BY <1>1, <1>4, CaptureSteps DEF storeVars
  <2>2. /\ generation \in Nat /\ saved \in Nat /\ \A job \in jobs : job.generation \in Nat
    BY <1>1 DEF DraftsTypeOK
  <2>3. generation' \in Nat /\ saved < generation' /\ \A job \in jobs : job.generation < generation'
    <3>1. CASE generation' = generation
      BY <1>1, <2>1, <2>2, <3>1 DEF JobsInOrder
    <3>2. CASE generation' = generation + 1
      BY <1>1, <2>2, <3>2 DEF JobsInOrder
    <3> QED  BY <2>1, <3>1, <3>2
  <2> QED  BY <1>1, <2>1, <2>3, Captured
<1>5. CASE Stop
  <2>1. /\ jobs' = {}
        /\ UNCHANGED <<gone, snapshot, saved, unanswered, unsure, drafts, selected, composer>>
    BY <1>5 DEF Stop, storeVars
  <2>2. Capture' = Capture
    BY <2>1 DEF Capture
  <2> QED  BY <2>1, <2>2, FewerJobs
<1>6. CASE Start
  <2>1. /\ running = "no" /\ jobs' = jobs /\ snapshot' = stored /\ drafts' = stored
        /\ composer' = stored[selected'] /\ selected' \in DesktopKeys /\ unsure' = {}
    BY <1>6 DEF Start
  <2>2. Capture' = [drafts' EXCEPT ![selected'] = composer']
    BY DEF Capture
  <2>3. jobs' = {} /\ Capture' = snapshot'
    BY <1>1, <2>1, <2>2, KeysApart DEF JobsInOrder, DraftsTypeOK, Drafts
  <2>4. JobsDiffer' /\ Waiting' = {}
    BY <2>3 DEF JobsDiffer, Waiting
  <2>5. \A text \in 1..MaxTexts : LeavesDesktop(text)'
    BY <2>3, <2>4 DEF LeavesDesktop, OnDesktop
  <2> QED  BY <2>1, <2>4, <2>5 DEF DesktopLine
<1>7. ASSUME NEW job \in jobs, DropOvertaken(job)
      PROVE  DesktopLine'
  <2>1. /\ jobs' \subseteq jobs
        /\ UNCHANGED <<gone, snapshot, saved, unanswered, unsure, drafts, selected, composer>>
    BY <1>7 DEF DropOvertaken, storeVars
  <2>2. Capture' = Capture
    BY <2>1 DEF Capture
  <2> QED  BY <2>1, <2>2, FewerJobs
<1>8. ASSUME NEW job \in jobs, SaveFails(job)
      PROVE  DesktopLine'
  <2>1. jobs' \subseteq jobs /\ UNCHANGED <<snapshot, saved, drafts, selected, composer>>
    BY <1>8 DEF SaveFails
  <2>2. Capture' = Capture
    BY <2>1 DEF Capture
  <2>3. CASE UNCHANGED <<storeVars, unanswered, unsure>>
    BY <2>1, <2>2, <2>3, FewerJobs DEF storeVars
  <2>4. CASE unanswered' = TRUE
    BY <2>1, <2>4 DEF DesktopLine, JobsDiffer
  <2> QED  BY <1>8, <2>3, <2>4 DEF SaveFails
<1>9. ASSUME NEW job \in jobs, Save(job)
      PROVE  DesktopLine'
  BY <1>1, <1>9, SaveKeepsLine
<1>10. CASE PageUserNext \/ PageNext
  <2>1. UNCHANGED desktopVars
    BY <1>10, PageFrame
  <2> QED  BY <1>2, <1>10, <2>1, PageTakesItsOwn
<1>11. CASE UNCHANGED draftVars
  BY <1>2, <1>11 DEF draftVars, storeVars
<1> QED  BY <1>3, <1>4, <1>5, <1>6, <1>7, <1>8, <1>9, <1>10, <1>11
         DEF DraftsNext, DesktopUserNext, DesktopNext, UserNext

-----------------------------------------------------------------------------
(* The page's line. *)

\* What a line is made of.
LEMMA LineType ==
  ASSUME DraftsTypeOK, NEW versions, IsLine(versions)
  PROVE  /\ Len(writes) \in Nat /\ 0 \in 0..Len(writes) /\ Len(writes) \in 0..Len(writes)
         /\ \A i \in 0..Len(writes) : \A key \in PageKeys : versions[i][key] \in 0..MaxTexts
<1>1. Len(writes) \in Nat
  BY LenProperties DEF DraftsTypeOK
<1>2. \A i \in 0..Len(writes) : \A key \in PageKeys : versions[i][key] \in 0..MaxTexts
  BY DEF IsLine
<1> QED  BY <1>1, <1>2

LEMMA PageTextType ==
  ASSUME DraftsTypeOK
  PROVE  \A key \in PageKeys : page[key] \in 0..MaxTexts /\ (page[key] # 0 => page[key] \in 1..MaxTexts)
BY KeysApart, DraftBoundsAssumption DEF DraftsTypeOK, Drafts

\* A text on the page that is in no last version has never left it.
LEMMA KnownOrFresh ==
  ASSUME DraftsTypeOK, NEW versions, PageLine(versions), NEW text \in 1..MaxTexts, OnPage(text, page)
  PROVE  \/ OnPage(text, versions[Len(writes)])
         \/ /\ text \notin gone /\ ~ OnPage(text, stored)
            /\ \A i \in 0..Len(writes) : ~ OnPage(text, versions[i])
<1>1. PICK key \in PageKeys : page[key] = text
  BY DEF OnPage
<1>2. text # 0
  OBVIOUS
<1>3. CASE timers[key] = None
  BY <1>1, <1>3 DEF PageLine, IsLine, OnPage
<1>4. CASE timers[key] # None
  <2>1. OnlyTyped(versions, key)
    BY <1>4 DEF PageLine
  <2> QED  BY <1>1, <1>2, <2>1 DEF OnlyTyped
<1> QED  BY <1>3, <1>4

LEMMA DesktopKeepsLine ==
  ASSUME DraftsIInv, DesktopUserNext \/ DesktopNext, NEW versions, PageLine(versions)
  PROVE  PageLine(versions)'
<1>1. DraftsTypeOK /\ TextsCounted /\ DesktopKeepsPages
  BY DEF DraftsIInv
<1>2. /\ UNCHANGED <<page, timers, writes, missed>>
      /\ \A key \in PageKeys : stored'[key] = stored[key]
      /\ texts \in Nat /\ texts' \in Nat /\ texts <= texts'
  <2>1. [DraftsNext]_draftVars
    BY DEF DraftsNext
  <2>2. texts' \in {texts, texts + 1} /\ texts \in Nat
    BY <1>1, <2>1, TextsStep DEF TextsCounted
  <2>3. texts' \in Nat /\ texts <= texts'
    BY <2>2
  <2> QED  BY <1>1, <2>2, <2>3, DesktopFrame, DesktopKeepsPage DEF pageVars
<1>3. \A text : /\ OnPage(text, stored)' <=> OnPage(text, stored)
                /\ OnPage(text, page)' <=> OnPage(text, page)
                /\ OfPage(versions, text)' <=> OfPage(versions, text)
  BY <1>2 DEF OnPage, OfPage
<1>4. ASSUME NEW text \in 1..MaxTexts
      PROVE  /\ OfDesktop(text)' => OfDesktop(text) \/ (text = texts + 1 /\ texts' = texts + 1)
             /\ text \in gone' => text \in gone \/ OfDesktop(text)
             /\ ~ (OfDesktop(text) /\ OfPage(versions, text))
             /\ OfDesktop(text) \/ OfPage(versions, text) \/ text \in gone => text <= texts
  BY DesktopOwns DEF PageLine, Owned
<1>5. IsLine(versions)'
  BY <1>2 DEF PageLine, IsLine
<1>6. ASSUME NEW key \in PageKeys, timers'[key] # None
      PROVE  OnlyTyped(versions, key)'
  <2>1. OnlyTyped(versions, key)
    BY <1>2, <1>6 DEF PageLine
  <2>2. page[key] # 0 => page[key] \in 1..MaxTexts /\ OfPage(versions, page[key])
    BY <1>1, PageTextType DEF OfPage, OnPage
  <2>3. page[key] # 0 => page[key] \notin gone'
    BY <1>4, <2>1, <2>2 DEF OnlyTyped
  <2>4. page[key] # 0 => \A i \in 0..Len(writes) : ~ OnPage(page[key], versions[i])
    BY <2>1 DEF OnlyTyped
  <2>5. page[key] # 0 => ~ OnPage(page[key], stored')
    BY <1>2, <2>1 DEF OnlyTyped, OnPage
  <2>6. page[key] # 0 => \A other \in PageKeys \ {key} : page[other] # page[key]
    BY <2>1 DEF OnlyTyped
  <2> QED  BY <1>2, <2>3, <2>4, <2>5, <2>6 DEF OnlyTyped, OnPage
<1>7. ASSUME NEW text \in 1..MaxTexts
      PROVE  LeavesPage(versions, text)' /\ Owned(versions, text)'
  <2>1. LeavesPage(versions, text)
    BY DEF PageLine
  <2>2. ASSUME text \in gone' \/ OnPage(text, stored), ~ OnPage(text, versions[0])
        PROVE  \A i \in 0..Len(writes) : ~ OnPage(text, versions[i])
    <3>1. CASE text \in gone \/ OnPage(text, stored)
      BY <2>1, <2>2, <3>1 DEF LeavesPage
    <3>2. CASE OfDesktop(text)
      BY <1>4, <3>2 DEF OfPage
    <3> QED  BY <1>4, <2>2, <3>1, <3>2
  <2>3. LeavesPage(versions, text)'
    BY <1>2, <1>3, <2>1, <2>2 DEF LeavesPage, OnPage
  <2>4. Owned(versions, text)'
    BY <1>2, <1>3, <1>4 DEF Owned
  <2> QED  BY <2>3, <2>4
<1> QED  BY <1>5, <1>6, <1>7 DEF PageLine

\* A step of the page leaves the desktop's texts alone.
LEMMA PageLeavesDesktop ==
  ASSUME DraftsTypeOK, PageUserNext \/ PageNext, NEW text
  PROVE  OfDesktop(text)' <=> OfDesktop(text)
<1>1. UNCHANGED <<jobs, snapshot, drafts, selected, composer>>
  BY PageFrame DEF desktopVars
<1>2. \A key \in DesktopKeys : stored'[key] = stored[key]
  BY PageKeepsDesktop
<1> QED  BY <1>1, <1>2 DEF OfDesktop, OnDesktop, Capture

LEMMA TypingKeepsLine ==
  ASSUME DraftsIInv, NEW versions, PageLine(versions), NEW key \in PageKeys,
         PageTypes(key) \/ PageClears(key)
  PROVE  PageLine(versions)'
<1>1. DraftsTypeOK /\ TextsCounted /\ PageUserNext
  BY DEF DraftsIInv, PageUserNext
<1>2. PICK text \in 0..MaxTexts :
        /\ PageEdit(key, text)
        /\ (text = 0 /\ texts' = texts) \/ (text = texts + 1 /\ texts' = texts + 1)
  <2>1. texts \in 0..MaxTexts /\ 0 \in 0..MaxTexts
    BY <1>1, DraftBoundsAssumption DEF TextsCounted
  <2>2. CASE PageTypes(key)
    <3>1. texts + 1 \in 0..MaxTexts
      BY <2>1, <2>2, DraftBoundsAssumption DEF PageTypes, Types
    <3>2. PageEdit(key, texts + 1) /\ texts' = texts + 1
      BY <2>2 DEF PageTypes, Types
    <3> QED  BY <3>1, <3>2
  <2>3. CASE PageClears(key)
    <3>1. PageEdit(key, 0) /\ texts' = texts
      BY <2>3 DEF PageClears, Acts
    <3> QED  BY <2>1, <3>1
  <2> QED  BY <2>2, <2>3
<1>3. /\ UNCHANGED <<stored, gone, writes, missed>>
      /\ \A k \in PageKeys : /\ page'[k] = IF k = key THEN text ELSE page[k]
                             /\ timers'[k] = IF k = key THEN text ELSE timers[k]
      /\ text # None /\ texts \in Nat /\ texts <= texts'
  BY <1>1, <1>2, KeysApart, NoTimerAssumption DEF PageEdit, DraftsTypeOK, Drafts, storeVars, TextsCounted
<1>4. ASSUME NEW t \in 1..MaxTexts
      PROVE  /\ ~ (OfDesktop(t) /\ OfPage(versions, t))
             /\ OfDesktop(t) \/ OfPage(versions, t) \/ t \in gone => t <= texts
             /\ OnPage(t, page)' => OnPage(t, page) \/ t = text
             /\ OfDesktop(t)' <=> OfDesktop(t)
             /\ OnPage(t, stored)' <=> OnPage(t, stored)
  <2>1. ~ (OfDesktop(t) /\ OfPage(versions, t)) /\ (OfDesktop(t) \/ OfPage(versions, t) \/ t \in gone => t <= texts)
    BY DEF PageLine, Owned
  <2>2. OnPage(t, page)' => OnPage(t, page) \/ t = text
    BY <1>3 DEF OnPage
  <2>3. OnPage(t, stored)' <=> OnPage(t, stored)
    BY <1>3 DEF OnPage
  <2> QED  BY <1>1, <2>1, <2>2, <2>3, PageLeavesDesktop
<1>5. IsLine(versions)'
  BY <1>3 DEF PageLine, IsLine
<1>6. ASSUME NEW k \in PageKeys, timers'[k] # None
      PROVE  OnlyTyped(versions, k)'
  <2>1. CASE k = key
    <3>1. text # 0 => text \in 1..MaxTexts /\ text = texts + 1
      BY <1>2, DraftBoundsAssumption
    <3>2. text # 0 => text \notin gone /\ ~ OfPage(versions, text)
      BY <1>3, <1>4, <3>1
    <3> QED  BY <1>3, <2>1, <3>2 DEF OnlyTyped, OfPage, OnPage
  <2>2. CASE k # key
    <3>1. OnlyTyped(versions, k)
      BY <1>3, <1>6, <2>2 DEF PageLine
    <3>2. page[k] # 0 => page[k] # text
      <4>1. page[k] # 0 => page[k] \in 1..MaxTexts /\ OfPage(versions, page[k])
        BY <1>1, PageTextType DEF OfPage, OnPage
      <4>2. page[k] # 0 => page[k] <= texts
        BY <1>4, <4>1
      <4> QED  BY <1>2, <1>3, <4>1, <4>2
    <3> QED  BY <1>3, <2>2, <3>1, <3>2 DEF OnlyTyped, OnPage
  <2> QED  BY <2>1, <2>2
<1>7. ASSUME NEW t \in 1..MaxTexts
      PROVE  LeavesPage(versions, t)' /\ Owned(versions, t)'
  <2>1. LeavesPage(versions, t)
    BY DEF PageLine
  <2>2. LeavesPage(versions, t)'
    BY <1>3, <1>4, <2>1 DEF LeavesPage, OnPage
  <2>3. OfPage(versions, t)' => OfPage(versions, t) \/ (t = texts + 1 /\ texts' = texts + 1)
    BY <1>2, <1>3, <1>4 DEF OfPage, OnPage
  <2>4. OfDesktop(t)' <=> OfDesktop(t)
    BY <1>4
  <2>5. CASE OfPage(versions, t)' => OfPage(versions, t)
    <3>1. texts' \in Nat /\ texts <= texts'
      BY <1>2, <1>3
    <3> QED  BY <1>3, <1>4, <2>2, <2>4, <2>5, <3>1 DEF Owned
  <2>6. CASE t = texts + 1 /\ texts' = texts + 1
    <3>1. ~ OfDesktop(t) /\ t <= texts'
      BY <1>3, <1>4, <2>6
    <3> QED  BY <2>2, <2>4, <3>1 DEF Owned
  <2> QED  BY <2>3, <2>5, <2>6
<1> QED  BY <1>5, <1>6, <1>7 DEF PageLine

\* A write of what the page shows becomes the last version.
LEMMA EnqueueKeepsLine ==
  ASSUME DraftsIInv, NEW versions, PageLine(versions), PageUserNext \/ PageNext,
         NEW changes \in PageChanges, writes' = Append(writes, changes),
         UNCHANGED <<stored, gone, missed, texts>>,
         \A key \in PageKeys :
           IF key \in DOMAIN changes
             THEN /\ timers'[key] = None /\ changes[key] = page'[key]
                  /\ page'[key] = 0 \/ \E source \in DOMAIN changes : page'[key] = page[source]
             ELSE timers'[key] = timers[key] /\ page'[key] = page[key]
  PROVE  \E new : PageLine(new)'
<1>1. /\ DraftsTypeOK /\ IsLine(versions)
      /\ \A key \in PageKeys : page[key] \in 0..MaxTexts
      /\ \A text \in 1..MaxTexts : OfDesktop(text)' <=> OfDesktop(text)
  BY PageTextType, PageLeavesDesktop DEF DraftsIInv, PageLine
<1>2. /\ DOMAIN changes \subseteq PageKeys
      /\ \A key \in DOMAIN changes : changes[key] \in 0..MaxTexts
  BY DEF PageChanges
<1>3. PICK n \in Nat : n = Len(writes)
  BY <1>1, LineType
<1>4. /\ Len(writes') = n + 1 /\ writes'[n + 1] = changes
      /\ \A i \in 1..n : writes'[i] = writes[i]
  BY <1>1, <1>3, QueueAppend DEF DraftsTypeOK
<1>5. PICK last \in [PageKeys -> 0..MaxTexts] :
        \A key \in PageKeys :
          last[key] = IF key \in DOMAIN changes THEN changes[key] ELSE versions[n][key]
  <2> DEFINE f == [key \in PageKeys |-> IF key \in DOMAIN changes THEN changes[key] ELSE versions[n][key]]
  <2>1. f \in [PageKeys -> 0..MaxTexts]
    BY <1>1, <1>2, <1>3, LineType
  <2>2. \A key \in PageKeys :
          f[key] = IF key \in DOMAIN changes THEN changes[key] ELSE versions[n][key]
    OBVIOUS
  <2> QED  BY <2>1, <2>2
<1>6. PICK new \in [0..(n + 1) -> [PageKeys -> 0..MaxTexts]] :
        new[n + 1] = last /\ \A i \in 0..n : new[i] = versions[i]
  <2> DEFINE f == [i \in 0..(n + 1) |-> IF i = n + 1 THEN last ELSE versions[i]]
  <2>1. f \in [0..(n + 1) -> [PageKeys -> 0..MaxTexts]]
    BY <1>1, <1>3, <1>5 DEF IsLine
  <2>2. f[n + 1] = last /\ \A i \in 0..n : f[i] = versions[i]
    BY <1>3
  <2> QED  BY <2>1, <2>2
<1>7. \A i \in 0..(n + 1) : i \in 0..n \/ i = n + 1
  BY <1>3
<1>8. /\ 0 \in 0..n /\ n \in 0..n /\ 0 \in 0..(n + 1) /\ n + 1 \in 0..(n + 1)
      /\ \A i \in 0..n : i \in 0..(n + 1) /\ i < n + 1
  BY <1>3
<1>9. IsLine(new)'
  <2>1. \A key \in PageKeys \ missed : new[0][key] = stored[key]
    BY <1>1, <1>6, <1>8 DEF IsLine
  <2>2. ASSUME NEW i \in 1..(n + 1), NEW key \in PageKeys
        PROVE  new[i][key] = IF key \in DOMAIN writes'[i] THEN writes'[i][key] ELSE new[i - 1][key]
    <3>1. CASE i = n + 1
      <4>1. i - 1 = n /\ new[i] = last /\ new[i - 1] = versions[n] /\ writes'[i] = changes
        BY <1>3, <1>4, <1>6, <1>8, <3>1
      <4> QED  BY <1>5, <4>1
    <3>2. CASE i # n + 1
      <4>1. i \in 1..n /\ i \in 0..n /\ i - 1 \in 0..n
        BY <1>3, <3>2
      <4>2. new[i] = versions[i] /\ new[i - 1] = versions[i - 1] /\ writes'[i] = writes[i]
        BY <1>4, <1>6, <4>1
      <4>3. versions[i][key] = IF key \in DOMAIN writes[i] THEN writes[i][key] ELSE versions[i - 1][key]
        BY <1>1, <1>3, <4>1 DEF IsLine
      <4> QED  BY <4>2, <4>3
    <3> QED  BY <3>1, <3>2
  <2>3. ASSUME NEW key \in PageKeys, timers'[key] = None
        PROVE  new[n + 1][key] = page'[key]
    BY <1>1, <1>3, <1>5, <1>6, <2>3 DEF IsLine
  <2> QED  BY <1>4, <1>6, <2>1, <2>2, <2>3 DEF IsLine
<1>10. ASSUME NEW text \in 1..MaxTexts, OnPage(text, page')
       PROVE  OnPage(text, page)
  <2>1. PICK key \in PageKeys : page'[key] = text
    BY <1>10 DEF OnPage
  <2>2. text # 0
    OBVIOUS
  <2> QED  BY <1>2, <2>1, <2>2 DEF OnPage
<1>11. ASSUME NEW text \in 1..MaxTexts, OnPage(text, new[n + 1])
       PROVE  OnPage(text, versions[n]) \/ OnPage(text, page)
  <2>1. PICK key \in PageKeys : last[key] = text
    BY <1>6, <1>11 DEF OnPage
  <2>2. CASE key \in DOMAIN changes
    BY <1>10, <1>5, <2>1, <2>2 DEF OnPage
  <2>3. CASE key \notin DOMAIN changes
    BY <1>5, <2>1, <2>3 DEF OnPage
  <2> QED  BY <2>2, <2>3
<1>12. ASSUME NEW text \in 1..MaxTexts, OnPage(text, new[n + 1])
       PROVE  \/ OnPage(text, versions[n])
              \/ /\ text \notin gone /\ ~ OnPage(text, stored)
                 /\ \A i \in 0..n : ~ OnPage(text, versions[i])
  BY <1>1, <1>3, <1>11, <1>12, KnownOrFresh
<1>13. ASSUME NEW key \in PageKeys, timers'[key] # None
       PROVE  OnlyTyped(new, key)'
  <2>1. key \notin DOMAIN changes /\ timers'[key] = timers[key] /\ page'[key] = page[key]
    BY <1>13
  <2>2. OnlyTyped(versions, key)
    BY <1>13, <2>1 DEF PageLine
  <2> SUFFICES ASSUME page[key] # 0
               PROVE  /\ \A i \in 0..(n + 1) : ~ OnPage(page[key], new[i])
                      /\ \A other \in PageKeys \ {key} : page'[other] # page[key]
    BY <1>4, <2>1, <2>2 DEF OnlyTyped, OnPage
  <2>3. \A other \in PageKeys \ {key} : page[other] # page[key]
    BY <2>2 DEF OnlyTyped
  <2>4. \A other \in PageKeys \ {key} : page'[other] # page[key]
    <3> SUFFICES ASSUME NEW other \in PageKeys \ {key}  PROVE page'[other] # page[key]
      OBVIOUS
    <3>1. CASE other \in DOMAIN changes
      BY <1>2, <2>1, <2>3, <3>1
    <3>2. CASE other \notin DOMAIN changes
      BY <2>3, <3>2
    <3> QED  BY <3>1, <3>2
  <2>5. \A i \in 0..n : ~ OnPage(page[key], versions[i])
    BY <1>3, <2>2 DEF OnlyTyped
  <2>6. \A other \in PageKeys : last[other] # page[key]
    <3> SUFFICES ASSUME NEW other \in PageKeys  PROVE last[other] # page[key]
      OBVIOUS
    <3>1. CASE other \in DOMAIN changes
      <4>1. other # key /\ last[other] = page'[other]
        BY <1>5, <2>1, <3>1
      <4> QED  BY <2>4, <4>1
    <3>2. CASE other \notin DOMAIN changes
      <4>1. last[other] = versions[n][other]
        BY <1>5, <3>2
      <4> QED  BY <1>8, <2>5, <4>1 DEF OnPage
    <3> QED  BY <3>1, <3>2
  <2>7. ASSUME NEW i \in 0..(n + 1)
        PROVE  ~ OnPage(page[key], new[i])
    <3>1. CASE i = n + 1
      BY <1>6, <2>6, <3>1 DEF OnPage
    <3>2. CASE i \in 0..n
      BY <1>6, <2>5, <3>2
    <3> QED  BY <1>7, <3>1, <3>2
  <2> QED  BY <2>4, <2>7
<1>14. ASSUME NEW text \in 1..MaxTexts
       PROVE  LeavesPage(new, text)' /\ Owned(new, text)'
  <2>1. LeavesPage(versions, text) /\ Owned(versions, text)
    BY DEF PageLine
  <2>2. ASSUME text \in gone \/ OnPage(text, stored), ~ OnPage(text, new[0]), NEW i \in 0..(n + 1)
        PROVE  ~ OnPage(text, new[i])
    <3>1. \A k \in 0..n : ~ OnPage(text, versions[k])
      BY <1>3, <1>6, <1>8, <2>1, <2>2 DEF LeavesPage
    <3>2. CASE i \in 0..n
      BY <1>6, <3>1, <3>2
    <3>3. CASE i = n + 1
      BY <1>8, <1>12, <2>2, <3>1, <3>3
    <3> QED  BY <1>7, <3>2, <3>3
  <2>3. ASSUME NEW i \in 0..(n + 1), NEW j \in 0..(n + 1), NEW k \in 0..(n + 1), i < j, j < k,
               OnPage(text, new[i]), ~ OnPage(text, new[j])
        PROVE  ~ OnPage(text, new[k])
    <3>1. i \in 0..n /\ j \in 0..n
      BY <1>3, <2>3
    <3>2. OnPage(text, versions[i]) /\ ~ OnPage(text, versions[j])
      BY <1>6, <2>3, <3>1
    <3>3. ASSUME NEW m \in 0..n, j < m
          PROVE  ~ OnPage(text, versions[m])
      BY <1>3, <2>1, <2>3, <3>1, <3>2, <3>3 DEF LeavesPage
    <3>4. CASE k \in 0..n
      BY <1>6, <2>3, <3>3, <3>4
    <3>5. CASE k = n + 1
      <4>1. ~ OnPage(text, versions[n])
        <5>1. CASE j = n
          BY <3>2, <5>1
        <5>2. CASE j # n
          BY <1>3, <3>1, <3>3, <5>2
        <5> QED  BY <5>1, <5>2
      <4> QED  BY <1>12, <3>1, <3>2, <3>5, <4>1
    <3> QED  BY <1>7, <3>4, <3>5
  <2>4. LeavesPage(new, text)'
    BY <1>4, <2>2, <2>3 DEF LeavesPage, OnPage
  <2>5. OfPage(new, text)' => OfPage(versions, text)
    <3>1. ASSUME NEW i \in 0..(n + 1), OnPage(text, new[i])
          PROVE  OfPage(versions, text)
      <4>1. CASE i \in 0..n
        BY <1>3, <1>6, <3>1, <4>1 DEF OfPage
      <4>2. CASE i = n + 1
        BY <1>3, <1>8, <1>11, <3>1, <4>2 DEF OfPage
      <4> QED  BY <1>7, <4>1, <4>2
    <3>2. OnPage(text, page)' => OfPage(versions, text)
      BY <1>10 DEF OnPage, OfPage
    <3>3. OnPage(text, stored)' => OfPage(versions, text)
      BY DEF OnPage, OfPage
    <3>4. OfPage(new, text)' => OnPage(text, page)' \/ OnPage(text, stored)' \/ \E i \in 0..(n + 1) : OnPage(text, new[i])
      BY <1>4 DEF OfPage, OnPage
    <3> QED  BY <3>1, <3>2, <3>3, <3>4
  <2>6. Owned(new, text)'
    BY <1>1, <2>1, <2>5 DEF Owned
  <2> QED  BY <2>4, <2>6
<1> QED  BY <1>9, <1>13, <1>14 DEF PageLine

\* A write is carried out, or missed: the second version becomes the first.
LEMMA TakenKeepsLine ==
  ASSUME DraftsIInv, NEW versions, PageLine(versions), PageWrites \/ PageWriteFails
  PROVE  \E new : PageLine(new)'
<1>1. /\ DraftsTypeOK /\ IsLine(versions) /\ stored \in Drafts
      /\ \A text \in 1..MaxTexts : OfDesktop(text)' <=> OfDesktop(text)
  BY PageLeavesDesktop DEF DraftsIInv, PageLine, PageNext, DraftsTypeOK
<1>2. /\ writes # << >> /\ writes' = Tail(writes) /\ UNCHANGED <<timers, page, texts>>
  BY DEF PageWrites, PageWriteFails, boundVars, Fails
<1>3. PICK n \in Nat : Len(writes) = n + 1
  <2>1. Len(writes) \in Nat /\ Len(writes) # 0
    BY <1>1, <1>2, LenProperties, EmptySeq DEF DraftsTypeOK
  <2>2. Len(writes) - 1 \in Nat /\ Len(writes) = (Len(writes) - 1) + 1
    BY <2>1
  <2> QED  BY <2>2
<1>4. /\ Len(writes') = n /\ Head(writes) = writes[1]
      /\ \A i \in 1..n : writes'[i] = writes[i + 1]
  BY <1>1, <1>2, <1>3, QueueTail DEF DraftsTypeOK
<1>5. /\ 0 \in 0..(n + 1) /\ 1 \in 1..(n + 1) /\ n + 1 \in 0..(n + 1) /\ 0 \in 0..n /\ n \in 0..n
      /\ \A i \in 0..n : i + 1 \in 0..(n + 1) /\ i + 1 \in 1..(n + 1)
  BY <1>3
<1>6. PICK new \in [0..n -> [PageKeys -> 0..MaxTexts]] : \A i \in 0..n : new[i] = versions[i + 1]
  <2> DEFINE f == [i \in 0..n |-> versions[i + 1]]
  <2>1. f \in [0..n -> [PageKeys -> 0..MaxTexts]]
    BY <1>1, <1>3, <1>5 DEF IsLine
  <2> QED  BY <2>1
<1>7. \A key \in PageKeys :
        /\ versions[1][key] = IF key \in DOMAIN Head(writes) THEN Head(writes)[key] ELSE versions[0][key]
        /\ key \notin missed => versions[0][key] = stored[key]
  <2>1. \A i \in 1..Len(writes) : \A key \in PageKeys :
          versions[i][key] = IF key \in DOMAIN writes[i] THEN writes[i][key] ELSE versions[i - 1][key]
    BY <1>1 DEF IsLine
  <2>2. 1 \in 1..Len(writes) /\ versions[1 - 1] = versions[0]
    BY <1>3
  <2>3. \A key \in PageKeys : key \notin missed => versions[0][key] = stored[key]
    BY <1>1 DEF IsLine
  <2>4. \A key \in PageKeys :
          versions[1][key] = IF key \in DOMAIN writes[1] THEN writes[1][key] ELSE versions[0][key]
    BY <2>1, <2>2
  <2> QED  BY <1>4, <2>3, <2>4
<1>8. \A key \in PageKeys :
        /\ stored'[key] \in {stored[key], versions[1][key]}
        /\ key \notin missed' => versions[1][key] = stored'[key]
  <2>1. CASE PageWrites
    <3>1. missed' = missed \ DOMAIN Head(writes) /\ stored' = Changed(stored, Head(writes))
      BY <2>1 DEF PageWrites, ApplyChanges
    <3>2. \A key \in PageKeys :
            stored'[key] = IF key \in DOMAIN Head(writes) THEN Head(writes)[key] ELSE stored[key]
      BY <3>1, KeysApart DEF Changed
    <3> QED  BY <1>7, <3>1, <3>2
  <2>2. CASE PageWriteFails
    <3>1. missed' = missed \cup DOMAIN Head(writes) /\ stored' = stored
      BY <2>2 DEF PageWriteFails, storeVars
    <3> QED  BY <1>7, <3>1
  <2> QED  BY <2>1, <2>2
<1>9. IsLine(new)'
  <2>1. \A key \in PageKeys \ missed' : new[0][key] = stored'[key]
    <3>1. new[0] = versions[1]
      BY <1>5, <1>6
    <3> QED  BY <1>8, <3>1
  <2>2. ASSUME NEW i \in 1..n, NEW key \in PageKeys
        PROVE  new[i][key] = IF key \in DOMAIN writes'[i] THEN writes'[i][key] ELSE new[i - 1][key]
    <3>1. i \in 0..n /\ i - 1 \in 0..n /\ (i - 1) + 1 = i /\ (i + 1) - 1 = i /\ i + 1 \in 1..(n + 1)
      BY <1>3
    <3>2. new[i] = versions[i + 1] /\ new[i - 1] = versions[i] /\ writes'[i] = writes[i + 1]
      BY <1>4, <1>6, <3>1
    <3>3. versions[i + 1][key] =
            IF key \in DOMAIN writes[i + 1] THEN writes[i + 1][key] ELSE versions[(i + 1) - 1][key]
      BY <1>1, <1>3, <3>1 DEF IsLine
    <3> QED  BY <3>1, <3>2, <3>3
  <2>3. ASSUME NEW key \in PageKeys, timers'[key] = None
        PROVE  new[n][key] = page'[key]
    <3>1. new[n] = versions[n + 1]
      BY <1>5, <1>6
    <3> QED  BY <1>1, <1>2, <1>3, <2>3, <3>1 DEF IsLine
  <2> QED  BY <1>4, <1>6, <2>1, <2>2, <2>3 DEF IsLine
<1>10. ASSUME NEW text \in 1..MaxTexts
       PROVE  /\ OnPage(text, stored') => OnPage(text, stored) \/ OnPage(text, versions[1])
              /\ text \in gone' => text \in gone \/ OnPage(text, stored)
  <2>1. OnPage(text, stored') => OnPage(text, stored) \/ OnPage(text, versions[1])
    BY <1>8 DEF OnPage
  <2>2. text \in gone' => text \in gone \/ OnPage(text, stored)
    BY PageTakesItsOwn DEF PageNext
  <2> QED  BY <2>1, <2>2
<1>11. ASSUME NEW key \in PageKeys, timers'[key] # None
       PROVE  OnlyTyped(new, key)'
  <2>1. OnlyTyped(versions, key) /\ page' = page
    BY <1>2, <1>11 DEF PageLine
  <2> SUFFICES ASSUME page[key] # 0
               PROVE  /\ page[key] \notin gone' /\ ~ OnPage(page[key], stored')
                      /\ \A i \in 0..n : ~ OnPage(page[key], new[i])
    BY <1>4, <2>1 DEF OnlyTyped, OnPage
  <2>2. /\ page[key] \in 1..MaxTexts
        /\ page[key] \notin gone /\ ~ OnPage(page[key], stored)
        /\ \A i \in 0..(n + 1) : ~ OnPage(page[key], versions[i])
    BY <1>1, <1>3, <2>1, PageTextType DEF OnlyTyped
  <2>3. 1 \in 0..(n + 1)
    BY <1>3
  <2> QED  BY <1>5, <1>6, <1>10, <2>2, <2>3
<1>12. ASSUME NEW text \in 1..MaxTexts
       PROVE  LeavesPage(new, text)' /\ Owned(new, text)'
  <2>1. LeavesPage(versions, text) /\ Owned(versions, text)
    BY DEF PageLine
  <2>2. ASSUME text \in gone' \/ OnPage(text, stored'), ~ OnPage(text, new[0]), NEW i \in 0..n
        PROVE  ~ OnPage(text, new[i])
    <3>1. new[0] = versions[1] /\ new[i] = versions[i + 1]
      BY <1>5, <1>6
    <3>2. text \in gone \/ OnPage(text, stored)
      BY <1>10, <2>2, <3>1
    <3>3. CASE i = 0
      BY <2>2, <3>3
    <3>4. CASE ~ OnPage(text, versions[0])
      BY <1>3, <1>5, <2>1, <3>1, <3>2, <3>4 DEF LeavesPage
    <3>5. CASE i # 0 /\ OnPage(text, versions[0])
      <4>1. 0 < 1 /\ 1 < i + 1 /\ 0 \in 0..(n + 1) /\ 1 \in 0..(n + 1) /\ i + 1 \in 0..(n + 1)
        BY <1>3, <3>5
      <4> QED  BY <1>3, <2>1, <2>2, <3>1, <3>5, <4>1 DEF LeavesPage
    <3> QED  BY <3>3, <3>4, <3>5
  <2>3. ASSUME NEW i \in 0..n, NEW j \in 0..n, NEW k \in 0..n, i < j, j < k,
               OnPage(text, new[i]), ~ OnPage(text, new[j])
        PROVE  ~ OnPage(text, new[k])
    <3>1. /\ i + 1 < j + 1 /\ j + 1 < k + 1
          /\ i + 1 \in 0..(n + 1) /\ j + 1 \in 0..(n + 1) /\ k + 1 \in 0..(n + 1)
      BY <1>3, <2>3
    <3>2. new[i] = versions[i + 1] /\ new[j] = versions[j + 1] /\ new[k] = versions[k + 1]
      BY <1>6
    <3> QED  BY <1>3, <2>1, <2>3, <3>1, <3>2 DEF LeavesPage
  <2>4. LeavesPage(new, text)'
    BY <1>4, <2>2, <2>3 DEF LeavesPage, OnPage
  <2>5. OfPage(new, text)' => OfPage(versions, text)
    <3>1. ASSUME NEW i \in 0..n, OnPage(text, new[i])
          PROVE  OfPage(versions, text)
      BY <1>3, <1>5, <1>6, <3>1 DEF OfPage
    <3>2. OnPage(text, page)' => OfPage(versions, text)
      BY <1>2 DEF OnPage, OfPage
    <3>3. OnPage(text, stored') => OfPage(versions, text)
      <4>1. 1 \in 0..(n + 1)
        BY <1>3
      <4> QED  BY <1>3, <1>10, <4>1 DEF OfPage
    <3>4. OfPage(new, text)' => OnPage(text, page)' \/ OnPage(text, stored') \/ \E i \in 0..n : OnPage(text, new[i])
      BY <1>4 DEF OfPage, OnPage
    <3> QED  BY <3>1, <3>2, <3>3, <3>4
  <2>6. text \in gone' => text \in gone \/ OfPage(versions, text)
    BY <1>10 DEF OfPage
  <2>7. Owned(new, text)'
    BY <1>1, <1>2, <2>1, <2>5, <2>6 DEF Owned
  <2> QED  BY <2>4, <2>7
<1> QED  BY <1>9, <1>11, <1>12 DEF PageLine

LEMMA ReloadKeepsLine ==
  ASSUME DraftsIInv, NEW versions, PageLine(versions), PageReloads
  PROVE  \E new : PageLine(new)'
<1>1. /\ DraftsTypeOK /\ stored \in Drafts
      /\ \A text \in 1..MaxTexts : OfDesktop(text)' <=> OfDesktop(text)
  BY PageLeavesDesktop DEF DraftsIInv, PageNext, DraftsTypeOK
<1>2. /\ page' = stored /\ timers' = [key \in PageKeys |-> None] /\ writes' = << >> /\ missed' = {}
      /\ UNCHANGED <<stored, gone, texts>> /\ Len(writes') = 0
  BY DEF PageReloads, storeVars, Fails
<1>3. PICK document \in [PageKeys -> 0..MaxTexts] : \A key \in PageKeys : document[key] = stored[key]
  <2>1. [key \in PageKeys |-> stored[key]] \in [PageKeys -> 0..MaxTexts]
    BY <1>1, KeysApart DEF Drafts
  <2> QED  BY <2>1
<1>4. PICK new \in [0..0 -> [PageKeys -> 0..MaxTexts]] : new[0] = document
  <2> DEFINE f == [i \in 0..0 |-> document]
  <2>1. f \in [0..0 -> [PageKeys -> 0..MaxTexts]] /\ 0 \in 0..0
    BY <1>3
  <2>2. f[0] = document
    BY <2>1
  <2> QED  BY <2>1, <2>2
<1>5. \A i \in 0..0 : i = 0
  OBVIOUS
<1>6. IsLine(new)'
  BY <1>2, <1>3, <1>4, <1>5 DEF IsLine
<1>7. \A key \in PageKeys : timers'[key] = None
  BY <1>2
<1>8. ASSUME NEW text \in 1..MaxTexts
      PROVE  LeavesPage(new, text)' /\ Owned(new, text)'
  <2>1. Owned(versions, text)
    BY DEF PageLine
  <2>2. LeavesPage(new, text)'
    BY <1>2, <1>5 DEF LeavesPage, OnPage
  <2>3. OfPage(new, text)' => OnPage(text, stored)
    BY <1>2, <1>3, <1>4, <1>5 DEF OfPage, OnPage
  <2>4. Owned(new, text)'
    BY <1>1, <1>2, <2>1, <2>3 DEF Owned, OfPage
  <2> QED  BY <2>2, <2>4
<1> QED  BY <1>6, <1>7, <1>8 DEF PageLine

LEMMA WriteKeepsLine ==
  ASSUME DraftsIInv, NEW versions, PageLine(versions), NEW key \in PageKeys,
         \/ PageTimerFires(key) \/ PageSubmits(key)
         \/ \E destination \in PageKeys : PageMoves(key, destination)
  PROVE  \E new : PageLine(new)'
<1>1. /\ DraftsTypeOK /\ PageIsOnItsWay /\ page \in Drafts
      /\ timers \in [PageKeys -> 0..MaxTexts \cup {None}] /\ \A k \in PageKeys : page[k] \in 0..MaxTexts
  BY PageTextType DEF DraftsIInv, DraftsTypeOK
<1>2. PageUserNext \/ PageNext
  BY DEF PageUserNext, PageNext
<1>3. 0 \in 0..MaxTexts
  BY DraftBoundsAssumption
<1>4. ASSUME NEW text \in 0..MaxTexts
      PROVE  /\ OneChange(key, text) \in PageChanges /\ DOMAIN OneChange(key, text) = {key}
             /\ OneChange(key, text)[key] = text
  <2>1. OneChange(key, text) \in [{key} -> 0..MaxTexts] /\ {key} \in SUBSET PageKeys
    BY DEF OneChange
  <2> QED  BY <2>1, PageChangeType DEF OneChange
<1>5. CASE PageTimerFires(key)
  <2>1. /\ timers[key] \in 0..MaxTexts /\ timers[key] = page[key]
        /\ timers' = [timers EXCEPT ![key] = None] /\ writes' = Append(writes, OneChange(key, page[key]))
        /\ UNCHANGED <<stored, gone, page, missed, texts>>
    BY <1>1, <1>5 DEF PageTimerFires, Enqueue, PageIsOnItsWay, storeVars, boundVars
  <2> DEFINE changes == OneChange(key, page[key])
  <2>2. /\ changes \in PageChanges /\ DOMAIN changes = {key} /\ changes[key] = page[key]
        /\ writes' = Append(writes, changes)
    BY <1>1, <1>4, <2>1
  <2> HIDE DEF changes
  <2>3. \A k \in PageKeys :
          IF k \in DOMAIN changes
            THEN /\ timers'[k] = None /\ changes[k] = page'[k]
                 /\ page'[k] = 0 \/ \E source \in DOMAIN changes : page'[k] = page[source]
            ELSE timers'[k] = timers[k] /\ page'[k] = page[k]
    BY <1>1, <2>1, <2>2
  <2> QED  BY <1>2, <2>1, <2>2, <2>3, EnqueueKeepsLine
<1>6. CASE PageSubmits(key)
  <2>1. /\ page' = [page EXCEPT ![key] = 0]
        /\ timers' = [timers EXCEPT ![key] = None] /\ writes' = Append(writes, OneChange(key, 0))
        /\ UNCHANGED <<stored, gone, missed, texts>>
    BY <1>6 DEF PageSubmits, Enqueue, storeVars, Acts
  <2> DEFINE changes == OneChange(key, 0)
  <2>2. /\ changes \in PageChanges /\ DOMAIN changes = {key} /\ changes[key] = 0
        /\ writes' = Append(writes, changes)
    BY <1>3, <1>4, <2>1
  <2> HIDE DEF changes
  <2>3. \A k \in PageKeys : /\ timers'[k] = IF k = key THEN None ELSE timers[k]
                            /\ page'[k] = IF k = key THEN 0 ELSE page[k]
    BY <1>1, <2>1, KeysApart DEF Drafts
  <2>4. \A k \in PageKeys :
          IF k \in DOMAIN changes
            THEN /\ timers'[k] = None /\ changes[k] = page'[k]
                 /\ page'[k] = 0 \/ \E source \in DOMAIN changes : page'[k] = page[source]
            ELSE timers'[k] = timers[k] /\ page'[k] = page[k]
    BY <2>2, <2>3
  <2> QED  BY <1>2, <2>1, <2>2, <2>4, EnqueueKeepsLine
<1>7. ASSUME NEW destination \in PageKeys, PageMoves(key, destination)
      PROVE  \E new : PageLine(new)'
  <2> DEFINE changes == [k \in {key, destination} |-> IF k = key THEN 0 ELSE page[key]]
  <2>1. changes \in [{key, destination} -> 0..MaxTexts] /\ {key, destination} \in SUBSET PageKeys
    BY <1>1, <1>3
  <2>2. changes \in PageChanges
    BY <2>1, PageChangeType
  <2>3. /\ page' = Changed(page, changes) /\ writes' = Append(writes, changes)
        /\ timers' = [timers EXCEPT ![key] = None, ![destination] = None]
        /\ UNCHANGED <<stored, gone, missed, texts>>
    BY <1>7 DEF PageMoves, Enqueue, storeVars, Acts
  <2>4. DOMAIN changes = {key, destination} /\ \A k \in DOMAIN changes : changes[k] \in {0, page[key]}
    OBVIOUS
  <2> HIDE DEF changes
  <2>5. \A k \in PageKeys : /\ timers'[k] = IF k \in {key, destination} THEN None ELSE timers[k]
                            /\ page'[k] = IF k \in {key, destination} THEN changes[k] ELSE page[k]
    BY <1>1, <2>3, <2>4, KeysApart DEF Changed
  <2>6. \A k \in PageKeys :
          IF k \in DOMAIN changes
            THEN /\ timers'[k] = None /\ changes[k] = page'[k]
                 /\ page'[k] = 0 \/ \E source \in DOMAIN changes : page'[k] = page[source]
            ELSE timers'[k] = timers[k] /\ page'[k] = page[k]
    BY <2>4, <2>5
  <2> QED  BY <1>2, <2>2, <2>3, <2>6, EnqueueKeepsLine
<1> QED  BY <1>5, <1>6, <1>7

-----------------------------------------------------------------------------

LEMMA LinesInitially ==
  ASSUME DraftsInit
  PROVE  LinesIInv
<1>1. DraftsIInv
  BY DraftsInitially
<1>2. /\ stored = Empty /\ snapshot = Empty /\ page = Empty /\ gone = {} /\ jobs = {} /\ saved = 0
      /\ unsure = {} /\ missed = {} /\ writes = << >> /\ Len(writes) = 0 /\ texts = 0
      /\ timers = [key \in PageKeys |-> None]
  BY DEF DraftsInit
<1>3. Capture = Empty /\ \A key \in Keys : Empty[key] = 0
  BY KeysApart DEF DraftsInit, Capture, Empty
<1>4. DesktopLine
  BY <1>2, <1>3 DEF DesktopLine, JobsDiffer, Waiting, LeavesDesktop
<1>5. PICK versions \in [0..0 -> [PageKeys -> 0..MaxTexts]] : \A key \in PageKeys : versions[0][key] = 0
  <2> DEFINE f == [i \in 0..0 |-> [key \in PageKeys |-> 0]]
  <2>1. f \in [0..0 -> [PageKeys -> 0..MaxTexts]] /\ 0 \in 0..0
    BY DraftBoundsAssumption
  <2>2. \A key \in PageKeys : f[0][key] = 0
    BY <2>1
  <2> QED  BY <2>1, <2>2
<1>6. \A text \in 1..MaxTexts : /\ ~ OnDesktop(text, Empty) /\ ~ OnPage(text, Empty)
                                /\ ~ OnPage(text, versions[0])
  BY <1>3, <1>5, KeysApart DEF OnDesktop, OnPage
<1>7. \A i \in 0..0 : i = 0
  OBVIOUS
<1>8. IsLine(versions)
  BY <1>2, <1>3, <1>5, KeysApart DEF IsLine
<1>9. ASSUME NEW text \in 1..MaxTexts
      PROVE  LeavesPage(versions, text) /\ Owned(versions, text)
  <2>1. LeavesPage(versions, text)
    BY <1>2, <1>6, <1>7 DEF LeavesPage
  <2>2. ~ OfDesktop(text) /\ ~ OfPage(versions, text) /\ text \notin gone
    BY <1>2, <1>3, <1>6, <1>7 DEF OfDesktop, OfPage
  <2> QED  BY <2>1, <2>2 DEF Owned
<1>10. PageLine(versions)
  BY <1>2, <1>8, <1>9 DEF PageLine
<1> QED  BY <1>1, <1>4, <1>10 DEF LinesIInv

LEMMA LinesStep ==
  ASSUME LinesIInv, [DraftsNext]_draftVars
  PROVE  LinesIInv'
<1>1. DraftsIInv /\ DesktopLine
  BY DEF LinesIInv
<1>2. PICK versions : PageLine(versions)
  BY DEF LinesIInv
<1>3. DraftsIInv'
  BY <1>1, DraftsStep
<1>4. DesktopLine'
  BY <1>1, <1>2, DesktopLineStep
<1>5. \E new : PageLine(new)'
  <2>1. CASE UNCHANGED draftVars
    <3>1. /\ UNCHANGED <<stored, gone, drafts, selected, composer, jobs, snapshot>>
          /\ UNCHANGED <<page, timers, writes, missed, texts>>
      BY <2>1 DEF draftVars, desktopVars, pageVars, storeVars, boundVars
    <3>2. IsLine(versions)'
      BY <1>2, <3>1 DEF PageLine, IsLine
    <3>3. ASSUME NEW key \in PageKeys, timers'[key] # None  PROVE OnlyTyped(versions, key)'
      BY <1>2, <3>1, <3>3 DEF PageLine, OnlyTyped, OnPage
    <3>4. ASSUME NEW text \in 1..MaxTexts  PROVE LeavesPage(versions, text)' /\ Owned(versions, text)'
      <4>1. LeavesPage(versions, text) /\ Owned(versions, text)
        BY <1>2 DEF PageLine
      <4>2. OfDesktop(text)' <=> OfDesktop(text)
        BY <3>1 DEF OfDesktop, OnDesktop, Capture
      <4>3. OfPage(versions, text)' <=> OfPage(versions, text)
        BY <3>1 DEF OfPage, OnPage
      <4>4. LeavesPage(versions, text)'
        BY <3>1, <4>1 DEF LeavesPage, OnPage
      <4> QED  BY <3>1, <4>1, <4>2, <4>3, <4>4 DEF Owned
    <3>5. PageLine(versions)'
      BY <3>2, <3>3, <3>4 DEF PageLine
    <3> QED  BY <3>5
  <2>2. CASE DesktopUserNext \/ DesktopNext
    BY <1>1, <1>2, <2>2, DesktopKeepsLine
  <2>3. CASE PageUserNext
    BY <1>1, <1>2, <2>3, TypingKeepsLine, WriteKeepsLine DEF PageUserNext
  <2>4. CASE PageNext
    BY <1>1, <1>2, <2>4, WriteKeepsLine, TakenKeepsLine, ReloadKeepsLine DEF PageNext
  <2> QED  BY <2>1, <2>2, <2>3, <2>4 DEF DraftsNext
<1> QED  BY <1>3, <1>4, <1>5 DEF LinesIInv

\* The desktop stores no text that is gone, and the page stores none.
LEMMA NothingBack ==
  ASSUME LinesIInv, [DraftsNext]_draftVars, ~ unanswered, missed = {},
         NEW text \in gone, text \in Range(stored'), text \notin Range(stored)
  PROVE  FALSE
<1>1. DraftsIInv /\ DesktopLine /\ DraftsTypeOK /\ DesktopKeepsPages /\ SnapshotIsStored
  BY DEF LinesIInv, DraftsIInv
<1>2. text \in 1..MaxTexts /\ DOMAIN stored = Keys
  BY <1>1 DEF DraftsTypeOK, Drafts
<1>3. ~ OnDesktop(text, stored) /\ ~ OnPage(text, stored)
  BY <1>2, KeysApart DEF Range, OnDesktop, OnPage
<1>4. ASSUME DOMAIN stored' = Keys
      PROVE  OnDesktop(text, stored') \/ OnPage(text, stored')
  BY <1>4, KeysApart DEF Range, OnDesktop, OnPage
<1>5. ASSUME NEW job \in jobs, ~ Overtaken(job),
             ApplyChanges(ComposerDraftChanges(snapshot, job.drafts))
      PROVE  FALSE
  <2>1. unsure = {} /\ LeavesDesktop(text) /\ JobsDiffer
    BY <1>1, <1>2 DEF DesktopLine
  <2>2. saved < job.generation
    BY <1>1, <1>5, <2>1 DEF Overtaken, JobsDiffer, DraftsTypeOK
  <2>3. /\ ~ OnDesktop(text, snapshot)
        /\ OnDesktop(text, job.drafts)
    <3>1. DOMAIN stored' = Keys
      BY <1>5 DEF ApplyChanges, Changed
    <3> QED  BY <1>1, <1>2, <1>3, <1>4, <1>5, <2>1, <3>1, SavedTexts
  <2> QED  BY <2>1, <2>2, <2>3 DEF LeavesDesktop, Waiting
<1>6. CASE PageWrites
  <2>1. PICK versions : PageLine(versions)
    BY DEF LinesIInv
  <2>2. IsLine(versions) /\ LeavesPage(versions, text)
    BY <1>2, <2>1 DEF PageLine
  <2>3. ~ OnPage(text, versions[0])
    BY <1>3, <2>2 DEF IsLine, OnPage
  <2>4. /\ writes # << >> /\ stored' = [key \in Keys |-> IF key \in DOMAIN Head(writes)
                                                        THEN Head(writes)[key] ELSE stored[key]]
    BY <1>6 DEF PageWrites, ApplyChanges, Changed
  <2>5. /\ Head(writes) = writes[1] /\ 1 \in 1..Len(writes) /\ 1 \in 0..Len(writes)
        /\ Head(writes) \in PageChanges
    <3>1. writes \in Seq(PageChanges)
      BY <1>1 DEF DraftsTypeOK
    <3>2. /\ Head(writes) = writes[1] /\ 1 \in 1..Len(writes) /\ Head(writes) \in PageChanges
      BY <2>4, <3>1, QueueTail, HeadTailProperties
    <3> QED  BY <3>2
  <2>6. PICK key \in Keys : stored'[key] = text
    BY <2>4 DEF Range
  <2>7. key \in DOMAIN Head(writes) /\ Head(writes)[key] = text
    BY <1>2, <2>4, <2>6 DEF Range
  <2>8. key \in PageKeys
    BY <2>5, <2>7 DEF PageChanges
  <2>9. versions[1][key] = text
    BY <2>2, <2>5, <2>7, <2>8 DEF IsLine
  <2> QED  BY <1>3, <2>2, <2>3, <2>5, <2>8, <2>9 DEF LeavesPage, OnPage
<1>7. CASE UNCHANGED stored
  BY <1>7
<1> QED  BY <1>1, <1>5, <1>6, <1>7
         DEF DraftsNext, DesktopUserNext, DesktopNext, PageUserNext, PageNext,
             TypeText, ClearText, Edit, Quit, SelectTask, MoveDraft, Submit, TimerFires, Stop, Start,
             Save, DropOvertaken, SaveFails, PageTypes, PageClears, PageEdit, PageSubmits, PageMoves,
             PageTimerFires, PageWriteFails, PageReloads, storeVars, draftVars

(***************************************************************************)
(* The documents the daemon is still to hold have an order for each        *)
(* client, and a text that left them stays out: the inductive invariant    *)
(* behind "generation checks also make detached timers and out-of-order    *)
(* writes harmless" (drafts.rs).                                           *)
(***************************************************************************)
THEOREM LinesInductive == DraftsSpec => []LinesIInv
  BY LinesInitially, LinesStep, PTL DEF DraftsSpec

(***************************************************************************)
(* A text that left the daemon's document is put there again by no timer,  *)
(* job or write of an earlier moment, unless the desktop's save was        *)
(* carried out unanswered or a write of the page failed.                   *)
(***************************************************************************)
THEOREM DraftsStayGone == DraftsSpec => NothingResurfaces
<1>1. LinesIInv /\ [DraftsNext]_draftVars =>
        [~unanswered /\ missed = {} => gone \cap (Range(stored') \ Range(stored)) = {}]_draftVars
  <2> SUFFICES ASSUME LinesIInv, [DraftsNext]_draftVars, ~ unanswered, missed = {}
               PROVE  gone \cap (Range(stored') \ Range(stored)) = {}
    OBVIOUS
  <2> QED  BY NothingBack
<1> QED  BY <1>1, LinesInductive, PTL DEF DraftsSpec, NothingResurfaces

-----------------------------------------------------------------------------
(* SettingsWriter *)

\* What the writer has made the daemon write, before it records it.
AppliedIsWritten == writer = "applied" => daemon = writing

(***************************************************************************)
(* With no update checked or sent and nothing queued, whatever stage the   *)
(* writer is in, it ends with the daemon having what the user wants: it    *)
(* reads that again before each attempt, and has read it already otherwise.*)
(***************************************************************************)
OnItsWay ==
  ui = "done" /\ channel = << >> /\ ~ skipped =>
    /\ writer = "receiving" => daemon = settings
    /\ writer \in {"requesting", "applied"} => writing = settings

SettingsIInv ==
  SettingsTypeOK /\ PersistedIsCurrent /\ AppliedIsWritten /\ OnItsWay

-----------------------------------------------------------------------------

\* Every step of every thread keeps the types.
LEMMA SettingsTypeStep ==
  ASSUME SettingsTypeOK, [SettingsNext]_settingsVars
  PROVE  SettingsTypeOK'
<1> USE SettingsAssumption, SettingsBoundsAssumption DEF SettingsTypeOK
<1>1. ASSUME NEW value \in Values, UpdateSettings(value)  PROVE SettingsTypeOK'
  <2>1. updates' \in 0..MaxUpdates
    BY <1>1 DEF UpdateSettings
  <2> QED  BY <1>1, <2>1 DEF UpdateSettings
<1>2. CASE DaemonReplaced
  BY <1>2 DEF DaemonReplaced
<1>3. CASE UiNext
  <2>1. CASE CheckPersisted
    BY <2>1 DEF CheckPersisted
  <2>2. CASE SendUpdate
    BY <2>2 DEF SendUpdate
  <2> QED  BY <1>3, <2>1, <2>2 DEF UiNext
<1>4. CASE RefresherNext
  <2>1. CASE ForgetPersisted
    BY <2>1 DEF ForgetPersisted
  <2>2. CASE SendRefresh
    BY <2>2 DEF SendRefresh
  <2> QED  BY <1>4, <2>1, <2>2 DEF RefresherNext
<1>5. CASE ReceiveNewest
  BY <1>5 DEF ReceiveNewest
<1>6. CASE Prepare
  BY <1>6 DEF Prepare
<1>7. CASE DaemonApplies
  BY <1>7 DEF DaemonApplies
<1>8. CASE Acknowledged
  BY <1>8 DEF Acknowledged
<1>9. CASE RequestFails
  BY <1>9 DEF RequestFails
<1>10. CASE UNCHANGED settingsVars
  BY <1>10 DEF settingsVars
<1> QED
  BY <1>1, <1>2, <1>3, <1>4, <1>5, <1>6, <1>7, <1>8, <1>9, <1>10
  DEF SettingsNext, WriterNext

\* What is persisted changes only to unknown, or to what the daemon has.
LEMMA PersistedStep ==
  ASSUME SettingsTypeOK, PersistedIsCurrent, AppliedIsWritten, [SettingsNext]_settingsVars
  PROVE  PersistedIsCurrent' /\ AppliedIsWritten'
<1> USE SettingsAssumption DEF PersistedIsCurrent, AppliedIsWritten
<1>1. ASSUME NEW value \in Values, UpdateSettings(value)
      PROVE  PersistedIsCurrent' /\ AppliedIsWritten'
  BY <1>1 DEF UpdateSettings
<1>2. CASE DaemonReplaced
  BY <1>2 DEF DaemonReplaced
<1>3. CASE UiNext
  BY <1>3 DEF UiNext, CheckPersisted, SendUpdate
<1>4. CASE RefresherNext
  BY <1>4 DEF RefresherNext, ForgetPersisted, SendRefresh
<1>5. CASE ReceiveNewest
  BY <1>5 DEF ReceiveNewest
<1>6. CASE Prepare
  BY <1>6 DEF Prepare
<1>7. CASE DaemonApplies
  BY <1>7 DEF DaemonApplies
<1>8. CASE Acknowledged
  BY <1>8 DEF Acknowledged
<1>9. CASE RequestFails
  BY <1>9 DEF RequestFails
<1>10. CASE UNCHANGED settingsVars
  BY <1>10 DEF settingsVars
<1> QED
  BY <1>1, <1>2, <1>3, <1>4, <1>5, <1>6, <1>7, <1>8, <1>9, <1>10
  DEF SettingsNext, WriterNext

(***************************************************************************)
(* The current value never gets lost between the threads: an update leaves *)
(* `done` only through the channel, or is skipped because the value is     *)
(* persisted and no other is on its way.                                   *)
(***************************************************************************)
LEMMA OnItsWayStep ==
  ASSUME SettingsIInv, [SettingsNext]_settingsVars
  PROVE  OnItsWay'
<1> USE SettingsAssumption DEF SettingsIInv, SettingsTypeOK, OnItsWay
<1>1. ASSUME NEW value \in Values, UpdateSettings(value)  PROVE OnItsWay'
  BY <1>1 DEF UpdateSettings
<1>2. CASE DaemonReplaced
  BY <1>2 DEF DaemonReplaced
<1>3. CASE CheckPersisted
  <2>1. SUFFICES ASSUME ui' = "done", channel' = << >>, ~ skipped'
                 PROVE  /\ writer' = "receiving" => daemon' = settings'
                        /\ writer' \in {"requesting", "applied"} => writing' = settings'
    BY DEF OnItsWay
  <2>2. persisted = settings /\ ~ OtherOnItsWay
    BY <1>3, <2>1 DEF CheckPersisted
  <2> QED
    BY <1>3, <2>2 DEF CheckPersisted, OtherOnItsWay, PersistedIsCurrent, AppliedIsWritten
<1>4. CASE SendUpdate
  <2>1. channel' # << >>
    BY <1>4 DEF SendUpdate
  <2> QED  BY <2>1
<1>5. CASE RefresherNext
  <2>1. CASE ForgetPersisted
    BY <2>1 DEF ForgetPersisted
  <2>2. CASE SendRefresh
    <3>1. channel' # << >>
      BY <2>2 DEF SendRefresh
    <3> QED  BY <3>1
  <2> QED  BY <1>5, <2>1, <2>2 DEF RefresherNext
<1>6. CASE ReceiveNewest
  BY <1>6 DEF ReceiveNewest
<1>7. CASE Prepare
  BY <1>7 DEF Prepare
<1>8. CASE DaemonApplies
  BY <1>8 DEF DaemonApplies
<1>9. CASE Acknowledged
  BY <1>9 DEF Acknowledged, AppliedIsWritten
<1>10. CASE RequestFails
  BY <1>10 DEF RequestFails
<1>11. CASE UNCHANGED settingsVars
  BY <1>11 DEF settingsVars
<1> QED
  BY <1>1, <1>2, <1>3, <1>4, <1>5, <1>6, <1>7, <1>8, <1>9, <1>10, <1>11
  DEF SettingsNext, UiNext, WriterNext

-----------------------------------------------------------------------------

(***************************************************************************)
(* The inductive invariant: what is written was applied, and the current   *)
(* value is at the daemon or still on its way.                             *)
(***************************************************************************)
THEOREM SettingsInductive == SettingsSpec => []SettingsIInv
<1>1. SettingsInit => SettingsIInv
  <2>1. SettingsInit => SettingsTypeOK
    <3>1. /\ << >> \in Seq(Values)
          /\ 0 \in 0..MaxUpdates /\ 0 \in 0..MaxReplaced /\ 0 \in 0..MaxFailures
      BY SettingsBoundsAssumption
    <3> QED  BY <3>1, SettingsAssumption DEF SettingsInit, SettingsTypeOK
  <2>2. SettingsInit => PersistedIsCurrent /\ AppliedIsWritten /\ OnItsWay
    BY DEF SettingsInit, PersistedIsCurrent, AppliedIsWritten, OnItsWay
  <2> QED  BY <2>1, <2>2 DEF SettingsIInv
<1>2. SettingsIInv /\ [SettingsNext]_settingsVars => SettingsIInv'
  BY SettingsTypeStep, PersistedStep, OnItsWayStep DEF SettingsIInv
<1> QED  BY <1>1, <1>2, PTL DEF SettingsSpec

\* The types of the settings, the channel and the stages of the three threads.
THEOREM SettingsTypeCorrect == SettingsSpec => []SettingsTypeOK
<1>1. SettingsIInv => SettingsTypeOK
  BY DEF SettingsIInv
<1> QED  BY <1>1, SettingsInductive, PTL

(***************************************************************************)
(* Whatever update_settings, queue_settings_refresh and persist_settings   *)
(* interleave, the supervisor is right about what the daemon has when the  *)
(* writer is idle, and at rest the daemon has what the user wants.         *)
(***************************************************************************)
THEOREM SettingsCorrect == SettingsSpec => []SettingsInvariant
<1>1. SettingsIInv => SettingsInvariant
  BY DEF SettingsIInv, SettingsInvariant, SettledIsCurrent, OnItsWay
<1> QED  BY <1>1, SettingsInductive, PTL

-----------------------------------------------------------------------------
(* ServerPool *)

Replacing == {"superseding", "discarding", "launching", "starting"}

\* One thread at a time replaces the slot's server, just while it is starting.
OneStarter ==
  /\ \A s, t \in Sessions : phase[s] \in Replacing /\ phase[t] \in Replacing => s = t
  /\ \A s \in Sessions : phase[s] \in Replacing => slotState = "starting"

\* One thread at a time stops the slot's server, and keeps the lock.
OneStopper ==
  /\ \A s, t \in Sessions : phase[s] = "stopping" /\ phase[t] = "stopping" => s = t
  /\ \A s \in Sessions :
       phase[s] = "stopping" => slotState = "stopping" /\ slotServer = handle[s]

\* A process runs only in the slot or in the hands of the thread starting it.
AliveIsSlots ==
  \A g \in Servers :
    process[g] = "alive" =>
      \/ slotState \in {"running", "stopping"} /\ slotServer = g
      \/ \E s \in Sessions : phase[s] = "starting" /\ handle[s] = g

Strong(s) == phase[s] \in {"holding", "superseding"}

\* While one thread holds a server, no other is in its destructor.
HeldIsShared ==
  \A s \in Sessions :
    Strong(s) =>
      /\ handle[s] \notin stopped
      /\ \A t \in Sessions : handle[t] = handle[s] => Strong(t)

\* Nobody else knows the server a thread is starting.
StartingIsOwn ==
  \A s \in Sessions :
    phase[s] = "starting" =>
      /\ handle[s] \notin stopped
      /\ \A t \in Sessions : handle[t] = handle[s] => t = s

\* A server that a thread or the pool has known has been launched.
KnownIsLaunched ==
  /\ \A s \in Sessions : handle[s] # NoServer => process[handle[s]] # "none"
  /\ \A g \in stopped : process[g] # "none"

\* The slot refers to a server whenever it runs one.
SlotHasServer ==
  slotState \in {"running", "stopping"} => slotServer \in Servers /\ process[slotServer] # "none"

PoolIInv ==
  /\ PoolTypeOK /\ OneStarter /\ OneStopper /\ AliveIsSlots
  /\ HeldIsShared /\ StartingIsOwn /\ KnownIsLaunched /\ SlotHasServer

-----------------------------------------------------------------------------
\* Every action keeps the types.
LEMMA PoolTypeStep ==
  ASSUME PoolTypeOK, PoolNext
  PROVE  PoolTypeOK'
<1> USE NoServerAssumption DEF PoolTypeOK, Phases, Holders
<1>1. ASSUME NEW s \in Sessions, Acquire(s)  PROVE PoolTypeOK'
  BY <1>1 DEF Acquire
<1>2. ASSUME NEW s \in Sessions, Adopt(s)  PROVE PoolTypeOK'
  BY <1>2 DEF Adopt
<1>3. ASSUME NEW s \in Sessions, Supersede(s)  PROVE PoolTypeOK'
  BY <1>3 DEF Supersede
<1>4. ASSUME NEW s \in Sessions, WaitForChange(s)  PROVE PoolTypeOK'
  BY <1>4 DEF WaitForChange
<1>5. ASSUME NEW s \in Sessions, ClaimVacant(s)  PROVE PoolTypeOK'
  BY <1>5 DEF ClaimVacant
<1>6. ASSUME NEW s \in Sessions, DropSuperseded(s)  PROVE PoolTypeOK'
  BY <1>6 DEF DropSuperseded
<1>7. ASSUME NEW s \in Sessions, NEW g \in Servers, Launch(s, g)  PROVE PoolTypeOK'
  BY <1>7 DEF Launch
<1>8. ASSUME NEW s \in Sessions, StartSucceeds(s)  PROVE PoolTypeOK'
  BY <1>8 DEF StartSucceeds, NotifyAll, LockFree
<1>9. ASSUME NEW s \in Sessions, StartFails(s)  PROVE PoolTypeOK'
  BY <1>9 DEF StartFails, NotifyAll, LockFree
<1>10. ASSUME NEW s \in Sessions, SpawnFails(s)  PROVE PoolTypeOK'
  BY <1>10 DEF SpawnFails, NotifyAll, LockFree
<1>11. ASSUME NEW s \in Sessions, Release(s)  PROVE PoolTypeOK'
  BY <1>11 DEF Release
<1>12. ASSUME NEW s \in Sessions, BeginStop(s)  PROVE PoolTypeOK'
  BY <1>12 DEF BeginStop, IsCurrent
<1>13. ASSUME NEW s \in Sessions, EndStop(s)  PROVE PoolTypeOK'
  BY <1>13 DEF EndStop, NotifyAll
<1>14. ASSUME NEW s \in Sessions, Reap(s)  PROVE PoolTypeOK'
  BY <1>14 DEF Reap, IsCurrent, LockFree
<1>15. ASSUME NEW s \in Sessions, SpuriousWakeup(s)  PROVE PoolTypeOK'
  BY <1>15 DEF SpuriousWakeup
<1>16. ASSUME NEW g \in Servers, ProcessExits(g)  PROVE PoolTypeOK'
  BY <1>16 DEF ProcessExits
<1> QED
  BY <1>1, <1>2, <1>3, <1>4, <1>5, <1>6, <1>7, <1>8,
     <1>9, <1>10, <1>11, <1>12, <1>13, <1>14, <1>15, <1>16
  DEF PoolNext, AcquireStep, DropStep

\* Only a thread that finds no other starting begins to.
LEMMA OneStarterStep ==
  ASSUME PoolTypeOK, OneStarter, OneStopper, PoolNext
  PROVE  OneStarter'
<1> USE DEF PoolTypeOK, Phases, OneStarter, OneStopper, Replacing
<1>1. ASSUME NEW s \in Sessions, Acquire(s)  PROVE OneStarter'
  BY <1>1 DEF Acquire
<1>2. ASSUME NEW s \in Sessions, Adopt(s)  PROVE OneStarter'
  BY <1>2 DEF Adopt, Holders
<1>3. ASSUME NEW s \in Sessions, Supersede(s)  PROVE OneStarter'
  BY <1>3 DEF Supersede, Holders
<1>4. ASSUME NEW s \in Sessions, WaitForChange(s)  PROVE OneStarter'
  BY <1>4 DEF WaitForChange, Holders
<1>5. ASSUME NEW s \in Sessions, ClaimVacant(s)  PROVE OneStarter'
  BY <1>5 DEF ClaimVacant
<1>6. ASSUME NEW s \in Sessions, DropSuperseded(s)  PROVE OneStarter'
  BY <1>6 DEF DropSuperseded, Holders
<1>7. ASSUME NEW s \in Sessions, NEW g \in Servers, Launch(s, g)  PROVE OneStarter'
  BY <1>7 DEF Launch
<1>8. ASSUME NEW s \in Sessions, StartSucceeds(s)  PROVE OneStarter'
  BY <1>8 DEF StartSucceeds, NotifyAll, LockFree
<1>9. ASSUME NEW s \in Sessions, StartFails(s)  PROVE OneStarter'
  BY <1>9 DEF StartFails, NotifyAll, LockFree
<1>10. ASSUME NEW s \in Sessions, SpawnFails(s)  PROVE OneStarter'
  BY <1>10 DEF SpawnFails, NotifyAll, LockFree
<1>11. ASSUME NEW s \in Sessions, Release(s)  PROVE OneStarter'
  BY <1>11 DEF Release, Holders
<1>12. ASSUME NEW s \in Sessions, BeginStop(s)  PROVE OneStarter'
  BY <1>12 DEF BeginStop, IsCurrent
<1>13. ASSUME NEW s \in Sessions, EndStop(s)  PROVE OneStarter'
  BY <1>13 DEF EndStop, NotifyAll
<1>14. ASSUME NEW s \in Sessions, Reap(s)  PROVE OneStarter'
  BY <1>14 DEF Reap, IsCurrent, LockFree
<1>15. ASSUME NEW s \in Sessions, SpuriousWakeup(s)  PROVE OneStarter'
  BY <1>15 DEF SpuriousWakeup
<1>16. ASSUME NEW g \in Servers, ProcessExits(g)  PROVE OneStarter'
  BY <1>16 DEF ProcessExits
<1> QED
  BY <1>1, <1>2, <1>3, <1>4, <1>5, <1>6, <1>7, <1>8,
     <1>9, <1>10, <1>11, <1>12, <1>13, <1>14, <1>15, <1>16
  DEF PoolNext, AcquireStep, DropStep

\* Only the current server's destructor stops it, and under the lock.
LEMMA OneStopperStep ==
  ASSUME PoolTypeOK, OneStarter, OneStopper, PoolNext
  PROVE  OneStopper'
<1> USE DEF PoolTypeOK, Phases, OneStopper, OneStarter, Replacing
<1>1. ASSUME NEW s \in Sessions, Acquire(s)  PROVE OneStopper'
  BY <1>1 DEF Acquire
<1>2. ASSUME NEW s \in Sessions, Adopt(s)  PROVE OneStopper'
  BY <1>2 DEF Adopt, Holders
<1>3. ASSUME NEW s \in Sessions, Supersede(s)  PROVE OneStopper'
  BY <1>3 DEF Supersede, Holders
<1>4. ASSUME NEW s \in Sessions, WaitForChange(s)  PROVE OneStopper'
  BY <1>4 DEF WaitForChange, Holders
<1>5. ASSUME NEW s \in Sessions, ClaimVacant(s)  PROVE OneStopper'
  BY <1>5 DEF ClaimVacant
<1>6. ASSUME NEW s \in Sessions, DropSuperseded(s)  PROVE OneStopper'
  BY <1>6 DEF DropSuperseded, Holders
<1>7. ASSUME NEW s \in Sessions, NEW g \in Servers, Launch(s, g)  PROVE OneStopper'
  BY <1>7 DEF Launch
<1>8. ASSUME NEW s \in Sessions, StartSucceeds(s)  PROVE OneStopper'
  BY <1>8 DEF StartSucceeds, NotifyAll, LockFree
<1>9. ASSUME NEW s \in Sessions, StartFails(s)  PROVE OneStopper'
  BY <1>9 DEF StartFails, NotifyAll, LockFree
<1>10. ASSUME NEW s \in Sessions, SpawnFails(s)  PROVE OneStopper'
  BY <1>10 DEF SpawnFails, NotifyAll, LockFree
<1>11. ASSUME NEW s \in Sessions, Release(s)  PROVE OneStopper'
  BY <1>11 DEF Release, Holders
<1>12. ASSUME NEW s \in Sessions, BeginStop(s)  PROVE OneStopper'
  BY <1>12 DEF BeginStop, IsCurrent
<1>13. ASSUME NEW s \in Sessions, EndStop(s)  PROVE OneStopper'
  BY <1>13 DEF EndStop, NotifyAll
<1>14. ASSUME NEW s \in Sessions, Reap(s)  PROVE OneStopper'
  BY <1>14 DEF Reap, IsCurrent, LockFree
<1>15. ASSUME NEW s \in Sessions, SpuriousWakeup(s)  PROVE OneStopper'
  BY <1>15 DEF SpuriousWakeup
<1>16. ASSUME NEW g \in Servers, ProcessExits(g)  PROVE OneStopper'
  BY <1>16 DEF ProcessExits
<1> QED
  BY <1>1, <1>2, <1>3, <1>4, <1>5, <1>6, <1>7, <1>8,
     <1>9, <1>10, <1>11, <1>12, <1>13, <1>14, <1>15, <1>16
  DEF PoolNext, AcquireStep, DropStep

\* A process is launched when no other runs, and leaves the slot exited.
LEMMA AliveIsSlotsStep ==
  ASSUME PoolTypeOK, OneStarter, OneStopper, AliveIsSlots, PoolNext
  PROVE  AliveIsSlots'
<1> USE DEF PoolTypeOK, Phases, AliveIsSlots, OneStarter, OneStopper, Replacing
<1>1. ASSUME NEW s \in Sessions, Acquire(s)  PROVE AliveIsSlots'
  BY <1>1 DEF Acquire
<1>2. ASSUME NEW s \in Sessions, Adopt(s)  PROVE AliveIsSlots'
  BY <1>2 DEF Adopt, Holders
<1>3. ASSUME NEW s \in Sessions, Supersede(s)  PROVE AliveIsSlots'
  BY <1>3 DEF Supersede, Holders
<1>4. ASSUME NEW s \in Sessions, WaitForChange(s)  PROVE AliveIsSlots'
  BY <1>4 DEF WaitForChange, Holders
<1>5. ASSUME NEW s \in Sessions, ClaimVacant(s)  PROVE AliveIsSlots'
  BY <1>5 DEF ClaimVacant
<1>6. ASSUME NEW s \in Sessions, DropSuperseded(s)  PROVE AliveIsSlots'
  BY <1>6 DEF DropSuperseded, Holders
<1>7. ASSUME NEW s \in Sessions, NEW g \in Servers, Launch(s, g)  PROVE AliveIsSlots'
  BY <1>7 DEF Launch
<1>8. ASSUME NEW s \in Sessions, StartSucceeds(s)  PROVE AliveIsSlots'
  BY <1>8 DEF StartSucceeds, NotifyAll, LockFree
<1>9. ASSUME NEW s \in Sessions, StartFails(s)  PROVE AliveIsSlots'
  BY <1>9 DEF StartFails, NotifyAll, LockFree
<1>10. ASSUME NEW s \in Sessions, SpawnFails(s)  PROVE AliveIsSlots'
  BY <1>10 DEF SpawnFails, NotifyAll, LockFree
<1>11. ASSUME NEW s \in Sessions, Release(s)  PROVE AliveIsSlots'
  BY <1>11 DEF Release, Holders
<1>12. ASSUME NEW s \in Sessions, BeginStop(s)  PROVE AliveIsSlots'
  BY <1>12 DEF BeginStop, IsCurrent
<1>13. ASSUME NEW s \in Sessions, EndStop(s)  PROVE AliveIsSlots'
  BY <1>13 DEF EndStop, NotifyAll
<1>14. ASSUME NEW s \in Sessions, Reap(s)  PROVE AliveIsSlots'
  BY <1>14 DEF Reap, IsCurrent, LockFree
<1>15. ASSUME NEW s \in Sessions, SpuriousWakeup(s)  PROVE AliveIsSlots'
  BY <1>15 DEF SpuriousWakeup
<1>16. ASSUME NEW g \in Servers, ProcessExits(g)  PROVE AliveIsSlots'
  BY <1>16 DEF ProcessExits
<1> QED
  BY <1>1, <1>2, <1>3, <1>4, <1>5, <1>6, <1>7, <1>8,
     <1>9, <1>10, <1>11, <1>12, <1>13, <1>14, <1>15, <1>16
  DEF PoolNext, AcquireStep, DropStep

\* The slot runs what was launched.
LEMMA SlotHasServerStep ==
  ASSUME PoolTypeOK, KnownIsLaunched, SlotHasServer, PoolNext
  PROVE  SlotHasServer'
<1> USE DEF PoolTypeOK, Phases, SlotHasServer, KnownIsLaunched
<1>1. ASSUME NEW s \in Sessions, Acquire(s)  PROVE SlotHasServer'
  BY <1>1 DEF Acquire
<1>2. ASSUME NEW s \in Sessions, Adopt(s)  PROVE SlotHasServer'
  BY <1>2 DEF Adopt, Holders
<1>3. ASSUME NEW s \in Sessions, Supersede(s)  PROVE SlotHasServer'
  BY <1>3 DEF Supersede, Holders
<1>4. ASSUME NEW s \in Sessions, WaitForChange(s)  PROVE SlotHasServer'
  BY <1>4 DEF WaitForChange, Holders
<1>5. ASSUME NEW s \in Sessions, ClaimVacant(s)  PROVE SlotHasServer'
  BY <1>5 DEF ClaimVacant
<1>6. ASSUME NEW s \in Sessions, DropSuperseded(s)  PROVE SlotHasServer'
  BY <1>6 DEF DropSuperseded, Holders
<1>7. ASSUME NEW s \in Sessions, NEW g \in Servers, Launch(s, g)  PROVE SlotHasServer'
  BY <1>7 DEF Launch
<1>8. ASSUME NEW s \in Sessions, StartSucceeds(s)  PROVE SlotHasServer'
  BY <1>8 DEF StartSucceeds, NotifyAll, LockFree
<1>9. ASSUME NEW s \in Sessions, StartFails(s)  PROVE SlotHasServer'
  BY <1>9 DEF StartFails, NotifyAll, LockFree
<1>10. ASSUME NEW s \in Sessions, SpawnFails(s)  PROVE SlotHasServer'
  BY <1>10 DEF SpawnFails, NotifyAll, LockFree
<1>11. ASSUME NEW s \in Sessions, Release(s)  PROVE SlotHasServer'
  BY <1>11 DEF Release, Holders
<1>12. ASSUME NEW s \in Sessions, BeginStop(s)  PROVE SlotHasServer'
  BY <1>12 DEF BeginStop, IsCurrent
<1>13. ASSUME NEW s \in Sessions, EndStop(s)  PROVE SlotHasServer'
  BY <1>13 DEF EndStop, NotifyAll
<1>14. ASSUME NEW s \in Sessions, Reap(s)  PROVE SlotHasServer'
  BY <1>14 DEF Reap, IsCurrent, LockFree
<1>15. ASSUME NEW s \in Sessions, SpuriousWakeup(s)  PROVE SlotHasServer'
  BY <1>15 DEF SpuriousWakeup
<1>16. ASSUME NEW g \in Servers, ProcessExits(g)  PROVE SlotHasServer'
  BY <1>16 DEF ProcessExits
<1> QED
  BY <1>1, <1>2, <1>3, <1>4, <1>5, <1>6, <1>7, <1>8,
     <1>9, <1>10, <1>11, <1>12, <1>13, <1>14, <1>15, <1>16
  DEF PoolNext, AcquireStep, DropStep

\* Handles come from the slot or from a launch.
LEMMA KnownIsLaunchedStep ==
  ASSUME PoolTypeOK, KnownIsLaunched, SlotHasServer, PoolNext
  PROVE  KnownIsLaunched'
<1> USE DEF PoolTypeOK, Phases, SlotHasServer, KnownIsLaunched
<1>1. ASSUME NEW s \in Sessions, Acquire(s)  PROVE KnownIsLaunched'
  BY <1>1 DEF Acquire
<1>2. ASSUME NEW s \in Sessions, Adopt(s)  PROVE KnownIsLaunched'
  BY <1>2 DEF Adopt, Holders
<1>3. ASSUME NEW s \in Sessions, Supersede(s)  PROVE KnownIsLaunched'
  BY <1>3 DEF Supersede, Holders
<1>4. ASSUME NEW s \in Sessions, WaitForChange(s)  PROVE KnownIsLaunched'
  BY <1>4 DEF WaitForChange, Holders
<1>5. ASSUME NEW s \in Sessions, ClaimVacant(s)  PROVE KnownIsLaunched'
  BY <1>5 DEF ClaimVacant
<1>6. ASSUME NEW s \in Sessions, DropSuperseded(s)  PROVE KnownIsLaunched'
  BY <1>6 DEF DropSuperseded, Holders
<1>7. ASSUME NEW s \in Sessions, NEW g \in Servers, Launch(s, g)  PROVE KnownIsLaunched'
  BY <1>7 DEF Launch
<1>8. ASSUME NEW s \in Sessions, StartSucceeds(s)  PROVE KnownIsLaunched'
  BY <1>8 DEF StartSucceeds, NotifyAll, LockFree
<1>9. ASSUME NEW s \in Sessions, StartFails(s)  PROVE KnownIsLaunched'
  BY <1>9 DEF StartFails, NotifyAll, LockFree
<1>10. ASSUME NEW s \in Sessions, SpawnFails(s)  PROVE KnownIsLaunched'
  BY <1>10 DEF SpawnFails, NotifyAll, LockFree
<1>11. ASSUME NEW s \in Sessions, Release(s)  PROVE KnownIsLaunched'
  BY <1>11 DEF Release, Holders
<1>12. ASSUME NEW s \in Sessions, BeginStop(s)  PROVE KnownIsLaunched'
  BY <1>12 DEF BeginStop, IsCurrent
<1>13. ASSUME NEW s \in Sessions, EndStop(s)  PROVE KnownIsLaunched'
  BY <1>13 DEF EndStop, NotifyAll
<1>14. ASSUME NEW s \in Sessions, Reap(s)  PROVE KnownIsLaunched'
  BY <1>14 DEF Reap, IsCurrent, LockFree
<1>15. ASSUME NEW s \in Sessions, SpuriousWakeup(s)  PROVE KnownIsLaunched'
  BY <1>15 DEF SpuriousWakeup
<1>16. ASSUME NEW g \in Servers, ProcessExits(g)  PROVE KnownIsLaunched'
  BY <1>16 DEF ProcessExits
<1> QED
  BY <1>1, <1>2, <1>3, <1>4, <1>5, <1>6, <1>7, <1>8,
     <1>9, <1>10, <1>11, <1>12, <1>13, <1>14, <1>15, <1>16
  DEF PoolNext, AcquireStep, DropStep

\* A launch takes a new server, which the slot offers only afterwards.
LEMMA StartingIsOwnStep ==
  ASSUME PoolTypeOK, OneStarter, StartingIsOwn, KnownIsLaunched, PoolNext
  PROVE  StartingIsOwn'
<1> USE DEF PoolTypeOK, Phases, StartingIsOwn, OneStarter, KnownIsLaunched, Replacing
<1>1. ASSUME NEW s \in Sessions, Acquire(s)  PROVE StartingIsOwn'
  BY <1>1 DEF Acquire
<1>2. ASSUME NEW s \in Sessions, Adopt(s)  PROVE StartingIsOwn'
  BY <1>2 DEF Adopt, Holders
<1>3. ASSUME NEW s \in Sessions, Supersede(s)  PROVE StartingIsOwn'
  BY <1>3 DEF Supersede, Holders
<1>4. ASSUME NEW s \in Sessions, WaitForChange(s)  PROVE StartingIsOwn'
  BY <1>4 DEF WaitForChange, Holders
<1>5. ASSUME NEW s \in Sessions, ClaimVacant(s)  PROVE StartingIsOwn'
  BY <1>5 DEF ClaimVacant
<1>6. ASSUME NEW s \in Sessions, DropSuperseded(s)  PROVE StartingIsOwn'
  BY <1>6 DEF DropSuperseded, Holders
<1>7. ASSUME NEW s \in Sessions, NEW g \in Servers, Launch(s, g)  PROVE StartingIsOwn'
  BY <1>7, NoServerAssumption DEF Launch
<1>8. ASSUME NEW s \in Sessions, StartSucceeds(s)  PROVE StartingIsOwn'
  BY <1>8 DEF StartSucceeds, NotifyAll, LockFree
<1>9. ASSUME NEW s \in Sessions, StartFails(s)  PROVE StartingIsOwn'
  BY <1>9 DEF StartFails, NotifyAll, LockFree
<1>10. ASSUME NEW s \in Sessions, SpawnFails(s)  PROVE StartingIsOwn'
  BY <1>10 DEF SpawnFails, NotifyAll, LockFree
<1>11. ASSUME NEW s \in Sessions, Release(s)  PROVE StartingIsOwn'
  BY <1>11 DEF Release, Holders
<1>12. ASSUME NEW s \in Sessions, BeginStop(s)  PROVE StartingIsOwn'
  BY <1>12 DEF BeginStop, IsCurrent
<1>13. ASSUME NEW s \in Sessions, EndStop(s)  PROVE StartingIsOwn'
  BY <1>13 DEF EndStop, NotifyAll
<1>14. ASSUME NEW s \in Sessions, Reap(s)  PROVE StartingIsOwn'
  BY <1>14 DEF Reap, IsCurrent, LockFree
<1>15. ASSUME NEW s \in Sessions, SpuriousWakeup(s)  PROVE StartingIsOwn'
  BY <1>15 DEF SpuriousWakeup
<1>16. ASSUME NEW g \in Servers, ProcessExits(g)  PROVE StartingIsOwn'
  BY <1>16 DEF ProcessExits
<1> QED
  BY <1>1, <1>2, <1>3, <1>4, <1>5, <1>6, <1>7, <1>8,
     <1>9, <1>10, <1>11, <1>12, <1>13, <1>14, <1>15, <1>16
  DEF PoolNext, AcquireStep, DropStep

\* A handle is taken from another one or from a start, and the last is not shared.
LEMMA HeldIsSharedStep ==
  ASSUME PoolTypeOK, HeldIsShared, StartingIsOwn, KnownIsLaunched, PoolNext
  PROVE  HeldIsShared'
<1> USE DEF PoolTypeOK, Phases, HeldIsShared, Strong, StartingIsOwn, KnownIsLaunched
<1>1. ASSUME NEW s \in Sessions, Acquire(s)  PROVE HeldIsShared'
  BY <1>1 DEF Acquire
<1>2. ASSUME NEW s \in Sessions, Adopt(s)  PROVE HeldIsShared'
  BY <1>2 DEF Adopt, Holders
<1>3. ASSUME NEW s \in Sessions, Supersede(s)  PROVE HeldIsShared'
  BY <1>3 DEF Supersede, Holders
<1>4. ASSUME NEW s \in Sessions, WaitForChange(s)  PROVE HeldIsShared'
  BY <1>4 DEF WaitForChange, Holders
<1>5. ASSUME NEW s \in Sessions, ClaimVacant(s)  PROVE HeldIsShared'
  BY <1>5 DEF ClaimVacant
<1>6. ASSUME NEW s \in Sessions, DropSuperseded(s)  PROVE HeldIsShared'
  BY <1>6 DEF DropSuperseded, Holders
<1>7. ASSUME NEW s \in Sessions, NEW g \in Servers, Launch(s, g)  PROVE HeldIsShared'
  BY <1>7 DEF Launch
<1>8. ASSUME NEW s \in Sessions, StartSucceeds(s)  PROVE HeldIsShared'
  BY <1>8 DEF StartSucceeds, NotifyAll, LockFree
<1>9. ASSUME NEW s \in Sessions, StartFails(s)  PROVE HeldIsShared'
  BY <1>9 DEF StartFails, NotifyAll, LockFree
<1>10. ASSUME NEW s \in Sessions, SpawnFails(s)  PROVE HeldIsShared'
  BY <1>10 DEF SpawnFails, NotifyAll, LockFree
<1>11. ASSUME NEW s \in Sessions, Release(s)  PROVE HeldIsShared'
  BY <1>11 DEF Release, Holders
<1>12. ASSUME NEW s \in Sessions, BeginStop(s)  PROVE HeldIsShared'
  BY <1>12 DEF BeginStop, IsCurrent
<1>13. ASSUME NEW s \in Sessions, EndStop(s)  PROVE HeldIsShared'
  BY <1>13 DEF EndStop, NotifyAll
<1>14. ASSUME NEW s \in Sessions, Reap(s)  PROVE HeldIsShared'
  BY <1>14 DEF Reap, IsCurrent, LockFree
<1>15. ASSUME NEW s \in Sessions, SpuriousWakeup(s)  PROVE HeldIsShared'
  BY <1>15 DEF SpuriousWakeup
<1>16. ASSUME NEW g \in Servers, ProcessExits(g)  PROVE HeldIsShared'
  BY <1>16 DEF ProcessExits
<1> QED
  BY <1>1, <1>2, <1>3, <1>4, <1>5, <1>6, <1>7, <1>8,
     <1>9, <1>10, <1>11, <1>12, <1>13, <1>14, <1>15, <1>16
  DEF PoolNext, AcquireStep, DropStep

-----------------------------------------------------------------------------
(* The theorems. *)

LEMMA PoolInitial == PoolInit => PoolIInv
  BY NoServerAssumption, AcquiresAssumption
  DEF PoolInit, PoolIInv, PoolTypeOK, Phases, OneStarter, OneStopper, Replacing, AliveIsSlots,
      HeldIsShared, Strong, StartingIsOwn, KnownIsLaunched, SlotHasServer

LEMMA PoolStep == PoolIInv /\ [PoolNext]_poolVars => PoolIInv'
<1> SUFFICES ASSUME PoolIInv, [PoolNext]_poolVars  PROVE PoolIInv'
  OBVIOUS
<1>1. CASE PoolNext
  BY <1>1, PoolTypeStep, OneStarterStep, OneStopperStep, AliveIsSlotsStep, SlotHasServerStep,
     KnownIsLaunchedStep, StartingIsOwnStep, HeldIsSharedStep DEF PoolIInv
<1>2. CASE UNCHANGED poolVars
  BY <1>2 DEF poolVars, PoolIInv, PoolTypeOK, OneStarter, OneStopper, AliveIsSlots,
              HeldIsShared, Strong, StartingIsOwn, KnownIsLaunched, SlotHasServer
<1> QED  BY <1>1, <1>2

(***************************************************************************)
(* The inductive invariant of the slot (acquire_with_start and the         *)
(* destructor): who starts, stops, holds and knows the server.             *)
(***************************************************************************)
THEOREM PoolInvariant == PoolSpec => []PoolIInv
  BY PoolInitial, PoolStep, PTL DEF PoolSpec

\* The types of the slot, the processes and the threads' handles.
THEOREM PoolTypeCorrect == PoolSpec => []PoolTypeOK
<1>1. PoolIInv => PoolTypeOK
  BY DEF PoolIInv
<1> QED  BY <1>1, PoolInvariant, PTL

(***************************************************************************)
(* At most one process of the slot runs, however many sessions acquire and *)
(* drop handles and however often the process exits by itself.             *)
(***************************************************************************)
THEOREM OneServerCorrect == PoolSpec => []OneServer
<1>1. PoolIInv => OneServer
  BY DEF PoolIInv, OneServer, AliveIsSlots, OneStarter, Replacing
<1> QED  BY <1>1, PoolInvariant, PTL

(***************************************************************************)
(* The destructor never stops a server that a session holds, and acquire   *)
(* never hands out one that is being stopped.                              *)
(***************************************************************************)
THEOREM HeldServerCorrect == PoolSpec => []HeldServerRuns
<1>1. PoolIInv => HeldServerRuns
  BY DEF PoolIInv, HeldServerRuns, HeldIsShared, Strong
<1> QED  BY <1>1, PoolInvariant, PTL
=============================================================================
