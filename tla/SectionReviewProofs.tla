--------------------------- MODULE SectionReviewProofs ---------------------------
(***************************************************************************)
(* What holds of SectionReview for every template, every number of editors *)
(* and retries, however often the task is queued and edited.               *)
(***************************************************************************)
EXTENDS SectionReview, TLAPS

USE DEF text, vars

-------------------------------------------------------------------------------
(* The outline and the writes to a section *)

LEMMA OutlineRegistered == OutlineCodes \subseteq Registered
BY ReviewAssumption DEF OutlineCodes

LEMMA NothingTyped == NoRun \in RunType /\ NoView \in ViewType
BY DEF NoRun, RunType, NoView, ViewType, Steps, Errors

\* A write moves one section to its next revision and leaves the locks alone.
LEMMA WriteSection ==
  ASSUME TypeOK, NEW s \in Registered, Write(s)
  PROVE  /\ section' \in [Registered -> SectionType]
         /\ seen' \in [Editors -> ViewType]
         /\ \A t \in Registered : section'[t].locked = section[t].locked
         /\ \A t \in Registered \ {s} : section'[t] = section[t]
         /\ section'[s].revision = section[s].revision + 1
<1>1. section' \in [Registered -> SectionType]
  BY DEF TypeOK, Write, SectionType
<1>2. seen' \in [Editors -> ViewType]
  BY DEF TypeOK, Write, ViewType
<1>3. \A t \in Registered \ {s} : section'[t] = section[t]
  BY DEF TypeOK, Write
<1>4. section'[s].revision = section[s].revision + 1 /\ section'[s].locked = section[s].locked
  BY DEF TypeOK, Write, SectionType
<1> QED BY <1>1, <1>2, <1>3, <1>4

\* What was stored stays stored: a section is never removed.
Grows == \A s \in Registered : /\ section'[s].revision \in Nat
                               /\ section'[s].revision >= section[s].revision
                               /\ section'[s].locked = section[s].locked

LEMMA WriteGrows ==
  ASSUME TypeOK, NEW s \in Registered, Write(s)
  PROVE  Grows
BY WriteSection DEF Grows, TypeOK, SectionType

LEMMA UnchangedGrows == ASSUME TypeOK, section' = section PROVE Grows
BY DEF Grows, TypeOK, SectionType

LEMMA GrowsStored == ASSUME TypeOK, Grows PROVE StoredCodes \subseteq StoredCodes'
BY DEF Grows, StoredCodes, Stored, TypeOK, SectionType

\* A write outdates what its section's editors have loaded.
LEMMA WriteOutdates ==
  ASSUME TypeOK, SeenFits, NEW s \in Registered, Write(s)
  PROVE  SeenFits'
<1> SUFFICES ASSUME NEW e \in Editors, seen'[e].code # NoCode
             PROVE  /\ 0 < seen'[e].revision
                    /\ seen'[e].revision <= section'[seen'[e].code].revision
                    /\ ~seen'[e].current => seen'[e].revision < section'[seen'[e].code].revision
  BY DEF SeenFits
<1>1. /\ seen'[e].code = seen[e].code /\ seen'[e].revision = seen[e].revision
      /\ seen[e].code # s => seen'[e] = seen[e]
      /\ seen[e].code \in Registered \cup {NoCode} /\ seen[e].revision \in Nat
  BY DEF TypeOK, Write, ViewType
<1>2. CASE seen[e].code = s
  BY <1>1, <1>2, WriteSection, ReviewAssumption DEF SeenFits, TypeOK, SectionType
<1>3. CASE seen[e].code # s
  BY <1>1, <1>3, WriteSection, ReviewAssumption DEF SeenFits, TypeOK, SectionType
<1> QED BY <1>2, <1>3

-------------------------------------------------------------------------------
(* Types *)

LEMMA InitTypeOK == Init => TypeOK
<1> SUFFICES ASSUME Init PROVE TypeOK
  OBVIOUS
<1>1. section \in [Registered -> SectionType] BY DEF Init, SectionType
<1>2. conversation \in [Registered -> ConversationType] BY DEF Init, ConversationType
<1>3. run \in RunType /\ seen \in [Editors -> ViewType] BY NothingTyped DEF Init
<1>4. status \in Statuses BY DEF Init, Statuses
<1> QED BY <1>1, <1>2, <1>3, <1>4, ReviewAssumption DEF Init, TypeOK

LEMMA AnswerTyped ==
  ASSUME TypeOK, NEW codes, NEW from, NEW to \in {"processing", "completed", "failed"},
         Answer(codes, from, to)
  PROVE  conversation' \in [Registered -> ConversationType]
BY DEF TypeOK, Answer, ConversationType, Open

LEMMA RequestTypeOK ==
  ASSUME TypeOK, Request
  PROVE  TypeOK'
<1> USE ReviewAssumption DEF TypeOK, Enqueue, Statuses
<1>1. CASE StartGeneration BY <1>1 DEF StartGeneration
<1>2. CASE RetryTask BY <1>2 DEF RetryTask
<1>3. CASE RecoverTask BY <1>3 DEF RecoverTask
<1>4. CASE StopTask \/ FailUnclaimed BY <1>4 DEF StopTask, FailUnclaimed
<1>5. ASSUME NEW s \in Registered, RequestRegeneration(s) PROVE TypeOK'
  <2>1. conversation' \in [Registered -> ConversationType]
    BY <1>5 DEF RequestRegeneration, ConversationType, Open, SectionType
  <2> QED BY <1>5, <2>1 DEF RequestRegeneration
<1> QED BY <1>1, <1>2, <1>3, <1>4, <1>5 DEF Request

LEMMA ReviewTypeOK ==
  ASSUME TypeOK, ReviewStep
  PROVE  TypeOK'
<1> USE DEF Review
<1>1. ASSUME NEW e \in Editors, EditSection(e) PROVE TypeOK'
  <2>1. seen[e].code \in Registered BY <1>1 DEF EditSection, TypeOK, ViewType
  <2>2. section' \in [Registered -> SectionType] /\ seen' \in [Editors -> ViewType]
    BY <1>1, <2>1, WriteSection DEF EditSection
  <2> QED BY <1>1, <2>2 DEF EditSection, TypeOK
<1>2. ASSUME NEW e \in Editors, NEW s \in Registered, OpenSection(e, s) PROVE TypeOK'
  <2>1. seen' \in [Editors -> ViewType]
    BY <1>2 DEF OpenSection, TypeOK, ViewType, SectionType
  <2> QED BY <1>2, <2>1 DEF OpenSection, TypeOK
<1>3. ASSUME NEW s \in Registered, NEW locked \in BOOLEAN, SetLock(s, locked) PROVE TypeOK'
  <2>1. section' \in [Registered -> SectionType]
    BY <1>3 DEF SetLock, TypeOK, SectionType
  <2> QED BY <1>3, <2>1 DEF SetLock, TypeOK
<1>4. CASE LockAll
  <2>1. section' \in [Registered -> SectionType]
    <3>1. \A s \in Registered : Stored(s) \in BOOLEAN BY DEF Stored
    <3>2. section' = [s \in Registered |-> [section[s] EXCEPT !.locked = Stored(s)]]
      BY <1>4 DEF LockAll
    <3> QED BY <3>1, <3>2 DEF TypeOK, SectionType
  <2> QED BY <1>4, <2>1 DEF LockAll, TypeOK
<1>5. CASE SubmitReview \/ ApproveTask \/ ExportTask
  BY <1>5 DEF SubmitReview, ApproveTask, ExportTask, TypeOK, Statuses, ReviewStatuses
<1> QED BY <1>1, <1>2, <1>3, <1>4, <1>5 DEF ReviewStep

\* The run's own record stays well formed.
LEMMA RunTyped ==
  ASSUME TypeOK, Run \/ Die
  PROVE  run' \in RunType
<1> USE NothingTyped DEF TypeOK, Work
<1>1. CASE ClaimTask \/ Die BY <1>1 DEF ClaimTask, Die, NoRun, RunType, Steps
<1>2. CASE BuildRequest
  <2> DEFINE codes == {s \in OutlineCodes : pending = {} \/ s \in pending}
  <2>1. Forced(codes) \in BOOLEAN BY DEF Forced
  <2>2. run' = [run EXCEPT !.step = "sections", !.todo = codes, !.forced = Forced(codes),
                  !.instructed = Forced(codes) /\ \E s \in codes : conversation[s].state \in Open]
    BY <1>2 DEF BuildRequest
  <2>3. codes \in SUBSET OutlineCodes OBVIOUS
  <2> HIDE DEF codes
  <2> QED BY <2>1, <2>2, <2>3 DEF RunType, Steps
<1>3. CASE BuildFails BY <1>3 DEF BuildFails, Raise, RunType, Steps, Errors
<1>4. ASSUME NEW s \in OutlineCodes, ReuseSection(s) \/ RecomposeSection(s) \/ DraftSection(s)
      PROVE  run' \in RunType
  <2>1. s \in Registered BY OutlineRegistered
  <2>2. {"validation", "other", "revision"} \subseteq Errors BY DEF Errors
  <2>3. CASE ReuseSection(s) BY <2>3 DEF ReuseSection, RunType
  <2>4. CASE RecomposeSection(s) BY <2>1, <2>4 DEF RecomposeSection, RunType, Steps
  <2>5. CASE DraftSection(s)
    <3>1. \/ run' = [run EXCEPT !.step = "save", !.current = s]
          \/ \E error \in Errors : run' = [run EXCEPT !.step = "record", !.current = s, !.error = error]
      BY <2>2, <2>5 DEF DraftSection
    <3> QED BY <2>1, <3>1 DEF RunType, Steps
  <2> QED BY <1>4, <2>3, <2>4, <2>5
<1>5. CASE SaveSection
  <2>1. \/ run' = [run EXCEPT !.step = "record", !.error = "other"]
        \/ run' = [run EXCEPT !.step = "sections", !.todo = @ \ {run.current}]
    BY <1>5 DEF SaveSection, Raise
  <2>2. "other" \in Errors BY DEF Errors
  <2>3. CASE run' = [run EXCEPT !.step = "record", !.error = "other"]
    BY <2>2, <2>3 DEF RunType, Steps
  <2>4. CASE run' = [run EXCEPT !.step = "sections", !.todo = @ \ {run.current}]
    BY <2>4 DEF RunType, Steps
  <2> QED BY <2>1, <2>3, <2>4
<1>6. CASE StoreDraft BY <1>6 DEF StoreDraft, Raise, RunType, Steps, Errors
<1>7. CASE FinishGeneration BY <1>7 DEF FinishGeneration
<1>8. CASE RecordNothing \/ RecordInvalidEvidence \/ RecordFailedRevision
             \/ RecordValidation \/ RecordError
  BY <1>8 DEF RecordNothing, RecordInvalidEvidence, RecordFailedRevision, RecordValidation,
              RecordError, Record
<1> QED BY <1>1, <1>2, <1>3, <1>4, <1>5, <1>6, <1>7, <1>8 DEF Run

LEMMA RunTypeOK ==
  ASSUME TypeOK, RunFits, Run \/ Die
  PROVE  TypeOK'
<1>1. run' \in RunType BY RunTyped
<1> USE DEF TypeOK, RunStep, Work
<1>2. /\ section' \in [Registered -> SectionType]
      /\ seen' \in [Editors -> ViewType]
  <2>1. CASE SaveSection
    <3>1. run.current \in Registered BY <2>1, OutlineRegistered DEF SaveSection, RunFits, RunType
    <3> QED BY <2>1, <3>1, WriteSection DEF SaveSection
  <2>2. CASE ~SaveSection
    BY <2>2 DEF Run, Die, ClaimTask, BuildRequest, BuildFails, ReuseSection, RecomposeSection,
                DraftSection, StoreDraft, FinishGeneration, Record, RecordNothing,
                RecordInvalidEvidence, RecordFailedRevision, RecordValidation, RecordError
  <2> QED BY <2>1, <2>2
<1>3. /\ status' \in Statuses
      /\ retries' \in 0..MaxRetries
      /\ starts' \in 0..MaxStarts
  <2>1. CASE RecordValidation \/ RecordError
    <3>1. RetryOrFail /\ UNCHANGED starts
      BY <2>1 DEF RecordValidation, RecordError, Record
    <3>2. status' \in Statuses BY <3>1 DEF RetryOrFail, Statuses
    <3>3. retries' \in 0..MaxRetries BY <3>1, ReviewAssumption DEF RetryOrFail
    <3> QED BY <3>1, <3>2, <3>3
  <2>2. CASE Die BY <2>2, ReviewAssumption DEF Die
  <2>3. CASE Run /\ ~(RecordValidation \/ RecordError)
    <3>1. UNCHANGED <<retries, starts>>
      BY <2>3 DEF Run, ClaimTask, BuildRequest, BuildFails, ReuseSection, RecomposeSection,
                  DraftSection, SaveSection, StoreDraft, FinishGeneration, Record, RecordNothing,
                  RecordInvalidEvidence, RecordFailedRevision
    <3>2. status' \in {status, "generating", "review_required", "needs_confirmation"}
      BY <2>3 DEF Run, ClaimTask, BuildRequest, BuildFails, ReuseSection, RecomposeSection,
                  DraftSection, SaveSection, StoreDraft, FinishGeneration, Record, RecordNothing,
                  RecordInvalidEvidence, RecordFailedRevision
    <3> QED BY <3>1, <3>2 DEF Statuses, ReviewStatuses
  <2> QED BY <2>1, <2>2, <2>3
<1>4. pending' \subseteq Registered
  <2>1. CASE RecordValidation
    <3>1. run.current \in Registered
      BY <2>1, OutlineRegistered DEF RecordValidation, Record, RunFits, RunType
    <3> QED BY <2>1, <3>1 DEF RecordValidation, PendingValidationSections
  <2>2. CASE ~RecordValidation
    BY <2>2 DEF Run, Die, ClaimTask, BuildRequest, BuildFails, ReuseSection, RecomposeSection,
                DraftSection, SaveSection, StoreDraft, FinishGeneration, Record, RecordNothing,
                RecordInvalidEvidence, RecordFailedRevision, RecordError
  <2> QED BY <2>1, <2>2
<1>5. conversation' \in [Registered -> ConversationType]
  <2>1. CASE ClaimTask \/ FinishGeneration \/ RecordInvalidEvidence \/ RecordFailedRevision
               \/ RecordValidation \/ RecordError
    <3>1. Answered \in {"processing", "failed"} BY DEF Answered
    <3>2. \/ UNCHANGED conversation
          \/ \E codes, from : \E to \in {"processing", "completed", "failed"} :
               Answer(codes, from, to)
      BY <2>1, <3>1 DEF ClaimTask, FinishGeneration, RecordInvalidEvidence,
                        RecordFailedRevision, RecordValidation, RecordError
    <3> QED BY <3>2, AnswerTyped
  <2>2. CASE ~(ClaimTask \/ FinishGeneration \/ RecordInvalidEvidence \/ RecordFailedRevision
                 \/ RecordValidation \/ RecordError)
    BY <2>2 DEF Run, Die, BuildRequest, BuildFails, ReuseSection, RecomposeSection,
                DraftSection, SaveSection, StoreDraft, RecordNothing
  <2> QED BY <2>1, <2>2
<1> QED BY <1>1, <1>2, <1>3, <1>4, <1>5

-------------------------------------------------------------------------------
(* The inductive invariant *)

LEMMA InitInv == Init => SectionInv
<1> SUFFICES ASSUME Init PROVE SectionInv
  OBVIOUS
<1>1. StoredCodes = {} BY DEF Init, StoredCodes, Stored
<1>2. PendingIsNeeded
  BY OutlineRegistered, ReviewAssumption DEF Init, PendingIsNeeded
<1>3. ReviewedTaskIsComplete BY DEF Init, ReviewedTaskIsComplete, ReviewStatuses
<1>4. LockedSectionsAreLeftAlone BY DEF Init, NoRun, LockedSectionsAreLeftAlone
<1>5. RunFits BY DEF Init, NoRun, RunFits
<1>6. OnlyStoredAreLocked BY DEF Init, OnlyStoredAreLocked
<1>7. SeenFits BY DEF Init, NoView, SeenFits
<1> QED
  BY InitTypeOK, <1>1, <1>2, <1>3, <1>4, <1>5, <1>6, <1>7 DEF SectionInv, OnlyOutlineIsStored

LEMMA RequestInv ==
  ASSUME SectionInv, Request
  PROVE  SectionInv'
<1> USE DEF SectionInv
<1>1. TypeOK' BY RequestTypeOK
<1>2. UNCHANGED <<section, run, seen>>
  BY DEF Request, StartGeneration, RetryTask, RecoverTask, FailUnclaimed, StopTask,
         RequestRegeneration, Enqueue
<1>3. StoredCodes' = StoredCodes BY <1>2 DEF StoredCodes, Stored
<1>4. /\ status' \notin ReviewStatuses
      /\ run.step # "idle" => status' \in {"generating", "cancelled"}
  <2>1. CASE StopTask \/ FailUnclaimed
    BY <2>1 DEF StopTask, FailUnclaimed, ReviewStatuses, RunFits
  <2>2. CASE ~(StopTask \/ FailUnclaimed)
    BY <2>2 DEF Request, StartGeneration, RetryTask, RecoverTask, RequestRegeneration, Enqueue,
                ReviewStatuses, RunFits
  <2> QED BY <2>1, <2>2
<1>5. PendingIsNeeded'
  <2>1. CASE \E s \in Registered : RequestRegeneration(s)
    <3> PICK s \in Registered : RequestRegeneration(s) BY <2>1
    <3>1. status = "review_required" /\ Stored(s) /\ ~section[s].locked /\ pending' = {s}
      BY DEF RequestRegeneration, Enqueue
    <3>2. s \in OutlineCodes BY <3>1 DEF OnlyOutlineIsStored, StoredCodes
    <3>3. OutlineCodes \subseteq StoredCodes
      BY <3>1 DEF ReviewedTaskIsComplete, ReviewStatuses
    <3> QED BY <1>2, <1>3, <3>1, <3>2, <3>3 DEF PendingIsNeeded
  <2>2. CASE ~\E s \in Registered : RequestRegeneration(s)
    <3>1. status \notin ReviewStatuses /\ UNCHANGED pending
      BY <2>2 DEF Request, StartGeneration, RetryTask, RecoverTask, FailUnclaimed, StopTask, Enqueue,
                  ReviewStatuses
    <3> QED BY <1>2, <1>3, <3>1 DEF PendingIsNeeded
  <2> QED BY <2>1, <2>2
<1>6. RunFits' BY <1>2, <1>3, <1>4 DEF RunFits
<1>7. LockedSectionsAreLeftAlone' /\ OnlyOutlineIsStored' /\ OnlyStoredAreLocked' /\ SeenFits'
  BY <1>2, <1>3
  DEF LockedSectionsAreLeftAlone, OnlyOutlineIsStored, OnlyStoredAreLocked, SeenFits, Stored
<1> QED BY <1>1, <1>4, <1>5, <1>6, <1>7 DEF ReviewedTaskIsComplete

\* In review there is no run, and no person removes a section.
LEMMA ReviewInv ==
  ASSUME SectionInv, ReviewStep
  PROVE  SectionInv'
<1> USE DEF SectionInv
<1>1. TypeOK' BY ReviewTypeOK
<1>2. ASSUME NEW e \in Editors, NEW s \in Registered, OpenSection(e, s) PROVE SectionInv'
  <2>1. UNCHANGED <<status, pending, section, run>> BY <1>2 DEF OpenSection
  <2>2. StoredCodes' = StoredCodes BY <2>1 DEF StoredCodes, Stored
  <2>3. SeenFits'
    <3>1. seen' = [seen EXCEPT ![e] = [code |-> s, revision |-> section[s].revision,
                                       current |-> TRUE]]
      BY <1>2 DEF OpenSection
    <3>2. section[s].revision \in Nat /\ section[s].revision > 0
      BY <1>2 DEF TypeOK, SectionType, OpenSection, Stored
    <3> QED BY <2>1, <3>1, <3>2 DEF SeenFits, TypeOK
  <2> QED
    BY <1>1, <2>1, <2>2, <2>3 DEF ReviewedTaskIsComplete, PendingIsNeeded,
       LockedSectionsAreLeftAlone, RunFits, OnlyOutlineIsStored, OnlyStoredAreLocked, Stored
<1>3. ASSUME /\ status \in ReviewStatuses /\ status' \in ReviewStatuses
             /\ UNCHANGED run
             /\ StoredCodes' = StoredCodes
             /\ OnlyStoredAreLocked'
             /\ SeenFits'
      PROVE  SectionInv'
  <2>1. run.step = "idle" /\ run.todo = {}
    BY <1>3 DEF RunFits, NoRun, ReviewStatuses
  <2>2. RunFits' BY <1>3, <2>1 DEF RunFits
  <2> QED
    BY <1>1, <1>3, <2>1, <2>2 DEF ReviewedTaskIsComplete, PendingIsNeeded,
       LockedSectionsAreLeftAlone, OnlyOutlineIsStored
<1>4. ASSUME NEW e \in Editors, EditSection(e) PROVE SectionInv'
  <2>1. seen[e].code \in Registered BY <1>4 DEF EditSection, TypeOK, ViewType
  <2>2. Stored(seen[e].code)
    BY <1>4, <2>1 DEF EditSection, SeenFits, Stored, TypeOK, SectionType, ViewType
  <2>3. Grows /\ StoredCodes' = StoredCodes
    BY <1>4, <2>1, <2>2, WriteSection, WriteGrows
    DEF EditSection, StoredCodes, Stored, TypeOK, SectionType
  <2>4. OnlyStoredAreLocked'
    BY <2>3 DEF Grows, OnlyStoredAreLocked, StoredCodes
  <2>5. SeenFits' BY <1>4, <2>1, WriteOutdates DEF EditSection
  <2> QED BY <1>3, <1>4, <2>3, <2>4, <2>5 DEF EditSection, ReviewStatuses
<1>5. ASSUME NEW s \in Registered, NEW locked \in BOOLEAN, SetLock(s, locked) PROVE SectionInv'
  <2>1. /\ \A t \in Registered : section'[t].revision = section[t].revision
        /\ \A t \in Registered \ {s} : section'[t] = section[t]
    BY <1>5 DEF SetLock, TypeOK, SectionType
  <2>2. StoredCodes' = StoredCodes BY <2>1 DEF StoredCodes, Stored
  <2>3. OnlyStoredAreLocked'
    BY <1>5, <2>1 DEF SetLock, OnlyStoredAreLocked, Stored
  <2>4. SeenFits' BY <1>5, <2>1 DEF SetLock, Review, SeenFits, TypeOK, ViewType
  <2> QED BY <1>3, <1>5, <2>2, <2>3, <2>4 DEF SetLock, Review, ReviewStatuses
<1>6. CASE LockAll
  <2>1. \A t \in Registered : /\ section'[t].revision = section[t].revision
                              /\ section'[t].locked = Stored(t)
    BY <1>6 DEF LockAll, TypeOK, SectionType
  <2>2. StoredCodes' = StoredCodes BY <2>1 DEF StoredCodes, Stored
  <2>3. OnlyStoredAreLocked' BY <2>1 DEF OnlyStoredAreLocked, Stored
  <2>4. SeenFits' BY <1>6, <2>1 DEF LockAll, Review, SeenFits, TypeOK, ViewType
  <2> QED BY <1>3, <1>6, <2>2, <2>3, <2>4 DEF LockAll, Review, ReviewStatuses
<1>7. CASE SubmitReview \/ ApproveTask \/ ExportTask
  <2>1. UNCHANGED <<section, seen, run>>
    BY <1>7 DEF SubmitReview, ApproveTask, ExportTask, Review
  <2>2. StoredCodes' = StoredCodes /\ OnlyStoredAreLocked' /\ SeenFits'
    BY <2>1 DEF StoredCodes, Stored, OnlyStoredAreLocked, SeenFits
  <2> QED
    BY <1>3, <1>7, <2>1, <2>2 DEF SubmitReview, ApproveTask, ExportTask, Review, ReviewStatuses
<1> QED BY <1>2, <1>4, <1>5, <1>6, <1>7 DEF ReviewStep

\* A step of the run between two transactions that writes no section: what is
\* left to show is about the run's own record.
LEMMA WorkInv ==
  ASSUME SectionInv, TypeOK',
         run.step # "idle",
         UNCHANGED <<status, pending, section, seen>>,
         run'.todo \subseteq OutlineCodes,
         LockedSectionsAreLeftAlone',
         RunFits'
  PROVE  SectionInv'
<1>1. StoredCodes' = StoredCodes BY DEF StoredCodes, Stored
<1> QED
  BY <1>1 DEF SectionInv, ReviewedTaskIsComplete, PendingIsNeeded, OnlyOutlineIsStored,
              OnlyStoredAreLocked, SeenFits, Stored

LEMMA DraftingInv ==
  ASSUME SectionInv,
         \/ BuildRequest \/ BuildFails \/ StoreDraft
         \/ \E s \in OutlineCodes : ReuseSection(s) \/ RecomposeSection(s) \/ DraftSection(s)
  PROVE  SectionInv'
<1> USE DEF SectionInv
<1>1. TypeOK' BY RunTypeOK DEF Run
<1>2. /\ run.step # "idle"
      /\ UNCHANGED <<status, pending, section, seen>>
      /\ status \in {"generating", "cancelled"}
  BY DEF BuildRequest, BuildFails, StoreDraft, ReuseSection, RecomposeSection, DraftSection,
         Work, RunStep, RunFits
<1>3. StoredCodes' = StoredCodes BY <1>2 DEF StoredCodes, Stored
<1>4. LockedSectionsAreLeftAlone' /\ RunFits'
  <2>1. CASE BuildRequest
    <3> DEFINE codes == {s \in OutlineCodes : pending = {} \/ s \in pending}
    <3>1. PendingIsNeeded /\ status \notin ReviewStatuses
      BY <1>2 DEF ReviewStatuses
    <3>2. /\ codes = OutlineCodes \cap pending
          /\ \A s \in codes : ~section[s].locked
          /\ OutlineCodes \subseteq StoredCodes \cup codes
      BY <3>1 DEF PendingIsNeeded
    <3>3. /\ run.step = "claimed"
          /\ run' = [run EXCEPT !.step = "sections", !.todo = codes, !.forced = Forced(codes),
                !.instructed = Forced(codes) /\ \E s \in codes : conversation[s].state \in Open]
      BY <2>1 DEF BuildRequest, Work, RunStep
    <3>4. Forced(codes) => OutlineCodes \subseteq StoredCodes
      BY <3>2, OutlineRegistered DEF Forced, StoredCodes
    <3>5. /\ run'.step = "sections" /\ run'.todo = codes /\ run'.error = run.error
          /\ run'.instructed => Forced(codes)
      BY <3>3 DEF TypeOK, RunType
    <3>6. run.error = "none" BY <3>3 DEF RunFits
    <3> HIDE DEF codes
    <3> QED
      BY <1>2, <1>3, <3>2, <3>4, <3>5, <3>6 DEF LockedSectionsAreLeftAlone, RunFits
  <2>2. CASE BuildFails
    BY <1>2, <1>3, <2>2 DEF BuildFails, Work, RunStep, Raise, LockedSectionsAreLeftAlone, RunFits,
                            TypeOK, RunType
  <2>3. CASE StoreDraft
    BY <1>2, <1>3, <2>3 DEF StoreDraft, Work, RunStep, Raise, LockedSectionsAreLeftAlone, RunFits,
                            TypeOK, RunType
  <2>4. ASSUME NEW s \in OutlineCodes, ReuseSection(s)
        PROVE  LockedSectionsAreLeftAlone' /\ RunFits'
    <3>1. /\ run.step = "sections" /\ Stored(s)
          /\ run' = [run EXCEPT !.todo = @ \ {s}]
      BY <2>4 DEF ReuseSection, Work, RunStep, Reusable
    <3>2. s \in StoredCodes BY <3>1, OutlineRegistered DEF StoredCodes
    <3> QED
      BY <1>2, <1>3, <3>1, <3>2 DEF LockedSectionsAreLeftAlone, RunFits, TypeOK, RunType
  <2>5. ASSUME NEW s \in OutlineCodes, RecomposeSection(s) \/ DraftSection(s)
        PROVE  LockedSectionsAreLeftAlone' /\ RunFits'
    <3>1. run.step = "sections" /\ s \in run.todo
      BY <2>5 DEF RecomposeSection, DraftSection, Work, RunStep, IsNext
    <3>2. /\ run'.todo = run.todo /\ run'.current = s /\ run'.instructed = run.instructed
          /\ \/ run'.step = "save" /\ run'.error = run.error
             \/ run'.step = "record" /\ (run'.error = "revision" => run.instructed)
      BY <2>5 DEF RecomposeSection, DraftSection, TypeOK, RunType
    <3> QED BY <1>2, <1>3, <3>1, <3>2 DEF LockedSectionsAreLeftAlone, RunFits
  <2> QED BY <2>1, <2>2, <2>3, <2>4, <2>5
<1>5. run'.todo \subseteq OutlineCodes BY <1>1 DEF TypeOK, RunType
<1> QED BY <1>1, <1>2, <1>4, <1>5, WorkInv

LEMMA SaveInv ==
  ASSUME SectionInv, SaveSection
  PROVE  SectionInv'
<1> USE DEF SectionInv
<1> DEFINE s == run.current
<1>1. TypeOK' BY RunTypeOK DEF Run
<1>2. /\ run.step = "save" /\ s \in run.todo /\ s \in Registered
      /\ UNCHANGED <<status, pending>>
      /\ ~section[s].locked
      /\ status \in {"generating", "cancelled"}
  BY OutlineRegistered DEF SaveSection, Work, RunStep, RunFits, TypeOK, RunType,
                           LockedSectionsAreLeftAlone
<1>3. CASE status # "generating"
  <2>1. UNCHANGED <<section, seen>> /\ run' = [run EXCEPT !.step = "record", !.error = "other"]
    BY <1>3 DEF SaveSection, Raise
  <2>2. StoredCodes' = StoredCodes BY <2>1 DEF StoredCodes, Stored
  <2>3. LockedSectionsAreLeftAlone' /\ RunFits'
    BY <1>2, <2>1, <2>2 DEF LockedSectionsAreLeftAlone, RunFits, TypeOK, RunType
  <2> QED BY <1>1, <1>2, <2>1, <2>3, WorkInv DEF TypeOK, RunType
<1>4. CASE status = "generating"
  <2>1. Write(s) /\ run' = [run EXCEPT !.step = "sections", !.todo = @ \ {s}]
    BY <1>2, <1>4 DEF SaveSection
  <2>2. Grows BY <1>2, <2>1, WriteGrows
  <2>3. StoredCodes' = StoredCodes \cup {s}
    BY <1>2, <2>1, WriteSection DEF StoredCodes, Stored, TypeOK, SectionType
  <2>4. s \in OutlineCodes BY <1>2 DEF TypeOK, RunType
  <2>5. /\ run'.step = "sections" /\ run'.todo = run.todo \ {s} /\ run'.error = run.error
        /\ run'.instructed = run.instructed
    BY <2>1 DEF TypeOK, RunType
  <2>6. RunFits' BY <1>2, <2>3, <2>5 DEF RunFits
  <2>7. PendingIsNeeded' BY <1>2, <2>2, <2>3 DEF PendingIsNeeded, Grows, TypeOK
  <2>8. LockedSectionsAreLeftAlone'
    BY <2>2, <2>5, OutlineRegistered DEF LockedSectionsAreLeftAlone, Grows, TypeOK, RunType
  <2>9. OnlyStoredAreLocked'
    BY <2>2, <2>3 DEF OnlyStoredAreLocked, Grows, StoredCodes
  <2>10. SeenFits' BY <1>2, <2>1, WriteOutdates
  <2> QED
    BY <1>1, <1>2, <2>3, <2>4, <2>6, <2>7, <2>8, <2>9, <2>10
    DEF ReviewedTaskIsComplete, OnlyOutlineIsStored
<1> QED BY <1>3, <1>4

\* The run begins, ends or dies: its record is empty before or after.
LEMMA EndInv ==
  ASSUME SectionInv,
         \/ ClaimTask \/ FinishGeneration \/ Die
         \/ RecordNothing \/ RecordInvalidEvidence \/ RecordFailedRevision
         \/ RecordValidation \/ RecordError
  PROVE  SectionInv'
<1> USE DEF SectionInv
<1>1. TypeOK' BY RunTypeOK DEF Run
<1>2. UNCHANGED <<section, seen>>
  BY DEF ClaimTask, FinishGeneration, Die, Record, RecordNothing, RecordInvalidEvidence,
         RecordFailedRevision, RecordValidation, RecordError
<1>3. StoredCodes' = StoredCodes BY <1>2 DEF StoredCodes, Stored
<1>4. \/ run' = NoRun
      \/ run' = [NoRun EXCEPT !.step = "claimed"] /\ status' = "generating"
  BY DEF ClaimTask, FinishGeneration, Die, Record, RecordNothing, RecordInvalidEvidence,
         RecordFailedRevision, RecordValidation, RecordError
<1>5. RunFits' /\ LockedSectionsAreLeftAlone'
  BY <1>4 DEF NoRun, RunFits, LockedSectionsAreLeftAlone
<1>6. ReviewedTaskIsComplete' /\ PendingIsNeeded'
  <2>1. CASE ClaimTask \/ Die \/ RecordNothing
    <3>1. /\ status \notin ReviewStatuses /\ status' \notin ReviewStatuses
          /\ UNCHANGED pending
      BY <2>1 DEF ClaimTask, Die, RecordNothing, RunFits, ReviewStatuses
    <3> QED BY <1>2, <1>3, <3>1 DEF ReviewedTaskIsComplete, PendingIsNeeded
  <2>2. CASE RecordInvalidEvidence \/ RecordError
    <3>1. /\ status \notin ReviewStatuses /\ status' \notin ReviewStatuses
          /\ UNCHANGED pending
      BY <2>2 DEF RecordInvalidEvidence, RecordError, Record, RunStep, RetryOrFail, RunFits,
                  ReviewStatuses
    <3> QED BY <1>2, <1>3, <3>1 DEF ReviewedTaskIsComplete, PendingIsNeeded
  <2>3. CASE RecordValidation
    <3>1. /\ status' \notin ReviewStatuses
          /\ pending' = {t \in Registered : ~Stored(t)} \cup {run.current}
          /\ run.current \in run.todo
      BY <2>3 DEF RecordValidation, PendingValidationSections, Record, RunStep, RetryOrFail,
                  RunFits, ReviewStatuses
    <3>2. run.current \in OutlineCodes /\ ~section[run.current].locked
      BY <3>1 DEF TypeOK, RunType, LockedSectionsAreLeftAlone
    <3>3. \A t \in pending' : ~section'[t].locked
      BY <1>2, <3>1, <3>2 DEF OnlyStoredAreLocked
    <3>4. OutlineCodes \subseteq StoredCodes' \cup pending'
      BY <1>3, <3>1, OutlineRegistered DEF StoredCodes
    <3> QED BY <3>1, <3>2, <3>3, <3>4 DEF ReviewedTaskIsComplete, PendingIsNeeded
  <2>4. CASE FinishGeneration
    <3>1. OutlineCodes \subseteq StoredCodes
      BY <2>4 DEF FinishGeneration, RunStep, RunFits
    <3>2. CASE status = "generating"
      BY <1>3, <2>4, <3>1, <3>2 DEF FinishGeneration, ReviewedTaskIsComplete, PendingIsNeeded,
                                    ReviewStatuses
    <3>3. CASE status # "generating"
      BY <1>2, <1>3, <2>4, <3>3 DEF FinishGeneration, ReviewedTaskIsComplete, PendingIsNeeded
    <3> QED BY <3>2, <3>3
  <2>5. CASE RecordFailedRevision
    <3>1. OutlineCodes \subseteq StoredCodes /\ status' = "review_required"
      BY <2>5 DEF RecordFailedRevision, Record, RunFits
    <3> QED BY <1>3, <3>1 DEF ReviewedTaskIsComplete, PendingIsNeeded, ReviewStatuses
  <2> QED BY <2>1, <2>2, <2>3, <2>4, <2>5
<1>7. OnlyOutlineIsStored' /\ OnlyStoredAreLocked' /\ SeenFits'
  BY <1>2, <1>3 DEF OnlyOutlineIsStored, OnlyStoredAreLocked, SeenFits, Stored
<1> QED BY <1>1, <1>5, <1>6, <1>7

LEMMA StepInv == SectionInv /\ [Next]_vars => SectionInv'
<1> SUFFICES ASSUME SectionInv, [Next]_vars PROVE SectionInv'
  OBVIOUS
<1>1. CASE Request BY <1>1, RequestInv
<1>2. CASE ReviewStep BY <1>2, ReviewInv
<1>3. CASE Run BY <1>3, DraftingInv, SaveInv, EndInv DEF Run
<1>4. CASE Die BY <1>4, EndInv
<1>5. CASE UNCHANGED vars
  BY <1>5 DEF SectionInv, TypeOK, ReviewedTaskIsComplete, PendingIsNeeded,
     LockedSectionsAreLeftAlone, RunFits, OnlyOutlineIsStored, OnlyStoredAreLocked, SeenFits,
     StoredCodes, Stored
<1> QED BY <1>1, <1>2, <1>3, <1>4, <1>5 DEF Next

-------------------------------------------------------------------------------
(* Theorems *)

\* Every reachable state satisfies the invariant, whatever the template, the
\* editors and the bounds.
THEOREM InvariantHolds == Spec => []SectionInv
BY InitInv, StepInv, PTL DEF Spec

\* A task in review, submitted, approved or exported has every chapter of its
\* document (jobs.py:986-1003 leaves enough pending after each failure).
THEOREM ReviewedTasksAreComplete == Spec => []ReviewedTaskIsComplete
<1>1. SectionInv => ReviewedTaskIsComplete BY DEF SectionInv
<1> QED BY <1>1, InvariantHolds, PTL

\* No run is given a locked section to work on (jobs.py:729-740).
THEOREM RunsLeaveLockedSectionsAlone == Spec => []LockedSectionsAreLeftAlone
<1>1. SectionInv => LockedSectionsAreLeftAlone BY DEF SectionInv
<1> QED BY <1>1, InvariantHolds, PTL

\* Only two actions write to a section: a save of the run and a person's edit.
LEMMA WritersAreTwo ==
  ASSUME SectionInv, [Next]_vars, NEW s \in Registered,
         section'[s].revision # section[s].revision
  PROVE  \/ SaveSection /\ status = "generating"
         \/ \E e \in Editors : EditSection(e) /\ s = seen[e].code
<1>1. CASE SaveSection BY <1>1 DEF SaveSection
<1>2. CASE Run /\ ~SaveSection
  <2>1. UNCHANGED section
    BY <1>2 DEF Run, ClaimTask, BuildRequest, BuildFails, ReuseSection, RecomposeSection,
                DraftSection, StoreDraft, FinishGeneration, Record, RecordNothing,
                RecordInvalidEvidence, RecordFailedRevision, RecordValidation, RecordError
  <2> QED BY <2>1
<1>3. CASE Request \/ Die \/ UNCHANGED vars
  BY <1>3 DEF Request, StartGeneration, RetryTask, RecoverTask, FailUnclaimed, StopTask,
              RequestRegeneration, Die
<1>4. CASE ReviewStep
  <2>1. ASSUME NEW e \in Editors, EditSection(e)
        PROVE  s = seen[e].code
    BY <2>1 DEF EditSection, Write, SectionInv, TypeOK, SectionType
  <2>2. CASE \E e \in Editors, t \in Registered : OpenSection(e, t)
    BY <2>2 DEF OpenSection
  <2>3. ASSUME NEW t \in Registered, NEW locked \in BOOLEAN, SetLock(t, locked) PROVE FALSE
    BY <2>3 DEF SetLock, SectionInv, TypeOK, SectionType
  <2>4. CASE LockAll BY <2>4 DEF LockAll, SectionInv, TypeOK, SectionType
  <2>5. CASE SubmitReview \/ ApproveTask \/ ExportTask
    BY <2>5 DEF SubmitReview, ApproveTask, ExportTask
  <2> QED BY <1>4, <2>1, <2>2, <2>3, <2>4, <2>5 DEF ReviewStep
<1> QED BY <1>1, <1>2, <1>3, <1>4 DEF Next

\* A locked section keeps its text until it is unlocked (services.py:1359,
\* repositories.py:183).
THEOREM LockedTextIsKept == Spec => LockedTextStays
<1>1. SectionInv /\ [Next]_vars =>
        \A s \in Registered : section[s].locked => section'[s].revision = section[s].revision
  <2> SUFFICES ASSUME SectionInv, [Next]_vars, NEW s \in Registered, section[s].locked,
                      section'[s].revision # section[s].revision
               PROVE  FALSE
    OBVIOUS
  <2>1. CASE SaveSection /\ status = "generating"
    <3>1. run.current \in run.todo /\ run.current \in Registered
      BY <2>1, OutlineRegistered
      DEF SaveSection, Work, RunStep, SectionInv, RunFits, TypeOK, RunType
    <3>2. ~section[run.current].locked
      BY <3>1 DEF SectionInv, LockedSectionsAreLeftAlone
    <3> QED BY <2>1, <3>1, <3>2, WriteSection DEF SaveSection, SectionInv
  <2>2. ASSUME NEW e \in Editors, EditSection(e), s = seen[e].code PROVE FALSE
    BY <2>2 DEF EditSection
  <2> QED BY <2>1, <2>2, WritersAreTwo
<1> QED BY <1>1, InvariantHolds, PTL DEF Spec, LockedTextStays

\* The revision an editor sends back identifies the text he has seen: an edit
\* never goes over another's or the agent's (services.py:1362).
THEOREM EditsSeeTheirText == Spec => EditSeesItsText
<1>1. SectionInv /\ [Next]_vars => \A e \in Editors : EditSection(e) => seen[e].current
  BY DEF SectionInv, SeenFits, EditSection, TypeOK, SectionType, ViewType
<1> QED BY <1>1, InvariantHolds, PTL DEF Spec, EditSeesItsText

\* Sections change while their task is being generated or reviewed and at no other
\* time: nothing is written to a stopped, submitted, approved or exported one.
THEOREM SettledTextIsKept == Spec => SettledTextIsFrozen
<1>1. SectionInv /\ [Next]_vars =>
        (section' # section => status \in {"generating", "review_required"})
  <2> SUFFICES ASSUME SectionInv, [Next]_vars, section' # section
               PROVE  status \in {"generating", "review_required"}
    OBVIOUS
  <2>1. CASE SaveSection BY <2>1 DEF SaveSection
  <2>2. CASE Run /\ ~SaveSection
    BY <2>2 DEF Run, ClaimTask, BuildRequest, BuildFails, ReuseSection, RecomposeSection,
                DraftSection, StoreDraft, FinishGeneration, Record, RecordNothing,
                RecordInvalidEvidence, RecordFailedRevision, RecordValidation, RecordError
  <2>3. CASE Request \/ Die \/ UNCHANGED vars
    BY <2>3 DEF Request, StartGeneration, RetryTask, RecoverTask, FailUnclaimed, StopTask,
                RequestRegeneration, Die
  <2>4. CASE ReviewStep
    BY <2>4 DEF ReviewStep, EditSection, OpenSection, SetLock, LockAll, SubmitReview,
                ApproveTask, ExportTask
  <2> QED BY <2>1, <2>2, <2>3, <2>4 DEF Next
<1> QED BY <1>1, InvariantHolds, PTL DEF Spec, SettledTextIsFrozen

-------------------------------------------------------------------------------
(* The refinement *)

\* A run that is to record a failure finds the task generating or stopped.
LEMMA FailedRunFits ==
  ASSUME SectionInv, NEW errors, Record(errors), status # "cancelled"
  PROVE  status = "generating"
BY DEF SectionInv, RunFits, Record, RunStep

\* Requests, reviews and runs move the task along the lifecycle that TaskLifecycle
\* promises: of the same row GenerationTask and this model tell the same.
THEOREM SectionsImplementLifecycle == Spec => SectionsKeepLifecycle
<1>1. SectionInv /\ [Next]_vars => [Lifecycle!Next]_status
  <2> SUFFICES ASSUME SectionInv, [Next]_vars, status' # status PROVE Lifecycle!Next
    OBVIOUS
  <2> USE DEF Lifecycle!Next, Lifecycle!Move
  <2>1. CASE Request
    <3>1. CASE StartGeneration
      BY <3>1 DEF StartGeneration, Enqueue, Lifecycle!StartGeneration
    <3>2. CASE RetryTask
      BY <3>2 DEF RetryTask, Enqueue, Lifecycle!Retry, Lifecycle!QueuedStatus
    <3>3. CASE RecoverTask
      BY <3>3 DEF RecoverTask, Enqueue, Lifecycle!Requeue
    <3>4. CASE FailUnclaimed
      BY <3>4 DEF FailUnclaimed, Lifecycle!Fail, Lifecycle!ActiveStatuses
    <3>5. CASE StopTask
      BY <3>5 DEF StopTask, Lifecycle!Cancel, Lifecycle!ActiveStatuses
    <3>6. CASE \E s \in Registered : RequestRegeneration(s)
      BY <3>6 DEF RequestRegeneration, Enqueue, Lifecycle!StartGeneration
    <3> QED BY <2>1, <3>1, <3>2, <3>3, <3>4, <3>5, <3>6 DEF Request
  <2>2. CASE ReviewStep
    <3>1. CASE SubmitReview BY <3>1 DEF SubmitReview, Review, Lifecycle!Submit
    <3>2. CASE ApproveTask BY <3>2 DEF ApproveTask, Review, Lifecycle!Approve
    <3>3. CASE ExportTask BY <3>3 DEF ExportTask, Review, Lifecycle!Export
    <3> QED BY <2>2, <3>1, <3>2, <3>3
            DEF ReviewStep, EditSection, OpenSection, SetLock, LockAll, Review
  <2>3. CASE Run
    <3>1. CASE ClaimTask BY <3>1 DEF ClaimTask, Lifecycle!Generate
    <3>2. CASE FinishGeneration BY <3>2 DEF FinishGeneration, Lifecycle!Generated
    <3>3. CASE RecordInvalidEvidence
      BY <3>3, FailedRunFits DEF RecordInvalidEvidence, Lifecycle!AskForFacts
    <3>4. CASE RecordFailedRevision
      BY <3>4, FailedRunFits DEF RecordFailedRevision, Lifecycle!Generated
    <3>5. CASE RecordValidation \/ RecordError
      BY <3>5, FailedRunFits DEF RecordValidation, RecordError, RetryOrFail,
         Lifecycle!Requeue, Lifecycle!Fail, Lifecycle!ActiveStatuses
    <3> QED BY <2>3, <3>1, <3>2, <3>3, <3>4, <3>5
            DEF Run, BuildRequest, BuildFails, ReuseSection, RecomposeSection, DraftSection,
                SaveSection, StoreDraft, Work, RecordNothing
  <2>4. CASE Die \/ UNCHANGED vars BY <2>4 DEF Die
  <2> QED BY <2>1, <2>2, <2>3, <2>4 DEF Next
<1> QED BY <1>1, InvariantHolds, PTL DEF Spec, SectionsKeepLifecycle
=============================================================================
