------------------------------ MODULE SectionReview ------------------------------
(***************************************************************************)
(* The text of one task: its sections, the job that drafts them and the     *)
(* people who edit, lock, send back, approve and export them                *)
(* (document_generation: services.py, jobs.py, repositories.py, artifacts.py *)
(* and the section loop of engine/orchestrator.py).                         *)
(*                                                                          *)
(* GenerationTask.tla has the queue in detail.  Here a run may start        *)
(* whenever the task is queued and may die at any step, and recovery may    *)
(* queue a task that no run works on: at most one run at a time, which      *)
(* GenerationTaskProofs.tla shows (RunOwnsTask).  Facts are confirmed and   *)
(* the generation is requested in one step (confirm_and_request_generation). *)
(***************************************************************************)
EXTENDS Naturals, Sequences

CONSTANTS
  Outline,       \* the chapters of the template document, in their order
  Registered,    \* template.section_order
  Editors,       \* people with a section open in the browser
  NoCode,        \* what an editor without an open section looks at
  MaxRetries,    \* Retry(max=2)
  MaxStarts,     \* bound: how often the task is put into the queue
  MaxEdits,      \* bound: the revision up to which people edit a section
  Crashes,       \* whether a run may die
  Outages        \* whether Redis may be down or the project archived

OutlineCodes == {Outline[i] : i \in 1..Len(Outline)}

\* A registered order is inferred from the document (services.py:234) or holds
\* every known chapter (bootstrap.py:142); an empty outline falls back to it.
ASSUME ReviewAssumption ==
  /\ Outline \in Seq(Registered)
  /\ OutlineCodes # {}
  /\ NoCode \notin Registered
  /\ {MaxRetries, MaxStarts, MaxEdits} \subseteq Nat
  /\ {Crashes, Outages} \subseteq BOOLEAN

VARIABLES
  status,
  pending,        \* pending_section_codes
  section,        \* GeneratedSection: its revision (0: no row) and is_locked
  conversation,   \* the last revision request of a section and its revision_before
  retries,        \* retries_left of the job
  run,            \* the job's execution: what it works on and how it went
  seen,           \* the section and revision an editor has loaded
  starts          \* how often the task was put into the queue

text == <<pending, section, conversation>>
vars == <<status, text, retries, run, seen, starts>>

-------------------------------------------------------------------------------
(* Types *)

ReviewStatuses == {"review_required", "pending_approval", "approved", "exported"}
Statuses ==
  ReviewStatuses \cup {"needs_confirmation", "queued", "generating", "failed", "cancelled"}

Open == {"queued", "processing"}

Steps  == {"idle", "claimed", "sections", "save", "finish", "record"}
Errors == {"none", "evidence", "revision", "validation", "other"}
NoRun  == [step |-> "idle", todo |-> {}, current |-> NoCode, forced |-> FALSE,
           instructed |-> FALSE, error |-> "none"]
\* `current`: history, whether nobody has written the section since it was loaded
NoView == [code |-> NoCode, revision |-> 0, current |-> TRUE]

SectionType == [revision : Nat, locked : BOOLEAN]
ConversationType == [state : Open \cup {"none", "completed", "failed"}, before : Nat]
RunType  == [step : Steps, todo : SUBSET OutlineCodes, current : Registered \cup {NoCode},
             forced : BOOLEAN, instructed : BOOLEAN, error : Errors]
ViewType == [code : Registered \cup {NoCode}, revision : Nat, current : BOOLEAN]

TypeOK ==
  /\ status \in Statuses
  /\ pending \subseteq Registered
  /\ section \in [Registered -> SectionType]
  /\ conversation \in [Registered -> ConversationType]
  /\ retries \in 0..MaxRetries
  /\ run \in RunType
  /\ seen \in [Editors -> ViewType]
  /\ starts \in 0..MaxStarts

Init ==
  /\ status = "needs_confirmation"
  /\ pending = Registered
  /\ section = [s \in Registered |-> [revision |-> 0, locked |-> FALSE]]
  /\ conversation = [s \in Registered |-> [state |-> "none", before |-> 0]]
  /\ retries = 0 /\ run = NoRun
  /\ seen = [e \in Editors |-> NoView]
  /\ starts = 0

Stored(s) == section[s].revision > 0

\* Section s is written: a new revision, and what the editors loaded is outdated.
Write(s) ==
  /\ section' = [section EXCEPT ![s].revision = @ + 1]
  /\ seen' = [e \in Editors |-> IF seen[e].code = s THEN [seen[e] EXCEPT !.current = FALSE]
                                                   ELSE seen[e]]

-------------------------------------------------------------------------------
(* Requests that give the task to the queue or take it away *)

Enqueue(from, left) ==
  /\ starts < MaxStarts /\ starts' = starts + 1
  /\ status = from /\ status' = "queued"
  /\ retries' = left
  /\ UNCHANGED <<run, seen>>

StartGeneration ==
  /\ Enqueue("needs_confirmation", MaxRetries)
  /\ UNCHANGED text

RetryTask ==
  /\ Enqueue("failed", MaxRetries)
  /\ UNCHANGED text

\* Not the code: the section's lock is not looked at.
RegenerateLocked(s) ==
  /\ Enqueue("review_required", MaxRetries)
  /\ Stored(s)
  /\ pending' = {s}
  /\ conversation' = [conversation EXCEPT
       ![s] = [state |-> "queued", before |-> section[s].revision]]
  /\ UNCHANGED section

RequestRegeneration(s) ==
  /\ Enqueue("review_required", MaxRetries)
  /\ Stored(s) /\ ~section[s].locked
  /\ pending' = {s}
  /\ conversation' = [conversation EXCEPT
       ![s] = [state |-> "queued", before |-> section[s].revision]]
  /\ UNCHANGED section

\* A worker that starts again finds a queued task, or a generating one without a
\* run; it enqueues a new job or leaves the one that RQ has scheduled.
RecoverTask ==
  /\ run.step = "idle"
  /\ \E from \in {"queued", "generating"}, left \in {retries, MaxRetries} : Enqueue(from, left)
  /\ UNCHANGED text

\* The enqueue fails, or the job finds the project archived: the task has failed
\* before a run has claimed it, and the conversations are left as they are.
FailUnclaimed ==
  /\ Outages
  /\ run.step = "idle" /\ status = "queued"
  /\ status' = "failed"
  /\ UNCHANGED <<text, retries, run, seen, starts>>

StopTask ==
  /\ status \in {"queued", "generating"}
  /\ status' = "cancelled"
  /\ UNCHANGED <<text, retries, run, seen, starts>>

-------------------------------------------------------------------------------
(* Review.  The task is locked first, so each service is one step. *)

OpenSection(e, s) ==
  /\ Stored(s)
  /\ seen' = [seen EXCEPT ![e] = [code |-> s, revision |-> section[s].revision,
                                  current |-> TRUE]]
  /\ UNCHANGED <<status, text, retries, run, starts>>

\* Not the code: the lock is taken for a matter of the browser.
EditLocked(e) ==
  LET s == seen[e].code IN
  /\ status = "review_required"
  /\ s # NoCode /\ section[s].revision < MaxEdits
  /\ section[s].revision = seen[e].revision
  /\ Write(s)
  /\ UNCHANGED <<status, pending, conversation, retries, run, starts>>

EditSection(e) ==
  LET s == seen[e].code IN
  /\ status = "review_required"
  /\ s # NoCode /\ section[s].revision < MaxEdits
  /\ ~section[s].locked /\ section[s].revision = seen[e].revision
  /\ Write(s)
  /\ UNCHANGED <<status, pending, conversation, retries, run, starts>>

Review(next) ==
  /\ status' = next
  /\ UNCHANGED <<pending, conversation, retries, run, seen, starts>>

SetLock(s, locked) ==
  /\ status = "review_required" /\ Stored(s)
  /\ section' = [section EXCEPT ![s].locked = locked]
  /\ Review(status)

\* A stored section has no error-level issue: every save comes after a
\* validation without one.
LockAll ==
  /\ status = "review_required"
  /\ section' = [s \in Registered |-> [section[s] EXCEPT !.locked = Stored(s)]]
  /\ Review(status)

StoredCodes == {s \in Registered : Stored(s)}
AllLocked   == \A s \in StoredCodes : section[s].locked

Submittable == StoredCodes = Registered /\ AllLocked
Exportable  == StoredCodes = OutlineCodes /\ AllLocked

SubmitReview ==
  /\ status = "review_required" /\ Submittable
  /\ Review("pending_approval") /\ UNCHANGED section

ApproveTask ==
  /\ status = "pending_approval"
  /\ Registered \subseteq StoredCodes /\ AllLocked
  /\ Review("approved") /\ UNCHANGED section

ExportTask ==
  /\ status \in {"review_required", "pending_approval", "approved"} /\ Exportable
  /\ Review("exported") /\ UNCHANGED section

ReviewStep ==
  \/ \E e \in Editors : EditSection(e) \/ \E s \in Registered : OpenSection(e, s)
  \/ \E s \in Registered, locked \in BOOLEAN : SetLock(s, locked)
  \/ LockAll \/ SubmitReview \/ ApproveTask \/ ExportTask

Request ==
  \/ StartGeneration \/ RetryTask \/ RecoverTask \/ FailUnclaimed \/ StopTask
  \/ \E s \in Registered : RequestRegeneration(s)

-------------------------------------------------------------------------------
(* The run *)

\* The open conversations of the pending sections get a new state.
Answer(codes, from, to) ==
  conversation' = [s \in Registered |->
    IF s \in codes /\ conversation[s].state \in from
      THEN [conversation[s] EXCEPT !.state = to] ELSE conversation[s]]

RunStep(from) ==
  /\ run.step = from
  /\ UNCHANGED starts

\* A step of the work between two transactions.
Work(from) ==
  /\ RunStep(from)
  /\ UNCHANGED <<status, pending, conversation, retries>>

Raise(error) == run' = [run EXCEPT !.step = "record", !.error = error]

ClaimTask ==
  /\ RunStep("idle") /\ status = "queued"
  /\ status' = "generating"
  /\ Answer(pending, {"queued"}, "processing")
  /\ run' = [NoRun EXCEPT !.step = "claimed"]
  /\ UNCHANGED <<pending, section, retries, seen>>

\* One section that exists is to be drafted anew, not to be reused.
Forced(codes) == \E s \in codes : codes = {s} /\ Stored(s)

\* _build_request; the fallback for no section in both orders is never needed
\* (PendingIsNeeded).
BuildRequest ==
  LET codes == {s \in OutlineCodes : pending = {} \/ s \in pending} IN
  /\ Work("claimed")
  /\ run' = [run EXCEPT
       !.step = "sections", !.todo = codes, !.forced = Forced(codes),
       !.instructed = Forced(codes) /\ \E s \in codes : conversation[s].state \in Open]
  /\ UNCHANGED <<section, seen>>

\* Templates, sources and facts are read and checked.
BuildFails ==
  /\ Work("claimed")
  /\ \E error \in {"evidence", "other"} : Raise(error)
  /\ UNCHANGED <<section, seen>>

\* s is the first section of the outline that is left.
IsNext(s) ==
  \E i \in 1..Len(Outline) :
    /\ Outline[i] = s /\ s \in run.todo
    /\ \A j \in 1..(i - 1) : Outline[j] \notin run.todo

Reusable(s) == Stored(s) /\ ~run.forced

\* The stored section still validates and is as it would be composed now.
ReuseSection(s) ==
  /\ Work("sections") /\ IsNext(s) /\ Reusable(s)
  /\ run' = [run EXCEPT !.todo = @ \ {s}]
  /\ UNCHANGED <<section, seen>>

\* It validates after it was composed anew.
RecomposeSection(s) ==
  /\ Work("sections") /\ IsNext(s) /\ Reusable(s) /\ ~section[s].locked
  /\ run' = [run EXCEPT !.step = "save", !.current = s]
  /\ UNCHANGED <<section, seen>>

\* The section is drafted, when there is none to reuse or it does not validate
\* any more, and validated, up to three times revised.  A locked section that
\* does not validate fails the run in the code; no run comes to one
\* (LockedSectionsAreLeftAlone).
DraftSection(s) ==
  /\ Work("sections") /\ IsNext(s)
  /\ Reusable(s) => ~section[s].locked
  /\ \/ run' = [run EXCEPT !.step = "save", !.current = s]
     \/ \E error \in {"validation", "other"} \cup (IF run.instructed THEN {"revision"} ELSE {}) :
          run' = [run EXCEPT !.step = "record", !.current = s, !.error = error]
  /\ UNCHANGED <<section, seen>>

\* Not the code: the section is saved whatever became of the task.
SaveUnchecked ==
  /\ Work("save")
  /\ IF section[run.current].locked THEN UNCHANGED <<section, seen>> ELSE Write(run.current)
  /\ run' = [run EXCEPT !.step = "sections", !.todo = @ \ {run.current}]

\* Not the code: the same revision with another text.
SaveInPlace ==
  /\ Work("save")
  /\ IF status # "generating"
       THEN Raise("other") /\ UNCHANGED <<section, seen>>
       ELSE /\ section' = [section EXCEPT ![run.current].revision = IF @ = 0 THEN 1 ELSE @]
            /\ seen' = [e \in Editors |-> IF seen[e].code = run.current
                          THEN [seen[e] EXCEPT !.current = FALSE] ELSE seen[e]]
            /\ run' = [run EXCEPT !.step = "sections", !.todo = @ \ {run.current}]

\* ORMSectionRepository.save: only while the task is generating, not over a lock.
SaveSection ==
  /\ Work("save")
  /\ IF status # "generating"
       THEN Raise("other") /\ UNCHANGED <<section, seen>>
       ELSE /\ IF section[run.current].locked THEN UNCHANGED <<section, seen>>
                                              ELSE Write(run.current)
            /\ run' = [run EXCEPT !.step = "sections", !.todo = @ \ {run.current}]

\* The draft document is rendered and stored, if the task is still generating.
StoreDraft ==
  /\ Work("sections") /\ run.todo = {}
  /\ \/ status = "generating" /\ run' = [run EXCEPT !.step = "finish"]
     \/ Raise("other")
  /\ UNCHANGED <<section, seen>>

\* Not the code: only the conversations that nobody has claimed are completed.
FinishClaimed ==
  /\ RunStep("finish")
  /\ IF status = "generating"
       THEN status' = "review_required" /\ pending' = {} /\ Answer(pending, {"queued"}, "completed")
       ELSE UNCHANGED <<status, pending, conversation>>
  /\ run' = NoRun
  /\ UNCHANGED <<section, retries, seen>>

\* The last transaction of the job; a stopped task is left alone.
FinishGeneration ==
  /\ RunStep("finish")
  /\ IF status = "generating"
       THEN status' = "review_required" /\ pending' = {} /\ Answer(pending, Open, "completed")
       ELSE UNCHANGED <<status, pending, conversation>>
  /\ run' = NoRun
  /\ UNCHANGED <<section, retries, seen>>

-------------------------------------------------------------------------------
(* _record_failure, and what RQ does with the job then *)

Record(errors) ==
  /\ RunStep("record") /\ run.error \in errors
  /\ run' = NoRun
  /\ UNCHANGED <<section, seen>>

RecordNothing ==
  /\ Record(Errors) /\ status = "cancelled"
  /\ UNCHANGED <<status, pending, conversation, retries>>

Answered == IF retries > 0 THEN "processing" ELSE "failed"

RecordInvalidEvidence ==
  /\ Record({"evidence"}) /\ status # "cancelled"
  /\ status' = "needs_confirmation"
  /\ Answer(pending, Open, Answered)
  /\ UNCHANGED <<pending, retries>>

RecordFailedRevision ==
  /\ Record({"revision"}) /\ status # "cancelled"
  /\ status' = "review_required"
  /\ pending' = {}
  /\ Answer(pending, Open, "failed")
  /\ UNCHANGED retries

\* The job is run again or the task has failed.
RetryOrFail ==
  IF retries > 0 THEN status' = "queued" /\ retries' = retries - 1
                 ELSE status' = "failed" /\ UNCHANGED retries

\* Not the code: only the failed section is to be done again.
PendingFailedOnly == {run.current}

\* _pending_validation_sections: every registered section without a row, and the
\* one that failed.
PendingValidationSections == {s \in Registered : ~Stored(s)} \cup {run.current}

RecordValidation ==
  /\ Record({"validation"}) /\ status # "cancelled"
  /\ pending' = PendingValidationSections
  /\ Answer(pending, Open, Answered)
  /\ RetryOrFail

RecordError ==
  /\ Record({"other"}) /\ status # "cancelled"
  /\ Answer(pending, Open, Answered)
  /\ RetryOrFail
  /\ UNCHANGED pending

\* The work-horse is gone; the row stays in "generating".
Die ==
  /\ Crashes /\ run.step # "idle"
  /\ run' = NoRun
  /\ retries' \in {retries, IF retries > 0 THEN retries - 1 ELSE 0}
  /\ UNCHANGED <<status, text, seen, starts>>

Run ==
  \/ ClaimTask \/ BuildRequest \/ BuildFails
  \/ \E s \in OutlineCodes : ReuseSection(s) \/ RecomposeSection(s) \/ DraftSection(s)
  \/ SaveSection \/ StoreDraft \/ FinishGeneration
  \/ RecordNothing \/ RecordInvalidEvidence \/ RecordFailedRevision
  \/ RecordValidation \/ RecordError

-------------------------------------------------------------------------------

Next == Request \/ ReviewStep \/ Run \/ Die

Spec == Init /\ [][Next]_vars

\* The worker goes on with what is queued and what it has begun; nobody has to
\* send a request.
FairSpec == Spec /\ WF_vars(Run)

-------------------------------------------------------------------------------
(* Properties *)

\* A task that people review has every chapter of its document, whatever failed,
\* was retried, recovered or sent back before.  Retries work on the pending
\* sections only (jobs.py:729-733), so it hangs on what a failure leaves there
\* (jobs.py:986-1003).
ReviewedTaskIsComplete == status \in ReviewStatuses => OutlineCodes \subseteq StoredCodes

\* No run has a locked section on its list: "locked sections are not generated
\* again" (phase 7).  The list is made from what the run before left pending.
LockedSectionsAreLeftAlone == \A s \in run.todo : ~section[s].locked

\* Nobody writes over a locked section: no editor who opened it before the lock,
\* no run that was to revise it.
LockedTextStays ==
  [][\A s \in Registered : section[s].locked =>
       section'[s].revision = section[s].revision]_vars

\* An edit never goes over a text its author has not seen, another editor's or
\* the agent's: the revision the browser sends stands for the text.
EditSeesItsText == [][\A e \in Editors : EditSection(e) => seen[e].current]_vars

\* Sections are written by the run of a generating task and by people in review,
\* and at no other time: what was submitted, approved, exported or stopped stays as
\* it is, a late run or not ("the entry points refuse to write for a stopped task").
SettledTextIsFrozen ==
  [][section' # section => status \in {"generating", "review_required"}]_vars

\* Whoever asked for a revision gets an answer, unless the task is stopped or its
\* facts have to be confirmed again; attempts and retries come to an end.  A run
\* has to get at the task: Outages is FALSE.
RevisionIsAnswered ==
  \A s \in Registered :
    conversation[s].state = "queued" ~>
      \/ conversation[s].state \in {"completed", "failed"}
      \/ status \in {"cancelled", "needs_confirmation"}

\* Before review, and after a stop, something of the document is pending, nothing
\* locked is, and with what is stored it makes up the document.
PendingIsNeeded ==
  status \notin ReviewStatuses =>
    /\ pending \cap OutlineCodes # {}
    /\ \A s \in pending : ~section[s].locked
    /\ OutlineCodes \subseteq StoredCodes \cup pending

\* The inductive invariant behind these properties: what a run knows of the
\* sections still holds when it uses it, and a revision names one text.
RunFits ==
  /\ run.step = "idle" => run = NoRun
  /\ run.step # "idle" => status \in {"generating", "cancelled"}
  /\ run.step \in {"sections", "save", "finish"} => OutlineCodes \subseteq StoredCodes \cup run.todo
  /\ run.step = "save" => run.current \in run.todo
  /\ run.step = "finish" => run.todo = {}
  /\ run.step = "record" /\ run.error = "validation" => run.current \in run.todo
  /\ run.step = "claimed" => run.error = "none"
  /\ run.error = "revision" => run.instructed
  /\ run.instructed => OutlineCodes \subseteq StoredCodes

OnlyOutlineIsStored == StoredCodes \subseteq OutlineCodes
OnlyStoredAreLocked == \A s \in Registered : section[s].locked => Stored(s)

SeenFits ==
  \A e \in Editors : LET s == seen[e].code IN s # NoCode =>
    /\ 0 < seen[e].revision /\ seen[e].revision <= section[s].revision
    /\ ~seen[e].current => seen[e].revision < section[s].revision

SectionInv ==
  /\ TypeOK
  /\ ReviewedTaskIsComplete /\ PendingIsNeeded /\ LockedSectionsAreLeftAlone
  /\ RunFits /\ OnlyOutlineIsStored /\ OnlyStoredAreLocked /\ SeenFits

\* What happens to the sections moves the task only as its lifecycle allows: this
\* model and GenerationTask, which leaves the sections out, tell of one row.
Lifecycle == INSTANCE TaskLifecycle WITH status <- status, operation <- "generate"
SectionsKeepLifecycle == [][Lifecycle!Next]_status
=============================================================================
