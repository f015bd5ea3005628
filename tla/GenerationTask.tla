----------------------------- MODULE GenerationTask -----------------------------
(***************************************************************************)
(* One document-generation task: its row in MySQL, its RQ job in Redis, the *)
(* worker that runs the job and the HTTP requests that act on the task      *)
(* (apps/document_generation: services, queues, jobs, recovery).            *)
(*                                                                          *)
(* Every service runs in one transaction under the row lock, so it is one   *)
(* action.  What runs outside a transaction is a step of its own: the       *)
(* request's first read of the task, the on_commit callback with its calls  *)
(* to Redis, and each part of the job between two transactions.  What a run *)
(* does to the sections is in SectionReview.tla; here a run succeeds or     *)
(* raises.                                                                  *)
(***************************************************************************)
EXTENDS Naturals

CONSTANTS
  Clients,      \* HTTP requests that may be in flight at the same time
  Recovery,     \* the caller of queue_generation_task at worker start
  MaxRetries,   \* Retry(max=2): how often RQ runs a failed job again
  MaxEntries,   \* bound: how often the job id is in the RQ list at one time
  Faults        \* which of FaultKinds the environment may exhibit

FaultKinds ==
  {"redis",     \* a Redis call fails, before or after it took effect
   "kill",      \* the work-horse process dies or times out outside the try block
   "crash",     \* the worker service is killed with its work-horse
   "restart"}   \* the worker service is stopped between two jobs

ASSUME ConstantsAssumption ==
  /\ Recovery \notin Clients
  /\ MaxRetries \in Nat
  /\ MaxEntries \in Nat \ {0}
  /\ Faults \subseteq FaultKinds

VARIABLES
  status, operation,
  evidenceInvalid,   \* error_code = "FACT_EVIDENCE_INVALID"
  revising,          \* pending_section_codes is the one section of an open revision
  deleted,           \* deleted_at is set
  stale,             \* updated_at is older than DOCUMENT_AGENT_STALE_TASK_SECONDS
  projectActive,     \* project.status = ACTIVE
  job,               \* the RQ job hash: its status and retries_left
  entries,           \* how often the job id is in the RQ list
  stopSignal,        \* a stop command is on its way to the worker
  worker,            \* the worker service
  run,               \* the execution of run_generation_task in the work-horse
  caller             \* where each request (or recovery) is

row    == <<status, operation, evidenceInvalid, revising, deleted, stale>>
queue  == <<job, entries, stopSignal>>
system == <<worker, run>>
vars   == <<row, projectActive, queue, system, caller>>

-------------------------------------------------------------------------------
(* Types *)

Statuses ==
  {"draft", "extracting", "needs_confirmation", "ready", "queued", "generating",
   "review_required", "pending_approval", "approved", "exported", "failed", "cancelled"}

ActiveStatuses == {"extracting", "queued", "generating"}

Extract  == "extract"
Generate == "generate"

\* deferred is not used; every status in which RQ has nothing left to do with
\* the job (finished, failed, stopped, canceled, expired) is "none".
LiveJob == {"queued", "started", "scheduled"}
NoJob   == [status |-> "none", retries |-> 0]

Steps ==
  {"idle", "dispatch", "begin", "working", "finish", "announce",
   "raised", "emit_failed", "record", "recorded", "returning", "raising"}
Errors == {"none", "evidence", "revision", "validation", "other"}
NoRun  == [step |-> "idle", op |-> Extract, error |-> "none", retries |-> 0]

Callers == Clients \cup {Recovery}

JobType == [status : LiveJob \cup {"none"}, retries : 0..MaxRetries]
RunType == [step : Steps, op : {Extract, Generate}, error : Errors, retries : 0..MaxRetries]

RowTypeOK ==
  /\ status \in Statuses
  /\ operation \in {Extract, Generate}
  /\ evidenceInvalid \in BOOLEAN
  /\ revising \in BOOLEAN
  /\ deleted \in BOOLEAN
  /\ stale \in BOOLEAN

QueueTypeOK ==
  /\ job \in JobType
  /\ entries \in 0..MaxEntries
  /\ stopSignal \in BOOLEAN

TypeOK ==
  /\ RowTypeOK
  /\ QueueTypeOK
  /\ projectActive \in BOOLEAN
  /\ worker \in {"down", "recovering", "up"}
  /\ run \in RunType
  /\ caller \in [Callers -> {"idle", "loaded", "inspect", "push", "mark", "stop"}]

Init ==
  /\ status = "draft" /\ operation = Extract
  /\ evidenceInvalid = FALSE /\ revising = FALSE /\ deleted = FALSE /\ stale = FALSE
  /\ projectActive = TRUE
  /\ job = NoJob /\ entries = 0 /\ stopSignal = FALSE
  /\ worker = "up" /\ run = NoRun
  /\ caller = [p \in Callers |-> "idle"]

-------------------------------------------------------------------------------
(* Requests.  A view reads the task (visible_generation_tasks) and then calls *)
(* a service, which locks the row and reads it again.                         *)

LoadTask(c) ==
  /\ caller[c] = "idle" /\ ~deleted
  /\ caller' = [caller EXCEPT ![c] = "loaded"]
  /\ UNCHANGED <<row, projectActive, queue, system>>

\* Any check of a service fails: the transaction is rolled back.
RejectRequest(c) ==
  /\ caller[c] = "loaded"
  /\ caller' = [caller EXCEPT ![c] = "idle"]
  /\ UNCHANGED <<row, projectActive, queue, system>>

\* The transaction of a service commits; `next` is its on_commit callback.
Commit(c, next) ==
  /\ caller[c] = "loaded"
  /\ caller' = [caller EXCEPT ![c] = next]
  /\ UNCHANGED <<projectActive, queue, system>>

\* A save() whose update_fields hold status and updated_at.
Save(s) == status' = s /\ stale' = FALSE

PrepareFactConfirmation(c) ==
  /\ Commit(c, "inspect")
  /\ projectActive /\ status = "draft"
  /\ Save("extracting") /\ operation' = Extract
  /\ UNCHANGED <<evidenceInvalid, revising, deleted>>

ConfirmFacts(c) ==
  /\ Commit(c, "idle")
  /\ projectActive /\ status = "needs_confirmation"
  /\ Save("ready") /\ evidenceInvalid' = FALSE
  /\ UNCHANGED <<operation, revising, deleted>>

\* request_generation, alone or in the transaction of confirm_and_request_generation
RequestGeneration(c) ==
  /\ Commit(c, "inspect")
  /\ projectActive /\ status \in {"ready", "needs_confirmation"}
  /\ Save("queued") /\ operation' = Generate /\ evidenceInvalid' = FALSE
  /\ UNCHANGED <<revising, deleted>>

\* Not the code: the status check lets a running generation through.
RetryWhileActive(c) ==
  /\ Commit(c, "inspect")
  /\ projectActive /\ status \in {"failed", "needs_confirmation", "generating"}
  /\ Save(IF operation = Extract THEN "extracting" ELSE "queued")
  /\ evidenceInvalid' = FALSE
  /\ UNCHANGED <<operation, revising, deleted>>

\* The branch for a FAILED task with FACT_EVIDENCE_INVALID is left out: no task
\* comes there (FailedTaskHasNoEvidenceError).
RetryTask(c) ==
  /\ Commit(c, "inspect")
  /\ projectActive
  /\ \/ status = "failed"
     \/ status = "needs_confirmation" /\ operation = Extract
  /\ Save(IF operation = Extract THEN "extracting" ELSE "queued")
  /\ evidenceInvalid' = FALSE
  /\ UNCHANGED <<operation, revising, deleted>>

\* Works in an archived project too.
StopTask(c) ==
  /\ Commit(c, "stop")
  /\ status \in ActiveStatuses
  /\ Save("cancelled") /\ evidenceInvalid' = FALSE
  /\ UNCHANGED <<operation, revising, deleted>>

DeleteTask(c) ==
  /\ Commit(c, "idle")
  /\ status \notin ActiveStatuses /\ ~deleted
  /\ deleted' = TRUE /\ stale' = FALSE
  /\ UNCHANGED <<status, operation, evidenceInvalid, revising>>

RegenerateSection(c) ==
  /\ Commit(c, "inspect")
  /\ projectActive /\ status = "review_required"
  /\ Save("queued") /\ operation' = Generate /\ revising' = TRUE
  /\ UNCHANGED <<evidenceInvalid, deleted>>

SubmitReview(c) ==
  /\ Commit(c, "idle")
  /\ projectActive /\ status = "review_required"
  /\ Save("pending_approval")
  /\ UNCHANGED <<operation, evidenceInvalid, revising, deleted>>

ApproveTask(c) ==
  /\ Commit(c, "idle")
  /\ projectActive /\ status = "pending_approval"
  /\ Save("approved")
  /\ UNCHANGED <<operation, evidenceInvalid, revising, deleted>>

ExportTask(c) ==
  /\ Commit(c, "idle")
  /\ projectActive /\ status \in {"review_required", "pending_approval", "approved"}
  /\ Save("exported")
  /\ UNCHANGED <<operation, evidenceInvalid, revising, deleted>>

Request(c) ==
  \/ LoadTask(c) \/ RejectRequest(c)
  \/ PrepareFactConfirmation(c) \/ ConfirmFacts(c) \/ RequestGeneration(c)
  \/ RetryTask(c) \/ StopTask(c) \/ DeleteTask(c)
  \/ RegenerateSection(c) \/ SubmitReview(c) \/ ApproveTask(c) \/ ExportTask(c)

ToggleArchive ==
  /\ projectActive' = ~projectActive
  /\ UNCHANGED <<row, queue, system, caller>>

-------------------------------------------------------------------------------
(* queue_generation_task, called after commit and by recovery: look the job  *)
(* up; unless it is live delete it and enqueue it anew.  These are separate  *)
(* commands to Redis.                                                        *)

\* The caller returns; after recovery's last task the RQ worker starts.
Return(p) ==
  /\ caller' = [caller EXCEPT ![p] = "idle"]
  /\ worker' = IF p = Recovery THEN "up" ELSE worker

InspectJob(p) ==
  /\ caller[p] = "inspect"
  /\ IF job.status \in LiveJob
       THEN Return(p)
       ELSE caller' = [caller EXCEPT ![p] = "push"] /\ UNCHANGED worker
  /\ UNCHANGED <<row, projectActive, queue, run>>

\* The id goes to the end of the list even if it is there already; at the bound one
\* more changes nothing.
PushId == entries' = IF entries < MaxEntries THEN entries + 1 ELSE entries

PushJob ==
  /\ PushId
  /\ job' = [status |-> "queued", retries |-> MaxRetries]
  /\ UNCHANGED stopSignal

EnqueueJob(p) ==
  /\ caller[p] = "push"
  /\ PushJob
  /\ Return(p)
  /\ UNCHANGED <<row, projectActive, run>>

\* A Redis command raises; when it was the enqueue it may have taken effect.
RedisFails(p) ==
  /\ "redis" \in Faults
  /\ caller[p] \in {"inspect", "push"}
  /\ caller' = [caller EXCEPT ![p] = "mark"]
  /\ \/ UNCHANGED queue
     \/ caller[p] = "push" /\ PushJob
  /\ UNCHANGED <<row, projectActive, system>>

\* The except branch: QUEUE_UNAVAILABLE, without lock and without condition.
MarkQueueUnavailable(p) ==
  /\ caller[p] = "mark"
  /\ Save("failed") /\ evidenceInvalid' = FALSE
  /\ Return(p)
  /\ UNCHANGED <<operation, revising, deleted, projectActive, queue, run>>

\* stop_generation_job: best effort, errors of Redis are swallowed.
StopJob(p) ==
  /\ caller[p] = "stop"
  /\ \/ /\ job.status = "started"
        /\ stopSignal' = (worker = "up")
        /\ UNCHANGED <<job, entries>>
     \/ /\ job.status \in {"queued", "scheduled"}
        /\ job' = NoJob
        /\ entries' = IF entries > 0 THEN entries - 1 ELSE 0
        /\ UNCHANGED stopSignal
     \/ /\ job.status = "none" \/ "redis" \in Faults
        /\ UNCHANGED queue
  /\ Return(p)
  /\ UNCHANGED <<row, projectActive, run>>

Callback(p) ==
  InspectJob(p) \/ EnqueueJob(p) \/ RedisFails(p) \/ MarkQueueUnavailable(p) \/ StopJob(p)

-------------------------------------------------------------------------------
(* The worker service and RQ. *)

\* Not the code: recovery looks at queued and generating tasks only.
RecoverWithoutExtracting ==
  LET interrupted == status = "generating" /\ stale IN
  /\ worker = "down"
  /\ status' = (IF interrupted THEN "queued" ELSE status)
  /\ stale' = (stale /\ ~interrupted)
  /\ evidenceInvalid' = (evidenceInvalid /\ ~interrupted)
  /\ IF status' = "queued"
       THEN worker' = "recovering" /\ caller' = [caller EXCEPT ![Recovery] = "inspect"]
       ELSE worker' = "up" /\ UNCHANGED caller
  /\ UNCHANGED <<operation, revising, deleted, projectActive, queue, run>>

\* Not the code: recovery leaves generating tasks to the retry of their job.
RecoverWithoutGenerating ==
  /\ worker = "down"
  /\ IF status \in {"queued", "extracting"}
       THEN worker' = "recovering" /\ caller' = [caller EXCEPT ![Recovery] = "inspect"]
       ELSE worker' = "up" /\ UNCHANGED caller
  /\ UNCHANGED <<row, projectActive, queue, run>>

\* run_document_generation_worker: recover_generation_tasks, then the RQ worker.
StartWorker ==
  LET interrupted == status = "generating" /\ stale
      recovered   == IF interrupted THEN "queued" ELSE status
  IN
  /\ worker = "down"
  /\ status' = recovered
  /\ stale' = (stale /\ ~interrupted)
  /\ evidenceInvalid' = (evidenceInvalid /\ ~interrupted)
  /\ IF recovered \in {"queued", "extracting"}
       THEN worker' = "recovering" /\ caller' = [caller EXCEPT ![Recovery] = "inspect"]
       ELSE worker' = "up" /\ UNCHANGED caller
  /\ UNCHANGED <<operation, revising, deleted, projectActive, queue, run>>

\* Warm shutdown, between two jobs.
StopWorker ==
  /\ "restart" \in Faults
  /\ worker = "up" /\ run.step = "idle"
  /\ worker' = "down" /\ stopSignal' = FALSE
  /\ UNCHANGED <<row, projectActive, job, entries, run, caller>>

\* systemd kills the control group: recovery or the run is gone, RQ's job hash
\* still says what it said.
CrashWorker ==
  /\ "crash" \in Faults
  /\ worker # "down"
  /\ worker' = "down" /\ run' = NoRun /\ stopSignal' = FALSE
  /\ caller' = [caller EXCEPT ![Recovery] = "idle"]
  /\ UNCHANGED <<row, projectActive, job, entries>>

\* Not the code: one retry too many.
AfterFailureOffByOne(retries) == [status |-> "scheduled", retries |-> retries - 1]

\* What RQ does with a job that failed with `retries` attempts left.
AfterFailure(retries) ==
  IF retries > 0 THEN [status |-> "scheduled", retries |-> retries - 1] ELSE NoJob

TakeJob ==
  /\ worker = "up" /\ run.step = "idle" /\ entries > 0
  /\ entries' = entries - 1
  /\ job' = [job EXCEPT !.status = "started"]
  /\ run' = [NoRun EXCEPT !.step = "dispatch", !.retries = job.retries]
  /\ UNCHANGED <<row, projectActive, stopSignal, worker, caller>>

\* rqscheduler: the retry interval is over.
ScheduleRetry ==
  /\ worker = "up" /\ job.status = "scheduled"
  /\ job' = [job EXCEPT !.status = "queued"]
  /\ PushId
  /\ UNCHANGED <<row, projectActive, stopSignal, system, caller>>

\* StartedJobRegistry.cleanup: a started job without heartbeat.
ReapAbandonedJob ==
  /\ worker = "up" /\ run.step = "idle" /\ job.status = "started"
  /\ job' = AfterFailure(job.retries)
  /\ UNCHANGED <<row, projectActive, entries, stopSignal, system, caller>>

EndRun(newJob) ==
  /\ run' = NoRun
  /\ job' = newJob
  /\ UNCHANGED <<row, projectActive, entries, worker, caller>>

JobReturns == run.step = "returning" /\ EndRun(NoJob) /\ UNCHANGED stopSignal

JobRaises == run.step = "raising" /\ EndRun(AfterFailure(run.retries)) /\ UNCHANGED stopSignal

KillRun ==
  /\ "kill" \in Faults /\ run.step # "idle"
  /\ EndRun(AfterFailure(run.retries))
  /\ UNCHANGED stopSignal

\* send_stop_job_command arrives: the current work-horse is killed, no retry.
DeliverStop ==
  /\ stopSignal /\ worker = "up"
  /\ stopSignal' = FALSE
  /\ IF run.step = "idle"
       THEN UNCHANGED <<row, projectActive, job, entries, system, caller>>
       ELSE EndRun(NoJob)

\* 2100 seconds without a save: longer than a run may last (1800 seconds).
BecomeStale ==
  /\ status = "generating" /\ ~stale /\ run.step = "idle"
  /\ stale' = TRUE
  /\ UNCHANGED <<status, operation, evidenceInvalid, revising, deleted,
                 projectActive, queue, system, caller>>

Environment ==
  \/ StopWorker \/ CrashWorker \/ KillRun \/ DeliverStop \/ BecomeStale

-------------------------------------------------------------------------------
(* run_generation_task in the work-horse. *)

Goto(step) == run' = [run EXCEPT !.step = step]

\* A step of the run that leaves RQ and the requests alone.
RunStep(from) ==
  /\ run.step = from
  /\ UNCHANGED <<deleted, projectActive, queue, worker, caller>>

\* Not the code: the job waits until the task has the status it expects.
DispatchWaits ==
  /\ RunStep("dispatch")
  /\ run' = IF \/ operation = Extract /\ status = "extracting"
               \/ operation = Generate /\ status = "queued"
              THEN [run EXCEPT !.step = "begin", !.op = operation]
              ELSE run
  /\ UNCHANGED <<status, operation, evidenceInvalid, revising, stale>>

\* Reads status and operation without a lock.
Dispatch ==
  /\ RunStep("dispatch")
  /\ run' = IF \/ operation = Extract /\ status = "extracting"
               \/ operation = Generate /\ status = "queued"
              THEN [run EXCEPT !.step = "begin", !.op = operation]
              ELSE [run EXCEPT !.step = "returning"]
  /\ UNCHANGED <<status, operation, evidenceInvalid, revising, stale>>

\* Under the lock: is the task still there to be claimed by this job?
Claimable ==
  IF run.op = Extract THEN status = "extracting" /\ operation = Extract
                      ELSE status = "queued"

SkipRun ==
  /\ RunStep("begin") /\ ~Claimable
  /\ Goto("returning")
  /\ UNCHANGED <<status, operation, evidenceInvalid, revising, stale>>

FailArchived ==
  /\ RunStep("begin") /\ Claimable /\ ~projectActive
  /\ Save("failed") /\ evidenceInvalid' = FALSE
  /\ Goto("returning")
  /\ UNCHANGED <<operation, revising>>

ClaimTask ==
  /\ RunStep("begin") /\ Claimable /\ projectActive
  /\ Save(IF run.op = Extract THEN "extracting" ELSE "generating")
  /\ evidenceInvalid' = FALSE
  /\ Goto("working")
  /\ UNCHANGED <<operation, revising>>

\* The steps of the work check the row as they write: trace events refuse a
\* cancelled task, sections and draft want "generating" and not deleted.
WorkSucceeds ==
  /\ RunStep("working")
  /\ IF run.op = Extract THEN status # "cancelled" ELSE status = "generating" /\ ~deleted
  /\ Goto("finish")
  /\ UNCHANGED <<status, operation, evidenceInvalid, revising, stale>>

ErrorsOfRun ==
  {"other"} \cup (IF run.op = Generate THEN {"evidence", "validation"} ELSE {})
            \cup (IF run.op = Generate /\ revising THEN {"revision"} ELSE {})

WorkRaises ==
  /\ RunStep("working")
  /\ \E e \in ErrorsOfRun : run' = [run EXCEPT !.step = "raised", !.error = e]
  /\ UNCHANGED <<status, operation, evidenceInvalid, revising, stale>>

CheckCancelled ==
  /\ RunStep("raised")
  /\ Goto(IF status = "cancelled" THEN "returning"
          ELSE IF run.op = Extract THEN "emit_failed" ELSE "record")
  /\ UNCHANGED <<status, operation, evidenceInvalid, revising, stale>>

\* recorder.emit raises TaskExecutionCancelled out of the except block.
EmitFailure ==
  /\ RunStep("emit_failed")
  /\ Goto(IF status = "cancelled" THEN "raising" ELSE "record")
  /\ UNCHANGED <<status, operation, evidenceInvalid, revising, stale>>

RetriesLeft == run.retries > 0

(* _record_failure: one transaction with four outcomes.  Without retries left  *)
(* it also closes the open revision: the task is no longer revising.           *)

Record(errors) ==
  /\ RunStep("record") /\ run.error \in errors
  /\ Goto("recorded")
  /\ UNCHANGED operation

RecordNothing ==
  /\ Record(Errors) /\ status = "cancelled"
  /\ UNCHANGED <<status, evidenceInvalid, revising, stale>>


RecordInvalidEvidence ==
  /\ Record({"evidence"}) /\ status # "cancelled"
  /\ Save("needs_confirmation") /\ evidenceInvalid' = TRUE
  /\ revising' = (revising /\ RetriesLeft)

RecordFailedRevision ==
  /\ Record({"revision"}) /\ status # "cancelled"
  /\ Save("review_required") /\ evidenceInvalid' = FALSE
  /\ revising' = FALSE

\* Not the code: the operation does not matter.
QueuedAfterError == IF RetriesLeft THEN "queued" ELSE "failed"

\* Not the code: the status is left to the next attempt.
KeptAfterError == IF RetriesLeft THEN status ELSE "failed"


StatusAfterError ==
  IF ~RetriesLeft THEN "failed"
  ELSE IF run.error = "other" /\ operation = Extract THEN "extracting"
  ELSE "queued"

\* A validation failure may add sections to pending_section_codes.
RecordError ==
  /\ Record({"validation", "other"}) /\ status # "cancelled"
  /\ Save(StatusAfterError) /\ evidenceInvalid' = FALSE
  /\ \/ revising' = (revising /\ RetriesLeft)
     \/ run.error = "validation" /\ revising' = FALSE

RecordFailure ==
  RecordNothing \/ RecordInvalidEvidence \/ RecordFailedRevision \/ RecordError

\* Return to RQ or raise again, by the error and a fresh read of the status.
AfterRecord ==
  /\ RunStep("recorded")
  /\ Goto(IF run.op = Generate /\ (run.error = "evidence" \/ status = "review_required")
            THEN "returning" ELSE "raising")
  /\ UNCHANGED <<status, operation, evidenceInvalid, revising, stale>>

FinishExtraction ==
  /\ RunStep("finish") /\ run.op = Extract
  /\ IF status = "extracting" /\ operation = Extract
       THEN Save("needs_confirmation") /\ Goto("announce")
       ELSE UNCHANGED <<status, stale>> /\ Goto("returning")
  /\ UNCHANGED <<operation, evidenceInvalid, revising>>

\* Not the code: the recorder saves the whole row it read before the commit.
AnnounceStaleRow ==
  /\ RunStep("announce")
  /\ Save("needs_confirmation") /\ Goto("returning")
  /\ UNCHANGED <<operation, evidenceInvalid, revising>>

\* recorder.emit(wait_for_fact_confirmation) after the commit
AnnounceExtraction ==
  /\ RunStep("announce")
  /\ Goto(IF status = "cancelled" THEN "raising" ELSE "returning")
  /\ UNCHANGED <<status, operation, evidenceInvalid, revising, stale>>

\* Not the code: the final transaction does not look at the status again.
FinishUnchecked ==
  /\ RunStep("finish") /\ run.op = Generate
  /\ Save("review_required") /\ revising' = FALSE
  /\ Goto("returning")
  /\ UNCHANGED <<operation, evidenceInvalid>>


FinishGeneration ==
  /\ RunStep("finish") /\ run.op = Generate
  /\ IF status = "generating"
       THEN Save("review_required") /\ revising' = FALSE
       ELSE UNCHANGED <<status, stale, revising>>
  /\ Goto("returning")
  /\ UNCHANGED <<operation, evidenceInvalid>>

Run ==
  \/ Dispatch \/ SkipRun \/ FailArchived \/ ClaimTask \/ WorkSucceeds \/ WorkRaises
  \/ CheckCancelled \/ EmitFailure \/ RecordFailure \/ AfterRecord
  \/ FinishExtraction \/ AnnounceExtraction \/ FinishGeneration
  \/ JobReturns \/ JobRaises

-------------------------------------------------------------------------------

Next ==
  \/ \E c \in Clients : Request(c)
  \/ \E p \in Callers : Callback(p)
  \/ ToggleArchive
  \/ StartWorker \/ TakeJob \/ ScheduleRetry \/ ReapAbandonedJob
  \/ Run
  \/ Environment

Spec == Init /\ [][Next]_vars

(***************************************************************************)
(* Nobody has to send a request.  A callback runs to its end; systemd       *)
(* starts the worker again; the worker takes what is in the queue and runs  *)
(* it, its scheduler and its maintenance run.  Starting and stopping the    *)
(* worker for ever does not keep it from the queue (strong fairness).       *)
(***************************************************************************)
Fairness ==
  /\ \A p \in Callers : WF_vars(Callback(p))
  /\ WF_vars(StartWorker)
  /\ SF_vars(TakeJob)
  /\ SF_vars(ScheduleRetry)
  /\ SF_vars(ReapAbandonedJob)
  /\ WF_vars(Run)
  /\ WF_vars(BecomeStale)

FairSpec == Spec /\ Fairness

-------------------------------------------------------------------------------
(* Properties *)

PersonStatuses ==
  {"needs_confirmation", "ready", "review_required", "pending_approval", "approved", "exported"}

\* The transaction of c's service ends.
EndsRequest(c) == caller[c] = "loaded" /\ caller'[c] # "loaded"

\* The run has claimed the task and has not yet ended its work on it.
WorkingSteps == {"working", "finish", "raised", "emit_failed", "record"}

RunningStatus(op) == IF op = Extract THEN "extracting" ELSE "generating"

\* From its claim to the transaction that ends it, a run finds the task either
\* as it claimed it or cancelled: no request, recovery or second execution of
\* the job takes the row from it (jobs.py:334 and 470 against every service).
RunOwnsTask ==
  run.step \in WorkingSteps => status \in {RunningStatus(run.op), "cancelled"}

\* A cancelled task stays cancelled, whatever its run, RQ's retries, recovery
\* and the requests in flight still do ("the cancelled status in MySQL is the
\* final protection").  Broken by the failing enqueue of queues.py:40-51.
CancelledIsFinal == [][status = "cancelled" => status' = "cancelled"]_vars

\* What waits for a person is moved by a request only, never by a late run, a
\* retried job, a second execution of the job id or recovery.
WorkerKeepsHands ==
  [][status' # status /\ status \in PersonStatuses
       => \E c \in Clients : EndsRequest(c)]_vars

\* A failed task never carries FACT_EVIDENCE_INVALID: the branch of
\* retry_generation_task that repairs the evidence of one (services.py:1147-1196)
\* is not taken, which is why RetryTask leaves it out.
FailedTaskHasNoEvidenceError == status = "failed" => ~evidenceInvalid

\* The inductive invariant behind the three properties above, for a Redis that
\* answers: who is at work with which operation, and what it leaves in the row.
OperationFits ==
  /\ status = "extracting" => operation = Extract
  /\ status \in {"queued", "generating"} => operation = Generate

EvidenceFits == evidenceInvalid => status = "needs_confirmation"

RunFits ==
  /\ run.step \in WorkingSteps => status \in {RunningStatus(run.op), "cancelled"}
  /\ run.step = "dispatch" => run.error = "none"
  /\ run.error \in {"evidence", "revision", "validation"} => run.op = Generate
  /\ run.step # "idle" => worker = "up"

NobodyMarks == \A p \in Callers : caller[p] # "mark"

TaskInv == TypeOK /\ OperationFits /\ EvidenceFits /\ RunFits /\ NobodyMarks

\* The row obeys the lifecycle that people rely on, whatever is in queue and worker.
Lifecycle == INSTANCE TaskLifecycle WITH status <- status, operation <- operation
LifecycleSpec == Lifecycle!Spec

\* A task that is being generated is, in the end, not: the run ends and says so.
GenerationSettles == status = "generating" ~> status # "generating"

\* After a stop the queue and the worker have, in the end, nothing left of it,
\* unless a failing enqueue moves the task out of that status first.
CancelledWorkStops ==
  status = "cancelled"
    ~> \/ run.step = "idle" /\ entries = 0 /\ job.status = "none"
       \/ status # "cancelled"

\* As long as the worker is started again and again, no task stays with the
\* queue for ever: recovery enqueues what a lost job left behind.
RecoveryHeals ==
  []<>(worker = "down") => (status \in ActiveStatuses ~> status \notin ActiveStatuses)

\* Even when runs are killed and the worker crashes, recovery takes a generating
\* task out of that status.
InterruptedTaskRecovers == []<>(worker = "down") => GenerationSettles
=============================================================================
