-------------------------- MODULE GenerationTaskProofs --------------------------
(***************************************************************************)
(* What holds of GenerationTask for every number of requests, every bound  *)
(* on retries and list entries and every set of faults.                    *)
(***************************************************************************)
EXTENDS GenerationTask, TLAPS

USE DEF row, queue, system, vars, Extract, Generate, ActiveStatuses, Callers

-------------------------------------------------------------------------------
(* Types *)

LEMMA NothingTyped == NoJob \in JobType /\ NoRun \in RunType /\ MaxRetries \in 0..MaxRetries
BY ConstantsAssumption DEF NoJob, NoRun, JobType, RunType, LiveJob, Steps, Errors

\* Retries only go down, and never below zero.
LEMMA AfterFailureTyped ==
  ASSUME NEW retries \in 0..MaxRetries
  PROVE  AfterFailure(retries) \in JobType
<1>1. CASE retries > 0
  BY <1>1, ConstantsAssumption DEF AfterFailure, JobType, LiveJob
<1>2. CASE ~(retries > 0)
  BY <1>2, NothingTyped DEF AfterFailure
<1> QED BY <1>1, <1>2

LEMMA InitTypeOK == Init => TypeOK
<1> SUFFICES ASSUME Init PROVE TypeOK
  OBVIOUS
<1> USE ConstantsAssumption, NothingTyped DEF Init
<1>1. RowTypeOK BY DEF RowTypeOK, Statuses
<1>2. QueueTypeOK
  <2>1. job \in JobType OBVIOUS
  <2>2. entries \in 0..MaxEntries OBVIOUS
  <2> QED BY <2>1, <2>2 DEF QueueTypeOK
<1> QED BY <1>1, <1>2 DEF TypeOK

LEMMA RequestTypeOK ==
  ASSUME TypeOK, NEW c \in Clients, Request(c)
  PROVE  TypeOK'
<1>1. QueueTypeOK' /\ UNCHANGED <<projectActive, system>>
  <2> USE DEF TypeOK, QueueTypeOK, Commit
  <2>1. CASE LoadTask(c) \/ RejectRequest(c) BY <2>1 DEF LoadTask, RejectRequest
  <2>2. CASE PrepareFactConfirmation(c) \/ ConfirmFacts(c) \/ RequestGeneration(c) \/ RetryTask(c)
    BY <2>2 DEF PrepareFactConfirmation, ConfirmFacts, RequestGeneration, RetryTask
  <2>3. CASE StopTask(c) \/ DeleteTask(c) \/ RegenerateSection(c)
    BY <2>3 DEF StopTask, DeleteTask, RegenerateSection
  <2>4. CASE SubmitReview(c) \/ ApproveTask(c) \/ ExportTask(c)
    BY <2>4 DEF SubmitReview, ApproveTask, ExportTask
  <2> QED BY <2>1, <2>2, <2>3, <2>4 DEF Request
<1>2. RowTypeOK' /\ caller' \in [Callers -> {"idle", "loaded", "inspect", "push", "mark", "stop"}]
  <2> USE DEF TypeOK, RowTypeOK, Commit, Save, Statuses
  <2>1. CASE LoadTask(c) BY <2>1 DEF LoadTask
  <2>2. CASE RejectRequest(c) BY <2>2 DEF RejectRequest
  <2>3. CASE PrepareFactConfirmation(c) BY <2>3 DEF PrepareFactConfirmation
  <2>4. CASE ConfirmFacts(c) BY <2>4 DEF ConfirmFacts
  <2>5. CASE RequestGeneration(c) BY <2>5 DEF RequestGeneration
  <2>6. CASE RetryTask(c) BY <2>6 DEF RetryTask
  <2>7. CASE StopTask(c) BY <2>7 DEF StopTask
  <2>8. CASE DeleteTask(c) BY <2>8 DEF DeleteTask
  <2>9. CASE RegenerateSection(c) BY <2>9 DEF RegenerateSection
  <2>10. CASE SubmitReview(c) BY <2>10 DEF SubmitReview
  <2>11. CASE ApproveTask(c) BY <2>11 DEF ApproveTask
  <2>12. CASE ExportTask(c) BY <2>12 DEF ExportTask
  <2> QED
    BY <2>1, <2>2, <2>3, <2>4, <2>5, <2>6, <2>7, <2>8, <2>9, <2>10, <2>11, <2>12 DEF Request
<1> QED BY <1>1, <1>2 DEF TypeOK

LEMMA CallbackTypeOK ==
  ASSUME TypeOK, NEW p \in Callers, Callback(p)
  PROVE  TypeOK'
<1>1. QueueTypeOK'
  <2> USE ConstantsAssumption, NothingTyped DEF TypeOK, QueueTypeOK
  <2>1. CASE InspectJob(p) BY <2>1 DEF InspectJob
  <2>2. CASE PushJob
    <3>1. job' \in JobType BY <2>2 DEF PushJob, JobType, LiveJob
    <3>2. entries' \in 0..MaxEntries BY <2>2 DEF PushJob, PushId
    <3>3. stopSignal' \in BOOLEAN BY <2>2 DEF PushJob
    <3> QED BY <3>1, <3>2, <3>3
  <2>3. CASE EnqueueJob(p) BY <2>2, <2>3 DEF EnqueueJob
  <2>4. CASE RedisFails(p) BY <2>2, <2>4 DEF RedisFails
  <2>5. CASE MarkQueueUnavailable(p) BY <2>5 DEF MarkQueueUnavailable
  <2>6. CASE StopJob(p)
    <3>1. job' \in JobType BY <2>6 DEF StopJob
    <3>2. entries' \in 0..MaxEntries BY <2>6 DEF StopJob
    <3>3. stopSignal' \in BOOLEAN BY <2>6 DEF StopJob
    <3> QED BY <3>1, <3>2, <3>3
  <2> QED BY <2>1, <2>3, <2>4, <2>5, <2>6 DEF Callback
<1>2. RowTypeOK'
  <2> USE DEF TypeOK, RowTypeOK
  <2>1. CASE MarkQueueUnavailable(p) BY <2>1 DEF MarkQueueUnavailable, Save, Statuses
  <2>2. CASE InspectJob(p) \/ EnqueueJob(p) \/ RedisFails(p) \/ StopJob(p)
    BY <2>2 DEF InspectJob, EnqueueJob, RedisFails, StopJob
  <2> QED BY <2>1, <2>2 DEF Callback
<1>3. /\ UNCHANGED <<projectActive, run>>
      /\ worker' \in {worker, "up"}
      /\ caller' \in [Callers -> {"idle", "loaded", "inspect", "push", "mark", "stop"}]
  BY DEF TypeOK, Callback, InspectJob, EnqueueJob, RedisFails, MarkQueueUnavailable, StopJob,
         Return
<1> QED BY <1>1, <1>2, <1>3 DEF TypeOK

LEMMA WorkerTypeOK ==
  ASSUME TypeOK,
         StartWorker \/ TakeJob \/ ScheduleRetry \/ ReapAbandonedJob \/ Environment
  PROVE  TypeOK'
<1> USE ConstantsAssumption, NothingTyped DEF TypeOK
<1>1. CASE StartWorker
  <2>1. RowTypeOK' BY <1>1 DEF StartWorker, RowTypeOK, Statuses
  <2> QED BY <1>1, <2>1 DEF StartWorker, QueueTypeOK
<1>2. CASE TakeJob
  <2>1. QueueTypeOK'
    <3>1. entries' \in 0..MaxEntries BY <1>2 DEF TakeJob, QueueTypeOK
    <3>2. job' \in JobType BY <1>2 DEF TakeJob, QueueTypeOK, JobType, LiveJob
    <3> QED BY <1>2, <3>1, <3>2 DEF TakeJob, QueueTypeOK
  <2>2. run' \in RunType
    BY <1>2 DEF TakeJob, QueueTypeOK, JobType, NoRun, RunType, Steps, Errors
  <2> QED BY <1>2, <2>1, <2>2 DEF TakeJob, RowTypeOK
<1>3. CASE ScheduleRetry
  <2>1. entries' \in 0..MaxEntries BY <1>3 DEF ScheduleRetry, PushId, QueueTypeOK
  <2>2. job' \in JobType BY <1>3 DEF ScheduleRetry, QueueTypeOK, JobType, LiveJob
  <2> QED BY <1>3, <2>1, <2>2 DEF ScheduleRetry, QueueTypeOK, RowTypeOK
<1>4. CASE ReapAbandonedJob
  <2>1. job' \in JobType
    BY <1>4, AfterFailureTyped DEF ReapAbandonedJob, QueueTypeOK, JobType
  <2> QED BY <1>4, <2>1 DEF ReapAbandonedJob, QueueTypeOK, RowTypeOK
<1>5. CASE StopWorker
  BY <1>5 DEF StopWorker, QueueTypeOK, RowTypeOK
<1>6. CASE CrashWorker
  BY <1>6 DEF CrashWorker, QueueTypeOK, RowTypeOK
<1>7. CASE KillRun
  <2>1. job' \in JobType BY <1>7, AfterFailureTyped DEF KillRun, EndRun, RunType
  <2> QED BY <1>7, <2>1 DEF KillRun, EndRun, QueueTypeOK, RowTypeOK
<1>8. CASE DeliverStop
  BY <1>8 DEF DeliverStop, EndRun, QueueTypeOK, RowTypeOK
<1>9. CASE BecomeStale
  BY <1>9 DEF BecomeStale, QueueTypeOK, RowTypeOK
<1> QED BY <1>1, <1>2, <1>3, <1>4, <1>5, <1>6, <1>7, <1>8, <1>9 DEF Environment

LEMMA RunTypeOK ==
  ASSUME TypeOK, Run
  PROVE  TypeOK'
<1>1. RowTypeOK'
  <2> USE DEF TypeOK, RowTypeOK, Statuses, Save
  <2>1. CASE Dispatch \/ SkipRun \/ WorkSucceeds \/ WorkRaises
    BY <2>1 DEF Dispatch, SkipRun, WorkSucceeds, WorkRaises, RunStep
  <2>2. CASE CheckCancelled \/ EmitFailure \/ AfterRecord \/ AnnounceExtraction
    BY <2>2 DEF CheckCancelled, EmitFailure, AfterRecord, AnnounceExtraction, RunStep
  <2>3. CASE FailArchived BY <2>3 DEF FailArchived, RunStep
  <2>4. CASE ClaimTask BY <2>4 DEF ClaimTask, RunStep
  <2>5. CASE RecordNothing BY <2>5 DEF RecordNothing, Record, RunStep
  <2>6. CASE RecordInvalidEvidence BY <2>6 DEF RecordInvalidEvidence, Record, RunStep, RetriesLeft
  <2>7. CASE RecordFailedRevision BY <2>7 DEF RecordFailedRevision, Record, RunStep
  <2>8. CASE RecordError
    BY <2>8 DEF RecordError, Record, RunStep, StatusAfterError, RetriesLeft
  <2>9. CASE FinishExtraction BY <2>9 DEF FinishExtraction, RunStep
  <2>10. CASE FinishGeneration BY <2>10 DEF FinishGeneration, RunStep
  <2>11. CASE JobReturns \/ JobRaises BY <2>11 DEF JobReturns, JobRaises, EndRun
  <2> QED
    BY <2>1, <2>2, <2>3, <2>4, <2>5, <2>6, <2>7, <2>8, <2>9, <2>10, <2>11 DEF Run, RecordFailure
<1>2. run' \in RunType /\ UNCHANGED <<projectActive, worker, caller>>
  <2> USE DEF TypeOK, RunType, Steps, Goto, RunStep
  <2>1. CASE Dispatch BY <2>1 DEF Dispatch, RowTypeOK
  <2>2. CASE SkipRun \/ FailArchived \/ ClaimTask \/ WorkSucceeds
    BY <2>2 DEF SkipRun, FailArchived, ClaimTask, WorkSucceeds
  <2>3. CASE WorkRaises
    <3>1. ErrorsOfRun \subseteq Errors BY DEF ErrorsOfRun, Errors
    <3>2. PICK e \in Errors : run' = [run EXCEPT !.step = "raised", !.error = e]
      BY <2>3, <3>1 DEF WorkRaises
    <3> QED BY <2>3, <3>2 DEF WorkRaises
  <2>4. CASE CheckCancelled \/ EmitFailure \/ AfterRecord \/ AnnounceExtraction
    BY <2>4 DEF CheckCancelled, EmitFailure, AfterRecord, AnnounceExtraction
  <2>5. CASE RecordFailure
    BY <2>5 DEF RecordFailure, RecordNothing, RecordInvalidEvidence, RecordFailedRevision,
                RecordError, Record
  <2>6. CASE FinishExtraction \/ FinishGeneration
    BY <2>6 DEF FinishExtraction, FinishGeneration
  <2>7. CASE JobReturns \/ JobRaises
    BY <2>7, NothingTyped DEF JobReturns, JobRaises, EndRun
  <2> QED BY <2>1, <2>2, <2>3, <2>4, <2>5, <2>6, <2>7 DEF Run
<1>3. QueueTypeOK'
  <2> USE DEF TypeOK, QueueTypeOK
  <2>1. CASE JobReturns BY <2>1, NothingTyped DEF JobReturns, EndRun
  <2>2. CASE JobRaises
    <3>1. job' \in JobType BY <2>2, AfterFailureTyped DEF JobRaises, EndRun, RunType
    <3> QED BY <2>2, <3>1 DEF JobRaises, EndRun
  <2>3. CASE ~(JobReturns \/ JobRaises)
    BY <2>3 DEF Run, Dispatch, SkipRun, FailArchived, ClaimTask, WorkSucceeds, WorkRaises,
                CheckCancelled, EmitFailure, RecordFailure, RecordNothing, RecordInvalidEvidence,
                RecordFailedRevision, RecordError, Record, AfterRecord, FinishExtraction,
                AnnounceExtraction, FinishGeneration, RunStep
  <2> QED BY <2>1, <2>2, <2>3
<1> QED BY <1>1, <1>2, <1>3 DEF TypeOK

LEMMA NextTypeOK == TypeOK /\ [Next]_vars => TypeOK'
<1> SUFFICES ASSUME TypeOK, [Next]_vars PROVE TypeOK'
  OBVIOUS
<1>1. CASE \E c \in Clients : Request(c) BY <1>1, RequestTypeOK
<1>2. CASE \E p \in Callers : Callback(p) BY <1>2, CallbackTypeOK
<1>3. CASE ToggleArchive BY <1>3 DEF ToggleArchive, TypeOK, RowTypeOK, QueueTypeOK
<1>4. CASE StartWorker \/ TakeJob \/ ScheduleRetry \/ ReapAbandonedJob \/ Environment
  BY <1>4, WorkerTypeOK
<1>5. CASE Run BY <1>5, RunTypeOK
<1>6. CASE UNCHANGED vars BY <1>6 DEF TypeOK, RowTypeOK, QueueTypeOK
<1> QED BY <1>1, <1>2, <1>3, <1>4, <1>5, <1>6 DEF Next

\* The type invariant of the task, its job, its run and its callers.
THEOREM TypeCorrect == Spec => []TypeOK
BY InitTypeOK, NextTypeOK, PTL DEF Spec

-------------------------------------------------------------------------------
(* The invariant behind the safety properties.  "redis" must not be among the  *)
(* faults: MarkQueueUnavailable writes the row whatever its status is.         *)

LEMMA InitTaskInv == Init => TaskInv
BY InitTypeOK
DEF Init, TaskInv, OperationFits, EvidenceFits, RunFits, NobodyMarks, NoRun, WorkingSteps

\* A request does nothing to a task at work, or to a stopped one, but stop it.
LEMMA RequestsOnlyStop ==
  ASSUME NEW c \in Clients, Request(c), status \in ActiveStatuses \cup {"cancelled"}
  PROVE  status' \in {status, "cancelled"} /\ UNCHANGED operation
BY DEF Request, LoadTask, RejectRequest, PrepareFactConfirmation, ConfirmFacts, RequestGeneration,
       RetryTask, StopTask, DeleteTask, RegenerateSection, SubmitReview, ApproveTask, ExportTask,
       Save

LEMMA RequestTaskInv ==
  ASSUME TaskInv, NEW c \in Clients, Request(c)
  PROVE  OperationFits' /\ EvidenceFits' /\ RunFits' /\ NobodyMarks'
<1>1. UNCHANGED <<worker, run>> /\ NobodyMarks'
  BY DEF TaskInv, TypeOK, NobodyMarks, Request, LoadTask, RejectRequest, PrepareFactConfirmation,
         ConfirmFacts, RequestGeneration, RetryTask, StopTask, DeleteTask, RegenerateSection,
         SubmitReview, ApproveTask, ExportTask, Commit
<1>2. RunFits'
  BY <1>1, RequestsOnlyStop DEF TaskInv, RunFits, RunningStatus
<1>3. OperationFits' /\ EvidenceFits'
  <2> USE DEF TaskInv, TypeOK, RowTypeOK, OperationFits, EvidenceFits, Save
  <2>1. CASE LoadTask(c) \/ RejectRequest(c) BY <2>1 DEF LoadTask, RejectRequest
  <2>2. CASE PrepareFactConfirmation(c) BY <2>2 DEF PrepareFactConfirmation
  <2>3. CASE ConfirmFacts(c) BY <2>3 DEF ConfirmFacts
  <2>4. CASE RequestGeneration(c) BY <2>4 DEF RequestGeneration
  <2>5. CASE RetryTask(c) BY <2>5 DEF RetryTask
  <2>6. CASE StopTask(c) BY <2>6 DEF StopTask
  <2>7. CASE DeleteTask(c) BY <2>7 DEF DeleteTask
  <2>8. CASE RegenerateSection(c) BY <2>8 DEF RegenerateSection
  <2>9. CASE SubmitReview(c) \/ ApproveTask(c) \/ ExportTask(c)
    BY <2>9 DEF SubmitReview, ApproveTask, ExportTask
  <2> QED BY <2>1, <2>2, <2>3, <2>4, <2>5, <2>6, <2>7, <2>8, <2>9 DEF Request
<1> QED BY <1>1, <1>2, <1>3

LEMMA CallbackTaskInv ==
  ASSUME "redis" \notin Faults, TaskInv, NEW p \in Callers, Callback(p)
  PROVE  /\ UNCHANGED <<row, run>>
         /\ OperationFits' /\ EvidenceFits' /\ RunFits' /\ NobodyMarks'
<1>1. ~RedisFails(p) /\ ~MarkQueueUnavailable(p)
  BY DEF RedisFails, MarkQueueUnavailable, TaskInv, NobodyMarks
<1>2. UNCHANGED <<row, run>> /\ worker' \in {worker, "up"} /\ NobodyMarks'
  BY <1>1 DEF Callback, InspectJob, EnqueueJob, StopJob, Return, TaskInv, TypeOK, NobodyMarks
<1> QED BY <1>2 DEF TaskInv, OperationFits, EvidenceFits, RunFits

LEMMA WorkerTaskInv ==
  ASSUME TaskInv,
         StartWorker \/ TakeJob \/ ScheduleRetry \/ ReapAbandonedJob \/ Environment
  PROVE  OperationFits' /\ EvidenceFits' /\ RunFits' /\ NobodyMarks'
<1> USE DEF TaskInv, TypeOK, NobodyMarks
<1>1. CASE StartWorker
  BY <1>1 DEF StartWorker, OperationFits, EvidenceFits, RunFits, WorkingSteps
<1>2. CASE TakeJob
  BY <1>2 DEF TakeJob, OperationFits, EvidenceFits, RunFits, RunType, NoRun, WorkingSteps
<1>3. CASE ScheduleRetry \/ ReapAbandonedJob \/ StopWorker \/ BecomeStale
  BY <1>3 DEF ScheduleRetry, ReapAbandonedJob, StopWorker, BecomeStale, OperationFits,
              EvidenceFits, RunFits
<1>4. CASE CrashWorker
  BY <1>4 DEF CrashWorker, OperationFits, EvidenceFits, RunFits, NoRun, WorkingSteps
<1>5. CASE KillRun \/ DeliverStop
  BY <1>5 DEF KillRun, DeliverStop, EndRun, OperationFits, EvidenceFits, RunFits, NoRun,
              WorkingSteps
<1> QED BY <1>1, <1>2, <1>3, <1>4, <1>5 DEF Environment

LEMMA RunTaskInv ==
  ASSUME TaskInv, Run
  PROVE  OperationFits' /\ EvidenceFits' /\ RunFits' /\ NobodyMarks'
<1> USE DEF TaskInv, TypeOK, RowTypeOK, RunType, OperationFits, EvidenceFits, RunFits,
            RunningStatus, WorkingSteps, Goto, RunStep, Save
<1>1. NobodyMarks'
  BY RunTypeOK DEF NobodyMarks, Run, RecordFailure, Record, Dispatch, SkipRun, FailArchived,
       ClaimTask, WorkSucceeds, WorkRaises, CheckCancelled, EmitFailure, RecordNothing,
       RecordInvalidEvidence, RecordFailedRevision, RecordError, AfterRecord, FinishExtraction,
       AnnounceExtraction, FinishGeneration, JobReturns, JobRaises, EndRun
<1>2. CASE Dispatch BY <1>1, <1>2 DEF Dispatch
<1>3. CASE SkipRun BY <1>1, <1>3 DEF SkipRun
<1>4. CASE FailArchived BY <1>1, <1>4 DEF FailArchived
<1>5. CASE ClaimTask BY <1>1, <1>5 DEF ClaimTask, Claimable
<1>6. CASE WorkSucceeds BY <1>1, <1>6 DEF WorkSucceeds
<1>7. CASE WorkRaises BY <1>1, <1>7 DEF WorkRaises, ErrorsOfRun
<1>8. CASE CheckCancelled BY <1>1, <1>8 DEF CheckCancelled
<1>9. CASE EmitFailure BY <1>1, <1>9 DEF EmitFailure
<1>10. CASE RecordNothing BY <1>1, <1>10 DEF RecordNothing, Record
<1>11. CASE RecordInvalidEvidence BY <1>1, <1>11 DEF RecordInvalidEvidence, Record
<1>12. CASE RecordFailedRevision BY <1>1, <1>12 DEF RecordFailedRevision, Record
<1>13. CASE RecordError BY <1>1, <1>13 DEF RecordError, Record, StatusAfterError
<1>14. CASE AfterRecord BY <1>1, <1>14 DEF AfterRecord
<1>15. CASE FinishExtraction BY <1>1, <1>15 DEF FinishExtraction
<1>16. CASE AnnounceExtraction BY <1>1, <1>16 DEF AnnounceExtraction
<1>17. CASE FinishGeneration BY <1>1, <1>17 DEF FinishGeneration
<1>18. CASE JobReturns \/ JobRaises BY <1>1, <1>18 DEF JobReturns, JobRaises, EndRun, NoRun
<1> QED
  BY <1>2, <1>3, <1>4, <1>5, <1>6, <1>7, <1>8, <1>9, <1>10, <1>11, <1>12, <1>13, <1>14, <1>15,
     <1>16, <1>17, <1>18
  DEF Run, RecordFailure

LEMMA NextTaskInv ==
  ASSUME "redis" \notin Faults
  PROVE  TaskInv /\ [Next]_vars => TaskInv'
<1> SUFFICES ASSUME TaskInv, [Next]_vars PROVE OperationFits' /\ EvidenceFits' /\ RunFits' /\ NobodyMarks'
  BY NextTypeOK DEF TaskInv
<1>1. CASE \E c \in Clients : Request(c) BY <1>1, RequestTaskInv
<1>2. CASE \E p \in Callers : Callback(p) BY <1>2, CallbackTaskInv
<1>3. CASE ToggleArchive \/ UNCHANGED vars
  BY <1>3 DEF ToggleArchive, TaskInv, OperationFits, EvidenceFits, RunFits, NobodyMarks
<1>4. CASE StartWorker \/ TakeJob \/ ScheduleRetry \/ ReapAbandonedJob \/ Environment
  BY <1>4, WorkerTaskInv
<1>5. CASE Run BY <1>5, RunTaskInv
<1> QED BY <1>1, <1>2, <1>3, <1>4, <1>5 DEF Next

\* With a Redis that answers the invariant holds of every reachable state.
THEOREM InvariantHolds ==
  ASSUME "redis" \notin Faults
  PROVE  Spec => []TaskInv
BY InitTaskInv, NextTaskInv, PTL DEF Spec

\* A run owns the task from its claim to its last transaction.
THEOREM RunsOwnTheirTask ==
  ASSUME "redis" \notin Faults
  PROVE  Spec => []RunOwnsTask
<1>1. TaskInv => RunOwnsTask BY DEF TaskInv, RunFits, RunOwnsTask
<1> QED BY <1>1, InvariantHolds, PTL

\* Only an active or a reviewed task can fail, so none keeps an evidence error.
THEOREM FailedTasksHaveNoEvidenceError ==
  ASSUME "redis" \notin Faults
  PROVE  Spec => []FailedTaskHasNoEvidenceError
<1>1. TaskInv => FailedTaskHasNoEvidenceError
  BY DEF TaskInv, EvidenceFits, FailedTaskHasNoEvidenceError
<1> QED BY <1>1, InvariantHolds, PTL

-------------------------------------------------------------------------------
(* Every step is a step of the abstract task or leaves it alone. *)

USE DEF Lifecycle!vars, Lifecycle!Next, Lifecycle!Move

LEMMA RequestLifecycle ==
  ASSUME TaskInv, NEW c \in Clients, Request(c)
  PROVE  [Lifecycle!Next]_(Lifecycle!vars)
<1> USE DEF Save
<1>1. CASE LoadTask(c) \/ RejectRequest(c) \/ DeleteTask(c)
  BY <1>1 DEF LoadTask, RejectRequest, DeleteTask
<1>2. CASE PrepareFactConfirmation(c)
  BY <1>2 DEF PrepareFactConfirmation, Lifecycle!StartExtraction
<1>3. CASE ConfirmFacts(c) BY <1>3 DEF ConfirmFacts, Lifecycle!Confirm
<1>4. CASE RequestGeneration(c) \/ RegenerateSection(c)
  BY <1>4 DEF RequestGeneration, RegenerateSection, Lifecycle!StartGeneration
<1>5. CASE RetryTask(c) BY <1>5 DEF RetryTask, Lifecycle!Retry, Lifecycle!QueuedStatus
<1>6. CASE StopTask(c) BY <1>6 DEF StopTask, Lifecycle!Cancel, Lifecycle!ActiveStatuses
<1>7. CASE SubmitReview(c) BY <1>7 DEF SubmitReview, Lifecycle!Submit
<1>8. CASE ApproveTask(c) BY <1>8 DEF ApproveTask, Lifecycle!Approve
<1>9. CASE ExportTask(c) BY <1>9 DEF ExportTask, Lifecycle!Export
<1> QED BY <1>1, <1>2, <1>3, <1>4, <1>5, <1>6, <1>7, <1>8, <1>9 DEF Request

LEMMA RunLifecycle ==
  ASSUME TaskInv, Run
  PROVE  [Lifecycle!Next]_(Lifecycle!vars)
<1> USE DEF TaskInv, TypeOK, RunType, OperationFits, RunFits, RunningStatus, WorkingSteps, RunStep,
            Save
<1>1. CASE Dispatch \/ SkipRun \/ WorkSucceeds \/ WorkRaises \/ CheckCancelled \/ EmitFailure
  BY <1>1 DEF Dispatch, SkipRun, WorkSucceeds, WorkRaises, CheckCancelled, EmitFailure
<1>2. CASE RecordNothing \/ AfterRecord \/ AnnounceExtraction \/ JobReturns \/ JobRaises
  BY <1>2 DEF RecordNothing, Record, AfterRecord, AnnounceExtraction, JobReturns, JobRaises, EndRun
<1>3. CASE FailArchived
  BY <1>3 DEF FailArchived, Claimable, Lifecycle!Fail, Lifecycle!ActiveStatuses
<1>4. CASE ClaimTask BY <1>4 DEF ClaimTask, Claimable, Lifecycle!Generate
<1>5. CASE RecordInvalidEvidence
  BY <1>5 DEF RecordInvalidEvidence, Record, Lifecycle!AskForFacts
<1>6. CASE RecordFailedRevision
  BY <1>6 DEF RecordFailedRevision, Record, Lifecycle!Generated
<1>7. CASE RecordError
  BY <1>7 DEF RecordError, Record, StatusAfterError, Lifecycle!Fail, Lifecycle!Requeue,
              Lifecycle!ActiveStatuses
<1>8. CASE FinishExtraction BY <1>8 DEF FinishExtraction, Lifecycle!Extracted
<1>9. CASE FinishGeneration BY <1>9 DEF FinishGeneration, Lifecycle!Generated
<1> QED
  BY <1>1, <1>2, <1>3, <1>4, <1>5, <1>6, <1>7, <1>8, <1>9 DEF Run, RecordFailure

LEMMA WorkerLifecycle ==
  ASSUME StartWorker \/ TakeJob \/ ScheduleRetry \/ ReapAbandonedJob \/ Environment
  PROVE  \/ UNCHANGED <<status, operation>>
         \/ Lifecycle!Requeue
BY DEF StartWorker, TakeJob, ScheduleRetry, ReapAbandonedJob, Environment, StopWorker, CrashWorker,
       KillRun, DeliverStop, BecomeStale, EndRun, Lifecycle!Requeue

LEMMA NextLifecycle ==
  ASSUME "redis" \notin Faults
  PROVE  TaskInv /\ [Next]_vars => [Lifecycle!Next]_(Lifecycle!vars)
<1> SUFFICES ASSUME TaskInv, [Next]_vars PROVE [Lifecycle!Next]_(Lifecycle!vars)
  OBVIOUS
<1>1. CASE \E c \in Clients : Request(c) BY <1>1, RequestLifecycle
<1>2. CASE \E p \in Callers : Callback(p) BY <1>2, CallbackTaskInv
<1>3. CASE ToggleArchive \/ UNCHANGED vars BY <1>3 DEF ToggleArchive
<1>4. CASE StartWorker \/ TakeJob \/ ScheduleRetry \/ ReapAbandonedJob \/ Environment
  BY <1>4, WorkerLifecycle
<1>5. CASE Run BY <1>5, RunLifecycle
<1> QED BY <1>1, <1>2, <1>3, <1>4, <1>5 DEF Next

\* The task as requests, queue and worker handle it implements TaskLifecycle.
THEOREM TaskImplementsLifecycle ==
  ASSUME "redis" \notin Faults
  PROVE  Spec => LifecycleSpec
<1>1. Init => Lifecycle!Init BY DEF Init, Lifecycle!Init
<1>2. TaskInv /\ [Next]_vars => [Lifecycle!Next]_(Lifecycle!vars) BY NextLifecycle
<1> QED BY <1>1, <1>2, InvariantHolds, PTL DEF Spec, LifecycleSpec, Lifecycle!Spec

\* A stop is final.
THEOREM StopIsFinal ==
  ASSUME "redis" \notin Faults
  PROVE  Spec => CancelledIsFinal
<1>1. [Lifecycle!Next]_(Lifecycle!vars) => (status = "cancelled" => status' = "cancelled")
  BY DEF Lifecycle!StartExtraction, Lifecycle!Confirm, Lifecycle!StartGeneration, Lifecycle!Retry,
         Lifecycle!Cancel, Lifecycle!Submit, Lifecycle!Approve, Lifecycle!Export,
         Lifecycle!Extracted, Lifecycle!Generate, Lifecycle!Generated, Lifecycle!Requeue,
         Lifecycle!AskForFacts, Lifecycle!Fail, Lifecycle!ActiveStatuses
<1>2. TaskInv /\ [Next]_vars => [status = "cancelled" => status' = "cancelled"]_vars
  BY <1>1, NextLifecycle
<1> QED BY <1>2, InvariantHolds, PTL DEF Spec, CancelledIsFinal

-------------------------------------------------------------------------------

LEMMA RunLeavesPersonsAlone ==
  ASSUME TaskInv, Run, status \in PersonStatuses
  PROVE  status' = status
<1> USE DEF TaskInv, RunFits, RunningStatus, WorkingSteps, PersonStatuses, RunStep, Save
<1>1. CASE Dispatch \/ SkipRun \/ WorkSucceeds \/ WorkRaises \/ CheckCancelled \/ EmitFailure
  BY <1>1 DEF Dispatch, SkipRun, WorkSucceeds, WorkRaises, CheckCancelled, EmitFailure
<1>2. CASE AfterRecord \/ AnnounceExtraction \/ JobReturns \/ JobRaises
  BY <1>2 DEF AfterRecord, AnnounceExtraction, JobReturns, JobRaises, EndRun
<1>3. CASE FailArchived \/ ClaimTask BY <1>3 DEF FailArchived, ClaimTask, Claimable
<1>4. CASE RecordFailure
  BY <1>4 DEF RecordFailure, RecordNothing, RecordInvalidEvidence, RecordFailedRevision,
              RecordError, Record
<1>5. CASE FinishExtraction \/ FinishGeneration
  BY <1>5 DEF FinishExtraction, FinishGeneration
<1> QED BY <1>1, <1>2, <1>3, <1>4, <1>5 DEF Run

\* A request that changes the status of the task thereby ends its transaction.
LEMMA RequestsEnd ==
  ASSUME NEW c \in Clients, Request(c), TypeOK, status' # status
  PROVE  EndsRequest(c)
<1>1. c \in Callers OBVIOUS
<1> QED
  BY <1>1 DEF TypeOK, EndsRequest, Request, LoadTask, RejectRequest, PrepareFactConfirmation,
    ConfirmFacts, RequestGeneration, RetryTask, StopTask, DeleteTask, RegenerateSection,
    SubmitReview, ApproveTask, ExportTask, Commit, Save

\* What waits for a person is moved by a request only.
THEOREM WorkerLeavesPersonsAlone ==
  ASSUME "redis" \notin Faults
  PROVE  Spec => WorkerKeepsHands
<1>1. ASSUME TaskInv, [Next]_vars, status' # status, status \in PersonStatuses
      PROVE  \E c \in Clients : EndsRequest(c)
  <2>1. CASE \E c \in Clients : Request(c) BY <1>1, <2>1, RequestsEnd DEF TaskInv
  <2>2. CASE \E p \in Callers : Callback(p) BY <1>1, <2>2, CallbackTaskInv
  <2>3. CASE ToggleArchive \/ UNCHANGED vars BY <1>1, <2>3 DEF ToggleArchive
  <2>4. CASE StartWorker \/ TakeJob \/ ScheduleRetry \/ ReapAbandonedJob \/ Environment
    BY <1>1, <2>4, WorkerLifecycle DEF PersonStatuses, Lifecycle!Requeue
  <2>5. CASE Run BY <1>1, <2>5, RunLeavesPersonsAlone
  <2> QED BY <1>1, <2>1, <2>2, <2>3, <2>4, <2>5 DEF Next
<1>2. TaskInv /\ [Next]_vars
        => [status' # status /\ status \in PersonStatuses
              => \E c \in Clients : EndsRequest(c)]_vars
  BY <1>1
<1> QED BY <1>2, InvariantHolds, PTL DEF Spec, WorkerKeepsHands
=============================================================================
