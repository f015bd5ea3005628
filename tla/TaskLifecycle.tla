----------------------------- MODULE TaskLifecycle -----------------------------
(***************************************************************************)
(* What a document-generation task promises to the people who work with it *)
(* (apps/document_generation): the statuses of GenerationTask and the only *)
(* ways from one to the next, whatever queue, worker and requests do       *)
(* underneath.  GenerationTask.tla and SectionReview.tla implement it.     *)
(***************************************************************************)

VARIABLES
  status,     \* GenerationTask.status
  operation   \* GenerationTask.operation: which of its two jobs the task is at

vars == <<status, operation>>

Statuses ==
  {"draft", "extracting", "needs_confirmation", "ready", "queued", "generating",
   "review_required", "pending_approval", "approved", "exported", "failed", "cancelled"}

Operations == {"extract", "generate"}

\* ACTIVE_TASK_STATUSES: the task belongs to the queue and the worker.
ActiveStatuses == {"extracting", "queued", "generating"}

TypeOK == status \in Statuses /\ operation \in Operations

Init == status = "draft" /\ operation = "extract"

Move(from, to) == status \in from /\ status' = to

\* Where a job of the current operation waits for the worker.
QueuedStatus == IF operation = "extract" THEN "extracting" ELSE "queued"

-------------------------------------------------------------------------------
(* Steps of people. *)

StartExtraction == Move({"draft"}, "extracting") /\ operation' = "extract"

Confirm == Move({"needs_confirmation"}, "ready") /\ UNCHANGED operation

StartGeneration ==
  Move({"needs_confirmation", "ready", "review_required"}, "queued") /\ operation' = "generate"

Retry ==
  /\ Move({"failed"} \cup (IF operation = "extract" THEN {"needs_confirmation"} ELSE {}),
          QueuedStatus)
  /\ UNCHANGED operation

Cancel == Move(ActiveStatuses, "cancelled") /\ UNCHANGED operation

Submit == Move({"review_required"}, "pending_approval") /\ UNCHANGED operation

Approve == Move({"pending_approval"}, "approved") /\ UNCHANGED operation

Export ==
  Move({"review_required", "pending_approval", "approved"}, "exported") /\ UNCHANGED operation

-------------------------------------------------------------------------------
(* Steps of the worker. *)

Extracted == Move({"extracting"}, "needs_confirmation") /\ UNCHANGED operation

Generate == Move({"queued"}, "generating") /\ UNCHANGED operation

Generated == Move({"generating"}, "review_required") /\ UNCHANGED operation

Requeue == Move({"generating"}, "queued") /\ UNCHANGED operation

AskForFacts == Move({"generating"}, "needs_confirmation") /\ UNCHANGED operation

Fail == Move(ActiveStatuses, "failed") /\ UNCHANGED operation

-------------------------------------------------------------------------------

Next ==
  \/ StartExtraction \/ Confirm \/ StartGeneration \/ Retry \/ Cancel
  \/ Submit \/ Approve \/ Export
  \/ Extracted \/ Generate \/ Generated \/ Requeue \/ AskForFacts \/ Fail

Spec == Init /\ [][Next]_vars
=============================================================================
