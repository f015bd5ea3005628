----------------------------- MODULE WorkflowTrace -----------------------------
(***************************************************************************)
(* The events of one task: TaskWorkflowRecorder.emit writes them under the  *)
(* lock on the task's row, numbers them and moves the progress; the page    *)
(* polls for those above the last number it has; a stop makes every other   *)
(* writer give up.  A worker that has been stopped may still be running     *)
(* when the task is started again, so there may be several writers.         *)
(***************************************************************************)
EXTENDS Naturals, Sequences, FiniteSets

CONSTANTS
  Writers,      \* jobs that write events of the task
  TopStage,     \* stages with a progress are 1 .. TopStage, later is higher
  PageSize,     \* rows of one answer of the events endpoint
  MaxEvents,    \* bound: events of the task
  MaxStarts     \* bound: times the task is started again

ASSUME TraceAssumption ==
  /\ TopStage \in Nat /\ PageSize \in Nat \ {0} /\ MaxEvents \in Nat /\ MaxStarts \in Nat

VARIABLES
  events,     \* committed rows in the order of their commits
  emitting,   \* per writer: the event of its open transaction, or none
  taskLine,   \* the task: stopped, progress, times started, cancel event owed
  page,       \* the poller: after_sequence and the numbers it has shown
  refused     \* history: an event was refused by docgen_trace_task_seq_uq

traceVars == <<events, emitting, taskLine, page, refused>>

NoEvent == [sequence |-> 0, cancel |-> FALSE, progress |-> 0, locked |-> FALSE]
RowLocked == \E w \in Writers : emitting[w].locked
Highest == IF events = <<>> THEN 0
           ELSE CHOOSE n \in {events[i].sequence : i \in DOMAIN events} :
                  \A i \in DOMAIN events : events[i].sequence <= n

-------------------------------------------------------------------------------
(* Writers *)

TraceInit ==
  /\ events = <<>>
  /\ emitting = [w \in Writers |-> NoEvent]
  /\ taskLine = [stopped |-> FALSE, progress |-> 0, starts |-> 0, owed |-> FALSE]
  /\ page = [after |-> 0, shown |-> {}]
  /\ refused = FALSE

\* The row a writer is about to insert: Max("sequence") + 1 and, unless the event is
\* a failure or lower, the progress of its stage.
Prepare(w, stage, locked) ==
  emitting' = [emitting EXCEPT ![w] =
                 [sequence |-> Highest + 1, cancel |-> FALSE, locked |-> locked,
                  progress |-> IF stage > taskLine.progress THEN stage ELSE taskLine.progress]]

\* Not the code: emit without select_for_update.
BeginUnlocked(w) ==
  /\ emitting[w] = NoEvent /\ ~taskLine.stopped /\ Len(events) < MaxEvents
  /\ \E stage \in 0 .. TopStage : Prepare(w, stage, FALSE)
  /\ UNCHANGED <<events, taskLine, page, refused>>

\* emit up to the insert; TaskExecutionCancelled if the task has been stopped.
BeginEmit(w) ==
  /\ emitting[w] = NoEvent /\ ~RowLocked
  /\ ~taskLine.stopped /\ Len(events) < MaxEvents
  /\ \E stage \in 0 .. TopStage : Prepare(w, stage, TRUE)
  /\ UNCHANGED <<events, taskLine, page, refused>>

\* The transaction commits: the row, and the progress with it.
CommitEmit(w) ==
  /\ emitting[w] # NoEvent
  /\ IF \E i \in DOMAIN events : events[i].sequence = emitting[w].sequence
       THEN refused' = TRUE /\ UNCHANGED <<events, taskLine>>
       ELSE /\ events' = Append(events, [emitting[w] EXCEPT !.locked = FALSE])
            /\ taskLine' = [taskLine EXCEPT !.progress = emitting[w].progress]
            /\ UNCHANGED refused
  /\ emitting' = [emitting EXCEPT ![w] = NoEvent]
  /\ UNCHANGED page

\* An emit within a larger transaction that fails.
AbortEmit(w) ==
  /\ emitting[w] # NoEvent
  /\ emitting' = [emitting EXCEPT ![w] = NoEvent]
  /\ UNCHANGED <<events, taskLine, page, refused>>

-------------------------------------------------------------------------------
(* The user *)

\* stop_generation_task; its event is emitted after the commit.
StopTrace ==
  /\ ~RowLocked /\ ~taskLine.stopped
  /\ taskLine' = [taskLine EXCEPT !.stopped = TRUE, !.owed = TRUE]
  /\ UNCHANGED <<events, emitting, page, refused>>

\* _finish_stopping_generation_task
EmitCancel ==
  /\ ~RowLocked /\ taskLine.owed
  /\ events' = Append(events, [sequence |-> Highest + 1, cancel |-> TRUE, locked |-> FALSE,
                               progress |-> taskLine.progress])
  /\ taskLine' = [taskLine EXCEPT !.owed = FALSE]
  /\ UNCHANGED <<emitting, page, refused>>

\* retry_generation_task: the progress begins again.
StartAgain ==
  /\ ~RowLocked /\ taskLine.stopped /\ taskLine.starts < MaxStarts
  /\ taskLine' = [taskLine EXCEPT !.stopped = FALSE, !.progress = 0, !.starts = @ + 1]
  /\ UNCHANGED <<events, emitting, page, refused>>

\* GET events/?after_sequence=N: a page of the committed rows above N, in order.
PollEvents ==
  LET above == {n \in {events[i].sequence : i \in DOMAIN events} : n > page.after}
      first == {n \in above : Cardinality({m \in above : m < n}) < PageSize}
  IN /\ above # {}
     /\ page' = [after |-> CHOOSE n \in first : \A m \in first : m <= n,
                 shown |-> page.shown \cup first]
     /\ UNCHANGED <<events, emitting, taskLine, refused>>

TraceNext ==
  \/ \E w \in Writers : BeginEmit(w) \/ CommitEmit(w) \/ AbortEmit(w)
  \/ StopTrace \/ EmitCancel \/ StartAgain \/ PollEvents

TraceSpec == TraceInit /\ [][TraceNext]_traceVars

-------------------------------------------------------------------------------
(* Properties *)

\* workflow_events.emit, docgen_trace_task_seq_uq: no two writers draw the same number,
\* and a reader that asks for what is above its last number has seen all below it.
EveryEventIsShown ==
  /\ ~refused
  /\ \A i \in DOMAIN events : events[i].sequence <= page.after => events[i].sequence \in page.shown

\* "用户主动停止，会话不会继续生成或进入审核": while the task is stopped the only event it
\* gets is that of the stop, and its progress stands still.
StoppedTaskIsSilent ==
  [][taskLine.stopped /\ taskLine'.stopped =>
       /\ taskLine'.progress = taskLine.progress
       /\ events' # events => events'[Len(events')].cancel]_traceVars
===============================================================================
