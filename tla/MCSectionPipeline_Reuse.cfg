\* A run that may reuse the row of an earlier run.
SPECIFICATION PipelineSpec
CONSTANTS
  quantity = quantity
  remark = remark
  done = done
  twelve = twelve
  seven = seven
  Unknown = unknown
  Fields = {quantity, remark, done}
  Flags = {done}
  Marked = {remark}
  Planned = {quantity}
  Numbers = {twelve, seven}
  FieldNumbers <- FieldNumbersMC
  DraftItems <- DraftItemsMC
  References <- ReferencesMC
  Minimum = 2
  MaxRevisions = 2
  MaxRuns = 2
CHECK_DEADLOCK FALSE
INVARIANTS
  ValidRowsAreReused
