\* Runs that do not die, so a revision has to be answered; a chapter is registered
\* that the document does not have.
\* An exported or stopped task is at its end: no deadlock check.
SPECIFICATION FairSpec
CONSTANTS
  overview = overview
  measures = measures
  annex = annex
  e1 = e1
  e2 = e2
  nocode = nocode
  Outline <- TwoChapters
  Registered = {overview, measures, annex}
  Editors = {e1}
  NoCode = nocode
  MaxRetries = 2
  MaxStarts = 2
  MaxEdits = 2
  Crashes = FALSE
  Outages = FALSE
CHECK_DEADLOCK FALSE
PROPERTIES
  RevisionIsAnswered
