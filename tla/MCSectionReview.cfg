\* Two editors on two chapters, one retry, runs that die.
\* An exported or stopped task is at its end: no deadlock check.
SPECIFICATION Spec
CONSTANTS
  overview = overview
  measures = measures
  annex = annex
  e1 = e1
  e2 = e2
  nocode = nocode
  Outline <- TwoChapters
  Registered = {overview, measures}
  Editors = {e1, e2}
  NoCode = nocode
  MaxRetries = 1
  MaxStarts = 3
  MaxEdits = 3
  Crashes = TRUE
  Outages = TRUE
SYMMETRY EditorSymmetry
CHECK_DEADLOCK FALSE
INVARIANTS
  ReviewedTaskIsComplete
  LockedSectionsAreLeftAlone
PROPERTIES
  LockedTextStays
  EditSeesItsText
  SettledTextIsFrozen
