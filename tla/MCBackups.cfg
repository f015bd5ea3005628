\* Three backups.  One is over before the others begin, or has died and left its lock; of the
\* others any may fail at any step, and one may die if the first has not.  Uploads, a
\* deletion at a time and a restoration go on meanwhile.  The instance stops when its
\* backups and its file are used up: that is no deadlock of the program.
SPECIFICATION MCSpec
CONSTANTS
  b1 = b1
  b2 = b2
  b3 = b3
  q1 = q1
  a1 = a1
  Nothing = Nothing
  Backups = {b1, b2, b3}
  Earlier = b3
  Deletions = {q1}
  Files = {a1}
  MaxCrashes = 1
CHECK_DEADLOCK FALSE
INVARIANTS
  AtMostOneBackup
  BackupsAreComplete
  AnArchiveRemains
PROPERTIES
  LockIsNotForEver
