\* Two requests at a time, two documents, two files, one grant.
\* The ids of the bounds are used up in the end.
CHECK_DEADLOCK FALSE
SPECIFICATION Spec
CONSTANTS
  r1 = r1
  r2 = r2
  d1 = d1
  d2 = d2
  f1 = f1
  f2 = f2
  t1 = t1
  t2 = t2
  p1 = p1
  p2 = p2
  g1 = g1
  Nothing = Nothing
  Requests = {r1, r2}
  Docs = {d1, d2}
  Folders = {f1, f2}
  Titles = {t1, t2}
  Files = {p1, p2}
  Grants = {g1}
  MaxDownloads = 1
SYMMETRY StoreSymmetry
INVARIANTS
  TypeOK
  TitlesAreUnique
  VersionsHaveFiles
  FilesAreAccountedFor
PROPERTIES
  NoLostUpdate
  GrantsEndWithDocument
  DownloadsAreAllowed
