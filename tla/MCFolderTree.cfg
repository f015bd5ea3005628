\* Two requests at a time; see MCFolderTree for the projects and folders.
SPECIFICATION TreeSpec
CONSTANTS
  r1 = r1
  r2 = r2
  p1 = p1
  p2 = p2
  f0 = f0
  f1 = f1
  f2 = f2
  f3 = f3
  f4 = f4
  f5 = f5
  f6 = f6
  n1 = n1
  n2 = n2
  Nothing = Nothing
  Requests = {r1, r2}
  Projects = {p1, p2}
  Folders = {f0, f1, f2, f3, f4, f5, f6}
  YearRows = {f5, f6}
  Roots = {f0}
  ArchiveRoot = f0
  Names = {n1, n2}
  Standard = {n1}
  Years = {n2}
SYMMETRY TreeSymmetry
INVARIANTS
  SiblingNamesAreUnique
  ProjectTreesAreTrees
  ArchiveMatchesStatus
PROPERTIES
  UnarchivingRestoresTree
