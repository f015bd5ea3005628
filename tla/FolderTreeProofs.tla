--------------------------- MODULE FolderTreeProofs ---------------------------
(***************************************************************************)
(* Proofs about FolderTree: the rows that a request has locked, its project *)
(* and the parent of its folder, keep the tree as the checks have seen it   *)
(* until the request writes, so siblings have different names, the folders  *)
(* of a project are trees, and archiving keeps what unarchiving gives back. *)
(***************************************************************************)
EXTENDS FolderTree, FiniteSetTheorems, TLAPS

-------------------------------------------------------------------------------
(* The invariant *)

\* The system roots stay. A container is of a project and a folder of the year of none, only
\* where a user was can another folder have the code of the container, an id without a row is
\* of no project, and a project that is not there has no folders.
RowsFit ==
  /\ \A f \in Folders : folder[f].kind = "root" <=> f \in Roots
  /\ \A f \in Roots : folder[f].name = f
  /\ \A f \in Folders : folder[f].kind \in {"absent", "year"} => folder[f].project = Nothing
  /\ \A f \in Folders : folder[f].kind = "container" => folder[f].project # Nothing
  /\ \A f \in Folders : folder[f].project \in Projects \ astray =>
       (folder[f].coded <=> folder[f].kind = "container")
  /\ \A p \in Projects : status[p] = "absent" => FoldersOf(p) = {}

\* A locked row is there, and one request has it.
LocksFit ==
  /\ \A c \in Requests : request[c].step = "idle" => request[c].held = {}
  /\ \A c \in Requests : \A row \in request[c].held : Exists(row)
  /\ \A b, c \in Requests : b # c => request[b].held \cap request[c].held = {}

\* f is no ancestor of parent: the ancestors of the project are among the folders S without f.
Apart(p, f, parent) ==
  \E S \in SUBSET FoldersOf(p) :
    /\ parent \in S \cup {Nothing} /\ f \notin S
    /\ \A g \in S : folder[g].parent \in S \/ folder[g].parent \notin FoldersOf(p)

\* What the checks have found is still so, because the project is locked.
CreateReady(r) ==
  /\ {r.project, r.parent} \ {Nothing} \subseteq r.held
  /\ r.project # Nothing => /\ status[r.project] = "active"
                            /\ NameIsFree(r.project, r.parent, r.name, Nothing)
  /\ r.parent # Nothing => folder[r.parent].project = r.project

UpdateReady(r) ==
  LET own == folder[r.folder] IN
  /\ r.folder \in r.held /\ r.folder \notin Roots
  /\ own.project # Nothing =>
       /\ own.project \in r.held /\ status[own.project] = "active"
       /\ r.name # Nothing => NameIsFree(own.project, own.parent, r.name, r.folder)

MoveReady(r) ==
  LET own == folder[r.folder] IN
  /\ r.folder \in r.held /\ r.folder \notin Roots
  /\ own.project = Nothing => r.parent # Nothing
  /\ r.parent # Nothing => r.parent \in r.held /\ folder[r.parent].project = own.project
  /\ own.project # Nothing => /\ own.project \in r.held /\ status[own.project] = "active"
                              /\ NameIsFree(own.project, r.parent, own.name, r.folder)
                              /\ Apart(own.project, r.folder, r.parent)

ArchiveReady(r) ==
  /\ r.project \in r.held
  /\ Containers(r.project) = {r.container} \ {Nothing}
  /\ r.year # Nothing => r.year \in Present /\ r.year \notin Roots /\ folder[r.year].project = Nothing

UnarchiveReady(r) ==
  r.container \in Present =>
    /\ folder[r.container].project = r.project
    /\ r.project \notin astray => folder[r.container].kind = "container"

RequestFits(r) ==
  /\ r.step # "idle" =>
       /\ r.op = "create" => r.name \in Names /\ (r.parent # Nothing \/ r.project # Nothing)
       /\ r.op \in {"update", "move", "disable"} => r.folder \in Folders
       /\ r.op \in {"archive", "unarchive", "delete"} => r.project \in Projects
       /\ r.op = "archive" => r.yearName \in Years
  /\ r.step = "write" =>
       /\ r.op = "create"    => CreateReady(r)
       /\ r.op = "update"    => UpdateReady(r)
       /\ r.op = "move"      => MoveReady(r)
       /\ r.op = "archive"   => ArchiveReady(r)
       /\ r.op = "unarchive" => UnarchiveReady(r)

\* SiblingNamesAreUnique for the folders of a project
SiblingsDiffer(p) ==
  \A f, g \in Active \cap FoldersOf(p) :
    folder[f].parent = folder[g].parent /\ folder[f].name = folder[g].name => f = g

\* The tree of an archived project as it was before archiving hung it up
TreeBefore(p) ==
  {<<f, IF folder[f].parent \in Containers(p) THEN Nothing ELSE folder[f].parent, folder[f].name>> :
     f \in {g \in FoldersOf(p) : folder[g].kind = "folder"}}

\* ArchiveMatchesStatus without Cardinality, what unarchiving needs, and the rest.
ProjectFits(p) ==
  /\ IsForest(FoldersOf(p))
  /\ p \notin astray =>
       /\ status[p] = "archived" => /\ \E f \in Folders : Containers(p) = {f}
                                    /\ TopLevel(p) = {}
                                    /\ kept[p] = TreeBefore(p)
       /\ status[p] # "archived" => Containers(p) = {}
       /\ SiblingsDiffer(p)

TreeInv ==
  /\ TypeOK /\ RowsFit /\ LocksFit
  /\ \A c \in Requests : RequestFits(request[c])
  /\ \A p \in Projects : ProjectFits(p)

-------------------------------------------------------------------------------
(* Requests                                                                   *)

\* Idle is a row of a request and knows nothing.
LEMMA IdleFits == Idle \in RequestType /\ Idle.step = "idle" /\ Idle.held = {} /\ RequestFits(Idle)
  BY DEF Idle, RequestType, OrNothing, Ops, RequestFits

\* A row of the initial tree: a system root, or none.
LEMMA FirstRow ==
  ASSUME Init, NEW f \in Folders
  PROVE  /\ folder[f] \in FolderType /\ folder[f].parent = Nothing /\ folder[f].project = Nothing
         /\ folder[f].kind = IF f \in Roots THEN "root" ELSE "absent"
         /\ f \in Roots => folder[f].name = f
  <1>1. NoFolder \in FolderType
    BY DEF NoFolder, FolderType, FolderName, OrNothing
  <1>2. folder[f] = IF f \in Roots THEN [NoFolder EXCEPT !.kind = "root", !.name = f, !.active = TRUE]
                                   ELSE NoFolder
    BY DEF Init
  <1>3. CASE f \in Roots
    <2>1. folder[f] = [kind |-> "root", project |-> Nothing, parent |-> Nothing, name |-> f,
                       coded |-> FALSE, active |-> TRUE]
      BY <1>2, <1>3 DEF NoFolder
    <2> QED
      BY <2>1, <1>3 DEF FolderType, FolderName, OrNothing
  <1>4. CASE f \notin Roots
    BY <1>1, <1>2, <1>4 DEF NoFolder
  <1> QED
    BY <1>3, <1>4

\* The system starts with its roots and without projects.
LEMMA TreeStarts == Init /\ TreeAssumption => TreeInv
  <1> SUFFICES ASSUME Init, TreeAssumption PROVE TreeInv
    OBVIOUS
  <1>0. \A f \in Folders : /\ folder[f] \in FolderType /\ folder[f].parent = Nothing
                           /\ folder[f].project = Nothing /\ folder[f].kind \in {"root", "absent"}
    BY FirstRow
  <1>1. /\ \A p \in Projects : FoldersOf(p) = {} /\ status[p] = "absent" /\ kept[p] = {}
        /\ \A c \in Requests : request[c] = Idle
    <2>1. \A p \in Projects : FoldersOf(p) = {}
      BY <1>0 DEF TreeAssumption, FoldersOf, Present
    <2> QED
      BY <2>1 DEF Init
  <1>2. TypeOK
    <2>1. ParentsMatch
      BY <1>0 DEF ParentsMatch, Present
    <2>2. folder \in [Folders -> FolderType]
      BY <1>0 DEF Init
    <2>3. request \in [Requests -> RequestType]
      BY IdleFits DEF Init
    <2> QED
      BY <2>1, <2>2, <2>3 DEF TypeOK, Init
  <1>3. RowsFit
    <2>1. \A f \in Folders : folder[f].project \notin Projects
      BY <1>0 DEF TreeAssumption
    <2> QED
      BY <1>0, <1>1, <2>1, FirstRow DEF RowsFit, TreeAssumption
  <1>4. LocksFit /\ \A c \in Requests : RequestFits(request[c])
    BY <1>1, IdleFits DEF LocksFit
  <1>5. \A p \in Projects : ProjectFits(p)
    BY <1>1 DEF ProjectFits, Containers, IsForest, SiblingsDiffer
  <1> QED
    BY <1>2, <1>3, <1>4, <1>5 DEF TreeInv

\* What a request knows does not change with the other requests.
LEMMA KnowledgeStays ==
  ASSUME NEW c \in Requests, RequestFits(request'[c]), UNCHANGED <<folder, status, astray>>
  PROVE  RequestFits(request[c])'
  <1> PICK r : r = request'[c]
    OBVIOUS
  <1>1. folder' = folder /\ status' = status /\ astray' = astray
    OBVIOUS
  <1>2. Present' = Present /\ Active' = Active
    BY <1>1 DEF Present, Active
  <1>3. \A p : FoldersOf(p)' = FoldersOf(p) /\ Containers(p)' = Containers(p)
    BY <1>1 DEF Present, FoldersOf, Containers
  <1>4. \A p, x, n, f : NameIsFree(p, x, n, f)' <=> NameIsFree(p, x, n, f)
    BY <1>1 DEF NameIsFree, Active, Present
  <1>5. \A p, f, x : Apart(p, f, x)' <=> Apart(p, f, x)
    BY <1>1, <1>3 DEF Apart
  <1>6. (CreateReady(r) => CreateReady(request[c])') /\ (UpdateReady(r) => UpdateReady(request[c])')
    BY <1>1, <1>4 DEF CreateReady, UpdateReady
  <1>7. MoveReady(r) => MoveReady(request[c])'
    BY <1>1, <1>4, <1>5 DEF MoveReady
  <1>8. (ArchiveReady(r) => ArchiveReady(request[c])') /\ (UnarchiveReady(r) => UnarchiveReady(request[c])')
    BY <1>1, <1>2, <1>3 DEF ArchiveReady, UnarchiveReady
  <1> QED
    BY <1>1, <1>6, <1>7, <1>8 DEF RequestFits

\* A step that moves one request and nothing else.
LEMMA RequestMoves ==
  ASSUME TreeInv, NEW c \in Requests, NEW r \in RequestType,
         request' = [request EXCEPT ![c] = r], UNCHANGED <<folder, status, kept, astray>>,
         RequestFits(r),
         r.step = "idle" => r.held = {},
         \A row \in r.held : Exists(row) /\ ~HeldByOther(c, row)
  PROVE  TreeInv'
  <1> USE DEF TreeInv
  <1>1. request' \in [Requests -> RequestType] /\ request'[c] = r
        /\ \A b \in Requests : b # c => request'[b] = request[b]
    BY DEF TypeOK
  <1>2. TypeOK'
    BY <1>1 DEF TypeOK, ParentsMatch, Present
  <1>3. RowsFit' /\ \A p \in Projects : ProjectFits(p)'
    BY DEF RowsFit, ProjectFits, TreeBefore, IsForest, SiblingsDiffer, Active, Present, Containers,
           TopLevel, FoldersOf
  <1>4. LocksFit'
    BY <1>1 DEF LocksFit, Exists, Present, HeldByOther
  <1>5. ASSUME NEW b \in Requests PROVE RequestFits(request[b])'
    <2>1. RequestFits(request'[b])
      BY <1>1
    <2> QED
      BY <2>1, KnowledgeStays
  <1> QED
    BY <1>2, <1>3, <1>4, <1>5

\* What a new request knows.
LEMMA NewRequest ==
  ASSUME NEW op \in Ops
  PROVE  /\ Locking(op) \in RequestType
         /\ Locking(op).step = "lock" /\ Locking(op).op = op /\ Locking(op).held = {}
         /\ Locking(op).parent = Nothing /\ Locking(op).project = Nothing
  <1>1. Idle \in RequestType /\ Idle.held = {} /\ Idle.parent = Nothing /\ Idle.project = Nothing
    BY IdleFits DEF Idle
  <1>2. Locking(op) = [Idle EXCEPT !.step = "lock", !.op = op]
    BY DEF Locking
  <1> QED
    BY <1>1, <1>2 DEF RequestType

LEMMA StartFits ==
  ASSUME TreeInv, NEW c \in Requests, NEW r \in RequestType, Start(c, r),
         r.step = "lock", r.held = {}, RequestFits(r)
  PROVE  TreeInv'
  BY RequestMoves DEF Start

LEMMA BeginCreateFits ==
  ASSUME TreeInv, NEW c \in Requests, BeginCreate(c) PROVE TreeInv'
  <1> DEFINE t == Locking("create")
  <1>0. t \in RequestType /\ t.step = "lock" /\ t.held = {} /\ t.op = "create"
    BY NewRequest DEF Ops
  <1>1. ASSUME NEW n \in Names, NEW code \in {"container", "other"}, NEW f \in Present,
               Start(c, [t EXCEPT !.parent = f, !.project = folder[f].project, !.name = n, !.code = code])
        PROVE  TreeInv'
    <2>1. f \in Folders /\ folder[f].project \in OrNothing(Projects) /\ f # Nothing
      BY TreeAssumption DEF Present, TreeInv, TypeOK, FolderType, OrNothing
    <2>2. PICK p \in OrNothing(Projects) : p = folder[f].project
      BY <2>1
    <2> HIDE DEF t
    <2> DEFINE r == [t EXCEPT !.parent = f, !.project = p, !.name = n, !.code = code]
    <2>3. /\ r \in RequestType /\ r.step = "lock" /\ r.held = {} /\ r.op = "create"
          /\ r.parent = f /\ r.name = n
      BY <1>0, <2>1 DEF RequestType, OrNothing
    <2>4. RequestFits(r)
      BY <2>1, <2>3 DEF RequestFits
    <2>5. Start(c, r)
      BY <1>1, <2>2
    <2> HIDE DEF r
    <2> QED
      BY <2>3, <2>4, <2>5, StartFits
  <1>2. ASSUME NEW n \in Names, NEW code \in {"container", "other"}, NEW p \in Projects,
               Start(c, [t EXCEPT !.project = p, !.name = n, !.code = code])
        PROVE  TreeInv'
    <2> HIDE DEF t
    <2> DEFINE r == [t EXCEPT !.project = p, !.name = n, !.code = code]
    <2>1. /\ r \in RequestType /\ r.step = "lock" /\ r.held = {} /\ r.op = "create"
          /\ r.project = p /\ p # Nothing /\ r.name = n
      BY <1>0, TreeAssumption DEF RequestType, OrNothing
    <2>2. RequestFits(r)
      BY <2>1 DEF RequestFits
    <2>3. Start(c, r)
      BY <1>2
    <2> HIDE DEF r
    <2> QED
      BY <2>1, <2>2, <2>3, StartFits
  <1> QED
    BY <1>1, <1>2 DEF BeginCreate

LEMMA BeginChangeFits ==
  ASSUME TreeInv, NEW c \in Requests, BeginChange(c) PROVE TreeInv'
  <1>1. ASSUME NEW f \in Active, NEW n \in OrNothing(Names), NEW code \in {"container", "other", "none"},
               Start(c, [Locking("update") EXCEPT !.folder = f, !.name = n, !.code = code])
        PROVE  TreeInv'
    <2> DEFINE t == Locking("update")
    <2>0. /\ t \in RequestType /\ t.step = "lock" /\ t.held = {} /\ t.op = "update"
          /\ f \in Folders
      BY NewRequest DEF Ops, Active, Present
    <2> HIDE DEF t
    <2> DEFINE r == [t EXCEPT !.folder = f, !.name = n, !.code = code]
    <2>1. /\ r \in RequestType /\ r.step = "lock" /\ r.held = {} /\ r.op = "update"
          /\ r.folder = f
      BY <2>0 DEF RequestType, OrNothing
    <2>2. RequestFits(r)
      BY <2>0, <2>1 DEF RequestFits
    <2>3. Start(c, r)
      BY <1>1 DEF t
    <2> HIDE DEF r
    <2> QED
      BY <2>1, <2>2, <2>3, StartFits
  <1>2. ASSUME NEW f \in Active, NEW g \in OrNothing(Active),
               Start(c, [Locking("move") EXCEPT !.folder = f, !.parent = g])
        PROVE  TreeInv'
    <2> DEFINE t == Locking("move")
    <2>0. /\ t \in RequestType /\ t.step = "lock" /\ t.held = {} /\ t.op = "move"
          /\ f \in Folders /\ g \in OrNothing(Folders)
      BY NewRequest DEF Ops, OrNothing, Active, Present
    <2> HIDE DEF t
    <2> DEFINE r == [t EXCEPT !.folder = f, !.parent = g]
    <2>1. /\ r \in RequestType /\ r.step = "lock" /\ r.held = {} /\ r.op = "move"
          /\ r.folder = f
      BY <2>0 DEF RequestType, OrNothing
    <2>2. RequestFits(r)
      BY <2>0, <2>1 DEF RequestFits
    <2>3. Start(c, r)
      BY <1>2 DEF t
    <2> HIDE DEF r
    <2> QED
      BY <2>1, <2>2, <2>3, StartFits
  <1> QED
    BY <1>1, <1>2 DEF BeginChange

LEMMA BeginDisableFits ==
  ASSUME TreeInv, NEW c \in Requests, BeginDisable(c) PROVE TreeInv'
  <1> PICK f \in Active : Start(c, [Locking("disable") EXCEPT !.folder = f])
    BY DEF BeginDisable
  <1> DEFINE r == [Locking("disable") EXCEPT !.folder = f]
  <1>1. /\ r \in RequestType /\ r.step = "lock" /\ r.held = {} /\ r.op = "disable"
        /\ r.folder = f /\ f \in Folders
    BY NewRequest DEF Ops, RequestType, OrNothing, Active, Present
  <1>2. RequestFits(r)
    BY <1>1 DEF RequestFits
  <1>3. Start(c, r)
    OBVIOUS
  <1> HIDE DEF r
  <1> QED
    BY <1>1, <1>2, <1>3, StartFits

LEMMA BeginProjectFits ==
  ASSUME TreeInv, NEW c \in Requests, BeginProject(c) PROVE TreeInv'
  <1>1. ASSUME NEW op \in {"archive", "unarchive", "delete"}, NEW p \in Projects,
               NEW r, r = [Locking(op) EXCEPT !.project = p]
                      \/ \E y \in Years : r = [Locking(op) EXCEPT !.project = p, !.yearName = y],
               op = "archive" => r.yearName \in Years,
               Start(c, r)
        PROVE  TreeInv'
    <2> DEFINE t == Locking(op)
    <2>1. t \in RequestType /\ t.step = "lock" /\ t.held = {} /\ t.op = op
      BY NewRequest DEF Ops
    <2>2. r \in RequestType /\ r.step = "lock" /\ r.held = {} /\ r.op = op /\ r.project = p
      <3>1. \/ r = [t EXCEPT !.project = p]
            \/ \E y \in Years : r = [t EXCEPT !.project = p, !.yearName = y]
        BY <1>1
      <3> HIDE DEF t
      <3> QED
        BY <2>1, <3>1 DEF RequestType, OrNothing
    <2>3. RequestFits(r)
      BY <2>2, <1>1 DEF RequestFits
    <2> QED
      BY <1>1, <2>2, <2>3, StartFits
  <1>2. ASSUME NEW p \in Projects, NEW y \in Years,
               Start(c, [Locking("archive") EXCEPT !.project = p, !.yearName = y])
        PROVE  TreeInv'
    <2>1. [Locking("archive") EXCEPT !.project = p, !.yearName = y].yearName \in Years
      BY NewRequest DEF Ops
    <2> QED
      BY <1>1, <1>2, <2>1
  <1>3. ASSUME NEW p \in Projects, NEW op \in {"unarchive", "delete"},
               Start(c, [Locking(op) EXCEPT !.project = p])
        PROVE  TreeInv'
    BY <1>1, <1>3
  <1> QED
    BY <1>2, <1>3 DEF BeginProject

LEMMA LockRowFits ==
  ASSUME TreeInv, NEW c \in Requests, LockRow(c) PROVE TreeInv'
  <1> DEFINE t == request[c]
  <1>1. t \in RequestType /\ t.step = "lock" /\ RequestFits(t)
    BY DEF TreeInv, TypeOK, LockRow
  <1>2. PICK row \in Folders \cup Projects :
          /\ Exists(row) /\ ~HeldByOther(c, row)
          /\ request' = [request EXCEPT ![c].held = t.held \cup {row}]
    BY DEF LockRow, Exists, Present
  <1>3. UNCHANGED <<folder, status, kept, astray>>
    BY DEF LockRow
  <1> DEFINE r == [t EXCEPT !.held = t.held \cup {row}]
  <1>4. request' = [request EXCEPT ![c] = r]
    BY <1>2
  <1>5. \A x \in t.held : Exists(x) /\ ~HeldByOther(c, x)
    BY DEF TreeInv, LocksFit, HeldByOther
  <1> HIDE DEF t
  <1>7. /\ r \in RequestType /\ r.step = "lock" /\ r.held = t.held \cup {row} /\ r.op = t.op
        /\ r.folder = t.folder /\ r.parent = t.parent /\ r.name = t.name /\ r.project = t.project
        /\ r.yearName = t.yearName
    BY <1>1 DEF RequestType
  <1>8. RequestFits(r)
    BY <1>1, <1>7 DEF RequestFits
  <1> HIDE DEF r
  <1> QED
    BY <1>1, <1>2, <1>3, <1>4, <1>5, <1>7, <1>8, RequestMoves

LEMMA FailFits ==
  ASSUME TreeInv, NEW c \in Requests, Fail(c) PROVE TreeInv'
  BY IdleFits, RequestMoves DEF Fail, Finish

\* The rows that a request has locked when its locks suffice.
LEMMA RowsAreLocked ==
  ASSUME NEW c \in Requests, HasLocks(c)
  PROVE  LET r == request[c] IN
         /\ r.op = "create" => {r.project, r.parent} \ {Nothing} \subseteq r.held
         /\ r.op = "update" =>
              {r.folder, folder[r.folder].project, folder[r.folder].parent} \ {Nothing} \subseteq r.held
         /\ r.op = "move" =>
              {r.folder, folder[r.folder].project, r.parent} \ {Nothing} \subseteq r.held
         /\ r.op \in {"archive", "delete"} => {r.project} \ {Nothing} \subseteq r.held
  <1>1. /\ \A a : ToSet(<<a>>) = {a}
        /\ \A a, b : ToSet(<<a, b>>) = {a, b}
        /\ \A a, b, d : ToSet(<<a, b, d>>) = {a, b, d}
        /\ \A a, b, d, e : ToSet(<<a, b, d, e>>) = {a, b, d, e}
    BY DEF ToSet
  <1>2. ToSet(Rows(request[c])) \ {Nothing} \subseteq request[c].held
    BY DEF HasLocks, ToLock
  <1>3. CASE request[c].op = "create"
    BY <1>1, <1>2, <1>3 DEF Rows
  <1>4. CASE request[c].op = "update"
    BY <1>1, <1>2, <1>4 DEF Rows
  <1>5. CASE request[c].op = "move"
    BY <1>1, <1>2, <1>5 DEF Rows
  <1>6. CASE request[c].op \in {"archive", "delete"}
    BY <1>1, <1>2, <1>6 DEF Rows
  <1> QED
    BY <1>3, <1>4, <1>5, <1>6

\* _is_descendant: what is no ancestor is apart from the folders above.
LEMMA NotBelowIsApart ==
  ASSUME NEW p \in Projects, NEW f \in Folders,
         NEW parent \in FoldersOf(p) \cup {Nothing}, NotBelow(f, parent)
  PROVE  Apart(p, f, parent)
  <1>1. CASE parent = Nothing
    <2> DEFINE S == {}
    <2>1. S \in SUBSET FoldersOf(p) /\ parent \in S \cup {Nothing} /\ f \notin S
          /\ \A g \in S : folder[g].parent \in S \/ folder[g].parent \notin FoldersOf(p)
      BY <1>1
    <2> HIDE DEF S
    <2> QED
      BY <2>1 DEF Apart
  <1>2. CASE parent # Nothing
    <2>1. PICK S \in SUBSET Folders :
            /\ parent \in S /\ f \notin S
            /\ \A g \in S : folder[g].parent \in S \cup {Nothing}
      BY <1>2 DEF NotBelow, Ancestry
    <2> DEFINE T == S \cap FoldersOf(p)
    <2>2. \A g \in T : folder[g].parent \in T \/ folder[g].parent \notin FoldersOf(p)
      BY <2>1, TreeAssumption DEF FoldersOf, Present
    <2>3. T \in SUBSET FoldersOf(p) /\ parent \in T /\ f \notin T
      BY <1>2, <2>1
    <2> QED
      BY <2>2, <2>3 DEF Apart
  <1> QED
    BY <1>1, <1>2

\* The checks passed with the locks: the request is ready to write.
LEMMA CreateChecked ==
  ASSUME TreeInv, NEW c \in Requests, HasLocks(c), request[c].op = "create", Consistent(request[c])
  PROVE  CreateReady(request[c])
  <1> DEFINE r == request[c]
  <1>1. {r.project, r.parent} \ {Nothing} \subseteq r.held
    BY RowsAreLocked
  <1>2. /\ Writable(r.project) /\ ParentFits(r.project, r.parent)
        /\ NameIsFree(r.project, r.parent, r.name, Nothing)
    BY DEF Consistent
  <1> QED
    BY <1>1, <1>2 DEF CreateReady, Writable, ParentFits

LEMMA UpdateChecked ==
  ASSUME TreeInv, NEW c \in Requests, HasLocks(c), request[c].op = "update", Consistent(request[c])
  PROVE  UpdateReady(request[c])
  <1> DEFINE r == request[c]
             own == folder[r.folder]
  <1>1. {r.folder, own.project, own.parent} \ {Nothing} \subseteq r.held
    BY RowsAreLocked
  <1>2. r.folder \in Folders /\ r.folder # Nothing
    BY TreeAssumption DEF TreeInv, RequestFits, HasLocks
  <1>3. /\ r.folder \notin Roots /\ Writable(own.project)
        /\ r.name # Nothing => NameIsFree(own.project, own.parent, r.name, r.folder)
    BY <1>2 DEF Consistent, TreeInv, RowsFit
  <1> QED
    BY <1>1, <1>2, <1>3 DEF UpdateReady, Writable

LEMMA MoveChecked ==
  ASSUME TreeInv, NEW c \in Requests, HasLocks(c), request[c].op = "move", Consistent(request[c])
  PROVE  MoveReady(request[c])
  <1> DEFINE r == request[c]
             own == folder[r.folder]
  <1>1. {r.folder, own.project, r.parent} \ {Nothing} \subseteq r.held
    BY RowsAreLocked
  <1>2. r.folder \in Folders /\ r.folder # Nothing
    BY TreeAssumption DEF TreeInv, RequestFits, HasLocks
  <1>3. /\ r.folder \notin Roots /\ Writable(own.project)
        /\ own.project = Nothing => r.parent # Nothing
        /\ ParentFits(own.project, r.parent)
        /\ NotBelow(r.folder, r.parent)
        /\ NameIsFree(own.project, r.parent, own.name, r.folder)
    BY <1>2 DEF Consistent, TreeInv, RowsFit
  <1>4. ASSUME own.project # Nothing
        PROVE  Apart(own.project, r.folder, r.parent) /\ status[own.project] = "active"
    <2>1. own.project \in Projects /\ status[own.project] = "active"
      BY <1>2, <1>3, <1>4 DEF TreeInv, TypeOK, FolderType, OrNothing, Writable
    <2>2. r.parent # Nothing => r.parent \in FoldersOf(own.project)
      <3>1. ASSUME r.parent # Nothing PROVE r.parent \in Folders /\ Exists(r.parent)
        BY <1>1, <3>1 DEF TreeInv, LocksFit, TypeOK, RequestType, OrNothing
      <3> QED
        BY <1>3, <3>1, TreeAssumption DEF Exists, ParentFits, FoldersOf
    <2> QED
      BY <1>2, <1>3, <2>1, <2>2, NotBelowIsApart
  <1> QED
    BY <1>1, <1>2, <1>3, <1>4 DEF MoveReady, ParentFits

LEMMA PassChecksFits ==
  ASSUME TreeInv, NEW c \in Requests, PassChecks(c) PROVE TreeInv'
  <1> DEFINE t == request[c]
             r == [t EXCEPT !.step = "write"]
  <1>1. t \in RequestType /\ t.step = "lock" /\ RequestFits(t) /\ t.op \notin {"archive", "unarchive"}
    BY DEF TreeInv, TypeOK, PassChecks, HasLocks
  <1>2. /\ t.op = "create" => CreateReady(t)
        /\ t.op = "update" => UpdateReady(t)
        /\ t.op = "move"   => MoveReady(t)
    BY CreateChecked, UpdateChecked, MoveChecked DEF PassChecks
  <1>3. request' = [request EXCEPT ![c] = r] /\ UNCHANGED <<folder, status, kept, astray>>
    BY DEF PassChecks
  <1>4. \A x \in t.held : Exists(x) /\ ~HeldByOther(c, x)
    BY DEF TreeInv, LocksFit, HeldByOther
  <1> HIDE DEF t
  <1>5. /\ r \in RequestType /\ r.step = "write" /\ r.held = t.held /\ r.op = t.op
        /\ r.folder = t.folder /\ r.parent = t.parent /\ r.name = t.name /\ r.project = t.project
        /\ r.yearName = t.yearName
    BY <1>1 DEF RequestType
  <1> HIDE DEF r
  <1>6. RequestFits(r)
    BY <1>1, <1>2, <1>5 DEF RequestFits, CreateReady, UpdateReady, MoveReady
  <1> QED
    BY <1>1, <1>3, <1>4, <1>5, <1>6, RequestMoves

\* get() of at most one row
LEMMA OneIsThere ==
  ASSUME NEW S \in SUBSET Folders, Cardinality(S) < 2
  PROVE  One(S) \in S \cup {Nothing} /\ S = {One(S)} \ {Nothing}
  <1>1. IsFiniteSet(S) /\ Cardinality(S) \in Nat
    BY TreeAssumption, FS_Subset, FS_CardinalityType
  <1>2. CASE Cardinality(S) = 0
    BY <1>1, <1>2, FS_EmptySet DEF One
  <1>3. CASE Cardinality(S) = 1
    <2>1. PICK x : S = {x}
      BY <1>1, <1>3, FS_Singleton
    <2> QED
      BY <2>1, TreeAssumption DEF One
  <1> QED
    BY <1>1, <1>2, <1>3

LEMMA FindArchiveFoldersFits ==
  ASSUME TreeInv, NEW c \in Requests, FindArchiveFolders(c) PROVE TreeInv'
  <1> DEFINE t     == request[c]
             years == YearFolders(t.yearName)
             boxes == Containers(t.project)
             r     == [t EXCEPT !.step = "write", !.year = One(years), !.container = One(boxes),
                                !.revive = (years \cup boxes) \ Active]
  <1>1. t \in RequestType /\ t.step = "lock" /\ RequestFits(t) /\ t.op = "archive"
    BY DEF TreeInv, TypeOK, FindArchiveFolders, HasLocks
  <1>2. t.project \in Projects /\ t.project \in t.held
    BY <1>1, RowsAreLocked, TreeAssumption DEF FindArchiveFolders, RequestFits
  <1>3. request' = [request EXCEPT ![c] = r] /\ UNCHANGED <<folder, status, kept, astray>>
    BY DEF FindArchiveFolders
  <1>4. \A x \in t.held : Exists(x) /\ ~HeldByOther(c, x)
    BY DEF TreeInv, LocksFit, HeldByOther
  <1>5. years \in SUBSET Folders /\ boxes \in SUBSET Folders
    BY DEF YearFolders, Containers, FoldersOf, Present
  <1>6. /\ One(years) \in years \cup {Nothing} /\ years = {One(years)} \ {Nothing}
        /\ One(boxes) \in boxes \cup {Nothing} /\ boxes = {One(boxes)} \ {Nothing}
    BY <1>5, OneIsThere DEF FindArchiveFolders
  <1>7. \A f \in years : f \in Present /\ f \notin Roots /\ folder[f].project = Nothing
    <2>1. ParentsMatch /\ RowsFit /\ ArchiveRoot # Nothing
      BY TreeAssumption DEF TreeInv, TypeOK
    <2> QED
      BY <2>1 DEF YearFolders, ParentsMatch, RowsFit, Present
  <1>8. Containers(t.project) = boxes
    OBVIOUS
  <1> HIDE DEF t, years, boxes
  <1>9. /\ r \in RequestType /\ r.step = "write" /\ r.held = t.held /\ r.op = "archive"
        /\ r.project = t.project /\ r.yearName = t.yearName /\ r.year = One(years)
        /\ r.container = One(boxes)
    <2> DEFINE y == One(years)
               b == One(boxes)
               v == (years \cup boxes) \ Active
    <2>1. y \in OrNothing(Folders) /\ b \in OrNothing(Folders) /\ v \in SUBSET Folders
      BY <1>5, <1>6 DEF OrNothing
    <2> HIDE DEF y, b, v
    <2>3. r = [t EXCEPT !.step = "write", !.year = y, !.container = b, !.revive = v]
      BY DEF y, b, v
    <2> HIDE DEF r
    <2>4. /\ r \in RequestType /\ r.step = "write" /\ r.held = t.held /\ r.op = "archive"
          /\ r.project = t.project /\ r.yearName = t.yearName /\ r.year = y
          /\ r.container = b /\ r.revive = v
      BY <1>1, <2>1, <2>3 DEF RequestType
    <2> QED
      BY <2>4 DEF y, b
  <1> HIDE DEF r
  <1>10. ArchiveReady(r)
    BY <1>2, <1>6, <1>7, <1>8, <1>9 DEF ArchiveReady
  <1>11. RequestFits(r)
    BY <1>1, <1>9, <1>10 DEF RequestFits
  <1> QED
    BY <1>3, <1>4, <1>9, <1>11, RequestMoves

LEMMA FindContainerFits ==
  ASSUME TreeInv, NEW c \in Requests, FindContainer(c) PROVE TreeInv'
  <1> PICK t : t = request[c]
    OBVIOUS
  <1>1. t \in RequestType /\ t.step = "lock" /\ RequestFits(t) /\ t.op = "unarchive" /\ t.project \in Projects
    BY DEF TreeInv, TypeOK, FindContainer, HasLocks, RequestFits
  <1>2. PICK box \in OrNothing(Uppermost(t.project)) :
          request' = [request EXCEPT ![c].step = "write", ![c].container = box]
    BY DEF FindContainer, OrNothing
  <1> DEFINE r == [t EXCEPT !.step = "write", !.container = box]
  <1>3. request' = [request EXCEPT ![c] = r]
    BY <1>2 DEF TreeInv, TypeOK
  <1>4. UNCHANGED <<folder, status, kept, astray>>
    BY DEF FindContainer
  <1>5. \A x \in t.held : Exists(x) /\ ~HeldByOther(c, x)
    BY DEF TreeInv, LocksFit, HeldByOther
  <1>6. /\ box \in OrNothing(Folders)
        /\ box \in Present => box \in Containers(t.project)
    BY TreeAssumption DEF Uppermost, Containers, FoldersOf, Present, OrNothing
  <1>7. /\ r \in RequestType /\ r.step = "write" /\ r.held = t.held /\ r.op = "unarchive"
        /\ r.project = t.project /\ r.container = box
    BY <1>1, <1>6 DEF RequestType
  <1> HIDE DEF r
  <1>8. UnarchiveReady(r)
    BY <1>1, <1>6, <1>7 DEF UnarchiveReady, Containers, FoldersOf, Present, TreeInv, RowsFit
  <1>9. RequestFits(r)
    BY <1>1, <1>7, <1>8 DEF RequestFits
  <1> QED
    BY <1>3, <1>4, <1>5, <1>7, <1>9, RequestMoves

-------------------------------------------------------------------------------
(* What a step leaves to a project and to the other requests                  *)

KeepsPlace(f) ==
  /\ folder'[f].kind = folder[f].kind /\ folder'[f].project = folder[f].project
  /\ folder'[f].parent = folder[f].parent /\ folder'[f].name = folder[f].name
  /\ folder'[f].coded = folder[f].coded

\* The step changes no folder of the project, except that it may disable some.
PlacesStand(p) ==
  \A f \in Folders : folder[f].project = p \/ folder'[f].project = p =>
    KeepsPlace(f) /\ (folder'[f].active => folder[f].active)

\* What a request that waits relies on: the projects and the folders that it has locked, the
\* public folders, the folder that it has found for the container, and that a false container
\* is not forgotten while the project is there.
StaysTrue(b) ==
  LET r   == request[b]
      box == r.container
  IN
  /\ \A p \in r.held \cap Projects : status'[p] = status[p] /\ PlacesStand(p)
  /\ \A f \in r.held \cap Folders : f \in Present' /\ folder'[f].project = folder[f].project
  /\ \A f \in Present : folder[f].project = Nothing => f \in Present' /\ folder'[f].project = Nothing
  /\ box \in Present' =>
       /\ box \in Present /\ folder'[box].project = folder[box].project
       /\ folder[box].project # Nothing => folder'[box].kind = folder[box].kind
  /\ \A p \in astray : p \in astray' \/ FoldersOf(p)' = {}

\* A project whose folders stand has the same tree, and what held of it holds.
LEMMA ProjectStands ==
  ASSUME TreeInv, NEW p \in Projects, PlacesStand(p)
  PROVE  /\ FoldersOf(p)' = FoldersOf(p) /\ Containers(p)' = Containers(p)
         /\ TopLevel(p)' = TopLevel(p) /\ TreeBefore(p)' = TreeBefore(p)
         /\ (Active \cap FoldersOf(p))' \subseteq Active \cap FoldersOf(p)
  <1>1. FoldersOf(p)' = FoldersOf(p)
    BY DEF PlacesStand, KeepsPlace, FoldersOf, Present
  <1>2. \A f \in FoldersOf(p) : f \in Folders /\ KeepsPlace(f) /\ (folder'[f].active => folder[f].active)
    BY DEF PlacesStand, FoldersOf, Present
  <1>3. Containers(p)' = Containers(p) /\ TopLevel(p)' = TopLevel(p)
    BY <1>1, <1>2 DEF Containers, TopLevel, KeepsPlace
  <1>4. TreeBefore(p)' = TreeBefore(p)
    BY <1>1, <1>2, <1>3 DEF TreeBefore, KeepsPlace
  <1>5. (Active \cap FoldersOf(p))' \subseteq Active \cap FoldersOf(p)
    <2> SUFFICES ASSUME NEW f \in Folders, f \in Active', f \in FoldersOf(p)' PROVE f \in Active
      BY <1>1 DEF FoldersOf, Present
    <2> QED
      BY <1>1, <1>2 DEF Active, Present, KeepsPlace
  <1> QED
    BY <1>1, <1>3, <1>4, <1>5

LEMMA ProjectStaysFit ==
  ASSUME TreeInv, NEW p \in Projects, PlacesStand(p), status'[p] = status[p], kept'[p] = kept[p],
         p \in astray => p \in astray'
  PROVE  ProjectFits(p)'
  <1>1. ProjectFits(p)
    BY DEF TreeInv
  <1>2. /\ FoldersOf(p)' = FoldersOf(p) /\ Containers(p)' = Containers(p)
        /\ TopLevel(p)' = TopLevel(p) /\ TreeBefore(p)' = TreeBefore(p)
        /\ (Active \cap FoldersOf(p))' \subseteq Active \cap FoldersOf(p)
    BY ProjectStands
  <1>3. \A f \in FoldersOf(p) : f \in Folders /\ KeepsPlace(f)
    BY DEF PlacesStand, FoldersOf, Present
  <1>4. IsForest(FoldersOf(p))'
    <2> SUFFICES ASSUME NEW S \in (SUBSET FoldersOf(p)) \ {{}}
                 PROVE  \E f \in S : folder'[f].parent \notin S
      BY <1>2 DEF IsForest
    <2>1. PICK f \in S : folder[f].parent \notin S
      BY <1>1 DEF ProjectFits, IsForest
    <2> QED
      BY <1>3, <2>1 DEF KeepsPlace
  <1>5. p \notin astray' => SiblingsDiffer(p)'
    BY <1>1, <1>2, <1>3 DEF ProjectFits, SiblingsDiffer, KeepsPlace
  <1> QED
    BY <1>1, <1>2, <1>4, <1>5 DEF ProjectFits

LEMMA RequestStays ==
  ASSUME TreeInv, NEW b \in Requests, request'[b] = request[b], StaysTrue(b)
  PROVE  RequestFits(request[b])'
  <1> DEFINE r == request[b]
  <1>1. RequestFits(r) /\ r \in RequestType
    BY DEF TreeInv, TypeOK
  <1>2. ASSUME NEW p \in Projects, p \in r.held, NEW parent, NEW n, NEW own, NameIsFree(p, parent, n, own)
        PROVE  \A f \in Active' \ {own} :
                 <<folder'[f].project, folder'[f].parent, folder'[f].name>> # <<p, parent, n>>
    <2> SUFFICES ASSUME NEW f \in Folders, f \in Active', f # own, folder'[f].project = p,
                        folder'[f].parent = parent, folder'[f].name = n
                 PROVE  FALSE
      BY DEF Active, Present
    <2>1. KeepsPlace(f) /\ folder[f].active
      BY <1>2 DEF StaysTrue, PlacesStand, Active
    <2> QED
      BY <1>2, <2>1 DEF NameIsFree, Active, Present, KeepsPlace
  <1>3. ASSUME NEW p \in Projects, p \in r.held, NEW f, NEW parent, Apart(p, f, parent)
        PROVE  \E S \in SUBSET FoldersOf(p)' :
                 /\ parent \in S \cup {Nothing} /\ f \notin S
                 /\ \A g \in S : folder'[g].parent \in S \/ folder'[g].parent \notin FoldersOf(p)'
    <2>1. PlacesStand(p) /\ FoldersOf(p)' = FoldersOf(p)
      BY <1>3, ProjectStands DEF StaysTrue
    <2>2. PICK S \in SUBSET FoldersOf(p) :
            /\ parent \in S \cup {Nothing} /\ f \notin S
            /\ \A g \in S : folder[g].parent \in S \/ folder[g].parent \notin FoldersOf(p)
      BY <1>3 DEF Apart
    <2>3. \A g \in S : folder'[g].parent = folder[g].parent
      BY <2>1 DEF PlacesStand, KeepsPlace, FoldersOf, Present
    <2> QED
      BY <2>1, <2>2, <2>3
  <1>4. CASE r.step = "write" /\ r.op = "create"
    <2>1. CreateReady(r)
      BY <1>1, <1>4 DEF RequestFits
    <2>2. ASSUME r.project # Nothing
          PROVE  /\ status'[r.project] = "active"
                 /\ \A f \in Active' \ {Nothing} :
                      <<folder'[f].project, folder'[f].parent, folder'[f].name>>
                        # <<r.project, r.parent, r.name>>
      BY <1>1, <1>2, <2>1, <2>2 DEF CreateReady, StaysTrue, RequestType, OrNothing
    <2>3. r.parent # Nothing => folder'[r.parent].project = r.project
      BY <1>1, <2>1 DEF CreateReady, StaysTrue, RequestType, OrNothing
    <2>4. CreateReady(r)'
      BY <2>1, <2>2, <2>3 DEF CreateReady, NameIsFree
    <2> QED
      BY <1>1, <1>4, <2>4 DEF RequestFits
  <1>5. CASE r.step = "write" /\ r.op = "update"
    <2> DEFINE own == folder[r.folder]
    <2>1. UpdateReady(r) /\ r.folder \in Folders
      BY <1>1, <1>5 DEF RequestFits
    <2>2. folder'[r.folder].project = own.project
      BY <2>1 DEF UpdateReady, StaysTrue
    <2>3. ASSUME own.project # Nothing
          PROVE  /\ status'[own.project] = "active" /\ folder'[r.folder].parent = own.parent
                 /\ r.name # Nothing => \A f \in Active' \ {r.folder} :
                      <<folder'[f].project, folder'[f].parent, folder'[f].name>>
                        # <<own.project, own.parent, r.name>>
      <3>1. own.project \in Projects /\ own.project \in r.held
        BY <2>1, <2>3 DEF UpdateReady, TreeInv, TypeOK, FolderType, OrNothing
      <3> QED
        BY <1>2, <2>1, <2>3, <3>1 DEF UpdateReady, StaysTrue, PlacesStand, KeepsPlace
    <2>4. UpdateReady(r)'
      BY <2>1, <2>2, <2>3 DEF UpdateReady, NameIsFree
    <2> QED
      BY <1>1, <1>5, <2>4 DEF RequestFits
  <1>6. CASE r.step = "write" /\ r.op = "move"
    <2> DEFINE own == folder[r.folder]
    <2>1. MoveReady(r) /\ r.folder \in Folders
      BY <1>1, <1>6 DEF RequestFits
    <2>2. folder'[r.folder].project = own.project
      BY <2>1 DEF MoveReady, StaysTrue
    <2>3. r.parent # Nothing => folder'[r.parent].project = own.project
      BY <1>1, <2>1 DEF MoveReady, StaysTrue, RequestType, OrNothing
    <2>4. ASSUME own.project # Nothing
          PROVE  /\ status'[own.project] = "active" /\ folder'[r.folder].name = own.name
                 /\ \A f \in Active' \ {r.folder} :
                      <<folder'[f].project, folder'[f].parent, folder'[f].name>>
                        # <<own.project, r.parent, own.name>>
                 /\ \E S \in SUBSET FoldersOf(own.project)' :
                      /\ r.parent \in S \cup {Nothing} /\ r.folder \notin S
                      /\ \A g \in S : folder'[g].parent \in S \/ folder'[g].parent \notin FoldersOf(own.project)'
      <3>1. own.project \in Projects /\ own.project \in r.held
        BY <2>1, <2>4 DEF MoveReady, TreeInv, TypeOK, FolderType, OrNothing
      <3> QED
        BY <1>2, <1>3, <2>1, <2>4, <3>1 DEF MoveReady, StaysTrue, PlacesStand, KeepsPlace
    <2>5. MoveReady(r)'
      BY <2>1, <2>2, <2>3, <2>4 DEF MoveReady, NameIsFree, Apart
    <2> QED
      BY <1>1, <1>6, <2>5 DEF RequestFits
  <1>7. CASE r.step = "write" /\ r.op = "archive"
    <2>1. ArchiveReady(r) /\ r.project \in Projects
      BY <1>1, <1>7 DEF RequestFits
    <2>2. Containers(r.project)' = Containers(r.project)
      BY <2>1, ProjectStands DEF ArchiveReady, StaysTrue
    <2>3. r.year # Nothing => r.year \in Present' /\ folder'[r.year].project = Nothing
      BY <2>1 DEF ArchiveReady, StaysTrue
    <2>4. ArchiveReady(r)'
      BY <2>1, <2>2, <2>3 DEF ArchiveReady
    <2> QED
      BY <1>1, <1>7, <2>4 DEF RequestFits
  <1>8. CASE r.step = "write" /\ r.op = "unarchive"
    <2> DEFINE box == r.container
    <2>1. UnarchiveReady(r) /\ r.project \in Projects /\ r.project # Nothing
      BY <1>1, <1>8, TreeAssumption DEF RequestFits
    <2>2. ASSUME box \in Present'
          PROVE  /\ folder'[box].project = r.project
                 /\ r.project \notin astray' => folder'[box].kind = "container"
      <3>1. /\ box \in Present /\ folder[box].project = r.project /\ folder'[box].project = r.project
            /\ folder'[box].kind = folder[box].kind
        BY <2>1, <2>2 DEF StaysTrue, UnarchiveReady
      <3>2. ASSUME r.project \notin astray' PROVE r.project \notin astray
        <4>1. FoldersOf(r.project)' # {}
          BY <2>2, <3>1 DEF FoldersOf
        <4> QED
          BY <3>2, <4>1 DEF StaysTrue
      <3> QED
        BY <2>1, <3>1, <3>2 DEF UnarchiveReady
    <2>3. UnarchiveReady(r)'
      BY <2>2 DEF UnarchiveReady
    <2> QED
      BY <1>1, <1>8, <2>3 DEF RequestFits
  <1> QED
    BY <1>1, <1>4, <1>5, <1>6, <1>7, <1>8 DEF RequestFits

-------------------------------------------------------------------------------
(* Commits                                                                    *)

\* The requests of C end, and the others go on as they were.
RequestsEnd(C) ==
  /\ request' \in [Requests -> RequestType]
  /\ \A c \in C : request'[c] = Idle
  /\ \A b \in Requests \ C : request'[b] = request[b]

\* TypeOK without the requests
TreeTyped ==
  /\ ParentsMatch
  /\ folder \in [Folders -> FolderType]
  /\ status \in [Projects -> {"absent", "active", "archived"}]
  /\ \A p \in Projects : kept[p] \subseteq Folders \X OrNothing(Folders) \X FolderName
  /\ DOMAIN kept = Projects
  /\ astray \subseteq Projects

\* A transaction that ends leaves a tree with the invariant when its rows fit and the
\* other requests keep what they rely on.
LEMMA CommitFits ==
  ASSUME TreeInv, NEW C \in SUBSET Requests, RequestsEnd(C), TreeTyped', RowsFit',
         \A p \in Projects : ProjectFits(p)',
         \A b \in Requests \ C : StaysTrue(b)
  PROVE  TreeInv'
  <1> USE DEF RequestsEnd, TreeTyped
  <1>2. TypeOK'
    BY DEF TypeOK
  <1>3. LocksFit'
    <2>1. ASSUME NEW b \in Requests \ C, NEW row \in request[b].held PROVE Exists(row)'
      <3>1. Exists(row)
        BY DEF TreeInv, LocksFit
      <3>2. CASE row \in Present
        BY <3>2 DEF StaysTrue, Exists, Present
      <3>3. CASE row \in Projects /\ status[row] # "absent"
        BY <3>3 DEF StaysTrue, Exists
      <3> QED
        BY <3>1, <3>2, <3>3 DEF Exists
    <2> QED
      BY <2>1, IdleFits DEF TreeInv, LocksFit
  <1>5. ASSUME NEW b \in Requests PROVE RequestFits(request[b])'
    <2>1. CASE b \in C
      BY <2>1, IdleFits DEF RequestFits
    <2>2. CASE b \notin C
      BY <2>2, RequestStays
    <2> QED
      BY <2>1, <2>2
  <1> QED
    BY <1>2, <1>3, <1>5 DEF TreeInv

LEMMA FinishEnds ==
  ASSUME TreeInv, NEW c \in Requests, Finish(c)
  PROVE  RequestsEnd({c})
  BY IdleFits DEF TreeInv, TypeOK, Finish, RequestsEnd

\* A row that a request may write: a new folder, or one that stays in its project.
RowMayGo(c, f, row) ==
  /\ f \in Present => row.kind = folder[f].kind /\ row.project = folder[f].project
  /\ f \notin Present => f \in FreeFolders /\ row.kind = "folder"
                         /\ (row.project # Nothing => status[row.project] # "absent")
  /\ f \in Roots => row.name = folder[f].name
  /\ row.parent = Nothing => (row.kind = "root" <=> row.project = Nothing)
  /\ row.parent # Nothing =>
       row.parent \in Present /\ row.kind # "root" /\ folder[row.parent].project \in {row.project, Nothing}
  /\ row.project \in Projects \ astray' =>
       /\ row.kind = "container" <=> row.parent # Nothing /\ folder[row.parent].project = Nothing
       /\ row.coded <=> row.kind = "container"
  /\ \A b \in Requests \ {c} : row.project \in request[b].held \cap Projects =>
       /\ f \in Present /\ row.parent = folder[f].parent /\ row.name = folder[f].name
       /\ row.coded = folder[f].coded /\ (row.active => folder[f].active)

\* A commit that writes one such row
LEMMA OneRowFits ==
  ASSUME TreeInv, NEW c \in Requests, Finish(c), NEW f \in Folders, NEW row \in FolderType,
         folder' = [folder EXCEPT ![f] = row], status' = status, kept' = kept,
         astray \subseteq astray', astray' \subseteq Projects,
         RowMayGo(c, f, row),
         \A p \in Projects : p = row.project => ProjectFits(p)'
  PROVE  TreeInv'
  <1> USE DEF RowMayGo
  <1>1. /\ folder' \in [Folders -> FolderType] /\ folder'[f] = row
        /\ \A g \in Folders : g # f => folder'[g] = folder[g]
    BY DEF TreeInv, TypeOK
  <1>0. /\ TypeOK /\ RowsFit /\ ParentsMatch /\ Nothing \notin Projects \cup Folders
        /\ Roots \subseteq Folders
    BY TreeAssumption DEF TreeInv, TypeOK
  <1>2. row.kind # "absent"
    BY DEF Present
  <1>3. Present' = Present \cup {f}
    BY <1>1, <1>2 DEF Present
  <1>4. f \notin Present => folder[f].project = Nothing /\ f \notin Roots
    BY <1>0 DEF RowsFit, Present
  <1>5. ParentsMatch'
    <2> SUFFICES ASSUME NEW g \in Present'
                 PROVE  LET own == folder'[g] IN
                   /\ own.parent = Nothing => (own.kind = "root" <=> own.project = Nothing)
                   /\ own.parent # Nothing =>
                        /\ own.parent \in Present' /\ own.kind # "root"
                        /\ folder'[own.parent].project \in {own.project, Nothing}
                   /\ own.project \in Projects \ astray' =>
                        (own.kind = "container"
                           <=> own.parent # Nothing /\ folder'[own.parent].project = Nothing)
      BY DEF ParentsMatch
    <2>1. \A x \in Present : folder'[x].project = folder[x].project
      BY <1>1 DEF Present
    <2>2. CASE g = f
      BY <1>1, <1>3, <2>1, <2>2
    <2>3. CASE g # f
      <3>1. g \in Present /\ folder'[g] = folder[g]
        BY <1>1, <1>3, <2>3 DEF Present
      <3> QED
        BY <1>0, <1>3, <2>1, <3>1 DEF ParentsMatch
    <2> QED
      BY <2>2, <2>3
  <1>6. RowsFit'
    <2>1. \A p \in Projects : status'[p] = "absent" => FoldersOf(p)' = {}
      BY <1>0, <1>1, <1>3, <1>4 DEF RowsFit, FoldersOf, Present
    <2>2. \A g \in Folders : folder'[g].kind = "root" <=> g \in Roots
      BY <1>0, <1>1, <1>4 DEF RowsFit
    <2>3. \A g \in Roots : folder'[g].name = g
      BY <1>0, <1>1 DEF RowsFit
    <2>4. \A g \in Folders : folder'[g].kind \in {"absent", "year"} => folder'[g].project = Nothing
      BY <1>0, <1>1, <1>2 DEF RowsFit
    <2>5. \A g \in Folders : folder'[g].kind = "container" => folder'[g].project # Nothing
      BY <1>0, <1>1 DEF RowsFit
    <2>6. \A g \in Folders : folder'[g].project \in Projects \ astray' =>
            (folder'[g].coded <=> folder'[g].kind = "container")
      BY <1>0, <1>1 DEF RowsFit
    <2> QED
      BY <2>1, <2>2, <2>3, <2>4, <2>5, <2>6 DEF RowsFit
  <1>7. ASSUME NEW p \in Projects, p # row.project PROVE PlacesStand(p)
    BY <1>0, <1>1, <1>4, <1>7 DEF PlacesStand, KeepsPlace, Present
  <1>8. \A p \in Projects : ProjectFits(p)'
    BY <1>7, ProjectStaysFit
  <1>9. ASSUME NEW b \in Requests \ {c} PROVE StaysTrue(b)
    <2>1. \A p \in request[b].held \cap Projects : PlacesStand(p)
      <3> SUFFICES ASSUME NEW p \in request[b].held \cap Projects, p = row.project PROVE PlacesStand(p)
        BY <1>7
      <3> QED
        BY <1>1 DEF PlacesStand, KeepsPlace
    <2>2. \A g \in request[b].held \cap Folders : g \in Present
      BY TreeAssumption DEF TreeInv, LocksFit, Exists
    <2>3. \A g \in Present : g \in Present' /\ folder'[g].project = folder[g].project
                             /\ folder'[g].kind = folder[g].kind
      BY <1>1, <1>3 DEF Present
    <2>4. request[b].container \in Present' => request[b].container \in Present
      BY <1>3 DEF FreeFolders
    <2> QED
      BY <2>1, <2>2, <2>3, <2>4 DEF StaysTrue
  <1>10. TreeTyped'
    BY <1>0, <1>1, <1>5 DEF TypeOK, TreeTyped
  <1>11. {c} \in SUBSET Requests /\ RequestsEnd({c})
    BY FinishEnds
  <1> QED
    BY <1>6, <1>8, <1>9, <1>10, <1>11, CommitFits

\* With f written, every set of the folders of p has a way out, and f has a name of its own.
StaysForest(p, f) ==
  \A S \in (SUBSET (FoldersOf(p) \cup {f})) \ {{}} : \E g \in S : folder'[g].parent \notin S
NameStaysFree(f, row) ==
  row.active => \A g \in Active \ {f} :
    <<folder[g].project, folder[g].parent, folder[g].name>> # <<row.project, row.parent, row.name>>

\* A folder written in an active project: the project stays fit when its tree does.
LEMMA ActiveProjectFits ==
  ASSUME TreeInv, NEW f \in Folders, NEW row \in FolderType, folder' = [folder EXCEPT ![f] = row],
         NEW p \in Projects, p = row.project, status[p] = "active", status' = status,
         row.kind # "absent", f \in Present => folder[f].project = p,
         astray \subseteq astray', p \notin astray' => ~row.coded,
         StaysForest(p, f), p \notin astray' => NameStaysFree(f, row)
  PROVE  ProjectFits(p)'
  <1> USE DEF StaysForest, NameStaysFree
  <1>1. /\ folder'[f] = row /\ \A g \in Folders : g # f => folder'[g] = folder[g]
    BY DEF TreeInv, TypeOK
  <1>2. ProjectFits(p) /\ p # Nothing
    BY TreeAssumption DEF TreeInv
  <1>3. FoldersOf(p)' = FoldersOf(p) \cup {f}
    BY <1>1 DEF FoldersOf, Present
  <1>4. IsForest(FoldersOf(p))'
    BY <1>3 DEF IsForest
  <1>5. ASSUME p \notin astray' PROVE Containers(p)' = {} /\ SiblingsDiffer(p)'
    <2>1. Containers(p)' = {}
      BY <1>1, <1>2, <1>5 DEF ProjectFits, Containers, FoldersOf, Present
    <2>2. SiblingsDiffer(p)'
      <3> SUFFICES ASSUME NEW g \in Folders, NEW h \in Folders, g \in (Active \cap FoldersOf(p))',
                          h \in (Active \cap FoldersOf(p))', folder'[g].parent = folder'[h].parent,
                          folder'[g].name = folder'[h].name, g # h
                   PROVE  FALSE
        BY DEF SiblingsDiffer, FoldersOf, Present
      <3>1. ASSUME NEW x \in Folders, x \in (Active \cap FoldersOf(p))', x # f
            PROVE  x \in Active \cap FoldersOf(p) /\ folder'[x] = folder[x]
        BY <1>1, <3>1 DEF Active, FoldersOf, Present
      <3>2. CASE g # f /\ h # f
        BY <1>2, <1>5, <3>1, <3>2 DEF ProjectFits, SiblingsDiffer
      <3>3. CASE g = f
        BY <1>1, <1>5, <3>1, <3>3 DEF Active, FoldersOf
      <3>4. CASE h = f
        BY <1>1, <1>5, <3>1, <3>4 DEF Active, FoldersOf
      <3> QED
        BY <3>2, <3>3, <3>4
    <2> QED
      BY <2>1, <2>2
  <1>6. status'[p] # "archived"
    OBVIOUS
  <1> QED
    BY <1>4, <1>5, <1>6 DEF ProjectFits

LEMMA CreateFolderFits ==
  ASSUME TreeInv, NEW c \in Requests, CreateFolder(c) PROVE TreeInv'
  <1> PICK r : r = request[c]
    OBVIOUS
  <1>1. /\ r \in RequestType /\ RequestFits(r) /\ r.step = "write" /\ r.op = "create"
    BY DEF TreeInv, TypeOK, CreateFolder, Writes
  <1> PICK coded \in BOOLEAN : coded <=> r.code = "container"
    OBVIOUS
  <1> PICK row : row = [kind |-> "folder", project |-> r.project, parent |-> r.parent,
                        name |-> r.name, coded |-> coded, active |-> TRUE]
    OBVIOUS
  <1>2. PICK f \in FreeFolders : folder' = [folder EXCEPT ![f] = row]
    <2>1. coded = (r.code = "container")
      OBVIOUS
    <2> QED
      BY <2>1 DEF CreateFolder
  <1>3. CreateReady(r) /\ r.name \in Names /\ (r.parent # Nothing \/ r.project # Nothing)
    BY <1>1 DEF RequestFits
  <1>4. /\ row \in FolderType /\ row.kind = "folder" /\ row.project = r.project
        /\ row.parent = r.parent /\ row.name = r.name /\ row.active /\ (row.coded <=> coded)
    BY <1>1, <1>3 DEF RequestType, FolderType, FolderName, OrNothing
  <1>5. Finish(c) /\ status' = status /\ kept' = kept /\ f \in Folders /\ f \notin Present
    BY DEF CreateFolder, FreeFolders
  <1>6. r.parent # Nothing => r.parent \in Present
    BY <1>1, <1>3, TreeAssumption
       DEF CreateReady, TreeInv, LocksFit, Exists, RequestType, OrNothing
  <1>7. r.project # Nothing => r.project \in Projects /\ r.project \in r.held /\ status[r.project] = "active"
    BY <1>1, <1>3 DEF CreateReady, RequestType, OrNothing
  <1>8. \A b \in Requests \ {c} : r.project \notin request[b].held \cap Projects
    BY <1>7, TreeAssumption DEF TreeInv, LocksFit
  <1>9. /\ astray \subseteq astray' /\ astray' \subseteq Projects
        /\ r.project \in Projects \ astray' => ~coded
    <2>1. astray' = astray \cup Misleads(r, r.project)
      BY DEF CreateFolder
    <2>2. astray \subseteq Projects /\ Nothing \notin Projects
      BY TreeAssumption DEF TreeInv, TypeOK
    <2>3. Misleads(r, r.project) = IF coded THEN {r.project} \ {Nothing} ELSE {}
      BY DEF Misleads
    <2> QED
      BY <1>7, <2>1, <2>2, <2>3
  <1>10. ASSUME NEW p \in Projects, p = r.project PROVE ProjectFits(p)'
    <2>1. r.project # Nothing
      BY <1>10, TreeAssumption
    <2>2. /\ \A g \in Folders : g # f => folder'[g] = folder[g]
          /\ f \notin FoldersOf(p) /\ \A g \in FoldersOf(p) : g \in Folders /\ folder[g].parent # f
      <3>1. f # Nothing /\ ParentsMatch
        BY <1>5, TreeAssumption DEF TreeInv, TypeOK
      <3>2. \A g \in Present : folder[g].parent # f
        BY <1>5, <3>1 DEF ParentsMatch
      <3>3. \A g \in Folders : g # f => folder'[g] = folder[g]
        BY <1>2 DEF TreeInv, TypeOK
      <3> QED
        BY <1>5, <3>2, <3>3 DEF FoldersOf, Present
    <2>3. ASSUME NEW S \in (SUBSET (FoldersOf(p) \cup {f})) \ {{}}
          PROVE  \E g \in S : folder'[g].parent \notin S
      <3>2. CASE S = {f}
        <4>1. folder'[f].parent = r.parent /\ r.parent # f
          BY <1>2, <1>4, <1>5, <1>6, TreeAssumption DEF TreeInv, TypeOK
        <4> QED
          BY <3>2, <4>1
      <3>3. CASE S # {f}
        <4> DEFINE T == S \ {f}
        <4>1. T \in (SUBSET FoldersOf(p)) \ {{}}
          BY <3>3
        <4>2. PICK g \in T : folder[g].parent \notin T
          BY <4>1 DEF TreeInv, ProjectFits, IsForest
        <4> QED
          BY <2>2, <4>1, <4>2
      <3> QED
        BY <3>2, <3>3
    <2>4. NameStaysFree(f, row)
      BY <1>3, <1>4, <1>10, <2>1, TreeAssumption DEF CreateReady, NameIsFree, NameStaysFree, Active, Present
    <2>5. StaysForest(p, f)
      BY <2>3 DEF StaysForest
    <2>6. /\ p = row.project /\ status[p] = "active" /\ row.kind # "absent" /\ f \notin Present
          /\ p \notin astray' => ~row.coded
      BY <1>4, <1>5, <1>7, <1>9, <1>10, <2>1
    <2> QED
      BY <1>2, <1>4, <1>5, <1>9, <2>4, <2>5, <2>6, ActiveProjectFits
  <1>11. row.parent # Nothing => /\ row.parent \in Present /\ row.kind # "root"
                                 /\ folder[row.parent].project = row.project
    BY <1>3, <1>4, <1>6 DEF CreateReady
  <1>12. /\ row.kind # "container" /\ (row.parent = Nothing => row.project # Nothing)
         /\ row.project # Nothing => status[row.project] # "absent"
         /\ f \notin Roots /\ (row.project \in Projects => row.project # Nothing)
    BY <1>3, <1>4, <1>5, <1>7, TreeAssumption DEF TreeInv, RowsFit, Present
  <1>13. RowMayGo(c, f, row)
    BY <1>2, <1>4, <1>5, <1>8, <1>9, <1>11, <1>12 DEF RowMayGo
  <1>14. \A p \in Projects : p = row.project => ProjectFits(p)'
    BY <1>4, <1>10
  <1> QED
    BY <1>2, <1>4, <1>5, <1>9, <1>13, <1>14, OneRowFits

\* In an active project that has not gone astray no folder is coded or is a container.
LEMMA ActiveHasNoContainer ==
  ASSUME TreeInv, NEW p \in Projects \ astray, status[p] = "active", NEW f \in FoldersOf(p)
  PROVE  ~folder[f].coded /\ folder[f].kind # "container"
  <1>1. Containers(p) = {}
    BY DEF TreeInv, ProjectFits
  <1> QED
    BY <1>1 DEF Containers, FoldersOf, Present, TreeInv, RowsFit

LEMMA UpdateFolderFits ==
  ASSUME TreeInv, NEW c \in Requests, UpdateFolder(c) PROVE TreeInv'
  <1> PICK r : r = request[c]
    OBVIOUS
  <1> PICK f : f = r.folder
    OBVIOUS
  <1>1. /\ r \in RequestType /\ RequestFits(r) /\ r.step = "write" /\ r.op = "update"
    BY DEF TreeInv, TypeOK, UpdateFolder, Writes
  <1>2. UpdateReady(r) /\ f \in Folders
    BY <1>1 DEF RequestFits
  <1>3. f \in Present /\ folder[f] \in FolderType
    BY <1>2, TreeAssumption DEF UpdateReady, TreeInv, LocksFit, Exists, TypeOK
  <1> PICK coded \in BOOLEAN :
        coded <=> IF r.code = "none" THEN folder[f].coded ELSE r.code = "container"
    OBVIOUS
  <1> PICK name : name = IF r.name = Nothing THEN folder[f].name ELSE r.name
    OBVIOUS
  <1> PICK row : row = [folder[f] EXCEPT !.name = name, !.coded = coded]
    OBVIOUS
  <1>4. folder' = [folder EXCEPT ![f] = row]
    <2>1. coded = IF r.code = "none" THEN folder[f].coded ELSE r.code = "container"
      BY <1>3 DEF FolderType
    <2>2. folder' = [folder EXCEPT ![f].name = name, ![f].coded = coded]
      BY <1>2, <1>3, <2>1 DEF UpdateFolder, TreeInv, TypeOK, FolderType
    <2> QED
      BY <1>2, <2>2 DEF TreeInv, TypeOK
  <1>5. /\ row \in FolderType /\ row.kind = folder[f].kind /\ row.project = folder[f].project
        /\ row.parent = folder[f].parent /\ row.name = name /\ row.active = folder[f].active
        /\ row.coded = coded
    <2>1. name \in FolderName
      BY <1>1, <1>3 DEF FolderType, FolderName, RequestType, OrNothing
    <2> QED
      BY <1>3, <2>1 DEF FolderType
  <1>6. folder[f].project # Nothing => /\ folder[f].project \in Projects
                                       /\ folder[f].project \in r.held
                                       /\ status[folder[f].project] = "active"
    BY <1>2, <1>3 DEF UpdateReady, FolderType, OrNothing
  <1>7. \A b \in Requests \ {c} : folder[f].project \notin request[b].held \cap Projects
    BY <1>6, TreeAssumption DEF TreeInv, LocksFit
  <1>8. /\ astray \subseteq astray' /\ astray' \subseteq Projects
        /\ Finish(c) /\ status' = status /\ kept' = kept
    BY <1>6 DEF UpdateFolder, Misleads, TreeInv, TypeOK
  <1>9. ASSUME folder[f].project \in Projects \ astray' PROVE ~coded /\ row.kind # "container"
    <2>1. folder[f].project \in Projects \ astray /\ folder[f].project # Nothing
      BY <1>8, <1>9, TreeAssumption
    <2>2. f \in FoldersOf(folder[f].project) /\ status[folder[f].project] = "active"
      BY <1>3, <1>6, <2>1 DEF FoldersOf
    <2>3. ~folder[f].coded /\ folder[f].kind # "container"
      BY <2>1, <2>2, ActiveHasNoContainer
    <2>4. r.code # "container"
      BY <1>9, <2>1 DEF UpdateFolder, Misleads
    <2> QED
      BY <1>5, <2>3, <2>4
  <1>10. ASSUME NEW p \in Projects, p = folder[f].project PROVE ProjectFits(p)'
    <2>1. folder[f].project # Nothing /\ f \in FoldersOf(p) /\ status[p] = "active"
      BY <1>3, <1>6, <1>10, TreeAssumption DEF FoldersOf
    <2>2. row.kind # "absent"
      BY <1>3, <1>5 DEF Present
    <2>3. \A g \in Folders : folder'[g].parent = folder[g].parent
      BY <1>4, <1>5 DEF TreeInv, TypeOK
    <2>5. StaysForest(p, f)
      <3>1. FoldersOf(p) \cup {f} = FoldersOf(p)
        BY <2>1
      <3>2. IsForest(FoldersOf(p)) /\ FoldersOf(p) \in SUBSET Folders
        BY DEF TreeInv, ProjectFits, FoldersOf, Present
      <3> QED
        BY <2>3, <3>1, <3>2 DEF IsForest, StaysForest
    <2>6. p \notin astray' => NameStaysFree(f, row)
      <3>1. CASE r.name # Nothing
        BY <1>2, <1>5, <1>10, <2>1, <3>1 DEF UpdateReady, NameIsFree, NameStaysFree
      <3>2. CASE r.name = Nothing
        <4>1. p \notin astray' => SiblingsDiffer(p)
          BY <1>8 DEF TreeInv, ProjectFits
        <4>2. row.name = folder[f].name /\ row.active = folder[f].active
          BY <1>5, <3>2
        <4> QED
          BY <1>3, <1>5, <1>10, <2>1, <4>1, <4>2
             DEF SiblingsDiffer, NameStaysFree, Active, FoldersOf, Present
      <3> QED
        BY <3>1, <3>2
    <2>7. p \notin astray' => ~row.coded
      BY <1>5, <1>9, <1>10
    <2>8. p = row.project /\ folder[f].project = p /\ status' = status
      BY <1>5, <1>8, <1>10
    <2>9. /\ f \in Folders /\ row \in FolderType /\ folder' = [folder EXCEPT ![f] = row]
          /\ astray \subseteq astray' /\ status[p] = "active" /\ (f \in Present => folder[f].project = p)
      BY <1>2, <1>4, <1>5, <1>8, <2>1, <2>8
    <2> QED
      BY <2>2, <2>5, <2>6, <2>7, <2>8, <2>9, ActiveProjectFits
  <1>11. /\ row.parent = Nothing => (row.kind = "root" <=> row.project = Nothing)
         /\ row.parent # Nothing =>
              /\ row.parent \in Present /\ row.kind # "root"
              /\ folder[row.parent].project \in {row.project, Nothing}
         /\ row.project \in Projects \ astray' =>
              (row.kind = "container" <=> row.parent # Nothing /\ folder[row.parent].project = Nothing)
    BY <1>3, <1>5, <1>8 DEF TreeInv, TypeOK, ParentsMatch
  <1>12. RowMayGo(c, f, row)
    BY <1>2, <1>3, <1>5, <1>7, <1>9, <1>11 DEF RowMayGo, UpdateReady
  <1>13. \A p \in Projects : p = row.project => ProjectFits(p)'
    BY <1>5, <1>10
  <1> QED
    BY <1>2, <1>4, <1>5, <1>8, <1>12, <1>13, OneRowFits

\* A folder that moves below folders it is apart from: the trees stay trees.
LEMMA MoveKeepsForest ==
  ASSUME TreeInv, NEW p \in Projects, NEW f \in FoldersOf(p), NEW parent, Apart(p, f, parent),
         folder'[f].parent = parent,
         \A g \in FoldersOf(p) \ {f} : folder'[g].parent = folder[g].parent
  PROVE  StaysForest(p, f)
  <1>1. IsForest(FoldersOf(p)) /\ FoldersOf(p) \cup {f} = FoldersOf(p)
        /\ \A g \in FoldersOf(p) : g \in Folders /\ g # Nothing
    BY TreeAssumption DEF TreeInv, ProjectFits, FoldersOf, Present
  <1>2. PICK S \in SUBSET FoldersOf(p) :
          /\ parent \in S \cup {Nothing} /\ f \notin S
          /\ \A g \in S : folder[g].parent \in S \/ folder[g].parent \notin FoldersOf(p)
    BY DEF Apart
  <1> SUFFICES ASSUME NEW T \in (SUBSET FoldersOf(p)) \ {{}}
               PROVE  \E g \in T : folder'[g].parent \notin T
    BY <1>1 DEF StaysForest
  <1>3. CASE T \cap S # {}
    <2>1. T \cap S \in (SUBSET FoldersOf(p)) \ {{}}
      BY <1>3
    <2>2. PICK g \in T \cap S : folder[g].parent \notin T \cap S
      BY <1>1, <2>1 DEF IsForest
    <2> QED
      BY <1>1, <1>2, <2>2
  <1>4. CASE T \cap S = {} /\ f \in T
    BY <1>1, <1>2, <1>4
  <1>5. CASE f \notin T
    <2>1. PICK g \in T : folder[g].parent \notin T
      BY <1>1 DEF IsForest
    <2> QED
      BY <1>5, <2>1
  <1> QED
    BY <1>3, <1>4, <1>5

LEMMA MoveFolderFits ==
  ASSUME TreeInv, NEW c \in Requests, MoveFolder(c) PROVE TreeInv'
  <1> PICK r : r = request[c]
    OBVIOUS
  <1> PICK f : f = r.folder
    OBVIOUS
  <1> PICK row : row = [folder[f] EXCEPT !.parent = r.parent]
    OBVIOUS
  <1>1. /\ r \in RequestType /\ RequestFits(r) /\ r.step = "write" /\ r.op = "move"
    BY DEF TreeInv, TypeOK, MoveFolder, Writes
  <1>2. MoveReady(r) /\ f \in Folders /\ f \notin Roots
    BY <1>1 DEF RequestFits, MoveReady
  <1>3. f \in Present /\ folder[f] \in FolderType
    BY <1>2, TreeAssumption DEF MoveReady, TreeInv, LocksFit, Exists, TypeOK
  <1>4. folder' = [folder EXCEPT ![f] = row] /\ Finish(c) /\ status' = status /\ kept' = kept
        /\ astray' = astray
    BY DEF MoveFolder
  <1>5. /\ row \in FolderType /\ row.kind = folder[f].kind /\ row.project = folder[f].project
        /\ row.parent = r.parent /\ row.name = folder[f].name /\ row.active = folder[f].active
        /\ row.coded = folder[f].coded
    BY <1>1, <1>2, <1>3 DEF FolderType, RequestType
  <1>6. folder[f].project # Nothing => /\ folder[f].project \in Projects
                                       /\ folder[f].project \in r.held
                                       /\ status[folder[f].project] = "active"
    BY <1>2, <1>3 DEF MoveReady, FolderType, OrNothing
  <1>7. \A b \in Requests \ {c} : folder[f].project \notin request[b].held \cap Projects
    BY <1>6, TreeAssumption DEF TreeInv, LocksFit
  <1>8. folder[f].project \in Projects \ astray => ~row.coded /\ row.kind # "container"
    <2>1. ASSUME folder[f].project \in Projects \ astray
          PROVE  f \in FoldersOf(folder[f].project) /\ status[folder[f].project] = "active"
      BY <1>3, <1>6, <2>1, TreeAssumption DEF FoldersOf
    <2> QED
      BY <1>5, <2>1, ActiveHasNoContainer
  <1>9. ASSUME NEW p \in Projects, p = folder[f].project PROVE ProjectFits(p)'
    <2>1. folder[f].project # Nothing /\ f \in FoldersOf(p) /\ status[p] = "active"
      BY <1>3, <1>6, <1>9, TreeAssumption DEF FoldersOf
    <2>2. /\ \A g \in FoldersOf(p) \ {f} : folder'[g].parent = folder[g].parent
          /\ folder'[f].parent = r.parent
      BY <1>2, <1>4, <1>5 DEF TreeInv, TypeOK, FoldersOf, Present
    <2>3. StaysForest(p, f)
      BY <1>2, <1>9, <2>1, <2>2, MoveKeepsForest DEF MoveReady
    <2>4. NameStaysFree(f, row)
      BY <1>2, <1>5, <1>9, <2>1 DEF MoveReady, NameIsFree, NameStaysFree
    <2>5. row.kind # "absent" /\ (p \notin astray' => ~row.coded)
      BY <1>3, <1>4, <1>5, <1>8, <1>9 DEF Present
    <2> QED
      BY <1>2, <1>4, <1>5, <1>9, <2>1, <2>3, <2>4, <2>5, ActiveProjectFits
  <1>10. r.parent # Nothing => r.parent \in Present
    BY <1>1, <1>2, TreeAssumption
       DEF MoveReady, TreeInv, LocksFit, Exists, RequestType, OrNothing
  <1>11. RowMayGo(c, f, row)
    <2>1. row.kind # "root"
      BY <1>2, <1>5 DEF TreeInv, RowsFit
    <2>2. /\ row.parent = Nothing => row.project # Nothing
          /\ row.parent # Nothing =>
               row.parent \in Present /\ folder[row.parent].project = row.project
          /\ row.project \in Projects => row.project # Nothing
      BY <1>2, <1>5, <1>10, TreeAssumption DEF MoveReady
    <2> QED
      BY <1>2, <1>3, <1>4, <1>5, <1>7, <1>8, <2>1, <2>2 DEF RowMayGo
  <1>12. \A p \in Projects : p = row.project => ProjectFits(p)'
    BY <1>5, <1>9
  <1>13. astray \subseteq astray' /\ astray' \subseteq Projects
    BY <1>4 DEF TreeInv, TypeOK
  <1> QED
    BY <1>2, <1>4, <1>5, <1>11, <1>12, <1>13, OneRowFits

LEMMA DisableFolderFits ==
  ASSUME TreeInv, NEW c \in Requests, DisableFolder(c) PROVE TreeInv'
  <1> PICK f : f = request[c].folder
    OBVIOUS
  <1> PICK row : row = [folder[f] EXCEPT !.active = FALSE]
    OBVIOUS
  <1>1. f \in Folders /\ f \in Present /\ folder[f] \in FolderType
    BY TreeAssumption DEF TreeInv, TypeOK, RequestFits, DisableFolder, Writes, Exists
  <1>2. /\ folder' = [folder EXCEPT ![f] = row] /\ Finish(c) /\ status' = status /\ kept' = kept
        /\ astray' = astray /\ astray' \subseteq Projects
    BY DEF DisableFolder, TreeInv, TypeOK
  <1>3. /\ row \in FolderType /\ row.kind = folder[f].kind /\ row.project = folder[f].project
        /\ row.parent = folder[f].parent /\ row.name = folder[f].name /\ row.active = FALSE
        /\ row.coded = folder[f].coded
    BY <1>1 DEF FolderType
  <1>4. ASSUME NEW p \in Projects PROVE ProjectFits(p)'
    <2>1. PlacesStand(p)
      BY <1>1, <1>2, <1>3 DEF PlacesStand, KeepsPlace, TreeInv, TypeOK
    <2> QED
      BY <1>2, <2>1, ProjectStaysFit
  <1>5. RowMayGo(c, f, row)
    <2>1. /\ row.parent = Nothing => (row.kind = "root" <=> row.project = Nothing)
          /\ row.parent # Nothing =>
               /\ row.parent \in Present /\ row.kind # "root"
               /\ folder[row.parent].project \in {row.project, Nothing}
          /\ row.project \in Projects \ astray' =>
               /\ row.kind = "container" <=> row.parent # Nothing /\ folder[row.parent].project = Nothing
               /\ row.coded <=> row.kind = "container"
      BY <1>1, <1>2, <1>3 DEF TreeInv, TypeOK, ParentsMatch, RowsFit
    <2> QED
      BY <1>1, <1>3, <2>1 DEF RowMayGo
  <1> QED
    BY <1>1, <1>2, <1>3, <1>4, <1>5, OneRowFits

LEMMA CreateProjectFits ==
  ASSUME TreeInv, CreateProject PROVE TreeInv'
  <1>1. PICK p \in Projects, at \in [Standard -> FreeFolders] :
          /\ status[p] = "absent" /\ \A c \in Requests : request[c].project # p
          /\ \A m, n \in Standard : m # n => at[m] # at[n]
          /\ status' = [status EXCEPT ![p] = "active"]
          /\ folder' = [f \in Folders |->
               IF \E n \in Standard : at[n] = f
                 THEN [kind |-> "folder", project |-> p, parent |-> Nothing,
                       name |-> CHOOSE n \in Standard : at[n] = f, coded |-> FALSE, active |-> TRUE]
                 ELSE folder[f]]
          /\ request' = request /\ kept' = kept /\ astray' = astray
    BY DEF CreateProject
  <1> DEFINE New == {f \in Folders : \E n \in Standard : at[n] = f}
  <1>2. ASSUME NEW f \in New
        PROVE  /\ f \in Folders /\ f \in FreeFolders /\ f \notin Present /\ folder'[f] \in FolderType
               /\ folder'[f].kind = "folder" /\ folder'[f].project = p /\ folder'[f].parent = Nothing
               /\ folder'[f].name \in Standard /\ at[folder'[f].name] = f /\ ~folder'[f].coded
    <2>1. PICK n \in Standard : at[n] = f
      OBVIOUS
    <2>2. folder'[f] = [kind |-> "folder", project |-> p, parent |-> Nothing,
                        name |-> CHOOSE m \in Standard : at[m] = f, coded |-> FALSE, active |-> TRUE]
      BY <1>1
    <2>3. f \in Folders /\ f \in FreeFolders /\ f \notin Present
      BY <2>1 DEF FreeFolders
    <2>4. (CHOOSE m \in Standard : at[m] = f) \in Standard /\ at[CHOOSE m \in Standard : at[m] = f] = f
      BY <2>1
    <2> QED
      BY <2>2, <2>3, <2>4, TreeAssumption DEF FolderType, FolderName, OrNothing
  <1>3. \A f \in Folders : f \notin New => folder'[f] = folder[f]
    BY <1>1
  <1>4. DOMAIN folder' = Folders /\ folder' = [f \in Folders |-> folder'[f]]
    BY <1>1
  <1> HIDE DEF New
  <1>5. /\ Present' = Present \cup New /\ p # Nothing /\ FoldersOf(p) = {}
        /\ New \in SUBSET Folders
    <2>1. New \in SUBSET Folders /\ p # Nothing /\ FoldersOf(p) = {}
      BY <1>1, TreeAssumption DEF New, TreeInv, RowsFit
    <2> QED
      BY <1>2, <1>3, <2>1 DEF Present
  <1>6. TreeTyped'
    <2>1. ParentsMatch'
      <3> SUFFICES ASSUME NEW g \in Present'
                   PROVE  LET own == folder'[g] IN
                     /\ own.parent = Nothing => (own.kind = "root" <=> own.project = Nothing)
                     /\ own.parent # Nothing =>
                          /\ own.parent \in Present' /\ own.kind # "root"
                          /\ folder'[own.parent].project \in {own.project, Nothing}
                     /\ own.project \in Projects \ astray' =>
                          (own.kind = "container"
                             <=> own.parent # Nothing /\ folder'[own.parent].project = Nothing)
        BY DEF ParentsMatch
      <3>1. CASE g \in New
        BY <1>2, <1>5, <3>1
      <3>2. CASE g \notin New
        <4>1. g \in Present /\ folder'[g] = folder[g] /\ ParentsMatch
          BY <1>3, <1>5, <3>2 DEF TreeInv, TypeOK, Present
        <4>2. \A x \in Present : folder'[x] = folder[x]
          BY <1>2, <1>3 DEF Present
        <4>3. astray' = astray /\ \A x \in Present : x \in Present'
          BY <1>1, <1>5
        <4>4. CASE folder[g].parent = Nothing
          BY <4>1, <4>3, <4>4 DEF ParentsMatch
        <4>5. CASE folder[g].parent # Nothing
          BY <4>1, <4>2, <4>3, <4>5 DEF ParentsMatch
        <4> QED
          BY <4>4, <4>5
      <3> QED
        BY <3>1, <3>2
    <2>2. folder' \in [Folders -> FolderType]
      <3>1. \A f \in Folders : folder'[f] \in FolderType
        BY <1>2, <1>3 DEF TreeInv, TypeOK
      <3> QED
        BY <1>4, <3>1
    <2> QED
      BY <1>1, <2>1, <2>2 DEF TreeInv, TypeOK, TreeTyped
  <1>7. RowsFit'
    <2>1. \A f \in Roots : f \in Folders /\ f \notin New
      BY <1>2, TreeAssumption DEF TreeInv, RowsFit, Present
    <2>2. \A f \in Folders : f \in New => f \notin Roots
      BY <2>1
    <2>3. \A q \in Projects : status'[q] = "absent" => FoldersOf(q)' = {}
      BY <1>1, <1>2, <1>3, <1>5 DEF TreeInv, TypeOK, RowsFit, FoldersOf, Present
    <2> QED
      BY <1>1, <1>2, <1>3, <1>5, <2>1, <2>2, <2>3 DEF TreeInv, RowsFit
  <1>8. ASSUME NEW q \in Projects, q # p PROVE PlacesStand(q)
    BY <1>2, <1>3, <1>5, <1>8, TreeAssumption DEF PlacesStand, KeepsPlace, TreeInv, RowsFit, Present
  <1>9. ASSUME NEW q \in Projects PROVE ProjectFits(q)'
    <2>1. CASE q # p
      BY <1>1, <1>8, <2>1, ProjectStaysFit DEF TreeInv, TypeOK
    <2>2. CASE q = p
      <3>1. \A f \in FoldersOf(p)' : f \in New
        BY <1>3, <1>5 DEF FoldersOf, Present
      <3>2. Containers(p)' = {}
        BY <1>2, <3>1 DEF Containers
      <3>3. IsForest(FoldersOf(p))'
        BY <1>2, <1>5, <3>1, TreeAssumption DEF IsForest
      <3>4. SiblingsDiffer(p)'
        BY <1>2, <3>1 DEF SiblingsDiffer
      <3>5. status'[p] = "active"
        BY <1>1 DEF TreeInv, TypeOK
      <3> QED
        BY <2>2, <3>2, <3>3, <3>4, <3>5 DEF ProjectFits
    <2> QED
      BY <2>1, <2>2
  <1>10. ASSUME NEW b \in Requests PROVE StaysTrue(b)
    <2>1. \A q \in request[b].held \cap Projects : q # p
      BY <1>1, TreeAssumption DEF TreeInv, LocksFit, Exists, Present
    <2>2. \A f \in request[b].held \cap Folders : f \in Present
      BY TreeAssumption DEF TreeInv, LocksFit, Exists
    <2>3. \A f \in Present : f \in Present' /\ folder'[f] = folder[f]
      BY <1>2, <1>3, <1>5 DEF Present
    <2>4. request[b].container \in Present' => request[b].container \in Present
      BY <1>2, <1>5 DEF FreeFolders
    <2>5. \A q \in Projects : q # p => status'[q] = status[q]
      BY <1>1 DEF TreeInv, TypeOK
    <2> QED
      BY <1>1, <1>8, <2>1, <2>2, <2>3, <2>4, <2>5 DEF StaysTrue
  <1>11. RequestsEnd({}) /\ {} \in SUBSET Requests
    BY <1>1 DEF RequestsEnd, TreeInv, TypeOK
  <1> QED
    BY <1>6, <1>7, <1>9, <1>10, <1>11, CommitFits

LEMMA DeleteProjectFits ==
  ASSUME TreeInv, NEW c \in Requests, DeleteProject(c) PROVE TreeInv'
  <1> PICK p : p = request[c].project
    OBVIOUS
  <1> PICK Gone : Gone = FoldersOf(p)
    OBVIOUS
  <1>1. p \in Projects /\ p # Nothing
    BY TreeAssumption DEF DeleteProject, Writes, TreeInv, RequestFits
  <1>2. /\ folder' = [f \in Folders |-> IF f \in Gone THEN NoFolder ELSE folder[f]]
        /\ status' = [status EXCEPT ![p] = "absent"] /\ kept' = [kept EXCEPT ![p] = {}]
        /\ astray' = astray \ {p}
        /\ Finish(c) /\ \A row \in {p} \cup Gone : ~HeldByOther(c, row)
    BY DEF DeleteProject, Writes
  <1>3. /\ \A f \in Gone : f \in Folders /\ f \in Present /\ folder[f].project = p
        /\ \A f \in Present \ Gone : folder[f].project # p
    BY DEF FoldersOf, Present
  <1>4. /\ \A f \in Folders \ Gone : folder'[f] = folder[f]
        /\ \A f \in Gone : folder'[f] = NoFolder
    BY <1>2, <1>3
  <1>5. NoFolder \in FolderType /\ NoFolder.kind = "absent" /\ NoFolder.project = Nothing
    BY DEF NoFolder, FolderType, FolderName, OrNothing
  <1>6. Present' = Present \ Gone
    BY <1>3, <1>4, <1>5 DEF Present
  <1>7. TreeTyped'
    <2>1. ParentsMatch'
      <3> SUFFICES ASSUME NEW g \in Present'
                   PROVE  LET own == folder'[g] IN
                     /\ own.parent = Nothing => (own.kind = "root" <=> own.project = Nothing)
                     /\ own.parent # Nothing =>
                          /\ own.parent \in Present' /\ own.kind # "root"
                          /\ folder'[own.parent].project \in {own.project, Nothing}
                     /\ own.project \in Projects \ astray' =>
                          (own.kind = "container"
                             <=> own.parent # Nothing /\ folder'[own.parent].project = Nothing)
        BY DEF ParentsMatch
      <3>1. g \in Present /\ g \in Folders /\ folder'[g] = folder[g] /\ folder[g].project # p
        BY <1>3, <1>4, <1>6 DEF Present
      <3>2. ParentsMatch
        BY DEF TreeInv, TypeOK
      <3>3. ASSUME folder[g].parent # Nothing
            PROVE  /\ folder[g].parent \in Present \ Gone
                   /\ folder'[folder[g].parent] = folder[folder[g].parent]
        BY <1>1, <1>3, <1>4, <3>1, <3>2, <3>3 DEF ParentsMatch, Present
      <3> QED
        BY <1>2, <1>6, <3>1, <3>2, <3>3 DEF ParentsMatch
    <2>2. folder' \in [Folders -> FolderType]
      BY <1>2, <1>5 DEF TreeInv, TypeOK
    <2>3. \A q \in Projects : kept'[q] \subseteq Folders \X OrNothing(Folders) \X FolderName
      BY <1>1, <1>2 DEF TreeInv, TypeOK
    <2> QED
      BY <1>1, <1>2, <2>1, <2>2, <2>3 DEF TreeInv, TypeOK, TreeTyped
  <1>8. ASSUME NEW q \in Projects, q # p PROVE PlacesStand(q)
    BY <1>3, <1>4, <1>5, <1>8, TreeAssumption DEF PlacesStand, KeepsPlace
  <1>9. FoldersOf(p)' = {}
    BY <1>3, <1>4, <1>6 DEF FoldersOf, Present
  <1>10. RowsFit'
    <2>1. \A f \in Roots : f \in Folders \ Gone
      <3>1. ParentsMatch /\ RowsFit
        BY DEF TreeInv, TypeOK
      <3>2. \A f \in Roots : f \in Present /\ folder[f].project = Nothing
        BY <3>1, TreeAssumption DEF ParentsMatch, RowsFit, Present
      <3> QED
        BY <1>1, <1>3, <3>2 DEF Present
    <2>2. \A q \in Projects : status'[q] = "absent" => FoldersOf(q)' = {}
      <3>1. \A q \in Projects : q # p => FoldersOf(q)' = FoldersOf(q) /\ status'[q] = status[q]
        BY <1>2, <1>8, ProjectStands DEF TreeInv, TypeOK
      <3> QED
        BY <1>9, <3>1 DEF TreeInv, RowsFit
    <2>3. Nothing \notin Projects
      BY TreeAssumption
    <2>4. \A f \in Gone : f \notin Roots
      BY <2>1
    <2>5. \A f \in Folders \ Gone : folder[f].project # p
      BY <1>1, <1>3 DEF TreeInv, RowsFit, Present
    <2>6. \A f \in Folders : folder'[f].project \in Projects \ astray' =>
            f \notin Gone /\ folder[f].project \in Projects \ astray
      BY <1>2, <1>4, <1>5, <2>3, <2>5
    <2> QED
      BY <1>4, <1>5, <2>1, <2>2, <2>4, <2>6 DEF TreeInv, RowsFit
  <1>11. ASSUME NEW q \in Projects PROVE ProjectFits(q)'
    <2>1. CASE q # p
      BY <1>2, <1>8, <2>1, ProjectStaysFit DEF TreeInv, TypeOK
    <2>2. CASE q = p
      BY <1>1, <1>2, <1>9, <2>2 DEF ProjectFits, Containers, IsForest, SiblingsDiffer, TreeInv, TypeOK
    <2> QED
      BY <2>1, <2>2
  <1>12. ASSUME NEW b \in Requests \ {c} PROVE StaysTrue(b)
    <2>1. \A q \in request[b].held \cap Projects : q # p
      BY <1>2 DEF HeldByOther
    <2>2. \A f \in request[b].held \cap Folders : f \in Folders \ Gone /\ f \in Present
      BY <1>2, TreeAssumption DEF HeldByOther, TreeInv, LocksFit, Exists
    <2>3. \A f \in Present : folder[f].project = Nothing => f \in Present' /\ folder'[f] = folder[f]
      BY <1>1, <1>3, <1>4, <1>6 DEF Present
    <2>4. \A q \in Projects : q # p => status'[q] = status[q]
      BY <1>2 DEF TreeInv, TypeOK
    <2>5. \A f \in Present' : f \in Present /\ folder'[f] = folder[f]
      BY <1>4, <1>6 DEF Present
    <2> QED
      BY <1>2, <1>4, <1>6, <1>8, <1>9, <2>1, <2>2, <2>3, <2>4, <2>5 DEF StaysTrue
  <1>13. {c} \in SUBSET Requests /\ RequestsEnd({c})
    BY <1>2, FinishEnds
  <1> QED
    BY <1>7, <1>10, <1>11, <1>12, <1>13, CommitFits

\* What Hang writes: a folder of the year and a container when there were none, the top
\* level into the container; no other folder changes.
HangPlaces(p, year, box) ==
  /\ folder' \in [Folders -> FolderType] /\ Present' = Present \cup {year, box}
  /\ folder'[year].project = Nothing /\ folder'[year].kind = "year"
  /\ year \in Present => /\ folder[year].project = Nothing /\ year \notin Roots
                         /\ folder'[year].parent = folder[year].parent
                         /\ folder'[year].name = folder[year].name
  /\ year \notin Present => folder'[year].parent = ArchiveRoot
  /\ folder'[box].project = p /\ folder'[box].parent = year
  /\ folder'[box].name = p /\ folder'[box].coded
  /\ folder'[box].kind = IF box \in Present THEN folder[box].kind ELSE "container"
  /\ box \in Present => box \in Containers(p)
  /\ \A f \in TopLevel(p) \ {box} :
       /\ f # year /\ f \in Present
       /\ folder'[f].parent = box /\ folder'[f].kind = folder[f].kind
       /\ folder'[f].project = folder[f].project /\ folder'[f].name = folder[f].name
       /\ folder'[f].coded = folder[f].coded /\ folder'[f].active = folder[f].active
  /\ \A f \in Folders : f \notin TopLevel(p) \cup {year, box} => folder'[f] = folder[f]

LEMMA HangFits ==
  ASSUME TreeInv, NEW p \in Projects, NEW r \in RequestType, r.project = p, ArchiveReady(r),
         r.yearName \in Years, NEW year \in Folders, NEW box \in Folders, year # box,
         IF r.year = Nothing THEN year \notin Present ELSE year = r.year,
         IF r.container = Nothing THEN box \notin Present ELSE box = r.container,
         folder' = Hang(r, year, box)
  PROVE  HangPlaces(p, year, box)
  <1>1. /\ p # Nothing /\ year # Nothing /\ box # Nothing /\ ParentsMatch
        /\ folder \in [Folders -> FolderType]
    BY TreeAssumption DEF TreeInv, TypeOK
  <1>2. /\ year \in Present => r.year = year /\ folder[year].project = Nothing /\ year \notin Roots
        /\ year \notin Present => r.year = Nothing
        /\ box \in Present => r.container = box /\ box \in Containers(p)
        /\ box \notin Present => r.container = Nothing
    BY <1>1 DEF ArchiveReady, Containers, FoldersOf
  <1>3. \A f \in TopLevel(p) : /\ f \in Present /\ f \in Folders /\ folder[f].project = p
                               /\ folder[f].parent = Nothing /\ f # year
    BY <1>1, <1>2 DEF TopLevel, FoldersOf, Present
  <1>4. \A f \in Folders : folder'[f] =
          CASE f = year /\ r.year = Nothing ->
                 [kind |-> "year", project |-> Nothing, parent |-> ArchiveRoot,
                  name |-> r.yearName, coded |-> FALSE, active |-> TRUE]
            [] f = year /\ r.year # Nothing ->
                 [folder[f] EXCEPT !.kind = "year", !.active = @ \/ f \in r.revive]
            [] f = box /\ r.container = Nothing ->
                 [kind |-> "container", project |-> p, parent |-> year, name |-> p,
                  coded |-> TRUE, active |-> TRUE]
            [] f = box /\ r.container # Nothing ->
                 [folder[f] EXCEPT !.parent = year, !.name = p, !.active = @ \/ f \in r.revive]
            [] f \in TopLevel(p) \ {box} -> [folder[f] EXCEPT !.parent = box]
            [] OTHER -> folder[f]
    BY DEF Hang
  <1>5. /\ folder'[year] \in FolderType /\ folder'[year].kind = "year"
        /\ folder'[year].project = Nothing
        /\ year \in Present => /\ folder'[year].parent = folder[year].parent
                               /\ folder'[year].name = folder[year].name
        /\ year \notin Present => folder'[year].parent = ArchiveRoot
    <2>1. CASE year \notin Present
      <3>1. folder'[year] = [kind |-> "year", project |-> Nothing, parent |-> ArchiveRoot,
                             name |-> r.yearName, coded |-> FALSE, active |-> TRUE]
        BY <1>2, <1>3, <1>4, <2>1
      <3> QED
        BY <2>1, <3>1, TreeAssumption DEF FolderType, FolderName, OrNothing
    <2>2. CASE year \in Present
      <3>1. PICK a \in BOOLEAN : a = (folder[year].active \/ year \in r.revive)
        OBVIOUS
      <3>2. folder'[year] = [folder[year] EXCEPT !.kind = "year", !.active = a]
        BY <1>1, <1>2, <1>3, <1>4, <2>2, <3>1
      <3>3. PICK t \in FolderType : t = folder[year]
        BY <1>1
      <3>4. /\ folder'[year] \in FolderType /\ folder'[year].kind = "year"
            /\ folder'[year].project = t.project /\ folder'[year].parent = t.parent
            /\ folder'[year].name = t.name
        BY <3>2, <3>3 DEF FolderType
      <3> QED
        BY <1>2, <2>2, <3>3, <3>4
    <2> QED
      BY <2>1, <2>2
  <1>6. /\ folder'[box] \in FolderType /\ folder'[box].project = p
        /\ folder'[box].kind = IF box \in Present THEN folder[box].kind ELSE "container"
        /\ folder'[box].parent = year /\ folder'[box].name = p /\ folder'[box].coded
    <2>1. CASE box \notin Present
      <3>1. folder'[box] = [kind |-> "container", project |-> p, parent |-> year, name |-> p,
                            coded |-> TRUE, active |-> TRUE]
        BY <1>2, <1>4, <2>1
      <3> QED
        BY <2>1, <3>1 DEF FolderType, FolderName, OrNothing
    <2>2. CASE box \in Present
      <3>1. PICK a \in BOOLEAN : a = (folder[box].active \/ box \in r.revive)
        OBVIOUS
      <3>2. folder'[box] = [folder[box] EXCEPT !.parent = year, !.name = p, !.active = a]
        BY <1>1, <1>2, <1>4, <2>2, <3>1
      <3>3. PICK t \in FolderType : t = folder[box]
        BY <1>1
      <3>4. t.project = p /\ t.coded
        BY <1>2, <2>2, <3>3 DEF Containers, FoldersOf
      <3> QED
        BY <2>2, <3>2, <3>3, <3>4 DEF FolderType, FolderName, OrNothing
    <2> QED
      BY <2>1, <2>2
  <1>7. ASSUME NEW f \in TopLevel(p) \ {box}
        PROVE  /\ folder'[f] \in FolderType /\ folder'[f].parent = box
               /\ folder'[f].kind = folder[f].kind /\ folder'[f].project = folder[f].project
               /\ folder'[f].name = folder[f].name /\ folder'[f].coded = folder[f].coded
               /\ folder'[f].active = folder[f].active
    <2>1. folder'[f] = [folder[f] EXCEPT !.parent = box]
      BY <1>3, <1>4
    <2>2. folder[f] \in FolderType
      BY <1>1, <1>3
    <2> QED
      BY <2>1, <2>2 DEF FolderType, OrNothing
  <1>8. ASSUME NEW f \in Folders, f \notin TopLevel(p) \cup {year, box}
        PROVE  folder'[f] = folder[f]
    BY <1>4, <1>8
  <1>9. folder' \in [Folders -> FolderType]
    <2>1. \A f \in Folders : folder'[f] \in FolderType
      BY <1>1, <1>5, <1>6, <1>7, <1>8
    <2> QED
      BY <2>1 DEF Hang
  <1>10. Present' = Present \cup {year, box}
    <2>1. folder'[box].kind # "absent"
      BY <1>6 DEF Present
    <2> QED
      BY <1>3, <1>5, <1>7, <1>8, <2>1 DEF Present
  <1> QED
    BY <1>2, <1>3, <1>5, <1>6, <1>7, <1>8, <1>9, <1>10 DEF HangPlaces

\* Every row that was there stays in its project.
LEMMA HangKeepsOwners ==
  ASSUME TreeInv, NEW p \in Projects, NEW year \in Folders, NEW box \in Folders,
         year # box, HangPlaces(p, year, box), NEW f \in Present
  PROVE  /\ f \in Folders /\ f \in Present' /\ folder'[f].project = folder[f].project
         /\ f # year => folder'[f].kind = folder[f].kind /\ folder'[f].coded = folder[f].coded
         /\ folder[f].project # p => folder'[f].parent = folder[f].parent /\ folder'[f].name = folder[f].name
  <1> USE DEF HangPlaces
  <1>1. f \in Folders /\ f \in Present' /\ p # Nothing
    BY TreeAssumption DEF Present
  <1>2. CASE f = year
    BY <1>1, <1>2
  <1>3. CASE f = box
    BY <1>1, <1>3 DEF Containers, FoldersOf
  <1>4. CASE f \in TopLevel(p) \ {box}
    BY <1>1, <1>4 DEF TopLevel, FoldersOf
  <1>5. CASE f \notin TopLevel(p) \cup {year, box}
    BY <1>1, <1>5
  <1> QED
    BY <1>2, <1>3, <1>4, <1>5

\* The rows after archiving: still typed, and each parent still matches.
LEMMA HangKeepsRows ==
  ASSUME TreeInv, NEW p \in Projects, status[p] # "absent", NEW year \in Folders, NEW box \in Folders,
         year # box, HangPlaces(p, year, box), status' = [status EXCEPT ![p] = "archived"],
         kept' = kept \/ kept' = [kept EXCEPT ![p] = Tree(p)], astray' = astray
  PROVE  TreeTyped' /\ RowsFit' /\ \A q \in Projects : q # p => PlacesStand(q)
  <1> USE DEF HangPlaces
  <1>1. /\ p # Nothing /\ year # Nothing /\ box # Nothing /\ ParentsMatch /\ RowsFit /\ Nothing \notin Projects
        /\ folder \in [Folders -> FolderType] /\ status \in [Projects -> {"absent", "active", "archived"}]
    BY TreeAssumption DEF TreeInv, TypeOK
  <1>2. \A f \in Present : /\ f \in Folders /\ f \in Present' /\ folder'[f].project = folder[f].project
                           /\ f # year => folder'[f].kind = folder[f].kind /\ folder'[f].coded = folder[f].coded
    BY HangKeepsOwners
  <1>3. ArchiveRoot \in Present /\ ArchiveRoot # year /\ folder[ArchiveRoot].project = Nothing
        /\ ArchiveRoot # Nothing
    BY <1>1, TreeAssumption DEF RowsFit, ParentsMatch, Present
  <1>4. \A f \in TopLevel(p) : f \in Present /\ folder[f].project = p /\ folder[f].parent = Nothing
    BY DEF TopLevel, FoldersOf
  <1>5. ParentsMatch'
    <2> SUFFICES ASSUME NEW g \in Present'
                 PROVE  LET own == folder'[g] IN
                   /\ own.parent = Nothing => (own.kind = "root" <=> own.project = Nothing)
                   /\ own.parent # Nothing =>
                        /\ own.parent \in Present' /\ own.kind # "root"
                        /\ folder'[own.parent].project \in {own.project, Nothing}
                   /\ own.project \in Projects \ astray' =>
                        (own.kind = "container"
                           <=> own.parent # Nothing /\ folder'[own.parent].project = Nothing)
      BY DEF ParentsMatch
    <2>1. CASE g = box
      <3>1. box \in Present => folder[box].kind # "root" /\ (p \notin astray => folder[box].kind = "container")
        BY <1>1 DEF Containers, FoldersOf, RowsFit, ParentsMatch
      <3> QED
        BY <1>1, <2>1, <3>1
    <2>2. CASE g = year
      <3>1. CASE year \notin Present
        BY <1>1, <1>2, <1>3, <2>2, <3>1
      <3>2. CASE year \in Present
        <4>1. folder[year].kind # "root" /\ folder[year].parent # Nothing
          BY <1>1, <3>2 DEF RowsFit, ParentsMatch
        <4>2. folder[year].parent \in Present /\ folder[folder[year].parent].project = Nothing
          BY <1>1, <3>2, <4>1 DEF ParentsMatch
        <4> QED
          BY <1>1, <1>2, <2>2, <3>2, <4>1, <4>2
      <3> QED
        BY <3>1, <3>2
    <2>3. CASE g \in TopLevel(p) \ {box}
      <3>1. folder[g].kind # "root" /\ (p \notin astray => folder[g].kind # "container")
        BY <1>1, <1>4, <2>3 DEF ParentsMatch
      <3> QED
        BY <1>1, <1>4, <2>3, <3>1
    <2>4. CASE g \in Present /\ g \notin TopLevel(p) \cup {box, year}
      <3>1. folder'[g] = folder[g] /\ g \in Folders
        BY <2>4 DEF Present
      <3>2. CASE folder[g].parent = Nothing
        BY <1>1, <2>4, <3>1, <3>2 DEF ParentsMatch
      <3>3. CASE folder[g].parent # Nothing
        BY <1>1, <1>2, <2>4, <3>1, <3>3 DEF ParentsMatch
      <3> QED
        BY <3>2, <3>3
    <2> QED
      BY <2>1, <2>2, <2>3, <2>4
  <1>6. ASSUME NEW q \in Projects, q # p PROVE PlacesStand(q)
    <2> SUFFICES ASSUME NEW f \in Folders, folder[f].project = q \/ folder'[f].project = q
                 PROVE  KeepsPlace(f) /\ (folder'[f].active => folder[f].active)
      BY DEF PlacesStand
    <2>1. f # year /\ f # box
      BY <1>1, <1>2, <1>6 DEF RowsFit, Present
    <2>2. f \notin TopLevel(p)
      BY <1>2, <1>4, <1>6
    <2> QED
      BY <2>1, <2>2 DEF KeepsPlace
  <1>7. RowsFit'
    <2>0. /\ \A f \in Folders : f \notin Present \cup {year, box} => folder'[f] = folder[f]
          /\ box \in Present => folder[box].project = p /\ folder[box].coded
          /\ \A f \in Roots : f \in Present /\ f # year /\ folder[f].project = Nothing
      <3>1. \A f \in Roots : f \in Folders /\ f \in Present /\ folder[f].project = Nothing
        BY <1>1, TreeAssumption DEF RowsFit, ParentsMatch, Present
      <3> QED
        BY <1>1, <1>4, <3>1 DEF Containers, FoldersOf
    <2>1. \A f \in Folders : folder'[f].kind = "root" <=> f \in Roots
      <3>1. \A f \in Folders : f # year /\ f # box => folder'[f].kind = folder[f].kind
        BY <1>2, <2>0
      <3>2. box \notin Roots /\ folder'[box].kind # "root"
        BY <1>1, <2>0 DEF RowsFit
      <3> QED
        BY <1>1, <2>0, <3>1, <3>2 DEF RowsFit
    <2>2. \A f \in Roots : folder'[f].name = f
      BY <1>1, <2>0, HangKeepsOwners DEF RowsFit
    <2>3. \A f \in Folders : folder'[f].kind \in {"absent", "year"} => folder'[f].project = Nothing
      <3>1. folder'[box].kind \notin {"absent", "year"}
        BY <1>1, <2>0 DEF RowsFit, Present
      <3> QED
        BY <1>1, <1>2, <2>0, <3>1 DEF RowsFit
    <2>4. \A f \in Folders : folder'[f].kind = "container" => folder'[f].project # Nothing
      BY <1>1, <1>2, <2>0 DEF RowsFit
    <2>5. \A f \in Folders : folder'[f].project \in Projects \ astray' =>
            (folder'[f].coded <=> folder'[f].kind = "container")
      <3>1. p \notin astray => folder'[box].kind = "container"
        BY <1>1, <2>0 DEF RowsFit
      <3> QED
        BY <1>1, <1>2, <2>0, <3>1 DEF RowsFit
    <2>6. \A q \in Projects : status'[q] = "absent" => FoldersOf(q)' = {}
      BY <1>1, <1>6, ProjectStands DEF RowsFit
    <2> QED
      BY <2>1, <2>2, <2>3, <2>4, <2>5, <2>6 DEF RowsFit
  <1>8. TreeTyped'
    <2>1. Tree(p) \subseteq Folders \X OrNothing(Folders) \X FolderName
      <3> SUFFICES ASSUME NEW f \in FoldersOf(p), folder[f].kind = "folder"
                   PROVE  f \in Folders /\ folder[f].parent \in OrNothing(Folders) /\ folder[f].name \in FolderName
        BY DEF Tree
      <3> QED
        BY <1>1 DEF FoldersOf, Present, FolderType
    <2>2. \A q \in Projects : kept'[q] \subseteq Folders \X OrNothing(Folders) \X FolderName
      BY <2>1 DEF TreeInv, TypeOK
    <2>3. DOMAIN kept' = Projects /\ astray' \subseteq Projects
      BY DEF TreeInv, TypeOK
    <2> QED
      BY <1>1, <1>5, <2>2, <2>3 DEF TreeTyped
  <1> QED
    BY <1>6, <1>7, <1>8

\* The trees of the project are still trees, whatever folder is taken for the container.
LEMMA HangKeepsForest ==
  ASSUME TreeInv, NEW p \in Projects, NEW year \in Folders, NEW box \in Folders,
         year # box, HangPlaces(p, year, box)
  PROVE  /\ FoldersOf(p)' = FoldersOf(p) \cup {box} /\ year \notin FoldersOf(p)
         /\ IsForest(FoldersOf(p))'
  <1> USE DEF HangPlaces
  <1>1. p # Nothing /\ RowsFit
    BY TreeAssumption DEF TreeInv
  <1>2. \A f \in FoldersOf(p) : f \in Folders /\ f \in Present /\ f # year /\ folder[f].project = p
    BY <1>1 DEF FoldersOf, Present
  <1>3. FoldersOf(p)' = FoldersOf(p) \cup {box}
    <2>1. \A f \in Present : f \in Present' /\ folder'[f].project = folder[f].project
      BY HangKeepsOwners
    <2> QED
      BY <1>1, <2>1 DEF FoldersOf
  <1>4. \A f \in FoldersOf(p) \ {box} : folder'[f].parent \in {box, folder[f].parent}
    BY <1>2 DEF TopLevel
  <1>5. IsForest(FoldersOf(p))'
    <2> SUFFICES ASSUME NEW S \in (SUBSET (FoldersOf(p) \cup {box})) \ {{}}
                 PROVE  \E f \in S : folder'[f].parent \notin S
      BY <1>3 DEF IsForest
    <2>1. year \notin FoldersOf(p)
      BY <1>2
    <2>2. CASE box \in S
      BY <2>1, <2>2
    <2>3. CASE box \notin S
      <3>1. PICK f \in S : folder[f].parent \notin S
        BY <2>3 DEF TreeInv, ProjectFits, IsForest
      <3> QED
        BY <1>4, <2>3, <3>1
    <2> QED
      BY <2>2, <2>3
  <1> QED
    BY <1>2, <1>3, <1>5

\* The project after archiving: one container, nothing else at the top, and its tree kept.
LEMMA HangKeepsProject ==
  ASSUME TreeInv, NEW p \in Projects, status[p] # "absent", NEW year \in Folders, NEW box \in Folders,
         year # box, HangPlaces(p, year, box), Containers(p) \subseteq {box},
         status' = [status EXCEPT ![p] = "archived"],
         kept' = IF status[p] = "active" THEN [kept EXCEPT ![p] = Tree(p)] ELSE kept,
         astray' = astray
  PROVE  ProjectFits(p)'
  <1> USE DEF HangPlaces
  <1>1. /\ p # Nothing /\ year # Nothing /\ box # Nothing /\ ParentsMatch /\ RowsFit
        /\ folder \in [Folders -> FolderType] /\ status[p] \in {"active", "archived"}
    BY TreeAssumption DEF TreeInv, TypeOK
  <1>2. \A f \in FoldersOf(p) : /\ f \in Folders /\ f \in Present /\ folder[f].project = p /\ f # year
                                /\ folder'[f].project = p /\ folder'[f].kind = folder[f].kind
                                /\ folder'[f].coded = folder[f].coded
    BY <1>1, HangKeepsOwners DEF FoldersOf
  <1>3. FoldersOf(p)' = FoldersOf(p) \cup {box} /\ IsForest(FoldersOf(p))' /\ year \notin FoldersOf(p)
    BY HangKeepsForest
  <1> SUFFICES ASSUME p \notin astray
               PROVE  /\ Containers(p)' = {box} /\ TopLevel(p)' = {} /\ kept'[p] = TreeBefore(p)'
                      /\ SiblingsDiffer(p)'
    BY <1>3 DEF ProjectFits, TreeInv, TypeOK
  <1>4. box \in Present \/ Containers(p) = {}
    BY DEF Containers, FoldersOf
  <1>5. TopLevel(p) # {} => box \notin Present
    <2>1. CASE status[p] = "active"
      BY <2>1 DEF TreeInv, ProjectFits
    <2>2. CASE status[p] = "archived"
      BY <2>2 DEF TreeInv, ProjectFits
    <2> QED
      BY <1>1, <2>1, <2>2
  <1>6. \A f \in FoldersOf(p) \ {box} :
          /\ folder'[f].name = folder[f].name /\ folder'[f].active = folder[f].active
          /\ folder'[f].parent = IF folder[f].parent = Nothing THEN box ELSE folder[f].parent
    BY <1>2 DEF TopLevel
  <1>7. TopLevel(p) # {} => \A f \in FoldersOf(p) : folder[f].parent # box
    BY <1>1, <1>2, <1>5 DEF ParentsMatch
  <1>8. Containers(p)' = {box}
    BY <1>2, <1>3 DEF Containers
  <1>9. TopLevel(p)' = {}
    BY <1>1, <1>3, <1>6 DEF TopLevel
  <1>10. folder'[box].kind = "container" /\ (box \in Present => folder[box].kind = "container")
    BY <1>1 DEF Containers, FoldersOf, RowsFit
  <1>11. kept'[p] = TreeBefore(p)'
    <2> DEFINE Own == {g \in FoldersOf(p) : folder[g].kind = "folder"}
    <2>1. {g \in FoldersOf(p) : folder[g].kind = "folder"}' = Own
      BY <1>2, <1>3, <1>10
    <2>2. TreeBefore(p)' =
            {<<f, IF folder'[f].parent = box THEN Nothing ELSE folder'[f].parent, folder'[f].name>> : f \in Own}
      BY <1>8, <2>1 DEF TreeBefore
    <2>3. \A f \in Own : f \in FoldersOf(p) /\ f # box
      BY <1>10 DEF FoldersOf
    <2>4. CASE status[p] = "active"
      <3>1. Containers(p) = {} /\ box \notin Present
        BY <2>4 DEF TreeInv, ProjectFits
      <3>2. \A f \in Own : folder[f].parent # box
        BY <1>1, <1>2, <2>3, <3>1 DEF ParentsMatch
      <3>3. \A f \in Own :
              /\ (IF folder'[f].parent = box THEN Nothing ELSE folder'[f].parent) = folder[f].parent
              /\ folder'[f].name = folder[f].name
        BY <1>1, <1>6, <2>3, <3>2
      <3>4. TreeBefore(p)' = {<<f, folder[f].parent, folder[f].name>> : f \in Own}
        BY <2>2, <3>3
      <3> QED
        BY <2>4, <3>4 DEF Tree, TreeInv, TypeOK
    <2>5. CASE status[p] = "archived"
      <3>1. TopLevel(p) = {} /\ Containers(p) = {box} /\ kept'[p] = TreeBefore(p)
        BY <2>5 DEF TreeInv, ProjectFits
      <3>2. \A f \in Own : /\ folder'[f].parent = folder[f].parent
                           /\ folder'[f].name = folder[f].name
        BY <1>2, <1>6, <2>3, <3>1 DEF TopLevel
      <3>3. TreeBefore(p) =
              {<<f, IF folder[f].parent = box THEN Nothing ELSE folder[f].parent, folder[f].name>> : f \in Own}
        BY <3>1 DEF TreeBefore
      <3> QED
        BY <2>2, <3>1, <3>2, <3>3
    <2> QED
      BY <1>1, <2>4, <2>5
  <1>12. SiblingsDiffer(p)'
    <2> SUFFICES ASSUME NEW f \in (Active \cap FoldersOf(p))', NEW g \in (Active \cap FoldersOf(p))',
                        folder'[f].parent = folder'[g].parent, folder'[f].name = folder'[g].name
                 PROVE  f = g
      BY DEF SiblingsDiffer
    <2>1. ASSUME NEW h \in (Active \cap FoldersOf(p))', h # box
          PROVE  h \in Active \cap FoldersOf(p) /\ folder'[h].parent # year
      <3>1. h \in FoldersOf(p) /\ h \in Present /\ h \in Folders /\ folder[h].active
        BY <1>2, <1>3, <1>6, <2>1 DEF Active
      <3>2. folder[h].kind # "container"
        BY <1>1, <1>2, <1>8, <1>3, <2>1, <3>1 DEF RowsFit, Containers
      <3>3. folder[h].parent # Nothing => folder[folder[h].parent].project = p /\ folder[h].parent \in Present
        BY <1>1, <1>2, <3>1, <3>2 DEF ParentsMatch
      <3> QED
        BY <1>1, <1>2, <1>6, <2>1, <3>1, <3>3 DEF Active
    <2>2. CASE f # box /\ g # box
      <3>1. folder[f].parent = folder[g].parent /\ folder[f].name = folder[g].name
        <4>1. f \in FoldersOf(p) /\ g \in FoldersOf(p)
          BY <2>1, <2>2
        <4>2. f \in TopLevel(p) \/ folder[f].parent # Nothing
          BY <4>1 DEF TopLevel
        <4>3. g \in TopLevel(p) \/ folder[g].parent # Nothing
          BY <4>1 DEF TopLevel
        <4> QED
          BY <1>6, <1>7, <2>2, <4>1, <4>2, <4>3
      <3> QED
        BY <2>1, <2>2, <3>1 DEF TreeInv, ProjectFits, SiblingsDiffer
    <2> QED
      BY <2>1, <2>2
  <1> QED
    BY <1>8, <1>9, <1>11, <1>12

\* archive_project: what its request has found still stands when it writes.
LEMMA ArchiveHangs ==
  ASSUME TreeInv, NEW c \in Requests, ArchiveProject(c)
  PROVE  \E year, box \in Folders :
           /\ year # box /\ HangPlaces(request[c].project, year, box)
           /\ Containers(request[c].project) \subseteq {box}
           /\ \A f \in {year, box} \ Present : f \in FreeFolders
  <1> PICK r : r = request[c]
    OBVIOUS
  <1> PICK p : p = r.project
    OBVIOUS
  <1>1. /\ r \in RequestType /\ RequestFits(r) /\ r.step = "write" /\ r.op = "archive"
    BY DEF TreeInv, TypeOK, ArchiveProject, Writes
  <1>2. ArchiveReady(r) /\ p \in Projects /\ p \in r.held /\ r.yearName \in Years
    BY <1>1 DEF RequestFits, ArchiveReady
  <1>3. PICK year \in IF r.year = Nothing THEN FreeFolders ELSE {r.year},
             box \in IF r.container = Nothing THEN FreeFolders ELSE {r.container} :
          year # box /\ folder' = Hang(r, year, box)
    BY DEF ArchiveProject
  <1>4. year \in Folders /\ box \in Folders
    BY <1>1, <1>3 DEF FreeFolders, RequestType, OrNothing
  <1>5. IF r.year = Nothing THEN year \notin Present ELSE year = r.year
    BY <1>3 DEF FreeFolders
  <1>6. IF r.container = Nothing THEN box \notin Present ELSE box = r.container
    BY <1>3 DEF FreeFolders
  <1>7. HangPlaces(p, year, box)
    BY <1>1, <1>2, <1>3, <1>4, <1>5, <1>6, HangFits
  <1>8. Containers(p) \subseteq {box}
    BY <1>2, <1>3, <1>6 DEF ArchiveReady
  <1>9. \A f \in {year, box} \ Present : f \in FreeFolders
    <2>1. year \notin Present => year \in FreeFolders
      BY <1>2, <1>3 DEF ArchiveReady
    <2>2. box \notin Present => box \in FreeFolders
      <3>1. r.container # Nothing => r.container \in Present
        BY <1>2 DEF ArchiveReady, Containers, FoldersOf
      <3> QED
        BY <1>3, <3>1
    <2> QED
      BY <2>1, <2>2
  <1> QED
    BY <1>3, <1>4, <1>7, <1>8, <1>9

LEMMA ArchiveProjectFits ==
  ASSUME TreeInv, NEW c \in Requests, ArchiveProject(c) PROVE TreeInv'
  <1> PICK r : r = request[c]
    OBVIOUS
  <1> PICK p : p = r.project
    OBVIOUS
  <1>1. /\ r \in RequestType /\ RequestFits(r) /\ r.step = "write" /\ r.op = "archive"
    BY DEF TreeInv, TypeOK, ArchiveProject, Writes
  <1>2. ArchiveReady(r) /\ p \in Projects /\ p \in r.held
    BY <1>1 DEF RequestFits, ArchiveReady
  <1>3. /\ status' = [status EXCEPT ![p] = "archived"] /\ Finish(c) /\ astray' = astray
        /\ kept' = IF status[p] = "active" THEN [kept EXCEPT ![p] = Tree(p)] ELSE kept
    BY DEF ArchiveProject
  <1>4. status[p] # "absent" /\ p \notin Folders
    BY <1>2, TreeAssumption DEF TreeInv, LocksFit, Exists, Present
  <1>5. PICK year \in Folders, box \in Folders :
          /\ year # box /\ HangPlaces(p, year, box) /\ Containers(p) \subseteq {box}
          /\ \A f \in {year, box} \ Present : f \in FreeFolders
    BY ArchiveHangs
  <1>6. TreeTyped' /\ RowsFit' /\ \A q \in Projects : q # p => PlacesStand(q)
    BY <1>2, <1>3, <1>4, <1>5, HangKeepsRows
  <1>7. ProjectFits(p)'
    BY <1>2, <1>3, <1>4, <1>5, HangKeepsProject
  <1>8. \A q \in Projects : q # p => status'[q] = status[q] /\ kept'[q] = kept[q]
    BY <1>3 DEF TreeInv, TypeOK
  <1>9. \A q \in Projects : ProjectFits(q)'
    <2>1. \A q \in Projects : q # p => ProjectFits(q)'
      BY <1>3, <1>6, <1>8, ProjectStaysFit
    <2> QED
      BY <1>7, <2>1
  <1>10. ASSUME NEW b \in Requests \ {c} PROVE StaysTrue(b)
    <2>1. \A q \in request[b].held \cap Projects : q # p
      BY <1>2 DEF TreeInv, LocksFit
    <2>2. \A f \in Present : /\ f \in Present' /\ folder'[f].project = folder[f].project
                             /\ f # year => folder'[f].kind = folder[f].kind
      BY <1>2, <1>5, HangKeepsOwners
    <2>3. \A f \in request[b].held \cap Folders : f \in Present
      BY TreeAssumption DEF TreeInv, LocksFit, Exists
    <2>4. request[b].container \in Present' => request[b].container \in Present
      BY <1>5 DEF HangPlaces, FreeFolders
    <2>5. year \in Present => folder[year].project = Nothing
      BY <1>5 DEF HangPlaces
    <2> QED
      BY <1>3, <1>6, <1>8, <2>1, <2>2, <2>3, <2>4, <2>5 DEF StaysTrue
  <1>11. {c} \in SUBSET Requests /\ RequestsEnd({c})
    BY <1>3, FinishEnds
  <1> QED
    BY <1>6, <1>9, <1>10, <1>11, CommitFits

\* The folders that unarchiving takes out of what it has found for the container
Back(box) == {f \in Present \ box : folder[f].parent \in box}

\* What unarchiving writes: what it has found for the container goes, or is left, and the
\* folders in it are at the top again.
UnhangPlaces(p, box, gone) ==
  /\ p \in Projects /\ status[p] # "absent" /\ box \subseteq FoldersOf(p) /\ gone \in {{}, box}
  /\ p \notin astray => gone = box /\ box \subseteq Containers(p)
  /\ p \notin astray' => p \notin astray /\ (status[p] = "archived" => box = Containers(p))
  /\ astray \subseteq astray' /\ astray' \subseteq Projects
  /\ \A q \in Projects : q # p => (q \in astray' <=> q \in astray)
  /\ status' = [status EXCEPT ![p] = "active"] /\ kept' = [kept EXCEPT ![p] = {}]
  /\ folder' \in [Folders -> FolderType]
  /\ Present' = Present \ gone
  /\ \A f \in gone : folder'[f] = NoFolder
  /\ \A f \in Back(box) :
       /\ f \in FoldersOf(p) /\ folder[f].kind # "root" /\ (p \notin astray => folder[f].kind # "container")
       /\ folder'[f].parent = Nothing /\ folder'[f].kind = folder[f].kind
       /\ folder'[f].project = p /\ folder'[f].name = folder[f].name
       /\ folder'[f].coded = folder[f].coded /\ folder'[f].active = folder[f].active
  /\ \A f \in Folders : f \notin gone \cup Back(box) => folder'[f] = folder[f]

LEMMA UnhangFits ==
  ASSUME TreeInv, NEW c \in Requests, UnarchiveProject(c)
  PROVE  LET p   == request[c].project
             box == {request[c].container} \cap Present
         IN  \E gone : /\ UnhangPlaces(p, box, gone)
                       /\ \A row \in {p} \cup gone : ~HeldByOther(c, row)
  <1> PICK r : r = request[c]
    OBVIOUS
  <1> PICK p : p = r.project
    OBVIOUS
  <1> PICK box : box = {r.container} \cap Present
    OBVIOUS
  <1>1. r \in RequestType /\ RequestFits(r) /\ r.step = "write" /\ r.op = "unarchive"
    BY DEF TreeInv, TypeOK, UnarchiveProject, Writes
  <1>2. /\ p \in Projects /\ p # Nothing /\ p \notin Folders /\ UnarchiveReady(r)
        /\ ParentsMatch /\ RowsFit /\ folder \in [Folders -> FolderType] /\ astray \subseteq Projects
    BY <1>1, TreeAssumption DEF RequestFits, TreeInv, TypeOK
  <1>3. PICK gone \in {{}, box} :
          /\ p \notin astray => gone = box
          /\ Writes(c, "unarchive", {p} \cup Back(box) \cup gone)
          /\ folder' = [f \in Folders |->
               CASE f \in gone -> NoFolder
                 [] f \in Back(box) -> [folder[f] EXCEPT !.parent = Nothing]
                 [] OTHER -> folder[f]]
    BY DEF UnarchiveProject, Back
  <1>4. /\ astray' = IF status[p] = "archived" /\ box # Containers(p) THEN astray \cup {p} ELSE astray
        /\ status' = [status EXCEPT ![p] = "active"] /\ kept' = [kept EXCEPT ![p] = {}]
    BY DEF UnarchiveProject
  <1>5. /\ status[p] # "absent" /\ \A row \in {p} \cup gone : ~HeldByOther(c, row)
    BY <1>2, <1>3 DEF Writes, Exists, Present
  <1>6. /\ box \subseteq FoldersOf(p)
        /\ p \notin astray => box \subseteq Containers(p)
    BY <1>2 DEF UnarchiveReady, FoldersOf, Containers, RowsFit, Present
  <1>7. ASSUME NEW f \in Back(box)
        PROVE  /\ f \in FoldersOf(p) /\ f \in Folders /\ f \notin gone /\ folder[f].kind # "root"
               /\ p \notin astray => folder[f].kind # "container"
    <2>1. f \in Present /\ f \in Folders /\ folder[f].parent \in FoldersOf(p) /\ f \notin box
      BY <1>6 DEF Back, Present
    <2>2. folder[f].parent # Nothing /\ folder[folder[f].parent].project = p
      BY <2>1, TreeAssumption DEF FoldersOf, Present
    <2> QED
      BY <1>2, <1>3, <2>1, <2>2 DEF ParentsMatch, FoldersOf
  <1>8. ASSUME NEW f \in Back(box)
        PROVE  /\ folder'[f] \in FolderType /\ folder'[f].parent = Nothing
               /\ folder'[f].kind = folder[f].kind /\ folder'[f].project = folder[f].project
               /\ folder'[f].name = folder[f].name /\ folder'[f].coded = folder[f].coded
               /\ folder'[f].active = folder[f].active
    <2>1. PICK t \in FolderType : t = folder[f]
      BY <1>2, <1>7
    <2>2. folder'[f] = [t EXCEPT !.parent = Nothing]
      BY <1>3, <1>7, <2>1
    <2> QED
      BY <2>1, <2>2 DEF FolderType, OrNothing
  <1>9. \A f \in Folders : f \notin gone \cup Back(box) => folder'[f] = folder[f]
    BY <1>3
  <1>10. NoFolder \in FolderType /\ NoFolder.kind = "absent"
    BY DEF NoFolder, FolderType, FolderName, OrNothing
  <1>11. /\ gone \in {{}, box} /\ gone \subseteq FoldersOf(p)
         /\ \A f \in gone : f \in Folders /\ f \in Present /\ folder'[f] = NoFolder
    <2>1. gone \in {{}, box} /\ gone \subseteq FoldersOf(p)
      BY <1>3, <1>6
    <2>2. \A f \in gone : f \in Folders /\ f \in Present
      BY <2>1 DEF FoldersOf, Present
    <2>3. \A f \in Folders : f \in gone => f \notin Back(box) /\ folder'[f] = NoFolder
      BY <1>3, <1>7
    <2> QED
      BY <2>1, <2>2, <2>3
  <1>12. folder' \in [Folders -> FolderType]
    <2>1. \A f \in Folders : folder'[f] \in FolderType
      BY <1>2, <1>8, <1>9, <1>10, <1>11
    <2> QED
      BY <1>3, <2>1
  <1>13. Present' = Present \ gone
    BY <1>7, <1>8, <1>9, <1>10, <1>11 DEF Present
  <1>14. \A f \in Back(box) : folder'[f].project = p
    BY <1>7, <1>8 DEF FoldersOf
  <1>15. /\ astray \subseteq astray' /\ astray' \subseteq Projects
         /\ \A q \in Projects : q # p => (q \in astray' <=> q \in astray)
         /\ p \notin astray' => p \notin astray /\ (status[p] = "archived" => box = Containers(p))
    BY <1>2, <1>4
  <1>16. UnhangPlaces(p, box, gone)
    <2>1. /\ p \in Projects /\ status[p] # "absent" /\ box \subseteq FoldersOf(p) /\ gone \in {{}, box}
          /\ p \notin astray => gone = box /\ box \subseteq Containers(p)
      BY <1>2, <1>3, <1>5, <1>6, <1>11
    <2>2. \A f \in Back(box) :
            /\ f \in FoldersOf(p) /\ folder[f].kind # "root"
            /\ p \notin astray => folder[f].kind # "container"
      BY <1>7
    <2>3. \A f \in Back(box) :
            /\ folder'[f].parent = Nothing /\ folder'[f].kind = folder[f].kind
            /\ folder'[f].project = p /\ folder'[f].name = folder[f].name
            /\ folder'[f].coded = folder[f].coded /\ folder'[f].active = folder[f].active
      BY <1>8, <1>14
    <2> QED
      BY <1>4, <1>9, <1>11, <1>12, <1>13, <1>15, <2>1, <2>2, <2>3 DEF UnhangPlaces
  <1> QED
    BY <1>5, <1>16

\* The trees of the project stay trees, and other projects stand.
LEMMA UnhangKeepsForest ==
  ASSUME TreeInv, NEW p, NEW box, NEW gone, UnhangPlaces(p, box, gone)
  PROVE  /\ FoldersOf(p)' = FoldersOf(p) \ gone /\ IsForest(FoldersOf(p))'
         /\ \A f \in FoldersOf(p) \ gone :
              /\ f \in Folders /\ folder'[f].kind = folder[f].kind /\ folder'[f].name = folder[f].name
              /\ folder'[f].coded = folder[f].coded /\ folder'[f].active = folder[f].active
              /\ folder'[f].parent = IF f \in Back(box) THEN Nothing ELSE folder[f].parent
  <1> USE DEF UnhangPlaces
  <1>1. \A f \in FoldersOf(p) : f \in Folders /\ f \in Present /\ folder[f].project = p
    BY DEF FoldersOf, Present
  <1>2. \A f \in FoldersOf(p) \ gone :
          /\ f \in Folders /\ folder'[f].kind = folder[f].kind /\ folder'[f].name = folder[f].name
          /\ folder'[f].coded = folder[f].coded /\ folder'[f].active = folder[f].active
          /\ folder'[f].project = p
          /\ folder'[f].parent = IF f \in Back(box) THEN Nothing ELSE folder[f].parent
    BY <1>1
  <1>3. FoldersOf(p)' = FoldersOf(p) \ gone
    <2>1. \A f \in Present \ gone : f \in Folders /\ (folder'[f].project = p => folder[f].project = p)
      BY DEF FoldersOf, Present
    <2> QED
      BY <1>1, <1>2, <2>1 DEF FoldersOf
  <1>4. IsForest(FoldersOf(p))'
    <2> SUFFICES ASSUME NEW S \in (SUBSET (FoldersOf(p) \ gone)) \ {{}}
                 PROVE  \E f \in S : folder'[f].parent \notin S
      BY <1>3 DEF IsForest
    <2>1. PICK f \in S : folder[f].parent \notin S
      BY DEF TreeInv, ProjectFits, IsForest
    <2>2. Nothing \notin S
      BY <1>1, TreeAssumption
    <2> QED
      BY <1>2, <2>1, <2>2
  <1> QED
    BY <1>2, <1>3, <1>4

\* The tree of an archived project is the one that archiving kept, and it is in order.
LEMMA UnhangRestores ==
  ASSUME TreeInv, NEW p, NEW box, NEW gone, UnhangPlaces(p, box, gone),
         p \notin astray', status[p] = "archived"
  PROVE  Tree(p)' = kept[p] /\ Containers(p)' = {} /\ SiblingsDiffer(p)'
  <1>0. FoldersOf(p)' = FoldersOf(p) \ gone
        /\ \A f \in FoldersOf(p) \ gone :
             /\ f \in Folders /\ folder'[f].kind = folder[f].kind /\ folder'[f].name = folder[f].name
             /\ folder'[f].coded = folder[f].coded /\ folder'[f].active = folder[f].active
             /\ folder'[f].parent = IF f \in Back(box) THEN Nothing ELSE folder[f].parent
    BY UnhangKeepsForest
  <1>1. /\ p # Nothing /\ TopLevel(p) = {} /\ kept[p] = TreeBefore(p) /\ SiblingsDiffer(p)
        /\ p \in Projects \ astray /\ gone = box /\ box = Containers(p) /\ RowsFit
    BY TreeAssumption DEF TreeInv, ProjectFits, UnhangPlaces
  <1>2. PICK x \in Folders : box = {x}
    BY <1>1 DEF TreeInv, ProjectFits
  <1>3. x \in FoldersOf(p) /\ folder[x].kind = "container"
    BY <1>1, <1>2 DEF Containers, FoldersOf, RowsFit, Present
  <1>4. FoldersOf(p)' = FoldersOf(p) \ box
        /\ \A f \in FoldersOf(p) \ box :
             /\ f \in Folders /\ folder'[f].kind = folder[f].kind /\ folder'[f].name = folder[f].name
             /\ folder'[f].coded = folder[f].coded /\ folder'[f].active = folder[f].active
             /\ folder'[f].parent = IF f \in Back(box) THEN Nothing ELSE folder[f].parent
    BY <1>0, <1>1
  <1>5. \A f \in FoldersOf(p) \ box :
          /\ folder[f].parent # Nothing
          /\ folder'[f].parent = IF folder[f].parent \in box THEN Nothing ELSE folder[f].parent
    BY <1>1, <1>4 DEF TopLevel, Back, FoldersOf
  <1>6. Tree(p)' = TreeBefore(p)
    <2> DEFINE Own == {g \in FoldersOf(p) : folder[g].kind = "folder"}
    <2>1. {g \in FoldersOf(p) : folder[g].kind = "folder"}' = Own
      BY <1>2, <1>3, <1>4
    <2>2. Tree(p)' = {<<f, folder'[f].parent, folder'[f].name>> : f \in Own}
      BY <2>1 DEF Tree
    <2>3. TreeBefore(p) =
            {<<f, IF folder[f].parent \in box THEN Nothing ELSE folder[f].parent, folder[f].name>> : f \in Own}
      BY <1>1 DEF TreeBefore
    <2>4. \A f \in Own : /\ folder'[f].parent = IF folder[f].parent \in box THEN Nothing ELSE folder[f].parent
                         /\ folder'[f].name = folder[f].name
      BY <1>2, <1>3, <1>4, <1>5
    <2> QED
      BY <2>2, <2>3, <2>4
  <1>7. Containers(p)' = {}
    BY <1>1, <1>4 DEF Containers
  <1>8. SiblingsDiffer(p)'
    <2> SUFFICES ASSUME NEW f \in (Active \cap FoldersOf(p))', NEW g \in (Active \cap FoldersOf(p))',
                        folder'[f].parent = folder'[g].parent, folder'[f].name = folder'[g].name
                 PROVE  f = g
      BY DEF SiblingsDiffer
    <2>1. ASSUME NEW h \in (Active \cap FoldersOf(p))'
          PROVE  h \in FoldersOf(p) \ box /\ h \in Active
      BY <1>4 DEF Active, FoldersOf
    <2>2. folder[f].parent = folder[g].parent /\ folder[f].name = folder[g].name
      BY <1>2, <1>4, <1>5, <2>1
    <2> QED
      BY <1>1, <2>1, <2>2 DEF SiblingsDiffer
  <1> QED
    BY <1>1, <1>6, <1>7, <1>8

LEMMA UnhangKeepsProject ==
  ASSUME TreeInv, NEW p, NEW box, NEW gone, UnhangPlaces(p, box, gone)
  PROVE  ProjectFits(p)'
  <1>0. IsForest(FoldersOf(p))'
    BY UnhangKeepsForest
  <1>1. IsForest(FoldersOf(p))' /\ p \in Projects /\ status'[p] = "active"
    BY <1>0 DEF UnhangPlaces, TreeInv, TypeOK
  <1>2. ASSUME p \notin astray' PROVE Containers(p)' = {} /\ SiblingsDiffer(p)'
    <2>1. CASE status[p] = "archived"
      BY <1>2, <2>1, UnhangRestores
    <2>2. CASE status[p] # "archived"
      <3>1. p \notin astray /\ Containers(p) = {} /\ box = {} /\ gone = {}
        BY <1>1, <1>2, <2>2 DEF UnhangPlaces, TreeInv, ProjectFits
      <3>2. \A f \in Folders : folder'[f] = folder[f]
        BY <3>1 DEF UnhangPlaces, Back
      <3>3. FoldersOf(p)' = FoldersOf(p) /\ Active' = Active
        BY <3>2 DEF FoldersOf, Active, Present
      <3>4. Containers(p)' = {}
        BY <3>1, <3>2, <3>3 DEF Containers, FoldersOf, Present
      <3>5. SiblingsDiffer(p)
        BY <1>1, <3>1 DEF TreeInv, ProjectFits
      <3> QED
        BY <3>2, <3>3, <3>4, <3>5 DEF SiblingsDiffer, Active, Present
    <2> QED
      BY <2>1, <2>2
  <1> QED
    BY <1>1, <1>2 DEF ProjectFits

LEMMA UnarchiveProjectFits ==
  ASSUME TreeInv, NEW c \in Requests, UnarchiveProject(c) PROVE TreeInv'
  <1> PICK p : p = request[c].project
    OBVIOUS
  <1> PICK box : box = {request[c].container} \cap Present
    OBVIOUS
  <1> PICK gone : UnhangPlaces(p, box, gone) /\ \A row \in {p} \cup gone : ~HeldByOther(c, row)
    BY UnhangFits
  <1>1. ProjectFits(p)'
    BY UnhangKeepsProject
  <1> USE DEF UnhangPlaces
  <1>2. /\ p # Nothing /\ p \in Projects /\ ParentsMatch /\ RowsFit /\ Nothing \notin Projects
        /\ folder \in [Folders -> FolderType] /\ status \in [Projects -> {"absent", "active", "archived"}]
    BY TreeAssumption DEF TreeInv, TypeOK
  <1>3. /\ \A f \in gone : f \in Folders /\ f \in Present /\ folder[f].project = p
        /\ NoFolder.project = Nothing /\ NoFolder.kind = "absent"
    BY DEF FoldersOf, Present, NoFolder
  <1>4. \A f \in Folders \ gone : /\ folder'[f].project = folder[f].project
                                  /\ folder'[f].kind = folder[f].kind
                                  /\ folder'[f].name = folder[f].name
                                  /\ folder'[f].coded = folder[f].coded
                                  /\ folder'[f].active = folder[f].active
    BY DEF FoldersOf
  <1>5. \A f \in Back(box) : folder[f].project = p
    BY DEF FoldersOf
  <1>6. ParentsMatch'
    <2> SUFFICES ASSUME NEW g \in Present'
                 PROVE  LET own == folder'[g] IN
                   /\ own.parent = Nothing => (own.kind = "root" <=> own.project = Nothing)
                   /\ own.parent # Nothing =>
                        /\ own.parent \in Present' /\ own.kind # "root"
                        /\ folder'[own.parent].project \in {own.project, Nothing}
                   /\ own.project \in Projects \ astray' =>
                        (own.kind = "container"
                           <=> own.parent # Nothing /\ folder'[own.parent].project = Nothing)
      BY DEF ParentsMatch
    <2>1. CASE g \in Back(box)
      BY <1>2, <2>1
    <2>2. CASE g \notin Back(box)
      <3>1. g \in Present /\ g \in Folders /\ folder'[g] = folder[g] /\ folder[g].parent \notin gone
        BY <2>2 DEF Present, Back
      <3>2. \A f \in Present \ gone : f \in Present' /\ folder'[f].project = folder[f].project
        BY <1>4 DEF Present
      <3>3. CASE folder[g].parent = Nothing
        BY <1>2, <3>1, <3>3 DEF ParentsMatch
      <3>4. CASE folder[g].parent # Nothing
        BY <1>2, <3>1, <3>2, <3>4 DEF ParentsMatch
      <3> QED
        BY <3>3, <3>4
    <2> QED
      BY <2>1, <2>2
  <1>7. TreeTyped'
    <2>1. \A q \in Projects : kept'[q] \subseteq Folders \X OrNothing(Folders) \X FolderName
      BY DEF TreeInv, TypeOK
    <2> QED
      BY <1>6, <2>1 DEF TreeInv, TypeOK, TreeTyped
  <1>8. ASSUME NEW q \in Projects, q # p PROVE PlacesStand(q)
    <2> SUFFICES ASSUME NEW f \in Folders, folder[f].project = q \/ folder'[f].project = q
                 PROVE  KeepsPlace(f) /\ (folder'[f].active => folder[f].active)
      BY DEF PlacesStand
    <2>1. f \notin gone
      BY <1>2, <1>3, <1>8
    <2>2. f \notin Back(box)
      BY <1>5, <1>8
    <2> QED
      BY <2>1, <2>2 DEF KeepsPlace
  <1>9. \A q \in Projects : q # p => /\ status'[q] = status[q] /\ kept'[q] = kept[q]
                                     /\ FoldersOf(q)' = FoldersOf(q)
    BY <1>8, ProjectStands DEF TreeInv, TypeOK
  <1>10. RowsFit'
    <2>1. \A f \in Roots : f \in Folders \ gone
      BY <1>2, <1>3, TreeAssumption DEF ParentsMatch, RowsFit, Present
    <2>2. \A f \in Folders : folder'[f].kind = "root" <=> f \in Roots
      BY <1>2, <1>3, <1>4, <2>1 DEF RowsFit
    <2>3. \A f \in Roots : folder'[f].name = f
      BY <1>2, <1>4, <2>1 DEF RowsFit
    <2>4. \A f \in Folders : folder'[f].kind \in {"absent", "year"} => folder'[f].project = Nothing
      BY <1>2, <1>3, <1>4 DEF RowsFit
    <2>5. \A f \in Folders : folder'[f].kind = "container" => folder'[f].project # Nothing
      BY <1>2, <1>3, <1>4 DEF RowsFit
    <2>6. \A f \in Folders : folder'[f].project \in Projects \ astray' =>
            (folder'[f].coded <=> folder'[f].kind = "container")
      BY <1>2, <1>3, <1>4 DEF RowsFit
    <2>7. \A q \in Projects : status'[q] = "absent" => FoldersOf(q)' = {}
      BY <1>2, <1>9 DEF RowsFit
    <2> QED
      BY <2>2, <2>3, <2>4, <2>5, <2>6, <2>7 DEF RowsFit
  <1>11. \A q \in Projects : ProjectFits(q)'
    <2>1. \A q \in Projects : q # p => ProjectFits(q)'
      BY <1>8, <1>9, ProjectStaysFit
    <2> QED
      BY <1>1, <2>1
  <1>12. ASSUME NEW b \in Requests \ {c} PROVE StaysTrue(b)
    <2>1. /\ \A q \in request[b].held \cap Projects : q # p
          /\ \A f \in request[b].held \cap Folders : f \in Present \ gone
      BY TreeAssumption DEF HeldByOther, TreeInv, LocksFit, Exists
    <2>2. \A f \in Present \ gone : f \in Folders \ gone
      BY DEF Present
    <2>3. \A f \in Present : folder[f].project = Nothing => f \notin gone
      BY <1>2, <1>3
    <2> QED
      BY <1>4, <1>8, <1>9, <2>1, <2>2, <2>3 DEF StaysTrue
  <1>13. {c} \in SUBSET Requests /\ RequestsEnd({c})
    BY FinishEnds DEF UnarchiveProject
  <1> QED
    BY <1>7, <1>10, <1>11, <1>12, <1>13, CommitFits


-------------------------------------------------------------------------------
(* The theorems                                                               *)

LEMMA TreeStepFits == TreeInv /\ [Next]_vars => TreeInv'
  <1> SUFFICES ASSUME TreeInv, [Next]_vars PROVE TreeInv'
    OBVIOUS
  <1>1. CASE CreateProject
    BY <1>1, CreateProjectFits
  <1>2. ASSUME NEW c \in Requests, Handle(c) PROVE TreeInv'
    <2>1. Begin(c) => TreeInv'
      BY BeginCreateFits, BeginChangeFits, BeginDisableFits, BeginProjectFits DEF Begin
    <2>2. LockRow(c) \/ PassChecks(c) \/ FindArchiveFolders(c) \/ FindContainer(c) => TreeInv'
      BY LockRowFits, PassChecksFits, FindArchiveFoldersFits, FindContainerFits
    <2>3. CreateFolder(c) \/ UpdateFolder(c) \/ MoveFolder(c) \/ DisableFolder(c) => TreeInv'
      BY CreateFolderFits, UpdateFolderFits, MoveFolderFits, DisableFolderFits
    <2>4. ArchiveProject(c) \/ UnarchiveProject(c) \/ DeleteProject(c) \/ Fail(c) => TreeInv'
      BY ArchiveProjectFits, UnarchiveProjectFits, DeleteProjectFits, FailFits
    <2> QED
      BY <1>2, <2>1, <2>2, <2>3, <2>4 DEF Handle
  <1>3. CASE UNCHANGED vars
    <2>1. /\ folder' = folder /\ status' = status /\ kept' = kept /\ request' = request
          /\ astray' = astray
      BY <1>3 DEF vars
    <2>2. TypeOK' /\ RowsFit' /\ LocksFit'
      BY <2>1 DEF TreeInv, TypeOK, ParentsMatch, RowsFit, LocksFit, Exists, Present, FoldersOf
    <2>3. \A c \in Requests : RequestFits(request[c])'
      BY <2>1, KnowledgeStays DEF TreeInv
    <2>4. \A p \in Projects : ProjectFits(p)'
      BY <2>1 DEF TreeInv, ProjectFits, SiblingsDiffer, TreeBefore, IsForest, Active, Present,
                  Containers, TopLevel, FoldersOf
    <2> QED
      BY <2>2, <2>3, <2>4 DEF TreeInv
  <1> QED
    BY <1>1, <1>2, <1>3 DEF Next

\* The inductive invariant: a request that waits for its commit finds what its checks have
\* found, for every set of requests, projects and folders.
THEOREM TreeInvariant == Spec => []TreeInv
  <1>1. Init => TreeInv
    BY TreeStarts, TreeAssumption
  <1> QED
    BY <1>1, TreeStepFits, PTL DEF Spec

\* The variables stay within their types, and parents match their folders.
THEOREM TreeTypes == Spec => []TypeOK
  <1>1. TreeInv => TypeOK
    BY DEF TreeInv
  <1> QED
    BY <1>1, TreeInvariant, PTL

\* Moves that overlap make no cycle in a project: move_folder looks at the ancestors of the new
\* parent under the lock of the project.
THEOREM TreesStayTrees == Spec => []ProjectTreesAreTrees
  <1>1. TreeInv => ProjectTreesAreTrees
    BY DEF TreeInv, ProjectFits, ProjectTreesAreTrees
  <1> QED
    BY <1>1, TreeInvariant, PTL

\* The container of a project is there exactly while it is archived, whatever creates,
\* moves and deletes folders meanwhile, as long as nobody gave another folder its code and no
\* request to unarchive came too late.
THEOREM ArchivesMatchStatus == Spec => []ArchiveMatchesStatus
  <1>1. TreeInv => ArchiveMatchesStatus
    <2> SUFFICES ASSUME TreeInv, NEW p \in Projects \ astray
                 PROVE  /\ status[p] = "archived" => Cardinality(Containers(p)) = 1 /\ TopLevel(p) = {}
                        /\ status[p] # "archived" => Containers(p) = {}
      BY DEF ArchiveMatchesStatus
    <2>1. /\ status[p] = "archived" => (\E f \in Folders : Containers(p) = {f}) /\ TopLevel(p) = {}
          /\ status[p] # "archived" => Containers(p) = {}
      BY DEF TreeInv, ProjectFits
    <2> QED
      BY <2>1, FS_Singleton
  <1> QED
    BY <1>1, TreeInvariant, PTL

\* unarchive_project gives the project the tree it had when it was archived, with the same
\* exceptions.
THEOREM TreesAreRestored == Spec => UnarchivingRestoresTree
  <1> DEFINE Restores == \A p \in Projects \ astray' :
               status[p] = "archived" /\ status'[p] = "active" => Tree(p)' = kept[p]
  <1>1. TreeInv /\ [Next]_vars => [Restores]_vars
    <2> SUFFICES ASSUME TreeInv, Next, NEW p \in Projects \ astray', status[p] = "archived",
                        status'[p] = "active"
                 PROVE  Tree(p)' = kept[p]
      OBVIOUS
    <2>1. ~CreateProject
      BY DEF CreateProject, TreeInv, TypeOK
    <2>2. PICK c \in Requests : Handle(c)
      BY <2>1 DEF Next
    <2>3. /\ ArchiveProject(c) => status' = [status EXCEPT ![request[c].project] = "archived"]
          /\ DeleteProject(c) => status' = [status EXCEPT ![request[c].project] = "absent"]
      BY DEF ArchiveProject, DeleteProject
    <2>4. UnarchiveProject(c)
      BY <2>2, <2>3 DEF Handle, Begin, BeginCreate, BeginChange, BeginDisable, BeginProject, Start, LockRow,
           PassChecks, FindArchiveFolders, FindContainer, CreateFolder, UpdateFolder, MoveFolder,
           DisableFolder, Fail, TreeInv, TypeOK
    <2> PICK q : q = request[c].project
      OBVIOUS
    <2> PICK box : box = {request[c].container} \cap Present
      OBVIOUS
    <2>5. PICK gone : UnhangPlaces(q, box, gone)
      BY <2>4, UnhangFits
    <2>6. p = q
      BY <2>5 DEF UnhangPlaces, TreeInv, TypeOK
    <2> QED
      BY <2>5, <2>6, UnhangRestores
  <1> QED
    BY <1>1, TreeInvariant, PTL DEF Spec, UnarchivingRestoresTree

-------------------------------------------------------------------------------
(* Public folders, which no lock of a project keeps: the parent's lock does    *)

\* Public folders of users
Plain == {f \in Active : folder[f].project = Nothing /\ folder[f].kind = "folder"}
PlainDiffer ==
  \A f, g \in Plain :
    folder[f].parent = folder[g].parent /\ folder[f].name = folder[g].name => f = g

PlainFree(parent, n, own) ==
  \A f \in Plain \ {own} : folder[f].parent = parent => folder[f].name # n

\* A request that is going to write a public folder holds its parent.
PlainReady(r) ==
  LET own == folder[r.folder] IN
  r.step = "write" =>
    /\ r.op = "create" /\ r.project = Nothing =>
         r.parent \in r.held /\ PlainFree(r.parent, r.name, Nothing)
    /\ r.op = "update" /\ own.project = Nothing =>
         own.parent \in r.held /\ (r.name # Nothing => PlainFree(own.parent, r.name, r.folder))
    /\ r.op = "move" /\ own.project = Nothing =>
         r.parent \in r.held /\ PlainFree(r.parent, own.name, r.folder)

PublicInv == PlainDiffer /\ \A c \in Requests : PlainReady(request[c])

\* The step gives a public folder a new place below a row of X only.
SamePlace(f) == folder'[f].parent = folder[f].parent /\ folder'[f].name = folder[f].name
PlainStands(X) == \A f \in Plain' : (f \in Plain /\ SamePlace(f)) \/ folder'[f].parent \in X

\* The step leaves the public folders that b has locked where they are.
HeldStand(b) ==
  \A f \in request[b].held \cap Folders :
    /\ folder'[f].project = folder[f].project
    /\ folder[f].project = Nothing => SamePlace(f)

LEMMA PlainReadyStays ==
  ASSUME TreeInv, NEW b \in Requests, request'[b] = request[b], PlainReady(request[b]),
         NEW X, X \cap request[b].held = {}, PlainStands(X), HeldStand(b)
  PROVE  PlainReady(request[b])'
  <1> PICK r : r = request[b]
    OBVIOUS
  <1>1. RequestFits(r)
    BY DEF TreeInv
  <1>2. ASSUME NEW parent \in r.held, NEW n, NEW own, PlainFree(parent, n, own)
        PROVE  PlainFree(parent, n, own)'
    BY <1>2 DEF PlainFree, PlainStands, SamePlace
  <1>3. r.op = "create" => PlainReady(request[b])'
    BY <1>2 DEF PlainReady
  <1>4. ASSUME r.step = "write", r.op \in {"update", "move"}
        PROVE  /\ folder'[r.folder].project = folder[r.folder].project
               /\ folder[r.folder].project = Nothing => SamePlace(r.folder)
    BY <1>1, <1>4 DEF RequestFits, UpdateReady, MoveReady, HeldStand
  <1>5. r.op = "update" => PlainReady(request[b])'
    BY <1>2, <1>4 DEF PlainReady, SamePlace
  <1>6. r.op = "move" => PlainReady(request[b])'
    BY <1>2, <1>4 DEF PlainReady, SamePlace
  <1> QED
    BY <1>3, <1>5, <1>6 DEF PlainReady

\* A commit
LEMMA PublicEnds ==
  ASSUME TreeInv, PublicInv, NEW c \in Requests, Finish(c), NEW X, PlainStands(X), PlainDiffer',
         \A b \in Requests \ {c} : X \cap request[b].held = {} /\ HeldStand(b)
  PROVE  PublicInv'
  <1>1. request'[c] = Idle /\ \A b \in Requests \ {c} : request'[b] = request[b]
    BY DEF TreeInv, TypeOK, Finish
  <1>2. PlainReady(request[c])'
    BY <1>1, IdleFits DEF PlainReady
  <1>3. ASSUME NEW b \in Requests \ {c} PROVE PlainReady(request[b])'
    BY <1>1, PlainReadyStays DEF PublicInv
  <1> QED
    BY <1>2, <1>3 DEF PublicInv

\* A commit that gives no public folder a new place
LEMMA PublicStands ==
  ASSUME TreeInv, PublicInv, NEW c \in Requests, Finish(c), PlainStands({}),
         \A b \in Requests \ {c} : HeldStand(b)
  PROVE  PublicInv'
  <1>1. PlainDiffer'
    BY DEF PlainStands, SamePlace, PublicInv, PlainDiffer
  <1>2. \A b \in Requests \ {c} : {} \cap request[b].held = {} /\ HeldStand(b)
    OBVIOUS
  <1> QED
    BY <1>1, <1>2, PublicEnds

\* A step that moves one request and no folder
LEMMA PublicWaits ==
  ASSUME TreeInv, PublicInv, NEW c \in Requests, NEW r, request' = [request EXCEPT ![c] = r],
         folder' = folder, PlainReady(r)
  PROVE  PublicInv'
  <1>1. request'[c] = r /\ \A b \in Requests \ {c} : request'[b] = request[b]
    BY DEF TreeInv, TypeOK
  <1>2. Plain' = Plain /\ PlainDiffer'
    BY DEF Plain, Active, Present, PublicInv, PlainDiffer
  <1>3. \A x, n, own : PlainFree(x, n, own)' <=> PlainFree(x, n, own)
    BY <1>2 DEF PlainFree
  <1>4. PlainReady(request[c])'
    BY <1>1, <1>3 DEF PlainReady
  <1>5. ASSUME NEW b \in Requests \ {c} PROVE PlainReady(request[b])'
    <2>1. PlainReady(request[b]) /\ request'[b] = request[b]
      BY <1>1 DEF PublicInv
    <2> QED
      BY <1>3, <2>1 DEF PlainReady
  <1> QED
    BY <1>2, <1>4, <1>5 DEF PublicInv

LEMMA PublicStarts == Init /\ TreeAssumption => PublicInv
  <1> SUFFICES ASSUME Init, TreeAssumption PROVE PublicInv
    OBVIOUS
  <1>1. \A f \in Folders : folder[f].kind # "folder"
    BY FirstRow
  <1>2. Plain = {}
    BY <1>1 DEF Plain, Active, Present
  <1>3. \A c \in Requests : PlainReady(request[c])
    BY IdleFits DEF Init, PlainReady
  <1> QED
    BY <1>2, <1>3 DEF PublicInv, PlainDiffer

\* A request that begins writes nothing yet.
LEMMA BeginKeepsPublic ==
  ASSUME TreeInv, PublicInv, NEW c \in Requests, Begin(c) PROVE PublicInv'
  <1>1. ASSUME NEW r, Start(c, r), r.step = "lock" PROVE PublicInv'
    <2>1. PlainReady(r)
      BY <1>1 DEF PlainReady
    <2> QED
      BY <1>1, <2>1, PublicWaits DEF Start
  <1>2. \E r : Start(c, r) /\ r.step = "lock"
    <2>0. \A op \in Ops : Locking(op) \in RequestType /\ Locking(op).step = "lock"
      BY NewRequest
    <2>1. CASE BeginCreate(c)
      <3> PICK t \in RequestType : t = Locking("create") /\ t.step = "lock"
        BY <2>0 DEF Ops
      <3>1. PICK n \in Names, code \in {"container", "other"} :
              \/ \E f \in Present :
                   Start(c, [t EXCEPT !.parent = f, !.project = folder[f].project, !.name = n, !.code = code])
              \/ \E p \in Projects : Start(c, [t EXCEPT !.project = p, !.name = n, !.code = code])
        BY <2>1 DEF BeginCreate
      <3>2. \A f, p : [t EXCEPT !.parent = f, !.project = p, !.name = n, !.code = code].step = "lock"
        BY DEF RequestType
      <3>3. \A p : [t EXCEPT !.project = p, !.name = n, !.code = code].step = "lock"
        BY DEF RequestType
      <3> QED
        BY <3>1, <3>2, <3>3
    <2>2. CASE BeginChange(c)
      <3>0. Locking("update") \in RequestType /\ Locking("move") \in RequestType
            /\ Locking("update").step = "lock" /\ Locking("move").step = "lock"
        BY <2>0 DEF Ops
      <3> PICK t \in RequestType : t = Locking("update") /\ t.step = "lock"
        BY <3>0
      <3> PICK u \in RequestType : u = Locking("move") /\ u.step = "lock"
        BY <3>0
      <3>1. PICK f \in Active :
              \/ \E n \in OrNothing(Names), code \in {"container", "other", "none"} :
                   Start(c, [t EXCEPT !.folder = f, !.name = n, !.code = code])
              \/ \E g \in OrNothing(Active) : Start(c, [u EXCEPT !.folder = f, !.parent = g])
        BY <2>2 DEF BeginChange
      <3>2. \A n, code : [t EXCEPT !.folder = f, !.name = n, !.code = code].step = "lock"
        BY DEF RequestType
      <3>3. \A g : [u EXCEPT !.folder = f, !.parent = g].step = "lock"
        BY DEF RequestType
      <3> QED
        BY <3>1, <3>2, <3>3
    <2>3. CASE BeginDisable(c)
      BY <2>0, <2>3 DEF BeginDisable, RequestType, Ops
    <2>4. CASE BeginProject(c)
      <3>0. \A op \in {"archive", "unarchive", "delete"} : op \in Ops
        BY DEF Ops
      <3>1. ASSUME NEW op \in {"archive", "unarchive", "delete"}, NEW p, NEW y
            PROVE  /\ [Locking(op) EXCEPT !.project = p, !.yearName = y].step = "lock"
                   /\ [Locking(op) EXCEPT !.project = p].step = "lock"
        <4> PICK t \in RequestType : t = Locking(op) /\ t.step = "lock"
          BY <2>0, <3>0
        <4>1. [t EXCEPT !.project = p, !.yearName = y].step = "lock" /\ [t EXCEPT !.project = p].step = "lock"
          BY DEF RequestType
        <4> QED
          BY <4>1
      <3>2. PICK p \in Projects :
              \/ \E y \in Years : Start(c, [Locking("archive") EXCEPT !.project = p, !.yearName = y])
              \/ Start(c, [Locking("unarchive") EXCEPT !.project = p])
              \/ Start(c, [Locking("delete") EXCEPT !.project = p])
        BY <2>4 DEF BeginProject
      <3>3. /\ \A y : [Locking("archive") EXCEPT !.project = p, !.yearName = y].step = "lock"
            /\ [Locking("unarchive") EXCEPT !.project = p].step = "lock"
            /\ [Locking("delete") EXCEPT !.project = p].step = "lock"
        BY <3>1
      <3> QED
        BY <3>2, <3>3
    <2> QED
      BY <2>1, <2>2, <2>3, <2>4 DEF Begin
  <1> QED
    BY <1>1, <1>2

\* The checks of a request about a public folder are made with its new parent locked.
LEMMA CheckedIsPlainReady ==
  ASSUME TreeInv, NEW c \in Requests, PassChecks(c), NEW r \in RequestType,
         r = [request[c] EXCEPT !.step = "write"]
  PROVE  PlainReady(r)
  <1> PICK t : t = request[c]
    OBVIOUS
  <1>1. /\ t \in RequestType /\ RequestFits(t) /\ Consistent(t) /\ HasLocks(c) /\ t.step = "lock"
    BY DEF TreeInv, TypeOK, PassChecks, HasLocks
  <1>2. /\ r.op = t.op /\ r.folder = t.folder /\ r.parent = t.parent /\ r.name = t.name
        /\ r.project = t.project /\ r.held = t.held
    BY <1>1 DEF RequestType
  <1>3. ASSUME NEW parent, NEW n, NEW own, NameIsFree(Nothing, parent, n, own)
        PROVE  PlainFree(parent, n, own)
    BY <1>3 DEF NameIsFree, PlainFree, Plain
  <1>4. ASSUME t.op = "create", t.project = Nothing
        PROVE  t.parent \in t.held /\ PlainFree(t.parent, t.name, Nothing)
    <2>1. t.parent # Nothing
      BY <1>1, <1>4 DEF RequestFits
    <2>2. t.parent \in t.held
      BY <1>1, <1>4, <2>1, RowsAreLocked
    <2>3. NameIsFree(Nothing, t.parent, t.name, Nothing)
      BY <1>1, <1>4 DEF Consistent
    <2> QED
      BY <1>3, <2>2, <2>3
  <1> PICK own : own = folder[t.folder]
    OBVIOUS
  <1>5. ASSUME t.op \in {"update", "move"}
        PROVE  /\ t.folder \in Folders /\ t.folder # Nothing /\ own.kind # "root"
               /\ t.folder \in t.held /\ t.folder \in Present
    <2>1. t.folder \in Folders /\ t.folder # Nothing
      BY <1>1, <1>5, TreeAssumption DEF RequestFits
    <2>2. own.kind # "root"
      BY <1>1, <1>5, <2>1 DEF Consistent
    <2>3. t.folder \in t.held
      BY <1>1, <1>5, <2>1, RowsAreLocked
    <2> QED
      BY <2>1, <2>2, <2>3, TreeAssumption DEF TreeInv, LocksFit, Exists
  <1>6. ASSUME t.op = "update", own.project = Nothing
        PROVE  own.parent \in t.held /\ (t.name # Nothing => PlainFree(own.parent, t.name, t.folder))
    <2>1. own.parent # Nothing
      BY <1>5, <1>6 DEF TreeInv, TypeOK, ParentsMatch
    <2>2. own.parent \in t.held
      BY <1>1, <1>6, <2>1, RowsAreLocked
    <2>3. t.name # Nothing => NameIsFree(Nothing, own.parent, t.name, t.folder)
      BY <1>1, <1>5, <1>6 DEF Consistent
    <2> QED
      BY <1>3, <2>2, <2>3
  <1>7. ASSUME t.op = "move", own.project = Nothing
        PROVE  t.parent \in t.held /\ PlainFree(t.parent, own.name, t.folder)
    <2>1. t.parent # Nothing /\ NameIsFree(Nothing, t.parent, own.name, t.folder)
      BY <1>1, <1>5, <1>7 DEF Consistent
    <2>2. t.parent \in t.held
      BY <1>1, <1>7, <2>1, RowsAreLocked
    <2> QED
      BY <1>3, <2>1, <2>2
  <1> QED
    BY <1>2, <1>4, <1>6, <1>7 DEF PlainReady

\* Requests that lock, read and check, or fail
LEMMA WaitingKeepsPublic ==
  ASSUME TreeInv, PublicInv, NEW c \in Requests,
         LockRow(c) \/ PassChecks(c) \/ FindArchiveFolders(c) \/ FindContainer(c) \/ Fail(c)
  PROVE  PublicInv'
  <1> PICK t : t = request[c]
    OBVIOUS
  <1>1. t \in RequestType
    BY DEF TreeInv, TypeOK
  <1>2. ASSUME LockRow(c) \/ FindArchiveFolders(c) \/ FindContainer(c) \/ Fail(c)
        PROVE  \E r : /\ request' = [request EXCEPT ![c] = r] /\ folder' = folder
                      /\ r.step # "write" \/ r.op \in {"archive", "unarchive"}
    <2>1. CASE LockRow(c)
      <3>1. PICK H : request' = [request EXCEPT ![c].held = H] /\ folder' = folder /\ t.step = "lock"
        BY <2>1 DEF LockRow
      <3> DEFINE r == [t EXCEPT !.held = H]
      <3>2. request' = [request EXCEPT ![c] = r]
        BY <3>1 DEF TreeInv, TypeOK
      <3>3. r.step = "lock"
        BY <1>1, <3>1 DEF RequestType
      <3> QED
        BY <3>1, <3>2, <3>3
    <2>2. CASE FindArchiveFolders(c)
      <3>1. PICK year, box, revive :
              request' = [request EXCEPT ![c] = [t EXCEPT !.step = "write", !.year = year,
                                                          !.container = box, !.revive = revive]]
        BY <2>2 DEF FindArchiveFolders
      <3> DEFINE r == [t EXCEPT !.step = "write", !.year = year, !.container = box, !.revive = revive]
      <3>2. folder' = folder /\ t.op = "archive"
        BY <2>2 DEF FindArchiveFolders
      <3>3. r.op = "archive"
        BY <1>1, <3>2 DEF RequestType
      <3> QED
        BY <3>1, <3>2, <3>3
    <2>3. CASE FindContainer(c)
      <3> DEFINE boxes == Uppermost(t.project)
      <3>1. PICK box : request' = [request EXCEPT ![c].step = "write", ![c].container = box]
        BY <2>3 DEF FindContainer
      <3> DEFINE r == [t EXCEPT !.step = "write", !.container = box]
      <3>2. request' = [request EXCEPT ![c] = r] /\ folder' = folder /\ t.op = "unarchive"
        BY <2>3, <3>1 DEF FindContainer, TreeInv, TypeOK
      <3>3. r.op = "unarchive"
        BY <1>1, <3>2 DEF RequestType
      <3> QED
        BY <3>2, <3>3
    <2>4. CASE Fail(c)
      BY <2>4, IdleFits DEF Fail, Finish
    <2> QED
      BY <1>2, <2>1, <2>2, <2>3, <2>4
  <1>3. CASE PassChecks(c)
    <2> DEFINE r == [t EXCEPT !.step = "write"]
    <2>1. request' = [request EXCEPT ![c] = r] /\ folder' = folder /\ r \in RequestType
      BY <1>1, <1>3 DEF PassChecks, RequestType
    <2>2. PlainReady(r)
      BY <1>3, <2>1, CheckedIsPlainReady
    <2> HIDE DEF r
    <2> QED
      BY <2>1, <2>2, PublicWaits
  <1>4. CASE ~PassChecks(c)
    <2>1. PICK r : /\ request' = [request EXCEPT ![c] = r] /\ folder' = folder
                   /\ r.step # "write" \/ r.op \in {"archive", "unarchive"}
      BY <1>2, <1>4
    <2>2. PlainReady(r)
      BY <2>1 DEF PlainReady
    <2> QED
      BY <2>1, <2>2, PublicWaits
  <1> QED
    BY <1>3, <1>4

\* A locked folder of another request is there.
LEMMA HeldIsPresent ==
  ASSUME TreeInv, NEW b \in Requests, NEW f \in request[b].held \cap Folders
  PROVE  f \in Present
  BY TreeAssumption DEF TreeInv, LocksFit, Exists

\* A request about a folder that writes its row
LEMMA OneRowKeepsPublic ==
  ASSUME TreeInv, PublicInv, NEW c \in Requests, Finish(c), NEW f \in Folders, NEW row,
         folder' = [folder EXCEPT ![f] = row],
         f \in Present => row.project = folder[f].project /\ row.kind = folder[f].kind,
         \A b \in Requests \ {c} : f \notin request[b].held,
         row.project = Nothing /\ row.kind = "folder" =>
           \/ f \in Present /\ row.parent = folder[f].parent /\ row.name = folder[f].name
              /\ (row.active => folder[f].active)
           \/ row.parent \in request[c].held /\ PlainFree(row.parent, row.name, f)
  PROVE  PublicInv'
  <1> PICK t : t = request[c]
    OBVIOUS
  <1>1. /\ folder'[f] = row /\ \A g \in Folders : g # f => folder'[g] = folder[g]
    BY DEF TreeInv, TypeOK
  <1>2. \A b \in Requests \ {c} : HeldStand(b)
    BY <1>1 DEF HeldStand, SamePlace
  <1>3. ASSUME NEW g \in Plain', g # f PROVE g \in Plain /\ SamePlace(g) /\ g \in Folders
    BY <1>1, <1>3 DEF Plain, Active, Present, SamePlace
  <1>4. CASE f \in Plain' => f \in Plain /\ SamePlace(f)
    <2>1. PlainStands({})
      BY <1>3, <1>4 DEF PlainStands
    <2> QED
      BY <1>2, <2>1, PublicStands
  <1>5. CASE ~(f \in Plain' => f \in Plain /\ SamePlace(f))
    <2>1. row.parent \in t.held /\ PlainFree(row.parent, row.name, f)
      BY <1>1, <1>5 DEF Plain, Active, Present, SamePlace
    <2>2. PlainStands({row.parent})
      BY <1>1, <1>3 DEF PlainStands
    <2>3. \A b \in Requests \ {c} : {row.parent} \cap request[b].held = {}
      BY <2>1 DEF TreeInv, LocksFit
    <2>4. PlainDiffer'
      <3> SUFFICES ASSUME NEW g \in Plain', NEW h \in Plain', folder'[g].parent = folder'[h].parent,
                          folder'[g].name = folder'[h].name, g # h
                   PROVE  FALSE
        BY DEF PlainDiffer
      <3>1. CASE g # f /\ h # f
        BY <1>3, <3>1 DEF PublicInv, PlainDiffer, SamePlace
      <3>2. CASE g = f
        BY <1>1, <1>3, <2>1, <3>2 DEF PlainFree, SamePlace
      <3>3. CASE h = f
        BY <1>1, <1>3, <2>1, <3>3 DEF PlainFree, SamePlace
      <3> QED
        BY <3>1, <3>2, <3>3
    <2> QED
      BY <1>2, <2>2, <2>3, <2>4, PublicEnds
  <1> QED
    BY <1>4, <1>5

LEMMA CreateKeepsPublic ==
  ASSUME TreeInv, PublicInv, NEW c \in Requests, CreateFolder(c) PROVE PublicInv'
  <1> PICK r : r = request[c]
    OBVIOUS
  <1>0. PICK coded \in BOOLEAN : coded = (r.code = "container")
    OBVIOUS
  <1> PICK row : row = [kind |-> "folder", project |-> r.project, parent |-> r.parent,
                        name |-> r.name, coded |-> coded, active |-> TRUE]
    OBVIOUS
  <1>1. PICK f \in FreeFolders : folder' = [folder EXCEPT ![f] = row]
    BY <1>0 DEF CreateFolder
  <1>6. row.project = r.project /\ row.parent = r.parent /\ row.name = r.name
    OBVIOUS
  <1>2. f \in Folders /\ f \notin Present /\ f # Nothing /\ Finish(c)
    BY TreeAssumption DEF FreeFolders, CreateFolder
  <1>3. \A b \in Requests \ {c} : f \notin request[b].held
    BY <1>2, HeldIsPresent
  <1>4. r.project = Nothing => r.parent \in r.held /\ PlainFree(r.parent, r.name, Nothing)
    BY DEF CreateFolder, Writes, PublicInv, PlainReady
  <1>5. r.project = Nothing => PlainFree(r.parent, r.name, f)
    BY <1>2, <1>4, TreeAssumption DEF PlainFree, Plain, Active, Present
  <1> QED
    BY <1>1, <1>2, <1>3, <1>4, <1>5, <1>6, OneRowKeepsPublic

\* The folder that a request writes is its own.
LEMMA WritesOwnFolder ==
  ASSUME TreeInv, NEW c \in Requests, UpdateFolder(c) \/ MoveFolder(c) \/ DisableFolder(c)
  PROVE  LET f == request[c].folder IN
         /\ f \in Folders /\ f \in Present /\ folder[f] \in FolderType /\ Finish(c)
         /\ \A b \in Requests \ {c} : f \notin request[b].held
  BY TreeAssumption
     DEF TreeInv, TypeOK, RequestFits, UpdateFolder, MoveFolder, DisableFolder, Writes, Exists, HeldByOther

LEMMA ChangesKeepPublic ==
  ASSUME TreeInv, PublicInv, NEW c \in Requests, UpdateFolder(c) \/ MoveFolder(c) \/ DisableFolder(c)
  PROVE  PublicInv'
  <1> PICK r : r = request[c]
    OBVIOUS
  <1> PICK f : f = r.folder
    OBVIOUS
  <1>1. /\ f \in Folders /\ f \in Present /\ folder[f] \in FolderType /\ Finish(c)
        /\ \A b \in Requests \ {c} : f \notin request[b].held
    BY WritesOwnFolder
  <1>2. CASE UpdateFolder(c)
    <2> PICK name : name = IF r.name = Nothing THEN folder[f].name ELSE r.name
      OBVIOUS
    <2>1. PICK coded : folder' = [folder EXCEPT ![f].name = name, ![f].coded = coded]
      BY <1>2 DEF UpdateFolder
    <2> DEFINE row == [folder[f] EXCEPT !.name = name, !.coded = coded]
    <2>2. folder' = [folder EXCEPT ![f] = row]
      BY <1>1, <2>1 DEF TreeInv, TypeOK
    <2>3. /\ row.project = folder[f].project /\ row.kind = folder[f].kind
          /\ row.parent = folder[f].parent /\ row.name = name /\ row.active = folder[f].active
      BY <1>1 DEF FolderType
    <2>4. folder[f].project = Nothing =>
            /\ folder[f].parent \in r.held
            /\ r.name # Nothing => PlainFree(folder[f].parent, r.name, f)
      BY <1>2 DEF UpdateFolder, Writes, PublicInv, PlainReady
    <2> HIDE DEF row
    <2>5. row.project = Nothing =>
            \/ row.parent = folder[f].parent /\ row.name = folder[f].name /\ (row.active => folder[f].active)
            \/ row.parent \in r.held /\ PlainFree(row.parent, row.name, f)
      BY <2>3, <2>4
    <2> QED
      BY <1>1, <2>2, <2>3, <2>5, OneRowKeepsPublic
  <1>3. CASE MoveFolder(c)
    <2> DEFINE row == [folder[f] EXCEPT !.parent = r.parent]
    <2>1. folder' = [folder EXCEPT ![f] = row]
      BY <1>3 DEF MoveFolder
    <2>2. /\ row.project = folder[f].project /\ row.kind = folder[f].kind
          /\ row.parent = r.parent /\ row.name = folder[f].name
      BY <1>1 DEF FolderType
    <2>3. folder[f].project = Nothing => r.parent \in r.held /\ PlainFree(r.parent, folder[f].name, f)
      BY <1>3 DEF MoveFolder, Writes, PublicInv, PlainReady
    <2> HIDE DEF row
    <2> QED
      BY <1>1, <2>1, <2>2, <2>3, OneRowKeepsPublic
  <1>4. CASE DisableFolder(c)
    <2> DEFINE row == [folder[f] EXCEPT !.active = FALSE]
    <2>1. folder' = [folder EXCEPT ![f] = row]
      BY <1>4 DEF DisableFolder
    <2>2. /\ row.project = folder[f].project /\ row.kind = folder[f].kind
          /\ row.parent = folder[f].parent /\ row.name = folder[f].name /\ ~row.active
      BY <1>1 DEF FolderType
    <2> HIDE DEF row
    <2> QED
      BY <1>1, <2>1, <2>2, OneRowKeepsPublic
  <1> QED
    BY <1>2, <1>3, <1>4

\* archive_project makes and takes folders of the year, which are no folders of users any more.
LEMMA ArchiveKeepsPublic ==
  ASSUME TreeInv, PublicInv, NEW c \in Requests, ArchiveProject(c) PROVE PublicInv'
  <1> PICK p : p = request[c].project
    OBVIOUS
  <1>1. p \in Projects /\ p # Nothing /\ Finish(c)
    BY TreeAssumption DEF ArchiveProject, Writes, TreeInv, RequestFits
  <1>2. PICK year \in Folders, box \in Folders : year # box /\ HangPlaces(p, year, box)
    BY ArchiveHangs
  <1>3. \A f \in TopLevel(p) : folder[f].project = p
    BY DEF TopLevel, FoldersOf
  <1>4. ASSUME NEW f \in Plain' PROVE f \in Plain /\ SamePlace(f)
    <2>1. f \in Folders /\ folder'[f].project = Nothing /\ folder'[f].kind = "folder"
      BY DEF Plain, Active, Present
    <2>2. f # year /\ f # box /\ f \notin TopLevel(p)
      BY <1>1, <1>2, <1>3, <2>1 DEF HangPlaces
    <2>3. folder'[f] = folder[f]
      BY <1>2, <2>1, <2>2 DEF HangPlaces
    <2> QED
      BY <2>1, <2>3 DEF Plain, Active, Present, SamePlace
  <1>5. ASSUME NEW f \in Present
        PROVE  folder'[f].project = folder[f].project /\ (folder[f].project = Nothing => SamePlace(f))
    <2>1. f \in Folders
      BY DEF Present
    <2>2. CASE f = year
      BY <1>2, <2>2 DEF HangPlaces, SamePlace
    <2>3. CASE f = box
      BY <1>1, <1>2, <2>3 DEF HangPlaces, Containers, FoldersOf
    <2>4. CASE f \in TopLevel(p) \ {box}
      BY <1>1, <1>2, <1>3, <2>4 DEF HangPlaces
    <2>5. CASE f \notin TopLevel(p) \cup {year, box}
      BY <1>2, <2>1, <2>5 DEF HangPlaces, SamePlace
    <2> QED
      BY <2>2, <2>3, <2>4, <2>5
  <1>6. \A b \in Requests \ {c} : HeldStand(b)
    BY <1>5, HeldIsPresent DEF HeldStand
  <1>7. PlainStands({})
    BY <1>4 DEF PlainStands
  <1> QED
    BY <1>1, <1>6, <1>7, PublicStands

\* Unarchiving and deletion write folders of a project only.
LEMMA ProjectStepsKeepPublic ==
  ASSUME TreeInv, PublicInv, NEW c \in Requests, UnarchiveProject(c) \/ DeleteProject(c)
  PROVE  PublicInv'
  <1> PICK p : p = request[c].project
    OBVIOUS
  <1>1. p \in Projects /\ p # Nothing /\ Finish(c)
    BY TreeAssumption DEF UnarchiveProject, DeleteProject, Writes, TreeInv, RequestFits
  <1>2. \A f \in Folders : \/ folder'[f] = folder[f]
                           \/ /\ folder[f].project = p /\ folder'[f].kind = "absent"
                              /\ \A b \in Requests \ {c} : f \notin request[b].held
                           \/ folder[f].project = p /\ folder'[f].project = p
    <2>1. CASE UnarchiveProject(c)
      <3> PICK box : box = {request[c].container} \cap Present
        OBVIOUS
      <3>1. PICK gone : UnhangPlaces(p, box, gone) /\ \A row \in {p} \cup gone : ~HeldByOther(c, row)
        BY <2>1, UnhangFits
      <3>2. \A f \in gone : /\ folder[f].project = p /\ folder'[f].kind = "absent"
                            /\ \A b \in Requests \ {c} : f \notin request[b].held
        BY <3>1 DEF UnhangPlaces, FoldersOf, NoFolder, HeldByOther
      <3>3. \A f \in Back(box) : folder[f].project = p /\ folder'[f].project = p
        BY <3>1 DEF UnhangPlaces, FoldersOf
      <3>4. \A f \in Folders : f \notin gone \cup Back(box) => folder'[f] = folder[f]
        BY <3>1 DEF UnhangPlaces
      <3> QED
        BY <3>2, <3>3, <3>4
    <2>2. CASE DeleteProject(c)
      <3>1. \A f \in FoldersOf(p) : \A b \in Requests \ {c} : f \notin request[b].held
        BY <2>2 DEF DeleteProject, Writes, HeldByOther
      <3> QED
        BY <2>2, <3>1 DEF DeleteProject, FoldersOf, NoFolder
    <2> QED
      BY <2>1, <2>2
  <1>3. PlainStands({})
    BY <1>1, <1>2 DEF PlainStands, Plain, Active, Present, SamePlace
  <1>4. \A b \in Requests \ {c} : HeldStand(b)
    BY <1>1, <1>2 DEF HeldStand, SamePlace
  <1> QED
    BY <1>1, <1>3, <1>4, PublicStands

\* A new project is no public folder.
LEMMA CreateProjectKeepsPublic ==
  ASSUME TreeInv, PublicInv, CreateProject PROVE PublicInv'
  <1>1. PICK p \in Projects, at \in [Standard -> FreeFolders] :
          folder' = [f \in Folders |->
            IF \E n \in Standard : at[n] = f
              THEN [kind |-> "folder", project |-> p, parent |-> Nothing,
                    name |-> CHOOSE n \in Standard : at[n] = f, coded |-> FALSE, active |-> TRUE]
              ELSE folder[f]]
    BY DEF CreateProject
  <1>2. p # Nothing /\ request' = request
    BY TreeAssumption DEF CreateProject
  <1>3. \A f \in Folders : folder'[f] = folder[f] \/ (f \notin Present /\ folder'[f].project = p)
    BY <1>1 DEF FreeFolders
  <1>4. PlainStands({})
    BY <1>2, <1>3 DEF PlainStands, Plain, Active, Present, SamePlace
  <1>5. PlainDiffer'
    BY <1>4 DEF PlainStands, SamePlace, PublicInv, PlainDiffer
  <1>6. \A b \in Requests : HeldStand(b)
    BY <1>3, HeldIsPresent DEF HeldStand, SamePlace
  <1>7. ASSUME NEW b \in Requests PROVE PlainReady(request[b])'
    <2>1. PlainReady(request[b]) /\ {} \cap request[b].held = {} /\ request'[b] = request[b]
      BY <1>2 DEF PublicInv
    <2> QED
      BY <1>4, <1>6, <2>1, PlainReadyStays
  <1> QED
    BY <1>5, <1>7 DEF PublicInv

LEMMA PublicStepFits == ASSUME TreeInv, PublicInv, [Next]_vars PROVE PublicInv'
  <1>1. CASE CreateProject
    BY <1>1, CreateProjectKeepsPublic
  <1>2. ASSUME NEW c \in Requests, Handle(c) PROVE PublicInv'
    BY <1>2, BeginKeepsPublic, WaitingKeepsPublic, CreateKeepsPublic, ChangesKeepPublic,
       ArchiveKeepsPublic, ProjectStepsKeepPublic DEF Handle
  <1>3. CASE UNCHANGED vars
    BY <1>3 DEF vars, PublicInv, PlainDiffer, PlainReady, PlainFree, Plain, Active, Present
  <1> QED
    BY <1>1, <1>2, <1>3 DEF Next

LEMMA SiblingsAreUnique == TreeInv /\ PublicInv => SiblingNamesAreUnique
  <1> SUFFICES ASSUME TreeInv, PublicInv, NEW f \in Active, NEW g \in Active,
                      folder[f].kind # "year", folder[g].kind # "year",
                      folder[f].project \notin astray,
                      folder[f].project = folder[g].project, folder[f].parent = folder[g].parent,
                      folder[f].name = folder[g].name
               PROVE  f = g
    BY DEF SiblingNamesAreUnique
  <1>1. /\ f \in Folders /\ g \in Folders /\ f \in Present /\ g \in Present
        /\ folder[f] \in FolderType /\ folder[g] \in FolderType
    BY DEF Active, Present, TreeInv, TypeOK
  <1>2. CASE folder[f].project \in Projects
    <2>1. SiblingsDiffer(folder[f].project)
      BY <1>2 DEF TreeInv, ProjectFits
    <2> QED
      BY <1>1, <2>1 DEF SiblingsDiffer, FoldersOf
  <1>3. CASE folder[f].project = Nothing
    <2>1. ASSUME NEW h \in Active, h \in Folders, h \in Present, folder[h].project = Nothing,
                 folder[h] \in FolderType, folder[h].kind # "year"
          PROVE  \/ h \in Roots /\ folder[h].parent = Nothing /\ folder[h].name = h
                 \/ h \in Plain /\ folder[h].parent # Nothing
      <3>1. folder[h].kind \in {"root", "folder"}
        BY <2>1 DEF FolderType, TreeInv, RowsFit, Present
      <3>2. folder[h].kind = "root" <=> folder[h].parent = Nothing
        BY <2>1 DEF TreeInv, TypeOK, ParentsMatch
      <3> QED
        BY <2>1, <3>1, <3>2 DEF TreeInv, RowsFit, Plain
    <2>2. \/ f \in Roots /\ folder[f].parent = Nothing /\ folder[f].name = f
          \/ f \in Plain /\ folder[f].parent # Nothing
      BY <1>1, <1>3, <2>1
    <2>3. \/ g \in Roots /\ folder[g].parent = Nothing /\ folder[g].name = g
          \/ g \in Plain /\ folder[g].parent # Nothing
      BY <1>1, <1>3, <2>1
    <2> QED
      BY <2>2, <2>3 DEF PublicInv, PlainDiffer
  <1> QED
    BY <1>1, <1>2, <1>3 DEF FolderType, OrNothing

\* Siblings have different names, in projects and in public, however creations, renamings, moves
\* and archivings overlap: the parent is locked when a name is given.  The folders of the year,
\* which no lock keeps, and projects gone astray are the exceptions.
THEOREM SiblingsStayUnique == Spec => []SiblingNamesAreUnique
  <1>1. Init => PublicInv
    BY PublicStarts, TreeAssumption
  <1>2. TreeInv /\ PublicInv /\ [Next]_vars => PublicInv'
    BY PublicStepFits
  <1> QED
    BY <1>1, <1>2, SiblingsAreUnique, TreeInvariant, PTL DEF Spec
===============================================================================
