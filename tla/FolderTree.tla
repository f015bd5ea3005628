------------------------------ MODULE FolderTree ------------------------------
(***************************************************************************)
(* The tree of folders, public and of projects, and the archiving of        *)
(* projects, which hangs their trees below a folder of the year             *)
(* (apps/folders/services, apps/projects/services).                         *)
(*                                                                          *)
(* A request locks rows, reads and checks, writes and commits (MySQL, READ  *)
(* COMMITTED).  No unique index backs the checks.  Users choose the code of *)
(* a folder, and archiving knows its container by nothing else.  Documents  *)
(* are left out: a request they refuse fails, as it may for any reason.     *)
(***************************************************************************)
EXTENDS Naturals, Sequences, FiniteSets, SequencesExt

CONSTANTS
  Requests,      \* HTTP requests that may be in flight at the same time
  Projects, Folders,  \* ids of rows; one nobody knows any more is used again
  Roots,         \* the system roots, created by init_public_folders
  ArchiveRoot,   \* the one with the code PUBLIC-ARCHIVE
  Names,         \* names that users give
  Standard,      \* those of the standard folders of a new project
  Years,         \* years of archiving, each also the name of its folder
  Nothing        \* NULL

Ops == {"create", "update", "move", "disable", "archive", "unarchive", "delete"}

ASSUME TreeAssumption ==
  /\ IsFiniteSet(Folders) /\ Roots \subseteq Folders /\ ArchiveRoot \in Roots
  /\ Standard \subseteq Names
  /\ Nothing \notin Requests \cup Projects \cup Folders \cup Names \cup Years
  /\ Projects \cap Folders = {}

VARIABLES
  folder,    \* per id: project, parent, name, code, is_active, and its kind
  status,    \* per project: status, "absent" before and after its life
  request,   \* where each request is and what it works with
  kept,      \* history: the tree an archived project was archived with
  astray     \* history: projects with a false container, see CreateFolder,
             \* UpdateFolder and UnarchiveProject

vars == <<folder, status, request, kept, astray>>

-------------------------------------------------------------------------------
(* Types *)

OrNothing(S) == S \cup {Nothing}

NoFolder ==
  [kind |-> "absent", project |-> Nothing, parent |-> Nothing, name |-> Nothing,
   coded |-> FALSE, active |-> FALSE]

FolderName == Names \cup Years \cup Projects \cup Roots \cup {Nothing}

\* coded: has the code PROJECT-ARCHIVE-<own project>.  The kind is a history: "container" and
\* "year" were created by archiving, and "year" was perhaps only used by it.
FolderType ==
  [kind : {"absent", "root", "folder", "year", "container"}, project : OrNothing(Projects),
   parent : OrNothing(Folders), name : FolderName, coded : BOOLEAN, active : BOOLEAN]

\* code: the one in the data is that of the container, another one, or there is none.  name: Nothing
\* when the data have none.  year, container and revive: what archiving has found, and the
\* disabled among it.
Idle == [step |-> "idle", op |-> "create", folder |-> Nothing, parent |-> Nothing,
         name |-> Nothing, code |-> "none", project |-> Nothing, year |-> Nothing,
         yearName |-> Nothing, container |-> Nothing, revive |-> {}, held |-> {}]

RequestType ==
  [step : {"idle", "lock", "write"}, op : Ops, folder : OrNothing(Folders),
   parent : OrNothing(Folders), name : OrNothing(Names), code : {"container", "other", "none"},
   project : OrNothing(Projects),
   year : OrNothing(Folders), yearName : OrNothing(Years), container : OrNothing(Folders),
   revive : SUBSET Folders, held : SUBSET (Folders \cup Projects)]

Present == {f \in Folders : folder[f].kind # "absent"}
FoldersOf(p) == {f \in Present : folder[f].project = p}
Children(f) == {g \in Present : folder[g].parent = f}

\* The tree of a project without the container that archiving adds.
Tree(p) == {<<f, folder[f].parent, folder[f].name>> :
              f \in {g \in FoldersOf(p) : folder[g].kind = "folder"}}

\* The parent of a folder is there and of the same project or public, and public only for a
\* container.  Only system roots are public without a parent.
ParentsMatch ==
  \A f \in Present :
    LET own == folder[f] IN
    /\ own.parent = Nothing => (own.kind = "root" <=> own.project = Nothing)
    /\ own.parent # Nothing =>
         /\ own.parent \in Present /\ own.kind # "root"
         /\ folder[own.parent].project \in {own.project, Nothing}
    /\ own.project \in Projects \ astray =>
         (own.kind = "container" <=> own.parent # Nothing /\ folder[own.parent].project = Nothing)

TypeOK ==
  /\ ParentsMatch
  /\ folder \in [Folders -> FolderType]
  /\ status \in [Projects -> {"absent", "active", "archived"}]
  /\ request \in [Requests -> RequestType]
  /\ \A p \in Projects : kept[p] \subseteq Folders \X OrNothing(Folders) \X FolderName
  /\ DOMAIN kept = Projects
  /\ astray \subseteq Projects

Init ==
  /\ folder = [f \in Folders |->
       IF f \in Roots THEN [NoFolder EXCEPT !.kind = "root", !.name = f, !.active = TRUE]
                      ELSE NoFolder]
  /\ status = [p \in Projects |-> "absent"]
  /\ request = [c \in Requests |-> Idle]
  /\ kept = [p \in Projects |-> {}]
  /\ astray = {}

-------------------------------------------------------------------------------
(* A request begins with what the view loads: active folders, and a project  *)
(* whose status archive_project, unarchive_project and disable_folder do not *)
(* read again.                                                               *)

Active == {f \in Present : folder[f].active}

Start(c, r) ==
  /\ request[c].step = "idle"
  /\ request' = [request EXCEPT ![c] = r]
  /\ UNCHANGED <<folder, status, kept, astray>>

Locking(op) == [Idle EXCEPT !.step = "lock", !.op = op]

BeginCreate(c) ==
  \E n \in Names, code \in {"container", "other"} :
    \/ \E f \in Present :
         Start(c, [Locking("create") EXCEPT !.parent = f, !.project = folder[f].project,
                                            !.name = n, !.code = code])
    \/ \E p \in Projects :
         /\ status[p] # "absent"
         /\ Start(c, [Locking("create") EXCEPT !.project = p, !.name = n, !.code = code])

BeginChange(c) ==
  \E f \in Active :
    \/ \E n \in OrNothing(Names), code \in {"container", "other", "none"} :
         Start(c, [Locking("update") EXCEPT !.folder = f, !.name = n, !.code = code])
    \/ \E g \in OrNothing(Active) : Start(c, [Locking("move") EXCEPT !.folder = f, !.parent = g])

\* _ensure_folder_write_allowed with the project as the view has loaded it
Writable(p) == p # Nothing => status[p] = "active"

\* disable_folder: all its checks come before its first lock.
BeginDisable(c) ==
  \E f \in Active :
    /\ folder[f].kind # "root" /\ Writable(folder[f].project)
    /\ Children(f) \cap Active = {}
    /\ Start(c, [Locking("disable") EXCEPT !.folder = f])

BeginProject(c) ==
  \E p \in Projects :
    \/ /\ status[p] = "active"
       /\ \E y \in Years : Start(c, [Locking("archive") EXCEPT !.project = p, !.yearName = y])
    \/ /\ status[p] = "archived"
       /\ Start(c, [Locking("unarchive") EXCEPT !.project = p])
    \/ /\ status[p] # "absent"
       /\ Start(c, [Locking("delete") EXCEPT !.project = p])

Begin(c) == BeginCreate(c) \/ BeginChange(c) \/ BeginDisable(c) \/ BeginProject(c)

\* An id is new when no row has it and no request knows it.
FreeFolders ==
  {f \in Folders \ Present : \A c \in Requests :
     f \notin {request[c].folder, request[c].parent, request[c].year, request[c].container}}

\* create_project with ensure_project_standard_folders
CreateProject ==
  \E p \in Projects, at \in [Standard -> FreeFolders] :
    /\ status[p] = "absent" /\ \A c \in Requests : request[c].project # p
    /\ \A m, n \in Standard : m # n => at[m] # at[n]
    /\ status' = [status EXCEPT ![p] = "active"]
    /\ folder' = [f \in Folders |->
         IF \E n \in Standard : at[n] = f
           THEN [kind |-> "folder", project |-> p, parent |-> Nothing,
                 name |-> CHOOSE n \in Standard : at[n] = f, coded |-> FALSE, active |-> TRUE]
           ELSE folder[f]]
    /\ UNCHANGED <<request, kept, astray>>

-------------------------------------------------------------------------------
(* Row locks *)

\* Not the code: create_folder and update_folder do not lock the project.
RowsUnlockedProject(r) ==
  CASE r.op = "create" -> <<r.parent>>
    [] r.op = "update" -> <<r.folder, folder[r.folder].parent>>
    [] r.op = "move"   -> <<r.folder, folder[r.folder].project, folder[r.folder].parent, r.parent>>
    [] r.op \in {"archive", "delete"} -> <<r.project>>
    [] OTHER -> <<>>

\* _lock_folder_scope; the SELECT ... FOR UPDATE of a folder joins its project and
\* its parent and locks them too.  project.save() of archive_project locks the
\* project; disable_folder and unarchive_project only lock what they write.
Rows(r) ==
  CASE r.op = "create" -> <<r.project, r.parent>>
    [] r.op = "update" -> <<r.folder, folder[r.folder].project, folder[r.folder].parent>>
    [] r.op = "move"   -> <<r.folder, folder[r.folder].project, folder[r.folder].parent, r.parent>>
    [] r.op \in {"archive", "delete"} -> <<r.project>>
    [] OTHER -> <<>>

ToLock(r) == ToSet(Rows(r)) \ {Nothing}

Exists(row) == row \in Present \/ (row \in Projects /\ status[row] # "absent")
HeldByOther(c, row) == \E b \in Requests \ {c} : row \in request[b].held

\* The rows one after the other, when no other transaction has them.
LockRow(c) ==
  LET rows == Rows(request[c])
      held == request[c].held
  IN
  /\ request[c].step = "lock"
  /\ \E i \in DOMAIN rows :
       /\ rows[i] # Nothing /\ rows[i] \notin held
       /\ \A j \in 1..(i - 1) : rows[j] \in held \cup {Nothing}
       /\ Exists(rows[i]) /\ ~HeldByOther(c, rows[i])
       /\ request' = [request EXCEPT ![c].held = held \cup {rows[i]}]
  /\ UNCHANGED <<folder, status, kept, astray>>

-------------------------------------------------------------------------------
(* The checks *)

\* f, its parent, the parent of that and so on
Ancestry(f) ==
  {a \in Folders : \A S \in SUBSET Folders :
     f \in S /\ (\A g \in S : folder[g].parent \in S \cup {Nothing}) => a \in S}

\* _validate_unique_sibling_name
NameIsFree(p, parent, n, own) ==
  \A f \in Active \ {own} : <<folder[f].project, folder[f].parent, folder[f].name>> # <<p, parent, n>>

\* _validate_parent; parents above the new one are read without a lock
ParentFits(p, parent) ==
  parent # Nothing => folder[parent].active /\ folder[parent].project = p

\* Not the code: moving a folder to itself is refused, to a descendant not.
NotBelowSelfOnly(f, parent) == f # parent

\* _is_descendant
NotBelow(f, parent) == parent # Nothing => f \notin Ancestry(parent)

Consistent(r) ==
  LET own == IF r.folder = Nothing THEN NoFolder ELSE folder[r.folder] IN
  CASE r.op = "create" -> /\ Writable(r.project) /\ ParentFits(r.project, r.parent)
                          /\ NameIsFree(r.project, r.parent, r.name, Nothing)
    [] r.op = "update" -> /\ own.kind # "root" /\ Writable(own.project)
                          /\ r.name # Nothing => NameIsFree(own.project, own.parent, r.name, r.folder)
    [] r.op = "move"   -> /\ own.kind # "root" /\ Writable(own.project)
                          /\ own.project = Nothing => r.parent # Nothing
                          /\ ParentFits(own.project, r.parent)
                          /\ NotBelow(r.folder, r.parent)
                          /\ NameIsFree(own.project, r.parent, own.name, r.folder)
    [] OTHER -> TRUE

HasLocks(c) == request[c].step = "lock" /\ ToLock(request[c]) \subseteq request[c].held

PassChecks(c) ==
  /\ HasLocks(c) /\ request[c].op \notin {"archive", "unarchive"}
  /\ Consistent(request[c])
  /\ request' = [request EXCEPT ![c].step = "write"]
  /\ UNCHANGED <<folder, status, kept, astray>>

YearFolders(y) ==
  {f \in Present : /\ folder[f].project = Nothing /\ folder[f].parent = ArchiveRoot
                   /\ folder[f].name = y}
Containers(p) == {f \in FoldersOf(p) : folder[f].coded}

\* One(S): get() of a set of rows, which fails when there are several
One(S) == IF S = {} THEN Nothing ELSE CHOOSE f \in S : TRUE

\* The reads of the two get_or_create, which fail with two folders of the year or two containers
FindArchiveFolders(c) ==
  LET r     == request[c]
      years == YearFolders(r.yearName)
      boxes == Containers(r.project)
  IN
  /\ HasLocks(c) /\ r.op = "archive"
  /\ Cardinality(years) < 2 /\ Cardinality(boxes) < 2
  /\ request' = [request EXCEPT ![c] =
       [r EXCEPT !.step = "write", !.year = One(years), !.container = One(boxes),
                 !.revive = (years \cup boxes) \ Active]]
  /\ UNCHANGED <<folder, status, kept, astray>>

\* parent__project__isnull, which is so as well without a parent
Uppermost(p) ==
  {f \in Containers(p) : folder[f].parent # Nothing => folder[folder[f].parent].project = Nothing}

\* restore_archived_project_folders takes the first container, if there is one.
FindContainer(c) ==
  LET boxes == Uppermost(request[c].project) IN
  /\ HasLocks(c) /\ request[c].op = "unarchive"
  /\ \E box \in IF boxes = {} THEN {Nothing} ELSE boxes :
       request' = [request EXCEPT ![c].step = "write", ![c].container = box]
  /\ UNCHANGED <<folder, status, kept, astray>>

-------------------------------------------------------------------------------
(* The writes and the commit, which gives the locks back.  A row that is     *)
(* written has to be there and held by nobody else.                          *)

Writes(c, op, rows) ==
  /\ request[c].step = "write" /\ request[c].op = op
  /\ \A row \in rows : Exists(row) /\ ~HeldByOther(c, row)

Finish(c) == request' = [request EXCEPT ![c] = Idle]

\* A user may give a folder the code of the container of its project.
Misleads(r, p) == IF r.code = "container" THEN {p} \ {Nothing} ELSE {}

CreateFolder(c) ==
  LET r == request[c] IN
  /\ Writes(c, "create", {})
  /\ \E f \in FreeFolders :
       folder' = [folder EXCEPT ![f] =
         [kind |-> "folder", project |-> r.project, parent |-> r.parent, name |-> r.name,
          coded |-> r.code = "container", active |-> TRUE]]
  /\ astray' = astray \cup Misleads(r, r.project)
  /\ Finish(c)
  /\ UNCHANGED <<status, kept>>

UpdateFolder(c) ==
  LET r == request[c]
      f == r.folder
  IN
  /\ Writes(c, "update", {f})
  /\ folder' = [folder EXCEPT
       ![f].name  = IF r.name = Nothing THEN @ ELSE r.name,
       ![f].coded = IF r.code = "none" THEN @ ELSE r.code = "container"]
  /\ astray' = astray \cup Misleads(r, folder[f].project)
  /\ Finish(c)
  /\ UNCHANGED <<status, kept>>

MoveFolder(c) ==
  LET f == request[c].folder IN
  /\ Writes(c, "move", {f})
  /\ folder' = [folder EXCEPT ![f].parent = request[c].parent]
  /\ Finish(c)
  /\ UNCHANGED <<status, kept, astray>>

DisableFolder(c) ==
  LET f == request[c].folder IN
  /\ Writes(c, "disable", {f})
  /\ folder' = [folder EXCEPT ![f].active = FALSE]
  /\ Finish(c)
  /\ UNCHANGED <<status, kept, astray>>

TopLevel(p) == {f \in FoldersOf(p) : folder[f].parent = Nothing}

\* A user's folder that is taken for the container is moved and renamed like one.
Hang(r, year, box) ==
  [f \in Folders |->
     CASE f = year /\ r.year = Nothing ->
            [kind |-> "year", project |-> Nothing, parent |-> ArchiveRoot,
             name |-> r.yearName, coded |-> FALSE, active |-> TRUE]
       [] f = year /\ r.year # Nothing ->
            [folder[f] EXCEPT !.kind = "year", !.active = @ \/ f \in r.revive]
       [] f = box /\ r.container = Nothing ->
            [kind |-> "container", project |-> r.project, parent |-> year,
             name |-> r.project, coded |-> TRUE, active |-> TRUE]
       [] f = box /\ r.container # Nothing ->
            [folder[f] EXCEPT !.parent = year, !.name = r.project,
                              !.active = @ \/ f \in r.revive]
       [] f \in TopLevel(r.project) \ {box} -> [folder[f] EXCEPT !.parent = box]
       [] OTHER -> folder[f]]

\* Not the code: archiving leaves the folders in the project where they are.
ArchiveProjectOnly(c) ==
  LET r == request[c] IN
  /\ Writes(c, "archive", {r.project})
  /\ status' = [status EXCEPT ![r.project] = "archived"]
  /\ kept' = [kept EXCEPT ![r.project] = {}]
  /\ Finish(c)
  /\ UNCHANGED <<folder, astray>>

\* archive_project: the folder of the year and the container are created when the
\* reads have found none, and the top level of the project goes into the container.
ArchiveProject(c) ==
  LET r == request[c] IN
  /\ Writes(c, "archive",
            {r.project} \cup TopLevel(r.project) \cup r.revive \cup ({r.container} \ {Nothing}))
  /\ \E year \in IF r.year = Nothing THEN FreeFolders ELSE {r.year},
        box \in IF r.container = Nothing THEN FreeFolders ELSE {r.container} :
       /\ year # box
       /\ folder' = Hang(r, year, box)
  /\ status' = [status EXCEPT ![r.project] = "archived"]
  /\ kept' = IF status[r.project] = "active"
             THEN [kept EXCEPT ![r.project] = Tree(r.project)] ELSE kept
  /\ Finish(c)
  /\ UNCHANGED astray

\* unarchive_project: the folders in what it has found for the container go back to the top
\* level, and it is deleted, when it is still there and has no documents of its own; only where
\* users could write to it may it have some.  What it has found is not the container any more
\* when the project has been unarchived and archived again since.
UnarchiveProject(c) ==
  LET r    == request[c]
      p    == r.project
      box  == {r.container} \cap Present
      back == {f \in Present \ box : folder[f].parent \in box}
  IN
  /\ \E gone \in {{}, box} :
       /\ p \notin astray => gone = box
       /\ Writes(c, "unarchive", {p} \cup back \cup gone)
       /\ folder' = [f \in Folders |->
            CASE f \in gone -> NoFolder
              [] f \in back -> [folder[f] EXCEPT !.parent = Nothing]
              [] OTHER      -> folder[f]]
  /\ astray' = IF status[p] = "archived" /\ box # Containers(p) THEN astray \cup {p} ELSE astray
  /\ status' = [status EXCEPT ![p] = "active"]
  /\ kept' = [kept EXCEPT ![p] = {}]
  /\ Finish(c)

\* delete_project, with its folders from the deepest up
DeleteProject(c) ==
  LET p == request[c].project IN
  /\ Writes(c, "delete", {p} \cup FoldersOf(p))
  /\ folder' = [f \in Folders |-> IF f \in FoldersOf(p) THEN NoFolder ELSE folder[f]]
  /\ status' = [status EXCEPT ![p] = "absent"]
  /\ kept' = [kept EXCEPT ![p] = {}]
  /\ astray' = astray \ {p}
  /\ Finish(c)

\* A check refuses, a row is gone, a deadlock or a crash: the transaction is rolled back.
Fail(c) ==
  /\ request[c].step # "idle"
  /\ Finish(c)
  /\ UNCHANGED <<folder, status, kept, astray>>

-------------------------------------------------------------------------------

Handle(c) ==
  \/ Begin(c) \/ LockRow(c) \/ PassChecks(c) \/ FindArchiveFolders(c) \/ FindContainer(c)
  \/ CreateFolder(c) \/ UpdateFolder(c) \/ MoveFolder(c) \/ DisableFolder(c)
  \/ ArchiveProject(c) \/ UnarchiveProject(c) \/ DeleteProject(c)
  \/ Fail(c)

Next == CreateProject \/ \E c \in Requests : Handle(c)

Spec == Init /\ [][Next]_vars

-------------------------------------------------------------------------------
(* Properties *)

\* "同级文件夹名称已存在": active folders with one parent have different names,
\* through creations, renamings, moves and archivings that overlap, whoever starts them.
\* Public folders of the year are left out, which archiving creates and revives without a
\* lock, and projects gone astray.
SiblingNamesAreUnique ==
  \A f, g \in {h \in Active : folder[h].kind # "year" /\ folder[h].project \notin astray} :
    f # g => <<folder[f].project, folder[f].parent, folder[f].name>>
               # <<folder[g].project, folder[g].parent, folder[g].name>>

\* From every set of folders a path leads out: no folder is its own ancestor.
IsForest(F) == \A S \in (SUBSET F) \ {{}} : \E f \in S : folder[f].parent \notin S

\* The folders of a project form trees, however moves overlap, and whatever folder
\* archiving takes for the container.
ProjectTreesAreTrees == \A p \in Projects : IsForest(FoldersOf(p))

\* Unarchived, a project has the tree it was archived with, unless a user gave a folder
\* the container's code or the request had looked for the container too early.
UnarchivingRestoresTree ==
  [][\A p \in Projects \ astray' :
       status[p] = "archived" /\ status'[p] = "active" => Tree(p)' = kept[p]]_vars

\* An archived project has its container, below a public folder, and nothing
\* else at the top; an active one has none.
ArchiveMatchesStatus ==
  \A p \in Projects \ astray :
    /\ status[p] = "archived" => Cardinality(Containers(p)) = 1 /\ TopLevel(p) = {}
    /\ status[p] # "archived" => Containers(p) = {}
===============================================================================
