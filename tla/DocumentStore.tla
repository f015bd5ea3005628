----------------------------- MODULE DocumentStore -----------------------------
(***************************************************************************)
(* Documents, their versions and stored files, the recycle bin, the         *)
(* temporary grants and the folders they are in (apps/documents/services,   *)
(* apps/access/temporary_services, apps/folders/services, common/storage).  *)
(*                                                                          *)
(* A request is a transaction that takes row locks one after the other,     *)
(* checks and writes; MySQL runs READ COMMITTED, so what it reads without a *)
(* lock may change before it commits.  Files are outside the transaction.   *)
(* Folders are those of no project; in a project every request below also   *)
(* queues for the row of the project.                                       *)
(***************************************************************************)
EXTENDS Naturals, Sequences, SequencesExt

CONSTANTS
  Requests,      \* HTTP requests that may be in flight at the same time
  Docs,          \* ids of documents, never used twice
  Folders, Titles,
  Files,         \* storage paths (uuid4); a path in use is not drawn again
  Grants,        \* ids of temporary access grants
  MaxDownloads,  \* max_downloads of every grant
  Nothing        \* NULL

ASSUME StoreAssumption ==
  /\ Nothing \notin Requests \cup Docs \cup Folders \cup Titles \cup Files \cup Grants
  /\ MaxDownloads \in Nat \ {0}

VARIABLES
  document,   \* per id: state, folder, title and the files of its version rows
  grant,      \* per id: state, document of its version, used_count
  enabled,    \* the folders with is_active
  files,      \* the files in the storage
  request,    \* where each request is and what it works with
  ended,      \* history: grants whose document went to the recycle bin after them
  orphans     \* history: files whose removal a request did not live to see

vars == <<document, grant, enabled, files, request, ended, orphans>>

-------------------------------------------------------------------------------
(* Types *)

NoDocument == [state |-> "absent", folder |-> Nothing, title |-> Nothing, files |-> {}]
NoGrant    == [state |-> "absent", doc |-> Nothing, uses |-> 0]

Uploads   == {"create", "version"}
Mutations == {"update", "move", "delete", "restore", "purge"}
GrantOps  == {"consume", "revoke"}
Ops       == Uploads \cup Mutations \cup GrantOps \cup {"disable"}

\* `current`: expected_updated_at is still the updated_at of the document.
Idle == [step |-> "idle", op |-> "create", doc |-> Nothing, target |-> Nothing,
         title |-> Nothing, grant |-> Nothing, file |-> Nothing,
         current |-> FALSE, held |-> {}, remove |-> {}]

OrNothing(S) == S \cup {Nothing}

DocumentType ==
  [state : {"absent", "active", "trash", "purged"}, folder : OrNothing(Folders),
   title : OrNothing(Titles), files : SUBSET Files]
GrantType ==
  [state : {"absent", "live", "revoked", "gone"}, doc : OrNothing(Docs), uses : 0..MaxDownloads]
RequestType ==
  [step : {"idle", "upload", "lock", "write", "cleanup"}, op : Ops,
   doc : OrNothing(Docs), target : OrNothing(Folders), title : OrNothing(Titles),
   grant : OrNothing(Grants), file : OrNothing(Files), current : BOOLEAN,
   held : SUBSET (Docs \cup Folders \cup Grants), remove : SUBSET Files]

TypeOK ==
  /\ document \in [Docs -> DocumentType]
  /\ grant \in [Grants -> GrantType]
  /\ enabled \subseteq Folders
  /\ files \subseteq Files
  /\ request \in [Requests -> RequestType]
  /\ ended \subseteq Grants
  /\ orphans \subseteq Files

Init ==
  /\ document = [d \in Docs |-> NoDocument]
  /\ grant = [g \in Grants |-> NoGrant]
  /\ enabled = Folders
  /\ files = {}
  /\ request = [c \in Requests |-> Idle]
  /\ ended = {} /\ orphans = {}

-------------------------------------------------------------------------------
(* A request begins with what the view loads: the page's updated_at, the     *)
(* target folder, the objects it passes to the service.                      *)

Start(c, r) ==
  /\ request[c].step = "idle"
  /\ request' = [request EXCEPT ![c] = r]
  /\ UNCHANGED <<document, grant, enabled, files, ended, orphans>>

BeginCreate(c) ==
  \E f \in enabled, t \in Titles :
    Start(c, [Idle EXCEPT !.step = "upload", !.op = "create", !.target = f, !.title = t])

BeginVersion(c) ==
  \E d \in Docs :
    /\ document[d].state = "active"
    /\ Start(c, [Idle EXCEPT !.step = "upload", !.op = "version", !.doc = d])

OnDocument(op, d) ==
  [Idle EXCEPT !.step = "lock", !.op = op, !.doc = d, !.current = TRUE]

BeginMutation(c) ==
  \E d \in Docs :
    \/ /\ document[d].state = "active"
       /\ \/ \E t \in Titles : Start(c, [OnDocument("update", d) EXCEPT !.title = t])
          \/ \E f \in enabled : Start(c, [OnDocument("move", d) EXCEPT !.target = f])
          \/ Start(c, OnDocument("delete", d))
    \/ /\ document[d].state = "trash"
       /\ \E op \in {"restore", "purge"} : Start(c, OnDocument(op, d))

BeginGrantOp(c) ==
  \E g \in Grants, op \in GrantOps :
    /\ grant[g].state \in {"live", "revoked"}
    /\ Start(c, [Idle EXCEPT !.step = "lock", !.op = op, !.grant = g])

\* disable_folder looks for documents first, without a lock.
BeginDisable(c) ==
  \E f \in enabled :
    /\ \A d \in Docs : ~(document[d].state = "active" /\ document[d].folder = f)
    /\ Start(c, [Idle EXCEPT !.step = "lock", !.op = "disable", !.target = f])

Begin(c) ==
  BeginCreate(c) \/ BeginVersion(c) \/ BeginMutation(c) \/ BeginGrantOp(c) \/ BeginDisable(c)

\* The files that version rows name, and those a request has stored or has to remove.
InRows == {f \in Files : \E d \in Docs : f \in document[d].files}
InWork == {f \in Files : \E c \in Requests : f = request[c].file \/ f \in request[c].remove}

\* A file's name is used again only when nobody refers to it any more.
FreeFiles == Files \ (files \cup orphans \cup InRows \cup InWork)

\* save_uploaded_file, before the transaction
SaveUploadedFile(c) ==
  /\ request[c].step = "upload"
  /\ \E f \in FreeFiles :
       /\ files' = files \cup {f}
       /\ request' = [request EXCEPT ![c].step = "lock", ![c].file = f]
  /\ UNCHANGED <<document, grant, enabled, ended, orphans>>

-------------------------------------------------------------------------------
(* Row locks *)

\* Rows are taken in this order.  SELECT ... FOR UPDATE with select_related locks
\* the joined rows too: the folder of a document, the document of a grant.

\* Not the code: a move does not lock the folder it goes to.
DocumentRowsSourceOnly(r) == <<r.doc, document[r.doc].folder>>

\* Not the code: a new version is added without locking the document.
DocumentRowsUnlockedVersion(r) ==
  CASE r.op = "version" -> <<>>
    [] r.op = "move"    -> <<r.doc, document[r.doc].folder, r.target>>
    [] OTHER            -> <<r.doc, document[r.doc].folder>>

\* A document with its folder, for a move the target too.
DocumentRows(r) ==
  IF r.op = "move" THEN <<r.doc, document[r.doc].folder, r.target>>
                   ELSE <<r.doc, document[r.doc].folder>>

\* Not the code: the grant of a token is read without locks.
GrantRowsUnlocked(r) == <<>>

GrantRows(r) == <<r.grant, grant[r.grant].doc>>

RowsToLock(r) ==
  CASE r.op \in {"create", "disable"} -> <<r.target>>
    [] r.op \in GrantOps              -> GrantRows(r)
    [] OTHER                          -> DocumentRows(r)

HeldByOther(c, row) == \E b \in Requests \ {c} : row \in request[b].held

\* The next row, when no other transaction holds it; Nothing is a row that is gone.
LockRow(c) ==
  LET rows == RowsToLock(request[c])
      held == request[c].held
  IN
  /\ request[c].step = "lock"
  /\ \E i \in DOMAIN rows :
       /\ rows[i] \notin held /\ \A j \in 1..(i - 1) : rows[j] \in held
       /\ rows[i] # Nothing /\ ~HeldByOther(c, rows[i])
       /\ request' = [request EXCEPT ![c].held = held \cup {rows[i]}]
  /\ UNCHANGED <<document, grant, enabled, files, ended, orphans>>

\* _ensure_folder_accepts_document: no other active document has that name
Accepts(f, t, d) ==
  \A e \in Docs \ {d} :
    ~(document[e].state = "active" /\ document[e].folder = f /\ document[e].title = t)

\* The checks of the service that its row locks keep true until it commits.
Consistent(r) ==
  LET own == document[r.doc] IN
  CASE r.op = "create"  -> Accepts(r.target, r.title, Nothing)
    [] r.op = "version" -> own.state = "active"
    [] r.op = "update"  -> own.state = "active" /\ r.current /\ Accepts(own.folder, r.title, r.doc)
    [] r.op = "move"    -> own.state = "active" /\ r.current /\ Accepts(r.target, own.title, r.doc)
    [] r.op = "delete"  -> own.state = "active" /\ r.current
    [] r.op = "restore" -> own.state = "trash" /\ r.current /\ Accepts(own.folder, own.title, r.doc)
    [] r.op = "purge"   -> own.state = "trash" /\ r.current
    [] r.op = "consume" -> /\ grant[r.grant].state = "live" /\ grant[r.grant].uses < MaxDownloads
                           /\ document[grant[r.grant].doc].state = "active"
    [] r.op = "revoke"  -> grant[r.grant].state = "live"
    [] r.op = "disable" -> TRUE

\* is_active; a move looks at the folder as the serializer loaded it, active.
FolderIsActive(r) ==
  /\ r.op = "create"  => r.target \in enabled
  /\ r.op = "restore" => document[r.doc].folder \in enabled

\* Not the code: a permanent deletion removes the files before it deletes the rows.
PassChecksRemovingFiles(c) ==
  /\ request[c].step = "lock"
  /\ ToSet(RowsToLock(request[c])) \subseteq request[c].held
  /\ Consistent(request[c]) /\ FolderIsActive(request[c])
  /\ request' = [request EXCEPT ![c].step = "write"]
  /\ files' = IF request[c].op = "purge" THEN files \ document[request[c].doc].files ELSE files
  /\ UNCHANGED <<document, grant, enabled, ended, orphans>>

PassChecks(c) ==
  /\ request[c].step = "lock"
  /\ ToSet(RowsToLock(request[c])) \subseteq request[c].held
  /\ Consistent(request[c]) /\ FolderIsActive(request[c])
  /\ request' = [request EXCEPT ![c].step = "write"]
  /\ UNCHANGED <<document, grant, enabled, files, ended, orphans>>

-------------------------------------------------------------------------------
(* The writes and the commit, which gives the locks back *)

Writes(c, op) == request[c].step = "write" /\ request[c].op = op

\* The request is over; a change of document d leaves every other request that
\* knows d with an old updated_at.
Finish(c, d) ==
  request' = [b \in Requests |->
    IF b = c THEN Idle
    ELSE IF d # Nothing /\ request[b].doc = d THEN [request[b] EXCEPT !.current = FALSE]
    ELSE request[b]]

\* The UPDATE or DELETE of a document's grants waits for those that hold them.
GrantsOf(d) == {g \in Grants : grant[g].doc = d /\ grant[g].state \in {"live", "revoked"}}

CreateDocument(c) ==
  /\ Writes(c, "create")
  /\ \E d \in Docs :
       /\ document[d].state = "absent"
       /\ document' = [document EXCEPT ![d] =
            [state |-> "active", folder |-> request[c].target,
             title |-> request[c].title, files |-> {request[c].file}]]
  /\ Finish(c, Nothing)
  /\ UNCHANGED <<grant, enabled, files, ended, orphans>>

CreateDocumentVersion(c) ==
  LET d == request[c].doc IN
  /\ Writes(c, "version")
  /\ document' = [document EXCEPT ![d].files = @ \cup {request[c].file}]
  /\ Finish(c, d)
  /\ UNCHANGED <<grant, enabled, files, ended, orphans>>

UpdateDocumentMetadata(c) ==
  LET d == request[c].doc IN
  /\ Writes(c, "update")
  /\ document' = [document EXCEPT ![d].title = request[c].title]
  /\ Finish(c, d)
  /\ UNCHANGED <<grant, enabled, files, ended, orphans>>

MoveDocument(c) ==
  LET d == request[c].doc IN
  /\ Writes(c, "move")
  /\ document' = [document EXCEPT ![d].folder = request[c].target]
  /\ Finish(c, d)
  /\ UNCHANGED <<grant, enabled, files, ended, orphans>>

\* Not the code: the temporary grants are left as they are.
SoftDeleteOnly(c) ==
  LET d == request[c].doc IN
  /\ Writes(c, "delete")
  /\ document' = [document EXCEPT ![d].state = "trash"]
  /\ ended' = ended \cup GrantsOf(d)
  /\ Finish(c, d)
  /\ UNCHANGED <<grant, enabled, files, orphans>>

SoftDeleteDocument(c) ==
  LET d    == request[c].doc
      live == {g \in GrantsOf(d) : grant[g].state = "live"}
  IN
  /\ Writes(c, "delete")
  /\ \A g \in live : ~HeldByOther(c, g)
  /\ document' = [document EXCEPT ![d].state = "trash"]
  /\ grant' = [g \in Grants |-> IF g \in live THEN [grant[g] EXCEPT !.state = "revoked"] ELSE grant[g]]
  /\ ended' = ended \cup GrantsOf(d)
  /\ Finish(c, d)
  /\ UNCHANGED <<enabled, files, orphans>>

RestoreDocument(c) ==
  LET d == request[c].doc IN
  /\ Writes(c, "restore")
  /\ document' = [document EXCEPT ![d].state = "active"]
  /\ Finish(c, d)
  /\ UNCHANGED <<grant, enabled, files, ended, orphans>>

\* permanently_delete_document: the rows, with versions and grants by CASCADE.
\* The files follow after the commit.
DeleteRows(c) ==
  LET d == request[c].doc IN
  /\ Writes(c, "purge")
  /\ \A g \in GrantsOf(d) : ~HeldByOther(c, g)
  /\ document' = [document EXCEPT ![d] = [NoDocument EXCEPT !.state = "purged"]]
  /\ grant' = [g \in Grants |-> IF g \in GrantsOf(d) THEN [grant[g] EXCEPT !.state = "gone"] ELSE grant[g]]
  /\ request' = [b \in Requests |->
       IF b = c THEN [Idle EXCEPT !.step = "cleanup", !.remove = document[d].files]
       ELSE IF request[b].doc = d THEN [request[b] EXCEPT !.current = FALSE]
       ELSE request[b]]
  /\ UNCHANGED <<enabled, files, ended, orphans>>

RemoveFile(c) ==
  /\ request[c].step = "cleanup"
  /\ \E f \in request[c].remove :
       LET left == request[c].remove \ {f} IN
       /\ files' = files \ {f}
       /\ request' = [request EXCEPT ![c] =
            IF left = {} THEN Idle ELSE [request[c] EXCEPT !.remove = left]]
  /\ UNCHANGED <<document, grant, enabled, ended, orphans>>

DisableFolder(c) ==
  /\ Writes(c, "disable")
  /\ enabled' = enabled \ {request[c].target}
  /\ Finish(c, Nothing)
  /\ UNCHANGED <<document, grant, files, ended, orphans>>

\* create_temporary_access_grant takes no lock and does not ask whether the
\* document is in the recycle bin.
CreateTemporaryGrant ==
  /\ \E g \in Grants, d \in Docs :
       /\ grant[g].state = "absent" /\ document[d].state \in {"active", "trash"}
       /\ grant' = [grant EXCEPT ![g] = [state |-> "live", doc |-> d, uses |-> 0]]
  /\ UNCHANGED <<document, enabled, files, request, ended, orphans>>

RevokeTemporaryGrant(c) ==
  /\ Writes(c, "revoke")
  /\ grant' = [grant EXCEPT ![request[c].grant].state = "revoked"]
  /\ Finish(c, Nothing)
  /\ UNCHANGED <<document, enabled, files, ended, orphans>>

\* The use is counted; the file is opened after the commit.
ConsumeToken(c) ==
  /\ Writes(c, "consume")
  /\ grant' = [grant EXCEPT ![request[c].grant].uses = @ + 1]
  /\ Finish(c, Nothing)
  /\ UNCHANGED <<document, enabled, files, ended, orphans>>

-------------------------------------------------------------------------------
(* Failure *)

InTransaction(c) == request[c].step \in {"upload", "lock", "write"}

\* Not the code: the file of a failed upload stays.
FailKeepingFile(c) ==
  /\ InTransaction(c)
  /\ Finish(c, Nothing)
  /\ UNCHANGED <<document, grant, enabled, files, ended, orphans>>

\* A check refuses, a statement fails, or InnoDB ends the transaction (deadlock,
\* lock wait timeout): rollback, and the except branch removes the new file.
Fail(c) ==
  /\ InTransaction(c)
  /\ files' = files \ {request[c].file}
  /\ Finish(c, Nothing)
  /\ UNCHANGED <<document, grant, enabled, ended, orphans>>

\* The process dies with an upload or a clean-up unfinished, or a removal fails.
Crash(c) ==
  LET left == files \cap ({request[c].file} \cup request[c].remove) IN
  /\ left # {}
  /\ orphans' = orphans \cup left
  /\ Finish(c, Nothing)
  /\ UNCHANGED <<document, grant, enabled, files, ended>>

-------------------------------------------------------------------------------

Handle(c) ==
  \/ Begin(c) \/ SaveUploadedFile(c) \/ LockRow(c) \/ PassChecks(c)
  \/ CreateDocument(c) \/ CreateDocumentVersion(c)
  \/ UpdateDocumentMetadata(c) \/ MoveDocument(c)
  \/ SoftDeleteDocument(c) \/ RestoreDocument(c)
  \/ DeleteRows(c) \/ RemoveFile(c)
  \/ DisableFolder(c) \/ RevokeTemporaryGrant(c) \/ ConsumeToken(c)
  \/ Fail(c) \/ Crash(c)

Next == CreateTemporaryGrant \/ \E c \in Requests : Handle(c)

Spec == Init /\ [][Next]_vars

-------------------------------------------------------------------------------
(* Properties *)

\* "同一目录下已存在同名文件": no two active documents of a folder have one title,
\* however creations, moves, renamings and restorations overlap.
TitlesAreUnique ==
  \A d, e \in Docs :
    d # e /\ document[d].state = "active" /\ document[e].state = "active"
      => <<document[d].folder, document[d].title>> # <<document[e].folder, document[e].title>>

\* Every version row, in the recycle bin too, has its file: files are stored
\* before their rows and removed after them, whatever fails in between.
VersionsHaveFiles == \A d \in Docs : document[d].files \subseteq files

\* Every file has a row, a request that still has to do with it, or was left by
\* an interrupted one: failed uploads and permanent deletions clean up.
FilesAreAccountedFor == files \subseteq InRows \cup InWork \cup orphans

\* An edit, move, deletion, restoration or permanent deletion changes the very
\* document its sender has seen (expected_updated_at, 409 otherwise).
NoLostUpdate ==
  [][\A c \in Requests :
       request[c].step = "write" /\ request[c].op \in Mutations
         /\ document'[request[c].doc] # document[request[c].doc]
         => request[c].current]_vars

\* A temporary grant that was there when its document was deleted is never used
\* again, not even after the document has been restored.
GrantsEndWithDocument ==
  [][\A g \in ended : grant'[g].uses = grant[g].uses]_vars

\* Tokens give no more downloads than they were issued for, and none while the
\* document is in the recycle bin.
DownloadsAreAllowed ==
  [][\A g \in Grants :
       grant'[g].uses > grant[g].uses
         => grant[g].state = "live" /\ document[grant[g].doc].state = "active"]_vars

\* The inductive invariant behind them.

LocksAreExclusive ==
  \A b, c \in Requests : b # c => request[b].held \cap request[c].held = {}

\* What a request works with is there.
RequestFits(r) ==
  /\ r.step \in {"idle", "cleanup"} => r.held = {} /\ r.file = Nothing
  /\ r.step # "cleanup" => r.remove = {}
  /\ r.step \in {"upload", "lock", "write"} =>
       /\ r.file # Nothing <=> r.op \in Uploads /\ r.step # "upload"
       /\ r.op \in {"create", "move", "disable"} => r.target \in Folders
       /\ r.op \in {"create", "update"} => r.title \in Titles
       /\ r.op \in {"version"} \cup Mutations => r.doc \in Docs /\ document[r.doc].state # "absent"
       /\ r.op \in GrantOps => r.grant \in Grants /\ grant[r.grant].state # "absent"
RequestsFit == \A c \in Requests : RequestFits(request[c])

GrantsFit == \A g \in Grants :
  /\ grant[g].state # "absent" => grant[g].doc \in Docs /\ document[grant[g].doc].state # "absent"
  /\ g \in ended => grant[g].state \in {"revoked", "gone"}

\* From its checks to its commit a request holds the rows it has looked at, and
\* what it has found still holds.
ChecksStillHold == \A c \in Requests :
  request[c].step = "write"
    => ToSet(RowsToLock(request[c])) \subseteq request[c].held /\ Consistent(request[c])

\* storage_path is unique, and a new file is nobody else's.
FilesFit ==
  /\ \A d \in Docs : document[d].state = "absent" => document[d].files = {}
  /\ \A d, e \in Docs : d # e => document[d].files \cap document[e].files = {}
  /\ \A c \in Requests, d \in Docs :
       ({request[c].file} \cup request[c].remove) \cap document[d].files = {}
  /\ \A c \in Requests : request[c].file # Nothing => request[c].file \in files
  /\ \A b, c \in Requests : b # c =>
       request[b].file = Nothing \/ request[b].file \notin {request[c].file} \cup request[c].remove

StoreInv ==
  /\ TypeOK /\ LocksAreExclusive /\ RequestsFit /\ GrantsFit /\ ChecksStillHold
  /\ FilesFit /\ VersionsHaveFiles /\ FilesAreAccountedFor /\ TitlesAreUnique

=============================================================================
