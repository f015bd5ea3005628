-------------------------- MODULE DocumentStoreProofs --------------------------
(***************************************************************************)
(* Proofs about DocumentStore: its row locks keep the checks of a request   *)
(* true until it commits, and its files follow its rows.                    *)
(***************************************************************************)
EXTENDS DocumentStore, TLAPS

LEMMA NothingIsNothing ==
  /\ Nothing \notin Docs /\ Nothing \notin Folders /\ Nothing \notin Files
  /\ Nothing \notin Grants /\ Nothing \notin Titles
BY StoreAssumption

LEMMA IdleTyped == Idle \in RequestType
BY DEF Idle, RequestType, OrNothing, Ops, Uploads

-------------------------------------------------------------------------------
(* Types *)

LEMMA FinishTyped ==
  ASSUME TypeOK, NEW c \in Requests, NEW d, Finish(c, d)
  PROVE  request' \in [Requests -> RequestType]
<1>1. ASSUME NEW b \in Requests
      PROVE  [request[b] EXCEPT !.current = FALSE] \in RequestType
  BY DEF TypeOK, RequestType
<1> QED BY <1>1, IdleTyped DEF Finish, TypeOK

LEMMA BeginTyped ==
  ASSUME TypeOK, NEW c \in Requests, Begin(c)
  PROVE  TypeOK'
<1>1. ASSUME NEW r \in RequestType, Start(c, r)
      PROVE  TypeOK'
  BY <1>1 DEF Start, TypeOK
<1>2. CASE BeginCreate(c)
  <2>1. PICK f \in enabled, t \in Titles :
          Start(c, [Idle EXCEPT !.step = "upload", !.op = "create", !.target = f, !.title = t])
    BY <1>2 DEF BeginCreate
  <2>2. f \in Folders BY DEF TypeOK
  <2> QED BY <2>1, <2>2, <1>1 DEF Idle, RequestType, OrNothing, Ops, Uploads
<1>3. CASE BeginVersion(c)
  <2>1. PICK d \in Docs : Start(c, [Idle EXCEPT !.step = "upload", !.op = "version", !.doc = d])
    BY <1>3 DEF BeginVersion
  <2> QED BY <2>1, <1>1 DEF Idle, RequestType, OrNothing, Ops, Uploads
<1>4. CASE BeginMutation(c)
  <2>1. \A op \in Mutations, d \in Docs : OnDocument(op, d) \in RequestType
    BY DEF OnDocument, Idle, RequestType, OrNothing, Ops
  <2>2. PICK d \in Docs :
          \/ \E t \in Titles : Start(c, [OnDocument("update", d) EXCEPT !.title = t])
          \/ \E f \in enabled : Start(c, [OnDocument("move", d) EXCEPT !.target = f])
          \/ Start(c, OnDocument("delete", d))
          \/ \E op \in {"restore", "purge"} : Start(c, OnDocument(op, d))
    BY <1>4 DEF BeginMutation
  <2>3. ASSUME NEW t \in Titles, Start(c, [OnDocument("update", d) EXCEPT !.title = t])
        PROVE  TypeOK'
    <3>1. [OnDocument("update", d) EXCEPT !.title = t] \in RequestType
      BY <2>1 DEF RequestType, OrNothing, Mutations
    <3> QED BY <3>1, <2>3, <1>1
  <2>4. ASSUME NEW f \in enabled, Start(c, [OnDocument("move", d) EXCEPT !.target = f])
        PROVE  TypeOK'
    <3>1. f \in Folders BY DEF TypeOK
    <3>2. [OnDocument("move", d) EXCEPT !.target = f] \in RequestType
      BY <2>1, <3>1 DEF RequestType, OrNothing, Mutations
    <3> QED BY <3>2, <2>4, <1>1
  <2> QED BY <2>1, <2>2, <2>3, <2>4, <1>1 DEF Mutations
<1>5. CASE BeginGrantOp(c)
  <2>1. PICK g \in Grants, op \in GrantOps :
          Start(c, [Idle EXCEPT !.step = "lock", !.op = op, !.grant = g])
    BY <1>5 DEF BeginGrantOp
  <2> QED BY <2>1, <1>1 DEF Idle, RequestType, OrNothing, Ops
<1>6. CASE BeginDisable(c)
  <2>1. PICK f \in enabled :
          Start(c, [Idle EXCEPT !.step = "lock", !.op = "disable", !.target = f])
    BY <1>6 DEF BeginDisable
  <2>2. f \in Folders BY DEF TypeOK
  <2> QED BY <2>1, <2>2, <1>1 DEF Idle, RequestType, OrNothing, Ops
<1> QED BY <1>2, <1>3, <1>4, <1>5, <1>6 DEF Begin

LEMMA Rows ==
  ASSUME NEW r
  PROVE  ToSet(RowsToLock(r)) =
           CASE r.op \in {"create", "disable"} -> {r.target}
             [] r.op \in GrantOps -> {r.grant, grant[r.grant].doc}
             [] OTHER -> {r.doc, document[r.doc].folder}
                           \cup (IF r.op = "move" THEN {r.target} ELSE {})
<1>1. \A x : ToSet(<<x>>) = {x} BY DEF ToSet
<1>2. \A x, y : ToSet(<<x, y>>) = {x, y} BY DEF ToSet
<1>3. \A x, y, z : ToSet(<<x, y, z>>) = {x, y, z} BY DEF ToSet
<1> QED BY <1>1, <1>2, <1>3 DEF RowsToLock, GrantRows, DocumentRows, GrantOps

LEMMA RowsTyped ==
  ASSUME TypeOK, RequestsFit, NEW c \in Requests, request[c].step \in {"lock", "write"},
         NEW row \in ToSet(RowsToLock(request[c]))
  PROVE  row \in Docs \cup Folders \cup Grants \cup {Nothing}
<1>1. request[c] \in RequestType BY DEF TypeOK
<1>2. CASE request[c].op \in {"create", "disable"}
  <2>1. request[c].target \in Folders \cup {Nothing} BY <1>1 DEF RequestType, OrNothing
  <2>2. ToSet(RowsToLock(request[c])) = {request[c].target}
    BY <1>2, Rows DEF GrantOps
  <2> QED BY <2>1, <2>2
<1>3. CASE request[c].op \in GrantOps
  BY <1>1, <1>3, Rows DEF RequestsFit, RequestFits, TypeOK, GrantType, OrNothing, GrantOps
<1>4. CASE request[c].op \in {"version"} \cup Mutations
  BY <1>1, <1>4, Rows DEF RequestsFit, RequestFits, TypeOK, RequestType, DocumentType, OrNothing,
                          GrantOps, Mutations
<1> QED BY <1>1, <1>2, <1>3, <1>4 DEF RequestType, Ops, Uploads

LEMMA StoreTypeOK ==
  ASSUME StoreInv, [Next]_vars
  PROVE  TypeOK'
<1> USE DEF StoreInv
<1>0. \A c \in Requests : request[c] \in RequestType
  BY DEF TypeOK
<1>1. CASE UNCHANGED vars
  BY <1>1 DEF vars, TypeOK
<1>2. CASE CreateTemporaryGrant
  <2>1. 0 \in 0..MaxDownloads BY StoreAssumption
  <2> QED BY <1>2, <2>1 DEF CreateTemporaryGrant, TypeOK, GrantType, OrNothing
<1>3. ASSUME NEW c \in Requests, Handle(c)
      PROVE  TypeOK'
  <2>1. CASE Begin(c) BY <2>1, BeginTyped
  <2>2. CASE SaveUploadedFile(c)
    <3>1. PICK f \in FreeFiles :
            /\ files' = files \cup {f}
            /\ request' = [request EXCEPT ![c].step = "lock", ![c].file = f]
      BY <2>2 DEF SaveUploadedFile
    <3>2. f \in Files BY DEF FreeFiles
    <3>3. [request[c] EXCEPT !.step = "lock", !.file = f] \in RequestType
      BY <1>0, <3>2 DEF RequestType, OrNothing
    <3> QED BY <2>2, <3>1, <3>2, <3>3 DEF SaveUploadedFile, TypeOK
  <2>3. CASE LockRow(c)
    <3>1. PICK row \in ToSet(RowsToLock(request[c])) :
            row # Nothing /\ request' = [request EXCEPT ![c].held = request[c].held \cup {row}]
      BY <2>3 DEF LockRow, ToSet
    <3>2. request[c].step = "lock" BY <2>3 DEF LockRow
    <3>3. row \in Docs \cup Folders \cup Grants
      BY <1>0, <3>1, <3>2, RowsTyped
    <3>4. [request[c] EXCEPT !.held = request[c].held \cup {row}] \in RequestType
      BY <1>0, <3>3 DEF RequestType
    <3> QED BY <2>3, <3>1, <3>4 DEF LockRow, TypeOK
  <2>4. CASE PassChecks(c)
    <3>1. [request[c] EXCEPT !.step = "write"] \in RequestType
      BY <1>0 DEF RequestType
    <3> QED BY <2>4, <3>1 DEF PassChecks, TypeOK
  <2>5. ASSUME NEW d \in Docs, NEW doc \in DocumentType, document' = [document EXCEPT ![d] = doc],
               NEW e, Finish(c, e),
               UNCHANGED <<enabled, files, orphans>>, ended' \subseteq Grants,
               grant' \in [Grants -> GrantType]
        PROVE  TypeOK'
    BY <2>5, FinishTyped DEF TypeOK
  <2>6. CASE CreateDocument(c)
    <3>1. request[c].target \in Folders /\ request[c].title \in Titles
            /\ request[c].file \in Files
      BY <1>0, <2>6, NothingIsNothing
         DEF CreateDocument, Writes, RequestsFit, RequestFits, RequestType, OrNothing, Uploads
    <3>2. PICK d \in Docs : document' = [document EXCEPT ![d] =
            [state |-> "active", folder |-> request[c].target,
             title |-> request[c].title, files |-> {request[c].file}]]
      BY <2>6 DEF CreateDocument
    <3>3. [state |-> "active", folder |-> request[c].target,
           title |-> request[c].title, files |-> {request[c].file}] \in DocumentType
      BY <3>1 DEF DocumentType, OrNothing
    <3> QED BY <2>6, <2>5, <3>2, <3>3 DEF CreateDocument, TypeOK
  <2>7. CASE CreateDocumentVersion(c) \/ UpdateDocumentMetadata(c) \/ MoveDocument(c)
               \/ SoftDeleteDocument(c) \/ RestoreDocument(c) \/ DeleteRows(c)
    <3> DEFINE d == request[c].doc
    <3>1. d \in Docs /\ document[d] \in DocumentType
      BY <1>0, <2>7 DEF CreateDocumentVersion, UpdateDocumentMetadata, MoveDocument,
         SoftDeleteDocument, RestoreDocument, DeleteRows, Writes, RequestsFit, RequestFits,
         Mutations, TypeOK
    <3>2. \A g \in Grants : grant[g] \in GrantType BY DEF TypeOK
    <3>3. CASE CreateDocumentVersion(c)
      <4>1. [document[d] EXCEPT !.files = @ \cup {request[c].file}] \in DocumentType
        BY <1>0, <3>1, <3>3 DEF CreateDocumentVersion, Writes, RequestsFit, RequestFits,
           RequestType, OrNothing, Uploads, DocumentType
      <4>2. document' = [document EXCEPT ![d] =
                           [document[d] EXCEPT !.files = @ \cup {request[c].file}]]
        BY <3>3 DEF CreateDocumentVersion
      <4> QED BY <2>5, <3>1, <3>3, <4>1, <4>2 DEF CreateDocumentVersion, TypeOK
    <3>4. CASE UpdateDocumentMetadata(c)
      <4>1. [document[d] EXCEPT !.title = request[c].title] \in DocumentType
        BY <1>0, <3>1 DEF RequestType, DocumentType
      <4>2. document' = [document EXCEPT ![d] = [document[d] EXCEPT !.title = request[c].title]]
        BY <3>4 DEF UpdateDocumentMetadata
      <4> QED BY <2>5, <3>1, <3>4, <4>1, <4>2 DEF UpdateDocumentMetadata, TypeOK
    <3>5. CASE MoveDocument(c)
      <4>1. [document[d] EXCEPT !.folder = request[c].target] \in DocumentType
        BY <1>0, <3>1 DEF RequestType, DocumentType
      <4>2. document' = [document EXCEPT ![d] = [document[d] EXCEPT !.folder = request[c].target]]
        BY <3>5 DEF MoveDocument
      <4> QED BY <2>5, <3>1, <3>5, <4>1, <4>2 DEF MoveDocument, TypeOK
    <3>6. CASE SoftDeleteDocument(c)
      <4>1. [document[d] EXCEPT !.state = "trash"] \in DocumentType BY <3>1 DEF DocumentType
      <4>2. document' = [document EXCEPT ![d] = [document[d] EXCEPT !.state = "trash"]]
        BY <3>6 DEF SoftDeleteDocument
      <4>3. \A g \in Grants : [grant[g] EXCEPT !.state = "revoked"] \in GrantType
        BY <3>2 DEF GrantType
      <4>4. grant' \in [Grants -> GrantType]
        BY <3>2, <3>6, <4>3 DEF SoftDeleteDocument
      <4>5. ended' \subseteq Grants BY <3>6 DEF SoftDeleteDocument, GrantsOf, TypeOK
      <4> QED BY <2>5, <3>1, <3>6, <4>1, <4>2, <4>4, <4>5 DEF SoftDeleteDocument
    <3>7. CASE RestoreDocument(c)
      <4>1. [document[d] EXCEPT !.state = "active"] \in DocumentType BY <3>1 DEF DocumentType
      <4>2. document' = [document EXCEPT ![d] = [document[d] EXCEPT !.state = "active"]]
        BY <3>7 DEF RestoreDocument
      <4> QED BY <2>5, <3>1, <3>7, <4>1, <4>2 DEF RestoreDocument, TypeOK
    <3>8. CASE DeleteRows(c)
      <4>1. [NoDocument EXCEPT !.state = "purged"] \in DocumentType
        BY DEF NoDocument, DocumentType, OrNothing
      <4>2. \A g \in Grants : [grant[g] EXCEPT !.state = "gone"] \in GrantType
        BY <3>2 DEF GrantType
      <4>3. grant' \in [Grants -> GrantType] BY <3>2, <3>8, <4>2 DEF DeleteRows
      <4>4. [Idle EXCEPT !.step = "cleanup", !.remove = document[d].files] \in RequestType
        BY <3>1, IdleTyped DEF RequestType, DocumentType
      <4>5. \A b \in Requests : [request[b] EXCEPT !.current = FALSE] \in RequestType
        BY <1>0 DEF RequestType
      <4>6. request' \in [Requests -> RequestType] BY <1>0, <3>8, <4>4, <4>5 DEF DeleteRows
      <4> QED BY <3>8, <4>1, <4>3, <4>6 DEF DeleteRows, TypeOK
    <3> QED BY <2>7, <3>3, <3>4, <3>5, <3>6, <3>7, <3>8
  <2>8. CASE RemoveFile(c)
    <3>1. PICK f \in request[c].remove :
            /\ files' = files \ {f}
            /\ request' = [request EXCEPT ![c] =
                 IF request[c].remove \ {f} = {} THEN Idle
                 ELSE [request[c] EXCEPT !.remove = request[c].remove \ {f}]]
      BY <2>8 DEF RemoveFile
    <3>2. [request[c] EXCEPT !.remove = request[c].remove \ {f}] \in RequestType
      BY <1>0 DEF RequestType
    <3> QED BY <2>8, <3>1, <3>2, IdleTyped DEF RemoveFile, TypeOK
  <2>9. CASE DisableFolder(c) \/ Fail(c) \/ Crash(c)
    <3>1. request' \in [Requests -> RequestType]
      BY <2>9, FinishTyped DEF DisableFolder, Fail, Crash
    <3> QED BY <2>9, <3>1 DEF DisableFolder, Fail, Crash, TypeOK
  <2>10. CASE RevokeTemporaryGrant(c) \/ ConsumeToken(c)
    <3> DEFINE g == request[c].grant
    <3>1. g \in Grants /\ grant[g] \in GrantType
      BY <1>0, <2>10 DEF RevokeTemporaryGrant, ConsumeToken, Writes, RequestsFit, RequestFits,
         GrantOps, TypeOK
    <3>2. [grant[g] EXCEPT !.state = "revoked"] \in GrantType BY <3>1 DEF GrantType
    <3>3. ASSUME Writes(c, "consume")
          PROVE  [grant[g] EXCEPT !.uses = @ + 1] \in GrantType
      <4>1. grant[g].uses < MaxDownloads BY <3>3 DEF Writes, ChecksStillHold, Consistent
      <4> QED BY <3>1, <4>1, StoreAssumption DEF GrantType
    <3>4. grant' \in [Grants -> GrantType]
      BY <2>10, <3>1, <3>2, <3>3 DEF RevokeTemporaryGrant, ConsumeToken, TypeOK
    <3>5. request' \in [Requests -> RequestType]
      BY <2>10, FinishTyped DEF RevokeTemporaryGrant, ConsumeToken
    <3> QED BY <2>10, <3>4, <3>5 DEF RevokeTemporaryGrant, ConsumeToken, TypeOK
  <2> QED BY <1>3, <2>1, <2>2, <2>3, <2>4, <2>6, <2>7, <2>8, <2>9, <2>10 DEF Handle
<1> QED BY <1>1, <1>2, <1>3 DEF Next

-------------------------------------------------------------------------------
(* What a request may change: rows it holds, new rows, and grants nobody else *)
(* holds.  Other requests stay as they are, but for an outdated updated_at.   *)

LEMMA WriterHolds ==
  ASSUME StoreInv, NEW c \in Requests, request[c].step = "write"
  PROVE  /\ request[c].op \in {"create", "disable"} =>
              request[c].target \in Folders /\ request[c].target \in request[c].held
         /\ request[c].op \in {"version"} \cup Mutations =>
              /\ request[c].doc \in Docs /\ document[request[c].doc].state # "absent"
              /\ {request[c].doc, document[request[c].doc].folder} \subseteq request[c].held
         /\ request[c].op = "move" => request[c].target \in request[c].held
         /\ request[c].op \in GrantOps =>
              /\ request[c].grant \in Grants /\ grant[request[c].grant].state # "absent"
              /\ {request[c].grant, grant[request[c].grant].doc} \subseteq request[c].held
<1>1. ToSet(RowsToLock(request[c])) \subseteq request[c].held /\ RequestFits(request[c])
  BY DEF StoreInv, ChecksStillHold, RequestsFit
<1> QED BY <1>1, Rows DEF RequestFits, GrantOps, Mutations

Same(q, r) ==
  /\ q.step = r.step /\ q.op = r.op /\ q.doc = r.doc /\ q.target = r.target
  /\ q.title = r.title /\ q.grant = r.grant /\ q.file = r.file
  /\ q.held = r.held /\ q.remove = r.remove

LEMMA OutdatedIsSame ==
  ASSUME NEW r \in RequestType
  PROVE  Same(r, r) /\ Same([r EXCEPT !.current = FALSE], r)
BY DEF Same, RequestType

OthersSame(c) == \A b \in Requests \ {c} :
  /\ Same(request'[b], request[b])
  /\ request'[b].current = request[b].current \/ request[b].doc \in request[c].held

LEMMA FinishFrame ==
  ASSUME TypeOK, NEW c \in Requests, NEW d, d = Nothing \/ d \in request[c].held, Finish(c, d)
  PROVE  OthersSame(c) /\ request'[c] = Idle
BY OutdatedIsSame DEF Finish, OthersSame, TypeOK

LEMMA OthersFrame ==
  ASSUME StoreInv, NEW c \in Requests, Handle(c)
  PROVE  OthersSame(c)
<1> USE DEF StoreInv
<1>1. ASSUME NEW r, request' = [request EXCEPT ![c] = r]
      PROVE  OthersSame(c)
  BY <1>1, OutdatedIsSame DEF OthersSame, TypeOK
<1>2. CASE Begin(c)
  BY <1>1, <1>2 DEF Begin, BeginCreate, BeginVersion, BeginMutation, BeginGrantOp, BeginDisable, Start
<1>3. CASE SaveUploadedFile(c)
  BY <1>3, OutdatedIsSame DEF SaveUploadedFile, OthersSame, TypeOK
<1>4. CASE LockRow(c) \/ PassChecks(c)
  BY <1>4, OutdatedIsSame DEF LockRow, PassChecks, OthersSame, TypeOK
<1>5. CASE RemoveFile(c) BY <1>1, <1>5 DEF RemoveFile
<1>6. CASE CreateDocument(c) \/ DisableFolder(c) \/ RevokeTemporaryGrant(c) \/ ConsumeToken(c)
             \/ Fail(c) \/ Crash(c)
  BY <1>6, FinishFrame
     DEF CreateDocument, DisableFolder, RevokeTemporaryGrant, ConsumeToken, Fail, Crash
<1>7. CASE CreateDocumentVersion(c) \/ UpdateDocumentMetadata(c) \/ MoveDocument(c)
             \/ SoftDeleteDocument(c) \/ RestoreDocument(c)
  <2>1. Finish(c, request[c].doc) /\ request[c].doc \in request[c].held
    BY <1>7, WriterHolds DEF CreateDocumentVersion, UpdateDocumentMetadata, MoveDocument,
       SoftDeleteDocument, RestoreDocument, Writes, Mutations
  <2> QED BY <2>1, FinishFrame
<1>8. CASE DeleteRows(c)
  <2>1. request[c].doc \in request[c].held
    BY <1>8, WriterHolds DEF DeleteRows, Writes, Mutations
  <2> QED BY <1>8, <2>1, OutdatedIsSame DEF DeleteRows, OthersSame, TypeOK
<1> QED BY <1>2, <1>3, <1>4, <1>5, <1>6, <1>7, <1>8 DEF Handle

DocumentsFrame(c) == \A d \in Docs :
  document'[d] # document[d] =>
    /\ document[d].state = "absent" \/ d \in request[c].held
    /\ document'[d].state # "absent"
    /\ document'[d].state = "active" => document'[d].folder \in request[c].held

LEMMA DocumentsKept ==
  ASSUME StoreInv, NEW c \in Requests, Handle(c)
  PROVE  DocumentsFrame(c)
<1> USE DEF StoreInv, TypeOK
<1>1. CASE UNCHANGED document BY <1>1 DEF DocumentsFrame
<1>2. CASE CreateDocument(c)
  BY <1>2, WriterHolds DEF CreateDocument, Writes, DocumentsFrame
<1>3. CASE CreateDocumentVersion(c) \/ UpdateDocumentMetadata(c) \/ MoveDocument(c)
             \/ SoftDeleteDocument(c) \/ RestoreDocument(c) \/ DeleteRows(c)
  <2>1. /\ request[c].step = "write" /\ request[c].op \in {"version"} \cup Mutations
        /\ MoveDocument(c) => request[c].op = "move"
    BY <1>3 DEF CreateDocumentVersion, UpdateDocumentMetadata, MoveDocument,
       SoftDeleteDocument, RestoreDocument, DeleteRows, Writes, Mutations
  <2>2. /\ request[c].doc \in Docs /\ document[request[c].doc].state # "absent"
        /\ {request[c].doc, document[request[c].doc].folder} \subseteq request[c].held
        /\ MoveDocument(c) => request[c].target \in request[c].held
    BY <2>1, WriterHolds
  <2>3. document[request[c].doc] \in DocumentType BY <2>2
  <2> QED BY <1>3, <2>2, <2>3 DEF CreateDocumentVersion, UpdateDocumentMetadata, MoveDocument,
       SoftDeleteDocument, RestoreDocument, DeleteRows, NoDocument, DocumentsFrame, DocumentType
<1>4. CASE Begin(c) BY <1>1, <1>4 DEF Begin, BeginCreate, BeginVersion, BeginMutation,
                                 BeginGrantOp, BeginDisable, Start
<1> QED BY <1>1, <1>2, <1>3, <1>4
      DEF Handle, SaveUploadedFile, LockRow, PassChecks, RemoveFile, DisableFolder,
          RevokeTemporaryGrant, ConsumeToken, Fail, Crash

GrantsFrame(c) == \A g \in Grants :
  grant'[g] # grant[g] =>
    /\ ~HeldByOther(c, g)
    /\ grant[g].state # "absent" /\ grant'[g].state # "absent" /\ grant'[g].doc = grant[g].doc

LEMMA GrantsKept ==
  ASSUME StoreInv, NEW c \in Requests, Handle(c)
  PROVE  GrantsFrame(c)
<1> USE DEF StoreInv, TypeOK
<1>1. CASE UNCHANGED grant BY <1>1 DEF GrantsFrame
<1>2. CASE SoftDeleteDocument(c) \/ DeleteRows(c)
  BY <1>2 DEF SoftDeleteDocument, DeleteRows, GrantsOf, GrantsFrame, GrantType
<1>3. CASE RevokeTemporaryGrant(c) \/ ConsumeToken(c)
  <2>1. /\ request[c].grant \in Grants /\ grant[request[c].grant].state # "absent"
        /\ request[c].grant \in request[c].held
    BY <1>3, WriterHolds DEF RevokeTemporaryGrant, ConsumeToken, Writes, GrantOps
  <2>2. ~HeldByOther(c, request[c].grant)
    BY <2>1 DEF HeldByOther, LocksAreExclusive
  <2>3. grant[request[c].grant] \in GrantType BY <2>1
  <2> QED BY <1>3, <2>1, <2>2, <2>3
        DEF RevokeTemporaryGrant, ConsumeToken, GrantsFrame, GrantType
<1>4. CASE Begin(c) BY <1>1, <1>4 DEF Begin, BeginCreate, BeginVersion, BeginMutation,
                                 BeginGrantOp, BeginDisable, Start
<1> QED BY <1>1, <1>2, <1>3, <1>4
      DEF Handle, SaveUploadedFile, LockRow, PassChecks, CreateDocument, CreateDocumentVersion,
          UpdateDocumentMetadata, MoveDocument, RestoreDocument, RemoveFile, DisableFolder,
          Fail, Crash

-------------------------------------------------------------------------------
(* The row locks *)

LEMMA BeginFits ==
  ASSUME TypeOK, NEW c \in Requests, Begin(c)
  PROVE  /\ request'[c].held = {} /\ request'[c].step \in {"upload", "lock"}
         /\ request'[c].file = Nothing /\ request'[c].remove = {}
         /\ RequestFits(request[c])'
<1> DEFINE New(q) == /\ q.held = {} /\ q.step \in {"upload", "lock"}
                     /\ q.file = Nothing /\ q.remove = {}
<1>1. ASSUME NEW r, Start(c, r), RequestFits(r), New(r)
      PROVE  New(request'[c]) /\ RequestFits(request[c])'
  <2>1. request'[c] = r /\ document' = document /\ grant' = grant
    BY <1>1 DEF Start, TypeOK
  <2> QED BY <1>1, <2>1 DEF RequestFits
<1> USE DEF RequestFits, Uploads, Mutations, GrantOps
<1>2. CASE BeginCreate(c)
  <2> DEFINE r(f, t) == [Idle EXCEPT !.step = "upload", !.op = "create", !.target = f, !.title = t]
  <2>1. PICK f \in enabled, t \in Titles : Start(c, r(f, t))
    BY <1>2 DEF BeginCreate
  <2>2. RequestFits(r(f, t)) /\ New(r(f, t)) BY DEF Idle, TypeOK
  <2> HIDE DEF r
  <2> QED BY <1>1, <2>1, <2>2
<1>3. CASE BeginVersion(c)
  <2> DEFINE r(d) == [Idle EXCEPT !.step = "upload", !.op = "version", !.doc = d]
  <2>1. PICK d \in Docs : document[d].state = "active" /\ Start(c, r(d))
    BY <1>3 DEF BeginVersion
  <2>2. RequestFits(r(d)) /\ New(r(d)) BY <2>1 DEF Idle
  <2> HIDE DEF r
  <2> QED BY <1>1, <2>1, <2>2
<1>4. CASE BeginMutation(c)
  <2> DEFINE update(d, t) == [OnDocument("update", d) EXCEPT !.title = t]
             move(d, f) == [OnDocument("move", d) EXCEPT !.target = f]
  <2>1. PICK d \in Docs :
          /\ document[d].state # "absent"
          /\ \/ \E t \in Titles : Start(c, update(d, t))
             \/ \E f \in enabled : Start(c, move(d, f))
             \/ \E op \in {"delete", "restore", "purge"} : Start(c, OnDocument(op, d))
    BY <1>4 DEF BeginMutation
  <2>2. \A t \in Titles : RequestFits(update(d, t)) /\ New(update(d, t))
    <3>1. \A t : /\ New(update(d, t)) /\ update(d, t).step = "lock" /\ update(d, t).op = "update"
                 /\ update(d, t).doc = d /\ update(d, t).title = t
      BY DEF OnDocument, Idle
    <3> QED BY <2>1, <3>1
  <2>3. \A f \in enabled : RequestFits(move(d, f)) /\ New(move(d, f))
    <3>1. \A f : /\ New(move(d, f)) /\ move(d, f).step = "lock" /\ move(d, f).op = "move"
                 /\ move(d, f).doc = d /\ move(d, f).target = f
      BY DEF OnDocument, Idle
    <3> QED BY <2>1, <3>1 DEF TypeOK
  <2>4. \A op \in {"delete", "restore", "purge"} :
          RequestFits(OnDocument(op, d)) /\ New(OnDocument(op, d))
    <3>1. \A op : New(OnDocument(op, d)) BY DEF OnDocument, Idle
    <3>2. \A op : OnDocument(op, d).step = "lock" /\ OnDocument(op, d).op = op
                   /\ OnDocument(op, d).doc = d
      BY DEF OnDocument, Idle
    <3>3. \A op \in {"delete", "restore", "purge"} : RequestFits(OnDocument(op, d))
      BY <2>1, <3>1, <3>2
    <3> QED BY <3>1, <3>3
  <2> HIDE DEF update, move
  <2> QED BY <1>1, <2>1, <2>2, <2>3, <2>4
<1>5. CASE BeginGrantOp(c)
  <2> DEFINE r(g, op) == [Idle EXCEPT !.step = "lock", !.op = op, !.grant = g]
  <2>1. PICK g \in Grants, op \in GrantOps :
          grant[g].state \in {"live", "revoked"} /\ Start(c, r(g, op))
    BY <1>5 DEF BeginGrantOp
  <2>2. RequestFits(r(g, op)) /\ New(r(g, op)) BY <2>1 DEF Idle
  <2> HIDE DEF r
  <2> QED BY <1>1, <2>1, <2>2
<1>6. CASE BeginDisable(c)
  <2> DEFINE r(f) == [Idle EXCEPT !.step = "lock", !.op = "disable", !.target = f]
  <2>1. PICK f \in enabled : Start(c, r(f)) BY <1>6 DEF BeginDisable
  <2>2. RequestFits(r(f)) /\ New(r(f)) BY DEF Idle, TypeOK
  <2> HIDE DEF r
  <2> QED BY <1>1, <2>1, <2>2
<1> QED BY <1>2, <1>3, <1>4, <1>5, <1>6 DEF Begin

LEMMA StoreLocks ==
  ASSUME StoreInv, NEW c \in Requests, Handle(c)
  PROVE  LocksAreExclusive'
<1>1. OthersSame(c) BY OthersFrame
<1>2. \A row \in request'[c].held : row \in request[c].held \/ ~HeldByOther(c, row)
  <2>1. CASE Begin(c) BY <2>1, BeginFits DEF StoreInv
  <2>2. CASE SaveUploadedFile(c) \/ PassChecks(c) \/ LockRow(c)
    BY <2>2 DEF SaveUploadedFile, PassChecks, LockRow, StoreInv, TypeOK, RequestType
  <2>3. CASE DeleteRows(c) BY <2>3 DEF DeleteRows, Idle
  <2>4. CASE RemoveFile(c) BY <2>4 DEF RemoveFile, Idle, StoreInv, TypeOK, RequestType
  <2>5. request'[c] = Idle => request'[c].held = {} BY DEF Idle
  <2> QED
    BY <2>1, <2>2, <2>3, <2>4, <2>5
       DEF Handle, Finish, CreateDocument, CreateDocumentVersion, UpdateDocumentMetadata,
           MoveDocument, SoftDeleteDocument, RestoreDocument, DisableFolder,
           RevokeTemporaryGrant, ConsumeToken, Fail, Crash
<1> QED BY <1>1, <1>2 DEF OthersSame, Same, HeldByOther, StoreInv, LocksAreExclusive

\* What a request of somebody else works with stays there.
LEMMA OthersStillFit ==
  ASSUME StoreInv, NEW c \in Requests, OthersSame(c), DocumentsFrame(c), GrantsFrame(c),
         NEW b \in Requests \ {c}
  PROVE  RequestFits(request[b])'
<1>1. Same(request'[b], request[b]) BY DEF OthersSame
<1>2. RequestFits(request[b]) BY DEF StoreInv, RequestsFit
<1> QED BY <1>1, <1>2 DEF Same, RequestFits, DocumentsFrame, GrantsFrame

LEMMA StoreRequests ==
  ASSUME StoreInv, NEW c \in Requests, Handle(c)
  PROVE  RequestsFit'
<1> USE DEF StoreInv
<1>1. OthersSame(c) /\ DocumentsFrame(c) /\ GrantsFrame(c)
  BY OthersFrame, DocumentsKept, GrantsKept
<1>2. RequestFits(request[c]) /\ request[c] \in RequestType
  BY DEF RequestsFit, TypeOK
<1>3. RequestFits(request[c])'
  <2>1. CASE Begin(c) BY <2>1, BeginFits
  <2>2. CASE SaveUploadedFile(c)
    BY <1>2, <2>2, NothingIsNothing
       DEF SaveUploadedFile, FreeFiles, RequestFits, TypeOK, RequestType, Uploads, Mutations,
           GrantOps
  <2>3. CASE PassChecks(c) \/ LockRow(c)
    BY <1>2, <2>3 DEF PassChecks, LockRow, RequestFits, TypeOK, RequestType
  <2>4. ASSUME request'[c] = Idle PROVE RequestFits(request[c])'
    BY <2>4 DEF Idle, RequestFits
  <2>5. CASE DeleteRows(c) BY <2>5 DEF DeleteRows, Idle, RequestFits
  <2>6. CASE RemoveFile(c)
    BY <1>2, <2>4, <2>6 DEF RemoveFile, RequestFits, TypeOK, RequestType
  <2> QED
    BY <2>1, <2>2, <2>3, <2>4, <2>5, <2>6
       DEF Handle, Finish, CreateDocument, CreateDocumentVersion, UpdateDocumentMetadata,
           MoveDocument, SoftDeleteDocument, RestoreDocument, DisableFolder,
           RevokeTemporaryGrant, ConsumeToken, Fail, Crash
<1> QED BY <1>1, <1>3, OthersStillFit DEF RequestsFit

LEMMA StoreGrants ==
  ASSUME StoreInv, NEW c \in Requests, Handle(c)
  PROVE  GrantsFit'
<1> USE DEF StoreInv
<1>1. DocumentsFrame(c) /\ GrantsFrame(c) BY DocumentsKept, GrantsKept
<1>2. \A g \in Grants : grant'[g].state # "absent" =>
        grant'[g].doc \in Docs /\ document'[grant'[g].doc].state # "absent"
  BY <1>1 DEF DocumentsFrame, GrantsFrame, GrantsFit
<1>3. \A g \in Grants : g \in ended' => grant'[g].state \in {"revoked", "gone"}
  <2>1. CASE SoftDeleteDocument(c) \/ DeleteRows(c)
    BY <2>1 DEF SoftDeleteDocument, DeleteRows, GrantsOf, GrantsFit, TypeOK, GrantType
  <2>2. CASE RevokeTemporaryGrant(c)
    BY <2>2 DEF RevokeTemporaryGrant, GrantsFit, TypeOK, GrantType
  <2>3. CASE ConsumeToken(c)
    <3>1. grant'[request[c].grant].state = grant[request[c].grant].state
      BY <2>3, WriterHolds DEF ConsumeToken, Writes, GrantOps, TypeOK, GrantType
    <3> QED BY <2>3, <3>1 DEF ConsumeToken, GrantsFit, TypeOK
  <2>4. CASE UNCHANGED <<grant, ended>> BY <2>4 DEF GrantsFit
  <2>5. CASE Begin(c) BY <2>4, <2>5 DEF Begin, BeginCreate, BeginVersion, BeginMutation,
                                   BeginGrantOp, BeginDisable, Start
  <2> QED BY <2>1, <2>2, <2>3, <2>4, <2>5
        DEF Handle, SaveUploadedFile, LockRow, PassChecks, CreateDocument, CreateDocumentVersion,
            UpdateDocumentMetadata, MoveDocument, RestoreDocument, RemoveFile, DisableFolder,
            Fail, Crash
<1> QED BY <1>2, <1>3 DEF GrantsFit

\* A request that writes holds its rows; nobody else changes them, and nobody else
\* puts a document into a folder it holds.
LEMMA OthersStillHold ==
  ASSUME StoreInv, NEW c \in Requests, OthersSame(c), DocumentsFrame(c), GrantsFrame(c),
         NEW b \in Requests \ {c}, request[b].step = "write"
  PROVE  /\ (ToSet(RowsToLock(request[b])) \subseteq request[b].held)'
         /\ Consistent(request[b])'
<1> USE DEF StoreInv
<1>1. Same(request'[b], request[b]) BY DEF OthersSame
<1>2. request[b].held \cap request[c].held = {} BY DEF LocksAreExclusive
<1>3. request[b].op \in Ops BY DEF TypeOK, RequestType
<1>4. ToSet(RowsToLock(request[b])) \subseteq request[b].held /\ Consistent(request[b])
  BY DEF ChecksStillHold
<1>5. \A f \in request[b].held : \A t, d : Accepts(f, t, d) => Accepts(f, t, d)'
  BY <1>2 DEF Accepts, DocumentsFrame
<1>6. ASSUME request[b].op \in {"version"} \cup Mutations
      PROVE  /\ document'[request[b].doc] = document[request[b].doc]
             /\ request'[b].current = request[b].current
  BY <1>2, <1>6, WriterHolds DEF DocumentsFrame, OthersSame
<1>7. ASSUME request[b].op \in GrantOps
      PROVE  /\ grant'[request[b].grant] = grant[request[b].grant]
             /\ document'[grant[request[b].grant].doc] = document[grant[request[b].grant].doc]
  <2>1. /\ request[b].grant \in Grants
        /\ {request[b].grant, grant[request[b].grant].doc} \subseteq request[b].held
        /\ grant[request[b].grant].state # "absent"
    BY <1>7, WriterHolds
  <2>2. grant[request[b].grant].doc \in Docs
          /\ document[grant[request[b].grant].doc].state # "absent"
    BY <2>1 DEF GrantsFit
  <2> QED BY <1>2, <2>1, <2>2 DEF GrantsFrame, HeldByOther, DocumentsFrame
<1> DEFINE q == request'[b]
<1>8. ToSet(RowsToLock(request[b]))' = ToSet(RowsToLock(request[b]))
  <2>1. q.op = request[b].op /\ q.doc = request[b].doc /\ q.target = request[b].target
          /\ q.grant = request[b].grant
    BY <1>1 DEF Same
  <2>2. CASE request[b].op \in {"create", "disable"}
    BY <2>1, <2>2 DEF RowsToLock, GrantOps
  <2>3. CASE request[b].op \in GrantOps
    BY <1>7, <2>1, <2>3 DEF RowsToLock, GrantRows, GrantOps
  <2>4. CASE request[b].op \in {"version"} \cup Mutations
    BY <1>6, <2>1, <2>4 DEF RowsToLock, DocumentRows, GrantOps, Mutations
  <2> QED BY <1>3, <2>2, <2>3, <2>4 DEF Ops, Uploads
<1>9. Consistent(request[b])'
  <2>1. q.op = request[b].op /\ q.doc = request[b].doc /\ q.target = request[b].target
          /\ q.grant = request[b].grant /\ q.title = request[b].title
    BY <1>1 DEF Same
  <2>2. CASE request[b].op \in {"create", "disable"}
    BY <1>4, <1>5, <2>1, <2>2, WriterHolds DEF Consistent
  <2>3. CASE request[b].op \in GrantOps
    BY <1>4, <1>7, <2>1, <2>3 DEF Consistent, GrantOps
  <2>4. CASE request[b].op \in {"version"} \cup Mutations
    <3>1. /\ document[request[b].doc].folder \in request[b].held
          /\ request[b].op = "move" => request[b].target \in request[b].held
      BY <2>4, WriterHolds
    <3> QED BY <1>4, <1>5, <1>6, <2>1, <2>4, <3>1 DEF Consistent, Mutations
  <2> QED BY <1>3, <2>2, <2>3, <2>4 DEF Ops, Uploads
<1> QED BY <1>1, <1>4, <1>8, <1>9 DEF Same

LEMMA StoreChecks ==
  ASSUME StoreInv, NEW c \in Requests, Handle(c)
  PROVE  ChecksStillHold'
<1> USE DEF StoreInv
<1>1. OthersSame(c) /\ DocumentsFrame(c) /\ GrantsFrame(c)
  BY OthersFrame, DocumentsKept, GrantsKept
<1>2. ASSUME NEW b \in Requests \ {c}, request'[b].step = "write"
      PROVE  (ToSet(RowsToLock(request[b])) \subseteq request[b].held)' /\ Consistent(request[b])'
  BY <1>1, <1>2, OthersStillHold DEF OthersSame, Same
<1>3. ASSUME request'[c].step = "write"
      PROVE  (ToSet(RowsToLock(request[c])) \subseteq request[c].held)' /\ Consistent(request[c])'
  <2>1. PassChecks(c)
    <3>1. ~Begin(c)
      BY <1>3, BeginFits
    <3>2. ~SaveUploadedFile(c) /\ ~LockRow(c)
      BY <1>3 DEF SaveUploadedFile, LockRow, TypeOK, RequestType
    <3>3. ~DeleteRows(c) /\ request'[c] # Idle
      <4>1. DeleteRows(c) => request'[c].step = "cleanup" BY DEF DeleteRows, Idle
      <4> QED BY <1>3, <4>1 DEF Idle
    <3>4. ~RemoveFile(c) BY <1>3, <3>3 DEF RemoveFile, TypeOK, RequestType
    <3> QED
      BY <3>1, <3>2, <3>3, <3>4
         DEF Handle, Finish, CreateDocument, CreateDocumentVersion, UpdateDocumentMetadata,
             MoveDocument, SoftDeleteDocument, RestoreDocument, DisableFolder,
             RevokeTemporaryGrant, ConsumeToken, Fail, Crash
  <2>2. /\ request'[c].op = request[c].op /\ request'[c].doc = request[c].doc
        /\ request'[c].target = request[c].target /\ request'[c].grant = request[c].grant
        /\ request'[c].title = request[c].title /\ request'[c].current = request[c].current
        /\ request'[c].held = request[c].held
    BY <2>1 DEF PassChecks, TypeOK, RequestType
  <2>3. document' = document /\ grant' = grant BY <2>1 DEF PassChecks
  <2>4. ToSet(RowsToLock(request[c])) \subseteq request[c].held /\ Consistent(request[c])
    BY <2>1 DEF PassChecks
  <2>5. ToSet(RowsToLock(request[c]))' = ToSet(RowsToLock(request[c]))
    BY <2>2, <2>3 DEF RowsToLock, GrantRows, DocumentRows
  <2>6. Consistent(request[c])'
    <3>1. \A f, t, d : Accepts(f, t, d)' <=> Accepts(f, t, d)
      BY <2>3 DEF Accepts
    <3> QED BY <2>2, <2>3, <2>4, <3>1 DEF Consistent
  <2> QED BY <2>2, <2>4, <2>5, <2>6
<1> QED BY <1>2, <1>3 DEF ChecksStillHold

-------------------------------------------------------------------------------
(* The files *)

Owned(f) ==
  \/ \E d \in Docs : f \in document[d].files
  \/ \E b \in Requests : f = request[b].file \/ f \in request[b].remove
  \/ f \in orphans

LEMMA AccountedIsOwned ==
  ASSUME TypeOK
  PROVE  /\ FilesAreAccountedFor => \A f \in files : Owned(f)
         /\ TypeOK' /\ (\A f \in files' : Owned(f)') => FilesAreAccountedFor'
BY DEF FilesAreAccountedFor, Owned, InRows, InWork, TypeOK

LEMMA StoreFiles ==
  ASSUME StoreInv, NEW c \in Requests, Handle(c)
  PROVE  FilesFit' /\ VersionsHaveFiles' /\ FilesAreAccountedFor'
<1> DEFINE Goal == FilesFit' /\ VersionsHaveFiles' /\ FilesAreAccountedFor'
           own  == request[c]
<1> USE DEF StoreInv
<1>1. /\ \A d \in Docs : document[d] \in DocumentType
      /\ \A b \in Requests : request[b] \in RequestType /\ RequestFits(request[b])
  BY DEF TypeOK, RequestsFit
<1>2. \A b \in Requests \ {c} :
        request'[b].file = request[b].file /\ request'[b].remove = request[b].remove
  BY OthersFrame DEF OthersSame, Same
<1>0. /\ \A f \in files : Owned(f)
      /\ (\A f \in files' : Owned(f)') => FilesAreAccountedFor'
  BY StoreTypeOK, AccountedIsOwned DEF Next
<1>3. ASSUME UNCHANGED <<files, orphans>>,
             \A d \in Docs : /\ document'[d].files = document[d].files
                             /\ document'[d].state = "absent" => document[d].state = "absent",
             request'[c].file = own.file, request'[c].remove = own.remove
      PROVE  Goal
  <2>0. \A b \in Requests :
          request'[b].file = request[b].file /\ request'[b].remove = request[b].remove
    BY <1>2, <1>3
  <2>1. FilesFit' BY <1>3, <2>0 DEF FilesFit
  <2>2. VersionsHaveFiles' BY <1>3 DEF VersionsHaveFiles
  <2>3. ASSUME NEW f \in files' PROVE Owned(f)' BY <1>0, <1>3, <2>0, <2>3 DEF Owned
  <2> QED BY <1>0, <2>1, <2>2, <2>3
<1>4. ASSUME UNCHANGED document, request'[c].file = Nothing, request'[c].remove = {},
             files' = files \ {own.file}, orphans' = orphans,
             own.remove = {}
      PROVE  Goal
  <2>1. FilesFit'
    <3>1. \A d \in Docs : document[d].files \cap {own.file} = {} BY DEF FilesFit
    <3>2. \A b \in Requests \ {c} : request[b].file # Nothing => request[b].file # own.file
      BY DEF FilesFit
    <3>3. \A b \in Requests : request'[b].file # Nothing => request'[b].file \in files'
      BY <1>2, <1>4, <3>2 DEF FilesFit
    <3>4. \A b \in Requests, d \in Docs :
            ({request'[b].file} \cup request'[b].remove) \cap document'[d].files = {}
      <4>1. ASSUME NEW d \in Docs PROVE Nothing \notin document[d].files
        BY <1>1, NothingIsNothing DEF DocumentType
      <4> QED BY <1>2, <1>4, <4>1 DEF FilesFit
    <3>5. \A a, b \in Requests : a # b =>
            request'[a].file = Nothing \/ request'[a].file \notin {request'[b].file} \cup request'[b].remove
      BY <1>2, <1>4 DEF FilesFit
    <3> QED BY <1>4, <3>3, <3>4, <3>5 DEF FilesFit
  <2>2. VersionsHaveFiles' BY <1>4 DEF VersionsHaveFiles, FilesFit
  <2>3. ASSUME NEW f \in files' PROVE Owned(f)' BY <1>0, <1>2, <1>4, <2>3 DEF Owned
  <2> QED BY <1>0, <2>1, <2>2, <2>3
<1>5. CASE SaveUploadedFile(c)
  <2>1. PICK f \in FreeFiles :
          /\ files' = files \cup {f}
          /\ request' = [request EXCEPT ![c].step = "lock", ![c].file = f]
    BY <1>5 DEF SaveUploadedFile
  <2>2. /\ request'[c].file = f /\ request'[c].remove = own.remove
        /\ document' = document /\ orphans' = orphans /\ files' = files \cup {f}
    BY <1>1, <1>5, <2>1 DEF SaveUploadedFile, TypeOK, RequestType
  <2>3. /\ f \in Files /\ \A d \in Docs : f \notin document[d].files
        /\ \A b \in Requests : f # request[b].file /\ f \notin request[b].remove
    BY <1>1, NothingIsNothing DEF FreeFiles, InRows, InWork
  <2>4. own.remove = {} /\ own.file = Nothing /\ files \subseteq Files
    BY <1>1, <1>5 DEF SaveUploadedFile, RequestFits, TypeOK
  <2>5. FilesFit'
    <3>0. \A b \in Requests : request[b].file # Nothing => request[b].file \in files
      BY DEF FilesFit
    <3>1. ASSUME NEW b \in Requests, request'[b].file # Nothing
          PROVE  request'[b].file \in files'
      <4>1. CASE b = c BY <2>2, <4>1
      <4>2. CASE b # c BY <1>2, <2>2, <3>0, <3>1, <4>2
      <4> QED BY <4>1, <4>2
    <3>2. \A b \in Requests, d \in Docs :
            ({request'[b].file} \cup request'[b].remove) \cap document'[d].files = {}
      BY <1>2, <2>2, <2>3, <2>4 DEF FilesFit
    <3>3. \A a, b \in Requests : a # b =>
            request'[a].file = Nothing \/ request'[a].file \notin {request'[b].file} \cup request'[b].remove
      BY <1>2, <2>2, <2>3, <2>4, NothingIsNothing DEF FilesFit
    <3> QED BY <2>2, <3>1, <3>2, <3>3 DEF FilesFit
  <2>6. VersionsHaveFiles' BY <2>1, <2>2 DEF VersionsHaveFiles
  <2>7. ASSUME NEW g \in files' PROVE Owned(g)'
    BY <1>0, <1>2, <2>1, <2>2, <2>4, <2>7, NothingIsNothing DEF Owned
  <2> QED BY <1>0, <2>5, <2>6, <2>7
<1>6. CASE CreateDocument(c) \/ CreateDocumentVersion(c)
  <2>1. own.file \in Files /\ own.file \in files /\ own.remove = {}
    BY <1>1, <1>6, NothingIsNothing DEF CreateDocument, CreateDocumentVersion, Writes, RequestFits,
       RequestType, OrNothing, Uploads, FilesFit
  <2>2. request'[c].file = Nothing /\ request'[c].remove = {} /\ files' = files /\ orphans' = orphans
    BY <1>6 DEF CreateDocument, CreateDocumentVersion, Finish, Idle
  <2>3. \E d \in Docs :
          /\ document'[d].files = document[d].files \cup {own.file} /\ document'[d].state # "absent"
          /\ \A e \in Docs \ {d} : document'[e] = document[e]
    <3>1. CASE CreateDocument(c)
      BY <3>1 DEF CreateDocument, FilesFit, TypeOK
    <3>2. CASE CreateDocumentVersion(c)
      <4>1. own.doc \in Docs /\ document[own.doc].state # "absent"
        BY <3>2, WriterHolds DEF CreateDocumentVersion, Writes
      <4> QED BY <1>1, <3>2, <4>1 DEF CreateDocumentVersion, TypeOK, DocumentType
    <3> QED BY <1>6, <3>1, <3>2
  <2>4. PICK d \in Docs :
          /\ document'[d].files = document[d].files \cup {own.file} /\ document'[d].state # "absent"
          /\ \A e \in Docs \ {d} : document'[e] = document[e]
    BY <2>3
  <2>5. \A e \in Docs : own.file \notin document[e].files /\ Nothing \notin document[e].files
    BY <1>1, NothingIsNothing DEF FilesFit, DocumentType
  <2>6. FilesFit'
    <3>1. \A b \in Requests : request'[b].file # Nothing => request'[b].file \in files'
      BY <1>2, <2>2 DEF FilesFit
    <3>2. ASSUME NEW b \in Requests
          PROVE  /\ own.file \notin {request'[b].file} \cup request'[b].remove
                 /\ \A e \in Docs :
                      ({request'[b].file} \cup request'[b].remove) \cap document[e].files = {}
      BY <1>2, <2>1, <2>2, <2>5, NothingIsNothing DEF FilesFit
    <3>3. \A b \in Requests, e \in Docs :
            ({request'[b].file} \cup request'[b].remove) \cap document'[e].files = {}
      BY <2>4, <3>2
    <3>4. \A e \in Docs : document'[e].state = "absent" => document'[e].files = {}
      BY <2>4 DEF FilesFit
    <3>5. \A e, g \in Docs : e # g => document'[e].files \cap document'[g].files = {}
      BY <2>4, <2>5 DEF FilesFit
    <3>6. \A a, b \in Requests : a # b =>
            request'[a].file = Nothing \/ request'[a].file \notin {request'[b].file} \cup request'[b].remove
      BY <1>2, <2>2, NothingIsNothing DEF FilesFit
    <3> QED BY <3>1, <3>3, <3>4, <3>5, <3>6 DEF FilesFit
  <2>7. VersionsHaveFiles' BY <2>1, <2>2, <2>4 DEF VersionsHaveFiles
  <2>8. ASSUME NEW g \in files' PROVE Owned(g)'
    BY <1>0, <1>2, <2>1, <2>2, <2>4, <2>8 DEF Owned
  <2> QED BY <1>0, <2>6, <2>7, <2>8
<1>7. CASE UpdateDocumentMetadata(c) \/ MoveDocument(c) \/ SoftDeleteDocument(c)
             \/ RestoreDocument(c)
  <2>1. own.file = Nothing /\ own.remove = {}
    BY <1>1, <1>7 DEF UpdateDocumentMetadata, MoveDocument, SoftDeleteDocument, RestoreDocument,
       Writes, RequestFits, Uploads
  <2>2. request'[c].file = Nothing /\ request'[c].remove = {} /\ files' = files /\ orphans' = orphans
    BY <1>7 DEF UpdateDocumentMetadata, MoveDocument, SoftDeleteDocument, RestoreDocument,
       Finish, Idle
  <2>3. own.doc \in Docs /\ document[own.doc].state # "absent"
    BY <1>7, WriterHolds DEF UpdateDocumentMetadata, MoveDocument, SoftDeleteDocument,
       RestoreDocument, Writes, Mutations
  <2>4. \A d \in Docs : /\ document'[d].files = document[d].files
                        /\ document'[d].state = "absent" => document[d].state = "absent"
    BY <1>1, <1>7, <2>3 DEF UpdateDocumentMetadata, MoveDocument, SoftDeleteDocument,
       RestoreDocument, TypeOK, DocumentType
  <2> QED BY <1>3, <2>1, <2>2, <2>4
<1>8. CASE DeleteRows(c)
  <2> DEFINE gone == own.doc
  <2>1. gone \in Docs /\ own.file = Nothing /\ own.remove = {}
    BY <1>1, <1>8, WriterHolds DEF DeleteRows, Writes, RequestFits, Uploads, Mutations
  <2>2. /\ request'[c].file = Nothing /\ request'[c].remove = document[gone].files
        /\ files' = files /\ orphans' = orphans
    BY <1>8 DEF DeleteRows, Idle
  <2>3. /\ document'[gone].files = {} /\ document'[gone].state # "absent"
        /\ \A e \in Docs \ {gone} : document'[e] = document[e]
    BY <1>8, <2>1 DEF DeleteRows, NoDocument, TypeOK
  <2>4. FilesFit'
    <3>1. \A d \in Docs : Nothing \notin document[d].files
      BY <1>1, NothingIsNothing DEF DocumentType
    <3>2. \A b \in Requests, d \in Docs :
            ({request'[b].file} \cup request'[b].remove) \cap document'[d].files = {}
      <4>1. ASSUME NEW d \in Docs
            PROVE  ({request'[c].file} \cup request'[c].remove) \cap document'[d].files = {}
        BY <2>1, <2>2, <2>3, <3>1 DEF FilesFit
      <4>2. ASSUME NEW b \in Requests \ {c}, NEW d \in Docs
            PROVE  ({request'[b].file} \cup request'[b].remove) \cap document'[d].files = {}
        BY <1>2, <2>3 DEF FilesFit
      <4> QED BY <4>1, <4>2
    <3>3. \A b \in Requests : request'[b].file # Nothing => request'[b].file \in files'
      BY <1>2, <2>2 DEF FilesFit
    <3>4. \A a, b \in Requests : a # b =>
            request'[a].file = Nothing \/ request'[a].file \notin {request'[b].file} \cup request'[b].remove
      <4>1. ASSUME NEW a \in Requests \ {c}
            PROVE  request[a].file \notin document[gone].files
        BY <2>1 DEF FilesFit
      <4> QED BY <1>2, <2>2, <4>1 DEF FilesFit
    <3>5. \A d, e \in Docs : d # e => document'[d].files \cap document'[e].files = {}
      BY <2>3 DEF FilesFit
    <3>6. \A d \in Docs : document'[d].state = "absent" => document'[d].files = {}
      BY <2>3 DEF FilesFit
    <3> QED BY <3>2, <3>3, <3>4, <3>5, <3>6 DEF FilesFit
  <2>5. VersionsHaveFiles'
    BY <2>2, <2>3 DEF VersionsHaveFiles
  <2>6. ASSUME NEW g \in files' PROVE Owned(g)'
    BY <1>0, <1>2, <2>1, <2>2, <2>3, <2>6, NothingIsNothing DEF Owned, TypeOK
  <2> QED BY <1>0, <2>4, <2>5, <2>6
<1>9. CASE RemoveFile(c)
  <2>1. PICK f \in own.remove :
          /\ files' = files \ {f}
          /\ request' = [request EXCEPT ![c] =
               IF own.remove \ {f} = {} THEN Idle ELSE [own EXCEPT !.remove = own.remove \ {f}]]
    BY <1>9 DEF RemoveFile
  <2>2. own.file = Nothing BY <1>1, <1>9 DEF RemoveFile, RequestFits
  <2>3. request'[c].file = Nothing /\ request'[c].remove = own.remove \ {f}
    BY <1>1, <2>1, <2>2 DEF Idle, TypeOK, RequestType
  <2>4. document' = document /\ orphans' = orphans BY <1>9 DEF RemoveFile
  <2>5. FilesFit'
    <3>1. \A b \in Requests : request'[b].file = request[b].file /\ request'[b].remove \subseteq request[b].remove
      BY <1>2, <2>2, <2>3
    <3>2. \A b \in Requests, d \in Docs :
            ({request'[b].file} \cup request'[b].remove) \cap document'[d].files = {}
      BY <2>4, <3>1 DEF FilesFit
    <3>3. \A b \in Requests : request'[b].file # Nothing => request'[b].file \in files'
      <4>1. \A b \in Requests \ {c} : request[b].file # Nothing => request[b].file # f
        BY <2>1 DEF FilesFit
      <4> QED BY <2>1, <2>2, <3>1, <4>1 DEF FilesFit
    <3>4. \A a, b \in Requests : a # b =>
            request'[a].file = Nothing \/ request'[a].file \notin {request'[b].file} \cup request'[b].remove
      BY <3>1 DEF FilesFit
    <3> QED BY <2>4, <3>2, <3>3, <3>4 DEF FilesFit
  <2>6. VersionsHaveFiles' BY <2>1, <2>4 DEF VersionsHaveFiles, FilesFit
  <2>7. ASSUME NEW g \in files' PROVE Owned(g)'
    BY <1>0, <1>2, <2>1, <2>2, <2>3, <2>4, <2>7, NothingIsNothing DEF Owned, TypeOK
  <2> QED BY <1>0, <2>5, <2>6, <2>7
<1>10. CASE Crash(c)
  <2>1. request'[c].file = Nothing /\ request'[c].remove = {} /\ files' = files
          /\ document' = document /\ orphans' = orphans \cup (files \cap ({own.file} \cup own.remove))
    BY <1>10 DEF Crash, Finish, Idle
  <2>2. FilesFit'
    <3>1. \A d \in Docs : Nothing \notin document[d].files
      BY <1>1, NothingIsNothing DEF DocumentType
    <3>2. \A b \in Requests, d \in Docs :
            ({request'[b].file} \cup request'[b].remove) \cap document'[d].files = {}
      BY <1>2, <2>1, <3>1 DEF FilesFit
    <3>3. \A b \in Requests : request'[b].file # Nothing => request'[b].file \in files'
      BY <1>2, <2>1 DEF FilesFit
    <3>4. \A a, b \in Requests : a # b =>
            request'[a].file = Nothing \/ request'[a].file \notin {request'[b].file} \cup request'[b].remove
      BY <1>2, <2>1, NothingIsNothing DEF FilesFit
    <3> QED BY <2>1, <3>2, <3>3, <3>4 DEF FilesFit
  <2>3. VersionsHaveFiles' BY <2>1 DEF VersionsHaveFiles
  <2>4. ASSUME NEW g \in files' PROVE Owned(g)'
    BY <1>0, <1>2, <2>1, <2>4 DEF Owned
  <2> QED BY <1>0, <2>2, <2>3, <2>4
<1>11. CASE Begin(c)
  <2>1. own.file = Nothing /\ own.remove = {}
    BY <1>1, <1>11 DEF Begin, BeginCreate, BeginVersion, BeginMutation, BeginGrantOp, BeginDisable,
       Start, RequestFits
  <2>2. UNCHANGED <<files, orphans, document>>
    BY <1>11 DEF Begin, BeginCreate, BeginVersion, BeginMutation, BeginGrantOp, BeginDisable, Start
  <2> QED BY <1>3, <1>11, <2>1, <2>2, BeginFits
<1>12. CASE DisableFolder(c) \/ RevokeTemporaryGrant(c) \/ ConsumeToken(c)
  <2>1. own.file = Nothing /\ own.remove = {}
    BY <1>1, <1>12 DEF DisableFolder, RevokeTemporaryGrant, ConsumeToken, Writes, RequestFits, Uploads
  <2>2. /\ request'[c].file = Nothing /\ request'[c].remove = {}
        /\ UNCHANGED <<files, orphans, document>>
    BY <1>12 DEF DisableFolder, RevokeTemporaryGrant, ConsumeToken, Finish, Idle
  <2> QED BY <1>3, <2>1, <2>2
<1>13. CASE LockRow(c) \/ PassChecks(c)
  <2>1. /\ request'[c].file = own.file /\ request'[c].remove = own.remove
        /\ UNCHANGED <<files, orphans, document>>
    BY <1>1, <1>13 DEF LockRow, PassChecks, TypeOK, RequestType
  <2> QED BY <1>3, <2>1
<1>14. CASE Fail(c)
  <2>1. own.remove = {} BY <1>1, <1>14 DEF Fail, InTransaction, RequestFits
  <2>2. /\ UNCHANGED document /\ request'[c].file = Nothing /\ request'[c].remove = {}
        /\ files' = files \ {own.file} /\ orphans' = orphans
    BY <1>14 DEF Fail, Finish, Idle
  <2> QED BY <1>4, <2>1, <2>2
<1> QED BY <1>5, <1>6, <1>7, <1>8, <1>9, <1>10, <1>11, <1>12, <1>13, <1>14
       DEF Handle

-------------------------------------------------------------------------------
(* The titles *)

LEMMA StoreTitles ==
  ASSUME StoreInv, NEW c \in Requests, Handle(c)
  PROVE  TitlesAreUnique'
<1> DEFINE own == request[c]
           Clash(x, y) == x.state = "active" /\ y.state = "active"
                            /\ x.folder = y.folder /\ x.title = y.title
<1> USE DEF StoreInv
<1>1. \A d, e \in Docs : d # e => ~Clash(document[d], document[e])
  BY DEF TitlesAreUnique
<1>2. ASSUME NEW d \in Docs,
             \A e \in Docs \ {d} : document'[e] = document[e] /\ ~Clash(document'[d], document[e])
      PROVE  TitlesAreUnique'
  BY <1>1, <1>2 DEF TitlesAreUnique
<1>3. \A f, t, d : Accepts(f, t, d) =>
        \A e \in Docs \ {d} : ~(document[e].state = "active" /\ document[e].folder = f
                                 /\ document[e].title = t)
  BY DEF Accepts
<1>4. CASE CreateDocument(c)
  <2>1. PICK d \in Docs : document' = [document EXCEPT ![d] =
          [state |-> "active", folder |-> own.target, title |-> own.title, files |-> {own.file}]]
    BY <1>4 DEF CreateDocument
  <2>2. document'[d].folder = own.target /\ document'[d].title = own.title
          /\ \A e \in Docs \ {d} : document'[e] = document[e]
    BY <2>1 DEF TypeOK
  <2>3. Accepts(own.target, own.title, Nothing)
    BY <1>4 DEF CreateDocument, Writes, ChecksStillHold, Consistent
  <2> QED BY <1>2, <1>3, <2>2, <2>3, NothingIsNothing
<1>5. CASE CreateDocumentVersion(c) \/ UpdateDocumentMetadata(c) \/ MoveDocument(c)
             \/ SoftDeleteDocument(c) \/ RestoreDocument(c) \/ DeleteRows(c)
  <2> DEFINE d == own.doc
             new == document'[d]
  <2>1. /\ own.step = "write" /\ own.op \in {"version"} \cup Mutations
    BY <1>5 DEF CreateDocumentVersion, UpdateDocumentMetadata, MoveDocument,
       SoftDeleteDocument, RestoreDocument, DeleteRows, Writes, Mutations
  <2>2. d \in Docs /\ Consistent(own)
    BY <2>1, WriterHolds DEF ChecksStillHold
  <2>3. \A e \in Docs \ {d} : document'[e] = document[e]
    BY <1>5, <2>2 DEF CreateDocumentVersion, UpdateDocumentMetadata, MoveDocument,
       SoftDeleteDocument, RestoreDocument, DeleteRows, TypeOK
  <2>4. document[d] \in DocumentType /\ document \in [Docs -> DocumentType]
    BY <2>2 DEF TypeOK
  <2>5. \/ new.state = document[d].state /\ new.folder = document[d].folder
             /\ new.title = document[d].title
        \/ new.state # "active"
        \/ Accepts(new.folder, new.title, d)
    <3>1. CASE CreateDocumentVersion(c)
      BY <2>2, <2>4, <3>1 DEF CreateDocumentVersion, DocumentType
    <3>2. CASE UpdateDocumentMetadata(c)
      <4>1. Accepts(document[d].folder, own.title, d)
        BY <2>2, <3>2 DEF UpdateDocumentMetadata, Writes, Consistent
      <4>2. new.folder = document[d].folder /\ new.title = own.title
        BY <2>2, <2>4, <3>2 DEF UpdateDocumentMetadata, DocumentType
      <4> QED BY <4>1, <4>2
    <3>3. CASE MoveDocument(c)
      <4>1. Accepts(own.target, document[d].title, d)
        BY <2>2, <3>3 DEF MoveDocument, Writes, Consistent
      <4>2. new.folder = own.target /\ new.title = document[d].title
        BY <2>2, <2>4, <3>3 DEF MoveDocument, DocumentType
      <4> QED BY <4>1, <4>2
    <3>4. CASE SoftDeleteDocument(c)
      BY <2>2, <2>4, <3>4 DEF SoftDeleteDocument, DocumentType
    <3>5. CASE RestoreDocument(c)
      <4>1. Accepts(document[d].folder, document[d].title, d)
        BY <2>2, <3>5 DEF RestoreDocument, Writes, Consistent
      <4>2. new.folder = document[d].folder /\ new.title = document[d].title
        BY <2>2, <2>4, <3>5 DEF RestoreDocument, DocumentType
      <4> QED BY <4>1, <4>2
    <3>6. CASE DeleteRows(c) BY <2>2, <2>4, <3>6 DEF DeleteRows, NoDocument
    <3> QED BY <1>5, <3>1, <3>2, <3>3, <3>4, <3>5, <3>6
  <2>6. \A e \in Docs \ {d} : ~Clash(new, document[e])
    BY <1>1, <1>3, <2>2, <2>5
  <2> QED BY <1>2, <2>2, <2>3, <2>6
<1>6. CASE UNCHANGED document BY <1>6 DEF TitlesAreUnique
<1>7. CASE Begin(c) BY <1>6, <1>7 DEF Begin, BeginCreate, BeginVersion, BeginMutation,
                                 BeginGrantOp, BeginDisable, Start
<1> QED BY <1>4, <1>5, <1>6, <1>7
      DEF Handle, SaveUploadedFile, LockRow, PassChecks, RemoveFile, DisableFolder,
          RevokeTemporaryGrant, ConsumeToken, Fail, Crash

-------------------------------------------------------------------------------
(* The theorems *)

LEMMA StoreStart == Init => StoreInv
<1> SUFFICES ASSUME Init PROVE StoreInv
  OBVIOUS
<1> USE DEF Init
<1>1. TypeOK
  BY IdleTyped, StoreAssumption
     DEF TypeOK, NoDocument, NoGrant, DocumentType, GrantType, OrNothing
<1>2. LocksAreExclusive /\ RequestsFit BY DEF LocksAreExclusive, RequestsFit, RequestFits, Idle
<1>3. GrantsFit BY DEF GrantsFit, NoGrant
<1>4. ChecksStillHold BY DEF ChecksStillHold, Idle
<1>5. FilesFit /\ VersionsHaveFiles BY DEF FilesFit, VersionsHaveFiles, NoDocument, Idle
<1>6. FilesAreAccountedFor BY DEF FilesAreAccountedFor
<1>7. TitlesAreUnique BY DEF TitlesAreUnique, NoDocument
<1> QED BY <1>1, <1>2, <1>3, <1>4, <1>5, <1>6, <1>7 DEF StoreInv

LEMMA ChecksKept ==
  ASSUME StoreInv, request' = request, document' = document,
         \A g \in Grants : grant[g].state # "absent" => grant'[g] = grant[g]
  PROVE  ChecksStillHold'
<1> USE DEF StoreInv
<1>1. ASSUME NEW b \in Requests, request[b].step = "write"
      PROVE  (ToSet(RowsToLock(request[b])) \subseteq request[b].held /\ Consistent(request[b]))'
  <2>1. request[b].op \in GrantOps => grant'[request[b].grant] = grant[request[b].grant]
    BY <1>1, WriterHolds
  <2>2. RowsToLock(request[b])' = RowsToLock(request[b])
    BY <2>1 DEF RowsToLock, GrantRows, DocumentRows
  <2>3. ToSet(RowsToLock(request[b])) \subseteq request[b].held /\ Consistent(request[b])
    BY <1>1 DEF ChecksStillHold
  <2>4. \A f, t, d : Accepts(f, t, d)' <=> Accepts(f, t, d) BY DEF Accepts
  <2>5. Consistent(request[b])'
    <3>1. request[b].op \in Ops BY DEF TypeOK, RequestType
    <3>2. CASE request[b].op \in GrantOps
      BY <2>1, <2>3, <3>2 DEF Consistent, GrantOps
    <3>3. CASE request[b].op \in {"create", "disable"}
      BY <2>3, <2>4, <3>3 DEF Consistent
    <3>4. CASE request[b].op \in {"version"} \cup Mutations
      BY <2>3, <2>4, <3>4 DEF Consistent, Mutations
    <3> QED BY <3>1, <3>2, <3>3, <3>4 DEF Ops, Uploads
  <2> QED BY <2>2, <2>3, <2>5
<1> QED BY <1>1 DEF ChecksStillHold

\* A new grant disturbs no request: only the rows of grants that were absent change.
LEMMA StoreNewGrant ==
  ASSUME StoreInv, CreateTemporaryGrant
  PROVE  StoreInv'
<1> USE DEF StoreInv
<1>1. TypeOK' BY StoreTypeOK DEF Next
<1>2. /\ UNCHANGED <<document, enabled, files, request, ended, orphans>>
      /\ \A g \in Grants : grant'[g] # grant[g] =>
           /\ grant[g].state = "absent" /\ grant'[g].state = "live" /\ grant'[g].doc \in Docs
           /\ document[grant'[g].doc].state # "absent"
  BY DEF CreateTemporaryGrant, TypeOK
<1>3. LocksAreExclusive' /\ FilesFit' /\ VersionsHaveFiles' /\ FilesAreAccountedFor'
        /\ TitlesAreUnique'
  BY <1>2 DEF LocksAreExclusive, FilesFit, VersionsHaveFiles, FilesAreAccountedFor, InRows, InWork,
     TitlesAreUnique
<1>4. RequestsFit' BY <1>2 DEF RequestsFit, RequestFits
<1>5. GrantsFit' BY <1>2 DEF GrantsFit
<1>6. ChecksStillHold' BY <1>2, ChecksKept
<1> QED BY <1>1, <1>3, <1>4, <1>5, <1>6

LEMMA StoreStep ==
  ASSUME StoreInv, [Next]_vars
  PROVE  StoreInv'
<1>1. ASSUME NEW c \in Requests, Handle(c) PROVE StoreInv'
  BY <1>1, StoreTypeOK, StoreLocks, StoreRequests, StoreGrants, StoreChecks, StoreFiles,
     StoreTitles DEF StoreInv, Next
<1>2. CASE CreateTemporaryGrant BY <1>2, StoreNewGrant
<1>3. CASE UNCHANGED vars
  <2> USE <1>3 DEF vars, StoreInv
  <2>1. TypeOK' BY StoreTypeOK
  <2>2. LocksAreExclusive' /\ GrantsFit' BY DEF LocksAreExclusive, GrantsFit
  <2>3. RequestsFit' BY DEF RequestsFit, RequestFits
  <2>4. ChecksStillHold' BY ChecksKept
  <2>5. FilesFit' /\ VersionsHaveFiles' BY DEF FilesFit, VersionsHaveFiles
  <2>6. FilesAreAccountedFor' BY DEF FilesAreAccountedFor, InRows, InWork
  <2>7. TitlesAreUnique' BY DEF TitlesAreUnique
  <2> QED BY <2>1, <2>2, <2>3, <2>4, <2>5, <2>6, <2>7
<1> QED BY <1>1, <1>2, <1>3 DEF Next

\* The row locks and the order of file and row operations maintain StoreInv.
THEOREM StoreInvariant == Spec => []StoreInv
<1>1. Init => StoreInv BY StoreStart
<1>2. StoreInv /\ [Next]_vars => StoreInv' BY StoreStep
<1> QED BY <1>1, <1>2, PTL DEF Spec

\* The state is well typed; no grant counts more downloads than it was issued for.
THEOREM StoreTypes == Spec => []TypeOK
<1>1. StoreInv => TypeOK BY DEF StoreInv
<1> QED BY <1>1, StoreInvariant, PTL

\* A folder never shows two active documents of one title.
THEOREM TitlesStayUnique == Spec => []TitlesAreUnique
<1>1. StoreInv => TitlesAreUnique BY DEF StoreInv
<1> QED BY <1>1, StoreInvariant, PTL

\* No version row loses its file.
THEOREM VersionsKeepFiles == Spec => []VersionsHaveFiles
<1>1. StoreInv => VersionsHaveFiles BY DEF StoreInv
<1> QED BY <1>1, StoreInvariant, PTL

\* A file nobody knows of was left by a process that died.
THEOREM FilesStayAccountedFor == Spec => []FilesAreAccountedFor
<1>1. StoreInv => FilesAreAccountedFor BY DEF StoreInv
<1> QED BY <1>1, StoreInvariant, PTL

\* No edit, move, deletion or restoration overwrites what its sender has not seen.
THEOREM NoUpdateIsLost == Spec => NoLostUpdate
<1> DEFINE Seen == \A c \in Requests :
             request[c].step = "write" /\ request[c].op \in Mutations
               /\ document'[request[c].doc] # document[request[c].doc]
               => request[c].current
<1>1. ASSUME StoreInv, [Next]_vars, NEW b \in Requests,
             request[b].step = "write", request[b].op \in Mutations
      PROVE  request[b].current
  BY <1>1 DEF StoreInv, ChecksStillHold, Consistent, Mutations
<1>2. StoreInv /\ [Next]_vars => [Seen]_vars BY <1>1
<1> QED BY <1>2, StoreInvariant, PTL DEF Spec, NoLostUpdate

LEMMA UsesKept ==
  ASSUME StoreInv, Next
  PROVE  \/ \E c \in Requests : ConsumeToken(c)
         \/ \A g \in Grants : \/ grant'[g].uses = grant[g].uses
                              \/ grant[g].state = "absent" /\ grant'[g].uses = 0
<1> USE DEF StoreInv, TypeOK
<1>1. CASE CreateTemporaryGrant BY <1>1 DEF CreateTemporaryGrant
<1>2. ASSUME NEW c \in Requests, Handle(c), ~ConsumeToken(c)
      PROVE  \A g \in Grants : grant'[g].uses = grant[g].uses
  <2>1. CASE SoftDeleteDocument(c) \/ DeleteRows(c) \/ RevokeTemporaryGrant(c)
    BY <2>1 DEF SoftDeleteDocument, DeleteRows, RevokeTemporaryGrant, GrantType
  <2>2. CASE Begin(c)
    BY <2>2 DEF Begin, BeginCreate, BeginVersion, BeginMutation, BeginGrantOp, BeginDisable, Start
  <2>3. CASE UNCHANGED grant BY <2>3
  <2> QED BY <1>2, <2>1, <2>2, <2>3
        DEF Handle, SaveUploadedFile, LockRow, PassChecks, CreateDocument, CreateDocumentVersion,
            UpdateDocumentMetadata, MoveDocument, RestoreDocument, RemoveFile, DisableFolder,
            Fail, Crash
<1> QED BY <1>1, <1>2 DEF Next

\* A grant that its document's deletion has revoked is not used any more.
THEOREM GrantsStayEnded == Spec => GrantsEndWithDocument
<1> DEFINE Unused == \A g \in ended : grant'[g].uses = grant[g].uses
<1>1. ASSUME StoreInv, Next PROVE Unused
  <2>1. ASSUME NEW c \in Requests, ConsumeToken(c) PROVE Unused
    <3>1. grant[request[c].grant].state = "live"
      BY <1>1, <2>1 DEF ConsumeToken, Writes, StoreInv, ChecksStillHold, Consistent
    <3>2. request[c].grant \notin ended BY <1>1, <3>1 DEF StoreInv, GrantsFit, TypeOK
    <3> QED BY <1>1, <2>1, <3>2 DEF ConsumeToken, StoreInv, TypeOK
  <2>2. CASE \A g \in Grants : grant'[g].uses = grant[g].uses \/ grant[g].state = "absent"
    BY <1>1, <2>2 DEF StoreInv, TypeOK, GrantsFit
  <2> QED BY <1>1, <2>1, <2>2, UsesKept
<1>2. StoreInv /\ [Next]_vars => [Unused]_vars BY <1>1
<1> QED BY <1>2, StoreInvariant, PTL DEF Spec, GrantsEndWithDocument

\* Only a live grant of an active document gives a download.
THEOREM DownloadsStayAllowed == Spec => DownloadsAreAllowed
<1> DEFINE Allowed == \A g \in Grants :
             grant'[g].uses > grant[g].uses
               => grant[g].state = "live" /\ document[grant[g].doc].state = "active"
<1>1. ASSUME StoreInv, Next PROVE Allowed
  <2>1. ASSUME NEW c \in Requests, ConsumeToken(c) PROVE Allowed
    <3>1. LET g == request[c].grant
          IN  grant[g].state = "live" /\ document[grant[g].doc].state = "active"
      BY <1>1, <2>1 DEF ConsumeToken, Writes, StoreInv, ChecksStillHold, Consistent
    <3>2. \A g \in Grants : grant[g].uses \in Nat
      BY <1>1, StoreAssumption DEF StoreInv, TypeOK, GrantType
    <3> QED BY <1>1, <2>1, <3>1, <3>2 DEF ConsumeToken, StoreInv, TypeOK
  <2>2. CASE \A g \in Grants : \/ grant'[g].uses = grant[g].uses
                               \/ grant[g].state = "absent" /\ grant'[g].uses = 0
    <3>1. \A g \in Grants : grant[g].uses \in Nat
      BY <1>1, StoreAssumption DEF StoreInv, TypeOK, GrantType
    <3> QED BY <2>2, <3>1
  <2> QED BY <1>1, <2>1, <2>2, UsesKept
<1>2. StoreInv /\ [Next]_vars => [Allowed]_vars BY <1>1
<1> QED BY <1>2, StoreInvariant, PTL DEF Spec, DownloadsAreAllowed
=============================================================================
