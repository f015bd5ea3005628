----------------------------- MODULE BackupsProofs -----------------------------
(***************************************************************************)
(* Proofs about Backups: what a backup has dumped stays in the store until  *)
(* it is archived, because other backups keep away from the lock that it   *)
(* has, and so does every permanent deletion that looks while it has it;    *)
(* and a success always leaves an archive.                                  *)
(***************************************************************************)
EXTENDS Backups, TLAPS

-------------------------------------------------------------------------------
(* Types, and an archive that remains                                        *)

BackupRow == [step : Steps, status : {"none", "running", "success", "failure"},
              dump : SUBSET Files, manifest : SUBSET Files, files : SUBSET Files,
              kept : BOOLEAN, expired : BOOLEAN]
LockRow == [there : BOOLEAN, owner : Backups \cup {Nothing}, old : BOOLEAN]
DeletionRow == [step : {"idle", "clear", "delete", "remove"}, files : SUBSET Files,
                unseen : SUBSET Backups]

\* A file that a deletion removes is of no row and no upload any more, so every
\* row has its file.
FilesFit ==
  /\ rows \subseteq stored
  /\ \A q \in Deletions : deletion[q].files \cap (rows \cup uploads) = {}

\* An archive is kept from its publication, and expires when its backup is over.
ArchivesFit ==
  /\ \A b \in Backups : /\ backup[b].step \in {"save", "cleanup"} => backup[b].kept
                        /\ backup[b].expired => backup[b].step \in {"over", "dead"}
  /\ AnArchiveRemains

StoreInv == TypeOK /\ FilesFit /\ ArchivesFit

\* A step of one backup, which writes its row
RowStep(b, r) ==
  /\ backup' = [backup EXCEPT ![b] = r] /\ r \in BackupRow /\ UNCHANGED Store
  /\ r.step \in {"save", "cleanup"} => r.kept
  /\ r.expired => r.step \in {"over", "dead"}
  /\ r.status = "success" => r.kept \/ backup[b].status = "success"
  /\ backup[b].kept => r.kept

LEMMA NewFits == NewBackup \in BackupRow /\ NewBackup.step = "new" /\ NewBackup.status = "none"
                 /\ NewBackup.expired = FALSE /\ NewBackup.kept = FALSE
  BY DEF NewBackup, BackupRow, Steps

LEMMA StoreStarts == Init => StoreInv
  <1> SUFFICES ASSUME Init PROVE StoreInv
    OBVIOUS
  <1>1. \A b \in Backups : backup[b] = NewBackup
    BY DEF Init
  <1>2. TypeOK
    BY NewFits DEF Init, TypeOK, BackupRow, NoLock
  <1>3. ArchivesFit
    BY <1>1, NewFits DEF ArchivesFit, AnArchiveRemains
  <1> QED
    BY <1>2, <1>3 DEF Init, StoreInv, FilesFit

LEMMA RowStepFits ==
  ASSUME StoreInv, NEW b \in Backups, NEW r, RowStep(b, r),
         lock' \in LockRow, robbed' \in BOOLEAN,
         UNCHANGED deletion, restored' = restored
  PROVE  StoreInv'
  <1>1. backup'[b] = r /\ \A d \in Backups : d # b => backup'[d] = backup[d]
    BY DEF RowStep, StoreInv, TypeOK
  <1>2. TypeOK'
    BY DEF RowStep, StoreInv, TypeOK, BackupRow, Store, LockRow
  <1>3. FilesFit'
    BY DEF RowStep, StoreInv, FilesFit, Store
  <1>4. AnArchiveRemains'
    <2> SUFFICES ASSUME NEW d \in Backups, backup'[d].status = "success"
                 PROVE  \E e \in Backups : backup'[e].kept
      BY DEF AnArchiveRemains
    <2>1. AnArchiveRemains
      BY DEF StoreInv, ArchivesFit
    <2>2. CASE r.kept
      BY <1>1, <2>2
    <2>3. CASE ~r.kept
      <3>1. \E e \in Backups : backup[e].status = "success"
        BY <1>1, <2>3 DEF RowStep
      <3>2. PICK e \in Backups : backup[e].kept
        BY <2>1, <3>1 DEF AnArchiveRemains
      <3> QED
        BY <1>1, <2>3, <3>2 DEF RowStep
    <2> QED
      BY <2>2, <2>3
  <1>5. ArchivesFit'
    BY <1>1, <1>4 DEF RowStep, StoreInv, ArchivesFit
  <1> QED
    BY <1>2, <1>3, <1>5 DEF StoreInv

LEMMA BackupRowSteps ==
  ASSUME StoreInv, NEW b \in Backups, Backup(b), ~CleanupExpired(b), ~RestoreDatabase(b)
  PROVE  \E r : RowStep(b, r)
  <1> PICK t : t = backup[b]
    OBVIOUS
  <1>1. /\ t \in BackupRow /\ rows \subseteq Files /\ stored \subseteq Files
        /\ t.step \in {"save", "cleanup"} => t.kept
        /\ t.expired => t.step \in {"over", "dead"}
    BY DEF StoreInv, TypeOK, BackupRow, ArchivesFit
  <1> USE DEF At, Goto, Working, Starting
  <1>2. CASE StartBackup(b) \/ MakeLock(b) \/ FindStale(b) \/ RemoveStaleLock(b) \/ WriteOwner(b)
               \/ ReleaseLock(b) \/ FailEarly(b) \/ Die(b)
    <2>1. PICK s \in Steps \ {"save", "cleanup"} : Goto(b, s) /\ UNCHANGED Store /\ t.step \notin {"over", "dead"}
      BY <1>2 DEF StartBackup, MakeLock, FindStale, RemoveStaleLock, WriteOwner, ReleaseLock, FailEarly,
                  Die, Steps, Store
    <2> DEFINE r == [t EXCEPT !.step = s]
    <2>2. backup' = [backup EXCEPT ![b] = r]
      BY <2>1
    <2>3. /\ r \in BackupRow /\ r.step = s /\ r.expired = t.expired /\ r.status = t.status
          /\ r.kept = t.kept
      BY <1>1, <2>1 DEF BackupRow
    <2> HIDE DEF r
    <2> QED
      BY <1>1, <2>1, <2>2, <2>3 DEF RowStep
  <1>3. CASE Refuse(b)
    <2> DEFINE r == [t EXCEPT !.step = "over", !.status = "failure"]
    <2>1. backup' = [backup EXCEPT ![b] = r] /\ UNCHANGED Store
      BY <1>3 DEF Refuse, Store
    <2>2. /\ r \in BackupRow
          /\ r.step \in {"save", "cleanup"} => r.kept
          /\ r.expired => r.step \in {"over", "dead"}
          /\ r.status = "success" => r.kept \/ t.status = "success"
          /\ t.kept => r.kept
      BY <1>1, <1>3 DEF Refuse, BackupRow, Steps
    <2> HIDE DEF r
    <2> QED
      BY <2>1, <2>2 DEF RowStep
  <1>4. CASE CreateRun(b)
    <2> DEFINE r == [t EXCEPT !.step = "dump", !.status = "running"]
    <2>1. backup' = [backup EXCEPT ![b] = r] /\ UNCHANGED Store
      BY <1>4 DEF CreateRun, Store
    <2>2. /\ r \in BackupRow
          /\ r.step \in {"save", "cleanup"} => r.kept
          /\ r.expired => r.step \in {"over", "dead"}
          /\ r.status = "success" => r.kept \/ t.status = "success"
          /\ t.kept => r.kept
      BY <1>1, <1>4 DEF CreateRun, BackupRow, Steps
    <2> HIDE DEF r
    <2> QED
      BY <2>1, <2>2 DEF RowStep
  <1>5. CASE DumpDatabase(b)
    <2> DEFINE r == [t EXCEPT !.step = "manifest", !.dump = rows]
    <2>1. backup' = [backup EXCEPT ![b] = r] /\ UNCHANGED Store
      BY <1>5 DEF DumpDatabase, Store
    <2>2. /\ r \in BackupRow
          /\ r.step \in {"save", "cleanup"} => r.kept
          /\ r.expired => r.step \in {"over", "dead"}
          /\ r.status = "success" => r.kept \/ t.status = "success"
          /\ t.kept => r.kept
      BY <1>1, <1>5 DEF DumpDatabase, BackupRow, Steps
    <2> HIDE DEF r
    <2> QED
      BY <2>1, <2>2 DEF RowStep
  <1>6. CASE BuildManifest(b)
    <2> DEFINE r == [t EXCEPT !.step = "archive", !.manifest = stored]
    <2>1. backup' = [backup EXCEPT ![b] = r] /\ UNCHANGED Store
      BY <1>6 DEF BuildManifest, Store
    <2>2. /\ r \in BackupRow
          /\ r.step \in {"save", "cleanup"} => r.kept
          /\ r.expired => r.step \in {"over", "dead"}
          /\ r.status = "success" => r.kept \/ t.status = "success"
          /\ t.kept => r.kept
      BY <1>1, <1>6 DEF BuildManifest, BackupRow, Steps
    <2> HIDE DEF r
    <2> QED
      BY <2>1, <2>2 DEF RowStep
  <1>7. CASE WriteArchive(b)
    <2> DEFINE r == [t EXCEPT !.step = "verify", !.files = stored]
    <2>1. backup' = [backup EXCEPT ![b] = r] /\ UNCHANGED Store
      BY <1>7 DEF WriteArchive, Store
    <2>2. /\ r \in BackupRow
          /\ r.step \in {"save", "cleanup"} => r.kept
          /\ r.expired => r.step \in {"over", "dead"}
          /\ r.status = "success" => r.kept \/ t.status = "success"
          /\ t.kept => r.kept
      BY <1>1, <1>7 DEF WriteArchive, BackupRow, Steps
    <2> HIDE DEF r
    <2> QED
      BY <2>1, <2>2 DEF RowStep
  <1>8. CASE PublishArchive(b)
    <2> DEFINE r == [t EXCEPT !.step = "save", !.kept = TRUE]
    <2>1. backup' = [backup EXCEPT ![b] = r] /\ UNCHANGED Store
      BY <1>8 DEF PublishArchive, Store
    <2>2. /\ r \in BackupRow
          /\ r.step \in {"save", "cleanup"} => r.kept
          /\ r.expired => r.step \in {"over", "dead"}
          /\ r.status = "success" => r.kept \/ t.status = "success"
          /\ t.kept => r.kept
      BY <1>1, <1>8 DEF PublishArchive, BackupRow, Steps
    <2> HIDE DEF r
    <2> QED
      BY <2>1, <2>2 DEF RowStep
  <1>9. CASE SaveSuccess(b)
    <2> DEFINE r == [t EXCEPT !.step = "cleanup", !.status = "success"]
    <2>1. backup' = [backup EXCEPT ![b] = r] /\ UNCHANGED Store
      BY <1>9 DEF SaveSuccess, Store
    <2>2. /\ r \in BackupRow
          /\ r.step \in {"save", "cleanup"} => r.kept
          /\ r.expired => r.step \in {"over", "dead"}
          /\ r.status = "success" => r.kept \/ t.status = "success"
          /\ t.kept => r.kept
      BY <1>1, <1>9 DEF SaveSuccess, BackupRow, Steps
    <2> HIDE DEF r
    <2> QED
      BY <2>1, <2>2 DEF RowStep
  <1>10. CASE FailBackup(b)
    <2> DEFINE r == [t EXCEPT !.step = "release", !.status = "failure"]
    <2>1. backup' = [backup EXCEPT ![b] = r] /\ UNCHANGED Store
      BY <1>10 DEF FailBackup, Store
    <2>2. /\ r \in BackupRow
          /\ r.step \in {"save", "cleanup"} => r.kept
          /\ r.expired => r.step \in {"over", "dead"}
          /\ r.status = "success" => r.kept \/ t.status = "success"
          /\ t.kept => r.kept
      BY <1>1, <1>10 DEF FailBackup, BackupRow, Steps
    <2> HIDE DEF r
    <2> QED
      BY <2>1, <2>2 DEF RowStep
  <1>11. CASE Expire(b)
    <2> DEFINE r == [t EXCEPT !.expired = TRUE]
    <2>1. backup' = [backup EXCEPT ![b] = r] /\ UNCHANGED Store
      BY <1>11 DEF Expire, Store
    <2>2. /\ r \in BackupRow
          /\ r.step \in {"save", "cleanup"} => r.kept
          /\ r.expired => r.step \in {"over", "dead"}
          /\ r.status = "success" => r.kept \/ t.status = "success"
          /\ t.kept => r.kept
      BY <1>1, <1>11 DEF Expire, BackupRow, Steps
    <2> HIDE DEF r
    <2> QED
      BY <2>1, <2>2 DEF RowStep
  <1> QED
    BY <1>2, <1>3, <1>4, <1>5, <1>6, <1>7, <1>8, <1>9, <1>10, <1>11 DEF Backup

LEMMA BackupLockSteps ==
  ASSUME StoreInv, NEW b \in Backups, Backup(b), ~CleanupExpired(b), ~RestoreDatabase(b)
  PROVE  /\ lock' \in LockRow /\ robbed' \in BOOLEAN
         /\ UNCHANGED <<deletion, restored>>
  <1>1. lock \in LockRow /\ NoLock \in LockRow
    BY DEF StoreInv, TypeOK, LockRow, NoLock
  <1>2. /\ UNCHANGED <<deletion, restored>> /\ robbed' \in {robbed, robbed \/ (lock.there /\ ~Stale)}
        /\ \/ lock' \in {lock, NoLock}
           \/ lock' = [NoLock EXCEPT !.there = TRUE]
           \/ lock' = [lock EXCEPT !.owner = b]
    BY DEF Backup, StartBackup, MakeLock, Refuse, FindStale, RemoveStaleLock, WriteOwner, CreateRun,
           DumpDatabase, BuildManifest, WriteArchive, PublishArchive, SaveSuccess, FailBackup,
           ReleaseLock, FailEarly, Die, Expire, Others, RemoveAnyLock
  <1>3. [NoLock EXCEPT !.there = TRUE] \in LockRow /\ [lock EXCEPT !.owner = b] \in LockRow
    BY <1>1 DEF LockRow
  <1>4. robbed' \in BOOLEAN
    BY <1>2 DEF StoreInv, TypeOK
  <1> QED
    BY <1>1, <1>2, <1>3, <1>4

LEMMA CleanupFits ==
  ASSUME StoreInv, NEW b \in Backups, CleanupExpired(b) PROVE StoreInv'
  <1> PICK t : t = backup[b]
    OBVIOUS
  <1>1. /\ t \in BackupRow /\ t.step = "cleanup" /\ t.kept /\ ~t.expired
        /\ backup \in [Backups -> BackupRow]
    BY DEF StoreInv, TypeOK, BackupRow, ArchivesFit, CleanupExpired, At
  <1> DEFINE r == [t EXCEPT !.step = "release"]
  <1>2. r \in BackupRow /\ r.step = "release" /\ r.kept /\ ~r.expired
    BY <1>1 DEF BackupRow, Steps, Working
  <1>3. backup' = [d \in Backups |-> IF d = b THEN r ELSE [backup[d] EXCEPT !.kept = @ /\ d \notin Expired]]
        /\ UNCHANGED Store /\ UNCHANGED Others /\ lock' = lock
    BY DEF CleanupExpired
  <1>4. backup'[b] = r
    BY <1>3
  <1> HIDE DEF r
  <1>5. ASSUME NEW d \in Backups, d # b
        PROVE  /\ backup'[d] \in BackupRow /\ backup'[d].step = backup[d].step
               /\ backup'[d].expired = backup[d].expired /\ backup'[d].status = backup[d].status
               /\ backup[d].step \in {"save", "cleanup"} => backup'[d].kept
    <2>1. PICK x \in BackupRow : x = backup[d]
      BY <1>1
    <2>2. PICK k \in BOOLEAN : k = (x.kept /\ d \notin Expired)
      OBVIOUS
    <2>3. backup'[d] = [x EXCEPT !.kept = k]
      BY <1>3, <1>5, <2>1, <2>2
    <2>4. x.step \in {"save", "cleanup"} => k
      BY <2>1, <2>2 DEF StoreInv, ArchivesFit, Expired
    <2> QED
      BY <2>1, <2>3, <2>4 DEF BackupRow
  <1>6. backup' \in [Backups -> BackupRow]
    <2>1. \A d \in Backups : backup'[d] \in BackupRow
      BY <1>2, <1>4, <1>5
    <2> QED
      BY <1>3, <2>1
  <1>7. TypeOK'
    BY <1>3, <1>6 DEF StoreInv, TypeOK, BackupRow, Store, Others
  <1>8. FilesFit'
    BY <1>3 DEF StoreInv, FilesFit, Store, Others
  <1>9. AnArchiveRemains'
    BY <1>2, <1>4 DEF AnArchiveRemains
  <1>10. ArchivesFit'
    BY <1>2, <1>4, <1>5, <1>9 DEF StoreInv, ArchivesFit
  <1> QED
    BY <1>7, <1>8, <1>10 DEF StoreInv

\* Uploads, deletions, restorations and time
LEMMA StoreStepsFit ==
  ASSUME StoreInv,
         \/ StoreFile \/ CommitUpload \/ AbortUpload \/ LockAges \/ RestoreFiles \/ RestoreFails
         \/ \E b \in Backups : RestoreDatabase(b)
         \/ \E q \in Deletions : PermanentDeletion(q)
  PROVE  StoreInv'
  <1>1. backup' = backup
    BY DEF StoreFile, CommitUpload, AbortUpload, LockAges, RestoreFiles, RestoreFails, RestoreDatabase,
           PermanentDeletion, LookForBackup, ClearStaleLock, DeleteRows, RefuseDeletion, RemoveFiles
  <1>2. ArchivesFit'
    BY <1>1 DEF StoreInv, ArchivesFit, AnArchiveRemains
  <1>3. CASE StoreFile \/ CommitUpload \/ AbortUpload
    BY <1>1, <1>2, <1>3 DEF StoreFile, CommitUpload, AbortUpload, StoreInv, TypeOK, FilesFit
  <1>4. CASE LockAges \/ RestoreFiles \/ RestoreFails \/ \E b \in Backups : RestoreDatabase(b)
    <2>1. FilesFit' /\ UNCHANGED <<rows, stored, uploads, deletion>>
      BY <1>4 DEF LockAges, RestoreFiles, RestoreFails, RestoreDatabase, StoreInv, FilesFit, Store, Others
    <2>2. lock' \in LockRow
      BY <1>4 DEF LockAges, RestoreFiles, RestoreFails, RestoreDatabase, StoreInv, TypeOK, LockRow
    <2>3. /\ robbed' = robbed /\ early' = early
          /\ restored' \in [step : {"empty", "database", "done", "broken"}, rows : SUBSET Files, files : SUBSET Files]
      BY <1>4 DEF LockAges, RestoreFiles, RestoreFails, RestoreDatabase, StoreInv, TypeOK, Store,
                  Others
    <2> QED
      BY <1>1, <1>2, <2>1, <2>2, <2>3 DEF StoreInv, TypeOK, LockRow
  <1>5. ASSUME NEW q \in Deletions, PermanentDeletion(q) PROVE StoreInv'
    <2>1. \E x \in DeletionRow :
            /\ deletion' = [deletion EXCEPT ![q] = x]
            /\ \/ rows' = rows /\ stored' = stored /\ x.files = {}
               \/ rows' = rows \ x.files /\ stored' = stored /\ x.files \subseteq rows
               \/ rows' = rows /\ stored' = stored \ deletion[q].files /\ x.files = {}
      BY <1>5 DEF PermanentDeletion, LookForBackup, ClearStaleLock, DeleteRows, RefuseDeletion, RemoveFiles,
                  Deleting, WithoutLock, DeletionRow, Store, StoreInv, TypeOK
    <2>2. /\ uploads' = uploads /\ restored' = restored /\ lock' \in {lock, NoLock}
          /\ robbed' \in {robbed, robbed \/ (lock.there /\ ~Stale)}
          /\ early' \in {early, early \cup {p \in deletion[q].unseen \X deletion[q].files :
                                               p[2] \in backup[p[1]].dump}}
      BY <1>5 DEF PermanentDeletion, LookForBackup, ClearStaleLock, DeleteRows, RefuseDeletion, RemoveFiles,
                  RemoveAnyLock, Store
    <2>3. TypeOK'
      <3>1. uploads' \subseteq stored' \ rows' /\ stored' \subseteq Files /\ rows' \subseteq Files
        BY <2>1, <2>2 DEF StoreInv, TypeOK, FilesFit
      <3>2. deletion' \in [Deletions -> DeletionRow]
        BY <2>1 DEF StoreInv, TypeOK, DeletionRow
      <3>3. lock' \in LockRow
        <4>1. lock \in LockRow /\ NoLock \in LockRow
          BY DEF StoreInv, TypeOK, LockRow, NoLock
        <4> QED
          BY <2>2, <4>1
      <3>4. early' \subseteq Backups \X Files
        <4>1. early \subseteq Backups \X Files
          BY DEF StoreInv, TypeOK
        <4>2. deletion[q].unseen \subseteq Backups /\ deletion[q].files \subseteq Files
          BY DEF StoreInv, TypeOK
        <4> QED
          BY <2>2, <4>1, <4>2
      <3>5. robbed' \in BOOLEAN
        BY <2>2 DEF StoreInv, TypeOK
      <3> QED
        BY <1>1, <2>2, <3>1, <3>2, <3>3, <3>4, <3>5 DEF StoreInv, TypeOK, DeletionRow, LockRow
    <2>4. FilesFit'
      BY <2>1, <2>2 DEF StoreInv, TypeOK, FilesFit
    <2> QED
      BY <1>2, <2>3, <2>4 DEF StoreInv
  <1> QED
    BY <1>3, <1>4, <1>5

LEMMA StoreStepFits == StoreInv /\ [Next]_vars => StoreInv'
  <1> SUFFICES ASSUME StoreInv, [Next]_vars PROVE StoreInv'
    OBVIOUS
  <1>1. ASSUME NEW b \in Backups, Backup(b), ~CleanupExpired(b), ~RestoreDatabase(b) PROVE StoreInv'
    BY <1>1, BackupRowSteps, BackupLockSteps, RowStepFits
  <1>2. CASE UNCHANGED vars
    BY <1>2 DEF vars, StoreInv, TypeOK, FilesFit, ArchivesFit, AnArchiveRemains
  <1> QED
    BY <1>1, <1>2, CleanupFits, StoreStepsFit DEF Next

\* Uploads, deletions and restorations leave every row with its file, and the one archive that a
\* success has left is not removed before there is another; for every number of backups.
THEOREM StoreInvariant == Spec => []StoreInv
  BY StoreStarts, StoreStepFits, PTL DEF Spec

\* Whatever crashes, expires and overlaps: once a backup has succeeded, an archive is there.
THEOREM AnArchiveStays == Spec => []AnArchiveRemains
  <1>1. StoreInv => AnArchiveRemains
    BY DEF StoreInv, ArchivesFit
  <1> QED
    BY <1>1, StoreInvariant, PTL

-------------------------------------------------------------------------------
(* The lock keeps the others away                                            *)

\* A backup that has its lock, until it gives it back
Busy(b) == backup[b].step \in Working \cup {"release"}

HoldsLock(b) ==
  lock.there /\ IF At(b, "owner") THEN lock.owner = Nothing /\ ~lock.old ELSE lock.owner = b

OneHolder == \A b, d \in Backups : Busy(b) /\ Busy(d) => b = d

HoldersHaveLock == \A b \in Backups : Busy(b) => HoldsLock(b)

\* A backup that is at work during a deletion, or will be, made its lock after the deletion looked.
UnseenOrOver ==
  \A q \in Deletions : deletion[q].step # "idle" =>
    \A b \in Backups : b \in deletion[q].unseen \/ backup[b].step \in {"over", "dead"}

\* As long as no takeover has removed a renewed lock, one backup has the lock.
LockInv == robbed \/ (OneHolder /\ HoldersHaveLock /\ UnseenOrOver)

Moves(b, s) == \A d \in Backups : backup'[d].step = IF d = b THEN s ELSE backup[d].step

\* A lock that a living backup has is not stale.
LEMMA BusyIsNotStale ==
  ASSUME StoreInv, HoldersHaveLock, NEW b \in Backups, Busy(b) PROVE lock.there /\ ~Stale
  BY BackupAssumption DEF HoldersHaveLock, HoldsLock, Busy, Stale, Alive, Working, At

LEMMA LockStarts == Init => LockInv
  BY NewFits DEF Init, LockInv, OneHolder, HoldersHaveLock, UnseenOrOver, Busy, At, Working, NoLock

\* A backup moves and leaves the lock as it is, and does not go from or to having it.
LEMMA MoveKeepsLock ==
  ASSUME StoreInv, LockInv, NEW b \in Backups, NEW s,
         s \in Working \cup {"release"} => Busy(b) /\ ~At(b, "owner") /\ s # "owner",
         backup[b].step \in {"over", "dead"} => s \in {"over", "dead"},
         Moves(b, s), lock' = lock, deletion' = deletion, robbed' = robbed
  PROVE  LockInv'
  <1> SUFFICES ASSUME ~robbed, OneHolder, HoldersHaveLock, UnseenOrOver
               PROVE  OneHolder' /\ HoldersHaveLock' /\ UnseenOrOver'
    BY DEF LockInv
  <1>1. \A d \in Backups : Busy(d)' => Busy(d) /\ HoldsLock(d)' = HoldsLock(d)
    BY DEF Moves, Busy, HoldsLock, At
  <1>2. \A d \in Backups : backup[d].step \in {"over", "dead"} => backup'[d].step \in {"over", "dead"}
    BY DEF Moves
  <1> QED
    BY <1>1, <1>2 DEF OneHolder, HoldersHaveLock, UnseenOrOver

\* Nobody has the lock any more, or only the backup that has just made it.
LEMMA LockChangesHands ==
  ASSUME StoreInv, LockInv, ~robbed, NEW b \in Backups, NEW s \in {"owner", "mkdir", "over"},
         \A d \in Backups : Busy(d) => d = b,
         backup[b].step \in {"over", "dead"} => s \in {"over", "dead"},
         s = "owner" => lock'.there /\ lock'.owner = Nothing /\ ~lock'.old,
         Moves(b, s), deletion' = deletion
  PROVE  LockInv'
  <1>1. \A d \in Backups : Busy(d)' => d = b /\ s = "owner"
    BY DEF Moves, Busy, Working
  <1>2. \A d \in Backups : backup[d].step \in {"over", "dead"} => backup'[d].step \in {"over", "dead"}
    BY DEF Moves
  <1>3. s = "owner" => HoldsLock(b)'
    BY DEF HoldsLock, At, Moves
  <1> QED
    BY <1>1, <1>2, <1>3 DEF LockInv, OneHolder, HoldersHaveLock, UnseenOrOver

LEMMA BackupKeepsLock ==
  ASSUME StoreInv, LockInv, NEW b \in Backups, Backup(b)
  PROVE  LockInv'
  <1> USE DEF At, Goto
  <1>0. backup \in [Backups -> BackupRow] /\ lock \in LockRow
    BY DEF StoreInv, TypeOK, BackupRow, LockRow
  <1>1. CASE \/ CreateRun(b) \/ DumpDatabase(b) \/ BuildManifest(b) \/ WriteArchive(b)
             \/ PublishArchive(b) \/ SaveSuccess(b) \/ FailBackup(b)
    <2>1. /\ backup'[b].step \in (Working \ {"owner"}) \cup {"release"}
          /\ \A d \in Backups : d # b => backup'[d] = backup[d]
      BY <1>0, <1>1 DEF CreateRun, DumpDatabase, BuildManifest, WriteArchive, PublishArchive, SaveSuccess,
                  FailBackup, Working, BackupRow
    <2>2. /\ backup[b].step \in Working \ {"owner"}
          /\ lock' = lock /\ deletion' = deletion /\ robbed' = robbed
      BY <1>1 DEF CreateRun, DumpDatabase, BuildManifest, WriteArchive, PublishArchive, SaveSuccess,
                  FailBackup, Working, Others
    <2>3. PICK s : s = backup'[b].step
      OBVIOUS
    <2>4. Moves(b, s)
      BY <2>1, <2>3 DEF Moves
    <2>5. Busy(b) /\ backup[b].step \notin {"over", "dead"}
      BY <2>2 DEF Busy, Working
    <2> QED
      BY <2>1, <2>2, <2>3, <2>4, <2>5, MoveKeepsLock DEF Working
  <1>2. CASE CleanupExpired(b)
    <2>1. /\ Moves(b, "release") /\ backup[b].step = "cleanup"
          /\ lock' = lock /\ deletion' = deletion /\ robbed' = robbed
      BY <1>0, <1>2 DEF CleanupExpired, Moves, BackupRow, Others
    <2> QED
      BY <2>1, MoveKeepsLock DEF Busy, Working
  <1>3. CASE \/ FailEarly(b) \/ Die(b) \/ StartBackup(b) \/ Refuse(b) \/ FindStale(b)
    <2>1. PICK s \in {"over", "dead", "acquire", "takeover"} :
            /\ Moves(b, s) /\ backup[b].step \notin {"over", "dead"}
            /\ lock' = lock /\ deletion' = deletion /\ robbed' = robbed
      BY <1>0, <1>3 DEF FailEarly, Die, StartBackup, Refuse, FindStale, Moves, Working, BackupRow, Others
    <2> QED
      BY <2>1, MoveKeepsLock DEF Working
  <1>4. CASE Expire(b) \/ RestoreDatabase(b)
    <2>1. /\ \A d \in Backups : backup'[d].step = backup[d].step
          /\ lock' = lock /\ deletion' = deletion /\ robbed' = robbed
      BY <1>0, <1>4 DEF Expire, RestoreDatabase, BackupRow, Others
    <2> QED
      BY <2>1 DEF LockInv, OneHolder, HoldersHaveLock, UnseenOrOver, Busy, HoldsLock
  <1>5. CASE MakeLock(b)
    <2>1. /\ Moves(b, "owner") /\ backup[b].step \in Starting /\ ~lock.there
          /\ lock'.there /\ lock'.owner = Nothing /\ ~lock'.old /\ deletion' = deletion /\ robbed' = robbed
      BY <1>0, <1>5 DEF MakeLock, Moves, Starting, BackupRow, Others, NoLock
    <2>2. CASE ~robbed
      <3>1. \A d \in Backups : ~Busy(d)
        BY <2>1, <2>2 DEF LockInv, HoldersHaveLock, HoldsLock
      <3> QED
        BY <2>1, <2>2, <3>1, LockChangesHands DEF Starting
    <2> QED
      BY <2>1, <2>2 DEF LockInv
  <1>6. CASE RemoveStaleLock(b)
    <2>1. /\ Moves(b, "mkdir") /\ backup[b].step = "takeover" /\ deletion' = deletion
          /\ robbed' = (robbed \/ (lock.there /\ ~Stale))
      BY <1>0, <1>6 DEF RemoveStaleLock, RemoveAnyLock, Moves, BackupRow
    <2>2. CASE ~robbed'
      <3>1. ~robbed /\ \A d \in Backups : ~Busy(d)
        BY <2>1, <2>2, BusyIsNotStale DEF LockInv
      <3> QED
        BY <2>1, <3>1, LockChangesHands
    <2> QED
      BY <2>2 DEF LockInv
  <1>7. CASE WriteOwner(b)
    <2>1. /\ Moves(b, "create") /\ backup[b].step = "owner" /\ lock' = [lock EXCEPT !.owner = b]
          /\ lock.there /\ deletion' = deletion /\ robbed' = robbed
      BY <1>0, <1>7 DEF WriteOwner, Moves, BackupRow, Others
    <2> SUFFICES ASSUME ~robbed, OneHolder, HoldersHaveLock, UnseenOrOver
                 PROVE  OneHolder' /\ HoldersHaveLock' /\ UnseenOrOver'
      BY <2>1 DEF LockInv
    <2>2. Busy(b) /\ lock'.there /\ lock'.owner = b
      BY <1>0, <2>1 DEF Busy, Working, LockRow
    <2>3. \A d \in Backups : Busy(d)' => d = b
      BY <2>1, <2>2 DEF Busy, Moves, Working, OneHolder
    <2>4. HoldsLock(b)' /\ \A d \in Backups : backup[d].step \in {"over", "dead"} => backup'[d].step \in {"over", "dead"}
      BY <2>1, <2>2 DEF HoldsLock, Moves
    <2> QED
      BY <2>1, <2>3, <2>4 DEF OneHolder, HoldersHaveLock, UnseenOrOver
  <1>8. CASE ReleaseLock(b)
    <2>1. /\ Moves(b, "over") /\ backup[b].step = "release" /\ deletion' = deletion /\ robbed' = robbed
      BY <1>0, <1>8 DEF ReleaseLock, Moves, BackupRow, Others
    <2>2. CASE ~robbed
      <3>1. \A d \in Backups : Busy(d) => d = b
        BY <2>1, <2>2 DEF LockInv, OneHolder, Busy
      <3> QED
        BY <2>1, <2>2, <3>1, LockChangesHands
    <2> QED
      BY <2>1, <2>2 DEF LockInv
  <1> QED
    BY <1>1, <1>2, <1>3, <1>4, <1>5, <1>6, <1>7, <1>8 DEF Backup

\* A permanent deletion that finds no fresh lock finds nobody at work.
LEMMA DeletionKeepsLock ==
  ASSUME StoreInv, LockInv, NEW q \in Deletions, PermanentDeletion(q)
  PROVE  LockInv'
  <1>1. /\ backup' = backup
        /\ \A p \in Deletions : p # q => deletion'[p] = deletion[p]
        /\ robbed => robbed'
    BY DEF PermanentDeletion, LookForBackup, ClearStaleLock, DeleteRows, RefuseDeletion, RemoveFiles,
           RemoveAnyLock, Deleting, StoreInv, TypeOK
  <1> SUFFICES ASSUME ~robbed', ~robbed, OneHolder, HoldersHaveLock, UnseenOrOver
               PROVE  OneHolder' /\ HoldersHaveLock' /\ UnseenOrOver'
    BY <1>1 DEF LockInv
  <1>2. OneHolder'
    BY <1>1 DEF OneHolder, Busy
  <1>3. CASE LookForBackup(q)
    <2>1. lock' = lock /\ (~lock.there \/ Stale) /\ deletion'[q].unseen = WithoutLock
      BY <1>3 DEF LookForBackup, Deleting, StoreInv, TypeOK
    <2>2. \A b \in Backups : ~Busy(b)
      BY <2>1, BusyIsNotStale
    <2>3. \A b \in Backups : b \in WithoutLock \/ backup[b].step \in {"over", "dead"}
      BY <2>2 DEF WithoutLock, Busy, StoreInv, TypeOK, Steps
    <2> QED
      BY <1>1, <1>2, <2>1, <2>2, <2>3 DEF HoldersHaveLock, UnseenOrOver, Busy
  <1>4. CASE ClearStaleLock(q)
    <2>1. /\ deletion[q].step = "clear" /\ deletion'[q].unseen = deletion[q].unseen
          /\ ~lock.there \/ Stale
      BY <1>4 DEF ClearStaleLock, RemoveAnyLock, Deleting, StoreInv, TypeOK
    <2>2. \A b \in Backups : ~Busy(b)
      BY <2>1, BusyIsNotStale
    <2> QED
      BY <1>1, <1>2, <2>1, <2>2 DEF HoldersHaveLock, UnseenOrOver, Busy
  <1>5. CASE DeleteRows(q) \/ RefuseDeletion(q) \/ RemoveFiles(q)
    <2>1. /\ lock' = lock /\ deletion[q].step # "idle"
          /\ deletion'[q].step = "idle" \/ deletion'[q].unseen = deletion[q].unseen
      BY <1>5 DEF DeleteRows, RefuseDeletion, RemoveFiles, Deleting, StoreInv, TypeOK
    <2> QED
      BY <1>1, <1>2, <2>1 DEF HoldersHaveLock, HoldsLock, At, UnseenOrOver, Busy
  <1> QED
    BY <1>3, <1>4, <1>5 DEF PermanentDeletion

\* Time passes for locks with an owner.
LEMMA OthersKeepLock ==
  ASSUME StoreInv, LockInv,
         \/ StoreFile \/ CommitUpload \/ AbortUpload \/ LockAges \/ RestoreFiles \/ RestoreFails
  PROVE  LockInv'
  <1>0. lock \in LockRow
    BY DEF StoreInv, TypeOK, LockRow
  <1>1. CASE StoreFile \/ CommitUpload \/ AbortUpload \/ RestoreFiles \/ RestoreFails
    <2>1. UNCHANGED <<backup, lock, deletion, robbed>>
      BY <1>1 DEF StoreFile, CommitUpload, AbortUpload, RestoreFiles, RestoreFails
    <2> QED
      BY <2>1 DEF LockInv, OneHolder, HoldersHaveLock, UnseenOrOver, Busy, HoldsLock, At
  <1>2. CASE LockAges
    <2>1. /\ UNCHANGED <<backup, deletion, robbed>> /\ lock'.there = lock.there /\ lock'.owner = lock.owner
          /\ \A b \in Backups : backup[b].step # "owner"
      BY <1>0, <1>2 DEF LockAges, Others, LockRow
    <2> QED
      BY <2>1 DEF LockInv, OneHolder, HoldersHaveLock, UnseenOrOver, Busy, HoldsLock, At
  <1> QED
    BY <1>1, <1>2

LEMMA LockStepFits == ASSUME StoreInv, LockInv, [Next]_vars PROVE LockInv'
  <1>1. CASE UNCHANGED vars
    BY <1>1 DEF vars, LockInv, OneHolder, HoldersHaveLock, UnseenOrOver, Busy, HoldsLock, At
  <1> QED
    BY <1>1, BackupKeepsLock, DeletionKeepsLock, OthersKeepLock DEF Next

-------------------------------------------------------------------------------
(* What a backup has dumped is in its archive, unless an early deletion has  *)
(* removed it                                                                *)

\* The files F are there for the dump of b, but for those of an early deletion.
HasDump(b, F) == \A f \in backup[b].dump : f \in F \/ <<b, f>> \in early

DumpFits(b) ==
  LET r == backup[b] IN
  /\ r.step \in {"new", "owner", "create", "dump", "manifest", "archive"} \cup Starting => r.status # "success"
  /\ r.dump \cap uploads = {}
  /\ r.step \in {"manifest", "archive"} => HasDump(b, stored)
  /\ r.step \in {"verify", "save", "cleanup"} \/ r.status = "success" => HasDump(b, r.files)

RestoredFits ==
  \A f \in restored.rows : f \in restored.files \/ \E b \in Backups : <<b, f>> \in early

DumpInv == robbed \/ (RestoredFits /\ \A b \in Backups : DumpFits(b))

LEMMA DumpStarts == Init => DumpInv
  <1> SUFFICES ASSUME Init PROVE DumpInv
    OBVIOUS
  <1>1. \A b \in Backups : backup[b] = NewBackup /\ NewBackup.dump = {}
    BY DEF Init, NewBackup
  <1> QED
    BY <1>1, NewFits DEF Init, DumpInv, DumpFits, HasDump, RestoredFits, Starting

\* A backup that goes on in step and status, with the dump and the archive it has
LEMMA SameDump ==
  ASSUME NEW b \in Backups, DumpFits(b), early \subseteq early', stored' = stored, uploads' = uploads,
         backup'[b].dump = backup[b].dump, backup'[b].files = backup[b].files,
         backup'[b].step \in {"over", "dead", "release"} \/ backup'[b].step = backup[b].step
           \/ (backup[b].step \in {"new", "owner", "create", "dump"} \cup Starting /\
               backup'[b].step \in {"owner", "create", "dump"} \cup Starting)
           \/ (backup[b].step = "manifest" /\ backup'[b].step = "archive")
           \/ (backup[b].step \in {"verify", "save", "cleanup"} /\
               backup'[b].step \in {"verify", "save", "cleanup"}),
         backup'[b].status = "success" =>
           backup[b].status = "success" \/ backup[b].step \in {"verify", "save", "cleanup"}
  PROVE  DumpFits(b)'
  BY DEF DumpFits, HasDump, Starting

LEMMA BackupKeepsDumps ==
  ASSUME StoreInv, DumpInv, NEW b \in Backups, Backup(b) PROVE DumpInv'
  <1> USE DEF At, Goto, Working, Starting
  <1>0. /\ backup \in [Backups -> BackupRow] /\ rows \subseteq stored /\ rows \cap uploads = {}
    BY DEF StoreInv, TypeOK, BackupRow, FilesFit
  <1>1. robbed => robbed'
    BY DEF Backup, StartBackup, MakeLock, Refuse, FindStale, RemoveStaleLock, RemoveAnyLock, WriteOwner,
           CreateRun, DumpDatabase, BuildManifest, WriteArchive, PublishArchive, SaveSuccess, CleanupExpired,
           FailBackup, ReleaseLock, FailEarly, Die, Expire, RestoreDatabase, Others
  <1>2. UNCHANGED <<stored, uploads, early>>
    BY DEF Backup, StartBackup, MakeLock, Refuse, FindStale, RemoveStaleLock, WriteOwner, CreateRun,
           DumpDatabase, BuildManifest, WriteArchive, PublishArchive, SaveSuccess, CleanupExpired,
           FailBackup, ReleaseLock, FailEarly, Die, Expire, RestoreDatabase, Store
  <1> SUFFICES ASSUME ~robbed, RestoredFits, \A d \in Backups : DumpFits(d)
               PROVE  RestoredFits' /\ \A d \in Backups : DumpFits(d)'
    BY <1>1 DEF DumpInv
  <1>3. ASSUME NEW d \in Backups, d # b PROVE DumpFits(d)'
    <2>1. /\ backup'[d].step = backup[d].step /\ backup'[d].status = backup[d].status
          /\ backup'[d].dump = backup[d].dump /\ backup'[d].files = backup[d].files
      <3>1. CASE CleanupExpired(b)
        <4>1. backup'[d] = [backup[d] EXCEPT !.kept = @ /\ d \notin Expired]
          BY <1>3, <3>1 DEF CleanupExpired
        <4>2. backup[d] \in BackupRow
          BY <1>0
        <4> QED
          BY <4>1, <4>2 DEF BackupRow
      <3>2. CASE ~CleanupExpired(b)
        <4>1. backup'[d] = backup[d]
          BY <1>0, <1>3, <3>2 DEF Backup, StartBackup, MakeLock, Refuse, FindStale, RemoveStaleLock,
               WriteOwner, CreateRun, DumpDatabase, BuildManifest, WriteArchive, PublishArchive, SaveSuccess,
               FailBackup, ReleaseLock, FailEarly, Die, Expire, RestoreDatabase
        <4> QED
          BY <4>1
      <3> QED
        BY <3>1, <3>2
    <2> QED
      BY <1>2, <2>1, SameDump
  <1>4. DumpFits(b)'
    <2>0. DumpFits(b)
      OBVIOUS
    <2>1. CASE \/ StartBackup(b) \/ MakeLock(b) \/ FindStale(b) \/ RemoveStaleLock(b) \/ WriteOwner(b)
               \/ CreateRun(b)
      BY <1>0, <1>2, <2>0, <2>1, SameDump DEF BackupRow, StartBackup, MakeLock, FindStale, RemoveStaleLock,
         WriteOwner, CreateRun
    <2>2. CASE Refuse(b) \/ FailBackup(b) \/ ReleaseLock(b) \/ FailEarly(b) \/ Die(b) \/ Expire(b)
      BY <1>0, <1>2, <2>0, <2>2, SameDump DEF BackupRow, Refuse, FailBackup, ReleaseLock, FailEarly, Die, Expire
    <2>3. CASE DumpDatabase(b)
      <3>1. backup'[b].dump = rows /\ backup'[b].step = "manifest" /\ backup'[b].status = backup[b].status
        BY <1>0, <2>3 DEF DumpDatabase, BackupRow
      <3>2. backup[b].status # "success"
        BY <2>0, <2>3 DEF DumpFits, DumpDatabase
      <3> QED
        BY <1>0, <1>2, <3>1, <3>2 DEF DumpFits, HasDump
    <2>4. CASE BuildManifest(b)
      BY <1>0, <1>2, <2>0, <2>4, SameDump DEF BackupRow, BuildManifest
    <2>5. CASE WriteArchive(b)
      <3>1. /\ backup'[b].dump = backup[b].dump /\ backup'[b].step = "verify" /\ backup'[b].files = stored
            /\ backup[b].step = "archive"
        BY <1>0, <2>5 DEF WriteArchive, BackupRow
      <3> QED
        BY <1>2, <2>0, <3>1 DEF DumpFits, HasDump
    <2>6. CASE PublishArchive(b) \/ SaveSuccess(b)
      BY <1>0, <1>2, <2>0, <2>6, SameDump DEF BackupRow, PublishArchive, SaveSuccess
    <2>7. CASE CleanupExpired(b)
      <3>1. backup'[b] = [backup[b] EXCEPT !.step = "release"] /\ backup[b].step = "cleanup"
        BY <2>7 DEF CleanupExpired
      <3> QED
        BY <1>0, <1>2, <2>0, <3>1, SameDump DEF BackupRow
    <2>8. CASE RestoreDatabase(b)
      BY <1>2, <2>0, <2>8, SameDump DEF RestoreDatabase
    <2> QED
      BY <2>1, <2>2, <2>3, <2>4, <2>5, <2>6, <2>7, <2>8 DEF Backup
  <1>5. RestoredFits'
    <2>1. CASE RestoreDatabase(b)
      <3>1. restored'.rows = backup[b].dump /\ restored'.files = backup[b].files /\ backup[b].status = "success"
        BY <2>1 DEF RestoreDatabase
      <3>2. HasDump(b, backup[b].files)
        BY <3>1 DEF DumpFits
      <3> QED
        BY <1>2, <3>1, <3>2 DEF RestoredFits, HasDump
    <2>2. CASE ~RestoreDatabase(b)
      <3>1. restored' = restored
        BY <2>2 DEF Backup, StartBackup, MakeLock, Refuse, FindStale, RemoveStaleLock, WriteOwner, CreateRun,
               DumpDatabase, BuildManifest, WriteArchive, PublishArchive, SaveSuccess, CleanupExpired, FailBackup,
               ReleaseLock, FailEarly, Die, Expire, Others
      <3> QED
        BY <1>2, <3>1 DEF RestoredFits
    <2> QED
      BY <2>1, <2>2
  <1> QED
    BY <1>3, <1>4, <1>5

\* A file that a backup has dumped goes away only by a deletion that looked too early.
LEMMA DeletionKeepsDumps ==
  ASSUME StoreInv, LockInv, DumpInv, NEW q \in Deletions, PermanentDeletion(q)
  PROVE  DumpInv'
  <1>0. robbed => robbed'
    BY DEF PermanentDeletion, LookForBackup, ClearStaleLock, RemoveAnyLock, DeleteRows, RefuseDeletion,
           RemoveFiles
  <1>1. UNCHANGED <<backup, uploads, restored>> /\ early \subseteq early'
    BY DEF PermanentDeletion, LookForBackup, ClearStaleLock, DeleteRows, RefuseDeletion, RemoveFiles, Store
  <1> SUFFICES ASSUME ~robbed, UnseenOrOver, RestoredFits, \A b \in Backups : DumpFits(b)
               PROVE  RestoredFits' /\ \A b \in Backups : DumpFits(b)'
    BY <1>0 DEF DumpInv, LockInv
  <1>2. RestoredFits'
    BY <1>1 DEF RestoredFits
  <1>3. CASE RemoveFiles(q)
    <2> SUFFICES ASSUME NEW b \in Backups PROVE DumpFits(b)'
      BY <1>2
    <2>1. b \in deletion[q].unseen \/ backup[b].step \in {"over", "dead"}
      BY <1>3 DEF RemoveFiles, UnseenOrOver
    <2>2. /\ stored' = stored \ deletion[q].files
          /\ early' = early \cup {p \in deletion[q].unseen \X deletion[q].files : p[2] \in backup[p[1]].dump}
      BY <1>3 DEF RemoveFiles
    <2>3. ASSUME b \in deletion[q].unseen, HasDump(b, stored) PROVE HasDump(b, stored)'
      BY <1>1, <2>2, <2>3 DEF HasDump
    <2> QED
      BY <1>1, <2>1, <2>3 DEF DumpFits, HasDump
  <1>4. CASE ~RemoveFiles(q)
    <2>1. stored' = stored
      BY <1>4 DEF PermanentDeletion, LookForBackup, ClearStaleLock, DeleteRows, RefuseDeletion, Store
    <2> QED
      BY <1>1, <1>2, <2>1, SameDump
  <1> QED
    BY <1>3, <1>4

LEMMA OthersKeepDumps ==
  ASSUME StoreInv, DumpInv,
         \/ StoreFile \/ CommitUpload \/ AbortUpload \/ LockAges \/ RestoreFiles \/ RestoreFails
  PROVE  DumpInv'
  <1>1. UNCHANGED <<backup, early, robbed>> /\ restored'.rows = restored.rows /\ restored'.files = restored.files
    BY DEF StoreFile, CommitUpload, AbortUpload, LockAges, RestoreFiles, RestoreFails, Store, Others,
           StoreInv, TypeOK
  <1>2. RestoredFits => RestoredFits'
    BY <1>1 DEF RestoredFits
  <1>3. ASSUME NEW b \in Backups, DumpFits(b) PROVE DumpFits(b)'
    <2>1. \A f \in backup[b].dump : (f \in stored => f \in stored') /\ f \notin uploads'
      BY <1>3 DEF StoreFile, CommitUpload, AbortUpload, LockAges, RestoreFiles, RestoreFails, Store, DumpFits
    <2> QED
      BY <1>1, <1>3, <2>1 DEF DumpFits, HasDump
  <1> QED
    BY <1>1, <1>2, <1>3 DEF DumpInv

BackupInv == StoreInv /\ LockInv /\ DumpInv

LEMMA BackupStepFits == ASSUME BackupInv, [Next]_vars PROVE BackupInv'
  <1>1. DumpInv'
    <2>1. CASE UNCHANGED vars
      BY <2>1 DEF vars, BackupInv, DumpInv, DumpFits, HasDump, RestoredFits
    <2> QED
      BY <2>1, BackupKeepsDumps, DeletionKeepsDumps, OthersKeepDumps DEF BackupInv, Next
  <1> QED
    BY <1>1, StoreStepFits, LockStepFits DEF BackupInv

\* The invariant, for every number of backups, deletions and deaths: as long as no takeover has
\* removed a renewed lock, one backup has the lock, every deletion that is in flight looked before
\* that one made it, and what is dumped is there or was removed by such a deletion.
THEOREM BackupInvariant == Spec => []BackupInv
  <1>1. Init => BackupInv
    BY StoreStarts, LockStarts, DumpStarts DEF BackupInv
  <1> QED
    BY <1>1, BackupStepFits, PTL DEF Spec

\* "已有系统备份任务正在执行": never two backups at work, across crashes and takeovers, until a
\* takeover has removed a renewed lock.
THEOREM OneBackupAtATime == Spec => []AtMostOneBackup
  <1>1. BackupInv => AtMostOneBackup
    BY DEF BackupInv, LockInv, OneHolder, Busy, AtMostOneBackup, AtWork
  <1> QED
    BY <1>1, BackupInvariant, PTL

\* A successful backup, and what is restored from it, has every file that its database names, but
\* for those that a deletion has removed which had looked before the backup made its lock.
THEOREM BackupsStayComplete == Spec => []BackupsAreComplete
  <1>1. BackupInv => BackupsAreComplete
    BY DEF BackupInv, DumpInv, DumpFits, HasDump, RestoredFits, BackupsAreComplete
  <1> QED
    BY <1>1, BackupInvariant, PTL
===============================================================================
