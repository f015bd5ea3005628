------------------------------- MODULE Backups -------------------------------
(***************************************************************************)
(* System backups (apps/system/services): the lock directory and its        *)
(* takeover, the steps of a backup, the removal of expired archives, the    *)
(* permanent deletion of documents and projects that has to wait for a      *)
(* backup, uploads that do not, and the restoration of an archive           *)
(* (restore_system_backup) into an empty system.                            *)
(*                                                                          *)
(* A document is one file: its row in the database names it.                *)
(***************************************************************************)
EXTENDS Naturals, FiniteSets

CONSTANTS
  Backups,     \* runs of create_system_backup, each a process of its own
  Deletions,   \* permanent deletions that may be in flight at the same time
  Files,       \* storage paths; one that nobody refers to is drawn again
  MaxCrashes,  \* bound: how many backups die
  Nothing

ASSUME BackupAssumption ==
  MaxCrashes \in Nat /\ Nothing \notin Backups

VARIABLES
  rows,      \* the files that version rows name
  stored,    \* the files below FILE_STORAGE_ROOT
  uploads,   \* stored files whose rows are not committed yet
  deletion,  \* per permanent deletion: its step, the files it has to remove, and the
             \* backups that had no lock yet when it looked for one
  lock,      \* .backup.lock: there, its owner.json, older than six hours
  backup,    \* per backup: step, status of its row, dump, manifest, archive
  restored,  \* the system that archives are restored into
  early,     \* history: per backup, the dumped files that a deletion has removed which
             \* had looked before that backup made its lock
  robbed     \* history: a takeover has removed a newer lock than the stale one it found

vars == <<rows, stored, uploads, deletion, lock, backup, restored, early, robbed>>

-------------------------------------------------------------------------------
(* Types *)

NoLock == [there |-> FALSE, owner |-> Nothing, old |-> FALSE]

\* The steps of create_system_backup.  Before "owner" it has no lock yet.
Starting == {"acquire", "takeover", "mkdir"}
Working  == {"owner", "create", "dump", "manifest", "archive", "verify", "save", "cleanup"}
Steps    == {"new"} \cup Starting \cup Working \cup {"release", "over", "dead"}

\* kept: the archive is in the backup directory; expired: older than the retention.
NewBackup == [step |-> "new", status |-> "none", dump |-> {}, manifest |-> {}, files |-> {},
              kept |-> FALSE, expired |-> FALSE]

TypeOK ==
  /\ uploads \subseteq stored \ rows /\ stored \subseteq Files /\ rows \subseteq Files
  /\ deletion \in [Deletions -> [step : {"idle", "clear", "delete", "remove"}, files : SUBSET Files,
                                 unseen : SUBSET Backups]]
  /\ lock \in [there : BOOLEAN, owner : Backups \cup {Nothing}, old : BOOLEAN]
  /\ backup \in [Backups -> [step : Steps, status : {"none", "running", "success", "failure"},
                             dump : SUBSET Files, manifest : SUBSET Files, files : SUBSET Files,
                             kept : BOOLEAN, expired : BOOLEAN]]
  /\ restored \in [step : {"empty", "database", "done", "broken"}, rows : SUBSET Files, files : SUBSET Files]
  /\ early \subseteq Backups \X Files /\ robbed \in BOOLEAN

Init ==
  /\ rows = {} /\ stored = {} /\ uploads = {}
  /\ deletion = [q \in Deletions |-> [step |-> "idle", files |-> {}, unseen |-> {}]]
  /\ lock = NoLock
  /\ backup = [b \in Backups |-> NewBackup]
  /\ restored = [step |-> "empty", rows |-> {}, files |-> {}]
  /\ early = {} /\ robbed = FALSE

Store  == <<rows, stored, uploads, early>>
Others == <<deletion, restored, robbed>>

-------------------------------------------------------------------------------
(* Uploads: the file, then the row, or the file again removed                *)

StoreFile ==
  /\ \E f \in Files :
       /\ f \notin stored \cup rows /\ \A q \in Deletions : f \notin deletion[q].files
       /\ \A b \in Backups : f \notin backup[b].dump \cup backup[b].manifest \cup backup[b].files
       /\ f \notin restored.rows
       /\ stored' = stored \cup {f} /\ uploads' = uploads \cup {f}
  /\ UNCHANGED <<rows, lock, backup, deletion, restored, early, robbed>>

CommitUpload ==
  /\ \E f \in uploads : rows' = rows \cup {f} /\ uploads' = uploads \ {f}
  /\ UNCHANGED <<stored, lock, backup, deletion, restored, early, robbed>>

AbortUpload ==
  /\ \E f \in uploads : stored' = stored \ {f} /\ uploads' = uploads \ {f}
  /\ UNCHANGED <<rows, lock, backup, deletion, restored, early, robbed>>

-------------------------------------------------------------------------------
(* The lock                                                                  *)

Alive(b) == backup[b].step \notin {"new", "over", "dead"}

\* Not the code: age alone makes a lock stale.
StaleByAge == lock.there /\ lock.old

\* Not the code: a lock without owner.json is never stale.
StaleOwnedOnly == lock.there /\ lock.old /\ lock.owner # Nothing /\ ~Alive(lock.owner)

\* _backup_lock_is_stale: old, and no living process wrote owner.json
Stale == lock.there /\ lock.old /\ (lock.owner # Nothing => ~Alive(lock.owner))

\* Six hours pass.  No backup waits that long between mkdir and owner.json.
LockAges ==
  /\ lock.there /\ ~lock.old
  /\ \A b \in Backups : backup[b].step # "owner"
  /\ lock' = [lock EXCEPT !.old = TRUE]
  /\ UNCHANGED <<Store, Others, backup>>

At(b, step) == backup[b].step = step
Goto(b, step) == backup' = [backup EXCEPT ![b].step = step]

StartBackup(b) ==
  /\ At(b, "new")
  /\ Goto(b, "acquire")
  /\ UNCHANGED <<Store, Others, lock>>

\* _acquire_backup_lock, mkdir
MakeLock(b) ==
  /\ backup[b].step \in {"acquire", "mkdir"} /\ ~lock.there
  /\ lock' = [NoLock EXCEPT !.there = TRUE]
  /\ Goto(b, "owner")
  /\ UNCHANGED <<Store, Others>>

\* BackupAlreadyRunning, with a failed row to show for it
Refuse(b) ==
  /\ \/ At(b, "acquire") /\ lock.there /\ ~Stale
     \/ At(b, "mkdir") /\ lock.there
  /\ backup' = [backup EXCEPT ![b].step = "over", ![b].status = "failure"]
  /\ UNCHANGED <<Store, Others, lock>>

FindStale(b) ==
  /\ At(b, "acquire") /\ Stale
  /\ Goto(b, "takeover")
  /\ UNCHANGED <<Store, Others, lock>>

\* rmtree of whatever lock is there now: another takeover may have been faster, and
\* the lock is one that its backup has just made.
RemoveAnyLock == lock' = NoLock /\ robbed' = (robbed \/ (lock.there /\ ~Stale))

RemoveStaleLock(b) ==
  /\ At(b, "takeover")
  /\ RemoveAnyLock
  /\ Goto(b, "mkdir")
  /\ UNCHANGED <<Store, deletion, restored>>

\* owner.json; without the directory, which another takeover has removed, it fails.
WriteOwner(b) ==
  /\ At(b, "owner") /\ lock.there
  /\ lock' = [lock EXCEPT !.owner = b]
  /\ Goto(b, "create")
  /\ UNCHANGED <<Store, Others>>

-------------------------------------------------------------------------------
(* The backup                                                                *)

CreateRun(b) ==
  /\ At(b, "create")
  /\ backup' = [backup EXCEPT ![b].step = "dump", ![b].status = "running"]
  /\ UNCHANGED <<Store, Others, lock>>

\* mysqldump --single-transaction: the committed rows
DumpDatabase(b) ==
  /\ At(b, "dump")
  /\ backup' = [backup EXCEPT ![b].step = "manifest", ![b].dump = rows]
  /\ UNCHANGED <<Store, Others, lock>>

BuildManifest(b) ==
  /\ At(b, "manifest")
  /\ backup' = [backup EXCEPT ![b].step = "archive", ![b].manifest = stored]
  /\ UNCHANGED <<Store, Others, lock>>

Expired == {d \in Backups : backup[d].status = "success" /\ backup[d].expired}

\* Not the code: expired archives are removed before the new one is verified.
CleanupBeforeVerify(b) ==
  /\ At(b, "archive")
  /\ backup' = [d \in Backups |->
       IF d = b THEN [backup[b] EXCEPT !.step = "verify", !.files = stored]
                ELSE [backup[d] EXCEPT !.kept = @ /\ d \notin Expired]]
  /\ UNCHANGED <<Store, Others, lock>>

WriteArchive(b) ==
  /\ At(b, "archive")
  /\ backup' = [backup EXCEPT ![b].step = "verify", ![b].files = stored]
  /\ UNCHANGED <<Store, Others, lock>>

\* verify_backup_archive, then the archive goes to its place.  A file that has
\* come or gone since the manifest makes the backup fail.
PublishArchive(b) ==
  /\ At(b, "verify") /\ backup[b].files = backup[b].manifest
  /\ backup' = [backup EXCEPT ![b].step = "save", ![b].kept = TRUE]
  /\ UNCHANGED <<Store, Others, lock>>

\* After the copy to the other machine, if one is configured
SaveSuccess(b) ==
  /\ At(b, "save")
  /\ backup' = [backup EXCEPT ![b].step = "cleanup", ![b].status = "success"]
  /\ UNCHANGED <<Store, Others, lock>>

CleanupExpired(b) ==
  /\ At(b, "cleanup")
  /\ backup' = [d \in Backups |->
       IF d = b THEN [backup[b] EXCEPT !.step = "release"]
                ELSE [backup[d] EXCEPT !.kept = @ /\ d \notin Expired]]
  /\ UNCHANGED <<Store, Others, lock>>

\* An exception anywhere, after the row was saved as a success too
FailBackup(b) ==
  /\ backup[b].step \in Working \ {"owner", "create"}
  /\ backup' = [backup EXCEPT ![b].step = "release", ![b].status = "failure"]
  /\ UNCHANGED <<Store, Others, lock>>

\* finally: rmtree of whatever lock is there
ReleaseLock(b) ==
  /\ At(b, "release")
  /\ lock' = NoLock
  /\ Goto(b, "over")
  /\ UNCHANGED <<Store, Others>>

\* An exception before the try block: the lock stays, with or without owner.json.
FailEarly(b) ==
  /\ backup[b].step \in {"owner", "create"}
  /\ Goto(b, "over")
  /\ UNCHANGED <<Store, Others, lock>>

\* The process dies: the lock and a row that says "running" stay.
Die(b) ==
  /\ backup[b].step \in Working
  /\ Cardinality({d \in Backups : At(d, "dead")}) < MaxCrashes
  /\ Goto(b, "dead")
  /\ UNCHANGED <<Store, Others, lock>>

\* The retention of an archive ends, days after its backup did.
Expire(b) ==
  /\ backup[b].step \in {"over", "dead"} /\ backup[b].kept /\ ~backup[b].expired
  /\ \A d \in Backups : backup[d].step \notin Working
  /\ backup' = [backup EXCEPT ![b].expired = TRUE]
  /\ UNCHANGED <<Store, Others, lock>>

-------------------------------------------------------------------------------
(* permanently_delete_document, delete_project                               *)

\* A backup that has no lock yet is not seen by a deletion that looks now.
WithoutLock == {b \in Backups : backup[b].step \in {"new"} \cup Starting}

Deleting(q, step, files, unseen) ==
  deletion' = [deletion EXCEPT ![q] = [step |-> step, files |-> files, unseen |-> unseen]]

\* Not the code: permanent deletions do not ask for a backup.
LookNowhere(q) ==
  /\ deletion[q].step = "idle"
  /\ Deleting(q, "delete", {}, WithoutLock)
  /\ UNCHANGED <<Store, lock, backup, restored, robbed>>

\* ensure_backup_not_running; a fresh lock refuses the request.
LookForBackup(q) ==
  /\ deletion[q].step = "idle"
  /\ \/ ~lock.there /\ Deleting(q, "delete", {}, WithoutLock)
     \/ Stale /\ Deleting(q, "clear", {}, WithoutLock)
  /\ UNCHANGED <<Store, lock, backup, restored, robbed>>

ClearStaleLock(q) ==
  /\ deletion[q].step = "clear"
  /\ RemoveAnyLock
  /\ Deleting(q, "delete", {}, deletion[q].unseen)
  /\ UNCHANGED <<Store, backup, restored>>

DeleteRows(q) ==
  /\ deletion[q].step = "delete"
  /\ \E F \in (SUBSET rows) \ {{}} :
       /\ rows' = rows \ F
       /\ Deleting(q, "remove", F, deletion[q].unseen)
  /\ UNCHANGED <<stored, uploads, lock, backup, restored, early, robbed>>

\* The document is gone, changed, or not in the recycle bin.
RefuseDeletion(q) ==
  /\ deletion[q].step = "delete"
  /\ Deleting(q, "idle", {}, {})
  /\ UNCHANGED <<Store, lock, backup, restored, robbed>>

\* Whether a backup has begun in the meantime is not asked again.
RemoveFiles(q) ==
  LET gone == deletion[q].files IN
  /\ deletion[q].step = "remove"
  /\ stored' = stored \ gone
  /\ early' = early \cup {p \in deletion[q].unseen \X gone : p[2] \in backup[p[1]].dump}
  /\ Deleting(q, "idle", {}, {})
  /\ UNCHANGED <<rows, uploads, lock, backup, restored, robbed>>

-------------------------------------------------------------------------------
(* restore_system_backup: into an empty database and an empty directory      *)

\* _ensure_database_empty, _ensure_directory_empty, _restore_database
RestoreDatabase(b) ==
  /\ backup[b].kept /\ backup[b].status = "success" /\ restored.step = "empty"
  /\ restored' = [step |-> "database", rows |-> backup[b].dump, files |-> backup[b].files]
  /\ UNCHANGED <<Store, lock, backup, deletion, robbed>>

\* The import or the copy fails half-way; the target is not empty any more.
RestoreFails ==
  /\ restored.step = "database"
  /\ restored' = [restored EXCEPT !.step = "broken"]
  /\ UNCHANGED <<Store, lock, backup, deletion, robbed>>

\* The archive was unpacked before it was imported.
RestoreFiles ==
  /\ restored.step = "database"
  /\ restored' = [restored EXCEPT !.step = "done"]
  /\ UNCHANGED <<Store, lock, backup, deletion, robbed>>

-------------------------------------------------------------------------------

Backup(b) ==
  \/ StartBackup(b) \/ MakeLock(b) \/ Refuse(b) \/ FindStale(b) \/ RemoveStaleLock(b)
  \/ WriteOwner(b) \/ CreateRun(b) \/ DumpDatabase(b) \/ BuildManifest(b) \/ WriteArchive(b)
  \/ PublishArchive(b) \/ SaveSuccess(b) \/ CleanupExpired(b) \/ FailBackup(b)
  \/ ReleaseLock(b) \/ FailEarly(b) \/ Die(b) \/ Expire(b) \/ RestoreDatabase(b)

PermanentDeletion(q) ==
  \/ LookForBackup(q) \/ ClearStaleLock(q) \/ DeleteRows(q) \/ RefuseDeletion(q) \/ RemoveFiles(q)

Next ==
  \/ StoreFile \/ CommitUpload \/ AbortUpload \/ LockAges \/ RestoreFiles \/ RestoreFails
  \/ \E b \in Backups : Backup(b)
  \/ \E q \in Deletions : PermanentDeletion(q)

Spec == Init /\ [][Next]_vars

\* What a process does by itself once it has begun; how it ends is open.
Proceed(b) ==
  \/ MakeLock(b) \/ Refuse(b) \/ FindStale(b) \/ RemoveStaleLock(b) \/ WriteOwner(b)
  \/ CreateRun(b) \/ DumpDatabase(b) \/ BuildManifest(b) \/ WriteArchive(b) \/ PublishArchive(b)
  \/ SaveSuccess(b) \/ CleanupExpired(b) \/ FailBackup(b) \/ ReleaseLock(b) \/ FailEarly(b)

Fairness == WF_vars(LockAges) /\ \A b \in Backups : WF_vars(Proceed(b))

FairSpec == Spec /\ Fairness

-------------------------------------------------------------------------------
(* Properties *)

AtWork(b) == backup[b].step \in Working

\* "已有系统备份任务正在执行": two backups are never at work together, with crashes and
\* takeovers, until a takeover has removed a lock that another one had just renewed.
AtMostOneBackup == (\E b, d \in Backups : AtWork(b) /\ AtWork(d) /\ b # d) => robbed

\* A successful backup has every file that its database names, however uploads and
\* permanent deletions go on, and so has the system that is restored from it, however
\* often its restoration fails; but for the files of a permanent deletion that had
\* looked for a backup before this one made its lock and removed them after its dump,
\* and as long as no takeover has removed a renewed lock.
BackupsAreComplete ==
  \/ robbed
  \/ /\ \A b \in Backups : backup[b].status = "success" =>
          \A f \in backup[b].dump : f \in backup[b].files \/ <<b, f>> \in early
     /\ restored.step = "done" =>
          \A f \in restored.rows : f \in restored.files \/ \E b \in Backups : <<b, f>> \in early

\* Once a backup has succeeded there is an archive: only a success
\* removes old ones, and it leaves its own.
AnArchiveRemains ==
  (\E b \in Backups : backup[b].status = "success") => \E b \in Backups : backup[b].kept

\* A lock is given back or becomes stale, whatever happened to the process that
\* made it: backups and permanent deletions are not refused for ever.
LockIsNotForEver == lock.there ~> (~lock.there \/ Stale)
===============================================================================
