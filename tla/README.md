# A verification development of the wind-inspection document system

The repository is a document management system for wind-power inspection work: a Django
monolith with MySQL, a Vue frontend, and a *Document Agent* that drafts a long Word document
("四措两案") from uploaded material, with people confirming facts, revising, approving and
exporting it. The agent's work is done by an RQ worker behind Redis. This directory models the
parts of it in which several actors act on the same state, checks them with TLC on small
instances and proves the central properties with TLAPS for every instance.

Paths below are relative to `src/`; `docgen/` stands for `backend/apps/document_generation/`.

## 1. The system

| Part | Code | State | Operations |
| --- | --- | --- | --- |
| Generation task | `docgen/services.py`, `models.py` | one MySQL row: status, operation, error, pending sections, `deleted_at` | create, prepare facts, confirm, request, retry, stop, delete, regenerate, submit, approve, export |
| Queue | `docgen/queues.py` | Redis: the RQ job of a task (its id is the task's), the list of ids, the scheduled retries | enqueue on commit, stop signal |
| Worker | `run_document_generation_worker.py`, `docgen/recovery.py`, `docgen/jobs.py` | the execution of one job at a time | recover at start, claim, extract or generate, record failure, finish |
| Sections and review | `docgen/services.py`, `repositories.py`, `engine/orchestrator.py` | rows of sections with revision and lock; revision requests as review rows | draft, reuse, save, edit, lock, send back, submit, approve, export |
| Trace events | `docgen/workflow_events.py` | numbered events and the task's progress | emit, poll |
| Knowledge corpora | `docgen/jobs.py`, `knowledge_corpus.py`, `technical_solution_corpus.py` | uploads, their sections and chunks | upload, index, fail |
| Templates, prompts | `docgen/services.py`, `bootstrap.py` | templates with chapter order, one active system prompt | register, activate |
| Engine | `docgen/engine/`, `providers/` | none of its own | parse, extract, retrieve, draft, validate, render |
| Documents | `backend/apps/documents`, `folders`, `common/storage.py` | documents, versions, files, recycle bin | create, version, delete, restore, purge |
| Access | `backend/apps/access` | grants, temporary grants with a count of downloads | grant, revoke, consume |
| Projects | `backend/apps/projects` | projects, members | create, archive, members |
| Accounts | `backend/apps/accounts`, `common/authentication.py` | login sessions, WebAuthn credentials and challenges | log in, verify, revoke |
| Backups | `backend/apps/system` | lock directory, archives | back up, restore, prune |
| Audit, notifications, locations | `backend/apps/{audit,notifications,locations}` | appended or replaced rows | log, notify, report |
| Frontend, deployment | `fronted/`, `deploy/` | page state; units | pages over the API; start, stop, restart |

How the parts of the agent interact. A request loads the task with the selector of its view,
then calls a service. The service locks the row (`select_for_update`), checks, changes it and
commits; its `on_commit` callback talks to Redis, outside the transaction and after other
requests may have changed the row again. The worker takes the id from the list, reads the row,
claims it in a transaction of its own, works for minutes while writing sections and trace events
in short transactions, and ends in a last transaction: finished, or `_record_failure`, which
decides between another attempt and a failed task by what RQ says of the retries left. RQ
decides by itself whether the job runs again. At its start the worker first recovers what an
earlier one left behind. The database runs in READ COMMITTED; there is no request-wide
transaction; the row lock of the task is the one lock everything takes.

What is hard here: stops and requests that overtake a run; MySQL and Redis changing one after
the other with failures in between; a job id that runs twice; crashes that leave a row
"generating" and a job "started"; retries that must neither lose a chapter nor write over a
locked or edited one; passes over a text that undo each other; rows that are checked without a
unique index behind the check; files beside the database; a lock directory that outlives its
owner. `PROJECT.json` lists these places as hazards with their lines.

What makes each part correct, in a sentence: a task is worked on by at most one run, and a stop
is final (task); an active task is going to be worked on (queue); whatever a dead worker leaves
is picked up (recovery); the reviewed document is complete, and nobody's text is written over
unseen (sections); the order of events is gapless for its readers (trace); an upload's outcome
is that of its last attempt (corpora); exactly one prompt is active (prompts); a document's
current version has its file (documents); a grant is used no more often than it allows (access);
an archived project does not change (projects); a user has one session and a challenge is used
once (accounts); one backup at a time, none of half-deleted files (backups).

## 2. Modules

| Module | What it is |
| --- | --- |
| `TaskLifecycle` | the abstract task as people know it: a status that is moved by persons or by the queue, and which moves there are |
| `GenerationTask` | the row, the RQ job, the worker and the requests in flight: implements `TaskLifecycle` |
| `SectionReview` | the sections of one task, the run that drafts them and the people who review them: implements `TaskLifecycle` |
| `SectionPipeline` | how one section is drafted, reused, revised, composed, normalised and validated |
| `ProviderCalls` | one call of the language model: attempts, repair, usage |
| `WorkflowTrace` | the numbered events of a task, its progress, and the page that polls them |
| `KnowledgeCorpus` | uploads and scans of reference texts, their jobs, the sections that are indexed |
| `KnowledgeIndex` | cutting a text, embedding the pieces, retrieving the best of them |
| `Knowledge` | the two together: what an upload leaves for a retrieval |
| `FactSheet` | candidates, proposals and conflicts, confirmation and gate of the facts of a task |
| `AgentSetup` | system prompts, templates, and the creation and start of tasks under idempotency keys |
| `AccessDecision` | who may do what with a document: grants, members, and requests that rely on them |
| `DocumentStore` | documents, versions, stored files, recycle bin, temporary grants and folders, under row locks |
| `FolderTree` | the tree of folders and the archiving of projects |
| `Accounts` | one user: sessions, devices, tickets, challenges |
| `Backups` | the backup lock, the steps of a backup, deletions, uploads and restoration |
| `MC...` | instances for TLC; `MCAgent` holds those of the parts of the agent that share no state |
| `...Proofs` | inductive invariants and theorems; `SourceProofs` holds those of `KnowledgeCorpus`, `KnowledgeIndex`, `Knowledge`, `FactSheet` and `AgentSetup`, `AgentProofs` those of `SectionPipeline`, `ProviderCalls`, `WorkflowTrace` and `AccessDecision` |

### GenerationTask

The variables are the columns of the row that decide something (`status`, `operation`,
`evidenceInvalid` for the one error code that is read again, `revising`, `deleted`, `stale`),
the RQ job hash (`job`), how often its id stands in the list (`entries`), a stop command under
way, the state of the worker and of its execution (`worker`, `run`) and, for each request and
for recovery, where it is (`caller`). Grain:

- a service is one action, because it works under the row's lock in one transaction; the read of
  the task by the view before it (`LoadTask`) and the Redis calls of its callback after it
  (`InspectJob`, `EnqueueJob`, `RedisFails`, `MarkQueueUnavailable`, `StopJob`) are their own;
- the run has one action per transaction and one for each read between two of them (`Dispatch`,
  `CheckCancelled`, `AfterRecord`, `AnnounceExtraction`);
- RQ is not in the repository and is modelled from how the code uses it (`TakeJob`,
  `JobReturns`, `JobRaises`, `ScheduleRetry`, `ReapAbandonedJob`, `DeliverStop`, `KillRun`;
  marked external): a failed job with retries left is scheduled again, a stopped one is not, an
  abandoned one is retried or failed by the cleanup of the started jobs;
- `CrashWorker` and `StopWorker` are systemd and the machine; `StartWorker` runs
  `recover_generation_tasks` as one transaction and then one `queue_generation_task` per task,
  before it takes a job.

`create_generation_task` is `Init`; `start_compilation_pipeline` is creation and
`PrepareFactConfirmation` in one; both are in detail in `AgentSetup`. The branch of
`retry_generation_task` for a failed task with invalid evidence is left out because no task gets
there, which `FailedTaskHasNoEvidenceError` states and a theorem proves.

### SectionReview

One task seen from its text. `section` holds revision and lock per chapter, `conversation` the
state of its last revision request with the revision it started from, `pending` the column
`pending_section_codes`, `run` what the execution has still to do, `seen` what each editor has
on the page. The run's actions are the branches of the loop in `engine/orchestrator.py` (reuse,
recompose, draft), the save of `repositories.py`, the draft document, the last transaction and
the five outcomes of `_record_failure`. A section's text is abstracted to its revision number.
The history `seen[e].current` is read by properties only.

The queue is abstracted to: a queued task may be claimed, a run may die at any point, recovery
may queue a task no run works on, a task may fail before it is claimed (Redis down, project
archived). That there is one run at a time is what `RunOwnsTask` of the other module gives.

`Outline` is the chapter order of the template's document, `Registered` that of its row;
`services.py:234` infers the second from the first, `bootstrap.py:142` registers every chapter,
so the assumption is that the first is within the second.

### DocumentStore

`document`, `grant`, `enabled` and `files` are the rows and the storage; `request` says for each
HTTP request where it is, which rows it has locked, which file it has stored or has to remove,
and whether the `updated_at` its page has shown is still current. Here a service is not one
action, because services lock different rows: a request begins with what the view loads
(`BeginCreate`, `BeginMutation`, ...), stores its file (`SaveUploadedFile`), takes its rows one
by one (`LockRow`, in the order of `RowsToLock`), looks at them (`PassChecks`), and writes and
commits in one step (`CreateDocument`, `MoveDocument`, ...). `DeleteRows` is followed by one
`RemoveFile` per file, outside the transaction. `Fail` is every way in which a transaction ends
without its write, a refused check, an exception and InnoDB's victim of a deadlock alike;
`Crash` leaves the files of the request behind.

`SELECT ... FOR UPDATE` with `select_related` locks the joined rows as well, so a request on a
document holds the document's folder, and a download the document of its grant. A read without
`FOR UPDATE` is a read at that step (READ COMMITTED). Permissions, archived projects, expired
grants and the further checks of a folder (file name, checksum) are refusals and as such part of
`Fail`; the name of a document is its title. The row of the project, which requests of one
project lock in addition, is left out: the model has more interleavings.

### FolderTree

`folder` has, per row, project, parent, name, whether it is active, whether it has the code by
which archiving knows the container of its project (`coded`: users may choose a folder's code, and
nothing makes it unique), and its `kind`, a history of who has created it or used it as a folder
of the year; `status` belongs to projects. A request locks the rows of `_lock_folder_scope` one by
one (`LockRow`), passes its checks in one step (`PassChecks`: reads without a lock, so what they
have seen may be stale in the next step) and commits in another. Archiving works on the project's
object as the view has loaded it, and in its own order: `FindArchiveFolders`, `ArchiveProject`;
unarchiving likewise: `FindContainer`, `UnarchiveProject`. Public folders are included. `kept` is
the tree a project was archived with; `astray` has the projects to which one of two things
happened: a user gave a folder of theirs the container's code, or a request unarchived them with
what it had looked up before they were archived anew. Both are steps of the model like any other;
the properties say what still holds of projects that are astray, and name them where it does not.

### Accounts

One user, because no operation reads another one's rows. `strict` is the setting
LOGIN_REQUIRE_WEBAUTHN: with it a password only opens a ticket, without it `PasswordLogin` starts a
session. A request authenticates with the row it loads (`LoadSession`, then `Admit`, `ClaimSession`
or `CompareSession`), and its view works later. `LoadChallenge` locks user, ticket and challenge,
as `select_related` under `FOR UPDATE` does. `Die` rolls a transaction back, and with it the
consumption of a challenge. `LoneUpdate = TRUE`: nobody writes the user's row while an
administrator edits it (`update_user` saves the whole row).

### Backups

A backup is a process that makes the lock directory, writes its owner, dumps, collects, packs,
verifies, publishes, prunes and releases, one action each; `FailBackup` is its except-branch at
every step, `Die` its end without one. A lock is stale by its owner's process, or by age if there
is no owner (`Stale`). A deletion looks for a backup, commits, and removes files, and a backup may
start after it has looked: `unseen` has the backups it could not see, and `early` the files it
removed under their dumps. `robbed` says that a takeover has removed a lock that another one had
just renewed. The properties name both; nothing keeps either from happening.

### The parts of the agent

- `SectionPipeline`: a text is the set of its items (sentences, items of lists, rows of tables),
  an item a set of cells, a cell a set of clauses with a first one. Normalisation works on items
  and cells, validation on clauses, so a row or an item can be normalised and still have an issue.
  Of a clause counts which confirmed values and numbers it has and whether it speaks of results or
  plans; values of `Marked` fields have a forbidden word themselves, `Flags` are truth values. Each
  path of the loop (draft, reuse, revise) composes and normalises in its own order.
- `ProviderCalls`: `RequestFails` repeats retryable errors up to `LLM_MAX_ATTEMPTS`;
  `ReplyArrives` sends one repair for a reply that does not fit the schema.
- `WorkflowTrace`: `BeginEmit` takes the row's lock and draws the number, `CommitEmit` writes;
  there are several writers because the job of a stopped run may live on beside the next one.
- `KnowledgeCorpus`: `ScanFolder` makes a plan and `EnqueuePlan` carries it out later; an upload's
  job is started, retried, completed, failed, or dies; one administrator, one worker.
- `KnowledgeIndex`: `_split_ranges` as a function of the text's sentence ends, the batches of
  `embed` with replies in any order, and the choice of `retrieve` by rank.
- `FactSheet`: merging, the preference for the requirement, the anchoring of earlier values, the
  confirmation by a person and the gate before writing, as operators on sets of candidates. A value
  has its `value_type` and a shape, because the model may answer anything that is JSON: merging a
  field of many values takes lists only, and of risks those with code and evidence (`ItemsOf`).
- `AgentSetup`: an activation scans and locks the active prompts, then creates its own; a creation
  reads the prompt before it looks for its key, and a second INSERT waits for the first. A template
  is a file of the entry folder with a marker in its description; users edit descriptions
  (`EditDescription`) and can take the marker away (`exposed`), which is all `_ensure_entry_source`
  has to go by until the template is registered, and for its copy for ever.
- `AccessDecision`: `Visible`, `InBase` and the `May...` operators are the two querysets and the
  permission functions; a request finds its document, locks it (`LockDocument`) and asks again.
  `LoneMemberEdit = TRUE`: one edit of a member at a time.

### Variants

Each module has, next to a definition, forms of it that are marked "Not the code": the mistakes
the runs are tried against (`PROJECT.json`, mutants). Where a property is a conjunction, there is
a variant for its other parts as well: `Replaced` (in `SectionPipeline`), `ReviseValidatedEarly`
and `ReuseAnyRow`, `EnqueueStalePlan`, `RaiseUnmarked`, `ConfirmAnyValue`, `EndAtSentence`,
`InResponseOrder`, `LoadAnyDevice` (in `Accounts`).

## 3. Runs

Twelve configurations; bounds are the constants with "bound" in their declaration.

| Run | Instance | Shows |
| --- | --- | --- |
| `task_safety` | two requests, two retries, killed runs, crashes and restarts | types, `RunOwnsTask`, `CancelledIsFinal`, `WorkerKeepsHands` and the refinement of `TaskLifecycle` |
| `task_restarts` | two requests, a worker that is stopped and started at will | `GenerationSettles`, `RecoveryHeals` |
| `task_crashes` | killed runs, crashes, a Redis that fails at will | `CancelledWorkStops`, `InterruptedTaskRecovers` |
| `review_editors` | two editors, two chapters, one retry, outages, dying runs | completeness of what is reviewed, locks, edits, settled text |
| `review_progress` | the two retries of the code, a registered chapter the document does not have | `RevisionIsAnswered` |
| `document_store` | two requests, documents, folders, titles and files, a grant for one download | titles, files, updates, grants |
| `folder_tree` | two requests, up to two projects, two names; a behaviour is of one of five kinds (below) | names, trees, archive and its undoing |
| `backups` | three backups of which one came earlier, one death, one deletion at a time, one file, restoration | one backup, complete archives, one remains, the lock ends |
| `accounts` | two requests, sessions, devices and tickets, three challenges, either setting of LOGIN_REQUIRE_WEBAUTHN | proofs used once, sessions replaced by logins only |
| `agent` | the eight parts below | one invariant per part, and `StoppedTaskIsSilent` |
| `redis_fails` | as `task_crashes` | finding: a failing enqueue overwrites a stop |
| `section_reuse` | one section, two runs, the facts and items of `agent` | finding: a valid row is discarded |

`agent`: a behaviour is one of part `part`, and the others stand still. Pipeline: three facts (a
planned quantity, a remark with a forbidden word, a truth value), two numbers, items of several
clauses and rows of two cells, two revisions, two runs. Provider: three attempts. Trace: two
writers, four events, one new start, pages of two. Corpus: two uploads of two versions of one
content, two sections, one retry, one death. Facts: two single and two list fields, three values
and half a risk, texts, lists and what is neither, two sources, two extractions. Index: texts up to
twelve characters, pieces of three to five, batches of two, five candidates. Setup: two activations
and two requests with one key (part `setup`), then a template, its copy and an entry file with the
same requests (part `sources`); no check looks at prompts and files together. Access: an
administrator and another, two requests, two grants, a restricted document of a project and one of
the staff.

`folder_tree`: kinds of behaviours (`MCFolderTree`), each with room for some folders beside the
root and the folders of the year. `structure` (two): all operations but renaming. `names` (three):
creations and renamings against archiving. `codes` (two): creations and updates that give and take
the container's code, against archiving. `public` (two): public folders only. `projects` (four, two
projects): archiving and unarchiving, which meet at the folder of the year.

Bounds. Two requests are enough for every pair of services to overlap; each may be followed by any
number of further requests, as the requests come back. `MaxRetries` is the code's 2 in
`task_safety` and `review_progress` and 1 elsewhere, which still has a first, a middle and a last
attempt. `MaxEntries` bounds how often the job's id is in the list; two copies are needed for a
second execution, and a push at the bound is dropped, so it never blocks anyone. Two chapters are
enough for one to be stored, locked or failed while the other is not. `MaxStarts = 3` lets a
generation, a retry or recovery, and a revision follow one another, `MaxEdits = 3` lets both
editors and the agent write the same section. In `DocumentStore` two requests suffice because each
holds one set of rows and the properties speak of pairs; two files let a document have two versions
or two documents one each. Three backups are what a double takeover needs; the first of them has
died with its lock, or been refused, before the run begins (`AfterEarlier`), so that the others
find its lock old. Three challenges let two requests meet at one and begin another; without
WebAuthn a run ends with the first ticket or challenge (`FewRows`), as what becomes of those does
not depend on how one logs in. Rows and ids are not used twice where their history matters, so
these instances come to an end; their runs do not check for deadlock, those of `GenerationTask` and
`FolderTree` do.

Fairness (`FairSpec`). `GenerationTask`: nobody has to send a request; a callback that has begun
goes on (weak); the worker is started again (weak: `Restart=on-failure` in
`deploy/systemd/wind-doc-worker.service`) and, since it may be stopped and started for ever, the
steps of a running worker (take a job, move a due retry, clean up abandoned jobs) are strongly
fair; a run goes on (weak: RQ kills it after 30 minutes, which is `KillRun`); 2100 seconds pass.
`InterruptedTaskRecovers` and `RecoveryHeals` assume in their statement that the worker is
started again infinitely often, because nothing in the code recovers a task while the worker
stays up: a run killed in generation waits for the next start. `SectionReview`: the run goes on
when the task is queued or being generated (weak). `Backups`: a living backup goes on and
time passes for a lock (weak); that a dead one's lock becomes stale is what `LockIsNotForEver`
needs, not that anybody removes it.

Where the code deviates from what a property says, the deviation is part of the model wherever that
was possible, and the property names the case it leaves out:

- `AtMostOneBackup`, `BackupsAreComplete`: `robbed`, and the files in `early` (5.9);
- `SiblingNamesAreUnique`, `ArchiveMatchesStatus`, `UnarchivingRestoresTree`: projects `astray`
  (5.8), and for names the folders of the year (5.7); `ProjectTreesAreTrees` holds for those
  projects too, and says nothing of public folders (5.6);
- `TemplatesAreNoSources`: files in `exposed`; `RepetitionIsAnswered`: requests that began before
  the task of their key was committed (5.10);
- `NoListedValueIsLost`: what is not a list, and incomplete risks (5.12);
- `DraftsAreGrounded`: a forbidden word in a confirmed value, and clauses without plan beside one
  with it (5.13). What is *saved* has none of these issues (`SavedRowsAreValid`).

Three deviations are kept out of passing runs by a constant: `task_safety` has no failing Redis
commands (`redis_fails` has), `accounts` has `LoneUpdate = TRUE` and `agent` has
`LoneMemberEdit = TRUE` (5.11); the theorems that need it say so. The liveness properties of
`GenerationTask` carry their condition in the formula. Left out of the models altogether are the
places listed at the end of section 5, and a commit whose reply is lost
(`documents/services.py:184`: the file is removed although the row is there).

## 4. Proofs

`GenerationTaskProofs`: `TypeCorrect` without an assumption on the faults; the rest under
`"redis" \notin Faults`, since `redis_fails` refutes `StopIsFinal` otherwise. The inductive
invariant `TaskInv` adds to the types:

- `OperationFits`: extracting tasks extract, queued and generating ones generate;
- `EvidenceFits`: the evidence error is only on tasks that wait for a confirmation;
- `RunFits`: between claim and last transaction the row is as the run claimed it, or cancelled;
- `NobodyMarks`: nobody is about to mark the task as not enqueued.

`RunOwnsTask` alone is not inductive: that a retry cannot take the row from a run needs to know
which operation the run has, and that no late failure marking is under way. The theorems
`RunsOwnTheirTask`, `FailedTasksHaveNoEvidenceError`, `StopIsFinal`, `WorkerLeavesPersonsAlone`
and the refinement `TaskImplementsLifecycle` follow, the last three step by step.

`SectionReviewProofs`: no assumption but `ReviewAssumption`. `SectionInv` contains
`ReviewedTaskIsComplete`, `PendingIsNeeded` and `LockedSectionsAreLeftAlone` and adds:

- `RunFits`: what is stored and what is left on the run's list make up the document;
- `OnlyOutlineIsStored`, `OnlyStoredAreLocked`;
- `SeenFits`: an editor's copy is not newer than the section, and older if it was overwritten.

The argument for completeness: the list of a run is the pending sections, or the whole outline
when there is none; with the stored sections it makes up the outline; a section leaves the list
when it is stored; a failure puts back every chapter without a row (`PendingValidationSections`);
so an empty list means a complete document. For locks: a locked section is stored and not
pending, locks change in review only, and there is no run then; a save that meets a lock leaves
the section. For edits: every write raises the revision, so an outdated copy has a lower one.
`SectionsImplementLifecycle` maps the steps of runs, retries and people to those of
`TaskLifecycle`, which `GenerationTask` implements too, from the queue's side.

`DocumentStoreProofs`: no assumption but `StoreAssumption`. `StoreInv` contains the three
invariants of the run and adds:

- `LocksAreExclusive`: no row is held twice;
- `ChecksStillHold`: a request that is about to write holds its rows, and what it has checked is
  still true;
- `FilesFit`: a new file is nobody else's, and no two documents share one;
- `RequestsFit`, `GrantsFit`: what requests and grants refer to is there.

The argument for titles: every operation that puts a title into a folder holds that folder's row
from before its check to its commit (`OthersStillHold`), so the check of the one is not undone by
the write of the other. It is made once, for any step: a request changes only rows it holds, new
rows, and grants nobody else holds (`OthersFrame`, `DocumentsKept`, `GrantsKept`).
`NoUpdateIsLost`, `GrantsStayEnded` and `DownloadsStayAllowed` follow from what the writer has
checked. Folders lack such a lock: `disable_folder` checks before it locks (finding 5.5).

### Parts of the agent, and accounts

`WorkflowTrace` (`AgentProofs`): `TraceInv` has `Numbered` (an event's number is its place),
`WritersFit` (a writer that has begun holds the row alone and has the next number, of a task that
goes on) and `PageFits`. The page's `CHOOSE` is shown to be the end of an interval
(`PageIsAnInterval`), which is why asking for what is above the last number misses nothing.

`KnowledgeCorpus` (`SourceProofs`): `IndexedOnce` is not inductive. What makes it so: rows of one
content have no section in common (`Disjoint`; rows are never deleted, and both a creation and a
plan are checked against them again), every chunk belongs to a row that reserved its section
(`Owned`), and only rows are queued and worked on (`Requested`).

`AccessDecision` (`AgentProofs`): `GrantsInv` says that one request has the document and the grants
it acts on are not revoked (`DocumentLock`), beside the two invariants on grants. `AccessIsSound`
assumes `LoneMemberEdit` and that documents of the staff are outside of projects, as in the code's
folders; without the first a removed member comes back (finding 5.11).

`AccountsProofs`: `Verifying` is the point: `get_available_challenge` locks the user's row with
the challenge, so the request that verifies is the only one, and neither its challenge nor its
ticket has been used, since closing them needs the row as well. `LoginsReplace` assumes
`LoneUpdate`; both hold with either setting of LOGIN_REQUIRE_WEBAUTHN.

`SectionPipeline` (`AgentProofs`): for every set of items, facts and references, with values that
have forbidden words and items whose clauses differ. `NormalizedGrounds` is what
`normalize_section_provenance` promises of a cell; `SupplementKeeps` needs that a section that is
only too short has no other issue, so that normalising the merged section strips none of its items
and words none of its cells anew. The invariant adds that `issues` are those of the section as it
is, and that a section is not revised before it is drafted.

`ProviderCalls` (`AgentProofs`): `RequestsFit` says where the requests of a call are accounted
for: before the repair all of them belong to the one being asked, during it those of the first are
in its record. A call writes two records at most, so the sum over records needs no induction.

`KnowledgeIndex` (`SourceProofs`): `_split_ranges` takes the last sentence end that fits, and the
proof has to show that there is one or that the limit is taken, and that what remains is never
shorter than a piece may be. `PassageFits` carries the chain (each piece starts the overlap before
the end of the last) and the rest; the assumption `2 * MinChars <= MaxChars + OverlapChars` holds
for the limits of a text (400, 1000 and 100) and for those of a table's row, if its heading leaves
room for two characters (if it does not, rows are lost: section 5, end). That a nonempty bounded set of numbers has
a maximum, which the `CHOOSE` of the end needs, comes from `NatLessThanWellFounded`. `VectorsFit`
keeps every vector at its text's place whatever order the provider answers in, and `SearchFits`
the ranks in order and the share of each source. `KnowledgeStaysSound` joins this with
`KnowledgeCorpus`.

`FactSheet` (`SourceProofs`): the lemmas are about merging: what `Merged` takes of the candidates
of a field, for single fields, list fields and those the requirement decides, and of which
candidate nothing is taken. `FactInv` adds that a snapshot speaks of fields and values there are
(`SheetFits`), and that the confirmed values of required fields fit them (`ConfirmedFits`): the
gate does not look at that again. Assumed: no field is both single and a list, and there are
finitely many values.

`AgentSetup` (`SourceProofs`): `PromptsInv` says beside the types that creation numbers are
bounded (`NumbersAreBounded`, so that the newest prompt exists), that an activation which has not
ended has in its scan, or holds, every active prompt that was there before it (`SinceHaveEnded`,
`OlderAreReplaced`), and that a prompt is active once an activation has ended (`OneIsActive`).
`OrdersInv` says of idempotency keys that a row inserted and not committed is alone with its key
(`Alone`) and is created once, that whoever gets a task has asked for it (`Matches`), and that the
prompt a request has read was in force when it read it (`InForce`). For sources: a file of a
template that is not registered has its marker or is in `exposed`, and so has its copy; a source
was looked at when it was added, and what has once been exposed stays so.

### FolderTree

`FolderTreeProofs`, without a hypothesis: all the theorems are about every set of requests,
projects, folders, names and years. None of the four properties is inductive, because a request
checks in one step and writes in another. `TreeInv` says for each operation what its checks have
found and that it is still so (`CreateReady`, `UpdateReady`, `MoveReady`, `ArchiveReady`,
`UnarchiveReady`). It holds because the request has the row of the project, and everything that
changes a project's tree holds that row (`LocksFit`). For a move, "no descendant" is stated without
recursion: there is a set of folders closed under parents that contains the new parent and not the
folder moved (`Apart`). Such a set is what `_is_descendant` walks, and from it the new tree is
shown to be a forest. For archiving, `ProjectFits` says that the container is the one folder at the
top and that taking it away gives the tree `kept` before.

For projects that are not astray, the code of the container is as good as its kind (`RowsFit`), and
every step that breaks this puts the project astray. A project that is astray keeps two parts of
the invariant, that its folders form trees and that rows and parents match: a false container is a
folder of the project like others, and hanging the top level below it makes no cycle because it
goes below the folder of the year itself (`HangKeepsForest`).

Names of public folders have an invariant of their own (`PublicInv`). There is no project to lock;
but a creation, a renaming and a move lock the *parent*, as `select_related` joins it, and whatever
puts a public folder below a parent holds that row from its check to its commit. Archiving puts
folders of the year below the archive's root without it, hence the exception.

### Backups

`BackupsProofs`. `StoreInv` and `AnArchiveStays` hold without a hypothesis: every row has its file,
uploads, deletions and restorations included, and clean-up comes after a publication. `LockInv`
adds that a backup from its claim to its release has the lock, that this lock is not stale, and
that a deletion in flight has looked before (`UnseenOrOver`); `DumpInv` that the files of a dump
are stored until they are in the archive or in `early`, because rows lose files only in deletions.
There is no hypothesis here either: both are of the form "`robbed`, or". The theorems
`OneBackupAtATime` and `BackupsStayComplete` so say exactly how far the lock and the look of a
deletion carry: whatever else overlaps, only a takeover of a renewed lock makes two backups, and
only a deletion that looked before the backup's mkdir takes a file from under a dump.

### What is not proved

Every safety invariant and every action property of the passing runs is stated by a theorem. Left
to TLC are the six liveness properties (`GenerationSettles`, `RecoveryHeals`,
`CancelledWorkStops`, `InterruptedTaskRecovers`, `RevisionIsAnswered`, `LockIsNotForEver`), as
fairness and ENABLED are beyond the prover here. `CancelledIsFinal` is proved for a Redis that
answers and refuted for one that does not; `ValidRowsAreReused` is refuted.

## 5. Findings

Two have a run and are in `PROJECT.json`: `redis_fails` and `section_reuse`. The others were
found with these modules; to see them again, change the constant or add the property named.

1. `docgen/queues.py:27`, lost wake-up: a request that meets its job while RQ is just finishing it
   is not enqueued; the task waits for the next start of the worker. Property: an active task has
   an entry, a job that runs, or a caller that enqueues (`GenerationTask`).
2. `docgen/services.py:844`, deletion: the service locks the row and does not look at `deleted_at`
   again; a deleted session can be started, retried or regenerated. Property:
   `deleted => status \notin ActiveStatuses`.
3. `docgen/recovery.py:45`, recovery gap: the job hash of a crashed last attempt says "started";
   recovery takes it for a live job and enqueues nothing. A later start does (`RecoveryHeals`).
4. `docgen/jobs.py:1053`, failed revision: when the attempt before has saved its text, the retry
   finds it unchanged and tells the author that the original has been kept. Property: a failed
   conversation's section has the revision it started from (`SectionReview`).
5. `folders/services.py:124`, disabling: a document comes into a folder between the check and the
   write. Property: a disabled folder has no active document (`DocumentStore`).
6. `folders/services.py:198`, cycle: two moves of public folders, each below a descendant of the
   other, make a cycle. Property: `IsForest(Folders)` (`FolderTree`).
7. `projects/services.py:334`, folder of the year: two projects that are the first of a year to be
   archived create it twice, and `get()` fails from then on. Property: `SiblingNamesAreUnique`
   without its exception for kind "year".
8. `folders/services.py:117` and `projects/services.py:121`, stale status: a folder is disabled in
   a project that has just been archived; a project is unarchived a second time while it is
   archived again, and its folders stay in the archive. `projects/services.py:408` and `316`: the
   container is looked up by its code, which users may give to a folder
   (`folders/serializers.py:29`); archiving then takes their folder for the container, or fails
   with two of them, and unarchiving may delete it. Property: `ArchiveMatchesStatus` or
   `UnarchivingRestoresTree` without the exception for `astray`.
9. `system/services.py:484` and `500`: a backup that starts after a deletion has looked for one
   dumps rows whose files are going (`BackupsAreComplete` without `early`); two processes that found
   the same lock stale remove each other's (`AtMostOneBackup` without `robbed`).
10. `docgen/services.py:729`: the handler of `IntegrityError` is inside the transaction that the
    error has broken, so it cannot read the row of the other request: a concurrent repetition of a
    key is an error, not the existing task that `docs/document_agent/phase6/README.md:12`
    promises. What is left of the promise is `RepetitionIsAnswered`: one that begins after the task is
    there never meets the error, and after an error the task is there. A repetition after another
    prompt was activated is a conflict (`:690`).
11. `projects/services.py:236`: `save()` of a member that was removed meanwhile inserts it again
    (`LoneMemberEdit = FALSE`); `accounts/services.py:56`: editing a user writes back the session
    key it has loaded (`LoneUpdate = FALSE`); `webauthn_services.py:350`: two revocations leave no
    device.
12. `docgen/engine/facts.py:121` and `124`: what the model answers for a field of many values in
    another shape than a list is dropped, and so are risks without code or evidence; the entry of
    the field remains, with the source as evidence, so the loss is not seen. Property:
    `NoListedValueIsLost` without the condition on the shape.
13. `docgen/engine/validation.py:343` against `670`: "计划" is put before a list item or a cell once,
    validation asks for it in every clause that has a planned value; the repair the code has for
    this issue leaves it. `:424` grounds a confirmed value that may have a word of
    `FORBIDDEN_OUTPUT_MARKERS` (`:19`), which the fact gate does not look for (`facts.py:21`): a
    section that declares such a value is refused with RESULT_CONTENT_FORBIDDEN. Property: `issues` of a normalised
    draft have neither code (`SectionPipeline`).
14. `docgen/services.py:796`: a template's copy, and a template not registered yet, are told from a
    source by a marker in a description that users edit (`documents/services.py:267`). Property:
    `TemplatesAreNoSources` without `exposed`.

Smaller ones, without a property: a task whose document has fewer chapters than its template
registers can be exported and never submitted (`docgen/services.py:1643` against `1787`); a
revision that fails before it is claimed stays "queued", and a stop leaves conversations open; an
edited text is never validated again before it is approved; a task can be exported from review
(`:1773`); a retried revision drafts a saved section once more (`jobs.py:736`); the draft of a
regeneration holds that section only (`orchestrator.py:479`); a new version may bring a file name
that another document of the folder has (`documents/services.py:132`); confirmation accepts two
values of one field, results and unapproved risks, which the run then refuses for ever
(`docgen/services.py:960`); a proposal of the requirement that is a result drops the other
candidates too; a table whose heading leaves no room for a row loses its rows without a word
(`rag.py:111`; `KnowledgeIndex` assumes room for two characters); a download that needs no
temporary grant locks nothing, so a right may be revoked before the file is sent; a worker that
dies leaves its corpus upload "processing", which blocks its repetition; a lost reply of Redis
marks an upload failed that then succeeds (`queues.py:86`); the job of a stopped run still moves
the progress of the next; a grant without "view" cannot be used for updates (404); a change of the
embedding model makes retrieval fail for all that is indexed; the row of a backup that died stays
"running".

## 6. Not modelled, and the plan

Data is left out: the wording of prompts and answers, parsing of PDF and Word, rendering and
formatting, comments, image assets, personnel profiles and audit rows. The frontend and the
deployment scripts have no state of their own beyond what the modules take from them (what an
editor has loaded, who starts the worker). The evaluators under `backend/scripts` and the
migrations run once and beside the program. Bootstrap is a command of an administrator on an idle
system. Archives for download and the repair commands of documents read rows and files and are
not modelled.

Next: the outline inference of templates and the revision of a document's order; the composition of
`SectionReview` with the queue of `GenerationTask`, whose interface `RunOwnsTask` is today; the
personnel profiles of folders.
