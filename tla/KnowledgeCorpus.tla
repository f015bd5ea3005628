---------------------------- MODULE KnowledgeCorpus ----------------------------
(***************************************************************************)
(* The reference texts of the agent: an administrator uploads a file for    *)
(* some sections, or queues the files of the folder of technical solutions; *)
(* a job cuts the sections out, embeds them and puts them in the knowledge  *)
(* base (knowledge_corpus, technical_solution_corpus, jobs, queues).        *)
(*                                                                          *)
(* One administrator makes requests, one after the other; the queue, the    *)
(* one worker of the deployment, failures of Redis and deaths of the worker *)
(* interleave with them.                                                    *)
(***************************************************************************)
EXTENDS Naturals, FiniteSets

CONSTANTS
  Uploads,       \* rows of KnowledgeCorpusUpload
  Versions,      \* document versions
  Contents,      \* contents of files, by hash
  ContentOf,     \* the content of each version
  SectionCodes,  \* KnowledgeCorpusUpload.SectionCode
  Headed,        \* the sections with headings and text in each content
  MaxRetries,    \* Retry(max=2) of RQ
  MaxDeaths      \* bound: uploads whose worker dies

ASSUME CorpusAssumption ==
  /\ ContentOf \in [Versions -> Contents]
  /\ Headed \in [Contents -> SUBSET SectionCodes]
  /\ MaxRetries \in Nat /\ MaxDeaths \in Nat

VARIABLES
  upload,     \* per upload: its row, or none
  filed,      \* versions that exist as documents of the folder
  knowledge,  \* active approved chunks, as <<version, section>>
  plans,      \* what the last scan of the folder found: <<version, sections>>
  due,        \* per upload: the call of the queue still to come
  jobs,       \* per upload: its RQ job and the retries left
  died        \* history: uploads whose worker has died

corpusVars == <<upload, filed, knowledge, plans, due, jobs, died>>

CorpusStatus == {"none", "queued", "processing", "succeeded", "failed"}
NoVersion == "none"
NoUpload == [status |-> "none", version |-> NoVersion, codes |-> {}, whole |-> FALSE,
             indexed |-> {}]
JobStatus == {"none", "queued", "scheduled", "started", "failing", "finished", "failed"}

Rows(content) == {u \in Uploads : /\ upload[u].status # "none"
                                  /\ ContentOf[upload[u].version] = content}
Reserved(content) == UNION {upload[u].codes : u \in Rows(content)}
Indexed(content) == {c \in SectionCodes : \E v \in Versions :
                       ContentOf[v] = content /\ <<v, c>> \in knowledge}

\* No request of the administrator is on its way.
Unasked == \A u \in Uploads : due[u] = "none"

\* blocks_for_section, or the whole document for an upload of a single section
Found(row) == IF row.whole THEN row.codes ELSE row.codes \cap Headed[ContentOf[row.version]]

CorpusInit ==
  /\ upload = [u \in Uploads |-> NoUpload]
  /\ filed \in SUBSET Versions
  /\ knowledge = {} /\ plans = {} /\ died = {}
  /\ due = [u \in Uploads |-> "none"]
  /\ jobs = [u \in Uploads |-> [status |-> "none", left |-> 0]]

-------------------------------------------------------------------------------
(* Uploads *)

NewUpload(u, version, codes, whole) ==
  /\ Unasked /\ upload[u].status = "none"
  /\ upload' = [upload EXCEPT ![u] = [status |-> "queued", version |-> version, codes |-> codes,
                                     whole |-> whole, indexed |-> {}]]
  /\ due' = [due EXCEPT ![u] = "enqueue"]

\* create_knowledge_corpus_upload: the version of an earlier upload of the same
\* content, or a new document.
CreateUpload(u, codes) ==
  /\ codes # {}
  /\ \E version \in Versions :
       LET content == ContentOf[version] IN
       /\ codes \cap (Reserved(content) \cup Indexed(content)) = {}
       /\ IF Rows(content) # {}
            THEN /\ \E old \in Rows(content) : upload[old].version = version
                 /\ UNCHANGED filed
            ELSE /\ version \notin filed
                 /\ filed' = filed \cup {version}
       /\ NewUpload(u, version, codes, Cardinality(codes) = 1)
  /\ UNCHANGED <<knowledge, plans, jobs, died>>

\* scan_technical_solution_corpus: per document the sections with text that neither
\* the knowledge base nor an upload has.
ScanFolder ==
  /\ plans' = {p \in {<<v, Headed[ContentOf[v]] \ (Indexed(ContentOf[v]) \cup Reserved(ContentOf[v]))>> :
                        v \in filed} : p[2] # {}}
  /\ Unasked /\ plans' # plans
  /\ UNCHANGED <<upload, filed, knowledge, due, jobs, died>>

\* Not the code: the plan is queued as it was made.
EnqueueStalePlan(u) ==
  /\ \E plan \in plans :
       /\ NewUpload(u, plan[1], plan[2], FALSE)
       /\ plans' = plans \ {plan}
  /\ UNCHANGED <<filed, knowledge, jobs, died>>

\* One plan of enqueue_technical_solution_corpus: the sections are looked at again.
EnqueuePlan(u) ==
  /\ Unasked
  /\ \E plan \in plans :
       LET content == ContentOf[plan[1]]
           codes == plan[2] \ (Indexed(content) \cup Reserved(content))
       IN /\ plans' = plans \ {plan}
          /\ IF codes = {} THEN UNCHANGED <<upload, due>>
             ELSE NewUpload(u, plan[1], codes, FALSE)
  /\ UNCHANGED <<filed, knowledge, jobs, died>>

\* retry_knowledge_corpus_upload
RetryUpload(u) ==
  /\ Unasked /\ upload[u].status = "failed"
  /\ upload' = [upload EXCEPT ![u].status = "queued", ![u].indexed = {}]
  /\ due' = [due EXCEPT ![u] = "enqueue"]
  /\ UNCHANGED <<filed, knowledge, plans, jobs, died>>

-------------------------------------------------------------------------------
(* queue_knowledge_corpus_upload *)

Waiting(u) == jobs[u].status \in {"queued", "scheduled", "started", "failing"}
Enqueued(u) == IF Waiting(u) THEN jobs
               ELSE [jobs EXCEPT ![u] = [status |-> "queued", left |-> MaxRetries]]

EnqueueUpload(u) ==
  /\ due[u] = "enqueue"
  /\ jobs' = Enqueued(u)
  /\ due' = [due EXCEPT ![u] = "none"]
  /\ UNCHANGED <<upload, filed, knowledge, plans, died>>

\* Redis fails before or after it has taken the job.
LoseQueue(u) ==
  /\ due[u] = "enqueue"
  /\ jobs' \in {jobs, Enqueued(u)}
  /\ due' = [due EXCEPT ![u] = "mark"]
  /\ UNCHANGED <<upload, filed, knowledge, plans, died>>

\* QUEUE_UNAVAILABLE, whatever has become of the upload
MarkUnavailable(u) ==
  /\ due[u] = "mark"
  /\ upload' = [upload EXCEPT ![u].status = "failed"]
  /\ due' = [due EXCEPT ![u] = "none"]
  /\ UNCHANGED <<filed, knowledge, plans, jobs, died>>

-------------------------------------------------------------------------------
(* run_knowledge_corpus_upload *)

JobTo(u, status) ==
  jobs' = [jobs EXCEPT ![u] = [status |-> status, left |-> IF status = "finished" THEN 0 ELSE @.left]]

\* The job claims its upload, or is "skipped".
StartUpload(u) ==
  /\ jobs[u].status \in {"queued", "scheduled"}
  /\ \A other \in Uploads : jobs[other].status \notin {"started", "failing"}
  /\ IF upload[u].status \in {"queued", "failed"}
       THEN upload' = [upload EXCEPT ![u].status = "processing"] /\ JobTo(u, "started")
       ELSE JobTo(u, "finished") /\ UNCHANGED upload
  /\ UNCHANGED <<filed, knowledge, plans, due, died>>

\* Not the code: the chunks of the new sections are put in without those of the
\* upload's other sections being taken away, and every section counts as indexed.
CompleteAllCodes(u) ==
  /\ jobs[u].status = "started" /\ Found(upload[u]) # {}
  /\ JobTo(u, "finished")
  /\ IF upload[u].status = "processing"
       THEN /\ knowledge' = knowledge \cup {<<upload[u].version, c>> : c \in Found(upload[u])}
            /\ upload' = [upload EXCEPT ![u].status = "succeeded", ![u].indexed = upload[u].codes]
       ELSE UNCHANGED <<knowledge, upload>>
  /\ UNCHANGED <<filed, plans, due, died>>

\* _complete_corpus_upload: in one transaction, if the upload is still processing.
CompleteUpload(u) ==
  /\ jobs[u].status = "started" /\ Found(upload[u]) # {}
  /\ JobTo(u, "finished")
  /\ IF upload[u].status = "processing"
       THEN LET version == upload[u].version
                found == Found(upload[u])
            IN /\ knowledge' = (knowledge \ {<<version, c>> : c \in upload[u].codes})
                                 \cup {<<version, c>> : c \in found}
               /\ upload' = [upload EXCEPT ![u].status = "succeeded", ![u].indexed = found]
       ELSE UNCHANGED <<knowledge, upload>>
  /\ UNCHANGED <<filed, plans, due, died>>

\* Not the code: an error is raised before it is written down.
RaiseUnmarked(u) ==
  /\ jobs[u].status = "started"
  /\ JobTo(u, "failing")
  /\ UNCHANGED <<upload, filed, knowledge, plans, due, died>>

\* _fail_corpus_upload: no file, no section, no embedding, the time limit of the job.
FailUpload(u) ==
  /\ jobs[u].status = "started"
  /\ upload' = [upload EXCEPT ![u].status = "failed"]
  /\ JobTo(u, "failing")
  /\ UNCHANGED <<filed, knowledge, plans, due, died>>

\* RQ sees the exception: one of the retries left, or the registry of failed jobs.
EndFailedJob(u) ==
  /\ jobs[u].status = "failing"
  /\ jobs' = [jobs EXCEPT ![u] = IF @.left > 0
                                  THEN [status |-> "scheduled", left |-> @.left - 1]
                                  ELSE [status |-> "failed", left |-> 0]]
  /\ UNCHANGED <<upload, filed, knowledge, plans, due, died>>

\* The worker is killed; RQ sees the job fail, the row stays as it is.
WorkerDies(u) ==
  /\ jobs[u].status = "started" /\ Cardinality(died) < MaxDeaths
  /\ JobTo(u, "failing")
  /\ died' = died \cup {u}
  /\ UNCHANGED <<upload, filed, knowledge, plans, due>>

Queue(u) == EnqueueUpload(u) \/ LoseQueue(u) \/ MarkUnavailable(u)
Job(u) == StartUpload(u) \/ CompleteUpload(u) \/ FailUpload(u) \/ EndFailedJob(u)

CorpusNext ==
  \/ ScanFolder
  \/ \E u \in Uploads :
       \/ \E codes \in SUBSET SectionCodes : CreateUpload(u, codes)
       \/ EnqueuePlan(u) \/ RetryUpload(u) \/ Queue(u) \/ Job(u) \/ WorkerDies(u)

CorpusSpec == CorpusInit /\ [][CorpusNext]_corpusVars

-------------------------------------------------------------------------------
(* Properties *)

\* _complete_corpus_upload, KnowledgeCorpusUpload.indexed_section_codes: what a
\* succeeded upload claims to have indexed is in the knowledge base, whatever other
\* uploads of the same version have deleted and written since.
SucceededIsIndexed ==
  \A u \in Uploads : upload[u].status = "succeeded" =>
    \A c \in upload[u].indexed : <<upload[u].version, c>> \in knowledge

\* "该文件的以下章节已经存在于RAG知识库": a section of one content is not indexed from
\* two versions, through uploads, stale plans of a scan and retries.
IndexedOnce ==
  \A a, b \in knowledge : ContentOf[a[1]] = ContentOf[b[1]] /\ a[2] = b[2] => a = b

\* run_knowledge_corpus_upload: an upload is shown as being processed only while the
\* job that will end it is running, unless the worker has died with it.
ProcessingHasItsJob ==
  \A u \in Uploads : upload[u].status = "processing" => jobs[u].status = "started" \/ u \in died

IndexMatchesUploads == SucceededIsIndexed /\ IndexedOnce /\ ProcessingHasItsJob
===============================================================================
