----------------------------- MODULE SourceProofs -----------------------------
(*****************************************************************************)
(* Proofs about what a document is made from: the uploads and the index of   *)
(* the knowledge base, the facts of a task, and the prompts, templates and   *)
(* requests that tasks are created from.                                     *)
(*****************************************************************************)
EXTENDS Knowledge, FactSheet, AgentSetup, FiniteSetTheorems, TLAPS

-------------------------------------------------------------------------------
(*****************************************************************************)
(* KnowledgeCorpus: the knowledge base has what the uploads claim and has    *)
(* it once, because a section of a content is reserved by at most one        *)
(* upload and every chunk belongs to the upload that reserved it.            *)
(*****************************************************************************)

UploadRow == [status : CorpusStatus, version : Versions \cup {NoVersion},
              codes : SUBSET SectionCodes, whole : BOOLEAN, indexed : SUBSET SectionCodes]

CorpusType ==
  /\ upload \in [Uploads -> UploadRow]
  /\ filed \subseteq Versions
  /\ knowledge \subseteq Versions \X SectionCodes
  /\ plans \subseteq Versions \X SUBSET SectionCodes
  /\ due \in [Uploads -> {"none", "enqueue", "mark"}]
  /\ jobs \in [Uploads -> [status : JobStatus, left : Nat]]

\* A row names a version, and what it has indexed is what it was for.
RowsFit ==
  \A u \in Uploads :
    /\ upload[u].status # "none" => upload[u].version \in Versions
    /\ upload[u].indexed \subseteq upload[u].codes

\* Only rows are queued and worked on.
Requested ==
  \A u \in Uploads :
    due[u] # "none" \/ jobs[u].status # "none" => upload[u].status # "none"

\* No two rows of one content have a section in common.
Disjoint ==
  \A u, w \in Uploads :
    /\ u # w /\ upload[u].status # "none" /\ upload[w].status # "none"
    /\ ContentOf[upload[u].version] = ContentOf[upload[w].version]
    => upload[u].codes \cap upload[w].codes = {}

\* Every chunk comes from a row that has reserved its section.
Owned ==
  \A k \in knowledge :
    \E u \in Uploads : /\ upload[u].status # "none" /\ upload[u].version = k[1]
                       /\ k[2] \in upload[u].codes

CorpusInv ==
  /\ CorpusType /\ RowsFit /\ Requested /\ Disjoint /\ Owned
  /\ SucceededIsIndexed /\ ProcessingHasItsJob

-------------------------------------------------------------------------------

LEMMA CorpusInitFits == CorpusInit => CorpusInv
<1> SUFFICES ASSUME CorpusInit PROVE CorpusInv
  OBVIOUS
<1>1. CorpusType
  BY DEF CorpusInit, CorpusType, NoUpload, UploadRow, CorpusStatus, JobStatus
<1> QED
  BY <1>1 DEF CorpusInit, CorpusInv, RowsFit, Requested, Disjoint, Owned, SucceededIsIndexed,
              ProcessingHasItsJob, NoUpload

\* A row whose sections nobody of its content has reserved
LEMMA NewUploadFits ==
  ASSUME CorpusInv, NEW u \in Uploads, NEW v \in Versions, NEW codes \in SUBSET SectionCodes,
         NEW whole \in BOOLEAN,
         NewUpload(u, v, codes, whole), codes \cap Reserved(ContentOf[v]) = {},
         UNCHANGED <<knowledge, jobs, died>>,
         filed' \subseteq Versions, plans' \subseteq Versions \X SUBSET SectionCodes
  PROVE  CorpusInv'
<1> DEFINE row == [status |-> "queued", version |-> v, codes |-> codes, whole |-> whole,
                   indexed |-> {}]
<1>1. upload' = [upload EXCEPT ![u] = row] /\ upload[u].status = "none" /\ row \in UploadRow
  BY DEF NewUpload, UploadRow, CorpusStatus
<1>2. upload \in [Uploads -> UploadRow]
  BY DEF CorpusInv, CorpusType
<1>3. upload'[u] = row /\ \A w \in Uploads : w # u => upload'[w] = upload[w]
  BY <1>1, <1>2
<1>4. CorpusType'
  BY <1>1, <1>2 DEF CorpusInv, CorpusType, NewUpload
<1>5. RowsFit' /\ Requested'
  BY <1>3 DEF CorpusInv, CorpusType, RowsFit, Requested, NewUpload
<1>6. ASSUME NEW w \in Uploads, w # u, upload[w].status # "none",
             ContentOf[upload[w].version] = ContentOf[v]
      PROVE  upload[w].codes \cap codes = {}
  BY <1>6 DEF Reserved, Rows
<1>7. Disjoint'
  <2> SUFFICES ASSUME NEW a \in Uploads, NEW b \in Uploads, a # b,
                      upload'[a].status # "none", upload'[b].status # "none",
                      ContentOf[upload'[a].version] = ContentOf[upload'[b].version]
               PROVE  upload'[a].codes \cap upload'[b].codes = {}
    BY DEF Disjoint
  <2>1. CASE a # u /\ b # u
    BY <2>1, <1>3 DEF CorpusInv, Disjoint
  <2>2. CASE a = u
    <3>1. upload'[b] = upload[b] /\ upload'[a].version = v /\ upload'[a].codes = codes
      BY <2>2, <1>3
    <3> QED BY <2>2, <3>1, <1>6
  <2>3. CASE b = u
    <3>1. upload'[a] = upload[a] /\ upload'[b].version = v /\ upload'[b].codes = codes
      BY <2>3, <1>3
    <3> QED BY <2>3, <3>1, <1>6
  <2> QED BY <2>1, <2>2, <2>3
<1>8. Owned'
  <2> SUFFICES ASSUME NEW k \in knowledge
               PROVE  \E w \in Uploads : /\ upload'[w].status # "none" /\ upload'[w].version = k[1]
                                         /\ k[2] \in upload'[w].codes
    BY DEF Owned
  <2>1. PICK w \in Uploads : /\ upload[w].status # "none" /\ upload[w].version = k[1]
                             /\ k[2] \in upload[w].codes
    BY DEF CorpusInv, Owned
  <2> QED BY <2>1, <1>1, <1>3
<1>9. SucceededIsIndexed' /\ ProcessingHasItsJob'
  BY <1>3 DEF CorpusInv, SucceededIsIndexed, ProcessingHasItsJob
<1> QED BY <1>4, <1>5, <1>7, <1>8, <1>9 DEF CorpusInv

LEMMA RowStaysTyped ==
  ASSUME upload \in [Uploads -> UploadRow], NEW u \in Uploads, NEW status \in CorpusStatus,
         NEW indexed \in SUBSET SectionCodes
  PROVE  [upload EXCEPT ![u].status = status, ![u].indexed = indexed] \in [Uploads -> UploadRow]
<1> DEFINE row == [upload[u] EXCEPT !.status = status, !.indexed = indexed]
<1>1. row \in UploadRow
  <2>1. upload[u] \in UploadRow
    OBVIOUS
  <2> QED BY <2>1 DEF UploadRow
<1>2. [upload EXCEPT ![u].status = status, ![u].indexed = indexed] = [upload EXCEPT ![u] = row]
  BY DEF UploadRow
<1> HIDE DEF row
<1> QED BY <1>1, <1>2

\* A row that changes nothing but its status and what it has indexed keeps the
\* reservations; the chunks come and go with its own sections.
LEMMA StatusFits ==
  ASSUME CorpusInv, NEW u \in Uploads, NEW status \in CorpusStatus \ {"none"},
         NEW indexed \in SUBSET upload[u].codes, upload[u].status # "none",
         upload' = [upload EXCEPT ![u].status = status, ![u].indexed = indexed],
         \A k \in knowledge' : k \in knowledge \/ k \in {upload[u].version} \X upload[u].codes,
         \A k \in knowledge : k \in knowledge' \/ k \in {upload[u].version} \X upload[u].codes,
         status = "succeeded" => {upload[u].version} \X indexed \subseteq knowledge',
         CorpusType', ProcessingHasItsJob',
         \A w \in Uploads \ {u} : due'[w] = due[w] /\ jobs'[w] = jobs[w]
  PROVE  CorpusInv'
<1>1. upload \in [Uploads -> UploadRow]
  BY DEF CorpusInv, CorpusType
<1>2. /\ \A w \in Uploads : /\ upload'[w].version = upload[w].version
                            /\ upload'[w].codes = upload[w].codes
                            /\ upload'[w].status = "none" <=> upload[w].status = "none"
      /\ \A w \in Uploads : w # u => upload'[w] = upload[w]
      /\ upload'[u].status = status /\ upload'[u].indexed = indexed
  BY <1>1 DEF UploadRow, CorpusStatus
<1>3. RowsFit' /\ Requested'
  <2>1. RowsFit'
    BY <1>2 DEF CorpusInv, RowsFit
  <2>2. \A w \in Uploads : due'[w] # "none" \/ jobs'[w].status # "none" => upload'[w].status # "none"
    <3> TAKE w \in Uploads
    <3>1. CASE w = u
      BY <1>2, <3>1
    <3>2. CASE w # u
      BY <1>2, <3>2 DEF CorpusInv, Requested
    <3> QED BY <3>1, <3>2
  <2> QED BY <2>1, <2>2 DEF Requested
<1>4. Disjoint'
  <2> SUFFICES ASSUME NEW a \in Uploads, NEW b \in Uploads, a # b,
                      upload'[a].status # "none", upload'[b].status # "none",
                      ContentOf[upload'[a].version] = ContentOf[upload'[b].version]
               PROVE  upload'[a].codes \cap upload'[b].codes = {}
    BY DEF Disjoint
  <2>1. /\ upload[a].status # "none" /\ upload[b].status # "none"
        /\ ContentOf[upload[a].version] = ContentOf[upload[b].version]
        /\ upload'[a].codes = upload[a].codes /\ upload'[b].codes = upload[b].codes
    BY <1>2
  <2>2. Disjoint
    BY DEF CorpusInv
  <2> QED BY <2>1, <2>2 DEF Disjoint
<1>5. Owned'
  <2>1. ASSUME NEW k \in knowledge'
        PROVE  \E w \in Uploads : /\ upload[w].status # "none" /\ upload[w].version = k[1]
                                  /\ k[2] \in upload[w].codes
    <3>1. CASE k \in knowledge
      BY <3>1 DEF CorpusInv, Owned
    <3>2. CASE k \in {upload[u].version} \X upload[u].codes
      BY <3>2
    <3> QED BY <2>1, <3>1, <3>2
  <2>2. ASSUME NEW k \in knowledge'
        PROVE  \E w \in Uploads : /\ upload'[w].status # "none" /\ upload'[w].version = k[1]
                                  /\ k[2] \in upload'[w].codes
    <3>1. PICK w \in Uploads : /\ upload[w].status # "none" /\ upload[w].version = k[1]
                               /\ k[2] \in upload[w].codes
      BY <2>1, <2>2
    <3> QED BY <1>2, <3>1
  <2> QED BY <2>2 DEF Owned
<1>6. SucceededIsIndexed'
  <2> SUFFICES ASSUME NEW w \in Uploads, upload'[w].status = "succeeded",
                      NEW c \in upload'[w].indexed
               PROVE  <<upload[w].version, c>> \in knowledge'
    BY <1>2 DEF SucceededIsIndexed
  <2>1. CASE w = u
    BY <2>1, <1>2
  <2>2. CASE w # u
    <3>1. <<upload[w].version, c>> \in knowledge /\ c \in upload[w].codes
      BY <2>2, <1>2 DEF CorpusInv, SucceededIsIndexed, RowsFit
    <3>2. upload[w].version = upload[u].version => c \notin upload[u].codes
      BY <2>2, <3>1, <1>2 DEF CorpusInv, Disjoint
    <3> QED BY <3>1, <3>2
  <2> QED BY <2>1, <2>2
<1> QED BY <1>3, <1>4, <1>5, <1>6 DEF CorpusInv

\* The same for a row that has failed or is being processed and keeps what it has indexed.
LEMMA UnfinishedFits ==
  ASSUME CorpusInv, NEW u \in Uploads, NEW status \in CorpusStatus \ {"none", "succeeded"},
         upload[u].status # "none", knowledge' = knowledge,
         upload' = [upload EXCEPT ![u].status = status, ![u].indexed = upload[u].indexed],
         CorpusType', ProcessingHasItsJob',
         \A w \in Uploads \ {u} : due'[w] = due[w] /\ jobs'[w] = jobs[w]
  PROVE  CorpusInv'
<1> PICK indexed : indexed = upload[u].indexed
  OBVIOUS
<1>1. indexed \in SUBSET upload[u].codes
  BY DEF CorpusInv, RowsFit
<1>2. upload' = [upload EXCEPT ![u].status = status, ![u].indexed = indexed]
  OBVIOUS
<1>3. status # "succeeded"
  OBVIOUS
<1> QED BY <1>1, <1>2, <1>3, StatusFits

-------------------------------------------------------------------------------
(* The steps *)

LEMMA JobsTyped ==
  ASSUME CorpusType, NEW u \in Uploads
  PROVE  /\ Enqueued(u) \in [Uploads -> [status : JobStatus, left : Nat]]
         /\ \A status \in JobStatus :
              JobTo(u, status) =>
                /\ jobs' \in [Uploads -> [status : JobStatus, left : Nat]]
                /\ jobs'[u].status = status
                /\ \A w \in Uploads : w # u => jobs'[w] = jobs[w]
<1>1. jobs \in [Uploads -> [status : JobStatus, left : Nat]] /\ MaxRetries \in Nat
  BY CorpusAssumption DEF CorpusType
<1>2. Enqueued(u) \in [Uploads -> [status : JobStatus, left : Nat]]
  BY <1>1 DEF Enqueued, JobStatus
<1>3. ASSUME NEW status \in JobStatus, JobTo(u, status)
      PROVE  /\ jobs' \in [Uploads -> [status : JobStatus, left : Nat]]
             /\ jobs'[u].status = status
             /\ \A w \in Uploads : w # u => jobs'[w] = jobs[w]
  <2> DEFINE left == IF status = "finished" THEN 0 ELSE jobs[u].left
  <2>1. jobs' = [jobs EXCEPT ![u] = [status |-> status, left |-> left]]
    BY <1>3 DEF JobTo
  <2>2. left \in Nat
    BY <1>1
  <2> HIDE DEF left
  <2> QED BY <1>1, <2>1, <2>2
<1> QED BY <1>2, <1>3

LEMMA ScanFits ==
  ASSUME CorpusInv, ScanFolder
  PROVE  CorpusInv'
<1>1. plans' \subseteq Versions \X SUBSET SectionCodes
  <2>1. filed \subseteq Versions
    BY DEF CorpusInv, CorpusType
  <2>2. \A v \in Versions : ContentOf[v] \in Contents /\ Headed[ContentOf[v]] \in SUBSET SectionCodes
    BY CorpusAssumption
  <2> QED BY <2>1, <2>2 DEF ScanFolder
<1>2. UNCHANGED <<upload, filed, knowledge, due, jobs, died>>
  BY DEF ScanFolder
<1> QED BY <1>1, <1>2
  DEF CorpusInv, CorpusType, RowsFit, Requested, Disjoint, Owned, SucceededIsIndexed,
      ProcessingHasItsJob

LEMMA RequestFits ==
  ASSUME CorpusInv, NEW u \in Uploads,
         (\E codes \in SUBSET SectionCodes : CreateUpload(u, codes)) \/ EnqueuePlan(u)
           \/ RetryUpload(u)
  PROVE  CorpusInv'
<1>1. ASSUME NEW codes \in SUBSET SectionCodes, CreateUpload(u, codes)
      PROVE  CorpusInv'
  <2>1. PICK v \in Versions :
          /\ codes \cap (Reserved(ContentOf[v]) \cup Indexed(ContentOf[v])) = {}
          /\ NewUpload(u, v, codes, Cardinality(codes) = 1)
    BY <1>1 DEF CreateUpload
  <2>2. UNCHANGED <<knowledge, plans, jobs, died>>
    BY <1>1 DEF CreateUpload
  <2> DEFINE whole == Cardinality(codes) = 1
  <2>3. whole \in BOOLEAN /\ NewUpload(u, v, codes, whole)
    BY <2>1
  <2>4. filed' \subseteq Versions /\ plans' \subseteq Versions \X SUBSET SectionCodes
    BY <1>1, <2>2 DEF CreateUpload, CorpusInv, CorpusType
  <2> HIDE DEF whole
  <2> QED BY <2>1, <2>2, <2>3, <2>4, NewUploadFits
<1>2. CASE EnqueuePlan(u)
  <2>1. PICK plan \in plans :
          LET content == ContentOf[plan[1]]
              codes == plan[2] \ (Indexed(content) \cup Reserved(content))
          IN /\ plans' = plans \ {plan}
             /\ IF codes = {} THEN UNCHANGED <<upload, due>>
                ELSE NewUpload(u, plan[1], codes, FALSE)
    BY <1>2 DEF EnqueuePlan
  <2>2. UNCHANGED <<filed, knowledge, jobs, died>>
    BY <1>2 DEF EnqueuePlan
  <2> DEFINE codes == plan[2] \ (Indexed(ContentOf[plan[1]]) \cup Reserved(ContentOf[plan[1]]))
  <2>3. /\ plan[1] \in Versions /\ codes \in SUBSET SectionCodes
        /\ filed' \subseteq Versions /\ plans' \subseteq Versions \X SUBSET SectionCodes
        /\ codes \cap Reserved(ContentOf[plan[1]]) = {}
    BY <2>1, <2>2 DEF CorpusInv, CorpusType
  <2>4. CASE codes = {}
    BY <2>1, <2>2, <2>3, <2>4
    DEF CorpusInv, CorpusType, RowsFit, Requested, Disjoint, Owned, SucceededIsIndexed, ProcessingHasItsJob
  <2>5. CASE codes # {}
    <3>1. NewUpload(u, plan[1], codes, FALSE)
      BY <2>1, <2>5
    <3> HIDE DEF codes
    <3> QED BY <2>2, <2>3, <3>1, NewUploadFits
  <2> QED BY <2>4, <2>5
<1>3. CASE RetryUpload(u)
  <2>1. /\ upload' = [upload EXCEPT ![u].status = "queued", ![u].indexed = {}]
        /\ due' = [due EXCEPT ![u] = "enqueue"]
        /\ upload[u].status = "failed" /\ UNCHANGED <<filed, knowledge, plans, jobs, died>>
    BY <1>3 DEF RetryUpload
  <2>2. CorpusType'
    <3>1. upload \in [Uploads -> UploadRow]
      BY DEF CorpusInv, CorpusType
    <3>2. upload' \in [Uploads -> UploadRow]
      BY <2>1, <3>1, RowStaysTyped DEF CorpusStatus
    <3> QED BY <2>1, <3>2 DEF CorpusInv, CorpusType
  <2>3. ProcessingHasItsJob'
    BY <2>1 DEF CorpusInv, CorpusType, ProcessingHasItsJob
  <2>4. "queued" \in CorpusStatus \ {"none"} /\ {} \in SUBSET upload[u].codes
    BY DEF CorpusStatus
  <2>5. \A w \in Uploads \ {u} : due'[w] = due[w] /\ jobs'[w] = jobs[w]
    BY <2>1 DEF CorpusInv, CorpusType
  <2>6. /\ \A k \in knowledge' : k \in knowledge
        /\ \A k \in knowledge : k \in knowledge'
        /\ upload[u].status # "none"
        /\ upload' = [upload EXCEPT ![u].status = "queued", ![u].indexed = {}]
    BY <2>1
  <2> QED BY <2>2, <2>3, <2>4, <2>5, <2>6, StatusFits
<1> QED BY <1>1, <1>2, <1>3

LEMMA QueueFits ==
  ASSUME CorpusInv, NEW u \in Uploads, Queue(u)
  PROVE  CorpusInv'
<1>1. /\ jobs' \in {jobs, Enqueued(u)} /\ UNCHANGED <<filed, knowledge, plans, died>>
      /\ due[u] # "none" /\ due' \in {[due EXCEPT ![u] = "none"], [due EXCEPT ![u] = "mark"]}
  BY DEF Queue, EnqueueUpload, LoseQueue, MarkUnavailable
<1>2. /\ jobs' \in [Uploads -> [status : JobStatus, left : Nat]]
      /\ due' \in [Uploads -> {"none", "enqueue", "mark"}]
  BY <1>1, JobsTyped DEF CorpusInv, CorpusType
<1>3. /\ \A w \in Uploads : jobs[w].status = "started" => jobs'[w].status = "started"
      /\ \A w \in Uploads \ {u} : jobs'[w] = jobs[w] /\ due'[w] = due[w]
  BY <1>1 DEF Enqueued, Waiting, CorpusInv, CorpusType
<1>4. upload[u].status # "none"
  BY <1>1 DEF CorpusInv, Requested
<1>5. CASE UNCHANGED upload
  BY <1>1, <1>2, <1>3, <1>4, <1>5
  DEF CorpusInv, CorpusType, RowsFit, Requested, Disjoint, Owned, SucceededIsIndexed,
      ProcessingHasItsJob
<1>6. CASE MarkUnavailable(u)
  <2>1. upload' = [upload EXCEPT ![u].status = "failed", ![u].indexed = upload[u].indexed]
    BY <1>6 DEF MarkUnavailable, CorpusInv, CorpusType, UploadRow
  <2>2. /\ upload[u].indexed \in SUBSET SectionCodes /\ "failed" \in CorpusStatus \ {"none"}
        /\ upload[u].indexed \in SUBSET upload[u].codes
    BY DEF CorpusInv, CorpusType, UploadRow, CorpusStatus, RowsFit
  <2>3. CorpusType'
    BY <1>1, <1>2, <2>1, <2>2, RowStaysTyped DEF CorpusInv, CorpusType
  <2>4. ProcessingHasItsJob'
    BY <1>1, <1>3, <1>6 DEF MarkUnavailable, CorpusInv, CorpusType, ProcessingHasItsJob
  <2>5. /\ \A k \in knowledge' : k \in knowledge
        /\ \A k \in knowledge : k \in knowledge'
        /\ \A w \in Uploads \ {u} : due'[w] = due[w] /\ jobs'[w] = jobs[w]
    BY <1>1, <1>3
  <2> QED BY <1>4, <2>1, <2>2, <2>3, <2>4, <2>5, StatusFits
<1> QED BY <1>5, <1>6 DEF Queue, EnqueueUpload, LoseQueue

\* Steps of a job that leave its row alone
LEMMA JobStepFits ==
  ASSUME CorpusInv, NEW u \in Uploads, UNCHANGED <<upload, filed, knowledge, plans, due>>,
         upload[u].status # "none",
         jobs' \in [Uploads -> [status : JobStatus, left : Nat]],
         \A w \in Uploads \ {u} : jobs'[w] = jobs[w],
         died' = died \/ died' = died \cup {u},
         jobs[u].status # "started" \/ upload[u].status # "processing" \/ u \in died'
  PROVE  CorpusInv'
BY DEF CorpusInv, CorpusType, RowsFit, Requested, Disjoint, Owned, SucceededIsIndexed,
       ProcessingHasItsJob

LEMMA JobFits ==
  ASSUME CorpusInv, NEW u \in Uploads, Job(u) \/ WorkerDies(u)
  PROVE  CorpusInv'
<1>1. /\ jobs[u].status # "none" /\ upload[u].status # "none"
      /\ UNCHANGED <<filed, plans, due>>
  BY DEF Job, StartUpload, CompleteUpload, FailUpload, EndFailedJob, WorkerDies, CorpusInv,
         Requested
<1>2. /\ upload \in [Uploads -> UploadRow] /\ upload[u].indexed \in SUBSET SectionCodes
      /\ upload[u].indexed \in SUBSET upload[u].codes
      /\ jobs \in [Uploads -> [status : JobStatus, left : Nat]]
  BY DEF CorpusInv, CorpusType, UploadRow, RowsFit
<1>3. \A status \in {"started", "finished", "failing"} :
        JobTo(u, status) =>
          /\ jobs' \in [Uploads -> [status : JobStatus, left : Nat]]
          /\ jobs'[u].status = status
          /\ \A w \in Uploads : w # u => jobs'[w] = jobs[w]
  BY JobsTyped DEF CorpusInv, JobStatus
<1>4. CASE StartUpload(u)
  <2>1. CASE upload[u].status \in {"queued", "failed"}
    <3>1. /\ upload' = [upload EXCEPT ![u].status = "processing", ![u].indexed = upload[u].indexed]
          /\ upload'[u].status = "processing" /\ JobTo(u, "started")
          /\ \A w \in Uploads : w # u => upload'[w] = upload[w]
          /\ UNCHANGED <<knowledge, died>>
      BY <1>2, <1>4, <2>1 DEF StartUpload, UploadRow
    <3>2. "processing" \in CorpusStatus \ {"none"}
      BY DEF CorpusStatus
    <3>3. CorpusType'
      BY <1>1, <1>2, <1>3, <3>1, <3>2, RowStaysTyped DEF CorpusInv, CorpusType
    <3>4. ProcessingHasItsJob'
      BY <1>3, <3>1 DEF CorpusInv, ProcessingHasItsJob
    <3>5. \A w \in Uploads \ {u} : due'[w] = due[w] /\ jobs'[w] = jobs[w]
      BY <1>1, <1>3, <3>1
    <3>6. "processing" \in CorpusStatus \ {"none", "succeeded"} /\ knowledge' = knowledge
      BY <3>1 DEF CorpusStatus
    <3>7. upload[u].status # "none" /\ u \in Uploads /\ CorpusInv
      BY <1>1, <1>2
    <3>8. upload' = [upload EXCEPT ![u].status = "processing", ![u].indexed = upload[u].indexed]
      BY <3>1
    <3> QED BY <3>3, <3>4, <3>5, <3>6, <3>7, <3>8, UnfinishedFits
  <2>2. CASE upload[u].status \notin {"queued", "failed"}
    BY <1>1, <1>3, <1>4, <2>2, JobStepFits DEF StartUpload
  <2> QED BY <2>1, <2>2
<1>5. CASE CompleteUpload(u) /\ upload[u].status = "processing"
  <2> DEFINE found == Found(upload[u])
             version == upload[u].version
  <2>1. /\ knowledge' = (knowledge \ {<<version, c>> : c \in upload[u].codes})
                          \cup {<<version, c>> : c \in found}
        /\ upload' = [upload EXCEPT ![u].status = "succeeded", ![u].indexed = found]
        /\ JobTo(u, "finished") /\ UNCHANGED died
    BY <1>5 DEF CompleteUpload
  <2>2. found \in SUBSET upload[u].codes /\ upload[u].codes \in SUBSET SectionCodes
    BY <1>2 DEF Found, UploadRow
  <2>3. version \in Versions /\ "succeeded" \in CorpusStatus \ {"none"}
    BY <1>1 DEF CorpusInv, RowsFit, CorpusStatus
  <2> HIDE DEF found
  <2>4. knowledge' \subseteq Versions \X SectionCodes
    BY <2>1, <2>2, <2>3 DEF CorpusInv, CorpusType
  <2>5. CorpusType'
    BY <1>1, <1>2, <1>3, <2>1, <2>2, <2>3, <2>4, RowStaysTyped DEF CorpusInv, CorpusType
  <2>6. /\ \A w \in Uploads : w # u => upload'[w] = upload[w]
        /\ upload'[u].status = "succeeded"
    BY <1>2, <2>1 DEF UploadRow
  <2>7. ProcessingHasItsJob'
    BY <1>3, <2>1, <2>6 DEF CorpusInv, ProcessingHasItsJob
  <2>8. /\ \A k \in knowledge' : k \in knowledge \/ k \in {version} \X upload[u].codes
        /\ \A k \in knowledge : k \in knowledge' \/ k \in {version} \X upload[u].codes
        /\ {version} \X found \subseteq knowledge'
    BY <2>1, <2>2
  <2>9. \A w \in Uploads \ {u} : jobs'[w] = jobs[w] /\ due'[w] = due[w]
    BY <1>1, <1>3, <2>1
  <2> QED BY <1>1, <2>1, <2>2, <2>3, <2>5, <2>7, <2>8, <2>9, StatusFits
<1>6. CASE CompleteUpload(u) /\ upload[u].status # "processing"
  BY <1>1, <1>3, <1>6, JobStepFits DEF CompleteUpload
<1>7. CASE FailUpload(u)
  <2>1. /\ upload' = [upload EXCEPT ![u].status = "failed", ![u].indexed = upload[u].indexed]
        /\ upload'[u].status = "failed" /\ JobTo(u, "failing")
        /\ \A w \in Uploads : w # u => upload'[w] = upload[w]
        /\ UNCHANGED <<knowledge, died>>
    BY <1>2, <1>7 DEF FailUpload, UploadRow
  <2>2. "failed" \in CorpusStatus \ {"none"}
    BY DEF CorpusStatus
  <2>3. CorpusType'
    BY <1>1, <1>2, <1>3, <2>1, <2>2, RowStaysTyped DEF CorpusInv, CorpusType
  <2>4. ProcessingHasItsJob'
    BY <1>3, <2>1 DEF CorpusInv, ProcessingHasItsJob
  <2>5. \A w \in Uploads \ {u} : due'[w] = due[w] /\ jobs'[w] = jobs[w]
    BY <1>1, <1>3, <2>1
  <2>6. "failed" \in CorpusStatus \ {"none", "succeeded"} /\ knowledge' = knowledge
    BY <2>1 DEF CorpusStatus
  <2>7. upload[u].status # "none" /\ u \in Uploads /\ CorpusInv
    BY <1>1, <1>2
  <2>8. upload' = [upload EXCEPT ![u].status = "failed", ![u].indexed = upload[u].indexed]
    BY <2>1
  <2> QED BY <2>3, <2>4, <2>5, <2>6, <2>7, <2>8, UnfinishedFits
<1>8. CASE EndFailedJob(u)
  <2>1. jobs' \in [Uploads -> [status : JobStatus, left : Nat]]
    <3>1. jobs[u].left > 0 => jobs[u].left - 1 \in Nat
      BY <1>2
    <3> QED BY <1>2, <1>8, <3>1 DEF EndFailedJob, JobStatus
  <2> QED BY <1>1, <1>2, <1>8, <2>1, JobStepFits DEF EndFailedJob
<1>9. CASE WorkerDies(u)
  BY <1>1, <1>3, <1>9, JobStepFits DEF WorkerDies
<1> QED BY <1>4, <1>5, <1>6, <1>7, <1>8, <1>9 DEF Job

-------------------------------------------------------------------------------
(* The theorems *)

LEMMA OneVersionPerSection == CorpusInv => IndexedOnce
<1> SUFFICES ASSUME CorpusInv, NEW a \in knowledge, NEW b \in knowledge,
                    ContentOf[a[1]] = ContentOf[b[1]], a[2] = b[2]
             PROVE  a = b
  BY DEF IndexedOnce
<1>1. PICK u \in Uploads : upload[u].status # "none" /\ upload[u].version = a[1] /\ a[2] \in upload[u].codes
  BY DEF CorpusInv, Owned
<1>2. PICK w \in Uploads : upload[w].status # "none" /\ upload[w].version = b[1] /\ b[2] \in upload[w].codes
  BY DEF CorpusInv, Owned
<1>3. u = w
  BY <1>1, <1>2 DEF CorpusInv, Disjoint
<1> QED BY <1>1, <1>2, <1>3 DEF CorpusInv, CorpusType

\* What the knowledge base has belongs to the upload that reserved it, and what an
\* upload claims is there, through retries, overlapping jobs and stale plans.
THEOREM CorpusInvariant == CorpusSpec => []CorpusInv
<1>1. CorpusInv /\ [CorpusNext]_corpusVars => CorpusInv'
  <2> SUFFICES ASSUME CorpusInv, CorpusNext \/ UNCHANGED corpusVars PROVE CorpusInv'
    OBVIOUS
  <2>1. CASE UNCHANGED corpusVars
    BY <2>1 DEF corpusVars, CorpusInv, CorpusType, RowsFit, Requested, Disjoint, Owned,
                SucceededIsIndexed, ProcessingHasItsJob
  <2>2. CASE ScanFolder
    BY <2>2, ScanFits
  <2>3. ASSUME NEW u \in Uploads,
               \/ \E codes \in SUBSET SectionCodes : CreateUpload(u, codes)
               \/ EnqueuePlan(u) \/ RetryUpload(u) \/ Queue(u) \/ Job(u) \/ WorkerDies(u)
        PROVE  CorpusInv'
    BY <2>3, RequestFits, QueueFits, JobFits
  <2> QED BY <2>1, <2>2, <2>3 DEF CorpusNext
<1> QED BY <1>1, CorpusInitFits, PTL DEF CorpusSpec

\* The knowledge base has what succeeded uploads claim to have indexed, no section of a
\* content twice, and no upload is shown as being processed without its job, whatever
\* the order of requests, retries, failures of Redis and deaths of the worker.
THEOREM CorpusIndexIsSound == CorpusSpec => []IndexMatchesUploads
<1>1. CorpusInv => IndexMatchesUploads
  BY OneVersionPerSection DEF CorpusInv, IndexMatchesUploads
<1> QED BY <1>1, CorpusInvariant, PTL

-------------------------------------------------------------------------------
(*****************************************************************************)
(* KnowledgeIndex: the pieces of a text cover it and keep to the limits,     *)
(* every piece gets the vector of its own text, and the choice of            *)
(* references is bounded, ordered and diverse.                               *)
(*****************************************************************************)

\* A set of numbers below a bound has a greatest one.
LEMMA GreatestExists ==
  ASSUME NEW S \in SUBSET Nat, S # {}, NEW b \in Nat, \A n \in S : n <= b
  PROVE  \E m \in S : \A n \in S : n <= m
<1> DEFINE T == {b - n : n \in S}
<1> DEFINE R == {ss \in Nat \X Nat : ss[1] < ss[2]}
<1>1. T \subseteq Nat /\ T # {}
  <2>1. \A n \in S : b - n \in Nat
    OBVIOUS
  <2> QED BY <2>1
<1>2. OpToRel(<, Nat) = R
  BY DEF OpToRel
<1>3. IsWellFoundedOn(R, Nat)
  BY <1>2, NatLessThanWellFounded
<1> HIDE DEF R, T
<1>4. PICK x \in T : \A y \in T : ~ (<<y, x>> \in R)
  BY <1>1, <1>3, WFMin
<1>7. \A y \in T : x <= y
  <2> TAKE y \in T
  <2>1. x \in Nat /\ y \in Nat
    BY <1>1
  <2>2. y < x => <<y, x>> \in R
    BY <2>1 DEF R
  <2> QED BY <2>1, <2>2, <1>4
<1> USE DEF T
<1>5. PICK m \in S : x = b - m
  OBVIOUS
<1>6. \A n \in S : n <= m
  <2> TAKE n \in S
  <2>1. x <= b - n
    BY <1>7
  <2> QED BY <1>5, <2>1
<1> QED BY <1>6

LEMMA LastOfIsGreatest ==
  ASSUME NEW S \in SUBSET Nat, S # {}, NEW b \in Nat, \A n \in S : n <= b
  PROVE  LastOf(S) \in S /\ \A n \in S : n <= LastOf(S)
<1>1. \E m \in S : \A n \in S : n <= m
  BY GreatestExists
<1> QED BY <1>1 DEF LastOf

-------------------------------------------------------------------------------
(* The pieces of a text *)

Piece == [from : Nat, to : Nat]

\* A text is cut from its beginning, into pieces that keep to the limits and overlap.
Chain(pieces) ==
  /\ pieces # <<>> => pieces[1].from = 0
  /\ \A i \in DOMAIN pieces :
       /\ pieces[i].to - pieces[i].from >= MinChars
       /\ pieces[i].to - pieces[i].from <= MaxChars
       /\ i > 1 => /\ pieces[i].from <= pieces[i - 1].to
                   /\ pieces[i - 1].to - pieces[i].from <= OverlapChars

\* As long as the text is not all cut, what is left is enough for a piece.
RestFits ==
  ranges # <<>> =>
    /\ passage.length > MaxChars
    /\ ranges[Len(ranges)].to + MinChars <= passage.length + OverlapChars

PassageFits ==
  /\ passage \in [length : Nat, ends : SUBSET Nat]
  /\ ranges \in Seq(Piece)
  /\ indexing = "split" => Chain(ranges) /\ RestFits

LEMMA LimitsFit ==
  /\ MinChars \in Nat /\ MaxChars \in Nat /\ OverlapChars \in Nat
  /\ MinChars >= 1 /\ MinChars <= MaxChars /\ OverlapChars < MinChars
  /\ 2 * MinChars <= MaxChars + OverlapChars
  BY IndexAssumption

\* A piece starts the overlap before the end of the one before it, with enough left for it.
LEMMA StartFits ==
  ASSUME PassageFits, indexing = "split", passage.length > MaxChars
  PROVE  /\ Start \in Nat /\ Start + MinChars <= passage.length
         /\ ranges = <<>> => Start = 0 /\ passage.length > Start + MaxChars
         /\ ranges # <<>> => Start = ranges[Len(ranges)].to - OverlapChars
<1>1. passage.length \in Nat
  BY DEF PassageFits
<1>2. CASE ranges = <<>>
  BY <1>1, <1>2, LimitsFit DEF Start
<1>3. CASE ranges # <<>>
  <2>1. PICK last \in Piece : last = ranges[Len(ranges)]
    BY <1>3 DEF PassageFits
  <2>2. last.to - last.from >= MinChars /\ last.to + MinChars <= passage.length + OverlapChars
    BY <1>3, <2>1 DEF PassageFits, Chain, RestFits
  <2>3. last.from \in Nat /\ last.to \in Nat
    BY <2>1 DEF Piece
  <2>4. Start = Greatest(last.to - OverlapChars, last.from + 1)
    BY <1>3, <2>1 DEF Start
  <2>5. last.to - OverlapChars >= last.from + 1
    BY <2>2, <2>3, LimitsFit
  <2>6. Start = last.to - OverlapChars
    BY <2>3, <2>4, <2>5, LimitsFit DEF Greatest
  <2>7. Start \in Nat /\ Start + MinChars <= passage.length
    BY <1>1, <2>2, <2>3, <2>5, <2>6, LimitsFit
  <2> QED BY <1>3, <2>1, <2>6, <2>7
<1> QED BY <1>2, <1>3

\* A piece is long enough, not too long, and leaves nothing or enough for the next one.
LEMMA EndFits ==
  ASSUME passage \in [length : Nat, ends : SUBSET Nat], NEW from \in Nat,
         from + MinChars <= passage.length
  PROVE  /\ End(from) \in Nat /\ End(from) <= passage.length
         /\ End(from) - from >= MinChars /\ End(from) - from <= MaxChars
         /\ End(from) = passage.length \/ End(from) + MinChars <= passage.length + OverlapChars
<1> DEFINE full == Least(from + MaxChars, passage.length)
<1> DEFINE room == passage.length + OverlapChars - MinChars
<1> DEFINE to == IF from + MinChars < room /\ room < full THEN room ELSE full
<1> DEFINE ends == {e \in passage.ends : from + MinChars < e /\ e <= to}
<1>1. End(from) = IF full = passage.length THEN full ELSE IF ends = {} THEN to ELSE LastOf(ends)
  BY DEF End
<1>2. passage.length \in Nat /\ passage.ends \subseteq Nat
  OBVIOUS
<1>3. CASE full = passage.length
  <2>1. passage.length <= from + MaxChars
    BY <1>2, <1>3, LimitsFit DEF Least
  <2>2. End(from) = passage.length
    BY <1>1, <1>3
  <2> HIDE DEF full
  <2> QED BY <1>2, <2>1, <2>2, LimitsFit
<1>4. CASE full # passage.length
  <2>1. full = from + MaxChars /\ from + MaxChars < passage.length
    BY <1>2, <1>4, LimitsFit DEF Least
  <2>2. room \in Nat /\ room < passage.length
    BY <1>2, LimitsFit
  <2>3. from + MinChars < room \/ full <= room
    BY <1>2, <2>1, LimitsFit
  <2>4. to \in Nat /\ to <= room /\ to <= full /\ from + MinChars <= to
    BY <1>2, <2>1, <2>2, <2>3, LimitsFit
  <2>5. CASE ends = {}
    <3>1. End(from) = to
      BY <1>1, <1>4, <2>5
    <3> HIDE DEF to, full
    <3> QED BY <3>1, <1>2, <2>1, <2>2, <2>4, LimitsFit
  <2>6. CASE ends # {}
    <3>1. End(from) = LastOf(ends)
      BY <1>1, <1>4, <2>6
    <3>2. ends \in SUBSET Nat /\ \A e \in ends : e <= to
      BY <1>2
    <3>3. LastOf(ends) \in ends
      BY <2>4, <2>6, <3>2, LastOfIsGreatest
    <3>4. End(from) \in Nat /\ from + MinChars < End(from) /\ End(from) <= to
      BY <3>1, <3>2, <3>3
    <3> HIDE DEF to, full
    <3> QED BY <3>4, <1>2, <2>1, <2>2, <2>4, LimitsFit
  <2> QED BY <2>5, <2>6
<1> QED BY <1>3, <1>4

LEMMA ChainGrows ==
  ASSUME NEW pieces \in Seq(Piece), Chain(pieces), NEW piece \in Piece,
         piece.to - piece.from >= MinChars, piece.to - piece.from <= MaxChars,
         pieces = <<>> => piece.from = 0,
         pieces # <<>> => piece.from = pieces[Len(pieces)].to - OverlapChars
  PROVE  Append(pieces, piece) \in Seq(Piece) /\ Chain(Append(pieces, piece))
<1> DEFINE longer == Append(pieces, piece)
<1>1. longer \in Seq(Piece) /\ Len(longer) = Len(pieces) + 1 /\ Len(pieces) \in Nat
      /\ DOMAIN longer = 1 .. (Len(pieces) + 1) /\ DOMAIN pieces = 1 .. Len(pieces)
  OBVIOUS
<1>2. /\ \A i \in 1 .. Len(pieces) : longer[i] = pieces[i]
      /\ longer[Len(pieces) + 1] = piece
  OBVIOUS
<1>3. \A i \in 1 .. Len(pieces) : pieces[i].from \in Nat /\ pieces[i].to \in Nat
  <2> TAKE i \in 1 .. Len(pieces)
  <2>1. pieces[i] \in Piece
    BY <1>1
  <2> QED BY <2>1 DEF Piece
<1>4. piece.from \in Nat /\ piece.to \in Nat
  BY DEF Piece
<1>5. longer[1].from = 0
  <2>1. CASE pieces = <<>>
    BY <2>1, <1>2
  <2>2. CASE pieces # <<>>
    BY <2>2, <1>2 DEF Chain
  <2> QED BY <2>1, <2>2
<1> HIDE DEF longer
<1>6. ASSUME NEW i \in DOMAIN longer
      PROVE  /\ longer[i].to - longer[i].from >= MinChars
             /\ longer[i].to - longer[i].from <= MaxChars
             /\ i > 1 => /\ longer[i].from <= longer[i - 1].to
                         /\ longer[i - 1].to - longer[i].from <= OverlapChars
  <2>1. CASE i = Len(pieces) + 1
    <3>1. i > 1 => /\ longer[i - 1] = pieces[Len(pieces)]
                   /\ piece.from = pieces[Len(pieces)].to - OverlapChars
                   /\ pieces[Len(pieces)].to \in Nat
      BY <1>1, <1>2, <1>3, <2>1
    <3>2. longer[i] = piece
      BY <1>2, <2>1
    <3>3. ASSUME NEW n \in Nat, piece.from = n - OverlapChars
          PROVE  piece.from <= n /\ n - piece.from <= OverlapChars
      BY <1>4, <3>3, LimitsFit
    <3>4. i > 1 => /\ piece.from <= pieces[Len(pieces)].to
                   /\ pieces[Len(pieces)].to - piece.from <= OverlapChars
      BY <3>1, <3>3
    <3> QED BY <3>1, <3>2, <3>4
  <2>2. CASE i # Len(pieces) + 1
    <3>1. i \in 1 .. Len(pieces)
      BY <1>1, <1>6, <2>2
    <3>2. longer[i] = pieces[i] /\ (i > 1 => longer[i - 1] = pieces[i - 1])
      BY <1>1, <1>2, <3>1
    <3> QED BY <1>1, <3>1, <3>2 DEF Chain
  <2> QED BY <2>1, <2>2
<1> QED BY <1>1, <1>5, <1>6 DEF Chain, longer

LEMMA SplitFits ==
  ASSUME PassageFits, SplitPassage
  PROVE  PassageFits' /\ PiecesCoverText'
<1>0. passage' = passage /\ passage.length \in Nat /\ indexing = "split"
  BY DEF SplitPassage, PassageFits
<1>1. CASE passage.length <= MaxChars
  <2> DEFINE piece == [from |-> 0, to |-> passage.length]
  <2>1. ranges' = <<piece>>
    BY <1>1 DEF SplitPassage
  <2>2. piece \in Piece /\ piece.from = 0 /\ piece.to = passage.length
    BY <1>0 DEF Piece
  <2> HIDE DEF piece
  <2>3. ranges' \in Seq(Piece) /\ Len(ranges') = 1 /\ ranges'[1] = piece /\ DOMAIN ranges' = {1}
    BY <2>1, <2>2
  <2>4. indexing' = "embed"
    BY <2>2, <2>3, <1>0 DEF SplitPassage
  <2>5. PiecesCoverText'
    BY <1>0, <1>1, <2>2, <2>3, <2>4 DEF PiecesCoverText
  <2> QED BY <1>0, <2>3, <2>4, <2>5 DEF PassageFits
<1>2. CASE ~(passage.length <= MaxChars)
  <2>1. passage.length > MaxChars
    BY <1>0, <1>2, LimitsFit
  <2>2. /\ Start \in Nat /\ Start + MinChars <= passage.length
        /\ ranges = <<>> => Start = 0 /\ passage.length > Start + MaxChars
        /\ ranges # <<>> => Start = ranges[Len(ranges)].to - OverlapChars
    BY <1>0, <2>1, StartFits
  <2>3. /\ End(Start) \in Nat /\ End(Start) <= passage.length
        /\ End(Start) - Start >= MinChars /\ End(Start) - Start <= MaxChars
        /\ End(Start) = passage.length \/ End(Start) + MinChars <= passage.length + OverlapChars
    BY <2>2, EndFits DEF PassageFits
  <2>4. PICK piece \in Piece : piece = [from |-> Start, to |-> End(Start)]
    BY <2>2, <2>3 DEF Piece
  <2>5. ranges \in Seq(Piece) /\ Chain(ranges)
    BY <1>0 DEF PassageFits
  <2>6. ranges' = Append(ranges, piece)
    BY <1>2, <2>4 DEF SplitPassage
  <2>7. ranges' \in Seq(Piece) /\ Chain(ranges')
    BY <2>2, <2>3, <2>4, <2>5, <2>6, ChainGrows
  <2>8. Len(ranges') \in Nat \ {0} /\ ranges'[Len(ranges')] = piece /\ DOMAIN ranges' = 1 .. Len(ranges')
    BY <2>5, <2>6
  <2>9. indexing' = IF piece.to = passage.length THEN "embed" ELSE "split"
    BY <2>8 DEF SplitPassage
  <2>10. indexing' = "split" => RestFits'
    BY <1>0, <2>1, <2>3, <2>4, <2>8, <2>9 DEF RestFits
  <2>11. PassageFits'
    BY <1>0, <2>7, <2>10 DEF PassageFits
  <2>12. PiecesCoverText'
    BY <1>0, <2>4, <2>7, <2>8, <2>9 DEF PiecesCoverText, Chain
  <2> QED BY <2>11, <2>12
<1> QED BY <1>1, <1>2

-------------------------------------------------------------------------------
(* The vectors *)

VectorsFit == vectors \in Seq(Nat) /\ VectorsMatchTexts

\* A response that has each index of the batch once gives each text its own vector,
\* whatever the indices in which it comes.
LEMMA ResponseIsSorted ==
  ASSUME NEW n \in Nat, NEW k \in Nat, NEW indices \in [1 .. n -> 1 .. n],
         {indices[i] : i \in 1 .. n} = 1 .. n
  PROVE  InRequestOrder([i \in 1 .. n |-> [index |-> indices[i], text |-> k + indices[i]]])
           = [i \in 1 .. n |-> k + i]
<1> DEFINE item(i) == [index |-> indices[i], text |-> k + indices[i]]
<1> DEFINE response == [i \in 1 .. n |-> item(i)]
<1>1. DOMAIN response = 1 .. n /\ \A i \in 1 .. n : response[i] = item(i)
  OBVIOUS
<1>2. ASSUME NEW i \in 1 .. n
      PROVE  (CHOOSE x \in {response[j] : j \in DOMAIN response} : x.index = i).text = k + i
  <2> DEFINE x == CHOOSE x \in {response[j] : j \in DOMAIN response} : x.index = i
  <2>1. PICK j \in 1 .. n : indices[j] = i
    OBVIOUS
  <2>2. item(j) \in {response[l] : l \in DOMAIN response} /\ item(j).index = i
    BY <1>1, <2>1
  <2>3. x \in {response[l] : l \in DOMAIN response} /\ x.index = i
    BY <2>2
  <2>4. \A y \in {response[l] : l \in DOMAIN response} : y.text = k + y.index
    BY <1>1
  <2> QED BY <2>3, <2>4
<1> QED BY <1>1, <1>2 DEF InRequestOrder

LEMMA EmbedFits ==
  ASSUME VectorsFit, PassageFits, EmbedBatch
  PROVE  VectorsFit'
<1> DEFINE k == Len(vectors)
<1> DEFINE n == Batch
<1>1. k \in Nat /\ DOMAIN vectors = 1 .. k
  BY DEF VectorsFit
<1>2. n \in Nat
  <2>1. Len(ranges) \in Nat /\ k < Len(ranges)
    BY DEF PassageFits, EmbedBatch
  <2>2. BatchSize \in Nat
    BY IndexAssumption
  <2> QED BY <1>1, <2>1, <2>2 DEF Batch, Least
<1>3. CASE vectors' = vectors
  BY <1>3 DEF VectorsFit, VectorsMatchTexts
<1>4. CASE \E indices \in [1 .. n -> 1 .. n] :
             /\ {indices[i] : i \in 1 .. n} = 1 .. n
             /\ vectors' = vectors \o InRequestOrder([i \in 1 .. n |-> [index |-> indices[i], text |-> k + indices[i]]])
  <2> HIDE DEF n, k
  <2>1. vectors' = vectors \o [i \in 1 .. n |-> k + i]
    BY <1>1, <1>2, <1>4, ResponseIsSorted
  <2> DEFINE new == [i \in 1 .. n |-> k + i]
  <2>2. new \in Seq(Nat) /\ Len(new) = n /\ \A i \in 1 .. n : new[i] = k + i
    BY <1>1, <1>2
  <2>3. vectors \in Seq(Nat) /\ Len(vectors) = k /\ \A i \in 1 .. k : vectors[i] = i
    BY <1>1 DEF VectorsFit, VectorsMatchTexts, k
  <2>4. vectors' \in Seq(Nat) /\ Len(vectors') = k + n
    BY <1>1, <1>2, <2>1, <2>2, <2>3
  <2>5. ASSUME NEW i \in 1 .. (k + n) PROVE vectors'[i] = i
    <3> HIDE DEF new
    <3>1. vectors'[i] = IF i <= k THEN vectors[i] ELSE new[i - k]
      BY <1>1, <1>2, <2>1, <2>2, <2>3, <2>5 DEF new
    <3>2. i > k => i - k \in 1 .. n
      BY <1>1, <1>2
    <3> QED BY <1>1, <1>2, <2>2, <2>3, <3>1, <3>2
  <2>6. DOMAIN vectors' = 1 .. (k + n)
    BY <2>4
  <2> QED BY <2>4, <2>5, <2>6 DEF VectorsFit, VectorsMatchTexts
<1>5. PICK indices \in [1 .. n -> 1 .. n] :
        IF {indices[i] : i \in 1 .. n} = 1 .. n
        THEN vectors' = vectors \o InRequestOrder([i \in 1 .. n |-> [index |-> indices[i], text |-> k + indices[i]]])
        ELSE vectors' = vectors
  BY DEF EmbedBatch
<1> QED BY <1>3, <1>4, <1>5

-------------------------------------------------------------------------------
(* The references *)

Reference == [rank : Nat, source : ChunkSources, twins : SUBSET Nat]

SearchFits ==
  /\ search \in [looked : Nat, selected : Seq(Reference)]
  /\ search.looked <= PoolSize
  /\ \A i \in DOMAIN search.selected : search.selected[i].rank <= search.looked
  /\ \A s \in ChunkSources : Cardinality(OfSource(s)) <= MaxPerSource
  /\ ReferencesAreDiverse

LEMMA SourceSharesAreFinite ==
  ASSUME search \in [looked : Nat, selected : Seq(Reference)], NEW s
  PROVE  IsFiniteSet(OfSource(s)) /\ Cardinality(OfSource(s)) \in Nat
<1>1. Len(search.selected) \in Nat /\ DOMAIN search.selected = 1 .. Len(search.selected)
  OBVIOUS
<1>2. OfSource(s) \in SUBSET (1 .. Len(search.selected))
  BY <1>1 DEF OfSource
<1>3. IsFiniteSet(1 .. Len(search.selected))
  BY <1>1, FS_Interval
<1>4. IsFiniteSet(OfSource(s))
  BY <1>2, <1>3, FS_Subset
<1> QED BY <1>4, FS_CardinalityType

\* RagRetriever: the next best candidate, taken or passed over.
LEMMA SelectFits ==
  ASSUME SearchFits, SelectChunk
  PROVE  SearchFits'
<1>1. PICK s \in ChunkSources, twins \in SUBSET DOMAIN search.selected :
        LET taken == Cardinality(OfSource(s)) < MaxPerSource /\ twins \cap OfSource(s) = {}
        IN search' = [looked   |-> search.looked + 1,
                      selected |-> IF taken THEN Append(search.selected,
                                     [rank |-> search.looked + 1, source |-> s, twins |-> twins])
                                   ELSE search.selected]
  BY DEF SelectChunk
<1> DEFINE taken == Cardinality(OfSource(s)) < MaxPerSource /\ twins \cap OfSource(s) = {}
<1> DEFINE new == [rank |-> search.looked + 1, source |-> s, twins |-> twins]
<1> DEFINE n == Len(search.selected)
<1>2. /\ n \in Nat /\ DOMAIN search.selected = 1 .. n /\ search.selected \in Seq(Reference)
      /\ search.looked \in Nat
  BY DEF SearchFits
<1>3. search.looked + 1 \in Nat /\ search.looked + 1 <= PoolSize /\ n < TopK /\ PoolSize \in Nat /\ TopK \in Nat
      /\ MaxPerSource \in Nat
  BY <1>2, IndexAssumption DEF SelectChunk, Searching, Least
<1>4. CASE ~taken
  <2>1. search' = [looked |-> search.looked + 1, selected |-> search.selected]
    BY <1>1, <1>4
  <2>2. \A t : OfSource(t)' = OfSource(t)
    BY <2>1 DEF OfSource
  <2>3. ASSUME NEW i \in 1 .. n PROVE search.selected[i].rank <= search.looked + 1
    <3>1. search.selected[i] \in Reference
      BY <1>2
    <3>2. search.selected[i].rank \in Nat /\ search.selected[i].rank <= search.looked
      BY <1>2, <3>1 DEF Reference, SearchFits
    <3> QED BY <1>2, <3>2
  <2>4. ReferencesAreDiverse'
    BY <2>1, <2>2 DEF SearchFits, ReferencesAreDiverse
  <2> QED BY <1>2, <1>3, <2>1, <2>2, <2>3, <2>4 DEF SearchFits
<1>5. CASE taken
  <2>1. search' = [looked |-> search.looked + 1, selected |-> Append(search.selected, new)]
    BY <1>1, <1>5
  <2>2. new \in Reference
    BY <1>2 DEF Reference
  <2>3. new.rank = search.looked + 1 /\ new.source = s /\ new.twins = twins
    OBVIOUS
  <2> HIDE DEF new
  <2>4. /\ search'.selected \in Seq(Reference) /\ Len(search'.selected) = n + 1
        /\ DOMAIN search'.selected = 1 .. (n + 1)
        /\ \A i \in 1 .. n : search'.selected[i] = search.selected[i]
        /\ search'.selected[n + 1] = new /\ search'.looked = search.looked + 1
        /\ search' \in [looked : Nat, selected : Seq(Reference)]
    BY <1>2, <2>1, <2>2
  <2>5. \A i \in 1 .. n : search.selected[i].rank \in Nat /\ search.selected[i].rank <= search.looked
    <3> TAKE i \in 1 .. n
    <3>1. search.selected[i] \in Reference
      BY <1>2
    <3> QED BY <1>2, <3>1 DEF Reference, SearchFits
  <2>6. \A i \in DOMAIN search'.selected : search'.selected[i].rank <= search'.looked
    <3> TAKE i \in DOMAIN search'.selected
    <3>1. CASE i = n + 1
      BY <1>2, <2>3, <2>4, <3>1
    <3>2. CASE i # n + 1
      <4>1. i \in 1 .. n
        BY <1>2, <2>4, <3>2
      <4>2. search'.selected[i] = search.selected[i]
        BY <2>4, <4>1
      <4>3. search.selected[i].rank \in Nat /\ search.selected[i].rank <= search.looked
        BY <2>5, <4>1
      <4> QED BY <1>2, <2>4, <4>2, <4>3
    <3> QED BY <3>1, <3>2
  <2>7. ASSUME NEW t \in ChunkSources PROVE Cardinality(OfSource(t))' <= MaxPerSource
    <3>1. IsFiniteSet(OfSource(t)) /\ Cardinality(OfSource(t)) \in Nat
      BY SourceSharesAreFinite DEF SearchFits
    <3>2. CASE t = s
      <4>1. OfSource(t)' = OfSource(t) \cup {n + 1}
        BY <1>2, <2>3, <2>4, <3>2 DEF OfSource
      <4>2. Cardinality(OfSource(t) \cup {n + 1}) <= Cardinality(OfSource(t)) + 1
        <5>1. Cardinality(OfSource(t) \cup {n + 1}) \in {Cardinality(OfSource(t)), Cardinality(OfSource(t)) + 1}
          BY <3>1, FS_AddElement, Zenon
        <5> QED BY <3>1, <5>1
      <4>3. Cardinality(OfSource(t)) < MaxPerSource
        BY <1>5, <3>2
      <4>4. IsFiniteSet(OfSource(t) \cup {n + 1}) /\ Cardinality(OfSource(t) \cup {n + 1}) \in Nat
        BY <3>1, FS_AddElement, FS_CardinalityType
      <4> QED BY <1>3, <3>1, <4>1, <4>2, <4>3, <4>4
    <3>3. CASE t # s
      <4>1. OfSource(t)' = OfSource(t)
        BY <1>2, <2>3, <2>4, <3>3 DEF OfSource
      <4> QED BY <4>1 DEF SearchFits
    <3> QED BY <3>2, <3>3
  <2>8. \A i \in DOMAIN search'.selected : search'.selected[i].rank <= PoolSize
        /\ search'.selected[i].source \in ChunkSources
    <3> TAKE i \in DOMAIN search'.selected
    <3>1. search'.selected[i] \in Reference
      BY <2>4
    <3>2. search'.selected[i].rank \in Nat /\ search'.selected[i].source \in ChunkSources
      BY <3>1 DEF Reference
    <3>3. search'.selected[i].rank <= search.looked + 1
      BY <2>4, <2>6
    <3> QED BY <1>2, <1>3, <3>2, <3>3
  <2>9. ASSUME NEW i \in 1 .. (n + 1), NEW j \in 1 .. (n + 1), i < j
        PROVE  /\ search'.selected[i].rank < search'.selected[j].rank
               /\ ~(search'.selected[i].source = search'.selected[j].source /\ i \in search'.selected[j].twins)
    <3>1. i \in 1 .. n /\ search'.selected[i] = search.selected[i]
      BY <1>2, <2>4, <2>9
    <3>2. CASE j = n + 1
      <4>1. search.selected[i].source = s => i \in OfSource(s)
        BY <1>2, <3>1 DEF OfSource
      <4>2. i \notin twins \/ search.selected[i].source # s
        BY <1>5, <4>1
      <4>3. search'.selected[j] = new
        BY <2>4, <3>2
      <4>4. search.selected[i].rank < new.rank
        BY <1>2, <2>3, <2>5, <3>1
      <4> QED BY <2>3, <3>1, <4>2, <4>3, <4>4
    <3>3. CASE j # n + 1
      <4>1. j \in 1 .. n /\ search'.selected[j] = search.selected[j]
        BY <1>2, <2>4, <3>3
      <4> QED BY <1>2, <2>9, <3>1, <4>1 DEF SearchFits, ReferencesAreDiverse
    <3> QED BY <3>2, <3>3
  <2>10. ReferencesAreDiverse'
    <3>1. Len(search'.selected) <= TopK
      BY <1>2, <1>3, <2>4
    <3>2. \A i, j \in DOMAIN search'.selected :
            LET a == search'.selected[i]  b == search'.selected[j] IN
            /\ a.rank <= PoolSize
            /\ i < j => a.rank < b.rank /\ ~(a.source = b.source /\ i \in b.twins)
      BY <2>4, <2>8, <2>9
    <3>3. (\A i \in DOMAIN search.selected : Cardinality(OfSource(search.selected[i].source)) <= MaxPerSource)'
      <4> SUFFICES ASSUME NEW i \in DOMAIN search'.selected
                   PROVE  Cardinality({k \in DOMAIN search'.selected :
                            search'.selected[k].source = search'.selected[i].source}) <= MaxPerSource
        BY DEF OfSource
      <4>1. PICK t \in ChunkSources : t = search'.selected[i].source
        BY <2>8
      <4> QED BY <2>7, <4>1 DEF OfSource
    <3> QED BY <3>1, <3>2, <3>3 DEF ReferencesAreDiverse
  <2> QED BY <2>4, <1>3, <2>6, <2>7, <2>10 DEF SearchFits
<1> QED BY <1>4, <1>5

-------------------------------------------------------------------------------
(* The whole *)

IndexInv == PassageFits /\ VectorsFit /\ SearchFits /\ PiecesCoverText

LEMMA IndexInitFits == IndexInit => IndexInv
<1> SUFFICES ASSUME IndexInit PROVE IndexInv
  OBVIOUS
<1>0. PICK n \in 1 .. MaxLength : \E b \in SUBSET (1 .. n) : passage = [length |-> n, ends |-> b]
  BY DEF IndexInit
<1>1. PICK b \in SUBSET (1 .. n) : passage = [length |-> n, ends |-> b]
  BY <1>0
<1>2. n \in Nat /\ b \in SUBSET Nat
  BY IndexAssumption
<1>3. PassageFits
  BY <1>1, <1>2 DEF PassageFits, IndexInit, Chain, RestFits, Piece
<1>4. SearchFits
  <2>1. \A s : OfSource(s) = {}
    BY DEF IndexInit, OfSource
  <2>2. search = [looked |-> 0, selected |-> <<>>] /\ PoolSize \in Nat /\ TopK \in Nat /\ MaxPerSource \in Nat
    BY IndexAssumption DEF IndexInit
  <2>3. Cardinality({}) = 0
    BY FS_EmptySet
  <2>4. search.selected = <<>> /\ search.looked = 0 /\ search \in [looked : Nat, selected : Seq(Reference)]
    BY <2>2
  <2>5. ReferencesAreDiverse
    BY <2>2, <2>4 DEF ReferencesAreDiverse
  <2>6. \A s \in ChunkSources : Cardinality(OfSource(s)) <= MaxPerSource
    <3> TAKE s \in ChunkSources
    <3>1. OfSource(s) = {}
      BY <2>1
    <3> QED BY <2>2, <2>3, <3>1
  <2>7. search.looked <= PoolSize /\ \A i \in DOMAIN search.selected : search.selected[i].rank <= search.looked
    BY <2>2, <2>4
  <2> QED BY <2>4, <2>5, <2>6, <2>7 DEF SearchFits
<1> QED BY <1>3, <1>4 DEF IndexInv, IndexInit, VectorsFit, VectorsMatchTexts, PiecesCoverText

LEMMA SearchStays ==
  ASSUME SearchFits, search' = search
  PROVE  SearchFits'
<1>1. \A s : OfSource(s)' = OfSource(s)
  BY DEF OfSource
<1> QED BY <1>1 DEF SearchFits, ReferencesAreDiverse

\* Texts are cut and embedded, and queries answered, within the limits.
THEOREM IndexInvariant == IndexSpec => []IndexInv
<1>1. IndexInv /\ [IndexNext]_indexVars => IndexInv'
  <2> SUFFICES ASSUME IndexInv, IndexNext \/ UNCHANGED indexVars PROVE IndexInv'
    OBVIOUS
  <2>1. CASE UNCHANGED indexVars
    BY <2>1, SearchStays DEF indexVars, IndexInv, PassageFits, Chain, RestFits, VectorsFit, VectorsMatchTexts,
                PiecesCoverText
  <2>2. CASE SplitPassage
    <3>1. VectorsFit' /\ SearchFits'
      BY <2>2, SearchStays DEF SplitPassage, IndexInv, VectorsFit, VectorsMatchTexts
    <3> QED BY <2>2, <3>1, SplitFits DEF IndexInv
  <2>3. CASE EmbedBatch
    <3>1. passage' = passage /\ ranges' = ranges /\ search' = search
          /\ indexing' \in {"embed", "failed"} /\ indexing = "embed"
      BY <2>3 DEF EmbedBatch
    <3>2. PassageFits' /\ PiecesCoverText' /\ SearchFits'
      BY <3>1, SearchStays DEF IndexInv, PassageFits, PiecesCoverText
    <3> QED BY <2>3, <3>2, EmbedFits DEF IndexInv
  <2>4. CASE StoreChunks
    <3>1. SearchFits'
      BY <2>4, SearchStays DEF StoreChunks, IndexInv
    <3>2. PassageFits' /\ VectorsFit' /\ PiecesCoverText'
      BY <2>4 DEF StoreChunks, PassageFits, VectorsFit, VectorsMatchTexts, PiecesCoverText
    <3> QED BY <3>1, <3>2 DEF IndexInv
  <2>5. CASE SelectChunk
    <3>1. PassageFits' /\ VectorsFit' /\ PiecesCoverText'
      BY <2>5 DEF SelectChunk, IndexInv, PassageFits, Chain, RestFits, VectorsFit, VectorsMatchTexts,
                  PiecesCoverText
    <3> QED BY <2>5, <3>1, SelectFits DEF IndexInv
  <2>6. CASE EndSearch
    <3>1. PassageFits' /\ VectorsFit' /\ PiecesCoverText'
      BY <2>6 DEF EndSearch, IndexInv, PassageFits, VectorsFit, VectorsMatchTexts, PiecesCoverText
    <3> QED BY <2>6, <3>1, SearchStays DEF IndexInv, EndSearch
  <2> QED BY <2>1, <2>2, <2>3, <2>4, <2>5, <2>6 DEF IndexNext
<1> QED BY <1>1, IndexInitFits, PTL DEF IndexSpec

\* SectionChunker, the embedding provider and RagRetriever, for every text, every way the
\* service answers and every ranking of the stored chunks.
THEOREM IndexStaysSound == IndexSpec => []IndexIsSound
<1>1. IndexInv => IndexIsSound
  BY DEF IndexInv, IndexIsSound, VectorsFit, SearchFits
<1> QED BY <1>1, IndexInvariant, PTL

\* engine/rag, providers/embedding, rag_uploads: what the knowledge base has is what
\* uploads claim, each piece with its own vector, and references are a sound choice.
THEOREM KnowledgeStaysSound == KnowledgeSpec => []KnowledgeIsSound
<1>1. IndexMatchesUploads /\ IndexIsSound => KnowledgeIsSound
  BY DEF KnowledgeIsSound
<1> QED BY <1>1, CorpusIndexIsSound, IndexStaysSound, PTL DEF KnowledgeSpec

-------------------------------------------------------------------------------
(*****************************************************************************)
(* FactSheet: merging loses no value of the right shape, what the            *)
(* requirement says decides, a value in the sources is not exchanged behind  *)
(* a person's back, and a run writes from one value for each field.          *)
(*****************************************************************************)

OfField(C, f) == {c \in C : c.field = f}

ItemsIn(C) == UNION {ItemsOf(c) : c \in C}

Claims(facts) == \A e \in facts : e.field \in FactFields /\ e.value \in Value

-------------------------------------------------------------------------------
(* Merging *)

LEMMA ValuesAreFinite == IsFiniteSet(Value)
<1> DEFINE shapes == {"text", "list", "other"}
<1> DEFINE pairs == shapes \X (SUBSET FactValues)
<1> DEFINE triples == ValueTypes \X pairs
<1> DEFINE value == [p \in triples |-> [type |-> p[1], shape |-> p[2][1], atoms |-> p[2][2]]]
<1>1. IsFiniteSet(SUBSET FactValues)
  BY FactAssumption, FS_SUBSET
<1>2. IsFiniteSet(shapes)
  <2>1. IsFiniteSet({"text"}) /\ IsFiniteSet({"list"}) /\ IsFiniteSet({"other"})
    BY FS_Singleton
  <2>2. shapes = {"text"} \cup ({"list"} \cup {"other"})
    OBVIOUS
  <2>3. IsFiniteSet({"list"} \cup {"other"})
    BY <2>1, FS_Union
  <2>4. IsFiniteSet({"text"} \cup ({"list"} \cup {"other"}))
    BY <2>1, <2>3, FS_Union
  <2> QED BY <2>2, <2>4
<1>3. IsFiniteSet(pairs)
  BY <1>1, <1>2, FS_Product
<1>4. IsFiniteSet(triples)
  BY <1>3, FactAssumption, FS_Product
<1>5. value \in [triples -> Value]
  BY DEF Value
<1>6. ASSUME NEW v \in Value PROVE \E p \in triples : value[p] = v
  <2>1. <<v.type, <<v.shape, v.atoms>>>> \in triples
    BY DEF Value
  <2>2. value[<<v.type, <<v.shape, v.atoms>>>>] = v
    BY <2>1 DEF Value
  <2> QED BY <2>1, <2>2
<1> HIDE DEF value, triples
<1>7. value \in Surjection(triples, Value)
  BY <1>5, <1>6 DEF Surjection
<1> QED BY <1>4, <1>7, FS_Surjection

\* The groups of a field with one value are one for each value there is, finitely many.
LEMMA GroupsAreFinite ==
  ASSUME NEW C \in SUBSET Candidate, NEW f
  PROVE  IsFiniteSet(ByValue(f, OfField(C, f)))
<1> DEFINE D == OfField(C, f)
<1> DEFINE V == {c.value : c \in D}
<1> DEFINE group == [v \in V |-> Merge(f, v, {c \in D : c.value = v})]
<1>1. V \in SUBSET Value
  BY DEF OfField, Candidate
<1>2. IsFiniteSet(V)
  BY <1>1, ValuesAreFinite, FS_Subset
<1>3. ByValue(f, D) = {group[v] : v \in V}
  BY DEF ByValue
<1>4. group \in Surjection(V, ByValue(f, D))
  BY <1>3 DEF Surjection
<1> QED BY <1>2, <1>4, FS_Surjection

\* FactMergeService._merge_same_value: the group of a candidate has its value and its source.
LEMMA GroupOfCandidate ==
  ASSUME NEW C, NEW c \in C
  PROVE  \E g \in ByValue(c.field, OfField(C, c.field)) :
           g.field = c.field /\ g.value = c.value /\ c.source \in g.sources
<1> DEFINE D == OfField(C, c.field)
<1> DEFINE g == Merge(c.field, c.value, {d \in D : d.value = c.value})
<1>1. c \in D
  BY DEF OfField
<1>2. g \in ByValue(c.field, D)
  BY <1>1 DEF ByValue
<1>3. g.field = c.field /\ g.value = c.value /\ c.source \in g.sources
  BY <1>1 DEF Merge, SourcesOf
<1> QED BY <1>2, <1>3

\* What is proposed of a field with many values: everything, with all its sources.
LEMMA ListsAreUnited ==
  ASSUME NEW C, NEW c \in C, c.field \in MultiFields
  PROVE  Merge(c.field, AsList(ItemsIn(OfField(C, c.field))), OfField(C, c.field)) \in Merged(C)
  BY DEF Merged, OfField, FieldsOf, ItemsIn

\* What is proposed of a field with one value is the only group there is.
LEMMA OnlyGroupIsProposed ==
  ASSUME NEW C, NEW c \in C, c.field \in SingleFields,
         Cardinality(ByValue(c.field, OfField(C, c.field))) = 1
  PROVE  ByValue(c.field, OfField(C, c.field)) \subseteq Merged(C)
  BY DEF Merged, OfField, FieldsOf

LEMMA GroupsAreConflict ==
  ASSUME NEW C, NEW c \in C, c.field \in SingleFields,
         Cardinality(ByValue(c.field, OfField(C, c.field))) > 1
  PROVE  ByValue(c.field, OfField(C, c.field)) \subseteq UNION Conflicts(C)
<1> DEFINE G == ByValue(c.field, OfField(C, c.field))
<1>1. G \in Conflicts(C)
  BY DEF Conflicts, OfField, FieldsOf
<1> QED BY <1>1

\* A proposal comes from a list, or from the one group of a field with one value.
LEMMA ProposalsComeFromCandidates ==
  ASSUME NEW C, NEW e \in Merged(C)
  PROVE  \/ \E f \in FieldsOf(C) \cap MultiFields :
              e = Merge(f, AsList(ItemsIn(OfField(C, f))), OfField(C, f))
         \/ \E f \in FieldsOf(C) \cap SingleFields :
              e \in ByValue(f, OfField(C, f)) /\ Cardinality(ByValue(f, OfField(C, f))) = 1
  BY DEF Merged, OfField, ItemsIn

LEMMA GroupMembers ==
  ASSUME NEW f, NEW D, NEW g \in ByValue(f, D)
  PROVE  \E c \in D : g = Merge(f, c.value, {d \in D : d.value = c.value})
  BY DEF ByValue

LEMMA MergedTyped ==
  ASSUME NEW C \in SUBSET Candidate
  PROVE  Claims(Merged(C))
<1> SUFFICES ASSUME NEW e \in Merged(C) PROVE e.field \in FactFields /\ e.value \in Value
  BY DEF Claims
<1>1. CASE \E f \in FieldsOf(C) \cap MultiFields :
              e = Merge(f, AsList(ItemsIn(OfField(C, f))), OfField(C, f))
  <2>1. PICK f \in FieldsOf(C) \cap MultiFields :
              e = Merge(f, AsList(ItemsIn(OfField(C, f))), OfField(C, f))
    BY <1>1
  <2>2. ItemsIn(OfField(C, f)) \subseteq FactValues
    BY DEF ItemsIn, ItemsOf, OfField, Candidate, Value
  <2>3. AsList(ItemsIn(OfField(C, f))) \in Value
    BY <2>2, FactAssumption DEF AsList, Value
  <2> QED BY <2>1, <2>3 DEF Merge, FactFields
<1>2. CASE \E f \in FieldsOf(C) \cap SingleFields :
              e \in ByValue(f, OfField(C, f)) /\ Cardinality(ByValue(f, OfField(C, f))) = 1
  <2>1. PICK f \in FieldsOf(C) \cap SingleFields : e \in ByValue(f, OfField(C, f))
    BY <1>2
  <2>2. PICK c \in OfField(C, f) : e = Merge(f, c.value, {d \in OfField(C, f) : d.value = c.value})
    BY <2>1, GroupMembers
  <2> QED BY <2>2 DEF Merge, FactFields, OfField, Candidate
<1> QED BY <1>1, <1>2, ProposalsComeFromCandidates

\* What of a candidate is kept.
Keeps(e, c) ==
  /\ e.field = c.field /\ c.source \in e.sources
  /\ c.field \in SingleFields => c.value = e.value
  /\ c.field \in MultiFields /\ c.value.shape = "list" =>
       c.value.atoms \ (IF c.field = RiskField THEN Incomplete ELSE {}) \subseteq e.value.atoms

\* FactMergeService.merge: a candidate is in a proposal or in a conflict, with its source
\* and its value, or the items of its list.
LEMMA MergingKeeps ==
  ASSUME NEW C \in SUBSET Candidate, NEW c \in C
  PROVE  \E e \in Merged(C) \cup UNION Conflicts(C) : Keeps(e, c)
<1> DEFINE D == OfField(C, c.field)
<1>0. c \in D
  BY DEF OfField
<1>1. CASE c.field \in MultiFields
  <2> DEFINE e == Merge(c.field, AsList(ItemsIn(D)), D)
  <2>1. e \in Merged(C)
    BY <1>1, ListsAreUnited
  <2>2. e.field = c.field /\ c.source \in e.sources /\ e.value.atoms = ItemsIn(D)
    BY <1>0 DEF Merge, SourcesOf, AsList
  <2>3. c.value.shape = "list" =>
          c.value.atoms \ (IF c.field = RiskField THEN Incomplete ELSE {}) \subseteq ItemsOf(c)
    BY DEF ItemsOf
  <2>4. ItemsOf(c) \subseteq ItemsIn(D)
    BY <1>0 DEF ItemsIn
  <2>5. c.field \notin SingleFields
    BY <1>1, FactAssumption
  <2>6. Keeps(e, c)
    BY <2>2, <2>3, <2>4, <2>5 DEF Keeps
  <2> QED BY <2>1, <2>6
<1>2. CASE c.field \notin MultiFields
  <2> DEFINE G == ByValue(c.field, D)
  <2>1. c.field \in SingleFields
    BY <1>2 DEF Candidate, FactFields
  <2>2. PICK g \in G : g.field = c.field /\ g.value = c.value /\ c.source \in g.sources
    BY GroupOfCandidate
  <2>3. IsFiniteSet(G)
    BY GroupsAreFinite
  <2>4. Cardinality(G) \in Nat /\ Cardinality(G) # 0
    BY <2>2, <2>3, FS_CardinalityType, FS_EmptySet
  <2>5. Cardinality(G) = 1 \/ Cardinality(G) > 1
    BY <2>4
  <2>6. G \subseteq Merged(C) \cup UNION Conflicts(C)
    BY <2>1, <2>5, OnlyGroupIsProposed, GroupsAreConflict
  <2>7. Keeps(g, c)
    BY <2>2, <1>2 DEF Keeps
  <2> QED BY <2>2, <2>6, <2>7
<1> QED BY <1>1, <1>2

\* Two values of a field with one value are a conflict, never a choice.
LEMMA ProposalIsTheOnlyValue ==
  ASSUME NEW C \in SUBSET Candidate, NEW c \in C, c.field \in SingleFields,
         NEW e \in Merged(C), e.field = c.field
  PROVE  e.value = c.value
<1> DEFINE G == ByValue(c.field, OfField(C, c.field))
<1>1. PICK f \in FieldsOf(C) \cap SingleFields :
        e \in ByValue(f, OfField(C, f)) /\ Cardinality(ByValue(f, OfField(C, f))) = 1
  BY ProposalsComeFromCandidates, FactAssumption DEF Merge
<1>2. f = c.field
  <2>1. PICK d \in OfField(C, f) : e = Merge(f, d.value, {b \in OfField(C, f) : b.value = d.value})
    BY <1>1, GroupMembers
  <2> QED BY <2>1 DEF Merge
<1>3. IsFiniteSet(G)
  BY GroupsAreFinite
<1>4. PICK x : G = {x}
  BY <1>1, <1>2, <1>3, FS_Singleton
<1>5. PICK g \in G : g.value = c.value
  BY GroupOfCandidate
<1> QED BY <1>1, <1>2, <1>4, <1>5

-------------------------------------------------------------------------------
(* The candidates of an extraction *)

LEMMA SaidTyped ==
  ASSUME NEW f, NEW atoms \in SUBSET FactValues
  PROVE  Said(f, atoms) \in Value
  BY FactAssumption DEF Said, AsList, AsText, Value

LEMMA AskedTyped ==
  ASSUME material \in Material
  PROVE  Asked \subseteq Candidate
  BY FactAssumption, SaidTyped DEF Asked, Candidate, Material, FactFields

LEMMA FromTextTyped ==
  ASSUME material \in Material, NEW have
  PROVE  FromText(have) \subseteq Candidate
  BY FactAssumption, SaidTyped DEF FromText, Candidate, Material, FactFields

LEMMA AnchoredTyped ==
  ASSUME material \in Material, NEW facts, Claims(facts)
  PROVE  Anchored(facts) \subseteq Candidate
<1> SUFFICES ASSUME NEW c \in Anchored(facts) PROVE c \in Candidate
  OBVIOUS
<1>1. PICK e \in facts : c \in {[field |-> e.field, value |-> e.value, source |-> s] :
                                  s \in {material.quoted[v] : v \in e.value.atoms} \ {Nowhere}}
  BY DEF Anchored
<1>2. PICK s \in {material.quoted[v] : v \in e.value.atoms} \ {Nowhere} :
        c = [field |-> e.field, value |-> e.value, source |-> s]
  BY <1>1
<1>3. e.field \in FactFields /\ e.value \in Value
  BY DEF Claims
<1>4. material.quoted \in [FactValues -> SourceIds \cup {Nowhere}]
  BY DEF Material
<1>5. s \in SourceIds
  BY <1>2, <1>3, <1>4 DEF Value
<1> QED BY <1>2, <1>3, <1>5 DEF Candidate

LEMMA EnrichedTyped ==
  ASSUME material \in Material, NEW given \in SUBSET Candidate
  PROVE  Enriched(given) \subseteq Candidate
  BY AskedTyped, FromTextTyped DEF Enriched

\* What is asked is a candidate, and of a field that is asked for, risk evidence apart,
\* there is no other.
LEMMA EnrichedAsksFirst ==
  ASSUME NEW given
  PROVE  /\ Asked \subseteq Enriched(given)
         /\ \A c \in Enriched(given) : c.field \in FieldsOf(Asked) \ {RiskField} => c \in Asked
         /\ \A c \in given : c.field \notin FieldsOf(Asked) => c \in Enriched(given)
<1> DEFINE kept == {c \in given : c.field \notin FieldsOf(Asked) \ {RiskField}} \cup Asked
<1>1. Enriched(given) = kept \cup FromText(FieldsOf(kept))
  BY DEF Enriched
<1>2. FieldsOf(Asked) \subseteq FieldsOf(kept)
  BY DEF FieldsOf
<1>3. \A c \in FromText(FieldsOf(kept)) : c.field \notin FieldsOf(kept)
  BY DEF FromText
<1> HIDE DEF kept
<1>4. \A c \in Enriched(given) : c.field \in FieldsOf(Asked) \ {RiskField} => c \in Asked
  BY <1>1, <1>2, <1>3 DEF kept
<1> QED BY <1>1, <1>4 DEF kept

\* One request, one value: what is asked of a field is one candidate.
LEMMA AskedOnce ==
  /\ \A c \in Asked : c = [field |-> c.field, value |-> Said(c.field, material.asked[c.field]), source |-> 0]
  /\ \A f \in ScopedFields : material.asked[f] # {} =>
       [field |-> f, value |-> Said(f, material.asked[f]), source |-> 0] \in Asked
  BY DEF Asked

\* The value a person has confirmed is a candidate again where a source has it.
LEMMA AnchoredAgain ==
  ASSUME NEW facts, NEW e \in facts, e.value.shape = "text",
         NEW v \in e.value.atoms, material.quoted[v] # Nowhere
  PROVE  [field |-> e.field, value |-> e.value, source |-> material.quoted[v]] \in Anchored(facts)
<1> DEFINE found(d) == {[field |-> d.field, value |-> d.value, source |-> s] :
                          s \in {material.quoted[w] : w \in d.value.atoms} \ {Nowhere}}
<1>1. Anchored(facts) = UNION {found(d) : d \in {d \in facts : d.value.shape = "text"}}
  BY DEF Anchored
<1>2. [field |-> e.field, value |-> e.value, source |-> material.quoted[v]] \in found(e)
  OBVIOUS
<1> HIDE DEF found
<1> QED BY <1>1, <1>2

\* A field whose only candidate is the one that was asked for is proposed as asked.
LEMMA LoneCandidateIsProposed ==
  ASSUME NEW C \in SUBSET Candidate, NEW c \in C, \A d \in C : d.field = c.field => d = c,
         c.field # RiskField, NEW atoms, c.value = Said(c.field, atoms)
  PROVE  Merge(c.field, c.value, {c}) \in Merged(C)
<1>1. OfField(C, c.field) = {c}
  BY DEF OfField
<1>2. CASE c.field \in MultiFields
  <2>1. AsList(ItemsIn({c})) = c.value
    <3>1. ItemsIn({c}) = ItemsOf(c)
      BY DEF ItemsIn
    <3>2. ItemsOf(c) = atoms
      BY <1>2 DEF ItemsOf, Said, AsList
    <3> QED BY <3>1, <3>2, <1>2 DEF Said
  <2> QED BY <1>1, <1>2, <2>1, ListsAreUnited
<1>3. CASE c.field \notin MultiFields
  <2>1. c.field \in SingleFields
    BY <1>3 DEF Candidate, FactFields
  <2>2. ByValue(c.field, {c}) = {Merge(c.field, c.value, {c})}
    <3>1. {d.value : d \in {c}} = {c.value} /\ {d \in {c} : d.value = c.value} = {c}
      OBVIOUS
    <3>2. ByValue(c.field, {c}) = {Merge(c.field, v, {d \in {c} : d.value = v}) : v \in {c.value}}
      BY <3>1 DEF ByValue
    <3>3. \A g : g \in ByValue(c.field, {c}) <=> g = Merge(c.field, c.value, {d \in {c} : d.value = c.value})
      BY <3>2
    <3> QED BY <3>1, <3>3
  <2>3. Cardinality(ByValue(c.field, OfField(C, c.field))) = 1
    BY <1>1, <2>2, FS_Singleton
  <2>4. ByValue(c.field, OfField(C, c.field)) \subseteq Merged(C)
    BY <2>1, <2>3, OnlyGroupIsProposed
  <2> QED BY <1>1, <2>2, <2>4
<1> QED BY <1>2, <1>3

-------------------------------------------------------------------------------
(* The task *)

\* What the candidates of the next extraction are, for an answer of the model.
Candidates(answer) == Enriched(answer \cup Anchored(sheet.snapshot))
NoResults(C) == {c \in C : ~IsResult(c.value)}

SheetFits ==
  /\ sheet = [status |-> sheet.status, snapshot |-> sheet.snapshot,
              conflicts |-> sheet.conflicts, extractions |-> sheet.extractions]
  /\ Claims(sheet.snapshot)

\* What confirmation leaves to the gate.
ConfirmedFits ==
  sheet.status = "ready" =>
    \A e \in sheet.snapshot : e.field \in RequiredFields => ValueFits(e.field, e.value)

RisksComplete == material.asked[RiskField] \cap Incomplete = {}

FactInv == material \in Material /\ RisksComplete /\ SheetFits /\ ConfirmedFits /\ FactsAreSound

\* An extraction, with its candidates as one set.
ExtractedWith(C) ==
  /\ offered' = C
  /\ sheet'.status = "needs_confirmation" /\ sheet'.snapshot = Merged(NoResults(C))
  /\ sheet'.conflicts = Conflicts(NoResults(C))
  /\ sheet' = [status |-> sheet'.status, snapshot |-> sheet'.snapshot,
               conflicts |-> sheet'.conflicts, extractions |-> sheet'.extractions]
  /\ snapshotBefore' = sheet.snapshot
  /\ material' = material

LEMMA ExtractionSteps ==
  ASSUME ExtractFacts, FactInv
  PROVE  \E answer \in ModelAnswers : ExtractedWith(Candidates(answer)) /\ Candidates(answer) \subseteq Candidate
<1>1. PICK answer \in ModelAnswers :
        /\ offered' = Candidates(answer)
        /\ sheet' = [status |-> "needs_confirmation", snapshot |-> Merged(NoResults(Candidates(answer))),
                     conflicts |-> Conflicts(NoResults(Candidates(answer))),
                     extractions |-> sheet.extractions + 1]
        /\ snapshotBefore' = sheet.snapshot /\ material' = material
  BY DEF ExtractFacts, Candidates, NoResults
<1>5. ExtractedWith(Candidates(answer))
  BY <1>1 DEF ExtractedWith
<1>2. answer \subseteq Candidate
  BY FactAssumption
<1>3. Anchored(sheet.snapshot) \subseteq Candidate
  BY AnchoredTyped DEF FactInv, SheetFits
<1>4. Candidates(answer) \subseteq Candidate
  BY <1>2, <1>3, EnrichedTyped DEF Candidates, FactInv
<1> QED BY <1>4, <1>5

\* A field named in the requirement is proposed with what it asks for.
LEMMA RequirementStep ==
  ASSUME FactInv, NEW answer \in ModelAnswers, Candidates(answer) \subseteq Candidate,
         ExtractedWith(Candidates(answer))
  PROVE  RequirementDecides'
<1> DEFINE C == Candidates(answer)
<1> DEFINE K == NoResults(C)
<1>1. SUFFICES ASSUME NEW f \in ScopedFields, material.asked[f] # {},
                     material.asked[f] \cap ResultValues = {}
      PROVE \E e \in Merged(K) :
              /\ e.field = f
              /\ IF f = RiskField THEN material.asked[f] \subseteq e.value.atoms /\ 0 \in e.sources
                                  ELSE e.value = Said(f, material.asked[f]) /\ e.sources = {0}
  BY DEF RequirementDecides, ExtractedWith
<1> DEFINE a == [field |-> f, value |-> Said(f, material.asked[f]), source |-> 0]
<1>2. a \in Asked
  BY <1>1, AskedOnce
<1>3. a \in C
  BY <1>2, EnrichedAsksFirst DEF Candidates
<1>4. a \in K
  BY <1>1, <1>3 DEF NoResults, IsResult, Said, AsList, AsText
<1>5. K \in SUBSET Candidate
  BY DEF NoResults
<1>6. CASE f = RiskField
  <2>1. a.field \in MultiFields
    BY <1>6, FactAssumption
  <2>2. PICK e : /\ e = Merge(a.field, AsList(ItemsIn(OfField(K, a.field))), OfField(K, a.field))
                 /\ e \in Merged(K)
    BY <2>1, <1>4, ListsAreUnited
  <2>3. a \in OfField(K, a.field)
    BY <1>4 DEF OfField
  <2>4. material.asked[f] \cap Incomplete = {}
    BY <1>6 DEF FactInv, RisksComplete
  <2>5. material.asked[f] \subseteq ItemsOf(a)
    BY <2>1, <2>4 DEF ItemsOf, Said, AsList
  <2>6. ItemsOf(a) \subseteq ItemsIn(OfField(K, a.field))
    BY <2>3 DEF ItemsIn
  <2>7. e.field = f /\ 0 \in e.sources /\ e.value.atoms = ItemsIn(OfField(K, a.field))
    BY <2>2, <2>3 DEF Merge, SourcesOf, AsList
  <2> QED BY <2>2, <2>5, <2>6, <2>7, <1>6
<1>7. CASE f # RiskField
  <2>1. f \in FieldsOf(Asked) \ {RiskField}
    BY <1>2, <1>7 DEF FieldsOf
  <2>2. \A d \in K : d.field = f => d = a
    <3> SUFFICES ASSUME NEW d \in K, d.field = f PROVE d = a
      OBVIOUS
    <3>1. d \in C
      BY DEF NoResults
    <3>2. d \in Asked
      BY <2>1, <3>1, EnrichedAsksFirst DEF Candidates
    <3> QED BY <3>2, AskedOnce
  <2>3. Merge(a.field, a.value, {a}) \in Merged(K)
    BY <2>2, <1>4, <1>5, <1>7, LoneCandidateIsProposed
  <2>4. {c.source : c \in {a}} = {0}
    OBVIOUS
  <2>5. LET e == Merge(a.field, a.value, {a})
        IN e.field = f /\ e.value = Said(f, material.asked[f]) /\ e.sources = {0}
    BY <2>4 DEF Merge, SourcesOf
  <2> QED BY <2>3, <2>5, <1>7
<1> QED BY <1>6, <1>7

\* A candidate that is no result is in the proposals or in a conflict.
LEMMA MergingStep ==
  ASSUME NEW C \in SUBSET Candidate, ExtractedWith(C)
  PROVE  NoListedValueIsLost'
<1>1. \A c \in C : ~IsResult(c.value) =>
        \E e \in Merged(NoResults(C)) \cup UNION Conflicts(NoResults(C)) : Keeps(e, c)
  BY MergingKeeps DEF NoResults
<1> QED BY <1>1 DEF NoListedValueIsLost, ExtractedWith, Keeps

\* A value that is in the sources is not exchanged behind the person's back.
LEMMA SwapStep ==
  ASSUME FactInv, NEW answer \in ModelAnswers, Candidates(answer) \subseteq Candidate,
         ExtractedWith(Candidates(answer))
  PROVE  NoValueIsSwapped'
<1> DEFINE C == Candidates(answer)
<1> DEFINE K == NoResults(C)
<1>1. SUFFICES ASSUME NEW d \in sheet.snapshot, NEW e \in Merged(K),
                      d.field = e.field, d.field \in SingleFields, d.value # e.value,
                      d.field \notin FieldsOf(Asked), ~IsResult(d.value), d.value.shape = "text",
                      NEW v \in d.value.atoms, material.quoted[v] # Nowhere
               PROVE  FALSE
  <2>1. FieldsOf(Asked)' = FieldsOf(Asked)
    BY DEF Asked, FieldsOf, ExtractedWith
  <2> QED BY <2>1 DEF NoValueIsSwapped, ExtractedWith
<1> DEFINE c == [field |-> d.field, value |-> d.value, source |-> material.quoted[v]]
<1>2. c \in Anchored(sheet.snapshot)
  BY <1>1, AnchoredAgain
<1>3. c.field \notin FieldsOf(Asked)
  BY <1>1
<1>4. c \in C
  BY <1>2, <1>3, EnrichedAsksFirst DEF Candidates
<1>5. c \in K
  BY <1>1, <1>4 DEF NoResults
<1>6. K \in SUBSET Candidate
  BY DEF NoResults
<1>7. c.field \in SingleFields /\ e.field = c.field
  BY <1>1
<1> HIDE DEF K
<1>8. e.value = c.value
  BY <1>5, <1>6, <1>7, ProposalIsTheOnlyValue
<1> QED BY <1>1, <1>8

LEMMA ExtractionFits == FactInv /\ ExtractFacts => FactInv'
<1> SUFFICES ASSUME FactInv, ExtractFacts PROVE FactInv'
  OBVIOUS
<1>1. PICK answer \in ModelAnswers :
        ExtractedWith(Candidates(answer)) /\ Candidates(answer) \subseteq Candidate
  BY ExtractionSteps
<1>2. RequirementDecides' /\ NoListedValueIsLost' /\ NoValueIsSwapped'
  BY <1>1, RequirementStep, MergingStep, SwapStep
<1>3. WritesFromSoundFacts' /\ ConfirmedFits'
  BY <1>1 DEF ExtractedWith, WritesFromSoundFacts, ConfirmedFits
<1>4. NoResults(Candidates(answer)) \in SUBSET Candidate
  BY <1>1 DEF NoResults
<1>5. SheetFits'
  BY <1>1, <1>4, MergedTyped DEF ExtractedWith, SheetFits
<1>6. material' \in Material /\ RisksComplete'
  BY <1>1 DEF ExtractedWith, FactInv, RisksComplete
<1> QED BY <1>2, <1>3, <1>5, <1>6 DEF FactInv, FactsAreSound

LEMMA ConfirmationFits == FactInv /\ ConfirmFactSheet => FactInv'
<1> SUFFICES ASSUME FactInv, ConfirmFactSheet PROVE FactInv'
  OBVIOUS
<1>1. PICK facts \in Submissions :
        /\ \A e \in facts : e.field \in RequiredFields => ValueFits(e.field, e.value)
        /\ sheet' = [sheet EXCEPT !.status = "ready", !.snapshot = facts, !.conflicts = {}]
  BY DEF ConfirmFactSheet
<1>2. sheet' = [status |-> "ready", snapshot |-> facts, conflicts |-> {}, extractions |-> sheet.extractions]
  BY <1>1 DEF FactInv, SheetFits
<1>3. Claims(facts)
  BY FactAssumption DEF Claims
<1>4. SheetFits' /\ ConfirmedFits'
  BY <1>1, <1>2, <1>3 DEF SheetFits, ConfirmedFits
<1>5. FactsAreSound'
  BY <1>2 DEF FactsAreSound, RequirementDecides, NoListedValueIsLost, NoValueIsSwapped, Proposed,
              WritesFromSoundFacts
<1>6. material' \in Material /\ RisksComplete'
  BY DEF ConfirmFactSheet, FactInv, RisksComplete
<1> QED BY <1>4, <1>5, <1>6 DEF FactInv

\* What a run may start from.
SoundFacts(facts) ==
  /\ \A f \in RequiredFields : Cardinality({e.value : e \in {e \in facts : e.field = f}}) = 1
  /\ \A e \in facts :
       /\ ~IsResult(e.value)
       /\ e.field \in RequiredFields \ {RiskField} => e.value.atoms # {}
       /\ e.field \in RequiredFields \cap MultiFields => e.value.shape = "list"
       /\ e.field = RiskField => e.value.shape = "list" /\ e.value.atoms \cap Incomplete = {}

\* The gate takes one value each of what is required, the risk profile takes lists of
\* whole risks, and what has been confirmed fits.
LEMMA GateLetsSoundFactsPass ==
  ASSUME ConfirmedFits, sheet.status = "ready", GatePasses(sheet.snapshot),
         NEW approved, RisksApproved(sheet.snapshot, approved)
  PROVE  SoundFacts(sheet.snapshot)
<1>1. ASSUME NEW f \in RequiredFields
      PROVE  Cardinality({e.value : e \in {e \in sheet.snapshot : e.field = f}}) = 1
  <2>1. PICK d \in sheet.snapshot : d.field = f
    BY <1>1 DEF GatePasses, FieldsOf
  <2>2. {e.value : e \in {e \in sheet.snapshot : e.field = f}} = {d.value}
    BY <2>1 DEF GatePasses, OneValueEach
  <2> QED BY <2>2, FS_Singleton
<1>2. ASSUME NEW e \in sheet.snapshot
      PROVE  /\ ~IsResult(e.value)
             /\ e.field \in RequiredFields \ {RiskField} => e.value.atoms # {}
             /\ e.field \in RequiredFields \cap MultiFields => e.value.shape = "list"
  BY <1>2 DEF ConfirmedFits, ValueFits, GatePasses
<1>3. ASSUME NEW e \in sheet.snapshot, e.field = RiskField
      PROVE  e.value.shape = "list" /\ e.value.atoms \cap Incomplete = {}
  BY <1>3 DEF RisksApproved
<1> QED BY <1>1, <1>2, <1>3 DEF SoundFacts

LEMMA CheckFits == FactInv /\ CheckFacts => FactInv'
<1> SUFFICES ASSUME FactInv, CheckFacts PROVE FactInv'
  OBVIOUS
<1>1. PICK approved \in SUBSET FactValues :
        sheet' = [sheet EXCEPT !.status =
                    IF GatePasses(sheet.snapshot) /\ RisksApproved(sheet.snapshot, approved)
                    THEN "writing" ELSE "failed"]
  BY DEF CheckFacts
<1>2. /\ sheet'.status \in {"writing", "failed"}
      /\ sheet'.status = "writing" =>
           GatePasses(sheet.snapshot) /\ RisksApproved(sheet.snapshot, approved)
      /\ sheet'.snapshot = sheet.snapshot
      /\ sheet' = [status |-> sheet'.status, snapshot |-> sheet'.snapshot,
                   conflicts |-> sheet'.conflicts, extractions |-> sheet'.extractions]
  BY <1>1 DEF FactInv, SheetFits
<1>3. SheetFits' /\ ConfirmedFits'
  BY <1>2 DEF SheetFits, ConfirmedFits, FactInv
<1>4. WritesFromSoundFacts'
  BY <1>2, GateLetsSoundFactsPass DEF WritesFromSoundFacts, SoundFacts, FactInv, CheckFacts
<1>5. RequirementDecides' /\ NoListedValueIsLost' /\ NoValueIsSwapped'
  BY <1>2 DEF RequirementDecides, NoListedValueIsLost, NoValueIsSwapped, Proposed
<1>6. material' \in Material /\ RisksComplete'
  BY DEF CheckFacts, FactInv, RisksComplete
<1> QED BY <1>3, <1>4, <1>5, <1>6 DEF FactInv, FactsAreSound

LEMMA FactInitFits == FactInit => FactInv
  BY FactAssumption
  DEF FactInit, FactInv, RisksComplete, SheetFits, Claims, ConfirmedFits, FactsAreSound, RequirementDecides,
      NoListedValueIsLost, NoValueIsSwapped, Proposed, WritesFromSoundFacts

\* The sheet of a task through extractions, confirmation and the gate.
THEOREM FactInvariant == FactSpec => []FactInv
<1>1. FactInv /\ [FactNext]_factVars => FactInv'
  <2>1. FactInv /\ UNCHANGED factVars => FactInv'
    <3> SUFFICES ASSUME FactInv, UNCHANGED factVars PROVE FactInv'
      OBVIOUS
    <3>1. material' = material /\ sheet' = sheet /\ offered' = offered /\ snapshotBefore' = snapshotBefore
      BY DEF factVars
    <3>2. Asked' = Asked
      BY <3>1 DEF Asked
    <3>3. NoValueIsSwapped'
      BY <3>1, <3>2 DEF FactInv, FactsAreSound, NoValueIsSwapped, Proposed
    <3>4. RequirementDecides' /\ NoListedValueIsLost' /\ WritesFromSoundFacts'
      BY <3>1 DEF FactInv, FactsAreSound, RequirementDecides, NoListedValueIsLost, Proposed,
                  WritesFromSoundFacts
    <3> QED BY <3>1, <3>3, <3>4 DEF FactInv, FactsAreSound, SheetFits, ConfirmedFits, RisksComplete
  <2> QED BY <2>1, ExtractionFits, ConfirmationFits, CheckFits DEF FactNext
<1> QED BY <1>1, FactInitFits, PTL DEF FactSpec

\* For whatever the sources say and the model answers: what the requirement asks for is
\* proposed; no candidate is lost but an answer for a list field that is no list and half
\* a risk; no text of the sources is exchanged behind the person's back; and a run writes
\* from one sound value of every required field (engine/facts, engine/canonical_facts,
\* confirm_generation_facts, RequiredFactGate, ORMRiskProfiler).
THEOREM FactsStaySound == FactSpec => []FactsAreSound
<1>1. FactInv => FactsAreSound
  BY DEF FactInv
<1> QED BY <1>1, FactInvariant, PTL

-------------------------------------------------------------------------------
(*****************************************************************************)
(* AgentSetup: an activation replaces the prompts that were there before     *)
(* it, the row of a key is inserted by one request at a time, and whatever   *)
(* becomes a source was an entry file or had lost its marker.                *)
(*****************************************************************************)

-------------------------------------------------------------------------------
(* System prompts *)

PromptRow == [active : BOOLEAN, created : Nat]
ActivationRow == [step : {"idle", "scan", "create", "commit", "done", "failed"},
                  scanned : SUBSET Activations, held : SUBSET Activations, created : Nat]

PromptsType ==
  /\ prompt \in [Activations -> PromptRow]
  /\ activation \in [Activations -> ActivationRow]
  /\ since \in [Activations -> SUBSET Activations]

\* Numbers are given out one after the other, so there is always a highest one.
Bounded(b) == \A a \in Activations : activation[a].created <= b /\ prompt[a].created <= b
NumbersAreBounded == \E b \in Nat : Bounded(b)

SinceHaveEnded == \A a \in Activations : \A p \in since[a] : activation[p].step = "done"

\* An activation knows the active rows that were there before it, until it replaces them.
Replaces(a) ==
  \A p \in since[a] : prompt[p].active =>
    /\ activation[a].step # "done"
    /\ activation[a].step = "scan" => p \in activation[a].scanned
    /\ activation[a].step \in {"create", "commit"} => p \in activation[a].held

OlderAreReplaced == \A a \in Activations : Replaces(a)
OneIsActive == Ended # {} => ActivePrompts # {}

PromptsInv ==
  PromptsType /\ NumbersAreBounded /\ SinceHaveEnded /\ OlderAreReplaced /\ OneIsActive

LEMMA PromptsInitFit == SetupInit => PromptsInv
<1> SUFFICES ASSUME SetupInit PROVE PromptsInv
  OBVIOUS
<1>1. PromptsType
  BY DEF SetupInit, PromptsType, PromptRow, ActivationRow, NoPrompt
<1>2. Bounded(0)
  BY DEF SetupInit, Bounded, NoPrompt
<1>3. SinceHaveEnded /\ OlderAreReplaced /\ OneIsActive
  BY DEF SetupInit, SinceHaveEnded, OlderAreReplaced, Replaces, OneIsActive, Ended
<1> QED BY <1>1, <1>2, <1>3 DEF PromptsInv, NumbersAreBounded

\* A step of one activation that leaves the rows alone and takes it to another step.
Moves(a, row) == activation' = [activation EXCEPT ![a] = row] /\ prompt' = prompt

LEMMA OthersKeepNumbers ==
  ASSUME PromptsInv, NEW a \in Activations, NEW row \in ActivationRow, Moves(a, row),
         row.created = activation[a].created
  PROVE  NumbersAreBounded'
<1>1. PICK b \in Nat : Bounded(b)
  BY DEF PromptsInv, NumbersAreBounded
<1>2. Bounded(b)'
  BY <1>1 DEF Bounded, Moves, PromptsInv, PromptsType
<1> QED BY <1>2 DEF NumbersAreBounded

LEMMA BeginFits ==
  ASSUME PromptsInv, NEW a \in Activations, BeginActivation(a)
  PROVE  PromptsInv'
<1>1. PICK old \in ActivationRow : old = activation[a]
  BY DEF PromptsInv, PromptsType
<1> DEFINE row == [old EXCEPT !.step = "scan", !.scanned = ActivePrompts]
<1>2. row \in ActivationRow /\ row.step = "scan" /\ row.scanned = ActivePrompts
      /\ row.created = old.created /\ old.step = "idle"
  BY <1>1 DEF ActivationRow, ActivePrompts, BeginActivation
<1>3. activation' = [activation EXCEPT ![a] = row] /\ prompt' = prompt
      /\ since' = [since EXCEPT ![a] = Ended]
  BY <1>1 DEF BeginActivation
<1> HIDE DEF row
<1>4. NumbersAreBounded'
  BY <1>1, <1>2, <1>3, OthersKeepNumbers DEF Moves
<1>5. PromptsType'
  BY <1>2, <1>3 DEF PromptsInv, PromptsType, Ended
<1>6. SinceHaveEnded'
  BY <1>1, <1>2, <1>3 DEF PromptsInv, PromptsType, SinceHaveEnded, Ended
<1>7. OlderAreReplaced'
  BY <1>1, <1>2, <1>3 DEF PromptsInv, PromptsType, OlderAreReplaced, Replaces, ActivePrompts, Ended
<1>8. OneIsActive'
  BY <1>1, <1>2, <1>3 DEF PromptsInv, PromptsType, OneIsActive, Ended, ActivePrompts
<1> QED BY <1>4, <1>5, <1>6, <1>7, <1>8 DEF PromptsInv

\* Deactivate, CreatePrompt and AbortActivation: the rows stay as they are.
LEMMA MoveFits ==
  ASSUME PromptsInv, NEW a \in Activations, NEW row \in ActivationRow, Moves(a, row),
         since' = since, NumbersAreBounded',
         activation[a].step \in {"scan", "create", "commit"}, row.step \in {"create", "commit", "failed"},
         row.step # "failed" => \A p \in since[a] : prompt[p].active => p \in row.held
  PROVE  PromptsInv'
<1>1. PromptsType'
  BY DEF PromptsInv, PromptsType, Moves
<1>2. \A b \in Activations : b # a => activation'[b] = activation[b]
  BY DEF Moves, PromptsInv, PromptsType
<1>3. activation'[a] = row
  BY DEF Moves, PromptsInv, PromptsType
<1>4. SinceHaveEnded'
  BY <1>2, <1>3 DEF PromptsInv, PromptsType, SinceHaveEnded
<1>5. OlderAreReplaced'
  <2> SUFFICES ASSUME NEW b \in Activations PROVE Replaces(b)'
    BY DEF OlderAreReplaced
  <2>1. CASE b = a
    BY <1>3, <2>1 DEF Replaces, Moves
  <2>2. CASE b # a
    BY <1>2, <2>2 DEF Replaces, Moves, PromptsInv, OlderAreReplaced
  <2> QED BY <2>1, <2>2
<1>6. OneIsActive'
  <2>1. Ended' = Ended
    BY <1>2, <1>3 DEF Ended
  <2> QED BY <2>1 DEF PromptsInv, OneIsActive, ActivePrompts, Moves
<1> QED BY <1>1, <1>4, <1>5, <1>6 DEF PromptsInv

LEMMA DeactivateFits ==
  ASSUME PromptsInv, NEW a \in Activations, Deactivate(a)
  PROVE  PromptsInv'
<1>1. PICK old \in ActivationRow : old = activation[a]
  BY DEF PromptsInv, PromptsType
<1>2. PICK met \in SUBSET (ActivePrompts \ (activation[a].scanned \cup HeldRows)) :
        activation' = [activation EXCEPT ![a].step = "create",
                         ![a].held = (activation[a].scanned \cap ActivePrompts) \cup met]
  BY DEF Deactivate
<1> DEFINE row == [old EXCEPT !.step = "create", !.held = (old.scanned \cap ActivePrompts) \cup met]
<1>3. row \in ActivationRow /\ row.step = "create" /\ row.created = old.created /\ old.step = "scan"
      /\ row.held = (old.scanned \cap ActivePrompts) \cup met
  BY <1>1 DEF ActivationRow, ActivePrompts, Deactivate
<1>4. Moves(a, row) /\ since' = since
  BY <1>1, <1>2 DEF Deactivate, Moves
<1> HIDE DEF row
<1>5. NumbersAreBounded'
  BY <1>1, <1>3, <1>4, OthersKeepNumbers
<1>6. \A p \in since[a] : prompt[p].active => p \in row.held
  BY <1>1, <1>3 DEF PromptsInv, OlderAreReplaced, Replaces, ActivePrompts, PromptsType
<1> QED BY <1>1, <1>3, <1>4, <1>5, <1>6, MoveFits

LEMMA CreateFits ==
  ASSUME PromptsInv, NEW a \in Activations, CreatePrompt(a)
  PROVE  PromptsInv'
<1>1. PICK old \in ActivationRow : old = activation[a]
  BY DEF PromptsInv, PromptsType
<1>2. PICK b \in Nat : Bounded(b)
  BY DEF PromptsInv, NumbersAreBounded
<1>3. \A c \in Activations : activation[c].created \in Nat /\ activation[c].created <= b
  BY <1>2 DEF Bounded, PromptsInv, PromptsType, ActivationRow
<1>4. \E c \in Activations : \A d \in Activations : activation[d].created <= activation[c].created
  <2> DEFINE S == {activation[c].created : c \in Activations}
  <2>1. S \in SUBSET Nat /\ S # {} /\ \A n \in S : n <= b
    BY <1>3
  <2>2. \E m \in S : \A n \in S : n <= m
    BY <2>1, GreatestExists
  <2> QED BY <2>2
<1>5. Newest(Activations) \in Activations
  BY <1>4 DEF Newest
<1>6. PICK before \in Nat : before = activation[Newest(Activations)].created /\ before <= b
  BY <1>3, <1>5
<1> DEFINE row == [old EXCEPT !.step = "commit", !.created = before + 1]
<1>7. row \in ActivationRow /\ row.step = "commit" /\ row.created = before + 1 /\ old.step = "create"
      /\ row.held = old.held
  <2>1. before + 1 \in Nat /\ old.step = "create"
    BY <1>1, <1>6 DEF CreatePrompt
  <2> QED BY <2>1 DEF ActivationRow
<1>8. Moves(a, row) /\ since' = since
  BY <1>1, <1>6 DEF CreatePrompt, Moves
<1> HIDE DEF row
<1>9. Bounded(b + 1)'
  BY <1>2, <1>3, <1>6, <1>7, <1>8 DEF Bounded, Moves, PromptsInv, PromptsType, PromptRow
<1>10. NumbersAreBounded'
  BY <1>9 DEF NumbersAreBounded
<1>11. \A p \in since[a] : prompt[p].active => p \in row.held
  BY <1>1, <1>7 DEF PromptsInv, OlderAreReplaced, Replaces, PromptsType
<1> QED BY <1>1, <1>7, <1>8, <1>10, <1>11, MoveFits

LEMMA AbortFits ==
  ASSUME PromptsInv, NEW a \in Activations, AbortActivation(a)
  PROVE  PromptsInv'
<1>1. PICK old \in ActivationRow : old = activation[a]
  BY DEF PromptsInv, PromptsType
<1> DEFINE row == [old EXCEPT !.step = "failed", !.held = {}]
<1>2. row \in ActivationRow /\ row.step = "failed" /\ row.created = old.created
  BY <1>1 DEF ActivationRow
<1>3. Moves(a, row) /\ since' = since /\ activation[a].step \in {"scan", "create", "commit"}
  BY <1>1 DEF AbortActivation, Moves
<1> HIDE DEF row
<1>4. NumbersAreBounded'
  BY <1>1, <1>2, <1>3, OthersKeepNumbers
<1> QED BY <1>2, <1>3, <1>4, MoveFits

LEMMA CommitFits ==
  ASSUME PromptsInv, NEW a \in Activations, CommitPrompt(a)
  PROVE  PromptsInv'
<1>1. PICK old \in ActivationRow : old = activation[a]
  BY DEF PromptsInv, PromptsType
<1> DEFINE row == [old EXCEPT !.step = "done", !.held = {}]
<1>2. row \in ActivationRow /\ row.step = "done" /\ row.created = old.created /\ old.step = "commit"
      /\ old.created \in Nat
  BY <1>1 DEF ActivationRow, CommitPrompt
<1>3. activation' = [activation EXCEPT ![a] = row] /\ since' = since
  BY <1>1 DEF CommitPrompt
<1> HIDE DEF row
<1>4. /\ activation' \in [Activations -> ActivationRow] /\ activation'[a] = row
      /\ \A b \in Activations : b # a => activation'[b] = activation[b]
  BY <1>2, <1>3 DEF PromptsInv, PromptsType
<1>5. ASSUME NEW p \in Activations
      PROVE  /\ prompt'[p] \in PromptRow
             /\ p = a => prompt'[p].active /\ prompt'[p].created = old.created
             /\ p # a => /\ prompt'[p].created = prompt[p].created
                         /\ prompt'[p].active => prompt[p].active /\ p \notin old.held
  <2>1. prompt[p] \in PromptRow
    BY DEF PromptsInv, PromptsType
  <2>2. prompt'[p] = IF p = a THEN [active |-> TRUE, created |-> old.created]
                     ELSE IF p \in old.held THEN [prompt[p] EXCEPT !.active = FALSE] ELSE prompt[p]
    BY <1>1 DEF CommitPrompt
  <2>3. CASE p = a
    BY <1>2, <2>2, <2>3 DEF PromptRow
  <2>4. CASE p # a /\ p \in old.held
    BY <2>1, <2>2, <2>4 DEF PromptRow
  <2>5. CASE p # a /\ p \notin old.held
    BY <2>1, <2>2, <2>5
  <2> QED BY <2>3, <2>4, <2>5
<1>6. prompt' \in [Activations -> PromptRow]
  <2>1. prompt' = [p \in Activations |-> prompt'[p]]
    BY DEF CommitPrompt
  <2> QED BY <1>5, <2>1
<1>7. PromptsType'
  BY <1>3, <1>4, <1>6 DEF PromptsInv, PromptsType
<1>8. NumbersAreBounded'
  <2>1. PICK b \in Nat : Bounded(b)
    BY DEF PromptsInv, NumbersAreBounded
  <2>2. Bounded(b)'
    BY <1>1, <1>2, <1>4, <1>5, <2>1 DEF Bounded
  <2> QED BY <2>2 DEF NumbersAreBounded
<1>9. SinceHaveEnded'
  BY <1>2, <1>3, <1>4 DEF PromptsInv, PromptsType, SinceHaveEnded
<1>10. OlderAreReplaced'
  <2> SUFFICES ASSUME NEW b \in Activations, NEW p \in since[b], prompt'[p].active
               PROVE  /\ activation'[b].step # "done"
                      /\ activation'[b].step = "scan" => p \in activation'[b].scanned
                      /\ activation'[b].step \in {"create", "commit"} => p \in activation'[b].held
    BY <1>3 DEF OlderAreReplaced, Replaces
  <2>1. p \in Activations /\ activation[p].step = "done"
    BY DEF PromptsInv, PromptsType, SinceHaveEnded
  <2>2. p # a
    BY <1>1, <1>2, <2>1
  <2>3. prompt[p].active /\ p \notin old.held
    BY <1>5, <2>1, <2>2
  <2>4. Replaces(b)
    BY DEF PromptsInv, OlderAreReplaced
  <2>5. b # a
    BY <1>1, <1>2, <2>3, <2>4 DEF Replaces
  <2> QED BY <1>4, <2>3, <2>4, <2>5 DEF Replaces
<1>11. OneIsActive'
  BY <1>5 DEF OneIsActive, ActivePrompts
<1> QED BY <1>7, <1>8, <1>9, <1>10, <1>11 DEF PromptsInv

LEMMA OrdersLeavePrompts ==
  ASSUME PromptsInv, UNCHANGED <<prompt, activation, since>>
  PROVE  PromptsInv'
<1>1. prompt' = prompt /\ activation' = activation /\ since' = since
  OBVIOUS
<1>2. NumbersAreBounded'
  BY <1>1 DEF PromptsInv, NumbersAreBounded, Bounded
<1> QED BY <1>1, <1>2 DEF PromptsInv, PromptsType, SinceHaveEnded, OlderAreReplaced, Replaces, OneIsActive,
                       Ended, ActivePrompts

\* What a request reads: an active prompt, or none because none was ever there; and no
\* activation that has ended had come after it.
LEMMA CurrentPromptIsInForce ==
  ASSUME PromptsInv
  PROVE  IF CurrentPrompt = None THEN Ended = {}
         ELSE CurrentPrompt \in Activations /\ \A a \in Ended : CurrentPrompt \notin since[a]
<1>1. CASE ActivePrompts = {}
  BY <1>1 DEF CurrentPrompt, PromptsInv, OneIsActive
<1>2. CASE ActivePrompts # {}
  <2>1. PICK b \in Nat : Bounded(b)
    BY DEF PromptsInv, NumbersAreBounded
  <2> DEFINE S == {prompt[a].created : a \in ActivePrompts}
  <2>2. \A a \in ActivePrompts : a \in Activations /\ prompt[a].active /\ prompt[a].created \in Nat
    BY DEF ActivePrompts, PromptsInv, PromptsType, PromptRow
  <2>3. S \in SUBSET Nat /\ S # {} /\ \A n \in S : n <= b
    BY <1>2, <2>1, <2>2 DEF Bounded
  <2>4. \E m \in S : \A n \in S : n <= m
    BY <2>3, GreatestExists
  <2>5. \E a \in ActivePrompts : \A c \in ActivePrompts : prompt[c].created <= prompt[a].created
    BY <2>4
  <2>6. CurrentPrompt \in ActivePrompts
    BY <1>2, <2>5 DEF CurrentPrompt
  <2>7. CurrentPrompt \in Activations /\ CurrentPrompt # None /\ prompt[CurrentPrompt].active
    BY <2>2, <2>6, SetupAssumption
  <2>8. \A a \in Ended : CurrentPrompt \notin since[a]
    BY <2>7 DEF Ended, PromptsInv, OlderAreReplaced, Replaces
  <2> QED BY <2>7, <2>8
<1> QED BY <1>1, <1>2

-------------------------------------------------------------------------------
(* Requests *)

OrderSteps == {"idle", "lookup", "sources", "insert", "inserted", "created", "existing", "conflict", "broken",
               "error"}
OrderRow == [step : OrderSteps, kind : {"none", "create", "start"}, key : OrderKeys \cup {None},
             params : OrderParams \cup {None}, prompt : Activations \cup {None},
             ended : SUBSET Activations, files : SUBSET AllFiles, met : {"none", "draft", "extracting"}]
TaskRow == [status : {"none", "draft", "extracting"}, params : OrderParams \cup {None},
            prompt : Activations \cup {None}, sources : SUBSET AllFiles]

OrdersType ==
  /\ order \in [Orders -> OrderRow] /\ compilation \in [OrderKeys -> TaskRow]
  /\ file \in SUBSET AllFiles
  /\ \A q \in Orders : order[q].step # "idle" => order[q].key \in OrderKeys
  /\ \A q \in Orders : order[q].met # "none" => order[q].step # "idle"
  /\ \A k \in OrderKeys : compilation[k].status = "none" => compilation[k] = NoTask

\* Who has been given a task, or is about to start one, has asked for just that task.
Matches(q) ==
  order[q].step \in {"created", "existing", "sources"} =>
    compilation[order[q].key].status # "none" /\ SameRequest(q)
\* A row that is inserted and not committed is the only one of its key.
Alone(q) ==
  order[q].step = "inserted" =>
    /\ compilation[order[q].key].status = "none"
    /\ \A p \in Orders : order[p].step = "inserted" /\ order[p].key = order[q].key => p = q
CreatedOnce == \A p, q \in Orders : order[p].step = "created" /\ order[q].step = "created" /\ p # q
                 => order[p].key # order[q].key

\* A request for a task that was there finds it, and whoever fails to insert it has seen
\* that it is there.
Repeats(q) ==
  /\ order[q].met # "none" =>
       /\ compilation[order[q].key].status # "none"
       /\ order[q].step \notin {"insert", "inserted", "created", "broken"}
  /\ order[q].step = "broken" => compilation[order[q].key].status # "none"

AnswersFit == (\A q \in Orders : Matches(q) /\ Alone(q) /\ Repeats(q)) /\ CreatedOnce

InForce(q) ==
  order[q].step # "idle" =>
    /\ order[q].ended \subseteq Ended
    /\ IF order[q].prompt = None THEN order[q].ended = {}
       ELSE \A a \in order[q].ended : order[q].prompt \notin since[a]
PromptsFit == \A q \in Orders : InForce(q)

OrdersInv == OrdersType /\ AnswersFit /\ PromptsFit

LEMMA OrdersInitFit == SetupInit => OrdersInv
<1> SUFFICES ASSUME SetupInit PROVE OrdersInv
  OBVIOUS
<1>1. NoOrder \in OrderRow /\ NoTask \in TaskRow /\ NoOrder.step = "idle" /\ NoTask.status = "none"
      /\ NoOrder.met = "none"
  BY DEF NoOrder, OrderRow, OrderSteps, NoTask, TaskRow
<1>2. \A q \in Orders : order[q] = NoOrder
  BY DEF SetupInit
<1>3. OrdersType
  BY <1>1 DEF SetupInit, OrdersType, AllFiles
<1> QED BY <1>1, <1>2, <1>3 DEF OrdersInv, AnswersFit, Matches, Alone, Repeats, CreatedOnce, PromptsFit, InForce,
                        NoOrder

\* What one request does concerns the others only through its row and the task of its key.
LEMMA PromptsLeaveOrders ==
  ASSUME OrdersInv, UNCHANGED <<order, compilation, file>>,
         \A a \in Ended : since'[a] = since[a] /\ activation'[a].step = "done"
  PROVE  OrdersInv'
<1>1. order' = order /\ compilation' = compilation /\ file' = file
  OBVIOUS
<1>2. OrdersType' /\ AnswersFit'
  BY <1>1 DEF OrdersInv, OrdersType, AnswersFit, Matches, Alone, Repeats, CreatedOnce, SameRequest
<1>3. Ended \subseteq Ended'
  BY DEF Ended
<1>4. PromptsFit'
  <2> SUFFICES ASSUME NEW q \in Orders PROVE InForce(q)'
    BY DEF PromptsFit
  <2>1. InForce(q)
    BY DEF OrdersInv, PromptsFit
  <2> QED BY <1>1, <1>3, <2>1 DEF InForce
<1> QED BY <1>2, <1>4 DEF OrdersInv

LEMMA FilesLeaveOrders ==
  ASSUME OrdersInv, UNCHANGED <<prompt, activation, since, order, compilation>>, file' \in SUBSET AllFiles
  PROVE  OrdersInv'
<1>1. order' = order /\ compilation' = compilation /\ since' = since /\ activation' = activation
  OBVIOUS
<1>2. OrdersType'
  BY <1>1 DEF OrdersInv, OrdersType
<1>3. AnswersFit'
  BY <1>1 DEF OrdersInv, AnswersFit, Matches, Alone, Repeats, CreatedOnce, SameRequest
<1>4. PromptsFit'
  BY <1>1 DEF OrdersInv, PromptsFit, InForce, Ended
<1> QED BY <1>2, <1>3, <1>4 DEF OrdersInv

LEMMA ReadFits ==
  ASSUME PromptsInv, OrdersInv, NEW q \in Orders, ReadPrompt(q)
  PROVE  OrdersInv'
<1>1. PICK k \in OrderKeys, x \in OrderParams, kind \in {"create", "start"}, files \in SUBSET file :
        order' = [order EXCEPT ![q] = Request(kind, k, x, files)]
  BY DEF ReadPrompt
<1>0. compilation[k].status \in {"none", "draft", "extracting"}
  BY DEF OrdersInv, OrdersType, TaskRow
<1> DEFINE row == Request(kind, k, x, files)
<1>2. IF CurrentPrompt = None THEN Ended = {}
      ELSE CurrentPrompt \in Activations /\ \A a \in Ended : CurrentPrompt \notin since[a]
  BY CurrentPromptIsInForce
<1>3. CurrentPrompt \in Activations \cup {None} /\ Ended \subseteq Activations /\ files \subseteq AllFiles
  BY <1>2 DEF Ended, OrdersInv, OrdersType
<1>4. row \in OrderRow /\ row.step = "lookup" /\ row.key = k /\ row.prompt = CurrentPrompt /\ row.ended = Ended
      /\ row.met = compilation[k].status
  BY <1>0, <1>3 DEF OrderRow, OrderSteps, Request
<1>10. order' = [order EXCEPT ![q] = row]
  BY <1>1
<1> HIDE DEF row
<1>5. /\ order' \in [Orders -> OrderRow] /\ order'[q] = row
      /\ \A p \in Orders : p # q => order'[p] = order[p]
  BY <1>4, <1>10 DEF OrdersInv, OrdersType
<1>6. compilation' = compilation /\ file' = file /\ since' = since /\ activation' = activation
  BY DEF ReadPrompt, fileVars
<1>7. OrdersType'
  BY <1>4, <1>5, <1>6 DEF OrdersInv, OrdersType
<1>8. AnswersFit'
  BY <1>4, <1>5, <1>6 DEF OrdersInv, AnswersFit, Matches, Alone, Repeats, CreatedOnce, SameRequest
<1>9. ASSUME NEW p \in Orders PROVE InForce(p)'
  <2>1. CASE p = q
    BY <1>2, <1>4, <1>5, <1>6, <2>1 DEF InForce, Ended
  <2>2. CASE p # q
    BY <1>5, <1>6, <2>2 DEF InForce, Ended, OrdersInv, PromptsFit
  <2> QED BY <2>1, <2>2
<1> QED BY <1>7, <1>8, <1>9 DEF OrdersInv, PromptsFit

\* A request goes to another step, and that is all of its row that changes.
LEMMA OrderMoves ==
  ASSUME OrdersInv, NEW q \in Orders, NEW step \in OrderSteps, OrderTo(q, step), order[q].step # "idle",
         step # "idle"
  PROVE  /\ order' \in [Orders -> OrderRow]
         /\ \A p \in Orders : p # q => order'[p] = order[p]
         /\ order'[q].step = step /\ order'[q].key = order[q].key /\ order'[q].params = order[q].params
         /\ order'[q].prompt = order[q].prompt /\ order'[q].ended = order[q].ended
         /\ order'[q].met = order[q].met
         /\ order[q].key \in OrderKeys /\ file' = file
         /\ PromptsFit' /\ UNCHANGED <<prompt, activation, since>>
<1>1. PICK old \in OrderRow : old = order[q]
  BY DEF OrdersInv, OrdersType
<1> DEFINE row == [old EXCEPT !.step = step]
<1>2. /\ row \in OrderRow /\ row.step = step /\ row.key = old.key /\ row.params = old.params
      /\ row.prompt = old.prompt /\ row.ended = old.ended /\ row.met = old.met
  BY DEF OrderRow
<1>3. order' = [order EXCEPT ![q] = row]
  BY <1>1 DEF OrderTo
<1> HIDE DEF row
<1>4. order' \in [Orders -> OrderRow] /\ order'[q] = row /\ \A p \in Orders : p # q => order'[p] = order[p]
  BY <1>2, <1>3 DEF OrdersInv, OrdersType
<1>5. since' = since /\ activation' = activation /\ prompt' = prompt /\ file' = file
  BY DEF OrderTo, fileVars
<1>6. ASSUME NEW p \in Orders PROVE InForce(p)'
  <2>1. InForce(p) /\ Ended' = Ended
    BY <1>5 DEF OrdersInv, PromptsFit, Ended
  <2>2. CASE p = q
    BY <1>1, <1>2, <1>4, <1>5, <2>1, <2>2 DEF InForce
  <2>3. CASE p # q
    BY <1>4, <1>5, <2>1, <2>3 DEF InForce
  <2> QED BY <2>2, <2>3
<1>7. PromptsFit'
  BY <1>6 DEF PromptsFit
<1>8. order[q].key \in OrderKeys
  BY DEF OrdersInv, OrdersType
<1> QED BY <1>1, <1>2, <1>4, <1>5, <1>7, <1>8

\* A task may go on and get sources; what it was made from stays.
TasksKept ==
  /\ compilation' \in [OrderKeys -> TaskRow]
  /\ \A k \in OrderKeys :
       /\ compilation[k].status = "none" => compilation'[k] = compilation[k]
       /\ compilation[k].status # "none" =>
            /\ compilation'[k].status # "none"
            /\ compilation'[k].params = compilation[k].params
            /\ compilation'[k].prompt = compilation[k].prompt

LEMMA SameTasksAreKept == ASSUME OrdersInv, compilation' = compilation PROVE TasksKept
  BY DEF OrdersInv, OrdersType, TasksKept

\* FindTask, MissTask, InsertTask, StartTask, AbortOrder and every error.
LEMMA StepFits ==
  ASSUME OrdersInv, NEW q \in Orders, NEW step \in OrderSteps, OrderTo(q, step), TasksKept,
         order[q].step # "idle", step \notin {"idle", "created"},
         step \in {"existing", "sources"} => compilation[order[q].key].status # "none" /\ SameRequest(q),
         step = "inserted" => compilation[order[q].key].status = "none" /\ Inserting(order[q].key) = {},
         step \in {"insert", "inserted"} => order[q].met = "none",
         step = "broken" => compilation[order[q].key].status # "none" /\ order[q].met = "none"
  PROVE  OrdersInv'
<1>1. /\ order' \in [Orders -> OrderRow]
      /\ \A p \in Orders : p # q => order'[p] = order[p]
      /\ order'[q].step = step /\ order'[q].key = order[q].key /\ order'[q].params = order[q].params
      /\ order'[q].prompt = order[q].prompt /\ order'[q].met = order[q].met
      /\ order[q].key \in OrderKeys /\ file' = file /\ PromptsFit'
  BY OrderMoves
<1>2. OrdersType'
  BY <1>1 DEF OrdersInv, OrdersType, TasksKept
<1>6. \A p \in Orders : order[p].step # "idle" => order[p].key \in OrderKeys
  BY DEF OrdersInv, OrdersType
<1>3. ASSUME NEW p \in Orders PROVE Matches(p)'
  <2>1. CASE p = q
    BY <1>1, <2>1 DEF Matches, SameRequest, TasksKept
  <2>2. CASE p # q
    BY <1>1, <1>6, <2>2 DEF Matches, SameRequest, OrdersInv, AnswersFit, TasksKept
  <2> QED BY <2>1, <2>2
<1>4. ASSUME NEW p \in Orders PROVE Alone(p)'
  <2>1. CASE p = q
    BY <1>1, <2>1 DEF Alone, Inserting, TasksKept
  <2>2. CASE p # q
    <3>1. Alone(p)
      BY DEF OrdersInv, AnswersFit
    <3>2. order[p].step = "inserted" /\ order[p].key = order[q].key => step # "inserted"
      BY DEF Inserting
    <3> QED BY <1>1, <1>6, <2>2, <3>1, <3>2 DEF Alone, TasksKept
  <2> QED BY <2>1, <2>2
<1>5. CreatedOnce'
  BY <1>1 DEF OrdersInv, AnswersFit, CreatedOnce
<1>7. ASSUME NEW p \in Orders PROVE Repeats(p)'
  <2>1. Repeats(p)
    BY DEF OrdersInv, AnswersFit
  <2>2. order[p].met # "none" => order[p].key \in OrderKeys
    BY <1>6 DEF OrdersInv, OrdersType
  <2>3. CASE p = q
    BY <1>1, <2>1, <2>2, <2>3 DEF Repeats, TasksKept
  <2>4. CASE p # q
    BY <1>1, <1>6, <2>1, <2>2, <2>4 DEF Repeats, TasksKept
  <2> QED BY <2>3, <2>4
<1> QED BY <1>1, <1>2, <1>3, <1>4, <1>5, <1>7 DEF OrdersInv, AnswersFit

\* add_generation_sources and prepare_fact_confirmation as requests of their own
LEMMA TasksFit ==
  ASSUME OrdersInv, TasksKept, UNCHANGED <<prompt, activation, since, file, order>>
  PROVE  OrdersInv'
<1>1. order' = order /\ file' = file /\ since' = since /\ activation' = activation
  OBVIOUS
<1>2. \A p \in Orders : order[p].step # "idle" => order[p].key \in OrderKeys
  BY DEF OrdersInv, OrdersType
<1>3. OrdersType'
  BY <1>1 DEF OrdersInv, OrdersType, TasksKept
<1>7. ASSUME NEW p \in Orders PROVE Repeats(p)'
  <2>1. Repeats(p) /\ (order[p].met # "none" => order[p].key \in OrderKeys)
    BY <1>2 DEF OrdersInv, OrdersType, AnswersFit
  <2> QED BY <1>1, <1>2, <2>1 DEF Repeats, TasksKept
<1>4. ASSUME NEW p \in Orders PROVE Matches(p)' /\ Alone(p)'
  BY <1>1, <1>2 DEF OrdersInv, AnswersFit, Matches, Alone, SameRequest, TasksKept
<1>5. CreatedOnce'
  BY <1>1 DEF OrdersInv, AnswersFit, CreatedOnce
<1>6. PromptsFit'
  BY <1>1 DEF OrdersInv, PromptsFit, InForce, Ended
<1> QED BY <1>3, <1>4, <1>5, <1>6, <1>7 DEF OrdersInv, AnswersFit

LEMMA StartedFits ==
  ASSUME NEW q \in Orders, OrdersInv, NEW task \in TaskRow
  PROVE  /\ Started(task, q) \in TaskRow /\ Started(task, q).status = "extracting"
         /\ Started(task, q).params = task.params /\ Started(task, q).prompt = task.prompt
<1>1. order[q].files \in SUBSET AllFiles
  BY DEF OrdersInv, OrdersType, OrderRow
<1> QED BY <1>1 DEF Started, TaskRow

LEMMA StartTaskFits ==
  ASSUME OrdersInv, NEW q \in Orders, StartTask(q)
  PROVE  OrdersInv'
<1> DEFINE k == order[q].key
<1>1. order[q].step = "sources" /\ k \in OrderKeys /\ compilation[k].status # "none" /\ SameRequest(q)
  BY DEF StartTask, OrdersInv, OrdersType, AnswersFit, Matches
<1>2. CASE OrderTo(q, "error") /\ compilation' = compilation
  BY <1>1, <1>2, SameTasksAreKept, StepFits DEF OrderSteps
<1>3. CASE /\ \A f \in order[q].files : EntrySource(f)
           /\ OrderTo(q, "existing") /\ compilation' = [compilation EXCEPT ![k] = Started(@, q)]
  <2>1. PICK task \in TaskRow : task = compilation[k]
    BY <1>1 DEF OrdersInv, OrdersType
  <2>2. /\ Started(task, q) \in TaskRow /\ Started(task, q).status = "extracting"
        /\ Started(task, q).params = task.params /\ Started(task, q).prompt = task.prompt
    BY <1>3, StartedFits
  <2>3. compilation' = [compilation EXCEPT ![k] = Started(task, q)]
    BY <1>3, <2>1
  <2>4. TasksKept
    BY <1>1, <2>1, <2>2, <2>3 DEF TasksKept, OrdersInv, OrdersType
  <2> QED BY <1>1, <1>3, <2>4, StepFits DEF OrderSteps
<1> QED BY <1>2, <1>3 DEF StartTask

\* The row of a key is committed: nobody else holds that key, nobody was given it before.
LEMMA TaskCommitFits ==
  ASSUME OrdersInv, NEW q \in Orders, CommitTask(q)
  PROVE  OrdersInv'
<1> DEFINE k == order[q].key
<1> DEFINE new == [NoTask EXCEPT !.status = "draft", !.params = order[q].params, !.prompt = order[q].prompt]
<1>1. order[q].step = "inserted"
  BY DEF CommitTask
<1>2. CASE OrderTo(q, "error") /\ compilation' = compilation
  BY <1>1, <1>2, SameTasksAreKept, StepFits DEF OrderSteps
<1>3. CASE /\ \A f \in order[q].files : EntrySource(f)
           /\ OrderTo(q, "created")
           /\ compilation' = [compilation EXCEPT ![k] = IF order[q].kind = "start" THEN Started(new, q) ELSE new]
  <2>1. order[q] \in OrderRow
    BY DEF OrdersInv, OrdersType
  <2>2. new \in TaskRow /\ new.status = "draft" /\ new.params = order[q].params /\ new.prompt = order[q].prompt
    BY <2>1 DEF NoTask, TaskRow, OrderRow
  <2> HIDE DEF new
  <2>3. /\ Started(new, q) \in TaskRow /\ Started(new, q).status = "extracting"
        /\ Started(new, q).params = new.params /\ Started(new, q).prompt = new.prompt
    BY <1>3, <2>2, StartedFits
  <2>4. PICK task \in TaskRow : /\ compilation' = [compilation EXCEPT ![k] = task]
                                /\ task.status # "none" /\ task.params = order[q].params
                                /\ task.prompt = order[q].prompt
    BY <1>3, <2>2, <2>3
  <2>5. /\ order' \in [Orders -> OrderRow]
        /\ \A p \in Orders : p # q => order'[p] = order[p]
        /\ order'[q].step = "created" /\ order'[q].key = k /\ order'[q].params = order[q].params
        /\ order'[q].prompt = order[q].prompt /\ order'[q].met = order[q].met
        /\ k \in OrderKeys /\ file' = file /\ PromptsFit'
    BY <1>1, <1>3, OrderMoves DEF OrderSteps
  <2>6. /\ compilation' \in [OrderKeys -> TaskRow] /\ compilation'[k] = task
        /\ \A l \in OrderKeys : l # k => compilation'[l] = compilation[l]
    BY <2>4, <2>5 DEF OrdersInv, OrdersType
  <2>7. OrdersType'
    BY <2>4, <2>5, <2>6 DEF OrdersInv, OrdersType
  <2>8. /\ compilation[k].status = "none"
        /\ \A p \in Orders : order[p].step = "inserted" /\ order[p].key = k => p = q
    BY <1>1 DEF OrdersInv, AnswersFit, Alone
  <2>9. \A p \in Orders : order[p].step \in {"created", "existing", "sources"} => order[p].key # k
    BY <2>8 DEF OrdersInv, AnswersFit, Matches
  <2>10. \A p \in Orders : order[p].step # "idle" => order[p].key \in OrderKeys
    BY DEF OrdersInv, OrdersType
  <2>11. ASSUME NEW p \in Orders PROVE Matches(p)'
    <3>1. CASE p = q
      BY <2>4, <2>5, <2>6, <3>1 DEF Matches, SameRequest
    <3>2. CASE p # q
      BY <2>5, <2>6, <2>9, <2>10, <3>2 DEF Matches, SameRequest, OrdersInv, AnswersFit
    <3> QED BY <3>1, <3>2
  <2>12. ASSUME NEW p \in Orders PROVE Alone(p)'
    <3>1. CASE p = q
      BY <2>5, <3>1 DEF Alone
    <3>2. CASE p # q
      <4>1. Alone(p)
        BY DEF OrdersInv, AnswersFit
      <4> QED BY <2>5, <2>6, <2>8, <2>10, <3>2, <4>1 DEF Alone
    <3> QED BY <3>1, <3>2
  <2>13. CreatedOnce'
    BY <2>5, <2>9 DEF OrdersInv, AnswersFit, CreatedOnce
  <2>14. ASSUME NEW p \in Orders PROVE Repeats(p)'
    <3>1. Repeats(p) /\ (order[p].met # "none" => order[p].key \in OrderKeys)
      BY <2>10 DEF OrdersInv, OrdersType, AnswersFit
    <3>2. CASE p = q
      BY <2>5, <2>8, <3>1, <3>2 DEF Repeats
    <3>3. CASE p # q
      BY <2>4, <2>5, <2>6, <2>10, <3>1, <3>3 DEF Repeats
    <3> QED BY <3>2, <3>3
  <2> QED BY <2>5, <2>7, <2>11, <2>12, <2>13, <2>14 DEF OrdersInv, AnswersFit
<1> QED BY <1>2, <1>3 DEF CommitTask

LEMMA OrderRequestFits ==
  ASSUME PromptsInv, OrdersInv, NEW q \in Orders,
         ReadPrompt(q) \/ FindTask(q) \/ MissTask(q) \/ InsertTask(q) \/ CommitTask(q) \/ StartTask(q) \/ AbortOrder(q)
  PROVE  PromptsInv' /\ OrdersInv'
<1>1. PromptsInv'
  BY OrdersLeavePrompts
  DEF ReadPrompt, FindTask, MissTask, InsertTask, CommitTask, StartTask, AbortOrder, OrderTo
<1>2. NoTask.status = "none" /\ (order[q].step # "idle" => order[q].key \in OrderKeys)
  BY DEF NoTask, OrdersInv, OrdersType
<1>3. \A k \in OrderKeys : compilation[k].status = "none" <=> compilation[k] = NoTask
  BY <1>2 DEF OrdersInv, OrdersType
<1>4. CASE FindTask(q)
  <2>1. order[q].step = "lookup" /\ compilation[order[q].key].status # "none"
    BY <1>2, <1>3, <1>4 DEF FindTask
  <2>2. PICK step \in {"conflict", "sources", "existing"} :
          OrderTo(q, step) /\ (step # "conflict" => SameRequest(q))
    BY <1>4 DEF FindTask
  <2>3. TasksKept
    BY <1>4, SameTasksAreKept DEF FindTask
  <2> QED BY <1>1, <2>1, <2>2, <2>3, StepFits DEF OrderSteps
<1>8. order[q].met # "none" => compilation[order[q].key].status # "none"
  BY DEF OrdersInv, AnswersFit, Repeats
<1>5. CASE MissTask(q)
  <2>1. order[q].step = "lookup" /\ order[q].met = "none" /\ OrderTo(q, "insert") /\ TasksKept
    BY <1>2, <1>5, <1>8, SameTasksAreKept DEF MissTask
  <2> QED BY <1>1, <2>1, StepFits DEF OrderSteps
<1>6. CASE InsertTask(q)
  <2>1. order[q].step = "insert" /\ Inserting(order[q].key) = {} /\ TasksKept
    BY <1>6, SameTasksAreKept DEF InsertTask
  <2>2. PICK step \in {"inserted", "broken"} :
          OrderTo(q, step) /\ (step = "inserted" <=> compilation[order[q].key] = NoTask)
    BY <1>6 DEF InsertTask
  <2>3. order[q].met = "none" /\ order[q].key \in OrderKeys
    BY <1>2, <2>1 DEF OrdersInv, AnswersFit, Repeats
  <2> QED BY <1>1, <1>2, <1>3, <2>1, <2>2, <2>3, StepFits DEF OrderSteps
<1>7. CASE AbortOrder(q)
  BY <1>1, <1>7, SameTasksAreKept, StepFits DEF AbortOrder, OrderSteps
<1> QED BY <1>1, <1>4, <1>5, <1>6, <1>7, ReadFits, TaskCommitFits, StartTaskFits

LEMMA TaskRequestFits ==
  ASSUME PromptsInv, OrdersInv, NEW k \in OrderKeys, AddSources(k) \/ PrepareTask(k)
  PROVE  PromptsInv' /\ OrdersInv'
<1>1. PICK task \in TaskRow : task = compilation[k]
  BY DEF OrdersInv, OrdersType
<1>2. \E new \in TaskRow : /\ compilation' = [compilation EXCEPT ![k] = new]
                           /\ new.status # "none" /\ new.params = task.params /\ new.prompt = task.prompt
                           /\ task.status # "none"
  <2>1. CASE AddSources(k)
    <3>1. PICK files \in SUBSET {f \in file : EntrySource(f)} :
            compilation' = [compilation EXCEPT ![k] = [task EXCEPT !.sources = @ \cup files]]
      BY <1>1, <2>1 DEF AddSources
    <3>3. files \in SUBSET AllFiles
      BY DEF OrdersInv, OrdersType
    <3> DEFINE new == [task EXCEPT !.sources = @ \cup files]
    <3>4. new \in TaskRow /\ new.status = task.status /\ new.params = task.params /\ new.prompt = task.prompt
      BY <3>3 DEF TaskRow
    <3>5. task.status = "draft"
      BY <1>1, <2>1 DEF AddSources
    <3> HIDE DEF new
    <3>6. compilation' = [compilation EXCEPT ![k] = new]
      BY <3>1 DEF new
    <3> QED BY <3>4, <3>5, <3>6
  <2>2. CASE PrepareTask(k)
    <3> DEFINE new == [task EXCEPT !.status = "extracting"]
    <3>1. new \in TaskRow /\ new.status = "extracting" /\ new.params = task.params /\ new.prompt = task.prompt
      BY DEF TaskRow
    <3>2. compilation' = [compilation EXCEPT ![k] = new] /\ task.status = "draft"
      BY <1>1, <2>2 DEF PrepareTask
    <3> HIDE DEF new
    <3> QED BY <3>1, <3>2
  <2> QED BY <2>1, <2>2
<1>3. TasksKept
  BY <1>1, <1>2 DEF TasksKept, OrdersInv, OrdersType
<1>4. UNCHANGED <<prompt, activation, since, file, order>>
  BY DEF AddSources, PrepareTask, fileVars
<1> QED BY <1>3, <1>4, TasksFit, OrdersLeavePrompts

LEMMA ActivationFits ==
  ASSUME PromptsInv, OrdersInv, NEW a \in Activations,
         BeginActivation(a) \/ Deactivate(a) \/ CreatePrompt(a) \/ CommitPrompt(a) \/ AbortActivation(a)
  PROVE  PromptsInv' /\ OrdersInv'
<1>1. PromptsInv'
  BY BeginFits, DeactivateFits, CreateFits, CommitFits, AbortFits
<1>2. UNCHANGED <<order, compilation, file>>
  BY DEF BeginActivation, Deactivate, CreatePrompt, CommitPrompt, AbortActivation, fileVars
<1>3. ASSUME NEW b \in Ended PROVE since'[b] = since[b] /\ activation'[b].step = "done"
  <2>1. b \in Activations /\ activation[b].step = "done"
    BY DEF Ended
  <2>2. activation \in [Activations -> ActivationRow] /\ since \in [Activations -> SUBSET Activations]
    BY DEF PromptsInv, PromptsType
  <2>3. CASE b # a
    BY <2>1, <2>2, <2>3 DEF BeginActivation, Deactivate, CreatePrompt, CommitPrompt, AbortActivation
  <2>4. CASE b = a
    BY <2>1, <2>4 DEF BeginActivation, Deactivate, CreatePrompt, CommitPrompt, AbortActivation
  <2> QED BY <2>3, <2>4
<1> QED BY <1>1, <1>2, <1>3, PromptsLeaveOrders

LEMMA TemplateFits ==
  ASSUME PromptsInv, OrdersInv,
         \/ \E t \in Templates : UploadTemplate(t) \/ RegisterTemplate(t) \/ CopyTemplate(t)
         \/ \E f \in file : EditDescription(f)
  PROVE  PromptsInv' /\ OrdersInv'
<1>1. file' \in SUBSET AllFiles
  BY DEF UploadTemplate, RegisterTemplate, CopyTemplate, EditDescription, AllFiles, OrdersInv,
         OrdersType, fileVars
<1>2. UNCHANGED <<prompt, activation, since, order, compilation>>
  BY DEF UploadTemplate, RegisterTemplate, CopyTemplate, EditDescription
<1> QED BY <1>1, <1>2, FilesLeaveOrders, OrdersLeavePrompts

-------------------------------------------------------------------------------
(* Sources *)

\* Every file is an entry file, or can be told from one, or a user has seen to it that it
\* cannot.
FilesAreKnown == \A f \in file : f \in EntryFiles \cup exposed \cup marked \cup RegisteredTemplates
SourcesInv ==
  /\ template \in [Templates -> {"none", "stored", "registered"}]
  /\ FilesAreKnown /\ TemplatesAreNoSources
  /\ \A q \in Orders : order[q].files \subseteq file

LEMMA SourcesInitFit == SetupInit => SourcesInv
  BY DEF SetupInit, SourcesInv, FilesAreKnown, TemplatesAreNoSources, NoOrder, NoTask

LEMMA FileStepsFit ==
  ASSUME SourcesInv,
         \/ \E t \in Templates : UploadTemplate(t) \/ RegisterTemplate(t) \/ CopyTemplate(t)
         \/ \E f \in file : EditDescription(f)
  PROVE  SourcesInv'
<1>1. /\ order' = order /\ compilation' = compilation
      /\ file \subseteq file' /\ exposed \subseteq exposed'
  BY DEF UploadTemplate, RegisterTemplate, CopyTemplate, EditDescription, fileVars
<1>2. RegisteredTemplates \subseteq RegisteredTemplates'
  BY DEF UploadTemplate, RegisterTemplate, CopyTemplate, EditDescription, RegisteredTemplates, SourcesInv
<1>4. template' \in [Templates -> {"none", "stored", "registered"}]
  BY DEF UploadTemplate, RegisterTemplate, CopyTemplate, EditDescription, SourcesInv
<1>3. file' \ file \subseteq marked' /\ marked \ marked' \subseteq exposed' \cup RegisteredTemplates
  BY DEF UploadTemplate, RegisterTemplate, CopyTemplate, EditDescription, fileVars
<1> QED BY <1>1, <1>2, <1>3, <1>4 DEF SourcesInv, FilesAreKnown, TemplatesAreNoSources

\* What a request may read or write of the files and tasks.
LEMMA TaskStepsFit ==
  ASSUME SourcesInv, UNCHANGED <<fileVars, template>>,
         \A q \in Orders : order'[q].files \subseteq file,
         \A k \in OrderKeys : \A f \in compilation'[k].sources \ compilation[k].sources :
           f \in file /\ EntrySource(f)
  PROVE  SourcesInv'
<1>1. file' = file /\ exposed' = exposed /\ marked' = marked /\ RegisteredTemplates' = RegisteredTemplates
  BY DEF fileVars, RegisteredTemplates
<1>2. \A f \in file : EntrySource(f) => f \in EntryFiles \cup exposed
  BY DEF SourcesInv, FilesAreKnown, EntrySource
<1> QED BY <1>1, <1>2 DEF SourcesInv, FilesAreKnown, TemplatesAreNoSources

LEMMA RequestStepsFit ==
  ASSUME OrdersInv, SourcesInv, NEW q \in Orders,
         ReadPrompt(q) \/ FindTask(q) \/ MissTask(q) \/ InsertTask(q) \/ CommitTask(q) \/ StartTask(q) \/ AbortOrder(q)
  PROVE  SourcesInv'
<1>1. UNCHANGED <<fileVars, template>>
  BY DEF ReadPrompt, FindTask, MissTask, InsertTask, CommitTask, StartTask, AbortOrder, OrderTo
<1>2. ASSUME NEW p \in Orders PROVE order'[p].files \subseteq file
  <2>1. PICK row \in OrderRow : row = order[q]
    BY DEF OrdersInv, OrdersType
  <2>2. order[p].files \subseteq file
    BY DEF SourcesInv
  <2>3. CASE ReadPrompt(q)
    <3>1. PICK k \in OrderKeys, x \in OrderParams, kind \in {"create", "start"}, files \in SUBSET file :
            order' = [order EXCEPT ![q] = Request(kind, k, x, files)]
      BY <2>3 DEF ReadPrompt
    <3>2. Request(kind, k, x, files).files = files
      BY DEF Request
    <3> QED BY <2>2, <3>1, <3>2 DEF OrdersInv, OrdersType
  <2>4. CASE \E step \in OrderSteps : OrderTo(q, step)
    <3>1. PICK step \in OrderSteps : order' = [order EXCEPT ![q] = [row EXCEPT !.step = step]]
      BY <2>1, <2>4 DEF OrderTo
    <3>2. [row EXCEPT !.step = step].files = row.files
      BY DEF OrderRow
    <3> QED BY <2>1, <2>2, <3>1, <3>2 DEF OrdersInv, OrdersType
  <2>5. ReadPrompt(q) \/ \E step \in OrderSteps : OrderTo(q, step)
    BY DEF FindTask, MissTask, InsertTask, CommitTask, StartTask, AbortOrder, OrderSteps
  <2> QED BY <2>3, <2>4, <2>5
<1>3. ASSUME NEW k \in OrderKeys, NEW f \in compilation'[k].sources \ compilation[k].sources
      PROVE  f \in file /\ EntrySource(f)
  <2> DEFINE l == order[q].key
  <2>1. compilation \in [OrderKeys -> TaskRow]
    BY DEF OrdersInv, OrdersType
  <2>2. order[q].files \subseteq file
    BY DEF SourcesInv
  <2>3. compilation' # compilation
    BY <1>3
  <2>4. CASE CommitTask(q)
    <3> DEFINE new == [NoTask EXCEPT !.status = "draft", !.params = order[q].params, !.prompt = order[q].prompt]
    <3>1. /\ \A g \in order[q].files : EntrySource(g)
          /\ compilation' = [compilation EXCEPT ![l] = IF order[q].kind = "start" THEN Started(new, q) ELSE new]
      BY <2>3, <2>4 DEF CommitTask
    <3>2. new.sources = {} /\ Started(new, q).sources = order[q].files
      BY DEF NoTask, Started
    <3> HIDE DEF new
    <3> QED BY <1>3, <2>1, <2>2, <3>1, <3>2
  <2>5. CASE StartTask(q)
    <3>1. /\ \A g \in order[q].files : EntrySource(g)
          /\ compilation' = [compilation EXCEPT ![l] = Started(@, q)]
      BY <2>3, <2>5 DEF StartTask
    <3>2. PICK task \in TaskRow : compilation[k] = task
      BY <2>1
    <3>3. Started(task, q).sources = task.sources \cup order[q].files
      BY DEF Started, TaskRow
    <3> QED BY <1>3, <2>1, <2>2, <3>1, <3>2, <3>3
  <2> QED BY <2>3, <2>4, <2>5 DEF ReadPrompt, FindTask, MissTask, InsertTask, AbortOrder
<1> QED BY <1>1, <1>2, <1>3, TaskStepsFit

LEMMA TaskRequestStepsFit ==
  ASSUME OrdersInv, SourcesInv, NEW k \in OrderKeys, AddSources(k) \/ PrepareTask(k)
  PROVE  SourcesInv'
<1>1. UNCHANGED <<fileVars, template>> /\ order' = order
  BY DEF AddSources, PrepareTask
<1>2. ASSUME NEW l \in OrderKeys, NEW f \in compilation'[l].sources \ compilation[l].sources
      PROVE  f \in file /\ EntrySource(f)
  <2>1. PICK task \in TaskRow : compilation[k] = task
    BY DEF OrdersInv, OrdersType
  <2>2. compilation \in [OrderKeys -> TaskRow]
    BY DEF OrdersInv, OrdersType
  <2>3. CASE AddSources(k)
    <3>1. PICK files \in SUBSET {g \in file : EntrySource(g)} :
            compilation' = [compilation EXCEPT ![k] = [task EXCEPT !.sources = @ \cup files]]
      BY <2>1, <2>3 DEF AddSources
    <3>2. [task EXCEPT !.sources = @ \cup files].sources = task.sources \cup files
      BY DEF TaskRow
    <3> QED BY <1>2, <2>1, <2>2, <3>1, <3>2
  <2>4. CASE PrepareTask(k)
    <3>1. compilation' = [compilation EXCEPT ![k] = [task EXCEPT !.status = "extracting"]]
      BY <2>1, <2>4 DEF PrepareTask
    <3>2. [task EXCEPT !.status = "extracting"].sources = task.sources
      BY DEF TaskRow
    <3> QED BY <1>2, <2>1, <2>2, <3>1, <3>2
  <2> QED BY <2>3, <2>4
<1> QED BY <1>1, <1>2, TaskStepsFit DEF SourcesInv

SetupInv == PromptsInv /\ OrdersInv /\ SourcesInv

\* What tasks are made from, through every interleaving of activations, templates, edits
\* of descriptions and requests.
THEOREM SetupInvariant == SetupSpec => []SetupInv
<1>1. SetupInv /\ [SetupNext]_setupVars => SetupInv'
  <2> SUFFICES ASSUME SetupInv, SetupNext \/ UNCHANGED setupVars PROVE SetupInv'
    OBVIOUS
  <2>0. PromptsInv /\ OrdersInv /\ SourcesInv
    BY DEF SetupInv
  <2>1. CASE UNCHANGED setupVars
    <3>1. UNCHANGED <<prompt, activation, since>> /\ UNCHANGED <<fileVars, template>>
      BY <2>1 DEF setupVars
    <3>2. order' = order /\ compilation' = compilation /\ file' = file
      BY <2>1 DEF setupVars, fileVars
    <3>3. PromptsInv'
      BY <2>0, <3>1, OrdersLeavePrompts
    <3>4. OrdersInv'
      <4>1. file' \in SUBSET AllFiles
        BY <2>0, <3>2 DEF OrdersInv, OrdersType
      <4> QED BY <2>0, <3>1, <3>2, <4>1, FilesLeaveOrders
    <3>5. SourcesInv'
      BY <2>0, <3>1, <3>2, TaskStepsFit DEF SourcesInv
    <3> QED BY <3>3, <3>4, <3>5 DEF SetupInv
  <2>2. CASE \E a \in Activations : \/ BeginActivation(a) \/ Deactivate(a) \/ CreatePrompt(a)
                                   \/ CommitPrompt(a) \/ AbortActivation(a)
    <3>1. PICK a \in Activations : \/ BeginActivation(a) \/ Deactivate(a) \/ CreatePrompt(a)
                                  \/ CommitPrompt(a) \/ AbortActivation(a)
      BY <2>2
    <3>2. UNCHANGED <<fileVars, template>> /\ compilation' = compilation /\ order' = order
      <4>1. CASE BeginActivation(a)
        BY <4>1 DEF BeginActivation
      <4>2. CASE Deactivate(a)
        BY <4>2 DEF Deactivate
      <4>3. CASE CreatePrompt(a)
        BY <4>3 DEF CreatePrompt
      <4>4. CASE CommitPrompt(a)
        BY <4>4 DEF CommitPrompt
      <4>5. CASE AbortActivation(a)
        BY <4>5 DEF AbortActivation
      <4> QED BY <3>1, <4>1, <4>2, <4>3, <4>4, <4>5
    <3>3. SourcesInv'
      BY <2>0, <3>2, TaskStepsFit DEF SourcesInv
    <3> QED BY <2>0, <2>2, <3>3, ActivationFits DEF SetupInv
  <2>3. CASE \/ \E t \in Templates : UploadTemplate(t) \/ RegisterTemplate(t) \/ CopyTemplate(t)
             \/ \E f \in file : EditDescription(f)
    BY <2>0, <2>3, TemplateFits, FileStepsFit DEF SetupInv
  <2>4. CASE \E q \in Orders : \/ ReadPrompt(q) \/ FindTask(q) \/ MissTask(q) \/ InsertTask(q)
                              \/ CommitTask(q) \/ StartTask(q) \/ AbortOrder(q)
    BY <2>0, <2>4, OrderRequestFits, RequestStepsFit DEF SetupInv
  <2>5. CASE \E k \in OrderKeys : AddSources(k) \/ PrepareTask(k)
    BY <2>0, <2>5, TaskRequestFits, TaskRequestStepsFit DEF SetupInv
  <2> QED BY <2>1, <2>2, <2>3, <2>4, <2>5 DEF SetupNext
<1>2. SetupInit => SetupInv
  BY PromptsInitFit, OrdersInitFit, SourcesInitFit DEF SetupInv
<1> QED BY <1>1, <1>2, PTL DEF SetupSpec

\* create_generation_task, activate_agent_system_prompt, _ensure_entry_source: who gets
\* the task of a key had asked for it, its prompt was in force when it was read, a
\* repetition is answered, and no template is among the sources of a task unless a user
\* has taken the marker from its description.
THEOREM SetupStaysSound == SetupSpec => []SetupIsSound
<1>1. SetupInv => SetupIsSound
  <2> SUFFICES ASSUME SetupInv PROVE SetupIsSound
    OBVIOUS
  <2>0. OrdersInv /\ SourcesInv
    BY DEF SetupInv
  <2>1. AnswersMatchTask
    BY <2>0 DEF OrdersInv, AnswersFit, Matches, CreatedOnce, SameRequest, AnswersMatchTask
  <2>2. PromptIsInForce
    BY <2>0 DEF OrdersInv, PromptsFit, InForce, PromptIsInForce
  <2>3. RepetitionIsAnswered
    BY <2>0 DEF OrdersInv, AnswersFit, Repeats, RepetitionIsAnswered, NoTask
  <2>4. TemplatesAreNoSources
    BY <2>0 DEF SourcesInv
  <2> QED BY <2>1, <2>2, <2>3, <2>4 DEF SetupIsSound
<1> QED BY <1>1, SetupInvariant, PTL

===============================================================================
