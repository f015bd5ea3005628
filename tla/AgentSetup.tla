------------------------------- MODULE AgentSetup -------------------------------
(***************************************************************************)
(* What a task is made from (services, bootstrap): administrators activate  *)
(* system prompts, users upload templates and copy them into the entry      *)
(* folder of the project, and requests create tasks and start them with     *)
(* their sources.  A key makes the repetition of a request harmless, and    *)
(* the fingerprint of its parameters, the prompt among them, tells a        *)
(* repetition from another request.  What a template is can be seen from    *)
(* its registration and from a marker in the description of its file, which *)
(* whoever may change the document may edit.                                *)
(***************************************************************************)
EXTENDS Naturals, FiniteSets

CONSTANTS
  Activations,   \* bound: uploads of a system prompt, each with a text of its own
  Orders,        \* bound: requests to create a task or to start one
  OrderKeys,     \* idempotency keys
  OrderParams,   \* project, template, facts and context
  Templates,     \* templates that users upload
  EntryFiles,    \* files in the entry folder that are no templates
  None

ASSUME SetupAssumption == None \notin Activations \cup OrderKeys

VARIABLES
  prompt,      \* rows: is_active, created_at
  activation,  \* step of an activation; the rows it scans and those it holds
  since,       \* history: the activations that had ended when one began
  file,        \* the files of the entry folder: entry files, templates and copies
  marked,      \* the files with CLIENT_TEMPLATE_DESCRIPTION_MARKER in their description
  exposed,     \* history: the files whose marker a user has taken away, registered ones apart
  template,    \* upload of a template: step
  compilation, \* task of a key: parameters, prompt, status, sources
  order        \* requests: step, key, parameters, what they have read, answer;
               \* met: history: the status of the task of the key when it began

fileVars == <<file, marked, exposed>>
setupVars == <<prompt, activation, since, fileVars, template, compilation, order>>

-------------------------------------------------------------------------------
(* activate_agent_system_prompt *)

NoPrompt == [active |-> FALSE, created |-> 0]
Ended == {a \in Activations : activation[a].step = "done"}
ActivePrompts == {a \in Activations : prompt[a].active}

\* The UPDATE of the active rows begins: it scans what is committed now.
BeginActivation(a) ==
  /\ activation[a].step = "idle"
  /\ activation' = [activation EXCEPT ![a].step = "scan", ![a].scanned = ActivePrompts]
  /\ since' = [since EXCEPT ![a] = Ended]
  /\ UNCHANGED <<prompt, fileVars, template, compilation, order>>

HeldRows == UNION {activation[a].held : a \in Activations}

\* It waits for rows that another activation holds, reads them again, and may or may not
\* meet rows that were committed meanwhile (READ COMMITTED; the index has the newest first).
Deactivate(a) ==
  /\ activation[a].step = "scan" /\ activation[a].scanned \cap HeldRows = {}
  /\ \E met \in SUBSET (ActivePrompts \ (activation[a].scanned \cup HeldRows)) :
       activation' = [activation EXCEPT ![a].step = "create",
                        ![a].held = (activation[a].scanned \cap ActivePrompts) \cup met]
  /\ UNCHANGED <<prompt, since, fileVars, template, compilation, order>>

Newest(S) == CHOOSE a \in S : \A b \in S : activation[b].created <= activation[a].created

\* create() takes created_at; the row is not committed yet.
CreatePrompt(a) ==
  /\ activation[a].step = "create"
  /\ LET before == activation[Newest(Activations)].created
     IN activation' = [activation EXCEPT ![a].step = "commit", ![a].created = before + 1]
  /\ UNCHANGED <<prompt, since, fileVars, template, compilation, order>>

CommitPrompt(a) ==
  /\ activation[a].step = "commit"
  /\ prompt' = [p \in Activations |->
                  IF p = a THEN [active |-> TRUE, created |-> activation[a].created]
                  ELSE IF p \in activation[a].held THEN [prompt[p] EXCEPT !.active = FALSE] ELSE prompt[p]]
  /\ activation' = [activation EXCEPT ![a].step = "done", ![a].held = {}]
  /\ UNCHANGED <<since, fileVars, template, compilation, order>>

AbortActivation(a) ==
  /\ activation[a].step \in {"scan", "create", "commit"}
  /\ activation' = [activation EXCEPT ![a].step = "failed", ![a].held = {}]
  /\ UNCHANGED <<prompt, since, fileVars, template, compilation, order>>

\* AgentSystemPrompt.objects.filter(is_active=True).order_by("-created_at", "-id").first()
CurrentPrompt == IF ActivePrompts = {} THEN None
                 ELSE CHOOSE a \in ActivePrompts : \A b \in ActivePrompts : prompt[b].created <= prompt[a].created

-------------------------------------------------------------------------------
(* create_self_service_template and sync_template_to_project_entry: each stores a
   document first and has no transaction around the whole. *)

CopyOf(t) == <<"copy", t>>
AllFiles == EntryFiles \cup Templates \cup {CopyOf(t) : t \in Templates}

\* Without an entry folder the file goes elsewhere and is nobody's source.
UploadTemplate(t) ==
  /\ template[t] = "none"
  /\ template' = [template EXCEPT ![t] = "stored"]
  /\ file' \in {file, file \cup {t}} /\ marked' = marked \cup {t}
  /\ UNCHANGED <<prompt, activation, since, exposed, compilation, order>>

RegisterTemplate(t) ==
  /\ template[t] = "stored"
  /\ template' = [template EXCEPT ![t] = "registered"]
  /\ UNCHANGED <<prompt, activation, since, fileVars, compilation, order>>

\* folder_missing and already_present apart
CopyTemplate(t) ==
  /\ template[t] = "registered" /\ file \cap {t, CopyOf(t)} = {}
  /\ file' = file \cup {CopyOf(t)} /\ marked' = marked \cup {CopyOf(t)}
  /\ UNCHANGED <<prompt, activation, since, exposed, template, compilation, order>>

RegisteredTemplates == {t \in Templates : template[t] = "registered"}

\* update_document_metadata takes any description.
EditDescription(f) ==
  /\ f \in file
  /\ \/ f \notin marked /\ marked' = marked \cup {f} /\ UNCHANGED exposed
     \/ /\ f \in marked /\ marked' = marked \ {f}
        /\ exposed' = exposed \cup ({f} \ RegisteredTemplates)
  /\ UNCHANGED <<prompt, activation, since, file, template, compilation, order>>

\* Not the code: only registered templates are recognized.
RegisteredOnly(f) == f \notin RegisteredTemplates

\* _ensure_entry_source.  A further version of a document, which is registered anew or
\* not, is a file of its own.
EntrySource(f) == f \notin RegisteredTemplates \cup marked

-------------------------------------------------------------------------------
(* create_generation_task, start_compilation_pipeline *)

NoTask == [status |-> "none", params |-> None, prompt |-> None, sources |-> {}]
NoOrder == [step |-> "idle", kind |-> "none", key |-> None, params |-> None, prompt |-> None,
            ended |-> {}, files |-> {}, met |-> "none"]

SetupInit ==
  /\ prompt = [a \in Activations |-> NoPrompt]
  /\ activation = [a \in Activations |-> [step |-> "idle", scanned |-> {}, held |-> {}, created |-> 0]]
  /\ since = [a \in Activations |-> {}]
  /\ file = EntryFiles /\ marked = {} /\ exposed = {}
  /\ template = [t \in Templates |-> "none"]
  /\ compilation = [k \in OrderKeys |-> NoTask]
  /\ order = [q \in Orders |-> NoOrder]

Request(kind, k, x, files) ==
  [step |-> "lookup", kind |-> kind, key |-> k, params |-> x, prompt |-> CurrentPrompt,
   ended |-> Ended, files |-> files, met |-> compilation[k].status]

\* The checks, and the prompt: the fingerprint is made of the parameters and of it.
ReadPrompt(q) ==
  /\ order[q].step = "idle"
  /\ \E k \in OrderKeys, x \in OrderParams, kind \in {"create", "start"}, files \in SUBSET file :
       /\ kind = "create" => files = {}
       /\ order' = [order EXCEPT ![q] = Request(kind, k, x, files)]
  /\ UNCHANGED <<prompt, activation, since, fileVars, template, compilation>>

OrderTo(q, step) ==
  /\ order' = [order EXCEPT ![q].step = step]
  /\ UNCHANGED <<prompt, activation, since, fileVars, template>>

\* request_fingerprint
SameRequest(q) ==
  LET task == compilation[order[q].key]
  IN task.params = order[q].params /\ task.prompt = order[q].prompt

\* IDEMPOTENCY_CONFLICT unless the fingerprints agree
FindTask(q) ==
  /\ order[q].step = "lookup" /\ compilation[order[q].key] # NoTask
  /\ OrderTo(q, IF ~SameRequest(q) THEN "conflict"
                ELSE IF order[q].kind = "start" /\ compilation[order[q].key].status = "draft"
                       THEN "sources" ELSE "existing")
  /\ UNCHANGED compilation

MissTask(q) ==
  /\ order[q].step = "lookup" /\ compilation[order[q].key] = NoTask
  /\ OrderTo(q, "insert")
  /\ UNCHANGED compilation

Inserting(k) == {q \in Orders : order[q].key = k /\ order[q].step = "inserted"}

\* A second INSERT of the key waits for the first, and fails when that one is committed:
\* the failure breaks the transaction, in which the row can then not be read either, and
\* the request is answered with an error.
InsertTask(q) ==
  /\ order[q].step = "insert" /\ Inserting(order[q].key) = {}
  /\ OrderTo(q, IF compilation[order[q].key] = NoTask THEN "inserted" ELSE "broken")
  /\ UNCHANGED compilation

\* add_generation_sources refuses the whole request for one wrong source;
\* prepare_fact_confirmation follows in the same transaction.
Started(task, q) == [task EXCEPT !.status = "extracting", !.sources = @ \cup order[q].files]

CommitTask(q) ==
  LET new  == [NoTask EXCEPT !.status = "draft", !.params = order[q].params, !.prompt = order[q].prompt]
      good == \A f \in order[q].files : EntrySource(f)
  IN
  /\ order[q].step = "inserted"
  /\ OrderTo(q, IF good THEN "created" ELSE "error")
  /\ compilation' = IF good
       THEN [compilation EXCEPT ![order[q].key] = IF order[q].kind = "start" THEN Started(new, q) ELSE new]
       ELSE compilation

\* The draft that was found is started; its row is locked and its status looked at again.
StartTask(q) ==
  LET k == order[q].key IN
  /\ order[q].step = "sources"
  /\ IF compilation[k].status = "draft" /\ \A f \in order[q].files : EntrySource(f)
       THEN OrderTo(q, "existing") /\ compilation' = [compilation EXCEPT ![k] = Started(@, q)]
       ELSE OrderTo(q, "error") /\ UNCHANGED compilation

\* add_generation_sources and prepare_fact_confirmation as requests of their own: each
\* locks the row, looks at its status again and commits.  A task without sources has the
\* prompt for one.
AddSources(k) ==
  /\ compilation[k].status = "draft"
  /\ \E files \in SUBSET {f \in file : EntrySource(f)} :
       compilation' = [compilation EXCEPT ![k].sources = @ \cup files]
  /\ UNCHANGED <<prompt, activation, since, fileVars, template, order>>

PrepareTask(k) ==
  /\ compilation[k].status = "draft"
  /\ compilation' = [compilation EXCEPT ![k].status = "extracting"]
  /\ UNCHANGED <<prompt, activation, since, fileVars, template, order>>

AbortOrder(q) ==
  /\ order[q].step \in {"lookup", "insert", "inserted", "sources"}
  /\ OrderTo(q, "error")
  /\ UNCHANGED compilation

SetupNext ==
  \/ \E a \in Activations : \/ BeginActivation(a) \/ Deactivate(a) \/ CreatePrompt(a)
                            \/ CommitPrompt(a) \/ AbortActivation(a)
  \/ \E t \in Templates : UploadTemplate(t) \/ RegisterTemplate(t) \/ CopyTemplate(t)
  \/ \E f \in file : EditDescription(f)
  \/ \E q \in Orders : \/ ReadPrompt(q) \/ FindTask(q) \/ MissTask(q) \/ InsertTask(q)
                       \/ CommitTask(q) \/ StartTask(q) \/ AbortOrder(q)
  \/ \E k \in OrderKeys : AddSources(k) \/ PrepareTask(k)

SetupSpec == SetupInit /\ [][SetupNext]_setupVars

-------------------------------------------------------------------------------
(* Properties *)

\* "同一幂等键对应了不同创建参数": whoever was given the task of a key, old or new, had asked
\* for just that task; one request has created it.
AnswersMatchTask ==
  /\ \A q \in Orders : order[q].step \in {"created", "existing"} =>
       LET task == compilation[order[q].key]
       IN task.params = order[q].params /\ task.prompt = order[q].prompt
  /\ \A p, q \in Orders : order[p].step = "created" /\ order[q].step = "created" /\ p # q
       => order[p].key # order[q].key

\* A task is written with a prompt that was in force: not with one that another activation,
\* begun after it had ended, has replaced before the request read it, and not with none
\* once there is one.
PromptIsInForce ==
  \A q \in Orders : order[q].step # "idle" =>
    IF order[q].prompt = None THEN order[q].ended = {}
    ELSE \A a \in order[q].ended : order[q].prompt \notin since[a]

\* "创建、入队和导出幂等", of creating and starting: a request for a task that was there when
\* it began is never answered with the failure of an INSERT, whatever else goes on.  One
\* that began earlier may be: the task of the key is there then, and to ask once more is
\* enough.
RepetitionIsAnswered ==
  \A q \in Orders :
    /\ order[q].met # "none" => order[q].step \notin {"insert", "inserted", "created", "broken"}
    /\ order[q].step = "broken" => compilation[order[q].key] # NoTask

\* "甲方模板不能同时作为四措两案生成来源资料": no source of a task is a template or the copy
\* of one, not even one whose registration is still to come, unless a user has taken the
\* marker from its description first.
TemplatesAreNoSources ==
  \A k \in OrderKeys : compilation[k].sources \subseteq EntryFiles \cup exposed

SetupIsSound ==
  AnswersMatchTask /\ PromptIsInForce /\ RepetitionIsAnswered /\ TemplatesAreNoSources
===============================================================================
