-------------------------------- MODULE MCAgent --------------------------------
(***************************************************************************)
(* The parts of the agent that share no state, checked in one run: a        *)
(* behaviour is one of `part', and the other parts stand still in a state   *)
(* they may start from.                                                     *)
(***************************************************************************)
EXTENDS MCSectionPipeline, ProviderCalls, WorkflowTrace, Knowledge, FactSheet,
        AgentSetup, AccessDecision, TLC

CONSTANTS
  i1, i2, j1, j2, k1, k2,                         \* ids
  s1,                                             \* a section
  name, amount, methods, risks, red, blue, verdict, half,  \* fields and values
  admin, person                                   \* users

VARIABLE part

-------------------------------------------------------------------------------
(* Knowledge: two versions of one content, with a heading for one of two sections *)

ContentOfMC == [v \in Versions |-> 1]
HeadedMC == [c \in Contents |-> {s1}]

(* Facts: blue is in no source or in the first; a verdict is a result; a     *)
(* risk without evidence is half of one.                                    *)

QuotedMC == [v \in FactValues |-> IF v = blue THEN Nowhere ELSE 1]
MaterialsMC ==
  {[asked |-> [f \in ScopedFields |-> IF f = name THEN a ELSE b],
    found |-> [f \in DerivedFields |-> c], foundIn |-> 1, quoted |-> q] :
     a \in {{}, {red}}, b \in {{}, {blue}, {blue, verdict}}, c \in {{}, {red}},
     q \in {QuotedMC, [v \in FactValues |-> 1]}}
FactMC(f, v, s) == [field |-> f, value |-> v, source |-> s]
PoolMC == {FactMC(name, AsText({red}), 1), FactMC(name, AsText({blue}), 2),
           FactMC(name, [AsText({red}) EXCEPT !.type = "array"], 2),
           FactMC(amount, AsText({red}), 1), FactMC(amount, AsText({blue}), 2),
           FactMC(amount, AsText({verdict}), 2), FactMC(methods, AsList({red}), 1),
           FactMC(methods, AsList({blue}), 2), FactMC(methods, AsText({blue}), 2),
           FactMC(risks, AsList({red, half}), 2), FactMC(risks, [AsList({}) EXCEPT !.shape = "other"], 1)}
AnswersMC == {s \in SUBSET PoolMC : Cardinality(s) <= 2}
EntryMC(f, v) == [field |-> f, value |-> v, sources |-> {1}]
SnapshotsMC ==
  {{}, {EntryMC(amount, AsText({red})), EntryMC(methods, AsText({red}))},
   {EntryMC(amount, AsText({blue})), EntryMC(name, AsText({blue}))}}
NoSheetMC == [status |-> "draft", snapshot |-> {}, conflicts |-> {}, extractions |-> 0]
SubmissionsMC ==
  {s \in SUBSET {EntryMC(name, AsText({red})), EntryMC(name, AsText({})), EntryMC(methods, AsList({blue})),
                 EntryMC(methods, AsText({blue})), EntryMC(risks, AsList({red})),
                 EntryMC(risks, AsList({half})), EntryMC(amount, AsText({red})),
                 EntryMC(amount, AsText({verdict}))} : Cardinality(s) \in 3 .. 4}

(* Access: a restricted document of a project, and one of the staff that is *)
(* the person's own.                                                        *)

SituationsMC ==
  {[project |-> TRUE, restricted |-> TRUE, staff |-> FALSE, owner |-> Nobody],
   [project |-> FALSE, restricted |-> FALSE, staff |-> TRUE, owner |-> person]}
RightSetsMC == {{"view", "update", "manage"}}
MemberSetsMC == {{}, {"restricted", "upload", "permissions"}}

\* The parts use the same ids for different things: one symmetry serves them all.
SymmetryMC == Permutations({i1, i2}) \cup Permutations({j1, j2}) \cup Permutations({k1, k2})

-------------------------------------------------------------------------------
(* One part at a time *)

othersThanPipeline ==
  <<providerVars, traceVars, corpusVars, factVars, indexVars, setupVars, accessVars>>
othersThanProvider ==
  <<pipelineVars, traceVars, corpusVars, factVars, indexVars, setupVars, accessVars>>
othersThanTrace ==
  <<pipelineVars, providerVars, corpusVars, factVars, indexVars, setupVars, accessVars>>
othersThanCorpus ==
  <<pipelineVars, providerVars, traceVars, factVars, indexVars, setupVars, accessVars>>
othersThanFacts ==
  <<pipelineVars, providerVars, traceVars, corpusVars, indexVars, setupVars, accessVars>>
othersThanIndex ==
  <<pipelineVars, providerVars, traceVars, corpusVars, factVars, setupVars, accessVars>>
othersThanSetup ==
  <<pipelineVars, providerVars, traceVars, corpusVars, factVars, indexVars, accessVars>>
othersThanAccess ==
  <<pipelineVars, providerVars, traceVars, corpusVars, factVars, indexVars, setupVars>>

AgentInit ==
  /\ part \in {"pipeline", "provider", "trace", "corpus", "facts", "index", "setup",
              "sources", "access"}
  \* What the other parts may start with is of no account.
  /\ part # "pipeline" => reference = {}
  /\ part # "corpus"   => filed = {}
  /\ part # "facts"    => material = (CHOOSE m \in MaterialsMC : TRUE) /\ sheet = NoSheetMC
  /\ part # "access"   => paper = CHOOSE p \in SituationsMC : p.project
  /\ part # "index"    => passage = [length |-> 1, ends |-> {}]
  /\ PipelineInit /\ ProviderInit /\ TraceInit /\ CorpusInit /\ FactInit /\ IndexInit /\ SetupInit
  /\ AccessInit

AgentNext ==
  \/ part = "pipeline" /\ PipelineNext /\ UNCHANGED <<part, othersThanPipeline>>
  \/ part = "provider" /\ ProviderNext /\ UNCHANGED <<part, othersThanProvider>>
  \/ part = "trace"    /\ TraceNext    /\ UNCHANGED <<part, othersThanTrace>>
  \/ part = "corpus"   /\ CorpusNext   /\ UNCHANGED <<part, othersThanCorpus>>
  \/ part = "facts"    /\ FactNext     /\ UNCHANGED <<part, othersThanFacts>>
  \/ part = "index"    /\ IndexNext    /\ UNCHANGED <<part, othersThanIndex>>
  \* Prompts and files in behaviours of their own: no check is of both.
  \/ part = "setup"    /\ SetupNext    /\ UNCHANGED <<part, othersThanSetup, fileVars, template>>
  \/ part = "sources"  /\ SetupNext    /\ UNCHANGED <<part, othersThanSetup, prompt, activation>>
  \/ part = "access"   /\ AccessNext   /\ UNCHANGED <<part, othersThanAccess>>

agentVars == <<part, pipelineVars, othersThanPipeline>>

AgentSpec == AgentInit /\ [][AgentNext]_agentVars
===============================================================================
