------------------------------- MODULE FactSheet -------------------------------
(***************************************************************************)
(* The facts of a task: the model and the program find candidates in the   *)
(* requirement of the user (source 0) and in the chosen documents, they are *)
(* merged into proposals and conflicts, a person confirms facts, and the   *)
(* run that writes the document looks at them once more                     *)
(* (engine/facts, engine/canonical_facts, jobs, services, risk).            *)
(*                                                                          *)
(* A value is what its JSON looks like - a text, a list, or another thing,  *)
(* an object or null for instance - with the type its source calls it by    *)
(* and its atoms: none or one for a text, the items of a list.  The model   *)
(* may answer any of them for any field.  A locator that names a block of   *)
(* its source stands behind every candidate and is left out.                *)
(***************************************************************************)
EXTENDS Naturals, FiniteSets

CONSTANTS
  SingleFields,    \* fields with one value
  MultiFields,     \* component codes, method codes and risk evidence
  RiskField,       \* risk_evidence_items
  ScopedFields,    \* fields searched for in the requirement of the user
  DerivedFields,   \* fields taken from the text when no candidate has them
  RequiredFields,  \* template.required_fact_fields
  Quantity, Unit,  \* inspection_quantity is nothing without inspection_unit
  FactValues,      \* what the sources may say, finitely many values
  ResultValues,    \* those with one of RESULT_VALUE_MARKERS
  Incomplete,      \* those that are no risk with a code and its evidence
  ValueTypes,      \* value_type, among them "string" and "array"
  SourceIds,       \* the sources of the task, 0 for the requirement
  Nowhere,         \* no source
  Materials,       \* bound: what the sources say
  ModelAnswers,    \* bound: sets of candidates extract_facts may return
  Snapshots,       \* bound: the initial facts of the task
  Submissions,     \* bound: sets of facts a person may confirm
  MaxExtractions   \* bound: extractions of one task

FactFields == SingleFields \cup MultiFields

\* asked: what the requirement says of a field; found: what the text gives for it and
\* where; quoted: the first source a value occurs in literally.
Material == [asked : [ScopedFields -> SUBSET FactValues],
             found : [DerivedFields -> SUBSET FactValues],
             foundIn : SourceIds, quoted : [FactValues -> SourceIds \cup {Nowhere}]]

Value == [type : ValueTypes, shape : {"text", "list", "other"}, atoms : SUBSET FactValues]
Candidate == [field : FactFields, value : Value, source : SourceIds]
Entry == [field : FactFields, value : Value, sources : SUBSET SourceIds]

AsList(atoms) == [type |-> "array", shape |-> "list", atoms |-> atoms]
AsText(atoms) == [type |-> "string", shape |-> "text", atoms |-> atoms]

ASSUME FactAssumption ==
  /\ RiskField \in MultiFields /\ RiskField \in ScopedFields /\ RiskField \in DerivedFields
  /\ ScopedFields \subseteq FactFields /\ DerivedFields \subseteq FactFields
  /\ SingleFields \cap MultiFields = {} /\ IsFiniteSet(FactValues)
  /\ {"string", "array"} \subseteq ValueTypes /\ IsFiniteSet(ValueTypes)
  /\ 0 \in SourceIds /\ Nowhere \notin SourceIds
  /\ Materials \subseteq Material
  \* The program finds risks with their evidence.
  /\ \A m \in Materials : (m.asked[RiskField] \cup m.found[RiskField]) \cap Incomplete = {}
  /\ ModelAnswers \subseteq SUBSET Candidate
  /\ \A facts \in Snapshots \cup Submissions : \A e \in facts :
       e.field \in FactFields /\ e.value \in Value
  /\ MaxExtractions \in Nat

VARIABLES
  material,   \* the sources
  sheet,      \* status, snapshot (facts_snapshot), conflicts, extractions
  offered,    \* history: the candidates of the last merging
  snapshotBefore  \* history: the snapshot the last extraction started from

factVars == <<material, sheet, offered, snapshotBefore>>

-------------------------------------------------------------------------------
(* Candidates *)

FieldsOf(facts) == {f.field : f \in facts}
IsResult(value) == value.atoms \cap ResultValues # {}

\* _anchored_initial_candidates: texts of the snapshot that are in a source
Anchored(snapshot) ==
  UNION {{[field |-> e.field, value |-> e.value, source |-> s] :
            s \in {material.quoted[v] : v \in e.value.atoms} \ {Nowhere}} :
           e \in {e \in snapshot : e.value.shape = "text"}}

\* What the program itself takes from a text is a list for the fields with many values.
Said(f, atoms) == IF f \in MultiFields THEN AsList(atoms) ELSE AsText(atoms)

\* _preferred_source_candidates
Asked == {[field |-> f, value |-> Said(f, material.asked[f]), source |-> 0] :
            f \in {f \in ScopedFields : material.asked[f] # {}}}

\* What the text gives for the fields without a candidate; risk evidence is always
\* given, if only as an empty list.
FromText(have) ==
  {[field |-> f, value |-> Said(f, material.found[f]), source |-> material.foundIn] :
     f \in {f \in DerivedFields \ have : material.found[f] # {} \/ f = RiskField}}

\* Not the code: the requirement is one source among others.
EnrichedEqually(given) ==
  given \cup Asked \cup FromText(FieldsOf(given \cup Asked))

\* enrich_required_fact_candidates
Enriched(given) ==
  LET kept == {c \in given : c.field \notin FieldsOf(Asked) \ {RiskField}} \cup Asked
  IN kept \cup FromText(FieldsOf(kept))

-------------------------------------------------------------------------------
(* Merging *)

SourcesOf(candidates) == {c.source : c \in candidates}
Merge(f, value, candidates) == [field |-> f, value |-> value, sources |-> SourcesOf(candidates)]

\* _merge_same_value for the candidates of a field with one value and one type of it
ByValue(f, candidates) ==
  {Merge(f, v, {c \in candidates : c.value = v}) : v \in {c.value : c \in candidates}}

\* What _merge_multi_value_field takes from a candidate: nothing if it is no list, and of
\* risks those with a code and evidence.
ItemsOf(c) ==
  {v \in c.value.atoms : c.value.shape = "list" /\ (c.field = RiskField => v \notin Incomplete)}

\* FactMergeService.merge.  A field with many values has the items of all candidates; of
\* which candidate it has its type makes no difference to what follows.
Merged(candidates) ==
  LET ofField(f) == {c \in candidates : c.field = f}
  IN {Merge(f, AsList(UNION {ItemsOf(c) : c \in ofField(f)}), ofField(f)) :
        f \in FieldsOf(candidates) \cap MultiFields}
     \cup UNION {ByValue(f, ofField(f)) : f \in
        {f \in FieldsOf(candidates) \cap SingleFields : Cardinality(ByValue(f, ofField(f))) = 1}}

Conflicts(candidates) ==
  LET ofField(f) == {c \in candidates : c.field = f}
  IN {g \in {ByValue(f, ofField(f)) : f \in FieldsOf(candidates) \cap SingleFields} :
        Cardinality(g) > 1}

-------------------------------------------------------------------------------
(* The task *)

FactInit ==
  /\ material \in Materials
  /\ \E snapshot \in Snapshots :
       sheet = [status |-> "draft", snapshot |-> snapshot, conflicts |-> {}, extractions |-> 0]
  /\ offered = {} /\ snapshotBefore = {}

\* _run_fact_extraction, which a person may ask for again instead of confirming
ExtractFacts ==
  /\ sheet.status \in {"draft", "needs_confirmation"} /\ sheet.extractions < MaxExtractions
  /\ \E answer \in ModelAnswers :
       LET candidates == Enriched(answer \cup Anchored(sheet.snapshot))
           kept       == {c \in candidates : ~IsResult(c.value)}
       IN /\ offered' = candidates
          /\ sheet' = [status |-> "needs_confirmation", snapshot |-> Merged(kept),
                       conflicts |-> Conflicts(kept), extractions |-> sheet.extractions + 1]
  /\ snapshotBefore' = sheet.snapshot
  /\ UNCHANGED material

\* validate_required_fact_value: a text that is not blank, a list that is not empty, a
\* list of risks with their evidence
ValueFits(f, value) ==
  /\ value.shape = IF f \in MultiFields THEN "list" ELSE "text"
  /\ IF f = RiskField THEN value.atoms \cap Incomplete = {} ELSE value.atoms # {}

\* Not the code: a required field need only be there.
ConfirmAnyValue ==
  /\ sheet.status = "needs_confirmation"
  /\ \E facts \in Submissions :
       /\ RequiredFields \subseteq FieldsOf(facts)
       /\ sheet' = [sheet EXCEPT !.status = "ready", !.snapshot = facts, !.conflicts = {}]
  /\ offered' = {} /\ snapshotBefore' = {}
  /\ UNCHANGED material

\* confirm_generation_facts: sources of the task, required fields with fitting values,
\* and the evidence gate, after the repair of locators that name no block
ConfirmFactSheet ==
  /\ sheet.status = "needs_confirmation"
  /\ \E facts \in Submissions :
       /\ \A e \in facts : e.sources \subseteq SourceIds
       /\ RequiredFields \subseteq FieldsOf(facts)
       /\ \A e \in facts : e.field \in RequiredFields => ValueFits(e.field, e.value)
       /\ sheet' = [sheet EXCEPT !.status = "ready", !.snapshot = facts, !.conflicts = {}]
  /\ offered' = {} /\ snapshotBefore' = {}
  /\ UNCHANGED material

\* RequiredFactGate: FACT_CONFIRMATION_CONFLICT (value or type), FACTS_INCOMPLETE, and
\* results
OneValueEach(facts) == \A d, e \in facts : d.field = e.field => d.value = e.value
GatePasses(facts) ==
  /\ \A e \in facts : ~IsResult(e.value)
  /\ OneValueEach(facts)
  /\ RequiredFields \subseteq FieldsOf(facts)
  /\ Quantity \in FieldsOf(facts) => Unit \in FieldsOf(facts)

\* ORMRiskProfiler: only lists of risks with evidence and an approved clause
RisksApproved(facts, approved) ==
  \A e \in facts : e.field = RiskField =>
    e.value.shape = "list" /\ e.value.atoms \subseteq approved \ Incomplete

\* _validate_facts and the risk profile, at the start of a generation
CheckFacts ==
  /\ sheet.status = "ready"
  /\ \E approved \in SUBSET FactValues :
       sheet' = [sheet EXCEPT !.status =
                   IF GatePasses(sheet.snapshot) /\ RisksApproved(sheet.snapshot, approved)
                   THEN "writing" ELSE "failed"]
  /\ UNCHANGED <<material, offered, snapshotBefore>>

FactNext == ExtractFacts \/ ConfirmFactSheet \/ CheckFacts

FactSpec == FactInit /\ [][FactNext]_factVars

-------------------------------------------------------------------------------
(* Properties *)

Proposed == sheet.status = "needs_confirmation"

\* What the user has asked for decides (_preferred_source_candidates, "preferred source"):
\* a field named in the requirement is proposed with exactly that value, whatever the
\* model and the documents say, and is in no conflict; risks are at least those named.
RequirementDecides ==
  Proposed => \A f \in ScopedFields :
    material.asked[f] # {} /\ material.asked[f] \cap ResultValues = {} =>
      \E e \in sheet.snapshot :
        /\ e.field = f
        /\ IF f = RiskField THEN material.asked[f] \subseteq e.value.atoms /\ 0 \in e.sources
                            ELSE e.value = Said(f, material.asked[f]) /\ e.sources = {0}

\* FactMergeService: a candidate that is no result is in the proposals or in a conflict
\* with its source as evidence and, for a field with one value, with value and type; for a
\* field with many, with the items of its list.  What is lost without a word is what the
\* model answers for such a field in another shape than a list, and risks without a code
\* or without evidence.
NoListedValueIsLost ==
  Proposed => \A c \in offered : ~IsResult(c.value) =>
    \E e \in sheet.snapshot \cup UNION sheet.conflicts :
      /\ e.field = c.field /\ c.source \in e.sources
      /\ c.field \in SingleFields => c.value = e.value
      /\ c.field \in MultiFields /\ c.value.shape = "list" =>
           c.value.atoms \ (IF c.field = RiskField THEN Incomplete ELSE {}) \subseteq e.value.atoms

\* A second extraction does not exchange a text that is in the sources for another
\* value behind the person's back (_anchored_initial_candidates): it is proposed again, is
\* part of a conflict, or gives way to the requirement.
NoValueIsSwapped ==
  Proposed => \A d \in snapshotBefore, e \in sheet.snapshot :
    d.field = e.field /\ d.field \in SingleFields /\ d.value # e.value =>
      \/ d.field \in FieldsOf(Asked)
      \/ IsResult(d.value)
      \/ d.value.shape # "text"
      \/ \A v \in d.value.atoms : material.quoted[v] = Nowhere

\* The run writes with facts of one value each, all that are required, none of them empty,
\* of the wrong shape or a result, and no risk without its evidence: what confirmation
\* leaves to the gate and to the risk profile, and what they leave to confirmation.
WritesFromSoundFacts ==
  sheet.status = "writing" =>
    /\ \A f \in RequiredFields : Cardinality({e.value : e \in {e \in sheet.snapshot : e.field = f}}) = 1
    /\ \A e \in sheet.snapshot :
         /\ ~IsResult(e.value)
         /\ e.field \in RequiredFields \ {RiskField} => e.value.atoms # {}
         /\ e.field \in RequiredFields \cap MultiFields => e.value.shape = "list"
         /\ e.field = RiskField => e.value.shape = "list" /\ e.value.atoms \cap Incomplete = {}

FactsAreSound ==
  RequirementDecides /\ NoListedValueIsLost /\ NoValueIsSwapped /\ WritesFromSoundFacts
===============================================================================
