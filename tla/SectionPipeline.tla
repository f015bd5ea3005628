---------------------------- MODULE SectionPipeline ----------------------------
(***************************************************************************)
(* How the engine makes one section: it loads the row of an earlier run, or *)
(* the model drafts the section; tables are put in from approved references *)
(* and the chosen personnel, its provenance is normalised, it is validated, *)
(* and the model revises it a few times (engine/orchestrator,               *)
(* content_composition, validation).  The steps of one path work on local   *)
(* values, so a path is one action; a task is run again after a failure.    *)
(*                                                                          *)
(* A text is the set of its items: sentences of paragraphs, items of lists  *)
(* and rows of tables.  An item has one cell, a row has several; a cell has *)
(* clauses, a sentence just one.  Normalisation works on items and cells,   *)
(* validation on clauses.  Of a clause counts which confirmed values and    *)
(* which numbers it has, whether it has a word of results that is forbidden *)
(* (FORBIDDEN_OUTPUT_MARKERS) and whether it has one of a plan.             *)
(***************************************************************************)
EXTENDS Naturals, FiniteSets

CONSTANTS
  Fields,        \* confirmed facts with a string, a number or a truth value
  Flags,         \* those with a truth value: validated, but never put into the text
  Marked,        \* those whose value has a forbidden word that the fact gate lets pass
  Planned,       \* those among PLANNED_VALUE_FIELDS
  Numbers,       \* numerals that occur in texts
  FieldNumbers,  \* the numerals in the value of each field
  Unknown,       \* a field that nobody has confirmed
  DraftItems,    \* bound: the items an answer of the model may have
  References,    \* bound: the tables that references and personnel may give
  Minimum,       \* ENTRY_PLAN_SECTION_MIN_CHARACTERS, in items
  MaxRevisions,  \* MAX_SECTION_VALIDATION_REVISIONS
  MaxRuns        \* bound: runs of the task

Clause == {l \in [fields : SUBSET Fields, numbers : SUBSET Numbers, forbidden : BOOLEAN,
                  plan : BOOLEAN] :
             /\ \A f \in l.fields : FieldNumbers[f] \subseteq l.numbers
             /\ l.fields \cap Marked # {} => l.forbidden}
Cell == [first : Clause, rest : SUBSET Clause]
Item == SUBSET Cell

ASSUME PipelineAssumption ==
  /\ Flags \cup Marked \cup Planned \subseteq Fields /\ Unknown \notin Fields
  /\ FieldNumbers \in [Fields -> SUBSET Numbers]
  /\ DraftItems \subseteq Item /\ References \subseteq SUBSET Item
  /\ Minimum \in Nat /\ MaxRevisions \in Nat /\ MaxRuns \in Nat

VARIABLES
  reference,  \* rows of the table for this section: personnel or the best reference
  section,    \* the section of the current run
  before,     \* history: a section that was only too short, until the next step
  issues,     \* blocking issues of the last validation
  row,        \* the saved section, or none
  pipeline    \* where the run is, its revisions, the runs so far, whether forced

pipelineVars == <<reference, section, before, issues, row, pipeline>>

-------------------------------------------------------------------------------
(* Texts *)

\* obeys: the model has kept clauses, structure and the literals asked for.
Section == [items : SUBSET Item, table : SUBSET Item, declared : SUBSET (Fields \cup {Unknown}),
            obeys : BOOLEAN]

Text(s) == s.items \cup s.table
Clauses(cell) == {cell.first} \cup cell.rest
ClausesIn(items) == UNION {Clauses(cell) : cell \in UNION items}
FieldsIn(items) == UNION {l.fields : l \in ClausesIn(items)}
NumbersIn(items) == UNION {l.numbers : l \in ClausesIn(items)}
NumbersOf(fields) == UNION {FieldNumbers[f] : f \in fields \cap Fields}

\* The facts that are found in a text and registered
Scalars == Fields \ Flags

\* What the schema lets through.  Tables of the model never reach the document:
\* compose_section replaces them.
Answers == {[items |-> i, table |-> {}, declared |-> d, obeys |-> o] :
              i \in {{}} \cup {{x} : x \in DraftItems},
              d \in SUBSET (Fields \cup {Unknown}), o \in BOOLEAN}

NoSection == [items |-> {}, table |-> {}, declared |-> {}, obeys |-> FALSE]
NoRow == [section |-> NoSection, exists |-> FALSE, locked |-> FALSE]

-------------------------------------------------------------------------------
(* The deterministic steps *)

\* compose_section: the tables of the section are those selected here.
Composed(s) == [s EXCEPT !.table = reference]

\* _trusted_personnel_number_text, _trusted_reference_number_text, clauses
Trusted == NumbersIn(reference)

\* _strip_forbidden_sentences, _strip_unsupported_numeric_sentences, and the same for
\* the items of lists and the rows of tables
Kept(items, allowed) ==
  {i \in items : \A l \in ClausesIn({i}) : ~l.forbidden /\ l.numbers \subseteq allowed}

Speaks(cell) == \E l \in Clauses(cell) : l.plan
HasPlanned(cell) == \E l \in Clauses(cell) : l.fields \cap Planned # {}

\* _ensure_planning_language: "计划" before the cell, whichever clause has the value
Worded(cell) == IF HasPlanned(cell) /\ ~Speaks(cell) THEN [cell EXCEPT !.first.plan = TRUE] ELSE cell

PlanningLanguage(items) == {{Worded(cell) : cell \in i} : i \in items}

\* "当前项目计划确认信息：" and the value, with whatever words the value has
Grounding(f) ==
  {[first |-> [fields |-> {f}, numbers |-> FieldNumbers[f], forbidden |-> f \in Marked, plan |-> TRUE],
    rest |-> {}]}

\* Not the code: fields found in the text are declared before the text is cleaned.
NormalizedEarly(s) ==
  LET declared == (s.declared \cap Fields) \cup (FieldsIn(Text(s)) \cap Scalars)
      allowed  == NumbersOf(declared) \cup Trusted
  IN [s EXCEPT !.items = PlanningLanguage(Kept(s.items, allowed)),
               !.table = PlanningLanguage(Kept(s.table, allowed)),
               !.declared = @ \cup declared]

\* normalize_section_provenance
Normalized(s) ==
  LET allowed  == NumbersOf(s.declared \cup (FieldsIn(Text(s)) \cap Scalars)) \cup Trusted
      items    == PlanningLanguage(Kept(s.items, allowed))
      table    == PlanningLanguage(Kept(s.table, allowed))
      missing  == (s.declared \cap Scalars) \ FieldsIn(items \cup table)
      grounded == items \cup {Grounding(f) : f \in missing}
  IN [s EXCEPT !.items = grounded, !.table = table,
               !.declared = @ \cup (FieldsIn(grounded \cup table) \cap Scalars)]

\* ControlledSectionValidator.validate, the errors.  A citation is never missing:
\* normalisation adds it with the field.
Codes == {"SECTION_CONTENT_TOO_SHORT", "INSTRUCTIONS_NOT_FOLLOWED", "RESULT_CONTENT_FORBIDDEN",
          "UNCONFIRMED_FACT_USED", "FACT_VALUE_NOT_RENDERED", "UNDECLARED_FACT_USAGE",
          "UNSOURCED_NUMBER", "PLANNING_LANGUAGE_REQUIRED"}

Has(code, s) ==
  LET text == Text(s) IN
  CASE code = "SECTION_CONTENT_TOO_SHORT"  -> Cardinality(text) < Minimum
    [] code = "INSTRUCTIONS_NOT_FOLLOWED"  -> ~s.obeys
    [] code = "RESULT_CONTENT_FORBIDDEN"   -> \E l \in ClausesIn(text) : l.forbidden
    [] code = "UNCONFIRMED_FACT_USED"      -> Unknown \in s.declared
    [] code = "FACT_VALUE_NOT_RENDERED"    -> ~((s.declared \cap Fields) \subseteq FieldsIn(text))
    [] code = "UNDECLARED_FACT_USAGE"      -> ~((FieldsIn(text) \cap Scalars) \subseteq s.declared)
    [] code = "UNSOURCED_NUMBER"           ->
         ~(NumbersIn(text) \subseteq NumbersOf(s.declared) \cup Trusted)
    [] code = "PLANNING_LANGUAGE_REQUIRED" ->
         \E l \in ClausesIn(text) : l.fields \cap Planned # {} /\ ~l.plan

Issues(s) == {c \in Codes : Has(c, s)}

\* _only_short_content_issue
OnlyShort(codes) == codes = {"SECTION_CONTENT_TOO_SHORT"}

\* Not the code: the supplement takes the place of the text.
Replaced(s, answer) == answer

\* _merge_short_section_supplement
Supplemented(s, answer) ==
  [s EXCEPT !.items = @ \cup answer.items, !.declared = @ \cup answer.declared]

-------------------------------------------------------------------------------
(* GenerationOrchestrator.run for one section *)

PipelineInit ==
  /\ reference \in References
  /\ section = NoSection /\ before = NoSection /\ issues = {} /\ row = NoRow
  /\ pipeline = [at |-> "idle", revision |-> 0, runs |-> 0, reusing |-> FALSE]

\* One more run; a section to revise is forced to be generated again.
StartRun ==
  /\ pipeline.at = "idle" /\ pipeline.runs < MaxRuns
  /\ \E forced \in {FALSE} \cup {~row.locked} :
       pipeline' = [at |-> IF row.exists /\ ~forced THEN "loaded" ELSE "draft",
                    revision |-> 0, runs |-> pipeline.runs + 1, reusing |-> FALSE]
  /\ section' = NoSection /\ before' = NoSection /\ issues' = {}
  /\ UNCHANGED <<reference, row>>

\* The section a path has made is validated as it then is.
Validated(s) ==
  /\ section' = s
  /\ issues' = Issues(s)

\* Not the code: a locked row is treated like any other.
ReuseAnyRow ==
  /\ pipeline.at = "loaded"
  /\ Validated(Composed(Normalized(row.section)))
  /\ pipeline' = [pipeline EXCEPT !.at = "validated", !.reusing = TRUE]
  /\ UNCHANGED <<reference, before, row>>

\* The row is normalised and composed again unless it is locked, and validated.
ReuseRow ==
  /\ pipeline.at = "loaded"
  /\ Validated(IF row.locked THEN row.section ELSE Composed(Normalized(row.section)))
  /\ pipeline' = [pipeline EXCEPT !.at = "validated", !.reusing = TRUE]
  /\ UNCHANGED <<reference, before, row>>

\* LOCKED_SECTION_VALIDATION_FAILED, or the row is not used and the model drafts.
DiscardRow ==
  /\ pipeline.at = "validated" /\ pipeline.reusing /\ issues # {}
  /\ pipeline' = [pipeline EXCEPT !.at = IF row.locked THEN "idle" ELSE "draft",
                                  !.reusing = FALSE]
  /\ section' = NoSection /\ issues' = {}
  /\ UNCHANGED <<reference, before, row>>

DraftSection ==
  /\ pipeline.at = "draft"
  /\ \E answer \in Answers : Validated(Normalized(Composed(answer)))
  /\ pipeline' = [pipeline EXCEPT !.at = "validated"]
  /\ UNCHANGED <<reference, before, row>>

Revisable == pipeline.at = "validated" /\ ~pipeline.reusing /\ issues # {}
             /\ pipeline.revision < MaxRevisions

\* Not the code: the revision is validated before its tables are put in.
ReviseValidatedEarly ==
  /\ Revisable
  /\ \E answer \in Answers :
       LET revised == Normalized(IF OnlyShort(issues) THEN Supplemented(section, answer)
                                 ELSE answer)
       IN section' = Composed(revised) /\ issues' = Issues(revised)
  /\ before' = IF OnlyShort(issues) THEN section ELSE NoSection
  /\ pipeline' = [pipeline EXCEPT !.revision = @ + 1]
  /\ UNCHANGED <<reference, row>>

\* supplement_short_section or revise_document_section, and the same steps as for
\* a draft in another order.
ReviseSection ==
  /\ Revisable
  /\ \E answer \in Answers :
       Validated(Composed(Normalized(
         IF OnlyShort(issues) THEN Supplemented(section, answer) ELSE answer)))
  /\ before' = IF OnlyShort(issues) THEN section ELSE NoSection
  /\ pipeline' = [pipeline EXCEPT !.revision = @ + 1]
  /\ UNCHANGED <<reference, row>>

\* reuse_persisted_section with persist_revalidated_section when something has
\* changed and the row is not locked; persist_generated_section.
SaveSection ==
  /\ pipeline.at = "validated" /\ issues = {}
  /\ row' = IF pipeline.reusing /\ row.locked THEN row
            ELSE [section |-> section, exists |-> TRUE, locked |-> FALSE]
  /\ pipeline' = [pipeline EXCEPT !.at = "idle"]
  /\ UNCHANGED <<reference, section, before, issues>>

\* VALIDATION_FAILED after the last revision, or the model fails before.
FailSection ==
  /\ \/ pipeline.at = "validated" /\ ~pipeline.reusing /\ issues # {}
     \/ pipeline.at = "draft"
  /\ pipeline' = [pipeline EXCEPT !.at = "idle"]
  /\ UNCHANGED <<reference, section, before, issues, row>>

\* Between two runs the owner of the task may lock the section; what is locked
\* is not forced (services._validate_target_sections is modelled in SectionReview).
LockRow ==
  /\ pipeline.at = "idle" /\ row.exists /\ ~row.locked
  /\ row' = [row EXCEPT !.locked = TRUE]
  /\ UNCHANGED <<reference, section, before, issues, pipeline>>

PipelineNext ==
  \/ StartRun \/ ReuseRow \/ DiscardRow \/ DraftSection \/ ReviseSection
  \/ SaveSection \/ FailSection \/ LockRow

PipelineSpec == PipelineInit /\ [][PipelineNext]_pipelineVars

-------------------------------------------------------------------------------
(* Properties *)

\* "Deterministically ground declared scalar facts and register exact fact provenance"
\* (normalize_section_provenance): in a validated draft every fact of the text is
\* declared and every declared fact is in the text but for truth values; a forbidden word
\* is there only with a confirmed value that has it; and where a planned value is the
\* cell speaks of a plan, though perhaps in another clause than validation asks.
DraftsAreGrounded ==
  pipeline.at = "validated" /\ ~pipeline.reusing /\ pipeline.revision = 0 =>
    LET text == Text(section) IN
    /\ FieldsIn(text) \cap Scalars \subseteq section.declared
    /\ section.declared \cap Scalars \subseteq FieldsIn(text)
    /\ \A i \in text : (\E l \in ClausesIn({i}) : l.forbidden) =>
         \E f \in section.declared \cap Marked : i = Grounding(f)
    /\ \A cell \in UNION text : HasPlanned(cell) => Speaks(cell)

\* "without allowing a short repair to shrink the draft"
\* (_merge_short_section_supplement): merging, normalising and composing keep every
\* sentence and item of a section that was only too short.
SupplementKeepsText ==
  pipeline.at = "validated" /\ pipeline.revision > 0 => before.items \subseteq section.items

\* A row that a run has saved is valid as it was saved, whichever path made it.
SavedRowsAreValid == row.exists => Issues(row.section) = {}

\* A locked row is what the document gets, unchanged by normalisation and composition.
LockedRowsAreUsed ==
  pipeline.at = "validated" /\ pipeline.reusing /\ row.locked => section = row.section

SectionsAreSound ==
  DraftsAreGrounded /\ SupplementKeepsText /\ SavedRowsAreValid /\ LockedRowsAreUsed

\* "复用已生成且仍有效的章节" (workflow_events): a run that may use a row, valid
\* against the same facts and references, finds it still valid and uses it.
ValidRowsAreReused == pipeline.at = "validated" /\ pipeline.reusing => issues = {}
===============================================================================
