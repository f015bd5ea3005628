------------------------------ MODULE AgentProofs -----------------------------
(*****************************************************************************)
(* Proofs about what a run of the agent does: the text of a section, the     *)
(* calls of the language model, the events that a page shows, and the        *)
(* access to the documents it reads and writes.                              *)
(*****************************************************************************)
EXTENDS SectionPipeline, ProviderCalls, WorkflowTrace, AccessDecision,
        FiniteSetTheorems, TLAPS

-------------------------------------------------------------------------------
(*****************************************************************************)
(* SectionPipeline: what normalisation removes from a draft, that a          *)
(* supplement keeps the text it is for, that a saved row is valid.           *)
(*****************************************************************************)

PipelineType ==
  /\ reference \in SUBSET Item
  /\ section \in Section /\ before \in Section
  /\ row \in [section : Section, exists : BOOLEAN, locked : BOOLEAN]
  /\ pipeline \in [at : {"idle", "loaded", "draft", "validated"}, revision : Nat, runs : Nat,
                   reusing : BOOLEAN]

\* What is validated is the section as it is.
IssuesFit == pipeline.at = "validated" => issues = Issues(section)

\* A row is used only if there is one, and nothing is revised before it is drafted.
RunsFit ==
  /\ pipeline.at = "loaded" \/ pipeline.reusing => row.exists
  /\ pipeline.at \in {"loaded", "draft"} \/ pipeline.reusing => pipeline.revision = 0
  /\ pipeline.at = "draft" => ~pipeline.reusing

PipelineInv == PipelineType /\ IssuesFit /\ RunsFit /\ SectionsAreSound

-------------------------------------------------------------------------------
(* Items and sections *)

\* What normalisation leaves in an item, groundings apart
CleanItem(i) ==
  /\ \A l \in ClausesIn({i}) : ~l.forbidden
  /\ \A cell \in i : HasPlanned(cell) => Speaks(cell)

LEMMA ClausesTyped ==
  ASSUME NEW items \in SUBSET Item
  PROVE  /\ ClausesIn(items) \in SUBSET Clause /\ FieldsIn(items) \in SUBSET Fields
         /\ \A i \in items : ClausesIn({i}) \subseteq ClausesIn(items)
<1>1. \A cell \in UNION items : cell \in Cell /\ Clauses(cell) \subseteq Clause
  BY DEF Item, Cell, Clauses
<1>2. ClausesIn(items) \in SUBSET Clause
  BY <1>1 DEF ClausesIn
<1>3. \A i \in items : ClausesIn({i}) \subseteq ClausesIn(items)
  BY DEF ClausesIn
<1> QED BY <1>2, <1>3 DEF FieldsIn, Clause

LEMMA GroundingTyped ==
  ASSUME NEW f \in Fields
  PROVE  /\ Grounding(f) \in Item /\ FieldsIn({Grounding(f)}) = {f}
         /\ f \notin Marked => CleanItem(Grounding(f))
         /\ \A cell \in Grounding(f) : HasPlanned(cell) => Speaks(cell)
<1> PICK word \in BOOLEAN : word <=> f \in Marked
  OBVIOUS
<1>0. word = (f \in Marked)
  OBVIOUS
<1> DEFINE l == [fields |-> {f}, numbers |-> FieldNumbers[f], forbidden |-> word, plan |-> TRUE]
           cell == [first |-> l, rest |-> {}]
<1>1. l \in Clause /\ l.fields = {f} /\ l.plan /\ (l.forbidden <=> f \in Marked)
  BY PipelineAssumption DEF Clause
<1> HIDE DEF l
<1>2. cell \in Cell /\ Clauses(cell) = {l} /\ Grounding(f) = {cell}
  BY <1>0, <1>1 DEF Cell, Clauses, Grounding, l
<1> HIDE DEF cell
<1>3. ClausesIn({Grounding(f)}) = {l}
  BY <1>2 DEF ClausesIn
<1>4. FieldsIn({Grounding(f)}) = {f}
  BY <1>1, <1>3 DEF FieldsIn
<1> QED BY <1>1, <1>2, <1>3, <1>4 DEF Item, CleanItem, Speaks

LEMMA WordedTyped ==
  ASSUME NEW cell \in Cell
  PROVE  /\ Worded(cell) \in Cell
         /\ HasPlanned(Worded(cell)) => Speaks(Worded(cell))
         /\ (\A l \in Clauses(cell) : ~l.forbidden) => \A l \in Clauses(Worded(cell)) : ~l.forbidden
         /\ (HasPlanned(cell) => Speaks(cell)) => Worded(cell) = cell
<1>1. CASE HasPlanned(cell) /\ ~Speaks(cell)
  <2> DEFINE first == [cell.first EXCEPT !.plan = TRUE]
             worded == [cell EXCEPT !.first = first]
  <2>1. first \in Clause /\ first.plan /\ first.forbidden = cell.first.forbidden
    BY DEF Cell, Clause
  <2> HIDE DEF first
  <2>2. worded \in Cell /\ worded.first = first /\ worded.rest = cell.rest
    BY <2>1 DEF Cell
  <2>3. Worded(cell) = worded
    BY <1>1 DEF Worded, first
  <2> HIDE DEF worded
  <2> QED BY <1>1, <2>1, <2>2, <2>3 DEF Clauses, Speaks
<1>2. CASE ~(HasPlanned(cell) /\ ~Speaks(cell))
  BY <1>2 DEF Worded
<1> QED BY <1>1, <1>2

LEMMA LanguageIsPlanned ==
  ASSUME NEW items \in SUBSET Item, \A i \in items : \A l \in ClausesIn({i}) : ~l.forbidden
  PROVE  /\ PlanningLanguage(items) \in SUBSET Item
         /\ \A i \in PlanningLanguage(items) : CleanItem(i)
         /\ \A i \in items : CleanItem(i) => i \in PlanningLanguage(items)
<1> DEFINE Whole(i) == {Worded(cell) : cell \in i}
<1>1. ASSUME NEW i \in items
      PROVE  /\ Whole(i) \in Item /\ CleanItem(Whole(i))
             /\ CleanItem(i) => Whole(i) = i
  <2>1. /\ i \in SUBSET Cell
        /\ \A cell \in i : \A l \in Clauses(cell) : ~l.forbidden
    BY DEF Item, ClausesIn
  <2>2. \A cell \in i : /\ Worded(cell) \in Cell
                        /\ HasPlanned(Worded(cell)) => Speaks(Worded(cell))
                        /\ \A l \in Clauses(Worded(cell)) : ~l.forbidden
                        /\ (HasPlanned(cell) => Speaks(cell)) => Worded(cell) = cell
    BY <2>1, WordedTyped
  <2>3. Whole(i) \in Item /\ CleanItem(Whole(i))
    BY <2>2 DEF Item, CleanItem, ClausesIn
  <2>4. CleanItem(i) => Whole(i) = i
    BY <2>2 DEF CleanItem
  <2> QED BY <2>3, <2>4
<1>2. PlanningLanguage(items) = {Whole(i) : i \in items}
  BY DEF PlanningLanguage
<1> HIDE DEF Whole
<1> QED BY <1>1, <1>2

LEMMA KeptTyped ==
  ASSUME NEW items \in SUBSET Item, NEW allowed
  PROVE  /\ Kept(items, allowed) \in SUBSET Item
         /\ \A i \in Kept(items, allowed) : \A l \in ClausesIn({i}) : ~l.forbidden
BY DEF Kept

LEMMA ComposedTyped ==
  ASSUME PipelineType, NEW s \in Section
  PROVE  /\ Composed(s) \in Section /\ Composed(s).items = s.items /\ Composed(s).table = reference
         /\ Composed(s).declared = s.declared
BY DEF PipelineType, Composed, Section

\* What normalisation is there for
Grounded(s) ==
  /\ FieldsIn(Text(s)) \cap Scalars \subseteq s.declared
  /\ s.declared \cap Scalars \subseteq FieldsIn(Text(s))
  /\ \A i \in Text(s) : (\E l \in ClausesIn({i}) : l.forbidden) =>
       \E f \in s.declared \cap Marked : i = Grounding(f)
  /\ \A cell \in UNION Text(s) : HasPlanned(cell) => Speaks(cell)

\* What normalisation returns: nothing forbidden but in a declared value, planned values in the
\* language of a plan, declared facts rendered and rendered facts declared; and items that
\* need no cleaning stay.
LEMMA NormalizedGrounds ==
  ASSUME NEW s \in Section
  PROVE  /\ Normalized(s) \in Section
         /\ Grounded(Normalized(s))
         /\ \A i \in s.items :
              /\ CleanItem(i)
              /\ \A l \in ClausesIn({i}) :
                   l.numbers \subseteq NumbersOf(s.declared \cup (FieldsIn(Text(s)) \cap Scalars)) \cup Trusted
              => i \in Normalized(s).items
<1> DEFINE allowed  == NumbersOf(s.declared \cup (FieldsIn(Text(s)) \cap Scalars)) \cup Trusted
           items    == PlanningLanguage(Kept(s.items, allowed))
           table    == PlanningLanguage(Kept(s.table, allowed))
           missing  == (s.declared \cap Scalars) \ FieldsIn(items \cup table)
           grounded == items \cup {Grounding(f) : f \in missing}
           declared == s.declared \cup (FieldsIn(grounded \cup table) \cap Scalars)
<1>1. Normalized(s) = [s EXCEPT !.items = grounded, !.table = table, !.declared = declared]
  BY DEF Normalized, Section
<1>2. s.items \in SUBSET Item /\ s.table \in SUBSET Item /\ s.declared \subseteq Fields \cup {Unknown}
  BY DEF Section
<1> HIDE DEF allowed
<1>3. /\ items \in SUBSET Item /\ table \in SUBSET Item
      /\ \A i \in items \cup table : CleanItem(i)
      /\ \A i \in s.items :
           CleanItem(i) /\ (\A l \in ClausesIn({i}) : l.numbers \subseteq allowed) => i \in items
  <2>1. /\ Kept(s.items, allowed) \in SUBSET Item /\ Kept(s.table, allowed) \in SUBSET Item
        /\ \A i \in Kept(s.items, allowed) : \A l \in ClausesIn({i}) : ~l.forbidden
        /\ \A i \in Kept(s.table, allowed) : \A l \in ClausesIn({i}) : ~l.forbidden
    BY <1>2, KeptTyped
  <2>2. \A i \in s.items : CleanItem(i) /\ (\A l \in ClausesIn({i}) : l.numbers \subseteq allowed)
                             => i \in Kept(s.items, allowed)
    BY DEF Kept, CleanItem
  <2> QED BY <2>1, <2>2, LanguageIsPlanned
<1> HIDE DEF items, table
<1>4. missing \subseteq Fields /\ missing \subseteq s.declared
  BY DEF Scalars
<1>5. /\ grounded \in SUBSET Item
      /\ \A i \in grounded \cup table : CleanItem(i) \/ \E f \in missing \cap Marked : i = Grounding(f)
      /\ \A i \in grounded \cup table : \A cell \in i : HasPlanned(cell) => Speaks(cell)
  <2> HIDE DEF missing
  <2>1. \A f \in missing : /\ Grounding(f) \in Item /\ (f \notin Marked => CleanItem(Grounding(f)))
                           /\ \A cell \in Grounding(f) : HasPlanned(cell) => Speaks(cell)
    BY <1>4, GroundingTyped
  <2>2. grounded \in SUBSET Item
    BY <1>3, <2>1
  <2>3. \A i \in grounded \cup table :
          i \in items \cup table \/ \E f \in missing : i = Grounding(f)
    OBVIOUS
  <2>4. \A i \in items \cup table : \A cell \in i : HasPlanned(cell) => Speaks(cell)
    BY <1>3 DEF CleanItem
  <2> HIDE DEF grounded
  <2> QED BY <1>3, <2>1, <2>2, <2>3, <2>4
<1>6. /\ FieldsIn(grounded \cup table) \in SUBSET Fields
      /\ missing \subseteq FieldsIn(grounded \cup table)
      /\ FieldsIn(items \cup table) \subseteq FieldsIn(grounded \cup table)
  <2>1. FieldsIn(grounded \cup table) \in SUBSET Fields
    BY <1>3, <1>5, ClausesTyped
  <2>2. \A f \in missing : Grounding(f) \in grounded /\ FieldsIn({Grounding(f)}) = {f}
    BY <1>4, GroundingTyped
  <2>3. ASSUME NEW f \in missing PROVE f \in FieldsIn(grounded \cup table)
    <3>1. PICK l \in ClausesIn({Grounding(f)}) : f \in l.fields
      <4>1. f \in FieldsIn({Grounding(f)})
        BY <2>2
      <4> QED BY <4>1 DEF FieldsIn
    <3>2. l \in ClausesIn(grounded \cup table)
      BY <2>2, <3>1 DEF ClausesIn
    <3> QED BY <3>1, <3>2 DEF FieldsIn
  <2>4. FieldsIn(items \cup table) \subseteq FieldsIn(grounded \cup table)
    BY DEF FieldsIn, ClausesIn
  <2> QED BY <2>1, <2>3, <2>4
<1>7. declared \cap Scalars \subseteq FieldsIn(grounded \cup table)
  BY <1>6
<1> HIDE DEF grounded, declared
<1>8. declared \subseteq Fields \cup {Unknown} /\ s.declared \subseteq declared
      /\ FieldsIn(grounded \cup table) \cap Scalars \subseteq declared /\ items \subseteq grounded
  BY <1>2, <1>6 DEF declared, grounded
<1>9. /\ Normalized(s).items = grounded /\ Normalized(s).table = table
      /\ Normalized(s).declared = declared /\ Normalized(s) \in Section
  BY <1>1, <1>3, <1>5, <1>8 DEF Section
<1>10. Text(Normalized(s)) = grounded \cup table
  BY <1>9 DEF Text
<1>11. Grounded(Normalized(s))
  <2>1. \A i \in grounded \cup table : (\E l \in ClausesIn({i}) : l.forbidden) =>
          \E f \in declared \cap Marked : i = Grounding(f)
    BY <1>4, <1>5, <1>8 DEF CleanItem
  <2>2. \A cell \in UNION (grounded \cup table) : HasPlanned(cell) => Speaks(cell)
    BY <1>5
  <2> HIDE DEF missing
  <2> QED BY <1>7, <1>8, <1>9, <1>10, <2>1, <2>2 DEF Grounded
<1> QED BY <1>3, <1>8, <1>9, <1>11 DEF allowed

\* Merging, normalising and composing keep the items of a section that was only too short.
LEMMA SupplementKeeps ==
  ASSUME PipelineType, NEW s \in Section, NEW answer \in Section, OnlyShort(Issues(s))
  PROVE  s.items \subseteq Composed(Normalized(Supplemented(s, answer))).items
<1> DEFINE t == Supplemented(s, answer)
<1>1. t \in Section /\ t.items = s.items \cup answer.items /\ s.declared \subseteq t.declared
      /\ t.table = s.table
  BY DEF Supplemented, Section
<1>2. /\ ~Has("RESULT_CONTENT_FORBIDDEN", s) /\ ~Has("UNSOURCED_NUMBER", s)
      /\ ~Has("PLANNING_LANGUAGE_REQUIRED", s)
  BY DEF OnlyShort, Issues, Codes
<1>3. \A l \in ClausesIn(Text(s)) : /\ ~l.forbidden /\ (l.fields \cap Planned # {} => l.plan)
                                    /\ l.numbers \subseteq NumbersOf(s.declared) \cup Trusted
  BY <1>2 DEF Has, NumbersIn
<1>4. NumbersOf(s.declared) \subseteq NumbersOf(t.declared \cup (FieldsIn(Text(t)) \cap Scalars))
  BY <1>1 DEF NumbersOf
<1>5. \A i \in s.items : ClausesIn({i}) \subseteq ClausesIn(Text(s))
  BY DEF ClausesIn, Text
<1>6. \A i \in s.items : \A cell \in i : HasPlanned(cell) => Speaks(cell)
  <2>1. \A i \in s.items : \A cell \in i : Clauses(cell) \subseteq ClausesIn({i})
    BY DEF ClausesIn
  <2> QED BY <1>3, <1>5, <2>1 DEF HasPlanned, Speaks
<1>7. \A i \in s.items : CleanItem(i) /\ \A l \in ClausesIn({i}) : l.numbers \subseteq NumbersOf(s.declared) \cup Trusted
  BY <1>3, <1>5, <1>6 DEF CleanItem
<1> HIDE DEF t
<1>8. s.items \subseteq Normalized(t).items /\ Normalized(t) \in Section
  BY <1>1, <1>4, <1>7, NormalizedGrounds
<1> QED BY <1>8, ComposedTyped DEF t

-------------------------------------------------------------------------------
(* The steps *)

LEMMA NoSectionTyped == NoSection \in Section /\ NoSection.items = {}
BY DEF NoSection, Section

LEMMA PipelineInitFits == PipelineInit => PipelineInv
<1> SUFFICES ASSUME PipelineInit PROVE PipelineInv
  OBVIOUS
<1>1. PipelineType
  BY NoSectionTyped, PipelineAssumption DEF PipelineInit, PipelineType, NoRow
<1> QED
  BY <1>1 DEF PipelineInit, PipelineInv, IssuesFit, RunsFit, SectionsAreSound, DraftsAreGrounded,
              SupplementKeepsText, SavedRowsAreValid, LockedRowsAreUsed, NoRow

LEMMA AnswersTyped == Answers \subseteq Section
BY PipelineAssumption DEF Answers, Section

LEMMA IssuesAreOfText ==
  ASSUME UNCHANGED reference, NEW s
  PROVE  /\ section' = s => Issues(section)' = Issues(s)
         /\ row'.section = s => Issues(row.section)' = Issues(s)
BY DEF Issues, Has, Trusted, NumbersIn, NumbersOf, FieldsIn, ClausesIn, Text

PipelineRow == [at : {"idle", "loaded", "draft", "validated"}, revision : Nat, runs : Nat,
                reusing : BOOLEAN]

\* A step after which nothing is validated, and which leaves the saved text
LEMMA QuietStep ==
  ASSUME PipelineInv, UNCHANGED reference,
         row' \in [section : Section, exists : BOOLEAN, locked : BOOLEAN],
         row'.section = row.section, row'.exists = row.exists,
         pipeline' \in PipelineRow, pipeline'.at # "validated", RunsFit',
         section' \in Section, before' \in Section
  PROVE  PipelineInv'
<1>1. PipelineType'
  BY DEF PipelineInv, PipelineType, PipelineRow
<1>2. Issues(row.section)' = Issues(row.section)
  BY IssuesAreOfText
<1>3. SavedRowsAreValid'
  BY <1>2 DEF PipelineInv, SectionsAreSound, SavedRowsAreValid
<1> QED BY <1>1, <1>3 DEF PipelineInv, IssuesFit, SectionsAreSound, DraftsAreGrounded,
                          SupplementKeepsText, LockedRowsAreUsed

LEMMA RunSteps ==
  ASSUME PipelineInv, StartRun \/ DiscardRow \/ FailSection \/ LockRow
  PROVE  PipelineInv'
<1>1. /\ pipeline \in PipelineRow /\ row \in [section : Section, exists : BOOLEAN, locked : BOOLEAN]
      /\ section \in Section /\ before \in Section
  BY DEF PipelineInv, PipelineType, PipelineRow
<1>2. CASE StartRun
  <2>1. PICK forced \in {FALSE} \cup {~row.locked} :
          pipeline' = [at |-> IF row.exists /\ ~forced THEN "loaded" ELSE "draft",
                       revision |-> 0, runs |-> pipeline.runs + 1, reusing |-> FALSE]
    BY <1>2 DEF StartRun
  <2>2. pipeline' \in PipelineRow /\ pipeline'.at # "validated"
    <3>1. pipeline.runs + 1 \in Nat
      BY <1>1 DEF PipelineRow
    <3> QED BY <2>1, <3>1 DEF PipelineRow
  <2>3. section' = NoSection /\ before' = NoSection /\ UNCHANGED <<reference, row>>
    BY <1>2 DEF StartRun
  <2>4. RunsFit'
    BY <2>1, <2>3 DEF RunsFit
  <2> QED BY <1>1, <2>2, <2>3, <2>4, NoSectionTyped, QuietStep
<1>3. CASE DiscardRow \/ FailSection
  <2>1. UNCHANGED <<reference, before, row>> /\ section' \in {section, NoSection}
    BY <1>3 DEF DiscardRow, FailSection
  <2>2. /\ pipeline' \in PipelineRow /\ pipeline'.at \in {"idle", "draft"}
        /\ pipeline'.revision = pipeline.revision
        /\ pipeline'.reusing => pipeline.reusing
        /\ pipeline'.at = "draft" => pipeline.reusing /\ ~pipeline'.reusing
    BY <1>1, <1>3 DEF DiscardRow, FailSection, PipelineRow
  <2>3. RunsFit'
    BY <2>1, <2>2 DEF PipelineInv, RunsFit
  <2> QED BY <1>1, <2>1, <2>2, <2>3, NoSectionTyped, QuietStep
<1>4. CASE LockRow
  <2>1. /\ row'.section = row.section /\ row'.exists = row.exists
        /\ row' \in [section : Section, exists : BOOLEAN, locked : BOOLEAN]
        /\ pipeline.at = "idle" /\ UNCHANGED <<reference, section, before, issues, pipeline>>
    BY <1>1, <1>4 DEF LockRow
  <2>2. RunsFit'
    BY <2>1 DEF PipelineInv, RunsFit
  <2> QED BY <1>1, <2>1, <2>2, QuietStep
<1> QED BY <1>2, <1>3, <1>4

\* A step that makes a section and validates it
LEMMA MadeStep ==
  ASSUME PipelineInv, UNCHANGED <<reference, row>>, NEW s \in Section, Validated(s),
         before' \in Section, pipeline' \in PipelineRow, pipeline'.at = "validated", RunsFit',
         pipeline'.revision = 0 \/ before'.items \subseteq s.items,
         pipeline'.revision = 0 => pipeline'.reusing \/ Grounded(s),
         pipeline'.reusing /\ row.locked => s = row.section
  PROVE  PipelineInv'
<1>1. PipelineType'
  BY DEF PipelineInv, PipelineType, PipelineRow, Validated
<1>2. Issues(section)' = Issues(s) /\ Issues(row.section)' = Issues(row.section) /\ section' = s
      /\ issues' = Issues(s)
  BY IssuesAreOfText DEF Validated
<1>3. IssuesFit' /\ SavedRowsAreValid'
  BY <1>2 DEF PipelineInv, IssuesFit, SectionsAreSound, SavedRowsAreValid
<1>4. DraftsAreGrounded'
  BY <1>2 DEF DraftsAreGrounded, Grounded, Text, FieldsIn, ClausesIn
<1>5. SupplementKeepsText'
  BY <1>2 DEF SupplementKeepsText
<1>6. LockedRowsAreUsed'
  BY <1>2 DEF LockedRowsAreUsed
<1> QED BY <1>1, <1>3, <1>4, <1>5, <1>6 DEF PipelineInv, SectionsAreSound

LEMMA MakingSteps ==
  ASSUME PipelineInv, ReuseRow \/ DraftSection \/ ReviseSection
  PROVE  PipelineInv'
<1>1. /\ pipeline \in PipelineRow /\ row.section \in Section /\ section \in Section
      /\ before \in Section /\ PipelineType
  BY DEF PipelineInv, PipelineType, PipelineRow
<1>2. \A s \in Section : Composed(Normalized(s)) \in Section /\ Normalized(Composed(s)) \in Section
  BY <1>1, ComposedTyped, NormalizedGrounds
<1>3. CASE ReuseRow
  <2> DEFINE s == IF row.locked THEN row.section ELSE Composed(Normalized(row.section))
  <2>1. Validated(s) /\ UNCHANGED <<reference, row, before>> /\ s \in Section
    BY <1>1, <1>2, <1>3 DEF ReuseRow
  <2>2. row.locked => s = row.section
    OBVIOUS
  <2>3. /\ pipeline' \in PipelineRow /\ pipeline'.at = "validated" /\ pipeline'.reusing
        /\ pipeline'.revision = pipeline.revision /\ pipeline.at = "loaded"
    BY <1>1, <1>3 DEF ReuseRow, PipelineRow
  <2>4. RunsFit' /\ pipeline'.revision = 0
    BY <2>1, <2>3 DEF PipelineInv, RunsFit
  <2> HIDE DEF s
  <2> QED BY <1>1, <2>1, <2>2, <2>3, <2>4, MadeStep
<1>4. CASE DraftSection
  <2>1. PICK answer \in Answers : Validated(Normalized(Composed(answer)))
    BY <1>4 DEF DraftSection
  <2> DEFINE s == Normalized(Composed(answer))
  <2>2. answer \in Section /\ Composed(answer) \in Section
    BY <1>1, AnswersTyped, ComposedTyped
  <2>3. s \in Section /\ Grounded(s) /\ Validated(s)
    BY <1>2, <2>1, <2>2, NormalizedGrounds
  <2>4. UNCHANGED <<reference, row, before>>
    BY <1>4 DEF DraftSection
  <2>5. /\ pipeline' \in PipelineRow /\ pipeline'.at = "validated"
        /\ pipeline'.reusing = pipeline.reusing
        /\ pipeline'.revision = pipeline.revision /\ pipeline.at = "draft"
    BY <1>1, <1>4 DEF DraftSection, PipelineRow
  <2>6. RunsFit' /\ pipeline'.revision = 0 /\ ~pipeline'.reusing
    BY <2>4, <2>5 DEF PipelineInv, RunsFit
  <2> HIDE DEF s
  <2> QED BY <1>1, <2>3, <2>4, <2>5, <2>6, MadeStep
<1>5. CASE ReviseSection
  <2>1. PICK answer \in Answers :
          Validated(Composed(Normalized(
            IF OnlyShort(issues) THEN Supplemented(section, answer) ELSE answer)))
    BY <1>5 DEF ReviseSection
  <2> DEFINE t == IF OnlyShort(issues) THEN Supplemented(section, answer) ELSE answer
             s == Composed(Normalized(t))
  <2>2. answer \in Section
    BY AnswersTyped
  <2>3. t \in Section
    <3>1. Supplemented(section, answer) \in Section
      BY <1>1, <2>2 DEF Supplemented, Section
    <3> QED BY <2>2, <3>1
  <2>4. s \in Section /\ Validated(s)
    BY <1>2, <2>1, <2>3
  <2>5. /\ pipeline.at = "validated" /\ ~pipeline.reusing
        /\ before' = IF OnlyShort(issues) THEN section ELSE NoSection
        /\ UNCHANGED <<reference, row>>
    BY <1>5 DEF ReviseSection, Revisable
  <2>6. /\ pipeline' \in PipelineRow /\ pipeline'.at = "validated" /\ ~pipeline'.reusing
        /\ pipeline'.revision # 0
    <3>1. pipeline.revision + 1 \in Nat \ {0}
      BY <1>1 DEF PipelineRow
    <3> QED BY <1>1, <1>5, <2>5, <3>1 DEF ReviseSection, PipelineRow
  <2>7. before' \in Section /\ before'.items \subseteq s.items
    <3>1. CASE OnlyShort(issues)
      <4>1. issues = Issues(section) /\ before' = section /\ t = Supplemented(section, answer)
        BY <2>5, <3>1 DEF PipelineInv, IssuesFit
      <4> HIDE DEF t
      <4> QED BY <1>1, <2>2, <3>1, <4>1, SupplementKeeps
    <3>2. CASE ~OnlyShort(issues)
      BY <2>5, <3>2, NoSectionTyped
    <3> QED BY <3>1, <3>2
  <2>8. RunsFit'
    BY <2>6 DEF RunsFit
  <2> HIDE DEF s
  <2> QED BY <2>4, <2>5, <2>6, <2>7, <2>8, MadeStep
<1> QED BY <1>3, <1>4, <1>5

LEMMA SaveStep ==
  ASSUME PipelineInv, SaveSection
  PROVE  PipelineInv'
<1>1. /\ pipeline \in PipelineRow /\ row \in [section : Section, exists : BOOLEAN, locked : BOOLEAN]
      /\ section \in Section /\ before \in Section
  BY DEF PipelineInv, PipelineType, PipelineRow
<1>2. /\ pipeline.at = "validated" /\ Issues(section) = {}
      /\ UNCHANGED <<reference, section, before, issues>>
  BY DEF SaveSection, PipelineInv, IssuesFit
<1>3. /\ pipeline' \in PipelineRow /\ pipeline'.at = "idle"
      /\ pipeline'.reusing = pipeline.reusing /\ pipeline'.revision = pipeline.revision
  BY <1>1 DEF SaveSection, PipelineRow
<1>4. row' = row \/ row' = [section |-> section, exists |-> TRUE, locked |-> FALSE]
  BY DEF SaveSection
<1>5. PipelineType'
  <2>1. row' \in [section : Section, exists : BOOLEAN, locked : BOOLEAN]
    <3>1. CASE row' = row
      BY <1>1, <3>1
    <3>2. CASE row' = [section |-> section, exists |-> TRUE, locked |-> FALSE]
      BY <1>1, <3>2
    <3> QED BY <1>4, <3>1, <3>2
  <2>2. reference \in SUBSET Item
    BY DEF PipelineInv, PipelineType
  <2> QED BY <1>1, <1>2, <1>3, <2>1, <2>2 DEF PipelineType, PipelineRow
<1>6. SavedRowsAreValid'
  <2>1. CASE row' = row
    <3>1. Issues(row.section)' = Issues(row.section)
      BY <1>2, <2>1, IssuesAreOfText
    <3> QED BY <2>1, <3>1 DEF PipelineInv, SectionsAreSound, SavedRowsAreValid
  <2>2. CASE row' = [section |-> section, exists |-> TRUE, locked |-> FALSE]
    <3>1. Issues(row.section)' = Issues(section)
      BY <1>2, <2>2, IssuesAreOfText
    <3> QED BY <1>2, <3>1 DEF SavedRowsAreValid
  <2> QED BY <1>4, <2>1, <2>2
<1>7. RunsFit'
  BY <1>3, <1>4 DEF PipelineInv, RunsFit
<1> QED BY <1>3, <1>5, <1>6, <1>7
  DEF PipelineInv, IssuesFit, SectionsAreSound, DraftsAreGrounded, SupplementKeepsText,
      LockedRowsAreUsed

LEMMA StutterStep ==
  ASSUME PipelineInv, UNCHANGED pipelineVars
  PROVE  PipelineInv'
<1>1. UNCHANGED <<reference, section, before, issues, row, pipeline>>
  BY DEF pipelineVars
<1>2. Issues(section)' = Issues(section) /\ Issues(row.section)' = Issues(row.section)
  BY <1>1, IssuesAreOfText
<1> QED BY <1>1, <1>2
  DEF PipelineInv, PipelineType, IssuesFit, RunsFit, SectionsAreSound, DraftsAreGrounded,
      SupplementKeepsText, SavedRowsAreValid, LockedRowsAreUsed

-------------------------------------------------------------------------------
(* The theorems *)

\* The properties of sections, with what makes them inductive: what is validated is the
\* section as it is, and nothing is revised before it is drafted.
THEOREM PipelineInvariant == PipelineSpec => []PipelineInv
<1>1. PipelineInv /\ [PipelineNext]_pipelineVars => PipelineInv'
  BY RunSteps, MakingSteps, SaveStep, StutterStep DEF PipelineNext
<1> QED BY <1>1, PipelineInitFits, PTL DEF PipelineSpec

\* For every set of facts, numerals, references and answers of the model: a validated
\* draft has none of the errors that normalisation removes, a supplement keeps the text
\* it is for, a saved row is valid, and a locked row is used as it is.
THEOREM SectionsStaySound == PipelineSpec => []SectionsAreSound
<1>1. PipelineInv => SectionsAreSound
  BY DEF PipelineInv
<1> QED BY <1>1, PipelineInvariant, PTL

-------------------------------------------------------------------------------
(*****************************************************************************)
(* ProviderCalls: what the records of a call add up to.                      *)
(*****************************************************************************)

Purposes == {"draft", "revise", "extract", "repair"}
Record == [purpose : Purposes, retries : Nat]
Results == {"none", "MODEL_SCHEMA_INVALID"} \cup Replies \cup RetryableErrors \cup FinalErrors
CallRow == [at : {"idle", "asking", "answered", "failed"}, request : Purposes, attempt : Nat,
            result : Results]

\* The sum of one record and of two, which is as many as a call has.
LEMMA SumOfOne ==
  ASSUME NEW r \in Seq(Record), Len(r) = 1
  PROVE  Sum(r) = r[1].retries + 1
<1> DEFINE IsSum(f) == f = [n \in 0 .. 1 |-> IF n = 0 THEN 0 ELSE f[n - 1] + r[n].retries + 1]
<1> DEFINE g == [n \in 0 .. 1 |-> IF n = 0 THEN 0 ELSE r[1].retries + 1]
<1>1. r[1].retries \in Nat
  <2>1. r[1] \in Record
    OBVIOUS
  <2> QED BY <2>1 DEF Record
<1>2. IsSum(g)
  BY <1>1
<1>3. IsSum(CHOOSE f : IsSum(f))
  BY <1>2
<1>4. ASSUME NEW f, IsSum(f) PROVE f[1] = r[1].retries + 1
  <2>1. f = [n \in 0 .. 1 |-> IF n = 0 THEN 0 ELSE f[n - 1] + r[n].retries + 1]
    BY <1>4
  <2>2. f[0] = 0
    BY <2>1
  <2>3. f[1] = f[0] + r[1].retries + 1
    BY <2>1
  <2> QED BY <1>1, <2>2, <2>3
<1>5. Sum(r) = (CHOOSE f : IsSum(f))[1]
  BY DEF Sum
<1> QED BY <1>3, <1>4, <1>5

LEMMA SumOfTwo ==
  ASSUME NEW r \in Seq(Record), Len(r) = 2
  PROVE  Sum(r) = r[1].retries + 1 + r[2].retries + 1
<1> DEFINE IsSum(f) == f = [n \in 0 .. 2 |-> IF n = 0 THEN 0 ELSE f[n - 1] + r[n].retries + 1]
<1> DEFINE g == [n \in 0 .. 2 |-> IF n = 0 THEN 0 ELSE IF n = 1 THEN r[1].retries + 1
                                  ELSE r[1].retries + 1 + r[2].retries + 1]
<1>1. r[1].retries \in Nat /\ r[2].retries \in Nat
  <2>1. \A i \in 1 .. Len(r) : r[i] \in Record
    OBVIOUS
  <2> QED BY <2>1 DEF Record
<1>2. IsSum(g)
  BY <1>1
<1>3. IsSum(CHOOSE f : IsSum(f))
  BY <1>2
<1>4. ASSUME NEW f, IsSum(f) PROVE f[2] = r[1].retries + 1 + r[2].retries + 1
  <2>1. f = [n \in 0 .. 2 |-> IF n = 0 THEN 0 ELSE f[n - 1] + r[n].retries + 1]
    BY <1>4
  <2>2. f[0] = 0
    BY <2>1
  <2>3. f[1] = f[0] + r[1].retries + 1
    BY <2>1
  <2>4. f[2] = f[1] + r[2].retries + 1
    BY <2>1
  <2> QED BY <1>1, <2>2, <2>3, <2>4
<1>5. Sum(r) = (CHOOSE f : IsSum(f))[2]
  BY DEF Sum
<1> QED BY <1>3, <1>4, <1>5

\* While a request is out, the records account for all the others: none before the
\* repair, the one of the first request during it.
RequestsFit ==
  /\ call \in CallRow
  /\ sent \in Nat /\ usage \in Seq(Record)
  /\ call.at = "asking" =>
       /\ call.attempt >= 1
       /\ call.request # "repair" => usage = <<>> /\ sent = call.attempt
       /\ call.request = "repair" => Len(usage) = 1 /\ sent = usage[1].retries + 1 + call.attempt
  /\ call.at = "answered" =>
       /\ call.request # "repair" => Len(usage) = 1 /\ sent = usage[1].retries + 1
       /\ call.request = "repair" => Len(usage) = 2 /\ sent = usage[1].retries + 1 + usage[2].retries + 1

LEMMA RequestsAddUp == RequestsFit => UsageAccountsForRequests
  BY SumOfOne, SumOfTwo DEF RequestsFit, UsageAccountsForRequests

LEMMA ReplyFits == RequestsFit /\ ReplyArrives => RequestsFit'
<1> SUFFICES ASSUME RequestsFit, ReplyArrives PROVE RequestsFit'
  OBVIOUS
<1>1. PICK c : c = call
  OBVIOUS
<1>2. /\ c \in CallRow
      /\ sent \in Nat /\ usage \in Seq(Record) /\ c.at = "asking" /\ c.attempt >= 1
      /\ c.request # "repair" => usage = <<>> /\ sent = c.attempt
      /\ c.request = "repair" => Len(usage) = 1 /\ sent = usage[1].retries + 1 + c.attempt
  BY <1>1 DEF RequestsFit, ReplyArrives
<1> DEFINE r == [purpose |-> c.request, retries |-> c.attempt - 1]
<1>3. r \in Record /\ r.retries = c.attempt - 1 /\ c.attempt \in Nat
  BY <1>2 DEF Record, CallRow
<1>4. ASSUME usage = <<>>
      PROVE  Append(usage, r) \in Seq(Record) /\ Len(Append(usage, r)) = 1 /\ Append(usage, r)[1] = r
  BY <1>3, <1>4
<1>5. ASSUME Len(usage) = 1
      PROVE  /\ Append(usage, r) \in Seq(Record) /\ Len(Append(usage, r)) = 2
             /\ Append(usage, r)[1] = usage[1] /\ Append(usage, r)[2] = r
             /\ usage[1].retries \in Nat
  <2>1. \A i \in 1 .. Len(usage) : usage[i] \in Record
    BY <1>2
  <2>2. usage[1].retries \in Nat
    BY <1>5, <2>1 DEF Record
  <2>3. usage \in Seq(Record) /\ r \in Record
    BY <1>2, <1>3
  <2> HIDE DEF r
  <2>4. /\ Append(usage, r) \in Seq(Record) /\ Len(Append(usage, r)) = Len(usage) + 1
        /\ \A i \in 1 .. Len(usage) : Append(usage, r)[i] = usage[i]
        /\ Append(usage, r)[Len(usage) + 1] = r
    BY <2>3
  <2> QED BY <1>5, <2>2, <2>4
<1>6. PICK reply \in Replies :
       \/ /\ reply = "unusable"
          /\ call' = [c EXCEPT !.at = "failed", !.result = "MODEL_RESPONSE_INVALID"]
          /\ UNCHANGED <<sent, usage>>
       \/ /\ FitsSchema(reply)
          /\ call' = [c EXCEPT !.at = "answered", !.result = reply]
          /\ usage' = Append(usage, r) /\ sent' = sent
       \/ /\ reply = "wrong" /\ c.request # "repair"
          /\ call' = [c EXCEPT !.request = "repair", !.attempt = 1]
          /\ usage' = Append(usage, r) /\ sent' = sent + 1
       \/ /\ reply = "wrong" /\ c.request = "repair"
          /\ call' = [c EXCEPT !.at = "failed", !.result = "MODEL_SCHEMA_INVALID"]
          /\ usage' = Append(usage, r) /\ sent' = sent
  BY <1>1 DEF ReplyArrives, RecordUsage
<1> HIDE DEF r
<1>7. reply \in Results /\ (usage = <<>> \/ Len(usage) = 1)
      /\ {"MODEL_RESPONSE_INVALID", "MODEL_SCHEMA_INVALID"} \subseteq Results
  BY <1>2 DEF Results, FinalErrors
<1>8. CASE /\ reply = "unusable"
           /\ call' = [c EXCEPT !.at = "failed", !.result = "MODEL_RESPONSE_INVALID"]
           /\ UNCHANGED <<sent, usage>>
  BY <1>2, <1>7, <1>8 DEF RequestsFit, CallRow
<1>9. CASE /\ FitsSchema(reply)
           /\ call' = [c EXCEPT !.at = "answered", !.result = reply]
           /\ usage' = Append(usage, r) /\ sent' = sent
  <2>1. call' \in CallRow /\ call'.at = "answered" /\ call'.request = c.request
    BY <1>2, <1>7, <1>9 DEF CallRow
  <2>2. usage' = Append(usage, r) /\ sent' = sent
    BY <1>9
  <2>3. CASE c.request = "repair"
    <3>1. usage' \in Seq(Record) /\ Len(usage') = 2 /\ usage'[1] = usage[1] /\ usage'[2] = r
          /\ usage[1].retries \in Nat
      BY <1>2, <1>5, <2>2, <2>3
    <3>4. sent' = usage[1].retries + 1 + c.attempt
      BY <1>2, <2>2, <2>3
    <3>2. sent' = usage'[1].retries + 1 + usage'[2].retries + 1
      <4>1. usage'[1].retries = usage[1].retries
        BY <3>1
      <4>2. usage'[2].retries = c.attempt - 1
        BY <1>3, <3>1
      <4>3. usage[1].retries \in Nat /\ c.attempt \in Nat
        BY <1>3, <3>1
      <4> QED BY <3>4, <4>1, <4>2, <4>3
    <3>3. sent' \in Nat /\ call'.at # "asking" /\ call'.request = "repair"
      BY <1>2, <2>1, <2>2, <2>3
    <3> QED BY <2>1, <3>1, <3>2, <3>3 DEF RequestsFit
  <2>4. CASE c.request # "repair"
    <3>1. usage' \in Seq(Record) /\ Len(usage') = 1 /\ usage'[1] = r /\ sent' = c.attempt
      BY <1>2, <1>4, <2>2, <2>4
    <3>2. sent' = usage'[1].retries + 1
      BY <1>3, <3>1
    <3>3. sent' \in Nat /\ call'.at # "asking" /\ call'.request # "repair"
      BY <1>2, <2>1, <2>2, <2>4
    <3> QED BY <2>1, <3>1, <3>2, <3>3 DEF RequestsFit
  <2> QED BY <2>3, <2>4
<1>10. CASE /\ reply = "wrong" /\ c.request # "repair"
            /\ call' = [c EXCEPT !.request = "repair", !.attempt = 1]
            /\ usage' = Append(usage, r) /\ sent' = sent + 1
  <2>1. call' \in CallRow /\ call'.at = "asking" /\ call'.request = "repair" /\ call'.attempt = 1
    BY <1>2, <1>10 DEF CallRow, Purposes
  <2>2. usage' \in Seq(Record) /\ Len(usage') = 1 /\ usage'[1] = r /\ sent' = c.attempt + 1
    BY <1>2, <1>4, <1>10
  <2>3. sent' = usage'[1].retries + 1 + 1 /\ sent' \in Nat
    BY <1>3, <2>2
  <2> QED BY <2>1, <2>2, <2>3 DEF RequestsFit
<1>11. CASE /\ reply = "wrong" /\ c.request = "repair"
            /\ call' = [c EXCEPT !.at = "failed", !.result = "MODEL_SCHEMA_INVALID"]
            /\ usage' = Append(usage, r) /\ sent' = sent
  BY <1>2, <1>3, <1>5, <1>7, <1>11 DEF RequestsFit, CallRow, Record
<1> QED BY <1>6, <1>8, <1>9, <1>10, <1>11

\* The accounts of a call, through retries and the repair.
THEOREM RequestsInvariant == ProviderSpec => []RequestsFit
<1>1. ProviderInit => RequestsFit
  BY DEF ProviderInit, RequestsFit, CallRow, Results, Purposes
<1>2. RequestsFit /\ [ProviderNext]_providerVars => RequestsFit'
  <2> SUFFICES ASSUME RequestsFit, ProviderNext \/ UNCHANGED providerVars PROVE RequestsFit'
    OBVIOUS
  <2>1. CASE UNCHANGED providerVars
    BY <2>1 DEF providerVars, RequestsFit
  <2>2. CASE BeginCall
    BY <2>2 DEF BeginCall, RequestsFit, CallRow, Results, Purposes
  <2>3. CASE RetryRequest
    <3>1. PICK c \in CallRow : c = call
      BY DEF RequestsFit
    <3>2. call' = [c EXCEPT !.attempt = @ + 1] /\ sent' = sent + 1 /\ usage' = usage /\ c.at = "asking"
      BY <2>3, <3>1 DEF RetryRequest
    <3>3. call' \in CallRow /\ call'.at = "asking" /\ call'.request = c.request
          /\ call'.attempt = c.attempt + 1 /\ c.attempt \in Nat
      BY <3>2 DEF CallRow
    <3>4. Len(usage) = 1 => usage[1].retries \in Nat
      <4>1. \A i \in 1 .. Len(usage) : usage[i] \in Record
        BY DEF RequestsFit
      <4> QED BY <4>1 DEF Record
    <3>5. /\ sent \in Nat /\ usage \in Seq(Record)
          /\ c.request # "repair" => usage = <<>> /\ sent = c.attempt
          /\ c.request = "repair" => Len(usage) = 1 /\ sent = usage[1].retries + 1 + c.attempt
      BY <3>1, <3>2 DEF RequestsFit
    <3>6. sent' \in Nat /\ usage' \in Seq(Record) /\ call'.attempt >= 1 /\ call'.at # "answered"
      BY <3>2, <3>3, <3>5, <3>1 DEF RequestsFit
    <3>7. CASE c.request = "repair"
      <4>1. Len(usage') = 1 /\ usage'[1] = usage[1]
        BY <3>2, <3>5, <3>7
      <4>2. sent' = usage[1].retries + 1 + call'.attempt
        <5>1. sent = usage[1].retries + 1 + c.attempt /\ usage[1].retries \in Nat
          BY <3>4, <3>5, <3>7
        <5> QED BY <3>2, <3>3, <5>1
      <4>3. sent' = usage'[1].retries + 1 + call'.attempt
        BY <4>1, <4>2
      <4>4. call'.request = "repair"
        BY <3>3, <3>7
      <4> QED BY <3>3, <3>6, <4>1, <4>3, <4>4 DEF RequestsFit
    <3>8. CASE c.request # "repair"
      BY <3>2, <3>3, <3>5, <3>6, <3>8 DEF RequestsFit
    <3> QED BY <3>7, <3>8
  <2>4. CASE RequestFails
    BY <2>4 DEF RequestFails, RequestsFit, CallRow, Results
  <2>5. CASE EndCall
    <3>1. PICK c \in CallRow : c = call
      BY DEF RequestsFit
    <3>2. call' = [c EXCEPT !.at = "idle", !.request = "draft", !.attempt = 0, !.result = "none"]
          /\ sent' = 0 /\ usage' = <<>>
      BY <2>5, <3>1 DEF EndCall
    <3>3. call' \in CallRow /\ call'.at = "idle"
      BY <3>2 DEF CallRow, Results, Purposes
    <3> QED BY <3>2, <3>3 DEF RequestsFit
  <2> QED BY <2>1, <2>2, <2>3, <2>4, <2>5, ReplyFits DEF ProviderNext
<1> QED BY <1>1, <1>2, PTL DEF ProviderSpec

\* ModelUsageRecord: the records of an answered call add up to the requests it has sent,
\* however many attempts the configuration allows (providers/llm).
THEOREM UsageIsAccountedFor == ProviderSpec => []UsageAccountsForRequests
  BY RequestsInvariant, RequestsAddUp, PTL

-------------------------------------------------------------------------------
(*****************************************************************************)
(* WorkflowTrace: events are numbered 1, 2, 3, ... in the order of their     *)
(* commits, so a page that asks for what is above its last number misses     *)
(* none, and a stopped task gets no event but the stop's.                    *)
(*****************************************************************************)

EventType == [sequence : Nat, cancel : BOOLEAN, progress : Nat, locked : BOOLEAN]

TraceType ==
  /\ events \in Seq(EventType)
  /\ emitting \in [Writers -> EventType]
  /\ taskLine \in [stopped : BOOLEAN, progress : Nat, starts : Nat, owed : BOOLEAN]
  /\ page \in [after : Nat, shown : SUBSET Nat]
  /\ refused \in BOOLEAN

\* Numbers are the positions.
Numbered == \A i \in DOMAIN events : events[i].sequence = i

\* A writer that has begun holds the row, alone, has the next number, and the task goes on.
WritersFit ==
  /\ \A w \in Writers : emitting[w] # NoEvent =>
       /\ emitting[w].locked /\ ~emitting[w].cancel
       /\ emitting[w].sequence = Len(events) + 1
       /\ ~taskLine.stopped
  /\ \A v, w \in Writers : emitting[v] # NoEvent /\ emitting[w] # NoEvent => v = w

\* The page has shown everything up to its last number, which exists.
PageFits == page.after <= Len(events) /\ \A n \in 1 .. page.after : n \in page.shown

TraceInv == TraceType /\ Numbered /\ WritersFit /\ PageFits /\ ~refused

-------------------------------------------------------------------------------
(* The highest number and the next page *)

LEMMA HighestIsLast ==
  ASSUME TraceType, Numbered
  PROVE  Highest = Len(events)
<1>1. CASE events = <<>>
  BY <1>1 DEF Highest
<1>2. CASE events # <<>>
  <2>1. Len(events) \in Nat \ {0} /\ DOMAIN events = 1 .. Len(events)
    BY <1>2 DEF TraceType
  <2> DEFINE IsHighest(n) == \A i \in DOMAIN events : events[i].sequence <= n
             numbers == {events[i].sequence : i \in DOMAIN events}
  <2>2. Len(events) \in numbers /\ IsHighest(Len(events))
    BY <2>1 DEF Numbered
  <2>3. \A n \in numbers : IsHighest(n) => n = Len(events)
    <3>1. ASSUME NEW n \in numbers, IsHighest(n)
          PROVE  n = Len(events)
      <4>1. PICK i \in 1 .. Len(events) : n = events[i].sequence
        BY <2>1, <3>1
      <4>2. events[i].sequence = i /\ events[Len(events)].sequence = Len(events)
        BY <2>1 DEF Numbered
      <4>3. events[Len(events)].sequence <= n
        BY <2>1, <3>1
      <4>4. n = i /\ Len(events) <= n
        BY <4>1, <4>2, <4>3
      <4>5. Len(events) \in Nat /\ i \in 1 .. Len(events)
        BY <4>1
      <4> HIDE DEF IsHighest, numbers
      <4> QED BY <4>4, <4>5
    <3> QED BY <3>1
  <2>4. Highest = CHOOSE n \in numbers : IsHighest(n)
    BY <1>2 DEF Highest
  <2> HIDE DEF IsHighest, numbers
  <2> QED BY <2>2, <2>3, <2>4
<1> QED BY <1>1, <1>2

\* A page ends PageSize numbers after the last one, or with the last event.
LEMMA PageIsAnInterval ==
  ASSUME TraceInv, PollEvents
  PROVE  \E last \in page.after + 1 .. Len(events) :
           page' = [after |-> last, shown |-> page.shown \cup (page.after + 1 .. last)]
<1> DEFINE above == {n \in {events[i].sequence : i \in DOMAIN events} : n > page.after}
           first == {n \in above : Cardinality({m \in above : m < n}) < PageSize}
           last == IF Len(events) - page.after <= PageSize THEN Len(events)
                   ELSE page.after + PageSize
<1>1. Len(events) \in Nat /\ DOMAIN events = 1 .. Len(events) /\ page.after \in Nat
      /\ page.after <= Len(events) /\ PageSize \in Nat \ {0}
  BY TraceAssumption DEF TraceInv, TraceType, PageFits
<1>2. above = page.after + 1 .. Len(events)
  <2>1. {events[i].sequence : i \in DOMAIN events} = 1 .. Len(events)
    BY <1>1 DEF TraceInv, Numbered
  <2>2. \A n : n \in above <=> n \in 1 .. Len(events) /\ n > page.after
    BY <2>1
  <2> HIDE DEF above
  <2>3. ASSUME NEW n \in 1 .. Len(events)
        PROVE  n > page.after <=> n \in page.after + 1 .. Len(events)
    BY <1>1
  <2>4. \A n \in page.after + 1 .. Len(events) : n \in 1 .. Len(events)
    BY <1>1
  <2> QED BY <2>2, <2>3, <2>4
<1>3. above # {} /\ page' = [after |-> CHOOSE n \in first : \A m \in first : m <= n,
                             shown |-> page.shown \cup first]
  BY DEF PollEvents
<1>4. page.after < Len(events)
  BY <1>1, <1>2, <1>3
<1>5. last \in page.after + 1 .. Len(events)
  BY <1>1, <1>4
<1>6. \A n \in above : Cardinality({m \in above : m < n}) = n - page.after - 1
  <2> TAKE n \in above
  <2>1. n \in page.after + 1 .. Len(events)
    BY <1>2
  <2>2. {m \in above : m < n} = page.after + 1 .. n - 1
    BY <1>1, <1>2, <2>1
  <2>3. Cardinality(page.after + 1 .. n - 1) = n - page.after - 1
    <3>1. page.after + 1 \in Int /\ n - 1 \in Int
      BY <1>1, <2>1
    <3>2. Cardinality(page.after + 1 .. n - 1)
            = IF page.after + 1 > n - 1 THEN 0 ELSE (n - 1) - (page.after + 1) + 1
      BY <3>1, FS_Interval
    <3> QED BY <3>2, <1>1, <2>1
  <2> QED BY <2>2, <2>3
<1>7. first = page.after + 1 .. last
  <2> HIDE DEF above
  <2>1. first = {n \in above : n - page.after - 1 < PageSize}
    BY <1>6
  <2> HIDE DEF first
  <2> QED BY <2>1, <1>1, <1>2, <1>4
<1>8. (CHOOSE n \in first : \A m \in first : m <= n) = last
  <2> HIDE DEF above, first, last
  <2> QED BY <1>1, <1>5, <1>7
<1> HIDE DEF above, first, last
<1> QED BY <1>3, <1>5, <1>7, <1>8

-------------------------------------------------------------------------------
(* The invariant *)

LEMMA NoEventTyped == NoEvent \in EventType
BY DEF NoEvent, EventType

LEMMA InitFits == TraceInit => TraceInv
<1> SUFFICES ASSUME TraceInit PROVE TraceInv
  OBVIOUS
<1>1. TraceType
  <2>1. events \in Seq(EventType)
    BY DEF TraceInit
  <2>2. emitting \in [Writers -> EventType]
    BY NoEventTyped DEF TraceInit
  <2>3. page.after = 0 /\ page.shown = {} /\ page = [after |-> page.after, shown |-> page.shown]
    BY DEF TraceInit
  <2>4. taskLine \in [stopped : BOOLEAN, progress : Nat, starts : Nat, owed : BOOLEAN]
    BY DEF TraceInit
  <2> QED BY <2>1, <2>2, <2>3, <2>4 DEF TraceInit, TraceType
<1>2. Numbered /\ WritersFit /\ PageFits
  BY DEF TraceInit, Numbered, WritersFit, PageFits
<1> QED BY <1>1, <1>2 DEF TraceInv, TraceInit

\* Whoever finds the row free finds no event under way.
LEMMA FreeMeansIdle ==
  ASSUME TraceInv, ~RowLocked
  PROVE  \A w \in Writers : emitting[w] = NoEvent
BY DEF TraceInv, WritersFit, RowLocked

LEMMA AppendedFits ==
  ASSUME TraceInv, NEW e \in EventType, e.sequence = Len(events) + 1,
         events' = Append(events, e), UNCHANGED page
  PROVE  /\ events' \in Seq(EventType) /\ Len(events') = Len(events) + 1
         /\ Numbered' /\ PageFits'
         /\ events'[Len(events')] = e
<1>1. /\ events' \in Seq(EventType) /\ Len(events') = Len(events) + 1
      /\ \A i \in 1 .. Len(events) : events'[i] = events[i]
      /\ events'[Len(events')] = e
  BY DEF TraceInv, TraceType
<1>2. Numbered'
  <2>1. DOMAIN events' = 1 .. Len(events) + 1 /\ DOMAIN events = 1 .. Len(events)
        /\ Len(events) \in Nat
    BY <1>1 DEF TraceInv, TraceType
  <2> QED BY <1>1, <2>1 DEF TraceInv, Numbered
<1>3. PageFits'
  BY <1>1 DEF TraceInv, TraceType, PageFits
<1> QED BY <1>1, <1>2, <1>3

LEMMA EmitFits ==
  ASSUME TraceInv, NEW w \in Writers, BeginEmit(w) \/ CommitEmit(w) \/ AbortEmit(w)
  PROVE  TraceInv'
<1>1. CASE BeginEmit(w)
  <2>1. PICK stage \in 0 .. TopStage : Prepare(w, stage, TRUE)
    BY <1>1 DEF BeginEmit
  <2>2. \A v \in Writers : emitting[v] = NoEvent
    BY <1>1, FreeMeansIdle DEF BeginEmit
  <2>3. Highest = Len(events) /\ Len(events) \in Nat
    BY HighestIsLast DEF TraceInv, TraceType
  <2> DEFINE e == [sequence |-> Len(events) + 1, cancel |-> FALSE, locked |-> TRUE,
                   progress |-> IF stage > taskLine.progress THEN stage ELSE taskLine.progress]
  <2>4. e \in EventType
    BY <2>3, TraceAssumption DEF EventType, TraceInv, TraceType
  <2>5. emitting' = [emitting EXCEPT ![w] = e]
    BY <2>1, <2>3 DEF Prepare
  <2>6. UNCHANGED <<events, taskLine, page, refused>> /\ ~taskLine.stopped
    BY <1>1 DEF BeginEmit
  <2>7. TraceType'
    BY <2>4, <2>5, <2>6 DEF TraceInv, TraceType
  <2>8. WritersFit'
    BY <2>2, <2>5, <2>6 DEF WritersFit, TraceInv, TraceType
  <2> QED BY <2>6, <2>7, <2>8 DEF TraceInv, Numbered, PageFits
<1>2. CASE CommitEmit(w)
  <2>1. /\ emitting[w] # NoEvent /\ emitting[w] \in EventType
        /\ emitting[w].sequence = Len(events) + 1
        /\ \A v \in Writers : v # w => emitting[v] = NoEvent
    BY <1>2 DEF CommitEmit, TraceInv, TraceType, WritersFit
  <2>2. ~ \E i \in DOMAIN events : events[i].sequence = emitting[w].sequence
    BY <2>1 DEF TraceInv, TraceType, Numbered
  <2> DEFINE e == [emitting[w] EXCEPT !.locked = FALSE]
  <2>3. e \in EventType /\ e.sequence = Len(events) + 1
    BY <2>1 DEF EventType
  <2>4. /\ events' = Append(events, e)
        /\ taskLine' = [taskLine EXCEPT !.progress = emitting[w].progress]
        /\ emitting' = [emitting EXCEPT ![w] = NoEvent]
        /\ UNCHANGED <<page, refused>>
    BY <1>2, <2>2 DEF CommitEmit
  <2>5. events' \in Seq(EventType) /\ Numbered' /\ PageFits'
    BY <2>3, <2>4, AppendedFits
  <2>6. TraceType'
    BY <2>1, <2>4, <2>5, NoEventTyped DEF TraceInv, TraceType, EventType
  <2>7. \A v \in Writers : emitting'[v] = NoEvent
    BY <2>1, <2>4 DEF TraceInv, TraceType
  <2> QED BY <2>4, <2>5, <2>6, <2>7 DEF TraceInv, WritersFit
<1>3. CASE AbortEmit(w)
  BY <1>3, NoEventTyped
  DEF AbortEmit, TraceInv, TraceType, Numbered, WritersFit, PageFits
<1> QED BY <1>1, <1>2, <1>3

LEMMA UserFits ==
  ASSUME TraceInv, StopTrace \/ EmitCancel \/ StartAgain
  PROVE  TraceInv'
<1>1. CASE StopTrace
  <2>1. \A v \in Writers : emitting[v] = NoEvent
    BY <1>1, FreeMeansIdle DEF StopTrace
  <2> QED BY <1>1, <2>1 DEF StopTrace, TraceInv, TraceType, Numbered, WritersFit, PageFits
<1>2. CASE EmitCancel
  <2>1. \A v \in Writers : emitting[v] = NoEvent
    BY <1>2, FreeMeansIdle DEF EmitCancel
  <2>2. Highest = Len(events) /\ Len(events) \in Nat
    BY HighestIsLast DEF TraceInv, TraceType
  <2> DEFINE e == [sequence |-> Len(events) + 1, cancel |-> TRUE, locked |-> FALSE,
                   progress |-> taskLine.progress]
  <2>3. e \in EventType
    BY <2>2 DEF EventType, TraceInv, TraceType
  <2>4. events' = Append(events, e) /\ taskLine' = [taskLine EXCEPT !.owed = FALSE]
        /\ UNCHANGED <<emitting, page, refused>>
    BY <1>2, <2>2 DEF EmitCancel
  <2>5. events' \in Seq(EventType) /\ Numbered' /\ PageFits'
    BY <2>3, <2>4, AppendedFits
  <2>6. TraceType'
    BY <2>4, <2>5 DEF TraceInv, TraceType
  <2> QED BY <2>1, <2>4, <2>5, <2>6 DEF TraceInv, WritersFit
<1>3. CASE StartAgain
  <2>1. \A v \in Writers : emitting[v] = NoEvent
    BY <1>3, FreeMeansIdle DEF StartAgain
  <2>2. taskLine' \in [stopped : BOOLEAN, progress : Nat, starts : Nat, owed : BOOLEAN]
    <3>1. taskLine \in [stopped : BOOLEAN, progress : Nat, starts : Nat, owed : BOOLEAN]
      BY DEF TraceInv, TraceType
    <3>2. taskLine' = [stopped |-> FALSE, progress |-> 0, starts |-> taskLine.starts + 1,
                       owed |-> taskLine.owed]
      BY <1>3, <3>1 DEF StartAgain
    <3>3. taskLine.starts + 1 \in Nat /\ taskLine.owed \in BOOLEAN
      BY <3>1
    <3> QED BY <3>2, <3>3
  <2>3. UNCHANGED <<events, emitting, page, refused>>
    BY <1>3 DEF StartAgain
  <2> QED BY <2>1, <2>2, <2>3 DEF TraceInv, TraceType, Numbered, WritersFit, PageFits
<1> QED BY <1>1, <1>2, <1>3

LEMMA PollFits ==
  ASSUME TraceInv, PollEvents
  PROVE  TraceInv'
<1>1. PICK last \in page.after + 1 .. Len(events) :
        page' = [after |-> last, shown |-> page.shown \cup (page.after + 1 .. last)]
  BY PageIsAnInterval
<1>2. UNCHANGED <<events, emitting, taskLine, refused>>
  BY DEF PollEvents
<1>3. page.after \in Nat /\ page.shown \in SUBSET Nat /\ Len(events) \in Nat
  BY DEF TraceInv, TraceType
<1>4. PageFits' /\ page' \in [after : Nat, shown : SUBSET Nat]
  BY <1>1, <1>2, <1>3 DEF TraceInv, PageFits
<1> QED BY <1>2, <1>4 DEF TraceInv, TraceType, Numbered, WritersFit

LEMMA StepFits ==
  ASSUME TraceInv, [TraceNext]_traceVars
  PROVE  TraceInv'
<1>1. CASE UNCHANGED traceVars
  BY <1>1 DEF traceVars, TraceInv, TraceType, Numbered, WritersFit, PageFits
<1> QED BY <1>1, EmitFits, UserFits, PollFits DEF TraceNext

-------------------------------------------------------------------------------
(* Theorems *)

\* Any number of writers, that of a stopped run among them, and a reader: numbers are
\* gapless, the row's lock is held by one writer, and the page misses nothing.
THEOREM TraceInvariant == TraceSpec => []TraceInv
<1> QED BY InitFits, StepFits, PTL DEF TraceSpec

\* workflow_events.emit: no event is refused for its number, and the page has shown every
\* event up to the number it asks beyond.
THEOREM EventsAreShown == TraceSpec => []EveryEventIsShown
<1>1. TraceInv => EveryEventIsShown
  <2> SUFFICES ASSUME TraceInv PROVE EveryEventIsShown
    OBVIOUS
  <2>1. ASSUME NEW i \in DOMAIN events, events[i].sequence <= page.after
        PROVE  events[i].sequence \in page.shown
    BY <2>1 DEF TraceInv, TraceType, Numbered, PageFits
  <2> QED BY <2>1 DEF EveryEventIsShown, TraceInv
<1> QED BY <1>1, TraceInvariant, PTL

\* services.stop_generation_task: between a stop and the next start the task gets no event
\* but that of the stop, and its progress stands.
THEOREM StoppedTasksAreSilent == TraceSpec => StoppedTaskIsSilent
<1> DEFINE Silent == taskLine.stopped /\ taskLine'.stopped =>
                       /\ taskLine'.progress = taskLine.progress
                       /\ events' # events => events'[Len(events')].cancel
<1>1. TraceInv /\ [TraceNext]_traceVars => Silent \/ UNCHANGED traceVars
  <2> SUFFICES ASSUME TraceInv, TraceNext, taskLine.stopped, taskLine'.stopped
               PROVE  /\ taskLine'.progress = taskLine.progress
                      /\ events' # events => events'[Len(events')].cancel
    OBVIOUS
  <2>1. ASSUME NEW w \in Writers, BeginEmit(w) \/ CommitEmit(w) \/ AbortEmit(w)
        PROVE  UNCHANGED <<events, taskLine>>
    BY <2>1 DEF BeginEmit, CommitEmit, AbortEmit, TraceInv, WritersFit
  <2>2. CASE EmitCancel
    <3>1. Highest = Len(events) /\ Len(events) \in Nat
      BY HighestIsLast DEF TraceInv, TraceType
    <3> DEFINE e == [sequence |-> Len(events) + 1, cancel |-> TRUE, locked |-> FALSE,
                     progress |-> taskLine.progress]
    <3>2. e \in EventType
      BY <3>1 DEF EventType, TraceInv, TraceType
    <3>3. events' = Append(events, e) /\ taskLine' = [taskLine EXCEPT !.owed = FALSE]
          /\ UNCHANGED page
      BY <2>2, <3>1 DEF EmitCancel
    <3>4. events'[Len(events')] = e
      BY <3>2, <3>3, AppendedFits
    <3> QED BY <3>3, <3>4 DEF TraceInv, TraceType
  <2>3. CASE StopTrace \/ StartAgain
    BY <2>3 DEF StopTrace, StartAgain, TraceInv, TraceType
  <2>4. CASE PollEvents
    BY <2>4 DEF PollEvents
  <2> QED BY <2>1, <2>2, <2>3, <2>4 DEF TraceNext
<1> QED BY <1>1, TraceInvariant, PTL DEF TraceSpec, StoppedTaskIsSilent

-------------------------------------------------------------------------------
(*****************************************************************************)
(* AccessDecision: grants stay exclusive and revoked, what is done because   *)
(* of a grant is done before it is revoked, and the querysets agree with     *)
(* the decisions.  The lock on the document is what serialises everything    *)
(* that writes a grant.                                                      *)
(*****************************************************************************)

GrantRow == [user : Users \cup {Nobody}, rights : SUBSET Rights,
             state : {"none", "live", "expired", "revoked"}]
CallerRow == [step : {"idle", "lock", "allowed", "member"}, op : DocumentOps \cup {"none"},
              user : Users \cup {Nobody}, target : Users \cup GrantIds \cup {Nobody},
              by : SUBSET GrantIds]

AccessType ==
  /\ paper \in Situations
  /\ member \in [Users -> MemberSets \cup {NoMember}]
  /\ grant \in [GrantIds -> GrantRow]
  /\ caller \in [Callers -> CallerRow]
  /\ revokedOnce \subseteq GrantIds /\ removed \subseteq Users

\* Ids that are not rows yet, and the rows that requests name
RowsExist ==
  /\ \A g \in GrantIds : grant[g].state = "none" => grant[g] = NoGrant
  /\ \A c \in Callers :
       caller[c].step \in {"lock", "allowed"} /\ caller[c].op \in {"change", "revoke"} =>
         caller[c].target \in GrantIds /\ grant[caller[c].target].state # "none"

\* One request has the document, and the grants it acts on are not revoked meanwhile.
DocumentLock ==
  /\ \A c, d \in Callers : caller[c].step = "allowed" /\ caller[d].step = "allowed" => c = d
  /\ \A c \in Callers : caller[c].step = "allowed" =>
       \A g \in caller[c].by : grant[g].state # "revoked"

\* One edit of members at a time, of one who is a member
MemberEdits ==
  /\ \A c, d \in Callers : caller[c].step = "member" /\ caller[d].step = "member" => c = d
  /\ \A c \in Callers : caller[c].step = "member" => member[caller[c].target] # NoMember
  /\ \A u \in removed : member[u] = NoMember

GrantsInv == AccessType /\ RowsExist /\ DocumentLock /\ GrantsAreExclusive /\ RevokedStaysRevoked

-------------------------------------------------------------------------------
(* The grants *)

LEMMA QuietTyped == Quiet \in CallerRow /\ Quiet.step = "idle"
BY DEF Quiet, CallerRow

LEMMA GrantsInit == AccessInit => GrantsInv
<1> SUFFICES ASSUME AccessInit PROVE GrantsInv
  OBVIOUS
<1>1. NoGrant \in GrantRow /\ NoGrant.state = "none"
  BY DEF NoGrant, GrantRow
<1>2. AccessType
  BY <1>1, QuietTyped DEF AccessInit, AccessType
<1> QED
  BY <1>1, <1>2, QuietTyped
  DEF AccessInit, GrantsInv, RowsExist, DocumentLock, GrantsAreExclusive, RevokedStaysRevoked

\* A request that ends or goes on without writing a grant
LEMMA CallerMoves ==
  ASSUME GrantsInv, NEW c \in Callers, NEW grantRow \in CallerRow,
         caller' = [caller EXCEPT ![c] = grantRow], UNCHANGED <<paper, grant, revokedOnce>>,
         member' \in [Users -> MemberSets \cup {NoMember}], removed' \subseteq Users,
         grantRow.step \in {"lock", "allowed"} /\ grantRow.op \in {"change", "revoke"} =>
           grantRow.target \in GrantIds /\ grant[grantRow.target].state # "none",
         grantRow.step = "allowed" =>
           /\ \A d \in Callers : caller[d].step # "allowed"
           /\ \A g \in grantRow.by : grant[g].state # "revoked"
  PROVE  GrantsInv'
<1>1. /\ caller \in [Callers -> CallerRow] /\ caller' \in [Callers -> CallerRow]
      /\ caller'[c] = grantRow /\ \A d \in Callers : d # c => caller'[d] = caller[d]
  BY DEF GrantsInv, AccessType
<1>2. AccessType'
  BY <1>1 DEF GrantsInv, AccessType
<1>3. RowsExist'
  BY <1>1 DEF GrantsInv, RowsExist
<1>4. DocumentLock'
  BY <1>1 DEF GrantsInv, DocumentLock
<1> QED BY <1>2, <1>3, <1>4 DEF GrantsInv, GrantsAreExclusive, RevokedStaysRevoked

\* The grants are written by the request that has the document, which then ends, or
\* run out.
LEMMA GrantsMove ==
  ASSUME GrantsInv, UNCHANGED <<paper, member, removed>>,
         grant' \in [GrantIds -> GrantRow], caller' \in [Callers -> CallerRow],
         revokedOnce' \subseteq GrantIds,
         \A g \in GrantIds : /\ grant[g].state # "none" => grant'[g].state # "none"
                             /\ grant'[g].state = "none" => grant'[g] = NoGrant,
         \A c \in Callers : \/ caller'[c] = Quiet
                            \/ /\ caller'[c] = caller[c]
                               /\ caller[c].step = "allowed" =>
                                    \A g \in caller[c].by : grant'[g].state # "revoked",
         GrantsAreExclusive', RevokedStaysRevoked'
  PROVE  GrantsInv'
<1>1. AccessType'
  BY DEF GrantsInv, AccessType
<1>2. RowsExist'
  BY QuietTyped DEF GrantsInv, AccessType, CallerRow, RowsExist
<1>3. DocumentLock'
  BY QuietTyped DEF GrantsInv, DocumentLock
<1> QED BY <1>1, <1>2, <1>3 DEF GrantsInv

LEMMA CommitMoves ==
  ASSUME GrantsInv, NEW c \in Callers, NEW op, Commits(c, op)
  PROVE  /\ UNCHANGED <<paper, member, removed>> /\ caller' \in [Callers -> CallerRow]
         /\ \A d \in Callers : \/ caller'[d] = Quiet
                               \/ caller'[d] = caller[d] /\ caller[d].step # "allowed"
<1>1. caller' = [caller EXCEPT ![c] = Quiet] /\ caller[c].step = "allowed"
  BY DEF Commits
<1>2. \A d \in Callers : d # c => caller[d].step # "allowed"
  BY <1>1 DEF GrantsInv, DocumentLock
<1>3. UNCHANGED <<paper, member, removed>>
  BY DEF Commits
<1>4. caller \in [Callers -> CallerRow]
  BY DEF GrantsInv, AccessType
<1>5. caller' \in [Callers -> CallerRow]
  BY <1>1, <1>4, QuietTyped
<1>6. caller'[c] = Quiet /\ \A d \in Callers : d # c => caller'[d] = caller[d]
  BY <1>1, <1>4
<1> QED BY <1>2, <1>3, <1>5, <1>6

LEMMA GrantFits ==
  ASSUME GrantsInv, NEW c \in Callers, GrantRights(c)
  PROVE  GrantsInv'
<1>1. Commits(c, "grant")
  BY DEF GrantRights
<1>2. PICK u \in Users, rights \in RightSets, g \in {g \in GrantIds : grant[g] = NoGrant} :
        LET old == {h \in GrantIds : grant[h].user = u /\ grant[h].state \in {"live", "expired"}} IN
        /\ \A h \in old : ~IsLive(h)
        /\ grant' = [h \in GrantIds |->
             IF h = g THEN [user |-> u, rights |-> rights, state |-> "live"]
             ELSE IF h \in old THEN [grant[h] EXCEPT !.state = "revoked"] ELSE grant[h]]
        /\ revokedOnce' = revokedOnce \cup old
  BY DEF GrantRights
<1> DEFINE old == {h \in GrantIds : grant[h].user = u /\ grant[h].state \in {"live", "expired"}}
           new == [user |-> u, rights |-> rights, state |-> "live"]
<1>3. /\ grant \in [GrantIds -> GrantRow] /\ rights \in SUBSET Rights
      /\ g \in GrantIds /\ grant[g].state = "none" /\ g \notin old
  BY <1>2, AccessAssumption DEF GrantsInv, AccessType, NoGrant
<1>4. /\ grant'[g] = new /\ new \in GrantRow
      /\ \A h \in GrantIds \ (old \cup {g}) : grant'[h] = grant[h]
      /\ \A h \in old : /\ grant'[h] \in GrantRow /\ grant'[h].user = u
                        /\ grant'[h].state = "revoked"
  BY <1>2, <1>3 DEF GrantRow
<1>5. grant' \in [GrantIds -> GrantRow]
  BY <1>2, <1>3, <1>4
<1>6. revokedOnce' = revokedOnce \cup old
  BY <1>2
<1> HIDE DEF old
<1>7. RevokedStaysRevoked'
  BY <1>3, <1>4, <1>6 DEF GrantsInv, AccessType, RevokedStaysRevoked
<1>8. GrantsAreExclusive'
  <2> SUFFICES ASSUME NEW a \in GrantIds, NEW b \in GrantIds, a # b,
                      grant'[a] # NoGrant, grant'[b] # NoGrant,
                      grant'[a].user = grant'[b].user
               PROVE  "revoked" \in {grant'[a].state, grant'[b].state}
    BY DEF GrantsAreExclusive
  <2>1. ASSUME NEW h \in GrantIds, h # g, grant'[h] # NoGrant, grant'[h].user = u
        PROVE  grant'[h].state = "revoked"
    <3>1. CASE h \in old
      BY <3>1, <1>4
    <3>2. CASE h \notin old
      <4>1. grant'[h] = grant[h] /\ grant[h] \in GrantRow /\ grant[h].state # "none"
        BY <2>1, <3>2, <1>3, <1>4 DEF GrantsInv, RowsExist
      <4>2. grant[h].state \notin {"live", "expired"}
        BY <2>1, <3>2, <4>1 DEF old
      <4> QED BY <4>1, <4>2 DEF GrantRow
    <3> QED BY <3>1, <3>2
  <2>2. CASE a = g \/ b = g
    BY <2>1, <2>2, <1>4
  <2>3. CASE a \in old \/ b \in old
    BY <2>3, <1>4
  <2>4. CASE a \notin old \cup {g} /\ b \notin old \cup {g}
    BY <2>4, <1>4 DEF GrantsInv, GrantsAreExclusive
  <2> QED BY <2>2, <2>3, <2>4
<1>9. \A h \in GrantIds : /\ grant[h].state # "none" => grant'[h].state # "none"
                          /\ grant'[h].state = "none" => grant'[h] = NoGrant
  BY <1>3, <1>4 DEF GrantsInv, RowsExist
<1>10. revokedOnce' \subseteq GrantIds
  BY <1>6 DEF GrantsInv, AccessType, old
<1> QED BY <1>1, <1>5, <1>7, <1>8, <1>9, <1>10, CommitMoves, GrantsMove

\* A grantRow that keeps its user and is not revoked yet
LEMMA RowFits ==
  ASSUME GrantsInv, NEW g \in GrantIds, grant[g].state \notin {"none", "revoked"},
         NEW grantRow \in GrantRow, grantRow.user = grant[g].user, grantRow.state # "none",
         grant' = [grant EXCEPT ![g] = grantRow],
         \/ revokedOnce' = revokedOnce
         \/ revokedOnce' = revokedOnce \cup {g} /\ grantRow.state = "revoked"
  PROVE  /\ grant' \in [GrantIds -> GrantRow] /\ revokedOnce' \subseteq GrantIds
         /\ \A h \in GrantIds : /\ grant[h].state # "none" => grant'[h].state # "none"
                                /\ grant'[h].state = "none" => grant'[h] = NoGrant
         /\ GrantsAreExclusive' /\ RevokedStaysRevoked'
<1>1. /\ grant \in [GrantIds -> GrantRow] /\ revokedOnce \subseteq GrantIds
      /\ grant'[g] = grantRow /\ \A h \in GrantIds : h # g => grant'[h] = grant[h]
  BY DEF GrantsInv, AccessType
<1>2. grant[g] # NoGrant
  BY DEF NoGrant
<1>3. GrantsAreExclusive'
  <2> SUFFICES ASSUME NEW a \in GrantIds, NEW b \in GrantIds, a # b,
                      grant'[a] # NoGrant, grant'[b] # NoGrant,
                      grant'[a].user = grant'[b].user
               PROVE  "revoked" \in {grant'[a].state, grant'[b].state}
    BY DEF GrantsAreExclusive
  <2> QED BY <1>1, <1>2 DEF GrantsInv, GrantsAreExclusive
<1>4. RevokedStaysRevoked'
  BY <1>1 DEF GrantsInv, RevokedStaysRevoked
<1> QED BY <1>1, <1>3, <1>4 DEF GrantsInv, RowsExist

LEMMA ChangeFits ==
  ASSUME GrantsInv, NEW c \in Callers, ChangeGrant(c) \/ RevokeGrant(c)
  PROVE  GrantsInv'
<1> DEFINE g == caller[c].target
<1>1. PICK op \in {"change", "revoke"} : Commits(c, op)
  BY DEF ChangeGrant, RevokeGrant
<1>2. caller[c].op \in {"change", "revoke"} /\ caller[c].step = "allowed"
  BY <1>1 DEF Commits
<1>3. g \in GrantIds /\ grant[g].state \notin {"none", "revoked"} /\ grant[g] \in GrantRow
  BY <1>2 DEF ChangeGrant, RevokeGrant, GrantsInv, AccessType, RowsExist
<1> HIDE DEF g
<1>4. PICK grantRow \in GrantRow :
        /\ grantRow.user = grant[g].user /\ grantRow.state # "none" /\ grant' = [grant EXCEPT ![g] = grantRow]
        /\ \/ revokedOnce' = revokedOnce
           \/ revokedOnce' = revokedOnce \cup {g} /\ grantRow.state = "revoked"
  <2>1. CASE ChangeGrant(c)
    <3>1. PICK rights \in RightSets, state \in {"live", grant[g].state} :
            grant' = [grant EXCEPT ![g].rights = rights, ![g].state = state]
      BY <2>1 DEF ChangeGrant, g
    <3> DEFINE grantRow == [grant[g] EXCEPT !.rights = rights, !.state = state]
    <3>2. grantRow \in GrantRow /\ grantRow.user = grant[g].user /\ grantRow.state # "none"
      BY <1>3, AccessAssumption DEF GrantRow
    <3>3. grant' = [grant EXCEPT ![g] = grantRow]
      BY <3>1, <1>3 DEF GrantsInv, AccessType, GrantRow
    <3> QED BY <2>1, <3>2, <3>3 DEF ChangeGrant
  <2>2. CASE RevokeGrant(c)
    <3> DEFINE grantRow == [grant[g] EXCEPT !.state = "revoked"]
    <3>1. grantRow \in GrantRow /\ grantRow.user = grant[g].user /\ grantRow.state = "revoked"
      BY <1>3 DEF GrantRow
    <3>2. grant' = [grant EXCEPT ![g] = grantRow] /\ revokedOnce' = revokedOnce \cup {g}
      BY <2>2, <1>3 DEF RevokeGrant, g
    <3> QED BY <3>1, <3>2
  <2> QED BY <2>1, <2>2
<1>5. /\ grant' \in [GrantIds -> GrantRow] /\ revokedOnce' \subseteq GrantIds
      /\ \A h \in GrantIds : /\ grant[h].state # "none" => grant'[h].state # "none"
                             /\ grant'[h].state = "none" => grant'[h] = NoGrant
      /\ GrantsAreExclusive' /\ RevokedStaysRevoked'
  BY <1>3, <1>4, RowFits
<1>6. /\ UNCHANGED <<paper, member, removed>> /\ caller' \in [Callers -> CallerRow]
      /\ \A d \in Callers : \/ caller'[d] = Quiet
                            \/ caller'[d] = caller[d] /\ caller[d].step # "allowed"
  BY <1>1, CommitMoves
<1> QED BY <1>5, <1>6, GrantsMove

LEMMA RunOutFits ==
  ASSUME GrantsInv, NEW g \in GrantIds, RunOut(g)
  PROVE  GrantsInv'
<1> DEFINE grantRow == [grant[g] EXCEPT !.state = "expired"]
<1>1. /\ grant[g] \in GrantRow /\ grant[g].state = "live"
      /\ UNCHANGED <<paper, member, caller, revokedOnce, removed>>
      /\ grant' = [grant EXCEPT ![g] = grantRow]
  BY DEF RunOut, IsLive, GrantsInv, AccessType
<1>2. grantRow \in GrantRow /\ grantRow.user = grant[g].user /\ grantRow.state = "expired"
  BY <1>1 DEF GrantRow
<1> HIDE DEF grantRow
<1>3. /\ grant' \in [GrantIds -> GrantRow] /\ revokedOnce' \subseteq GrantIds
      /\ \A h \in GrantIds : /\ grant[h].state # "none" => grant'[h].state # "none"
                             /\ grant'[h].state = "none" => grant'[h] = NoGrant
      /\ GrantsAreExclusive' /\ RevokedStaysRevoked'
  <2>1. /\ grant[g].state \notin {"none", "revoked"} /\ grantRow.state # "none"
        /\ grantRow \in GrantRow /\ grantRow.user = grant[g].user
        /\ grant' = [grant EXCEPT ![g] = grantRow] /\ revokedOnce' = revokedOnce
    BY <1>1, <1>2
  <2> QED BY <2>1, RowFits
<1>4. \A h \in GrantIds : grant[h].state # "revoked" => grant'[h].state # "revoked"
  BY <1>1, <1>2 DEF GrantsInv, AccessType
<1>5. \A c \in Callers : caller[c].step = "allowed" =>
        \A h \in caller[c].by : grant'[h].state # "revoked"
  BY <1>4 DEF GrantsInv, AccessType, CallerRow, DocumentLock
<1> QED BY <1>1, <1>3, <1>5, GrantsMove DEF GrantsInv, AccessType

\* Every other step moves one request, or a member.
LEMMA OthersFit ==
  ASSUME GrantsInv, NEW c \in Callers,
         \/ Call(c) \/ LockDocument(c) \/ Refused(c) \/ WriteDocument(c)
         \/ \E u \in Users : LoadMember(c, u) \/ SaveMember(c, u) \/ RemoveMember(c, u)
  PROVE  GrantsInv'
<1>1. /\ caller \in [Callers -> CallerRow] /\ member \in [Users -> MemberSets \cup {NoMember}]
      /\ removed \subseteq Users
  BY DEF GrantsInv, AccessType
<1>2. CASE Call(c)
  <2>1. PICK v \in Users, op \in DocumentOps,
             t \in {Nobody} \cup {g \in GrantIds : grant[g] # NoGrant} :
          /\ t # Nobody <=> op \in {"change", "revoke"}
          /\ caller' = [caller EXCEPT ![c] = [step |-> "lock", op |-> op, user |-> v,
                                             target |-> t, by |-> {}]]
    BY <1>2 DEF Call
  <2> DEFINE grantRow == [step |-> "lock", op |-> op, user |-> v, target |-> t, by |-> {}]
  <2>2. grantRow \in CallerRow
    BY DEF CallerRow
  <2>3. grantRow.op \in {"change", "revoke"} => grantRow.target \in GrantIds /\ grant[grantRow.target].state # "none"
    BY <2>1 DEF GrantsInv, RowsExist
  <2>4. UNCHANGED <<paper, member, grant, revokedOnce, removed>>
    BY <1>2 DEF Call
  <2>5. grantRow.step = "lock" /\ caller' = [caller EXCEPT ![c] = grantRow]
    BY <2>1
  <2> HIDE DEF grantRow
  <2> QED BY <1>1, <2>2, <2>3, <2>4, <2>5, CallerMoves
<1>3. CASE LockDocument(c)
  <2> DEFINE by == GrantsTo(caller[c].user, RightFor(caller[c].op))
             grantRow == [caller[c] EXCEPT !.step = "allowed", !.by = by]
  <2>1. /\ caller[c].step = "lock" /\ \A d \in Callers : caller[d].step # "allowed"
        /\ UNCHANGED <<paper, member, grant, revokedOnce, removed>>
        /\ caller' = [caller EXCEPT ![c].step = "allowed", ![c].by = by]
    BY <1>3 DEF LockDocument
  <2>2. by \in SUBSET GrantIds /\ \A g \in by : grant[g].state # "revoked"
    BY DEF GrantsTo, IsLive
  <2> HIDE DEF by
  <2>3. /\ grantRow \in CallerRow /\ grantRow.step = "allowed" /\ grantRow.by = by
        /\ grantRow.op = caller[c].op /\ grantRow.target = caller[c].target
    BY <1>1, <2>2 DEF CallerRow
  <2>4. caller' = [caller EXCEPT ![c] = grantRow]
    BY <1>1, <2>1 DEF CallerRow
  <2>5. grantRow.op \in {"change", "revoke"} => grantRow.target \in GrantIds /\ grant[grantRow.target].state # "none"
    BY <2>1, <2>3 DEF GrantsInv, RowsExist
  <2> HIDE DEF grantRow
  <2> QED BY <1>1, <2>1, <2>2, <2>3, <2>4, <2>5, CallerMoves
<1>4. CASE Refused(c) \/ WriteDocument(c)
             \/ \E u \in Users : SaveMember(c, u) \/ RemoveMember(c, u)
  <2>1. /\ caller' = [caller EXCEPT ![c] = Quiet] /\ UNCHANGED <<paper, grant, revokedOnce>>
        /\ member' \in [Users -> MemberSets \cup {NoMember}] /\ removed' \subseteq Users
    BY <1>1, <1>4 DEF Refused, WriteDocument, SaveMember, RemoveMember
  <2> QED BY <2>1, QuietTyped, CallerMoves
<1>5. ASSUME NEW u \in Users, LoadMember(c, u) PROVE GrantsInv'
  <2> DEFINE grantRow == [Quiet EXCEPT !.step = "member", !.target = u]
  <2>1. grantRow \in CallerRow /\ grantRow.step = "member"
    BY DEF Quiet, CallerRow
  <2>2. caller' = [caller EXCEPT ![c] = grantRow] /\ UNCHANGED <<paper, member, grant, revokedOnce, removed>>
    BY <1>5 DEF LoadMember
  <2> HIDE DEF grantRow
  <2> QED BY <1>1, <2>1, <2>2, CallerMoves
<1> QED BY <1>2, <1>3, <1>4, <1>5

LEMMA GrantsStep == GrantsInv /\ [AccessNext]_accessVars => GrantsInv'
<1> SUFFICES ASSUME GrantsInv, AccessNext \/ UNCHANGED accessVars PROVE GrantsInv'
  OBVIOUS
<1>1. CASE UNCHANGED accessVars
  BY <1>1 DEF accessVars, GrantsInv, AccessType, RowsExist, DocumentLock, GrantsAreExclusive,
              RevokedStaysRevoked
<1>2. ASSUME NEW c \in Callers,
             \/ Call(c) \/ LockDocument(c) \/ Refused(c) \/ WriteDocument(c)
             \/ \E u \in Users : LoadMember(c, u) \/ SaveMember(c, u) \/ RemoveMember(c, u)
      PROVE  GrantsInv'
  BY <1>2, OthersFit
<1>3. ASSUME NEW c \in Callers, GrantRights(c) \/ ChangeGrant(c) \/ RevokeGrant(c)
      PROVE  GrantsInv'
  BY <1>3, GrantFits, ChangeFits
<1>4. ASSUME NEW g \in GrantIds, RunOut(g)
      PROVE  GrantsInv'
  BY <1>4, RunOutFits
<1>5. ASSUME NEW u \in Users, AddMember(u)
      PROVE  GrantsInv'
  BY <1>5 DEF AddMember, GrantsInv, AccessType, RowsExist, DocumentLock, GrantsAreExclusive,
              RevokedStaysRevoked
<1> QED BY <1>1, <1>2, <1>3, <1>4, <1>5 DEF AccessNext

-------------------------------------------------------------------------------
(* The members *)

LEMMA MembersStep ==
  ASSUME LoneMemberEdit, GrantsInv, MemberEdits, [AccessNext]_accessVars
  PROVE  MemberEdits'
<1>1. /\ caller \in [Callers -> CallerRow] /\ member \in [Users -> MemberSets \cup {NoMember}]
      /\ removed \subseteq Users
  BY DEF GrantsInv, AccessType
<1>2. \A rights \in MemberSets : rights # NoMember
  BY AccessAssumption DEF MemberRights, NoMember
<1>3. CASE UNCHANGED accessVars
  BY <1>3 DEF accessVars, MemberEdits
<1>4. ASSUME NEW c \in Callers, UNCHANGED <<member, removed>>,
             \/ Call(c) \/ LockDocument(c) \/ Refused(c) \/ WriteDocument(c)
             \/ GrantRights(c) \/ ChangeGrant(c) \/ RevokeGrant(c)
      PROVE  MemberEdits'
  <2>1. caller'[c].step # "member" /\ \A d \in Callers : d # c => caller'[d] = caller[d]
    BY <1>1, <1>4, QuietTyped
    DEF Call, LockDocument, Refused, WriteDocument, GrantRights, ChangeGrant, RevokeGrant, Commits,
        CallerRow
  <2> QED BY <1>4, <2>1 DEF MemberEdits
<1>5. ASSUME NEW c \in Callers, NEW u \in Users, LoadMember(c, u)
      PROVE  MemberEdits'
  <2>1. /\ caller'[c].step = "member" /\ caller'[c].target = u
        /\ \A d \in Callers : d # c => caller'[d] = caller[d]
        /\ UNCHANGED <<member, removed>> /\ member[u] # NoMember
        /\ \A d \in Callers : caller[d].step # "member"
    BY <1>1, <1>5 DEF LoadMember, Quiet, CallerRow
  <2> QED BY <2>1 DEF MemberEdits
<1>6. ASSUME NEW c \in Callers, NEW u \in Users, SaveMember(c, u) \/ RemoveMember(c, u)
      PROVE  MemberEdits'
  <2>1. /\ caller[c].step = "member" /\ caller[c].target = u
        /\ caller'[c] = Quiet /\ \A d \in Callers : d # c => caller'[d] = caller[d]
    BY <1>1, <1>6 DEF SaveMember, RemoveMember, Editing
  <2>2. \A d \in Callers : caller'[d].step # "member"
    BY <2>1, QuietTyped DEF MemberEdits
  <2>3. \A v \in removed' : member'[v] = NoMember
    <3>1. u \notin removed /\ \A v \in removed : member[v] = NoMember
      BY <2>1 DEF MemberEdits
    <3>2. CASE SaveMember(c, u)
      BY <1>1, <3>1, <3>2 DEF SaveMember
    <3>3. CASE RemoveMember(c, u)
      BY <1>1, <3>1, <3>3 DEF RemoveMember
    <3> QED BY <1>6, <3>2, <3>3
  <2> QED BY <2>2, <2>3 DEF MemberEdits
<1>7. ASSUME NEW g \in GrantIds, RunOut(g)
      PROVE  MemberEdits'
  BY <1>7 DEF RunOut, MemberEdits
<1>8. ASSUME NEW u \in Users, AddMember(u)
      PROVE  MemberEdits'
  <2>1. PICK rights \in MemberSets : member' = [member EXCEPT ![u] = rights]
    BY <1>8 DEF AddMember
  <2>2. removed' = removed \ {u} /\ UNCHANGED caller
    BY <1>8 DEF AddMember
  <2>3. member'[u] # NoMember /\ \A v \in Users : v # u => member'[v] = member[v]
    BY <1>1, <1>2, <2>1
  <2>4. \A c \in Callers : caller[c].target # u => member'[caller[c].target] = member[caller[c].target]
    BY <1>1, <2>1
  <2> QED BY <1>1, <2>2, <2>3, <2>4 DEF MemberEdits
<1>9. ASSUME NEW c \in Callers,
             \/ Call(c) \/ LockDocument(c) \/ Refused(c) \/ WriteDocument(c)
             \/ GrantRights(c) \/ ChangeGrant(c) \/ RevokeGrant(c)
      PROVE  UNCHANGED <<member, removed>>
  BY <1>9 DEF Call, LockDocument, Refused, WriteDocument, GrantRights, ChangeGrant, RevokeGrant,
              Commits
<1> QED BY <1>3, <1>4, <1>5, <1>6, <1>7, <1>8, <1>9 DEF AccessNext

-------------------------------------------------------------------------------
(* The theorems *)

LEMMA GrantedActsStand == GrantsInv => ActsOnStandingGrants
BY DEF GrantsInv, DocumentLock, ActsOnStandingGrants

LEMMA QuerysetsAgree ==
  ASSUME GrantsInv, MemberEdits, \A s \in Situations : s.staff => ~s.project
  PROVE  DecisionsAgree
<1>1. paper.staff => ~paper.project
  BY DEF GrantsInv, AccessType
<1>2. ASSUME NEW u \in Users, Visible(u) \/ MayDownload(u)
      PROVE  InBase(u)
  <2>1. GrantsTo(u, "view") # {} \/ GrantsTo(u, "download") # {} => InBase(u)
    BY DEF InBase, Rights
  <2> QED BY <1>1, <1>2, <2>1 DEF Visible, MayDownload, InBase, MemberMay
<1>3. \A u \in removed : ~IsMember(u)
  BY DEF MemberEdits, IsMember
<1> QED BY <1>2, <1>3 DEF DecisionsAgree

\* What the document's lock protects: exclusive grants, revocations that stand, and
\* requests that act on grants which are not revoked before they have acted.
THEOREM GrantsInvariant == AccessSpec => []GrantsInv
BY GrantsInit, GrantsStep, PTL DEF AccessSpec

\* If a document of the staff belongs to no project and members are edited one at a
\* time: whatever users and administrators do at the same time, a user has one grant,
\* a revoked grant stays so, nothing is done because of one, and what one may
\* download one can find.
THEOREM AccessIsSound ==
  ASSUME LoneMemberEdit, \A s \in Situations : s.staff => ~s.project
  PROVE  AccessSpec => []AccessIsConsistent
<1>1. AccessInit => MemberEdits
  BY QuietTyped DEF AccessInit, MemberEdits
<1>2. GrantsInv /\ MemberEdits /\ [AccessNext]_accessVars => MemberEdits'
  BY MembersStep
<1>3. GrantsInv /\ MemberEdits => AccessIsConsistent
  BY GrantedActsStand, QuerysetsAgree DEF GrantsInv, AccessIsConsistent
<1> QED BY <1>1, <1>2, <1>3, GrantsInvariant, PTL DEF AccessSpec

===============================================================================
