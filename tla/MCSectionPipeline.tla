--------------------------- MODULE MCSectionPipeline ---------------------------
(***************************************************************************)
(* Instances of SectionPipeline for TLC.                                   *)
(***************************************************************************)
EXTENDS SectionPipeline

CONSTANTS quantity, remark, done,  \* facts
          twelve, seven            \* numerals

\* One planned quantity of twelve, a remark that has a forbidden word, a truth value, and
\* a seven that nobody has confirmed
FieldNumbersMC == [f \in Fields |-> IF f = quantity THEN {twelve} ELSE {}]
ClauseMC(f, n, x, p) == [fields |-> f, numbers |-> n, forbidden |-> x, plan |-> p]
SentenceMC(f, n, x, p) == {[first |-> ClauseMC(f, n, x, p), rest |-> {}]}
TwelveMC == ClauseMC({quantity}, {twelve}, FALSE, FALSE)
PlainMC  == ClauseMC({}, {}, FALSE, FALSE)
PlanMC   == ClauseMC({}, {}, FALSE, TRUE)

\* An item whose second clause has the quantity, and a row of two cells
LateMC(first) == {[first |-> first, rest |-> {TwelveMC}]}
RowMC == {[first |-> TwelveMC, rest |-> {}], [first |-> PlainMC, rest |-> {}]}

TableMC == {SentenceMC({quantity}, {twelve}, FALSE, FALSE), SentenceMC({}, {seven}, FALSE, FALSE)}
DraftItemsMC ==
  TableMC \cup {SentenceMC({}, {}, FALSE, FALSE), SentenceMC({remark}, {}, TRUE, FALSE),
                SentenceMC({quantity, done}, {twelve, seven}, FALSE, FALSE),
                LateMC(PlainMC), LateMC(PlanMC), RowMC}
ReferencesMC == {{}, TableMC, {RowMC}}
================================================================================
