-------------------------------- MODULE Knowledge -------------------------------
(***************************************************************************)
(* The knowledge base: uploads decide which texts are in it                 *)
(* (KnowledgeCorpus), each text is cut, embedded and found again            *)
(* (KnowledgeIndex).  They share no state: what the one makes a claim about *)
(* is a set of sections, what the other works on is one text at a time.     *)
(***************************************************************************)
EXTENDS KnowledgeCorpus, KnowledgeIndex

KnowledgeSpec == CorpusSpec /\ IndexSpec

\* The chunks of the knowledge base are those that uploads claim, each with the vector of
\* its own text, and retrieval takes a sound choice of them.
KnowledgeIsSound == IndexMatchesUploads /\ IndexIsSound
===============================================================================
