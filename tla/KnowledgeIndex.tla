----------------------------- MODULE KnowledgeIndex -----------------------------
(***************************************************************************)
(* From a text to the references of a section (engine/rag,                  *)
(* providers/embedding, repositories): the text is cut into overlapping     *)
(* pieces at the ends of sentences, the pieces are embedded in batches, and *)
(* a query takes the best few of the stored pieces.                         *)
(***************************************************************************)
EXTENDS Integers, Sequences, FiniteSets

CONSTANTS
  MinChars, MaxChars, OverlapChars,  \* SectionChunker
  MaxLength,        \* bound: characters of a text
  BatchSize,        \* EMBEDDING_BATCH_SIZE
  ChunkSources,     \* document versions with chunks
  PoolSize,         \* MAX_VECTOR_CANDIDATES
  MaxPerSource,     \* MAX_CHUNKS_PER_SOURCE
  TopK,             \* query.top_k
  MaxCandidates     \* bound: chunks similar enough to a query

\* The defaults (400, 1000, 100) are such, and so are those of _table_pieces for rows of two
\* characters or more beside the heading; without the last inequality the last piece may be
\* too short.
ASSUME IndexAssumption ==
  /\ MinChars \in Nat \ {0} /\ MaxChars \in Nat /\ OverlapChars \in Nat
  /\ MinChars <= MaxChars /\ OverlapChars < MinChars
  /\ 2 * MinChars <= MaxChars + OverlapChars
  /\ {MaxLength, BatchSize, PoolSize, MaxPerSource, TopK, MaxCandidates} \subseteq Nat \ {0}

VARIABLES
  indexing,   \* what is being done: split, embed, search, or done
  passage,    \* the text: its length and the places behind "。", "；" and line ends
  ranges,     \* the ranges so far
  vectors,    \* the vectors so far: which text each was made of
  search      \* candidates looked at, in the order of their scores, and those selected

indexVars == <<indexing, passage, ranges, vectors, search>>

LastOf(S) == CHOOSE n \in S : \A k \in S : k <= n
Least(a, b) == IF a < b THEN a ELSE b
Greatest(a, b) == IF a < b THEN b ELSE a

-------------------------------------------------------------------------------
(* _split_ranges *)

IndexInit ==
  /\ \E n \in 1 .. MaxLength : \E b \in SUBSET (1 .. n) : passage = [length |-> n, ends |-> b]
  /\ indexing = "split" /\ ranges = <<>> /\ vectors = <<>>
  /\ search = [looked |-> 0, selected |-> <<>>]

Start == IF ranges = <<>> THEN 0
         ELSE LET last == ranges[Len(ranges)]
              IN Greatest(last.to - OverlapChars, last.from + 1)

\* Not the code: the end of a piece does not leave room for the piece after it.
EndAtSentence(from) ==
  LET full == Least(from + MaxChars, passage.length)
      ends == {e \in passage.ends : from + MinChars < e /\ e <= full}
  IN IF full = passage.length \/ ends = {} THEN full ELSE LastOf(ends)

\* The piece ends early enough for the next one to have MinChars, and behind the last
\* sentence that leaves it MinChars itself.
End(from) ==
  LET full == Least(from + MaxChars, passage.length)
      room == passage.length + OverlapChars - MinChars
      to   == IF from + MinChars < room /\ room < full THEN room ELSE full
      ends == {e \in passage.ends : from + MinChars < e /\ e <= to}
  IN IF full = passage.length THEN full ELSE IF ends = {} THEN to ELSE LastOf(ends)

SplitPassage ==
  /\ indexing = "split"
  /\ ranges' = IF passage.length <= MaxChars THEN <<[from |-> 0, to |-> passage.length]>>
               ELSE Append(ranges, [from |-> Start, to |-> End(Start)])
  /\ indexing' = IF ranges'[Len(ranges')].to = passage.length THEN "embed" ELSE "split"
  /\ UNCHANGED <<passage, vectors, search>>

-------------------------------------------------------------------------------
(* OpenAICompatibleEmbeddingProvider.embed *)

Batch == Least(BatchSize, Len(ranges) - Len(vectors))

\* Not the code: the vectors are taken in the order of the response.
InResponseOrder(response) == [i \in DOMAIN response |-> response[i].text]

\* sorted(data, key=index)
InRequestOrder(response) ==
  [i \in DOMAIN response |->
     (CHOOSE item \in {response[j] : j \in DOMAIN response} : item.index = i).text]

\* A response is refused unless each index of the batch is there once; the service says
\* of each vector which text of the batch it belongs to.
EmbedBatch ==
  /\ indexing = "embed" /\ Len(vectors) < Len(ranges)
  /\ \E order \in [1 .. Batch -> 1 .. Batch] :
       IF {order[i] : i \in 1 .. Batch} = 1 .. Batch
       THEN LET response == [i \in 1 .. Batch |-> [index |-> order[i], text |-> Len(vectors) + order[i]]]
            IN vectors' = vectors \o InRequestOrder(response) /\ UNCHANGED indexing
       ELSE indexing' = "failed" /\ UNCHANGED vectors
  /\ UNCHANGED <<passage, ranges, search>>

\* KnowledgeIndexer.index adds the chunks; a query comes later and sees stored ones.
StoreChunks ==
  /\ indexing = "embed" /\ Len(vectors) = Len(ranges)
  /\ indexing' = "search"
  /\ passage' = [length |-> 0, ends |-> {}] /\ ranges' = <<>> /\ vectors' = <<>>
  /\ UNCHANGED search

-------------------------------------------------------------------------------
(* RagRetriever.retrieve *)

OfSource(s) == {i \in DOMAIN search.selected : search.selected[i].source = s}
Searching == indexing = "search" /\ search.looked < Least(PoolSize, MaxCandidates)
             /\ Len(search.selected) < TopK

\* The next best candidate is taken unless its source has had its share, or a selected
\* chunk of the same source is nearly the same.
SelectChunk ==
  /\ Searching
  /\ \E s \in ChunkSources, twins \in SUBSET DOMAIN search.selected :
       LET taken == Cardinality(OfSource(s)) < MaxPerSource /\ twins \cap OfSource(s) = {}
       IN search' = [looked   |-> search.looked + 1,
                     selected |-> IF taken THEN Append(search.selected,
                                    [rank |-> search.looked + 1, source |-> s, twins |-> twins])
                                  ELSE search.selected]
  /\ UNCHANGED <<indexing, passage, ranges, vectors>>

\* No more candidates, or enough: what is left is outside_top_k.
EndSearch ==
  /\ indexing = "search"
  /\ indexing' = "done"
  /\ UNCHANGED <<passage, ranges, vectors, search>>

IndexNext == SplitPassage \/ EmbedBatch \/ StoreChunks \/ SelectChunk \/ EndSearch

IndexSpec == IndexInit /\ [][IndexNext]_indexVars

-------------------------------------------------------------------------------
(* Properties *)

\* _split_ranges: when it ends, every character is in a piece, neighbours share at most
\* the overlap, no piece is too long, and in a text that is cut none is too short, the
\* last one included.
PiecesCoverText ==
  indexing = "embed" =>
    /\ ranges[1].from = 0 /\ ranges[Len(ranges)].to = passage.length
    /\ \A i \in DOMAIN ranges : ranges[i].to - ranges[i].from <= MaxChars
    /\ Len(ranges) > 1 => \A i \in DOMAIN ranges :
         /\ ranges[i].to - ranges[i].from >= MinChars
         /\ i > 1 => ranges[i].from <= ranges[i - 1].to
                     /\ ranges[i - 1].to - ranges[i].from <= OverlapChars

\* embed: each piece is stored with the vector of its own text, in whatever order the
\* service answers and wherever the batches end.
VectorsMatchTexts == \A i \in DOMAIN vectors : vectors[i] = i

\* retrieve: at most TopK references from the PoolSize best, in the order of their scores,
\* at most MaxPerSource of a source and no two near copies among these.
ReferencesAreDiverse ==
  /\ Len(search.selected) <= TopK
  /\ \A i, j \in DOMAIN search.selected :
       LET a == search.selected[i]  b == search.selected[j] IN
       /\ a.rank <= PoolSize
       /\ i < j => a.rank < b.rank /\ ~(a.source = b.source /\ i \in b.twins)
       /\ Cardinality(OfSource(a.source)) <= MaxPerSource

IndexIsSound == PiecesCoverText /\ VectorsMatchTexts /\ ReferencesAreDiverse
===============================================================================
