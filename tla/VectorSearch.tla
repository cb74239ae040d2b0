---------------------------- MODULE VectorSearch ----------------------------
(***************************************************************************)
(* The runs of a sweep that has passed its preflight: the workers of the   *)
(* sweep store the chunks of their runs in the vector store and query      *)
(* them, side by side, while the preflights of other experiments change    *)
(* the indexes. The chunks of all runs of all experiments share one        *)
(* collection, table or index: a run finds its own by the run_id in every  *)
(* query, and a chunk is the run's own by the run_id in its chunk_id.      *)
(* Run 0 of an experiment is one before it was resumed, or one that failed *)
(* to store all its chunks: any of them may be there, and nobody queries   *)
(* them any more.                                                          *)
(*                                                                         *)
(* A document's experiment_id and embedding_model follow from its run_id.  *)
(***************************************************************************)
EXTENDS SearchIndexes, Retrieval

CONSTANTS
    Workers,        \* numbers of the runs a sweep has under way at a time
    DenseOrder,     \* all chunks, nearest to the query first
    SparseOrder,    \* the chunks that have a word of the query, best first
    RerankOrder,    \* all chunks, by a reranker's score
    TopInitial, TopFinal

NChunks == Len(DenseOrder)
SPARSE_INDEX_RETRY_ATTEMPTS == 3
Runs == Experiments \X Workers

VARIABLES
    docs,           \* the chunk documents of the vector store
    run,            \* what each run does next
    params,         \* its model and retriever
    dense,          \* the dense hits of its query
    tries,          \* the sparse attempts of its query
    results         \* the hits stored for its query

runVars == <<docs, run, params, dense, tries, results>>
vars == <<indexVars, runVars>>

(* Mutant of ChunkId: without the run.                                     *)
ChunkIdOfIndex(r, c) == <<c>>

ChunkId(r, c) == <<r, c>>

Doc(r, c) == [id |-> ChunkId(r, c), run |-> r, chunk |-> c]
RunDocs(r) == {Doc(r, c) : c \in 1..NChunks}

SearchInit ==
    /\ Init
    /\ docs \in SUBSET UNION {RunDocs(<<e, 0>>) : e \in {x \in Experiments : at[x] = "queued"}}
    /\ run = [r \in Runs |-> "none"]
    /\ params = [r \in Runs |-> <<>>]
    /\ dense = [r \in Runs |-> <<>>]
    /\ tries = [r \in Runs |-> 0]
    /\ results = [r \in Runs |-> <<>>]

-----------------------------------------------------------------------------
(* insert_chunks. Elasticsearch takes the chunk_id for the document's id   *)
(* and overwrites, Postgres for the primary key and raises; MongoDB and    *)
(* Redis keep documents apart by a key that is unique anyway.              *)

Overwritten(r) == {d \in docs : backend = "elasticsearch" /\ d.id \in {f.id : f \in RunDocs(r)}}
Conflict(r) == backend = "postgres" /\ \E d \in docs, f \in RunDocs(r) : d.id = f.id

StoreChunks(r) ==
    /\ at[r[1]] = "running" /\ run[r] = "none"
    /\ \E model \in Models(r[1]), method \in config[r[1]].methods :
         /\ params' = [params EXCEPT ![r] = <<model, method>>]
         /\ \/ run' = [run EXCEPT ![r] = "failed"] /\ UNCHANGED docs
            \/ /\ Dimensions(model) \in SUPPORTED_DIMS /\ ~Conflict(r)
               /\ docs' = (docs \ Overwritten(r)) \cup RunDocs(r)
               /\ run' = [run EXCEPT ![r] = IF method = "sparse" THEN "sparse" ELSE "dense"]
    /\ UNCHANGED <<indexVars, dense, tries, results>>

-----------------------------------------------------------------------------
(* The query: each search has a filter of its own.                         *)

Model(r) == params[r][1]
Method(r) == params[r][2]

OfExperiment(r) == {d \in docs : d.run[1] = r[1]}
OfRun(r) == {d \in docs : d.run = r}

Ranked(found, order) ==
    SetToSortSeq({d \in found : d.chunk \in Range(order)},
                 LAMBDA d, f : Position(d.chunk, order) < Position(f.chunk, order))

(* The candidates in the reranker's order: the model scores chunks.        *)
Reranked(hits) ==
    IF hits = <<>> THEN <<>>
    ELSE Top(Ranked(Range(hits), RerankOrder), TopFinal)

(* Every list is cut to top_k_final, whatever search returned it.          *)
Finish(r, hits) ==
    /\ results' = [results EXCEPT ![r] = Top(hits, TopFinal)]
    /\ run' = [run EXCEPT ![r] = "complete"]
    /\ dense' = [dense EXCEPT ![r] = <<>>]
    /\ tries' = [tries EXCEPT ![r] = 0]

(* MongoDB: Atlas Search lags behind the inserts, and finds nothing by an  *)
(* index that is not there or not built.                                   *)
AtlasFinds(name, filtered) == IF index[name] = "ready" THEN SUBSET filtered ELSE {{}}

AtlasDense(r, k) ==
    {Top(Ranked(f, DenseOrder), k) : f \in AtlasFinds(IndexName(Model(r)), OfRun(r))}
AtlasSparse(r, k) ==
    {Top(Ranked(f, SparseOrder), k) : f \in AtlasFinds("text_search_index", OfRun(r))}

(* Redis: KNN takes twice as many candidates and returns a page of them.   *)
RedisDense(r, k) == Top(Top(Ranked(OfRun(r), DenseOrder), CANDIDATES_MULTIPLIER * k), k)
RedisSparse(r, k) == Top(Ranked(OfRun(r), SparseOrder), k)

ElasticDense(r, k) == Top(Ranked(OfRun(r), DenseOrder), k)
ElasticSparse(r, k) == Top(Ranked(OfRun(r), SparseOrder), k)

(* Postgres: one statement, whatever the method. pgvector scans its index  *)
(* until the filters have let k rows through (hnsw.iterative_scan).        *)
PostgresDense(r, k) == Top(Ranked(OfRun(r), DenseOrder), k)

(* Mutant of PostgresSparse: without the filter on run_id.                 *)
PostgresSparseOfExperiment(r, k) == Top(Ranked(OfExperiment(r), SparseOrder), k)

PostgresSparse(r, k) == Top(Ranked(OfRun(r), SparseOrder), k)

FullText(r, k) == Top(Ranked(OfRun(r), SparseOrder), k)
Semantic(r, k) == Top(Ranked(OfRun(r), DenseOrder), k)
PostgresHybrid(r, k) ==
    SqlFused(Semantic(r, CANDIDATES_MULTIPLIER * k), FullText(r, CANDIDATES_MULTIPLIER * k), k)

PostgresQuery(r) ==
    /\ backend = "postgres" /\ run[r] \in {"dense", "sparse"}
    /\ \E hits \in CASE Method(r) = "sparse" -> {PostgresSparse(r, TopInitial)}
                     [] Method(r) = "hybrid" -> PostgresHybrid(r, TopInitial)
                     [] OTHER -> {PostgresDense(r, TopInitial)} :
         Finish(r, IF Method(r) = "reranker" THEN Reranked(hits) ELSE hits)
    /\ UNCHANGED <<indexVars, docs, params>>

(* The other stores are asked once for either list, and fused here.        *)
DenseHits(r) ==
    CASE backend = "mongodb" -> AtlasDense(r, TopInitial)
      [] backend = "redis" -> {RedisDense(r, TopInitial)}
      [] OTHER -> {ElasticDense(r, TopInitial)}

SparseHits(r) ==
    CASE backend = "mongodb" -> AtlasSparse(r, TopInitial)
      [] backend = "redis" -> {RedisSparse(r, TopInitial)}
      [] OTHER -> {ElasticSparse(r, TopInitial)}

DenseSearch(r) ==
    /\ backend # "postgres" /\ run[r] = "dense"
    /\ \E hits \in DenseHits(r) :
         \/ Method(r) = "dense" /\ Finish(r, hits)
         \/ Method(r) = "reranker" /\ Finish(r, Reranked(hits))
         \/ /\ Method(r) = "hybrid"
            /\ dense' = [dense EXCEPT ![r] = hits]
            /\ run' = [run EXCEPT ![r] = "sparse"]
            /\ UNCHANGED <<tries, results>>
    /\ UNCHANGED <<indexVars, docs, params>>

(* On MongoDB no hits are taken for a lagging index and asked for again.   *)
SparseSearch(r) ==
    /\ backend # "postgres" /\ run[r] = "sparse"
    /\ \E hits \in SparseHits(r) :
         IF backend = "mongodb" /\ hits = <<>> /\ tries[r] < SPARSE_INDEX_RETRY_ATTEMPTS - 1
         THEN tries' = [tries EXCEPT ![r] = @ + 1] /\ UNCHANGED <<run, dense, results>>
         ELSE Finish(r, IF Method(r) = "hybrid" THEN RrfFuse(dense[r], hits, TopInitial) ELSE hits)
    /\ UNCHANGED <<indexVars, docs, params>>

(* An embedder or a store that raises fails the run.                       *)
FailRun(r) ==
    /\ run[r] \in {"dense", "sparse"}
    /\ run' = [run EXCEPT ![r] = "failed"]
    /\ dense' = [dense EXCEPT ![r] = <<>>]
    /\ tries' = [tries EXCEPT ![r] = 0]
    /\ UNCHANGED <<indexVars, docs, params, results>>

DeleteChunks(e) ==
    /\ at[e] = "ended"
    /\ docs' = {d \in docs : d.run[1] # e}
    /\ UNCHANGED <<indexVars, run, params, dense, tries, results>>

Run(r) == StoreChunks(r) \/ PostgresQuery(r) \/ DenseSearch(r) \/ SparseSearch(r) \/ FailRun(r)

(* The sweep ends when its workers have.                                   *)
EndRuns(e) ==
    /\ \A n \in Workers : run[<<e, n>>] \in {"complete", "failed"}
    /\ EndSweep(e)
    /\ run' = [r \in Runs |-> IF r[1] = e THEN "none" ELSE run[r]]
    /\ params' = [r \in Runs |-> IF r[1] = e THEN <<>> ELSE params[r]]
    /\ results' = [r \in Runs |-> IF r[1] = e THEN <<>> ELSE results[r]]
    /\ UNCHANGED <<docs, dense, tries>>

PreflightStep(e) == Preflight(e) /\ UNCHANGED runVars

Next ==
    \/ \E r \in Runs : Run(r)
    \/ \E e \in Experiments :
         \/ EndRuns(e) \/ DeleteChunks(e)
         \/ (Submit(e) \/ CallFails(e)) /\ UNCHANGED runVars
         \/ PreflightStep(e)
    \/ StartSweep /\ UNCHANGED runVars
    \/ Cluster /\ UNCHANGED runVars

Spec == SearchInit /\ [][Next]_vars /\ \A e \in Experiments : WF_vars(PreflightStep(e))

-----------------------------------------------------------------------------
(* What a query should find, told from its ranking of chunks alone.        *)

Precedes(order, c, d) ==
    c \in Range(order) /\ (d \in Range(order) => Position(c, order) < Position(d, order))

(* A query of this retriever may not return chunk d and leave out chunk c. *)
Better(method, c, d) ==
    CASE method = "dense" -> Precedes(DenseOrder, c, d)
      [] method = "sparse" -> Precedes(SparseOrder, c, d)
      [] method = "hybrid" -> Precedes(DenseOrder, c, d) /\ ~Precedes(SparseOrder, d, c)
      [] method = "reranker" ->
           Precedes(RerankOrder, c, d) /\ Position(c, DenseOrder) <= TopInitial

Wanted(method) ==
    LET matching == IF method = "sparse" THEN Len(SparseOrder) ELSE NChunks
    IN  CHOOSE n \in {matching, TopInitial, TopFinal} :
            n <= matching /\ n <= TopInitial /\ n <= TopFinal

(* The hits stored for a query (_run_single) are chunks of its own run,    *)
(* none of them twice, though other runs store the same chunks at the same *)
(* time, or have left them behind. They are as many as the run has and     *)
(* asks for, and no chunk of the run that ranks better is left out, except *)
(* on MongoDB, where an index may lag or be dropped.                       *)
SearchFindsTheRun ==
    [][\A r \in Runs :
         run[r] # "complete" /\ run'[r] = "complete" =>
             LET hits == results'[r]
                 chunks == {d.chunk : d \in Range(hits)}
             IN  /\ \A d \in Range(hits) : d.run = r
                 /\ Cardinality(chunks) = Len(hits)
                 /\ backend # "mongodb" =>
                      /\ Len(hits) = Wanted(Method(r))
                      /\ \A c \in (1..NChunks) \ chunks, d \in chunks : ~Better(Method(r), c, d)]_vars
=============================================================================
