--------------------------- MODULE RunParameters ---------------------------
(***************************************************************************)
(* The combinations of a grid sweep (models/config.py expand_sweep) and    *)
(* the signature by which a resumed sweep recognises a completed one       *)
(* (core/pipeline/signatures.py). Fields that are the same for every       *)
(* combination of an experiment (database provider, top_k, data paths,     *)
(* queries file) are left out of both: they tell no two apart.             *)
(*                                                                         *)
(* A configuration is a record of the sets of values swept; a value listed *)
(* twice in the YAML is the same combination twice and is left out too.    *)
(***************************************************************************)
EXTENDS Integers

CONSTANT ProviderOf     \* model_registry.provider_for_model, as a function

RerankerTypes == {"reranker", "cross_encoder"}

(* The deprecated retrieval_method, _provider and _model of a retriever.   *)
LegacyRetrievalFields(retriever) ==
    IF retriever.type \in RerankerTypes
    THEN [method   |-> "dense",
          provider |-> IF retriever.provider = "none" THEN "local" ELSE retriever.provider,
          model    |-> retriever.model]
    ELSE [method |-> retriever.type, provider |-> "local", model |-> "none"]

RunParams(model, method, size, overlap, padding, retriever) ==
    LET legacy == LegacyRetrievalFields(retriever)
    IN  [embedding_provider |-> ProviderOf[model],
         embedding_model    |-> model,
         chunking_method    |-> method,
         chunk_size         |-> size,
         overlap            |-> overlap,
         padding            |-> padding,
         retriever          |-> retriever,
         retrieval_method   |-> legacy.method,
         retrieval_provider |-> legacy.provider,
         retrieval_model    |-> legacy.model]

(* paddings and retrievers fall back to one default value when empty.      *)
Paddings(config) == IF config.paddings = {} THEN {0} ELSE config.paddings

DenseRetriever == [type |-> "dense", provider |-> "none", model |-> "none"]

Retrievers(config) ==
    IF config.retrievers = {} THEN {DenseRetriever} ELSE config.retrievers

ExpandSweep(config) ==
    {RunParams(m, k, s, o, p, r) :
        m \in config.models, k \in config.methods, s \in config.chunk_sizes,
        o \in config.overlaps, p \in Paddings(config), r \in Retrievers(config)}

(* Mutant of ParamsSignature: the reranking model is left out.             *)
ParamsSignatureWithoutModel(params) ==
    <<params.embedding_provider, params.embedding_model,
      params.chunking_method, params.chunk_size, params.overlap,
      params.retrieval_method, params.retrieval_provider>>

(* _params_signature; _run_doc_signature reads the same fields back from   *)
(* the run_status row that _run_single wrote from these parameters.        *)
ParamsSignature(params) ==
    <<params.embedding_provider, params.embedding_model,
      params.chunking_method, params.chunk_size, params.overlap,
      params.retrieval_method, params.retrieval_provider,
      params.retrieval_model>>
=============================================================================
