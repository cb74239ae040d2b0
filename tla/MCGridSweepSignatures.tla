----------------------- MODULE MCGridSweepSignatures -----------------------
(* A resumed sweep over the combinations of a real configuration, with the *)
(* signatures signatures.py gives them.                                    *)
EXTENDS GridSweep

Provider == [minilm |-> "local"]

Params == INSTANCE RunParameters WITH ProviderOf <- Provider

Dense == [type |-> "dense", provider |-> "none", model |-> "none"]

Reranker == [type |-> "reranker", provider |-> "local", model |-> "bge"]

Config ==
    [models |-> {"minilm"}, methods |-> {"fixed"}, chunk_sizes |-> {256},
     overlaps |-> {0},
     paddings |-> {0},
     retrievers |-> {Dense, Reranker}]

SweptCombos == Params!ExpandSweep(Config)

SweptSignature == [c \in SweptCombos |-> Params!ParamsSignature(c)]
=============================================================================
