--------------------------- MODULE MCVectorSearch ---------------------------
(* Instances of VectorSearch for TLC.                                      *)
EXTENDS VectorSearch

Config(engine, models, methods) == [engine |-> engine, models |-> models, methods |-> methods]

(* For the queries: on each store one config with all its search paths;    *)
(* splade-v3 has a width that no index, column or field has.               *)
MCQueries ==
    {Config("mongodb", {"all-MiniLM-L6-v2"}, {"dense", "hybrid"}),
     Config("mongodb", {"splade-v3"}, {"dense"}),
     Config("postgres", {"all-MiniLM-L6-v2", "splade-v3"}, {"dense", "sparse", "hybrid", "reranker"}),
     Config("redis", {"Qwen3-Embedding-8B"}, {"dense", "sparse", "hybrid"}),
     Config("elasticsearch", {"all-MiniLM-L6-v2"}, {"sparse", "hybrid", "reranker"})}

MCDenseOrder == <<3, 1, 4, 2>>
MCSparseOrder == <<2, 3>>
MCRerankOrder == <<4, 2, 3, 1>>

(* For the preflights: on MongoDB two configs with no index in common; on  *)
(* Elasticsearch one that needs a width it does not have.                  *)
MCPreflights ==
    {Config("mongodb", {"all-MiniLM-L6-v2"}, {"dense"}),
     Config("mongodb", {"bge-m3"}, {"hybrid"}),
     Config("postgres", {"all-MiniLM-L6-v2"}, {"dense"}),
     Config("redis", {"Qwen3-Embedding-8B"}, {"sparse"}),
     Config("elasticsearch", {"all-MiniLM-L6-v2"}, {"hybrid"}),
     Config("elasticsearch", {"splade-v3"}, {"dense"})}

MCOneChunk == <<1>>
=============================================================================
