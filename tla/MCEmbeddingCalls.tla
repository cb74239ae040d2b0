-------------------------- MODULE MCEmbeddingCalls -------------------------
(* Workloads of every kind: calls that fill the token ceiling, small ones  *)
(* in a row, one above the ceiling and one above the context window.       *)
EXTENDS EmbeddingCalls

MCWorkloads ==
    {[kind |-> "voyage",  texts |-> <<5, 2>>],    [kind |-> "voyage",  texts |-> <<7, 1>>],
     [kind |-> "context", texts |-> <<1, 2, 1>>], [kind |-> "context", texts |-> <<4, 1>>],
     [kind |-> "query",   texts |-> <<1>>],       [kind |-> "sie",     texts |-> <<1, 1, 1>>],
     [kind |-> "local",   texts |-> <<1, 1>>]}
=============================================================================
