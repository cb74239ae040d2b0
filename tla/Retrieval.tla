----------------------------- MODULE Retrieval -----------------------------
(***************************************************************************)
(* Ranked lists of hits, best first, and what the server makes of them:    *)
(* fusion of a dense and a sparse list by reciprocal ranks.                *)
(* A score is the fraction num / den.                                      *)
(***************************************************************************)
EXTENDS Integers, Sequences, FiniteSets, SequencesExt

RRF_K == 60
CANDIDATES_MULTIPLIER == 2

(* 1-based rank of hit c, 0 if the list does not have it.                  *)
Position(c, hits) ==
    IF c \in Range(hits) THEN CHOOSE i \in DOMAIN hits : hits[i] = c ELSE 0

Top(hits, k) == SubSeq(hits, 1, IF k < Len(hits) THEN k ELSE Len(hits))

(* sum(1 / (rank + k)) over the lists that have the hit.                   *)
RrfScore(c, dense, sparse) ==
    LET d == Position(c, dense)
        s == Position(c, sparse)
    IN  [num |-> IF d = 0 \/ s = 0 THEN 1 ELSE 2 * RRF_K + d + s,
         den |-> (IF d = 0 THEN 1 ELSE RRF_K + d) * (IF s = 0 THEN 1 ELSE RRF_K + s)]

Above(x, y) == x.num * y.den > y.num * x.den

FirstSeen(dense, sparse) == dense \o SelectSeq(sparse, LAMBDA c : c \notin Range(dense))

(* Ties keep the order in which the hits were first seen.                  *)
RrfFuse(dense, sparse, k) ==
    LET seen == FirstSeen(dense, sparse)
        score == [c \in Range(seen) |-> RrfScore(c, dense, sparse)]
        Before(c, d) == \/ Above(score[c], score[d])
                        \/ ~Above(score[d], score[c]) /\ Position(c, seen) < Position(d, seen)
    IN  Top(SetToSortSeq(Range(seen), Before), k)

(* The same fusion in SQL, which orders ties as it likes.                  *)
SqlFused(dense, sparse, k) ==
    {Top(list, k) : list \in
        {l \in SetToSeqs(Range(dense) \cup Range(sparse)) : \A i, j \in DOMAIN l :
            i < j => ~Above(RrfScore(l[j], dense, sparse), RrfScore(l[i], dense, sparse))}}
=============================================================================
