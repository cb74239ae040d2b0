------------------------- MODULE EmbeddingBatches --------------------------
(***************************************************************************)
(* How the embedders cut a list of texts into API calls. A text is the     *)
(* number of its tokens; a batch is a sequence of texts, a request of      *)
(* voyage-context-3 a sequence of segments, which are batches.             *)
(***************************************************************************)
EXTENDS Integers, Sequences, SequencesExt, FiniteSetsExt

TokensOf(batch) ==
    LET sum[i \in 0 .. Len(batch)] == IF i = 0 THEN 0 ELSE sum[i - 1] + batch[i]
    IN  sum[Len(batch)]

(* The loop the splitters share: an item that no longer fits closes the    *)
(* group under way; an empty group takes any item; the last group counts.  *)
SplitInto(items, Fits(_, _)) ==
    LET split[i \in 0 .. Len(items)] ==
            IF i = 0 THEN [full |-> <<>>, current |-> <<>>]
            ELSE IF split[i - 1].current = <<>> \/ Fits(split[i - 1].current, items[i])
            THEN [full    |-> split[i - 1].full,
                  current |-> Append(split[i - 1].current, items[i])]
            ELSE [full    |-> Append(split[i - 1].full, split[i - 1].current),
                  current |-> <<items[i]>>]
        done == split[Len(items)]
    IN  IF done.current = <<>> THEN done.full ELSE Append(done.full, done.current)

(* Mutant of SplitIntoBatches: the batch under way is not added at the end.*)
SplitIntoFullBatches(texts, budget) ==
    Front(SplitInto(texts, LAMBDA batch, text : TokensOf(batch) + text <= budget))

SplitIntoBatches(texts, budget) ==
    SplitInto(texts, LAMBDA batch, text : TokensOf(batch) + text <= budget)

SplitContextSegments(texts, segmentBudget) == SplitIntoBatches(texts, segmentBudget)

SplitContextRequests(segments, tokenCap, maxInputs) ==
    SplitInto(segments, LAMBDA request, segment :
        /\ TokensOf(FlattenSeq(request)) + TokensOf(segment) <= tokenCap
        /\ Len(request) < maxInputs)

(* embed_documents_sie slices by number.                                   *)
SliceInto(texts, size) ==
    [k \in 1 .. (Len(texts) + size - 1) \div size |->
        SubSeq(texts, (k - 1) * size + 1, IF k * size < Len(texts) THEN k * size
                                          ELSE Len(texts))]
=============================================================================
