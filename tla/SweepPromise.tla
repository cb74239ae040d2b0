---------------------------- MODULE SweepPromise ----------------------------
(***************************************************************************)
(* What a grid sweep promises the rest of the server, with no thread,      *)
(* queue, event or phase in it: every combination is launched at most      *)
(* once and settles once; the sweep gives one verdict, only when nothing   *)
(* it launched is live, and COMPLETE only when every combination has       *)
(* completed in this sweep or before it.                                   *)
(***************************************************************************)
CONSTANT Combos

VARIABLES
    before,     \* combinations an earlier sweep completed
    fate,       \* what has become of each combination
    verdict     \* "open" until the sweep returns a status

Fates == {"complete", "failed", "interrupted", "lost"}

Verdicts == {"complete", "partial", "failed", "cancelled", "paused", "raised"}

Init ==
    /\ before \in SUBSET Combos
    /\ fate = [c \in Combos |-> "waiting"]
    /\ verdict = "open"

(* A launch whose row cannot be inserted is lost at once.                  *)
Launch(c) ==
    /\ verdict = "open"
    /\ fate[c] = "waiting"
    /\ c \notin before
    /\ \E f \in {"live", "lost"} : fate' = [fate EXCEPT ![c] = f]
    /\ UNCHANGED <<before, verdict>>

Settle(c) ==
    /\ verdict = "open"
    /\ fate[c] = "live"
    /\ \E f \in Fates : fate' = [fate EXCEPT ![c] = f]
    /\ UNCHANGED <<before, verdict>>

Conclude ==
    /\ verdict = "open"
    /\ \A c \in Combos : fate[c] # "live"
    /\ verdict' \in Verdicts
    /\ verdict' = "complete" =>
          \A c \in Combos : c \in before \/ fate[c] = "complete"
    /\ UNCHANGED <<before, fate>>

Next == (\E c \in Combos : Launch(c) \/ Settle(c)) \/ Conclude

Spec == Init /\ [][Next]_<<before, fate, verdict>>
=============================================================================
