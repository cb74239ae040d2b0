--------------------------- MODULE EmbeddingCalls --------------------------
(***************************************************************************)
(* The runs of a sweep embed in threads of their own and share three       *)
(* things: the RateLimiter in front of every Voyage call, the semaphore in *)
(* front of every SIE call and torch's number of threads. A caller cuts    *)
(* its texts into calls, makes them in order, waits for the limiter,       *)
(* retries what may be retried, and looks for a cancel where the code does.*)
(*                                                                         *)
(* Time is a tick; the limiter's log keeps the age of each request instead *)
(* of its time. The limiter's lock is held from the check of a limit to    *)
(* the append, so that stretch is one step; it is released in a sleep.     *)
(***************************************************************************)
EXTENDS EmbeddingBatches, FiniteSets

CONSTANTS
    Callers,        \* threads that embed
    Workloads,      \* what they may be asked for: [kind, texts]
    Rpm, Tpm,       \* the limiter's ceilings, Tpm = 0 for none
    Window,         \* the minute, in ticks
    MaxRetries,     \* attempts at a Voyage call
    SieRetries,     \* attempts at a SIE call
    SieBatch,       \* texts of one SIE call
    SieSlots,       \* SIE calls at the same time
    ContextWindow, SegmentBudget, RequestCap, MaxInputs,  \* voyage-context-3
    TorchThreads,   \* what torch starts with
    ThreadBudget    \* _local_thread_budget, 0 without parallelism

AllKinds == {"voyage", "context", "query", "sie", "local"}

ASSUME WorkloadsAssumption ==
    Workloads \subseteq [kind : AllKinds, texts : Seq(Nat \ {0}) \ {<<>>}]
ASSUME LimitsAssumption ==
    /\ Rpm \in Nat \ {0} /\ Tpm \in Nat /\ Window \in Nat \ {0}
    /\ MaxRetries \in Nat \ {0} /\ SieRetries \in Nat \ {0}
    /\ SieBatch \in Nat \ {0} /\ SieSlots \in Nat \ {0}
ASSUME ThreadsAssumption ==
    IsFiniteSet(Callers) /\ TorchThreads \in Nat \ {0} /\ ThreadBudget \in Nat

VARIABLES
    plan,           \* [kind, texts, calls] of each caller
    pc,             \* where it stands
    call,           \* the number of the call it is at
    attempt,        \* and of the attempt at it
    nap,            \* ticks it still has to sleep
    embedded,       \* texts whose vectors it has
    log,            \* the limiter's deques: [age, tokens] of each request
    busy,           \* callers that hold the SIE semaphore
    torch,          \* torch.get_num_threads()
    previous,       \* what a local caller will set it to when it ends
    cancelled,      \* the sweep's cancel or pause event
    after           \* calls a caller has made since

data == <<plan, embedded>>
torchVars == <<torch, previous>>
vars == <<data, pc, call, attempt, nap, log, busy, torchVars, cancelled, after>>

-----------------------------------------------------------------------------
Budget == IF Tpm > 0 THEN Tpm ELSE 100000

ContextCalls(texts) ==
    LET requests == SplitContextRequests(
            SplitContextSegments(texts, SegmentBudget), RequestCap, MaxInputs)
    IN  [k \in DOMAIN requests |-> FlattenSeq(requests[k])]

CallsFor(kind, texts) ==
    CASE kind = "voyage"  -> SplitIntoBatches(texts, Budget)
      [] kind = "context" -> ContextCalls(texts)
      [] kind = "sie"     -> SliceInto(texts, SieBatch)
      [] OTHER            -> <<texts>>

(* _validate_context_chunk_sizes.                                          *)
TooLarge(work) ==
    work.kind = "context" /\ \E i \in DOMAIN work.texts : work.texts[i] > ContextWindow

Init ==
    /\ \E work \in [Callers -> Workloads] :
        /\ plan = [c \in Callers |-> [kind  |-> work[c].kind,
                                      texts |-> work[c].texts,
                                      calls |-> CallsFor(work[c].kind, work[c].texts)]]
        /\ pc = [c \in Callers |-> IF TooLarge(work[c]) THEN "raised" ELSE "check"]
    /\ call = [c \in Callers |-> 1]
    /\ attempt = [c \in Callers |-> 1]
    /\ nap = [c \in Callers |-> 0]
    /\ embedded = [c \in Callers |-> <<>>]
    /\ log = <<>>
    /\ busy = {}
    /\ torch = TorchThreads
    /\ previous = [c \in Callers |-> 0]
    /\ cancelled = FALSE
    /\ after = [c \in Callers |-> 0]

Batch(c) == plan[c].calls[call[c]]

Voyage(c) == plan[c].kind \in {"voyage", "context", "query"}

Goto(c, place) == pc' = [pc EXCEPT ![c] = place]

(* Mutant of Purged: a sleeper finds the deques as it left them.           *)
PurgedNever == log

Young == {i \in DOMAIN log : log[i].age <= Window}

(* _purge_window pops the head until it is young.                          *)
Purged == IF Young = {} THEN <<>> ELSE SubSeq(log, Min(Young), Len(log))

Tokens(requests) == TokensOf([i \in DOMAIN requests |-> requests[i].tokens])

SleepFor(requests) == Window - Head(requests).age + 1

-----------------------------------------------------------------------------
(* Documents look for a cancel before each call and each Voyage attempt.   *)
Check(c) ==
    /\ pc[c] = "check"
    /\ Goto(c, IF cancelled /\ plan[c].kind # "query" THEN "stopped"
               ELSE CASE plan[c].kind = "sie"   -> "slot"
                      [] plan[c].kind = "local" -> "enter"
                      [] OTHER                  -> "rpm")
    /\ UNCHANGED <<data, call, attempt, nap, log, busy, torchVars, cancelled, after>>

(* With room for the tokens, or nothing to wait for, the request is logged *)
(* and made; otherwise the thread sleeps without the lock.                 *)
PassTokens(c, requests) ==
    LET n == TokensOf(Batch(c))
    IN  IF Tpm = 0 \/ Tokens(requests) + n <= Tpm \/ requests = <<>>
        THEN /\ log' = Append(requests, [age |-> 0, tokens |-> n])
             /\ Goto(c, "calling")
             /\ UNCHANGED nap
        ELSE /\ log' = requests
             /\ Goto(c, "tpm")
             /\ nap' = [nap EXCEPT ![c] = SleepFor(requests)]

(* Mutant of WaitForRpm: a thread that has slept goes ahead.               *)
WaitForRpmOnce(c) ==
    /\ pc[c] = "rpm"
    /\ nap[c] = 0
    /\ IF Len(Purged) <= Rpm
       THEN PassTokens(c, Purged)
       ELSE /\ log' = Purged
            /\ nap' = [nap EXCEPT ![c] = SleepFor(Purged)]
            /\ UNCHANGED pc
    /\ UNCHANGED <<data, call, attempt, busy, torchVars, cancelled, after>>

WaitForRpm(c) ==
    /\ pc[c] = "rpm"
    /\ nap[c] = 0
    /\ IF Len(Purged) < Rpm
       THEN PassTokens(c, Purged)
       ELSE /\ log' = Purged
            /\ nap' = [nap EXCEPT ![c] = SleepFor(Purged)]
            /\ UNCHANGED pc
    /\ UNCHANGED <<data, call, attempt, busy, torchVars, cancelled, after>>

(* Mutant of WaitForTpm: a thread that has slept goes ahead.               *)
WaitForTpmOnce(c) ==
    /\ pc[c] = "tpm"
    /\ nap[c] = 0
    /\ log' = Append(Purged, [age |-> 0, tokens |-> TokensOf(Batch(c))])
    /\ Goto(c, "calling")
    /\ UNCHANGED <<data, call, attempt, nap, busy, torchVars, cancelled, after>>

(* The request limit is not looked at again after this sleep.              *)
WaitForTpm(c) ==
    /\ pc[c] = "tpm"
    /\ nap[c] = 0
    /\ PassTokens(c, Purged)
    /\ UNCHANGED <<data, call, attempt, busy, torchVars, cancelled, after>>

TakeSlot(c) ==
    /\ pc[c] = "slot"
    /\ Cardinality(busy) < SieSlots
    /\ busy' = busy \cup {c}
    /\ Goto(c, "calling")
    /\ UNCHANGED <<data, call, attempt, nap, log, torchVars, cancelled, after>>

(* Mutant of EnterPool: what is found is restored, whatever it is.         *)
EnterPoolAlways(c) ==
    /\ pc[c] = "enter"
    /\ previous' = [previous EXCEPT ![c] = IF ThreadBudget = 0 THEN 0 ELSE torch]
    /\ Goto(c, IF ThreadBudget = 0 THEN "calling" ELSE "limit")
    /\ UNCHANGED <<data, call, attempt, nap, log, busy, torch, cancelled, after>>

(* _limited_thread_pool reads the number of threads, then sets it; with    *)
(* the budget in force already it neither sets nor restores.               *)
EnterPool(c) ==
    /\ pc[c] = "enter"
    /\ previous' = [previous EXCEPT ![c] = IF ThreadBudget \in {0, torch} THEN 0 ELSE torch]
    /\ Goto(c, IF ThreadBudget \in {0, torch} THEN "calling" ELSE "limit")
    /\ UNCHANGED <<data, call, attempt, nap, log, busy, torch, cancelled, after>>

LimitThreads(c) ==
    /\ pc[c] = "limit"
    /\ torch' = ThreadBudget
    /\ Goto(c, "calling")
    /\ UNCHANGED <<data, call, attempt, nap, log, busy, previous, cancelled, after>>

(* The answer; the semaphore is released before a retry sleeps, and the    *)
(* threads are restored whatever the answer.                               *)
Answered(c) ==
    /\ pc[c] = "calling"
    /\ busy' = busy \ {c}
    /\ torch' = IF previous[c] > 0 THEN previous[c] ELSE torch
    /\ previous' = [previous EXCEPT ![c] = 0]
    /\ after' = [after EXCEPT ![c] = IF cancelled THEN @ + 1 ELSE @]
    /\ UNCHANGED <<plan, log, cancelled>>

CallOk(c) ==
    /\ Answered(c)
    /\ embedded' = [embedded EXCEPT ![c] = @ \o Batch(c)]
    /\ call' = [call EXCEPT ![c] = @ + 1]
    /\ attempt' = [attempt EXCEPT ![c] = 1]
    /\ Goto(c, IF call[c] = Len(plan[c].calls) THEN "done" ELSE "check")
    /\ UNCHANGED nap

(* Mutant of CallAgain: the cancel check is made once for all attempts.    *)
CallAgainUnchecked(c) ==
    /\ Answered(c)
    /\ Voyage(c) /\ attempt[c] < MaxRetries
    /\ attempt' = [attempt EXCEPT ![c] = @ + 1]
    /\ Goto(c, "rpm")
    /\ UNCHANGED <<call, embedded, nap>>

(* A 429. The pauses double; the cancel check and the limiter are passed   *)
(* again.                                                                  *)
CallAgain(c) ==
    /\ Answered(c)
    /\ Voyage(c) /\ attempt[c] < MaxRetries
    /\ attempt' = [attempt EXCEPT ![c] = @ + 1]
    /\ nap' = [nap EXCEPT ![c] = 2 ^ (attempt[c] - 1)]
    /\ Goto(c, "backoff")
    /\ UNCHANGED <<call, embedded>>

(* What SIE counts as transient is retried after a sleep; nothing looks    *)
(* for a cancel in between. The sleep is the time until it takes the slot. *)
SieAgain(c) ==
    /\ Answered(c)
    /\ plan[c].kind = "sie" /\ attempt[c] < SieRetries
    /\ attempt' = [attempt EXCEPT ![c] = @ + 1]
    /\ Goto(c, "slot")
    /\ UNCHANGED <<call, embedded, nap>>

(* The last attempt, or an error that is not retried.                      *)
CallRaises(c) ==
    /\ Answered(c)
    /\ Goto(c, "raised")
    /\ UNCHANGED <<embedded, call, attempt, nap>>

EndBackoff(c) ==
    /\ pc[c] = "backoff"
    /\ nap[c] = 0
    /\ Goto(c, "check")
    /\ UNCHANGED <<data, call, attempt, nap, log, busy, torchVars, cancelled, after>>

Cancel ==
    /\ ~cancelled
    /\ cancelled' = TRUE
    /\ UNCHANGED <<data, pc, call, attempt, nap, log, busy, torchVars, after>>

Older(age) == IF age > Window THEN age ELSE age + 1

Tick ==
    /\ \E c \in Callers : nap[c] > 0
    /\ nap' = [c \in Callers |-> IF nap[c] > 0 THEN nap[c] - 1 ELSE 0]
    /\ log' = [i \in DOMAIN log |-> [log[i] EXCEPT !.age = Older(@)]]
    /\ UNCHANGED <<data, pc, call, attempt, busy, torchVars, cancelled, after>>

Finished(c) == pc[c] \in {"done", "raised", "stopped"}

Thread(c) ==
    \/ Check(c) \/ WaitForRpm(c) \/ WaitForTpm(c)
    \/ TakeSlot(c) \/ EnterPool(c) \/ LimitThreads(c)
    \/ CallOk(c) \/ CallAgain(c) \/ SieAgain(c) \/ CallRaises(c) \/ EndBackoff(c)

Next == (\E c \in Callers : Thread(c)) \/ Cancel \/ Tick

Spec == Init /\ [][Next]_vars

(* Every thread is scheduled, also at the lock, and time goes on.          *)
FairSpec == Spec /\ WF_vars(Tick) /\ \A c \in Callers : SF_vars(Thread(c))

-----------------------------------------------------------------------------
(* The limiter keeps every minute under its token ceiling: the requests    *)
(* since any that is still in the window; a call that is larger than the   *)
(* ceiling by itself goes alone.                                           *)
TokensWithinLimit ==
    Tpm > 0 => \A i \in Young : \/ Tokens(SubSeq(log, i, Len(log))) <= Tpm
                                \/ i = Len(log)

(* It exceeds its request ceiling by at most one request of each other     *)
(* thread: those that slept on the token ceiling do not look again.        *)
RequestsWithinLimit == Cardinality(Young) < Rpm + Cardinality(Callers)

(* The vectors of a caller that is done are those of all its texts, in     *)
(* their order, however they were cut into calls and retried.              *)
EmbeddedInOrder ==
    \A c \in Callers : /\ IsPrefix(embedded[c], plan[c].texts)
                       /\ pc[c] = "done" => embedded[c] = plan[c].texts

(* A cancel stops a caller that looks for it after one more Voyage call,   *)
(* or after the remaining attempts of one SIE call.                        *)
CancelStopsCalls ==
    \A c \in Callers : plan[c].kind # "query" =>
        after[c] <= IF plan[c].kind = "sie" THEN SieRetries ELSE 1

(* Local embedding leaves torch with as many threads as it found, though   *)
(* each thread of a sweep saves and restores a number all of them change.  *)
ThreadsRestored ==
    (\A c \in Callers : previous[c] = 0) => torch = TorchThreads

(* Whatever is waited for comes: every caller ends.                        *)
CallersFinish == <>(\A c \in Callers : Finished(c))
=============================================================================
