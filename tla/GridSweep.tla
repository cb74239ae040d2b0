----------------------------- MODULE GridSweep -----------------------------
(***************************************************************************)
(* One grid sweep of one experiment, from the moment schedule_sweep has    *)
(* put it on SWEEP_EXECUTOR until its control is unregistered, as          *)
(* server/core/pipeline/orchestrator.py runs it:                           *)
(*                                                                         *)
(*   - the scheduler is the sweep thread in _run_sweep_inner; pc is where  *)
(*     it stands;                                                          *)
(*   - a worker is one _run_single on the sweep's own ThreadPoolExecutor;  *)
(*     at[c] is where the worker of combination c stands, row[c] the phase *)
(*     its run_status row shows in the database;                           *)
(*   - the cancel and pause handlers of api/experiments.py run beside      *)
(*     them: they read the experiment, set a threading.Event, and write    *)
(*     the status, with an await between any two of these.                 *)
(*                                                                         *)
(* The order in which combinations are taken from the iterator and from    *)
(* the pool's queue is left open, so what is shown holds for every order.  *)
(***************************************************************************)
EXTENDS ExperimentStatuses, FiniteSets

CONSTANTS
    Combos,         \* the parameter combinations expand_sweep yields
    MaxWorkers,     \* execution.parallelism
    NumQueries,     \* number of queries in the golden file
    OnError,        \* execution.on_error
    Signature,      \* the signature _params_signature gives a combination
    Resuming,       \* TRUE for resume_sweep, FALSE for run_sweep
    Requests,       \* which of "cancel" and "pause" a client may send
    StorageFaults   \* whether a run-state write may raise

ASSUME CombosAssumption == IsFiniteSet(Combos)
ASSUME WorkersAssumption == MaxWorkers \in Nat \ {0}
ASSUME QueriesAssumption == NumQueries \in Nat
ASSUME OnErrorAssumption == OnError \in {"continue", "stop"}
ASSUME FlagsAssumption == Resuming \in BOOLEAN /\ StorageFaults \in BOOLEAN

VARIABLES
    pc,                  \* where the sweep thread stands
    runIter,             \* combinations the scheduler has not taken yet
    futures,             \* combinations whose future it still holds
    cancelled,           \* the four local flags of _run_sweep_inner
    paused,
    stopAfterFailure,
    infrastructureError,
    result,              \* the status the sweep function returned
    at,                  \* where the worker of each combination stands
    outcome,             \* how the worker's future ended
    row,                 \* phase of the row this sweep made, "absent" before
    answered,            \* results rows the run has written
    stored,              \* whether the run's chunks are in the vector store
    prior,               \* row an earlier, paused sweep left behind
    status,              \* the experiment's status column
    cancelEvent,         \* _SweepControl.cancel.is_set()
    pauseEvent,          \* _SweepControl.pause.is_set()
    cancelRequest,       \* where the cancel handler stands
    pauseRequest,        \* where the pause handler stands
    lateEntries          \* history: phases a run entered after cancelEvent

flags     == <<cancelled, paused, stopAfterFailure, infrastructureError>>
scheduler == <<pc, runIter, futures, result>>
worker    == <<at, outcome, row, answered, stored, lateEntries>>
control   == <<cancelEvent, pauseEvent>>
clients   == <<cancelRequest, pauseRequest>>
vars      == <<scheduler, flags, worker, prior, status, control, clients>>

SchedulerPoints ==
    {"queued", "control", "preflight", "prime", "wait", "recheck", "refill",
     "finalise", "unregister", "over"}

WorkerPoints ==
    {"idle", "pooled", "checking", "entering", "working", "searching",
     "completing", "unwinding", "done", "lost"}

Outcomes == {"none", "ok", "cancelled", "paused", "sie", "error"}

Active(c) == at[c] \notin {"idle", "pooled", "done", "lost"}

(* Mutant of Ended: a future whose error was not recorded is never done.   *)
EndedOnRecord(c) == at[c] = "done"

Ended(c) == at[c] \in {"done", "lost"}

(* unregister_sweep_control is the last thing the sweep thread does.       *)
Registered == pc # "over"

(* The phase _run_single enters next, after a row's present one.           *)
NextPhase ==
    [queued |-> "parsing", parsing |-> "chunking", chunking |-> "embedding",
     embedding |-> "storing", storing |-> "querying"]

Init ==
    /\ pc = "queued"
    /\ runIter = Combos
    /\ futures = {}
    /\ result = "none"
    /\ cancelled = FALSE /\ paused = FALSE
    /\ stopAfterFailure = FALSE /\ infrastructureError = FALSE
    /\ at = [c \in Combos |-> "idle"]
    /\ outcome = [c \in Combos |-> "none"]
    /\ row = [c \in Combos |-> "absent"]
    /\ answered = [c \in Combos |-> 0]
    /\ stored = [c \in Combos |-> FALSE]
    /\ prior \in [Combos -> IF Resuming THEN TerminalPhases \cup {"none"}
                                        ELSE {"none"}]
    /\ status = "running"
    /\ cancelEvent = FALSE /\ pauseEvent = FALSE
    /\ cancelRequest = "none" /\ pauseRequest = "none"
    /\ lateEntries = [c \in Combos |-> 0]

-----------------------------------------------------------------------------
(* The sweep thread, before any run.                                       *)

Leave(res) ==
    /\ pc' = "unregister"
    /\ result' = res
    /\ UNCHANGED <<runIter, futures, flags, worker, prior, control, clients>>

(* A cancel that reached the database while the sweep was queued.          *)
CheckCancelledInDb ==
    /\ pc = "queued"
    /\ \/ /\ status = "cancelled"
          /\ Leave("cancelled")
       \/ /\ status # "cancelled"
          /\ pc' = "control"
          /\ UNCHANGED <<runIter, futures, result, flags, worker, prior,
                         control, clients>>
    /\ UNCHANGED status

(* Only ExperimentCancelledError is caught here; a pause leaves through    *)
(* _run_sweep_safe, which logs it.                                         *)
CheckBeforeStart ==
    /\ pc = "control"
    /\ \/ /\ cancelEvent
          /\ Leave("cancelled")
       \/ /\ ~cancelEvent /\ pauseEvent
          /\ Leave("raised")
       \/ /\ ~cancelEvent /\ ~pauseEvent
          /\ pc' = "preflight"
          /\ UNCHANGED <<runIter, futures, result, flags, worker, prior,
                         control, clients>>
    /\ UNCHANGED status

(* Index or SIE validation raises: _fail_experiment_preflight.             *)
PreflightFails ==
    /\ pc = "preflight"
    /\ status' = "failed"
    /\ Leave("failed")

(* The read of the status raises, or a validation or the write of its      *)
(* failure raises something that _execute_sweep does not catch.            *)
StartRaises ==
    /\ StorageFaults
    /\ pc \in {"queued", "preflight"}
    /\ Leave("raised")
    /\ UNCHANGED status

(* Mutant of Skipped: a resumed sweep starts from the beginning.           *)
NothingSkipped == {}

(* Combinations whose signature some completed row already has.            *)
Skipped == {c \in Combos :
              \E d \in Combos : prior[d] = "complete" /\ Signature[d] = Signature[c]}

PreflightPasses ==
    /\ pc = "preflight"
    /\ pc' = "prime"
    /\ runIter' = Combos \ Skipped
    /\ UNCHANGED <<futures, result, flags, worker, prior, status, control,
                   clients>>

-----------------------------------------------------------------------------
(* _submit_next and the two loops that call it.                            *)

Submitted == {c \in Combos : at[c] # "idle"}

(* The first loop calls _submit_next at most max_workers times, the        *)
(* refill loop until it returns False.                                     *)
MayCallSubmit ==
    \/ pc = "prime" /\ Cardinality(Submitted) < MaxWorkers
    \/ pc = "refill"

(* Mutant of Submit: the iterator does not advance.                        *)
SubmitWithoutAdvancing(c) ==
    /\ MayCallSubmit
    /\ ~stopAfterFailure
    /\ c \in runIter
    /\ ~cancelEvent /\ ~pauseEvent
    /\ futures' = futures \cup {c}
    /\ at' = [at EXCEPT ![c] = "pooled"]
    /\ UNCHANGED <<pc, runIter, result, flags, outcome, row, answered, stored,
                   lateEntries, prior, status, control, clients>>

Submit(c) ==
    /\ MayCallSubmit
    /\ ~stopAfterFailure
    /\ c \in runIter
    /\ ~cancelEvent /\ ~pauseEvent
    /\ runIter' = runIter \ {c}
    /\ futures' = futures \cup {c}
    /\ at' = [at EXCEPT ![c] = "pooled"]
    /\ UNCHANGED <<pc, result, flags, outcome, row, answered, stored,
                   lateEntries, prior, status, control, clients>>

(* The combination has been taken from the iterator when the check raises. *)
SubmitSeesSignal(c) ==
    /\ MayCallSubmit
    /\ ~stopAfterFailure
    /\ c \in runIter
    /\ cancelEvent \/ pauseEvent
    /\ runIter' = runIter \ {c}
    /\ cancelled' = (cancelled \/ cancelEvent)
    /\ paused' = (paused \/ ~cancelEvent)
    /\ stopAfterFailure' = TRUE
    /\ pc' = "wait"
    /\ UNCHANGED <<futures, result, infrastructureError, worker, prior,
                   status, control, clients>>

(* Writing started_at before the first submission raises.                  *)
FirstSubmitRaises ==
    /\ StorageFaults
    /\ pc = "prime"
    /\ Submitted = {} /\ runIter # {} /\ ~stopAfterFailure
    /\ ~cancelEvent /\ ~pauseEvent
    /\ Leave("raised")
    /\ UNCHANGED status

SubmitNothing ==
    /\ pc \in {"prime", "refill"}
    /\ \/ stopAfterFailure
       \/ runIter = {}
       \/ pc = "prime" /\ Cardinality(Submitted) >= MaxWorkers
    /\ pc' = "wait"
    /\ UNCHANGED <<runIter, futures, result, flags, worker, prior, status,
                   control, clients>>

-----------------------------------------------------------------------------
(* wait(FIRST_COMPLETED), the outcomes of the futures it returned, and the *)
(* control check before the refill. The flags are the thread's own, so the *)
(* loop over done is one step.                                             *)

(* Mutant of HandleDone: on_error = stop is not looked at.                 *)
HandleDoneAlwaysContinues ==
    LET done == {c \in futures : Ended(c)}
        some(o) == \E c \in done : outcome[c] = o
    IN  /\ pc = "wait"
        /\ done # {}
        /\ futures' = futures \ done
        /\ cancelled' = (cancelled \/ some("cancelled"))
        /\ paused' = (paused \/ some("paused"))
        /\ infrastructureError' = (infrastructureError \/ some("sie"))
        /\ stopAfterFailure' = \/ stopAfterFailure
                               \/ some("sie")
                               \/ cancelled' \/ paused'
        /\ pc' = IF stopAfterFailure' THEN "wait" ELSE "recheck"
        /\ UNCHANGED <<runIter, result, worker, prior, status, control,
                       clients>>

HandleDone ==
    LET done == {c \in futures : Ended(c)}
        some(o) == \E c \in done : outcome[c] = o
    IN  /\ pc = "wait"
        /\ done # {}
        /\ futures' = futures \ done
        /\ cancelled' = (cancelled \/ some("cancelled"))
        /\ paused' = (paused \/ some("paused"))
        /\ infrastructureError' = (infrastructureError \/ some("sie"))
        /\ stopAfterFailure' = \/ stopAfterFailure
                               \/ some("sie")
                               \/ some("error") /\ OnError = "stop"
                               \/ cancelled' \/ paused'
        /\ pc' = IF stopAfterFailure' THEN "wait" ELSE "recheck"
        /\ UNCHANGED <<runIter, result, worker, prior, status, control,
                       clients>>

(* Mutant of AllHandled: a stopped scheduler does not drain its futures.   *)
AllHandledOrStopped ==
    /\ pc = "wait"
    /\ futures = {} \/ stopAfterFailure
    /\ pc' = "finalise"
    /\ UNCHANGED <<runIter, futures, result, flags, worker, prior, status,
                   control, clients>>

AllHandled ==
    /\ pc = "wait"
    /\ futures = {}
    /\ pc' = "finalise"
    /\ UNCHANGED <<runIter, futures, result, flags, worker, prior, status,
                   control, clients>>

Recheck ==
    /\ pc = "recheck"
    /\ cancelled' = (cancelled \/ cancelEvent)
    /\ paused' = (paused \/ (~cancelEvent /\ pauseEvent))
    /\ stopAfterFailure' = (stopAfterFailure \/ cancelEvent \/ pauseEvent)
    /\ pc' = IF stopAfterFailure' THEN "wait" ELSE "refill"
    /\ UNCHANGED <<runIter, futures, result, infrastructureError, worker,
                   prior, status, control, clients>>

-----------------------------------------------------------------------------
(* The verdict: flags first, then the rows, then an infrastructure error.  *)

(* Rows of the experiment in one of these phases, of both sweeps.          *)
Rows(phases) == Cardinality({c \in Combos : row[c] \in phases})
                  + Cardinality({c \in Combos : prior[c] \in phases})

(* Mutant of Verdict: an SIE outage counts as ordinary failures.           *)
VerdictFromRowsOnly ==
    IF cancelled THEN "cancelled"
    ELSE IF paused THEN "paused"
    ELSE ComputeFinalStatus(Cardinality(Combos),
                            Rows({"complete"}), Rows({"failed"}))

Verdict ==
    IF cancelled THEN "cancelled"
    ELSE IF paused THEN "paused"
    ELSE IF infrastructureError THEN "failed"
    ELSE ComputeFinalStatus(Cardinality(Combos),
                            Rows({"complete"}), Rows({"failed"}))

(* One unconditional update_experiment, whatever the status is by now.     *)
Finalise ==
    /\ pc = "finalise"
    /\ status' = Verdict
    /\ Leave(Verdict)

(* A read or the write raises, or the summary logged after the write.      *)
FinaliseRaises ==
    /\ StorageFaults
    /\ pc = "finalise"
    /\ status' \in {status, Verdict}
    /\ Leave("raised")

Unregister ==
    /\ pc = "unregister"
    /\ pc' = "over"
    /\ UNCHANGED <<runIter, futures, result, flags, worker, prior, status,
                   control, clients>>

Scheduler ==
    \/ CheckCancelledInDb \/ CheckBeforeStart
    \/ PreflightFails \/ StartRaises \/ PreflightPasses
    \/ \E c \in Combos : Submit(c) \/ SubmitSeesSignal(c)
    \/ FirstSubmitRaises \/ SubmitNothing
    \/ HandleDone \/ AllHandled \/ Recheck
    \/ Finalise \/ FinaliseRaises \/ Unregister

-----------------------------------------------------------------------------
(* _run_single, on a thread of the sweep's pool.                           *)

FreeWorker == Cardinality({c \in Combos : Active(c)}) < MaxWorkers

WorkerOnly == UNCHANGED <<scheduler, flags, prior, status, control, clients>>

End(c, o, where) ==
    /\ at' = [at EXCEPT ![c] = where]
    /\ outcome' = [outcome EXCEPT ![c] = o]

(* insert_run_status: outside the try block, so if it raises there is no   *)
(* row and no failure is recorded.                                         *)
Start(c) ==
    /\ at[c] = "pooled"
    /\ FreeWorker
    /\ \/ /\ at' = [at EXCEPT ![c] = "checking"]
          /\ row' = [row EXCEPT ![c] = "queued"]
          /\ UNCHANGED outcome
       \/ /\ StorageFaults
          /\ End(c, "error", "done")
          /\ UNCHANGED row
    /\ UNCHANGED <<answered, stored, lateEntries>>
    /\ WorkerOnly

(* check_control before a phase, and before each query.                    *)
CheckControl(c) ==
    /\ at[c] = "checking"
    /\ \/ cancelEvent /\ End(c, "cancelled", "unwinding")
       \/ ~cancelEvent /\ pauseEvent /\ End(c, "paused", "unwinding")
       \/ /\ ~cancelEvent /\ ~pauseEvent
          /\ at' = [at EXCEPT ![c] = IF row[c] \in DOMAIN NextPhase
                                     THEN "entering" ELSE "searching"]
          /\ UNCHANGED outcome
    /\ UNCHANGED <<row, answered, stored, lateEntries>>
    /\ WorkerOnly

(* _update_phase to a working phase p.                                     *)
WritePhase(c, p) ==
    /\ row' = [row EXCEPT ![c] = p]
    /\ lateEntries' = [lateEntries EXCEPT ![c] = @ + (IF cancelEvent THEN 1 ELSE 0)]

(* Mutant of EnterPhase: the last query is not asked.                      *)
EnterPhaseOffByOne(c) ==
    /\ at[c] = "entering"
    /\ WritePhase(c, NextPhase[row[c]])
    /\ at' = [at EXCEPT ![c] =
                IF row'[c] # "querying" THEN "working"
                ELSE IF NumQueries > 1 THEN "checking" ELSE "completing"]
    /\ UNCHANGED <<outcome, answered, stored>>
    /\ WorkerOnly

(* Entering QUERYING loads the queries and goes straight to the loop.      *)
EnterPhase(c) ==
    /\ at[c] = "entering"
    /\ WritePhase(c, NextPhase[row[c]])
    /\ at' = [at EXCEPT ![c] =
                IF row'[c] # "querying" THEN "working"
                ELSE IF NumQueries > 0 THEN "checking" ELSE "completing"]
    /\ UNCHANGED <<outcome, answered, stored>>
    /\ WorkerOnly

(* Mutant of FinishPhase: no control check between two phases.             *)
FinishPhaseUnchecked(c) ==
    /\ at[c] = "working"
    /\ at' = [at EXCEPT ![c] = "entering"]
    /\ stored' = [stored EXCEPT ![c] = @ \/ row[c] = "storing"]
    /\ UNCHANGED <<outcome, row, answered, lateEntries>>
    /\ WorkerOnly

(* Parse, chunk, embed or store returns.                                   *)
FinishPhase(c) ==
    /\ at[c] = "working"
    /\ at' = [at EXCEPT ![c] = "checking"]
    /\ stored' = [stored EXCEPT ![c] = @ \/ row[c] = "storing"]
    /\ UNCHANGED <<outcome, row, answered, lateEntries>>
    /\ WorkerOnly

(* A reranking retriever with dense candidates writes RERANKING first.     *)
Rerank(c) ==
    /\ at[c] = "searching"
    /\ row[c] = "querying"
    /\ WritePhase(c, "reranking")
    /\ UNCHANGED <<at, outcome, answered, stored>>
    /\ WorkerOnly

AnswerQuery(c) ==
    /\ at[c] = "searching"
    /\ answered' = [answered EXCEPT ![c] = @ + 1]
    /\ at' = [at EXCEPT ![c] =
                IF answered'[c] < NumQueries THEN "checking" ELSE "completing"]
    /\ UNCHANGED <<outcome, row, stored, lateEntries>>
    /\ WorkerOnly

(* No control check between the last query and COMPLETE.                   *)
Complete(c) ==
    /\ at[c] = "completing"
    /\ row' = [row EXCEPT ![c] = "complete"]
    /\ End(c, "ok", "done")
    /\ UNCHANGED <<answered, stored, lateEntries>>
    /\ WorkerOnly

(* The embedder calls check_control between its batches.                   *)
CheckWhileEmbedding(c) ==
    /\ at[c] = "working"
    /\ row[c] = "embedding"
    /\ cancelEvent \/ pauseEvent
    /\ End(c, IF cancelEvent THEN "cancelled" ELSE "paused", "unwinding")
    /\ UNCHANGED <<row, answered, stored, lateEntries>>
    /\ WorkerOnly

(* Any exception of the phase's work or of reading the queries,            *)
(* SIEUnavailableError from an embedding or a search, or a storage error   *)
(* of a phase write.                                                       *)
Raise(c) ==
    /\ \/ at[c] \in {"working", "searching"} /\ End(c, "error", "unwinding")
       \/ /\ at[c] \in {"checking", "completing"}
          /\ row[c] = "querying" /\ answered[c] = 0
          /\ End(c, "error", "unwinding")
       \/ /\ at[c] = "searching" \/ (at[c] = "working" /\ row[c] = "embedding")
          /\ End(c, "sie", "unwinding")
       \/ /\ StorageFaults /\ at[c] \in {"entering", "completing"}
          /\ End(c, "error", "unwinding")
    /\ UNCHANGED <<row, answered, stored, lateEntries>>
    /\ WorkerOnly

(* Mutant of Unwind: the outcome is written as if it were a phase.         *)
UnwindWithOutcome(c) ==
    /\ at[c] = "unwinding"
    /\ row' = [row EXCEPT ![c] = outcome[c]]
    /\ End(c, outcome[c], "done")
    /\ UNCHANGED <<answered, stored, lateEntries>>
    /\ WorkerOnly

(* The except clauses write the terminal phase and raise again; if that    *)
(* write raises, its error replaces the outcome and the row keeps its      *)
(* phase.                                                                  *)
Unwind(c) ==
    /\ at[c] = "unwinding"
    /\ \/ /\ row' = [row EXCEPT ![c] =
                       IF outcome[c] \in {"cancelled", "paused"}
                       THEN "interrupted" ELSE "failed"]
          /\ End(c, outcome[c], "done")
       \/ /\ StorageFaults
          /\ End(c, "error", "lost")
          /\ UNCHANGED row
    /\ UNCHANGED <<answered, stored, lateEntries>>
    /\ WorkerOnly

Worker(c) ==
    \/ Start(c) \/ CheckControl(c) \/ EnterPhase(c) \/ FinishPhase(c)
    \/ Rerank(c) \/ AnswerQuery(c) \/ Complete(c)
    \/ CheckWhileEmbedding(c) \/ Raise(c) \/ Unwind(c)

-----------------------------------------------------------------------------
(* One cancel and one pause request; the status read is what the handler   *)
(* decides on, and there is an await after each step.                      *)

RequestOnly == UNCHANGED <<scheduler, flags, worker, prior>>

CancelReads ==
    /\ "cancel" \in Requests
    /\ cancelRequest = "none"
    /\ status = "running"
    /\ cancelRequest' = "read"
    /\ UNCHANGED <<status, control, pauseRequest>>
    /\ RequestOnly

CancelSignals ==
    /\ cancelRequest = "read"
    /\ cancelRequest' = "signalled"
    /\ cancelEvent' = (cancelEvent \/ Registered)
    /\ UNCHANGED <<status, pauseEvent, pauseRequest>>
    /\ RequestOnly

CancelMarks ==
    /\ cancelRequest = "signalled"
    /\ cancelRequest' = "answered"
    /\ status' = "cancelled"
    /\ UNCHANGED <<control, pauseRequest>>
    /\ RequestOnly

PauseReads ==
    /\ "pause" \in Requests
    /\ pauseRequest = "none"
    /\ status = "running"
    /\ pauseRequest' = "read"
    /\ UNCHANGED <<status, control, cancelRequest>>
    /\ RequestOnly

(* Only a pause that found no control writes the status itself.            *)
PauseSignals ==
    /\ pauseRequest = "read"
    /\ pauseRequest' = IF Registered THEN "answered" ELSE "unsignalled"
    /\ pauseEvent' = (pauseEvent \/ Registered)
    /\ UNCHANGED <<status, cancelEvent, cancelRequest>>
    /\ RequestOnly

PauseMarks ==
    /\ pauseRequest = "unsignalled"
    /\ pauseRequest' = "answered"
    /\ status' = "paused"
    /\ UNCHANGED <<control, cancelRequest>>
    /\ RequestOnly

CancelHandler == CancelReads \/ CancelSignals \/ CancelMarks
PauseHandler == PauseReads \/ PauseSignals \/ PauseMarks

Next ==
    \/ Scheduler
    \/ \E c \in Combos : Worker(c)
    \/ CancelHandler
    \/ PauseHandler

Spec == Init /\ [][Next]_vars

(* The sweep thread and the pool's threads run until they finish, and a    *)
(* handler that has started answers. That a phase's work returns or raises *)
(* is what the timeouts of the providers give.                             *)
Fairness ==
    /\ WF_vars(Scheduler)
    /\ \A c \in Combos : WF_vars(Worker(c))
    /\ WF_vars(CancelSignals \/ CancelMarks)
    /\ WF_vars(PauseSignals \/ PauseMarks)

FairSpec == Spec /\ Fairness

-----------------------------------------------------------------------------
(* Types of all variables.                                                 *)
TypeOK ==
    /\ pc \in SchedulerPoints
    /\ runIter \subseteq Combos
    /\ futures \subseteq Combos
    /\ result \in ExperimentStatus \cup {"none", "raised"}
    /\ <<cancelled, paused, stopAfterFailure, infrastructureError>>
          \in BOOLEAN \X BOOLEAN \X BOOLEAN \X BOOLEAN
    /\ at \in [Combos -> WorkerPoints]
    /\ outcome \in [Combos -> Outcomes]
    /\ row \in [Combos -> Phases \cup {"absent"}]
    /\ answered \in [Combos -> Nat]
    /\ stored \in [Combos -> BOOLEAN]
    /\ prior \in [Combos -> TerminalPhases \cup {"none"}]
    /\ status \in ExperimentStatus
    /\ cancelEvent \in BOOLEAN /\ pauseEvent \in BOOLEAN
    /\ cancelRequest \in {"none", "read", "signalled", "answered"}
    /\ pauseRequest \in {"none", "read", "unsignalled", "answered"}
    /\ lateEntries \in [Combos -> Nat]

(* When the sweep gives its verdict nothing it started still runs, and     *)
(* every row it made is terminal, unless the write of the terminal phase   *)
(* itself raised (_run_single's except clauses, _run_sweep_inner's drain). *)
NoRunLeftBehind ==
    pc \in {"finalise", "unregister", "over"} =>
        \A c \in Combos :
            /\ at[c] \in {"idle", "done", "lost"}
            /\ row[c] \in TerminalPhases \cup {"absent"} \/ at[c] = "lost"

(* Cancel is cooperative: once the event is set a run may finish the step  *)
(* it is about to take, but it enters at most one more phase before a      *)
(* check_control stops it.                                                 *)
OnePhaseAfterCancel == \A c \in Combos : lateEntries[c] <= 1

(* A row that says COMPLETE has its chunks stored and one results row per  *)
(* query, so an analysis of the run never works on half of it.             *)
CompleteRunsHaveData ==
    \A c \in Combos :
        row[c] = "complete" => stored[c] /\ answered[c] = NumQueries

(* A COMPLETE verdict means that every combination has a completed row,    *)
(* here or from before the pause, and that no row of either failed.        *)
CompleteMeansAll ==
    result = "complete" =>
        \A c \in Combos : /\ "complete" \in {row[c], prior[c]}
                          /\ "failed" \notin {row[c], prior[c]}

(* A verdict of CANCELLED or PAUSED is only given on a request, and an     *)
(* SIE outage never ends in COMPLETE or PARTIAL.                           *)
VerdictHasCause ==
    /\ result = "cancelled" => cancelEvent \/ cancelRequest = "answered"
    /\ result = "paused" => pauseEvent
    /\ infrastructureError /\ result \notin {"none", "raised"} =>
          result \in {"failed", "cancelled", "paused"}

(* resume_sweep never runs again a combination that has completed: no      *)
(* combination ever has two completed rows.                                *)
NoCompletedRunRepeated ==
    \A c \in Combos : prior[c] = "complete" => row[c] = "absent"

StoppingOutcomes ==
    {"sie", "cancelled", "paused"} \cup (IF OnError = "stop" THEN {"error"} ELSE {})

(* Once the scheduler has taken note of a run that failed under            *)
(* on_error=stop, met an SIE outage or was stopped by a signal, it submits *)
(* nothing more.                                                           *)
NothingSubmittedAfterStop ==
    [][(\E c \in Submitted \ futures : outcome[c] \in StoppingOutcomes)
          => futures' \subseteq futures]_vars

(* Every sweep ends and releases the single thread of SWEEP_EXECUTOR, so   *)
(* the experiments queued behind it get their turn.                        *)
SweepEnds == <>[](pc = "over")

(* "executes only parameter combinations that have not yet reached         *)
(* COMPLETE" (cli-reference.md:94): a sweep that nothing stopped has given *)
(* every combination without a completed row to its pool, whatever calls   *)
(* of the storage failed.                                                  *)
ResumeRunsTheRest ==
    /\ \/ result \in {"complete", "partial"}
       \/ result = "failed" /\ Submitted # {}
    /\ ~stopAfterFailure
    =>  \A c \in Combos : prior[c] = "complete" \/ c \in Submitted

(* What the abstract sweep sees: a run is live while its row is, and lost  *)
(* when a storage error kept its outcome out of the database.              *)
Fate(c) ==
    IF at[c] = "lost" \/ (at[c] = "done" /\ row[c] = "absent") THEN "lost"
    ELSE IF row[c] = "absent" THEN "waiting"
    ELSE IF row[c] \in LivePhases THEN "live"
    ELSE row[c]

Promise == INSTANCE SweepPromise WITH
    before  <- {c \in Combos : prior[c] = "complete"},
    fate    <- [c \in Combos |-> Fate(c)],
    verdict <- IF result = "none" THEN "open" ELSE result

(* The scheduler, its pool and the cooperative signals together keep the   *)
(* promise of SweepPromise.                                                *)
KeepsPromise == Promise!Spec
=============================================================================
