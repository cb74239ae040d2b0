--------------------------- MODULE BayesianSweep ---------------------------
(***************************************************************************)
(* One Bayesian sweep on the sweep thread: _run_bayesian_inner asks Optuna *)
(* for a (chunk_size, overlap) candidate, prunes one it has seen, runs the *)
(* others one after another, tells Optuna the score, and turns the rows    *)
(* and its own flags into the experiment's verdict. Cancel and pause come  *)
(* from the event loop while it runs.                                      *)
(*                                                                         *)
(* A run is one step here; GridSweep has its phases. Any storage call may  *)
(* raise: a run may have no row (the insert raised) or a row that stays in *)
(* a live phase (the write of the terminal phase raised).                  *)
(***************************************************************************)
EXTENDS ExperimentStatuses, FiniteSets, Sequences

CONSTANTS
    Candidates,     \* distinct (chunk_size, overlap) pairs
    Repeats,        \* pairs the configured lists name once more
    Configured,     \* execution.bayesian.n_trials, 0 when it is not set
    MaxFaults       \* bound on errors of the storage

ASSUME CandidatesAssumption == IsFiniteSet(Candidates) /\ Candidates # {}
ASSUME RepeatsAssumption == Repeats \in Nat
ASSUME ConfiguredAssumption == Configured \in Nat /\ MaxFaults \in Nat

GridEquivalent == Cardinality(Candidates) + Repeats

(* resolve_bayesian_n_trials: n_trials capped at the search space.         *)
Planned ==
    IF Configured = 0 \/ Configured > GridEquivalent THEN GridEquivalent
    ELSE Configured

MaxCalls == 3 * Planned

VARIABLES
    at,         \* where the loop stands
    onError,    \* execution.on_error
    visited,    \* candidates asked for
    calls,      \* trials asked of Optuna
    trial,      \* the candidate of this trial, in a set
    rows,       \* run_ids in order: the phase of its row, or "absent"
    log,        \* trial_log: [candidate, state]
    flags,      \* cancelled, paused, stop, infra
    status,     \* the experiment's status column
    events,     \* the events set on the sweep's control
    faults

vars == <<at, onError, visited, calls, trial, rows, log, flags, status, events, faults>>

Init ==
    /\ at = "queued"
    /\ onError \in {"continue", "stop"}
    /\ visited = {}
    /\ calls = 0
    /\ trial = {}
    /\ rows = <<>>
    /\ log = <<>>
    /\ flags = {}
    /\ status = "running"
    /\ events = {}
    /\ faults = 0

Count(phase) == Cardinality({i \in DOMAIN rows : rows[i] = phase})

Logged(state) == \E c \in trial : log' = Append(log, [candidate |-> c, state |-> state])

(* check_control: a cancel goes before a pause.                            *)
Noticed == IF "cancel" \in events THEN "cancelled" ELSE "paused"

-----------------------------------------------------------------------------
(* Before the loop. A cancel leaves without a verdict; a pause is raised   *)
(* past every except clause and leaves the experiment RUNNING.             *)
Begin ==
    /\ at = "queued"
    /\ \/ events # {} /\ at' = "left" /\ UNCHANGED status
       \/ events = {} /\ at' = "asking" /\ UNCHANGED status
       \/ events = {} /\ at' = "left" /\ status' = "failed"
    /\ UNCHANGED <<onError, visited, calls, trial, rows, log, flags, events, faults>>

(* A preflight that raises what _execute_sweep does not catch, or whose    *)
(* FAILED cannot be written: the experiment stays RUNNING.                 *)
BeginRaises ==
    /\ at = "queued"
    /\ events = {}
    /\ faults < MaxFaults
    /\ faults' = faults + 1
    /\ at' = "left"
    /\ UNCHANGED <<onError, visited, calls, trial, rows, log, flags, status, events>>

Enough ==
    \/ calls = MaxCalls
    \/ Cardinality(visited) >= GridEquivalent
    \/ Len(rows) >= Planned

StopAsking ==
    /\ at = "asking"
    /\ Enough
    /\ at' = "finalising"
    /\ UNCHANGED <<onError, visited, calls, trial, rows, log, flags, status, events, faults>>

(* Mutant of Prune: a pruned trial does not use up a call.                 *)
PruneForFree(c) ==
    /\ at = "asking"
    /\ ~Enough
    /\ c \in visited
    /\ log' = IF Len(log) > MaxCalls THEN log
              ELSE Append(log, [candidate |-> c, state |-> "pruned"])
    /\ UNCHANGED <<at, onError, visited, calls, trial, rows, flags, status, events, faults>>

Prune(c) ==
    /\ at = "asking"
    /\ ~Enough
    /\ c \in visited
    /\ calls' = calls + 1
    /\ log' = Append(log, [candidate |-> c, state |-> "pruned"])
    /\ UNCHANGED <<at, onError, visited, trial, rows, flags, status, events, faults>>

Ask(c) ==
    /\ at = "asking"
    /\ ~Enough
    /\ c \notin visited
    /\ calls' = calls + 1
    /\ visited' = visited \cup {c}
    /\ trial' = {c}
    /\ at' = "trying"
    /\ UNCHANGED <<onError, rows, log, flags, status, events, faults>>

(* _try_run_trial gives no score: a trial after the stop flag, or a signal.*)
GiveUp ==
    /\ at = "trying"
    /\ "stop" \in flags \/ events # {}
    /\ flags' = IF "stop" \in flags THEN flags ELSE flags \cup {"stop", Noticed}
    /\ Logged(IF flags' \cap {"cancelled", "paused"} # {} THEN "interrupted" ELSE "failed")
    /\ at' = "finalising"
    /\ UNCHANGED <<onError, visited, calls, trial, rows, status, events, faults>>

CheckTrial ==
    /\ at = "trying"
    /\ "stop" \notin flags
    /\ events = {}
    /\ at' = "starting"
    /\ UNCHANGED <<onError, visited, calls, trial, rows, log, flags, status, events, faults>>

(* The write of started_at fails: the loop's except clause tells Optuna,   *)
(* logs no trial, and a stop takes effect on the next one.                 *)
TrialRaises ==
    /\ at = "starting"
    /\ rows = <<>>
    /\ faults < MaxFaults
    /\ faults' = faults + 1
    /\ flags' = IF onError = "stop" THEN flags \cup {"stop"} ELSE flags
    /\ at' = "asking"
    /\ UNCHANGED <<onError, visited, calls, trial, rows, log, status, events>>

OnError == IF onError = "stop" THEN {"stop"} ELSE {}

(* A signal that has come since the check is noticed inside the run.       *)
StartRun ==
    /\ at = "starting"
    /\ rows' = Append(rows, "live")
    /\ at' = "running"
    /\ UNCHANGED <<onError, visited, calls, trial, log, flags, status, events, faults>>

(* insert_run_status, outside the run's try block, raises: run_ids has the *)
(* run already.                                                            *)
StartRaises ==
    /\ at = "starting"
    /\ faults < MaxFaults
    /\ faults' = faults + 1
    /\ rows' = Append(rows, "absent")
    /\ Logged("failed")
    /\ flags' = flags \cup OnError
    /\ at' = IF OnError = {} THEN "between" ELSE "finalising"
    /\ UNCHANGED <<onError, visited, calls, trial, status, events>>

(* Mutant of EndRun: an interrupted run goes back to the sampler unlogged.  *)
EndRunUnlogged(phase, state, noticed) ==
    /\ at = "running"
    /\ rows' = [rows EXCEPT ![Len(rows)] = phase]
    /\ IF state = "interrupted" THEN UNCHANGED log ELSE Logged(state)
    /\ flags' = flags \cup noticed
    /\ at' = IF "stop" \in noticed THEN "finalising" ELSE "between"
    /\ UNCHANGED <<onError, visited, calls, trial, status, events>>

(* How _run_single ended, and what the except clauses made of it.          *)
EndRun(phase, state, noticed) ==
    /\ at = "running"
    /\ rows' = [rows EXCEPT ![Len(rows)] = phase]
    /\ Logged(state)
    /\ flags' = flags \cup noticed
    /\ at' = IF "stop" \in noticed THEN "finalising" ELSE "between"
    /\ UNCHANGED <<onError, visited, calls, trial, status, events>>

CompleteRun == EndRun("complete", "completed", {}) /\ UNCHANGED faults

FailRun == EndRun("failed", "failed", OnError) /\ UNCHANGED faults

SieOutage == EndRun("failed", "failed", {"stop", "infra"}) /\ UNCHANGED faults

(* The run is complete, its score cannot be read.                          *)
ScoreFails ==
    /\ faults < MaxFaults
    /\ faults' = faults + 1
    /\ EndRun("complete", "failed", OnError)

(* Mutant of InterruptRun: a pause inside a run only stops the loop.       *)
InterruptRunSilently ==
    /\ events # {}
    /\ EndRun("interrupted", "interrupted", {"stop"})
    /\ UNCHANGED faults

InterruptRun ==
    /\ events # {}
    /\ EndRun("interrupted", "interrupted", {"stop", Noticed})
    /\ UNCHANGED faults

(* The write of the terminal phase raises in the except clause: whatever   *)
(* the run died of, the loop sees the storage's error.                     *)
LoseRun ==
    /\ faults < MaxFaults
    /\ faults' = faults + 1
    /\ EndRun("live", "failed", OnError)

CheckBetween ==
    /\ at = "between"
    /\ IF events = {} THEN at' = "asking" /\ UNCHANGED flags
       ELSE at' = "finalising" /\ flags' = flags \cup {Noticed}
    /\ UNCHANGED <<onError, visited, calls, trial, rows, log, status, events, faults>>

-----------------------------------------------------------------------------
(* _finalise_bayesian_experiment.                                          *)

Tallied ==
    LET tally == ComputeFinalStatus(Planned, Count("complete"), Count("failed"))
    IN  IF tally = "partial" /\ Count("failed") = 0 THEN "complete" ELSE tally

Verdict ==
    LET byFlags ==
            IF "cancelled" \in flags THEN "cancelled"
            ELSE IF "paused" \in flags THEN "paused"
            ELSE IF rows # <<>> THEN Tallied
            ELSE "cancelled"
    IN  IF "infra" \in flags /\ byFlags \notin {"cancelled", "paused"} THEN "failed"
        ELSE byFlags

Attempted == Len(rows)

Discarded == Planned - Attempted

Finalise ==
    /\ at = "finalising"
    /\ status' = Verdict
    /\ at' = "over"
    /\ UNCHANGED <<onError, visited, calls, trial, rows, log, flags, events, faults>>

(* A read before the verdict, its write, or what is read to log it raises. *)
FinaliseRaises ==
    /\ at = "finalising"
    /\ faults < MaxFaults
    /\ faults' = faults + 1
    /\ status' \in {status, Verdict}
    /\ at' = "left"
    /\ UNCHANGED <<onError, visited, calls, trial, rows, log, flags, events>>

-----------------------------------------------------------------------------
(* cancel_experiment writes at once; pause leaves it to the sweep.         *)
Cancel ==
    /\ at \notin {"over", "left"}
    /\ status = "running"
    /\ events' = events \cup {"cancel"}
    /\ status' = "cancelled"
    /\ UNCHANGED <<at, onError, visited, calls, trial, rows, log, flags, faults>>

Pause ==
    /\ at \notin {"over", "left"}
    /\ status = "running"
    /\ "pause" \notin events
    /\ events' = events \cup {"pause"}
    /\ UNCHANGED <<at, onError, visited, calls, trial, rows, log, flags, status, faults>>

Sweep ==
    \/ Begin \/ BeginRaises \/ StopAsking
    \/ \E c \in Candidates : Prune(c) \/ Ask(c)
    \/ GiveUp \/ CheckTrial \/ TrialRaises \/ StartRun \/ StartRaises
    \/ CompleteRun \/ FailRun \/ SieOutage \/ ScoreFails \/ InterruptRun \/ LoseRun
    \/ CheckBetween \/ Finalise \/ FinaliseRaises

Next == Sweep \/ Cancel \/ Pause

Spec == Init /\ [][Next]_vars

FairSpec == Spec /\ WF_vars(Sweep)

-----------------------------------------------------------------------------
(* The loop ends whatever the sampler proposes: repeated candidates use up *)
(* the calls, so a space smaller than the plan cannot keep it asking.      *)
AskingEnds == <>(at \in {"over", "left"})

(* Runs of run_ids whose end the storage never recorded: the insert of     *)
(* their row or the write of their terminal phase raised.                  *)
Unrecorded == Cardinality({i \in DOMAIN rows : rows[i] \in {"absent", "live"}})

(* The verdict of a sweep that reached its end has a cause. COMPLETE: no   *)
(* run failed or was interrupted, and each one that is not complete is the *)
(* storage's fault; that may be all of them, since PARTIAL without a       *)
(* failed row is turned into COMPLETE. FAILED: a failed run and no signal. *)
(* PARTIAL: both complete and failed runs. PAUSED and CANCELLED: someone   *)
(* asked, and CANCELLED also when no run could be started at all.          *)
BayesianVerdictHasCause ==
    at = "over" =>
      CASE status = "complete"  -> /\ rows # <<>>
                                   /\ Count("complete") + Unrecorded = Len(rows)
                                   /\ Unrecorded <= faults
        [] status = "partial"   -> Count("complete") > 0 /\ Count("failed") > 0
        [] status = "failed"    -> Count("failed") > 0 /\ flags \cap {"cancelled", "paused"} = {}
        [] status = "paused"    -> "pause" \in events
        [] status = "cancelled" -> "cancel" \in events \/ rows = <<>>

(* The summary adds up: no candidate is run twice, every run has its entry *)
(* in the trial log, a "completed" entry has its complete row, and each    *)
(* run that the log and the rows tell differently (no row, a live row      *)
(* under the verdict, a complete row of a failed trial) cost a storage     *)
(* error of its own.                                                       *)
Entries(state) == {i \in DOMAIN log : log[i].state = state}

Unpruned == UNION {Entries(state) : state \in {"completed", "failed", "interrupted"}}

Unscored == Count("complete") - Cardinality(Entries("completed"))

TrialLogMatchesRows ==
    at \in {"over", "left"} =>
      /\ \A i, j \in Unpruned : log[i].candidate = log[j].candidate => i = j
      /\ Cardinality(Unpruned) >= Attempted
      /\ Unscored >= 0
      /\ Unrecorded + Unscored <= faults
      /\ Discarded >= 0
=============================================================================
