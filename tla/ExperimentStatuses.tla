------------------------- MODULE ExperimentStatuses -------------------------
(***************************************************************************)
(* The vocabulary of server/models/enums.py and the three places that turn *)
(* the tally of an experiment's run rows into an experiment status:        *)
(*   - orchestrator._compute_final_status, when a sweep ends;              *)
(*   - startup_reconciliation._derive_experiment_status, when the server   *)
(*     boots and finds an experiment still RUNNING;                        *)
(*   - experiments_lifecycle._normalize_stale_running_status, when a GET   *)
(*     finds an experiment RUNNING with no sweep in flight.                *)
(* They are three copies of one idea, written with different conditions.   *)
(***************************************************************************)
EXTENDS Integers

ExperimentStatus ==
    {"running", "paused", "complete", "partial", "failed", "cancelled"}

WorkPhases ==
    {"parsing", "chunking", "embedding", "storing", "querying", "reranking"}

TerminalPhases == {"complete", "failed", "interrupted"}

LivePhases == {"queued"} \cup WorkPhases

Phases == LivePhases \cup TerminalPhases

-----------------------------------------------------------------------------
(* expected is the experiment's run_count; complete, failed and            *)
(* interrupted count its rows in that phase, attempted all its rows.       *)

(* Mutant of ComputeFinalStatus: COMPLETE once every run has been tried.   *)
ComputeFinalStatusByAttempts(expected, complete, failed) ==
    IF complete + failed = expected THEN "complete"
    ELSE IF failed = expected \/ (failed > 0 /\ complete = 0) THEN "failed"
    ELSE "partial"

ComputeFinalStatus(expected, complete, failed) ==
    IF complete = expected /\ failed = 0 THEN "complete"
    ELSE IF failed = expected \/ (failed > 0 /\ complete = 0) THEN "failed"
    ELSE "partial"

DeriveExperimentStatus(expected, complete, failed, attempted) ==
    IF complete = expected /\ failed = 0 THEN "complete"
    ELSE IF \/ failed = expected
            \/ failed > 0 /\ complete = 0 /\ failed = attempted THEN "failed"
    ELSE "partial"

(* Called only when every row is terminal, so the rows are these three.    *)
NormalizeStaleStatus(expected, complete, failed, interrupted) ==
    IF \/ complete = expected /\ failed = 0
       \/ failed = 0 /\ interrupted = 0 /\ 0 < complete /\ complete < expected
    THEN "complete"
    ELSE IF \/ failed = expected
            \/ /\ failed > 0 /\ complete = 0
               /\ failed = complete + failed + interrupted
    THEN "failed"
    ELSE "partial"
=============================================================================
