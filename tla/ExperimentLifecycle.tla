------------------------ MODULE ExperimentLifecycle ------------------------
(***************************************************************************)
(* One experiment from its insertion to its deletion, as the server keeps  *)
(* it: the experiments and run_status tables of the SQLite run state, the  *)
(* chunks in the vector store, the in-memory registry of sweep controls,   *)
(* the single-threaded FIFO SWEEP_EXECUTOR, the asynchronous handlers of   *)
(* api/experiments.py with an await before every storage call, and the     *)
(* crash and restart of the process with its boot reconciliation.          *)
(*                                                                         *)
(* A sweep is the coarse one: GridSweep has its threads and phases. Here a *)
(* run is started, has stored its chunks, or has ended, and its row is     *)
(* "live" in every phase that is not terminal.                             *)
(***************************************************************************)
EXTENDS ExperimentStatuses, FiniteSets

CONSTANTS
    Combos,         \* parameter combinations of the experiment
    Clients,        \* requests that may be served at the same time
    Operations,     \* the operations clients ask for
    Creating,       \* TRUE: create_experiment has not scheduled the sweep yet
    MaxSweeps,      \* bound on sweeps: the first one and the resumed ones
    MaxRequests,    \* bound on requests
    MaxCrashes,     \* bound on crashes of the process
    MaxFaults       \* bound on calls of the run state that raise

AllOperations == {"cancel", "pause", "resume", "delete", "detail", "list"}

ASSUME CombosAssumption == IsFiniteSet(Combos)
ASSUME OperationsAssumption == Operations \subseteq AllOperations
ASSUME CreatingAssumption == Creating \in BOOLEAN
ASSUME BoundsAssumption ==
    /\ MaxSweeps \in Nat \ {0} /\ MaxRequests \in Nat
    /\ MaxCrashes \in Nat /\ MaxFaults \in Nat

Sweeps == 1 .. MaxSweeps

VARIABLES
    exists,     \* the experiments row is there
    status,     \* its status column
    row,        \* run_status rows, by sweep and combination
    chunks,     \* runs whose chunks are in the vector store
    server,     \* "up", "down", or "booting"
    creating,   \* create_experiment has inserted, not scheduled
    control,    \* {} or the registered _SweepControl and its set events
    sweep,      \* where each scheduled sweep stands, in the order scheduled
    full,       \* the sweeps that are run_sweep; the others are resume_sweep
    skip,       \* the completed combinations a sweep leaves out
    seen,       \* what a sweep's scheduler has noticed
    work,       \* where the worker of each run stands
    client,     \* where each request stands
    requests, crashes,
    faults,     \* calls of the run state that have raised
    gaveUp      \* history: the last to be in charge left no status behind

database == <<exists, status, row, chunks>>
memory   == <<control, sweep, full, skip, seen, work>>
bounds   == <<requests, crashes>>
errors   == <<faults, gaveUp>>
vars     == <<database, server, creating, memory, client, bounds, errors>>

Fresh == {"registered"}

InFlight == "registered" \in control

Signalled == control \cap {"cancel", "pause"} # {}

Idle == [op |-> "idle", at |-> "idle", saw |-> "none", resolved |-> "none"]

Runs == Sweeps \X Combos

RowPhases == {"absent", "live"} \cup TerminalPhases

RowsIn(phases) == {r \in Runs : row[r] \in phases}

Count(phase) == Cardinality(RowsIn({phase}))

Init ==
    /\ exists = TRUE
    /\ status = "running"
    /\ row = [r \in Runs |-> "absent"]
    /\ chunks = {}
    /\ server = "up"
    /\ creating = Creating
    /\ control = IF Creating THEN {} ELSE Fresh
    /\ sweep = [s \in Sweeps |-> IF ~Creating /\ s = 1 THEN "queued" ELSE "none"]
    /\ full = IF Creating THEN {} ELSE {1}
    /\ skip = [s \in Sweeps |-> {}]
    /\ seen = [s \in Sweeps |-> {}]
    /\ work = [r \in Runs |-> "none"]
    /\ client = [k \in Clients |-> Idle]
    /\ requests = 0 /\ crashes = 0
    /\ faults = 0 /\ gaveUp = FALSE

(* A call of the run state raises.                                         *)
Raises ==
    /\ faults < MaxFaults
    /\ faults' = faults + 1

-----------------------------------------------------------------------------
(* Scheduling, and the sweep thread.                                       *)

Unscheduled == {s \in Sweeps : sweep[s] = "none"}

(* schedule_sweep: register_sweep_control keeps a control that is already  *)
(* there, events included; the executor's queue is first in, first out.    *)
Schedule(fn) ==
    /\ control' = IF InFlight THEN control ELSE Fresh
    /\ \E s \in Unscheduled :
          /\ \A t \in Unscheduled : s <= t
          /\ sweep' = [sweep EXCEPT ![s] = "queued"]
          /\ full' = IF fn = "run_sweep" THEN full \cup {s} ELSE full
    /\ UNCHANGED <<skip, seen, work>>

CreateSchedules ==
    /\ server = "up"
    /\ creating
    /\ creating' = FALSE
    /\ Schedule("run_sweep")
    /\ UNCHANGED <<database, server, client, bounds, errors>>

SweepFrame == UNCHANGED <<server, creating, full, client, bounds>>

SweepOnly == SweepFrame /\ UNCHANGED errors

(* The sweep ends without a status; Raises or not, nobody else is told.    *)
GivesUp == SweepFrame /\ gaveUp' = TRUE

(* Mutant of ItsTurn: an executor with a thread for every sweep.           *)
AnyTurn(s) == TRUE

(* The one executor thread has finished the sweeps queued before.          *)
ItsTurn(s) == \A t \in Sweeps : t < s => sweep[t] = "over"

(* resume_sweep reads the completed signatures, _execute_sweep registers.  *)
Begin(s) ==
    /\ sweep[s] = "queued"
    /\ ItsTurn(s)
    /\ skip' = [skip EXCEPT ![s] =
                  IF s \in full THEN {}
                  ELSE {c \in Combos : \E t \in Sweeps : row[<<t, c>>] = "complete"}]
    /\ control' = IF InFlight THEN control ELSE Fresh
    /\ sweep' = [sweep EXCEPT ![s] = "begun"]
    /\ gaveUp' = FALSE
    /\ UNCHANGED <<database, seen, work, faults>>
    /\ SweepFrame

(* The read of the completed signatures raises outside _execute_sweep's    *)
(* try: _run_sweep_safe logs it, and the control stays registered.         *)
ResumeRaises(s) ==
    /\ sweep[s] = "queued"
    /\ ItsTurn(s)
    /\ s \notin full
    /\ Raises
    /\ sweep' = [sweep EXCEPT ![s] = "over"]
    /\ UNCHANGED <<database, control, skip, seen, work>>
    /\ GivesUp

(* Cancelled in the database, or cancelled or paused by event: no run and  *)
(* no status.                                                              *)
TurnedAway(s) ==
    /\ sweep[s] = "begun"
    /\ (exists /\ status = "cancelled") \/ Signalled
    /\ sweep' = [sweep EXCEPT ![s] = "leaving"]
    /\ UNCHANGED <<database, control, skip, seen, work, faults>>
    /\ GivesUp

(* The read of the status, the preflight or the write of its verdict       *)
(* raises what _execute_sweep does not catch: _run_sweep_safe logs it.     *)
PreflightRaises(s) ==
    /\ sweep[s] = "begun"
    /\ Raises
    /\ sweep' = [sweep EXCEPT ![s] = "leaving"]
    /\ UNCHANGED <<database, control, skip, seen, work>>
    /\ GivesUp

(* Otherwise the preflight passes, or fails and the experiment with it.    *)
CheckBeforeRuns(s) ==
    /\ sweep[s] = "begun"
    /\ ~(exists /\ status = "cancelled")
    /\ ~Signalled
    /\ \/ sweep' = [sweep EXCEPT ![s] = "running"] /\ UNCHANGED status
       \/ /\ sweep' = [sweep EXCEPT ![s] = "leaving"]
          /\ status' = IF exists THEN "failed" ELSE status
    /\ UNCHANGED <<exists, row, chunks, control, skip, seen, work>>
    /\ SweepOnly

(* The write of started_at, before the first run only, raises out of the   *)
(* pool's block, where nothing has been submitted.                         *)
FirstSubmitRaises(s) ==
    /\ sweep[s] = "running"
    /\ seen[s] = {}
    /\ \A c \in Combos : work[<<s, c>>] = "none"
    /\ ~(Combos \subseteq skip[s])
    /\ Raises
    /\ sweep' = [sweep EXCEPT ![s] = "leaving"]
    /\ UNCHANGED <<database, control, skip, seen, work>>
    /\ GivesUp

(* A worker has lost its run, or a run has failed: with on_error = "stop"  *)
(* the scheduler stops.                                                    *)
NoticesFailure(s, outcomes) ==
    \E noticed \in outcomes : seen' = [seen EXCEPT ![s] = @ \cup noticed]

StartRun(s, c) ==
    /\ sweep[s] = "running"
    /\ c \notin skip[s]
    /\ work[<<s, c>>] = "none"
    /\ exists
    /\ row' = [row EXCEPT ![<<s, c>>] = "live"]
    /\ work' = [work EXCEPT ![<<s, c>>] = "started"]
    /\ UNCHANGED <<exists, status, chunks, control, sweep, skip, seen>>
    /\ SweepOnly

(* The insert of the row raises: foreign keys are on, so that of a deleted *)
(* experiment does. The run ends without a row.                            *)
InsertRaises(s, c) ==
    /\ sweep[s] = "running"
    /\ c \notin skip[s]
    /\ work[<<s, c>>] = "none"
    /\ IF exists THEN Raises ELSE UNCHANGED faults
    /\ work' = [work EXCEPT ![<<s, c>>] = "ended"]
    /\ NoticesFailure(s, {{}, {"stop"}})
    /\ UNCHANGED <<database, control, sweep, skip, gaveUp>>
    /\ SweepFrame

(* _store_chunks; the vector store does not know the experiments table.    *)
StoreChunks(s, c) ==
    /\ work[<<s, c>>] = "started"
    /\ work' = [work EXCEPT ![<<s, c>>] = "stored"]
    /\ chunks' = chunks \cup {<<s, c>>}
    /\ UNCHANGED <<exists, status, row, control, sweep, skip, seen>>
    /\ SweepOnly

(* The write of the terminal phase raises in an except clause: the row     *)
(* stays live, and the error replaces the run's own, a signal included.    *)
LoseRun(s, c) ==
    /\ work[<<s, c>>] \in {"started", "stored"}
    /\ Raises
    /\ work' = [work EXCEPT ![<<s, c>>] = "ended"]
    /\ NoticesFailure(s, {{}, {"stop"}})
    /\ UNCHANGED <<database, control, sweep, skip, gaveUp>>
    /\ SweepFrame

(* The last phase write; an UPDATE of a deleted row changes nothing.       *)
EndRun(s, c, phase) ==
    /\ work[<<s, c>>] \in {"started", "stored"}
    /\ work' = [work EXCEPT ![<<s, c>>] = "ended"]
    /\ row' = IF row[<<s, c>>] = "absent" THEN row
              ELSE [row EXCEPT ![<<s, c>>] = phase]
    /\ UNCHANGED <<exists, status, chunks, control, sweep, skip>>
    /\ SweepOnly

CompleteRun(s, c) ==
    /\ work[<<s, c>>] = "stored"
    /\ exists               \* results rows need the experiments row
    /\ EndRun(s, c, "complete")
    /\ UNCHANGED seen

(* "stop": on_error = stop; "sie": an SIE outage.                          *)
FailRun(s, c) ==
    /\ EndRun(s, c, "failed")
    /\ NoticesFailure(s, {{}, {"stop"}, {"sie"}})

Signal == IF "cancel" \in control THEN "cancel" ELSE "pause"

InterruptRun(s, c) ==
    /\ Signalled
    /\ EndRun(s, c, "interrupted")
    /\ seen' = [seen EXCEPT ![s] = @ \cup {Signal}]

SchedulerSeesSignal(s) ==
    /\ sweep[s] = "running"
    /\ Signalled
    /\ Signal \notin seen[s]
    /\ seen' = [seen EXCEPT ![s] = @ \cup {Signal}]
    /\ UNCHANGED <<database, control, sweep, skip, work>>
    /\ SweepOnly

Verdict(s) ==
    IF "cancel" \in seen[s] THEN "cancelled"
    ELSE IF "pause" \in seen[s] THEN "paused"
    ELSE IF "sie" \in seen[s] THEN "failed"
    ELSE ComputeFinalStatus(Cardinality(Combos), Count("complete"), Count("failed"))

(* No future is left, and either the iterator is empty or a flag stopped   *)
(* the scheduler.                                                          *)
RunsAreOver(s) ==
    /\ sweep[s] = "running"
    /\ \A c \in Combos : work[<<s, c>>] \in {"none", "ended"}
    /\ \/ seen[s] # {}
       \/ \A c \in Combos \ skip[s] : work[<<s, c>>] = "ended"

Conclude(s) ==
    /\ RunsAreOver(s)
    /\ status' = IF exists THEN Verdict(s) ELSE status
    /\ sweep' = [sweep EXCEPT ![s] = "leaving"]
    /\ UNCHANGED <<exists, row, chunks, control, skip, seen, work>>
    /\ SweepOnly

(* A read of the rows or the write of the verdict raises.                  *)
ConcludeRaises(s) ==
    /\ RunsAreOver(s)
    /\ Raises
    /\ sweep' = [sweep EXCEPT ![s] = "leaving"]
    /\ UNCHANGED <<database, control, skip, seen, work>>
    /\ GivesUp

(* unregister_sweep_control pops whatever control is registered.           *)
Leave(s) ==
    /\ sweep[s] = "leaving"
    /\ sweep' = [sweep EXCEPT ![s] = "over"]
    /\ control' = {}
    /\ UNCHANGED <<database, skip, seen, work>>
    /\ SweepOnly

SweepThread(s) ==
    \/ Begin(s) \/ ResumeRaises(s)
    \/ TurnedAway(s) \/ PreflightRaises(s) \/ CheckBeforeRuns(s)
    \/ FirstSubmitRaises(s) \/ SchedulerSeesSignal(s)
    \/ Conclude(s) \/ ConcludeRaises(s) \/ Leave(s)

RunThread(s, c) ==
    \/ StartRun(s, c) \/ InsertRaises(s, c) \/ StoreChunks(s, c)
    \/ CompleteRun(s, c) \/ FailRun(s, c) \/ InterruptRun(s, c) \/ LoseRun(s, c)

-----------------------------------------------------------------------------
(* The process dies and boots again. What was in memory is gone.           *)

Crash ==
    /\ server # "down"
    /\ crashes < MaxCrashes
    /\ crashes' = crashes + 1
    /\ server' = "down"
    /\ creating' = FALSE
    /\ control' = {}
    /\ sweep' = [s \in Sweeps |-> IF sweep[s] = "none" THEN "none" ELSE "over"]
    /\ work' = [r \in Runs |-> IF work[r] = "none" THEN "none" ELSE "ended"]
    /\ client' = [k \in Clients |-> Idle]
    /\ gaveUp' = FALSE
    /\ UNCHANGED <<database, full, skip, seen, requests, faults>>

(* Mutant of BootMarksRuns: the live rows of a dead sweep are left alone.  *)
BootLeavesRuns ==
    /\ server = "down"
    /\ server' = "booting"
    /\ UNCHANGED <<database, creating, memory, client, bounds, errors>>

(* reconcile_orphaned_experiments: only an experiment still RUNNING is     *)
(* looked at; first its live rows, then its status.                        *)
BootMarksRuns ==
    /\ server = "down"
    /\ server' = "booting"
    /\ row' = IF exists /\ status = "running"
              THEN [r \in Runs |-> IF row[r] = "live" THEN "interrupted" ELSE row[r]]
              ELSE row
    /\ UNCHANGED <<exists, status, chunks, creating, memory, client, bounds, errors>>

(* Mutant of BootDerivesStatus: an experiment without rows is passed over. *)
BootPassesOverEmpty ==
    /\ server = "booting"
    /\ server' = "up"
    /\ status' =
          IF exists /\ status = "running" /\ RowsIn(Phases \cup {"live"}) # {}
          THEN DeriveExperimentStatus(Cardinality(Combos), Count("complete"),
                  Count("failed"), Cardinality(RowsIn(Phases \cup {"live"})))
          ELSE status
    /\ UNCHANGED <<exists, row, chunks, creating, memory, client, bounds, errors>>

BootDerivesStatus ==
    /\ server = "booting"
    /\ server' = "up"
    /\ status' =
          IF exists /\ status = "running"
          THEN DeriveExperimentStatus(Cardinality(Combos), Count("complete"),
                  Count("failed"), Cardinality(RowsIn(Phases \cup {"live"})))
          ELSE status
    /\ UNCHANGED <<exists, row, chunks, creating, memory, client, bounds, errors>>

(* A call of the boot raises, perhaps with some rows marked: main.py logs  *)
(* it, and the server goes up with the experiment as it is.                *)
BootRaises ==
    /\ server # "up"
    /\ exists /\ status = "running"
    /\ Raises
    /\ server' = "up"
    /\ \E marked \in SUBSET RowsIn({"live"}) :
          row' = [r \in Runs |-> IF r \in marked THEN "interrupted" ELSE row[r]]
    /\ gaveUp' = TRUE
    /\ UNCHANGED <<exists, status, chunks, creating, memory, client, bounds>>

-----------------------------------------------------------------------------
(* The request handlers. A client that is idle may ask for an operation;   *)
(* the first step of each is the read of the experiment in a thread.       *)

Move(k, where) == client' = [client EXCEPT ![k].at = where]

Answer(k) == client' = [client EXCEPT ![k] = Idle]

At(k, op, where) ==
    /\ server = "up"
    /\ client[k].op = op
    /\ client[k].at = where

(* A missing experiment is a 404, a wrong status a 409: no later step.     *)
Accepted(op) ==
    /\ exists
    /\ CASE op \in {"cancel", "pause"} -> status = "running"
         [] op = "resume"              -> status = "paused"
         [] op = "delete"              -> status # "running"
         [] op \in {"detail", "list"}  -> TRUE

Resuming == Cardinality({k \in Clients : client[k].op = "resume"})

Read(k, op) ==
    /\ server = "up"
    /\ client[k] = Idle
    /\ requests < MaxRequests
    /\ op = "resume" =>
          Resuming + (IF creating THEN 1 ELSE 0) < Cardinality(Unscheduled)
    /\ Accepted(op)
    /\ requests' = requests + 1
    /\ client' = [client EXCEPT ![k] =
                    [op |-> op, at |-> "read", saw |-> status, resolved |-> "none"]]
    /\ UNCHANGED <<database, server, creating, memory, crashes, errors>>

HandlerOnly == UNCHANGED <<server, creating, bounds, errors>>

(* cancel: request_cancel, then mark_experiment_cancelled.                 *)
CancelSignals(k) ==
    /\ At(k, "cancel", "read")
    /\ control' = IF InFlight THEN control \cup {"cancel"} ELSE control
    /\ Move(k, "signalled")
    /\ UNCHANGED <<database, sweep, full, skip, seen, work>>
    /\ HandlerOnly

CancelMarks(k) ==
    /\ At(k, "cancel", "signalled")
    /\ status' = IF exists THEN "cancelled" ELSE status
    /\ Answer(k)
    /\ UNCHANGED <<exists, row, chunks, memory>>
    /\ HandlerOnly

(* pause: request_pause; the status is written only without a control.     *)
PauseSignals(k) ==
    /\ At(k, "pause", "read")
    /\ control' = IF InFlight THEN control \cup {"pause"} ELSE control
    /\ IF InFlight THEN Answer(k) ELSE Move(k, "unsignalled")
    /\ UNCHANGED <<database, sweep, full, skip, seen, work>>
    /\ HandlerOnly

PauseMarks(k) ==
    /\ At(k, "pause", "unsignalled")
    /\ status' = IF exists THEN "paused" ELSE status
    /\ Answer(k)
    /\ UNCHANGED <<exists, row, chunks, memory>>
    /\ HandlerOnly

(* resume: mark_experiment_running, then schedule_sweep(resume_sweep).     *)
ResumeMarks(k) ==
    /\ At(k, "resume", "read")
    /\ status' = IF exists THEN "running" ELSE status
    /\ Move(k, "marked")
    /\ UNCHANGED <<exists, row, chunks, memory>>
    /\ HandlerOnly

ResumeSchedules(k) ==
    /\ At(k, "resume", "marked")
    /\ Schedule("resume_sweep")
    /\ Answer(k)
    /\ UNCHANGED database
    /\ HandlerOnly

(* delete: the vector store first, then the run-state tables; the deletion *)
(* of the experiments row cascades to whatever rows there still are.       *)
DeleteChunks(k) ==
    /\ At(k, "delete", "read")
    /\ chunks' = {}
    /\ Move(k, "unchunked")
    /\ UNCHANGED <<exists, status, row, memory>>
    /\ HandlerOnly

DeleteRows(k) ==
    /\ At(k, "delete", "unchunked")
    /\ row' = [r \in Runs |-> "absent"]
    /\ Move(k, "emptied")
    /\ UNCHANGED <<exists, status, chunks, memory>>
    /\ HandlerOnly

(* Mutant of DeleteExperiment: foreign keys are off, nothing cascades.     *)
DeleteExperimentOnly(k) ==
    /\ At(k, "delete", "emptied")
    /\ exists' = FALSE
    /\ Answer(k)
    /\ UNCHANGED <<status, row, chunks, memory>>
    /\ HandlerOnly

DeleteExperiment(k) ==
    /\ At(k, "delete", "emptied")
    /\ exists' = FALSE
    /\ row' = [r \in Runs |-> "absent"]
    /\ Answer(k)
    /\ UNCHANGED <<status, chunks, memory>>
    /\ HandlerOnly

(* _normalize_stale_running_status on the rows just read.                  *)
Resolved ==
    IF RowsIn(Phases \cup {"live"}) = {} THEN "empty"
    ELSE IF RowsIn({"live"}) # {} THEN "none"
    ELSE NormalizeStaleStatus(Cardinality(Combos), Count("complete"),
                              Count("failed"), Count("interrupted"))

(* GET /experiments/{id} brings the rows along with the experiment.        *)
DetailReadsRuns(k) ==
    /\ At(k, "detail", "read")
    /\ client' = [client EXCEPT ![k].at = "decide", ![k].resolved = Resolved]
    /\ UNCHANGED <<database, memory>>
    /\ HandlerOnly

(* Not RUNNING when read, or a sweep in flight now: nothing is written.    *)
(* The list, and a detail without rows, read the rows after this check.    *)
NormalizeDecides(k) ==
    /\ At(k, "list", "read") \/ At(k, "detail", "decide")
    /\ IF client[k].saw # "running" \/ InFlight \/
          (client[k].op = "detail" /\ client[k].resolved = "none")
       THEN Answer(k)
       ELSE IF client[k].op = "list" \/ client[k].resolved = "empty"
       THEN Move(k, "fresh")
       ELSE Move(k, "write")
    /\ UNCHANGED <<database, memory>>
    /\ HandlerOnly

(* Mutant of NormalizeReadsRuns: live rows and no rows are not excluded.   *)
NormalizeReadsAnyRuns(k) ==
    /\ At(k, "list", "fresh") \/ At(k, "detail", "fresh")
    /\ client' = [client EXCEPT ![k].at = "write", ![k].resolved = Resolved]
    /\ UNCHANGED <<database, memory>>
    /\ HandlerOnly

NormalizeReadsRuns(k) ==
    /\ At(k, "list", "fresh") \/ At(k, "detail", "fresh")
    /\ IF Resolved \in {"empty", "none"} THEN Answer(k)
       ELSE client' = [client EXCEPT ![k].at = "write", ![k].resolved = Resolved]
    /\ UNCHANGED <<database, memory>>
    /\ HandlerOnly

NormalizeWrites(k) ==
    /\ At(k, "list", "write") \/ At(k, "detail", "write")
    /\ status' = IF exists THEN client[k].resolved ELSE status
    /\ Answer(k)
    /\ UNCHANGED <<exists, row, chunks, memory>>
    /\ HandlerOnly

(* A storage call raises: the request is answered 500, and what was done   *)
(* before the call stays done. (That of a GET only changes the answer.)    *)
HandlerRaises(k) ==
    /\ \/ At(k, "cancel", "signalled")
       \/ At(k, "pause", "unsignalled")
       \/ At(k, "resume", "read")
       \/ \E where \in {"read", "unchunked", "emptied"} : At(k, "delete", where)
    /\ Raises
    /\ Answer(k)
    /\ UNCHANGED <<database, server, creating, memory, bounds, gaveUp>>

Handle(k) ==
    \/ CancelSignals(k) \/ CancelMarks(k)
    \/ PauseSignals(k) \/ PauseMarks(k)
    \/ ResumeMarks(k) \/ ResumeSchedules(k)
    \/ DeleteChunks(k) \/ DeleteRows(k) \/ DeleteExperiment(k)
    \/ DetailReadsRuns(k) \/ NormalizeDecides(k)
    \/ NormalizeReadsRuns(k) \/ NormalizeWrites(k) \/ HandlerRaises(k)

Next ==
    \/ CreateSchedules
    \/ \E s \in Sweeps : SweepThread(s)
    \/ \E s \in Sweeps, c \in Combos : RunThread(s, c)
    \/ \E k \in Clients : Handle(k) \/ \E op \in Operations : Read(k, op)
    \/ Crash \/ BootMarksRuns \/ BootDerivesStatus \/ BootRaises

Spec == Init /\ [][Next]_vars

(* Threads and coroutines that can go on do, and a server that is down is  *)
(* started again. Nobody is obliged to send a request, or to crash.        *)
Fairness ==
    /\ WF_vars(CreateSchedules)
    /\ \A s \in Sweeps : WF_vars(SweepThread(s))
    /\ \A s \in Sweeps, c \in Combos : WF_vars(RunThread(s, c))
    /\ \A k \in Clients : WF_vars(Handle(k))
    /\ WF_vars(BootMarksRuns) /\ WF_vars(BootDerivesStatus)

FairSpec == Spec /\ Fairness

-----------------------------------------------------------------------------
(* Types of all variables.                                                 *)
TypeOK ==
    /\ exists \in BOOLEAN /\ creating \in BOOLEAN
    /\ status \in ExperimentStatus
    /\ row \in [Runs -> RowPhases]
    /\ chunks \subseteq Runs
    /\ server \in {"up", "down", "booting"}
    /\ control \subseteq {"registered", "cancel", "pause"}
    /\ sweep \in [Sweeps -> {"none", "queued", "begun", "running", "leaving", "over"}]
    /\ full \subseteq Sweeps
    /\ skip \in [Sweeps -> SUBSET Combos]
    /\ seen \in [Sweeps -> SUBSET {"cancel", "pause", "stop", "sie"}]
    /\ work \in [Runs -> {"none", "started", "stored", "ended"}]
    /\ client \in [Clients -> [op : Operations \cup {"idle"},
                               at : {"idle", "read", "signalled", "unsignalled",
                                     "marked", "unchunked", "emptied", "decide",
                                     "fresh", "write"},
                               saw : ExperimentStatus \cup {"none"},
                               resolved : ExperimentStatus \cup {"none", "empty"}]]
    /\ requests \in 0 .. MaxRequests
    /\ crashes \in 0 .. MaxCrashes
    /\ faults \in 0 .. MaxFaults
    /\ gaveUp \in BOOLEAN

(* However often the experiment is paused, resumed (also twice at once) or *)
(* crashes, a resumed sweep completes no combination that a sweep before   *)
(* it completed: resume_sweep reads the completed rows on the executor     *)
(* thread, when every sweep queued before it is over.                      *)
ResumeRepeatsNothing ==
    \A c \in Combos, s \in Sweeps \ full, t \in Sweeps :
        t < s => "complete" \notin {row[<<s, c>>]} \cap {row[<<t, c>>]}

(* After the delete of the experiments row no run row of it is left, even  *)
(* when a draining worker inserted one between the two DELETE statements.  *)
DeleteLeavesNoRows == ~exists => RowsIn(Phases \cup {"live"}) = {}

(* When the boot gives an experiment a new status none of its rows is live *)
(* any more, even if an earlier boot died half way: first the rows, then   *)
(* the status (_reconcile_one), since nobody looks at it a second time.    *)
BootSettlesRows ==
    [][server = "booting" /\ status' # status => RowsIn({"live"})' = {}]_vars

(* Nobody is about to run the experiment or to write its status.           *)
Unattended ==
    /\ ~creating
    /\ \A s \in Sweeps : sweep[s] \in {"none", "over"}
    /\ \A k \in Clients : client[k].at \notin {"signalled", "unsignalled", "marked"}

(* An experiment does not stay RUNNING: its sweep, a cancel, a pause, or   *)
(* the reconciliation after a crash settles it, whatever the order of the  *)
(* requests and of two sweeps under one control. The only ways out are     *)
(* those where the code gives up: an error that leaves the sweep or the    *)
(* boot, and a signal before the first run (orchestrator.py:626-645).      *)
RunningIsSettled ==
    exists /\ status = "running" ~>
        ~exists \/ status # "running" \/ (gaveUp /\ Unattended)

-----------------------------------------------------------------------------
(* What the documentation says and the code does not keep.                 *)

(* "The sweep stops after the current run's current phase completes.       *)
(* Status becomes `paused`" (cli-reference.md:82): no run of a PAUSED      *)
(* experiment starts.                                                      *)
PausedMeansQuiet ==
    [][exists /\ status = "paused" =>
          \A r \in Runs : row[r] = "absent" => row'[r] = "absent"]_vars
=============================================================================
