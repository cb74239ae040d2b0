--------------------------- MODULE RunStateStores --------------------------
(***************************************************************************)
(* What the port promises its callers whatever store is behind it: the     *)
(* three adapters take the same calls of several threads, and the same     *)
(* reads must find the same documents. A call of Postgres or Mongo is one  *)
(* statement; an update of SQLite is a SELECT and an UPDATE, and what      *)
(* another thread commits in between is not seen by the UPDATE. A delete   *)
(* is three statements in every store.                                     *)
(***************************************************************************)
EXTENDS RunStateAdapters, Integers

CONSTANTS
    Clients,            \* threads that call the port
    Runs,               \* run ids
    Id,                 \* the experiment
    MaxCalls            \* bound on the calls

VARIABLES
    sqlite, postgres, mongo,    \* the stores
    pc,                         \* what each thread is in the middle of
    held,                       \* and the arguments and documents it holds
    stale,                      \* an UPDATE has written over one it had not seen
    calls

vars == <<sqlite, postgres, mongo, pc, held, stale, calls>>

(* What the callers write of an experiment: a verdict or what a boot or a  *)
(* GET derives, the pre-embedding state, and the count of golden queries   *)
(* in the summary; and of a run, its phases.                               *)
Reconciled == [status |-> "complete", completed_at |-> "now", failed_count |-> 1]
PreEmbedState == [pre_embed |-> "ready"]
GoldenCount == [sweep_summary |-> "golden"]
Updates == {Reconciled, PreEmbedState, GoldenCount}

PhaseUpdates == {[phase |-> "failed", error_message |-> "error", elapsed_ms |-> 1],
                 [phase |-> "complete", error_message |-> "none", elapsed_ms |-> 2]}

NewExperiment == [status |-> "running", completed_at |-> "none", sweep_summary |-> "plan"]
NewRun == [experiment_id |-> Id, phase |-> "queued", error_message |-> "none"]

Init ==
    /\ sqlite = SqliteInsertExperiment(EmptyStore, Id, NewExperiment)
    /\ postgres = PostgresInsertExperiment(EmptyStore, Id, NewExperiment)
    /\ mongo = MongoInsertExperiment(EmptyStore, Id, NewExperiment)
    /\ pc = [c \in Clients |-> "idle"]
    /\ held = [c \in Clients |-> <<>>]
    /\ stale = FALSE
    /\ calls = 0

-----------------------------------------------------------------------------
Call(c, next) ==
    /\ pc[c] = "idle" /\ calls < MaxCalls
    /\ calls' = calls + 1
    /\ pc' = [pc EXCEPT ![c] = next]

Return(c) ==
    /\ pc' = [pc EXCEPT ![c] = "idle"]
    /\ held' = [held EXCEPT ![c] = <<>>]
    /\ UNCHANGED calls

UpdateReads(c, update) ==
    /\ Call(c, "update")
    /\ held' = [held EXCEPT ![c] = [update |-> update,
                                    read   |-> SqliteReadDoc(sqlite.experiments, Id)]]
    /\ UNCHANGED <<sqlite, postgres, mongo, stale>>

UpdateWrites(c) ==
    LET read == held[c].read  update == held[c].update
    IN  /\ pc[c] = "update"
        /\ sqlite' = SqliteUpdateExperiment(sqlite, Id, read, update)
        /\ postgres' = PostgresUpdateExperiment(postgres, Id, update)
        /\ mongo' = MongoUpdateExperiment(mongo, Id, update)
        /\ stale' = (stale \/ read # SqliteReadDoc(sqlite.experiments, Id))
        /\ Return(c)

PhaseReads(c, run, update) ==
    /\ Call(c, "phase")
    /\ held' = [held EXCEPT ![c] = [run |-> run, update |-> update,
                                    read |-> SqliteReadDoc(sqlite.runs, run)]]
    /\ UNCHANGED <<sqlite, postgres, mongo, stale>>

PhaseWrites(c) ==
    LET read == held[c].read  update == held[c].update  run == held[c].run
    IN  /\ pc[c] = "phase"
        /\ sqlite' = SqliteUpdateRunPhase(sqlite, run, read, update)
        /\ postgres' = PostgresUpdateRunPhase(postgres, run, update)
        /\ mongo' = MongoUpdateRunPhase(mongo, run, update)
        /\ stale' = (stale \/ read # SqliteReadDoc(sqlite.runs, run))
        /\ Return(c)

Mark(c, columns) ==
    /\ Call(c, "idle")
    /\ sqlite' = SqliteMark(sqlite, Id, columns)
    /\ postgres' = PostgresMark(postgres, Id, columns)
    /\ mongo' = MongoMark(mongo, Id, columns)
    /\ UNCHANGED <<held, stale>>

InsertRun(c, run) ==
    /\ Call(c, "idle")
    /\ sqlite' = SqliteInsertRun(sqlite, run, NewRun)
    /\ postgres' = PostgresInsertRun(postgres, run, NewRun)
    /\ mongo' = MongoInsertRun(mongo, run, NewRun)
    /\ UNCHANGED <<held, stale>>

InsertResult(c, run) ==
    /\ Call(c, "idle")
    /\ sqlite' = SqliteInsertResult(sqlite, Id, run)
    /\ postgres' = PostgresInsertResult(postgres, Id, run)
    /\ mongo' = MongoInsertResult(mongo, Id, run)
    /\ UNCHANGED <<held, stale>>

Delete(c, step) ==
    /\ sqlite' = SqliteDelete(sqlite, Id, step)
    /\ postgres' = PostgresDelete(postgres, Id, step)
    /\ mongo' = MongoDelete(mongo, Id, step)
    /\ UNCHANGED <<held, stale>>

DeleteResults(c) == Call(c, "runs") /\ Delete(c, "results")
DeleteRuns(c) ==
    /\ pc[c] = "runs" /\ pc' = [pc EXCEPT ![c] = "experiment"]
    /\ Delete(c, "runs") /\ UNCHANGED calls
DeleteExperiment(c) ==
    /\ pc[c] = "experiment" /\ pc' = [pc EXCEPT ![c] = "idle"]
    /\ Delete(c, "experiment") /\ UNCHANGED calls

(* The server goes down in the middle of any call; the boot interrupts the *)
(* rows of running experiments before the first request.                   *)
CrashAndBoot ==
    LET error == "interrupted"
        rows(running, runs) == IF Id \in running THEN runs ELSE {}
    IN  /\ calls < MaxCalls /\ calls' = calls + 1
        /\ pc' = [c \in Clients |-> "idle"]
        /\ held' = [c \in Clients |-> <<>>]
        /\ sqlite' = SqliteInterrupt(sqlite,
              rows(SqliteRunning(sqlite), SqliteRunsInPhase(sqlite, Id, "queued")), error)
        /\ postgres' = PostgresInterrupt(postgres,
              rows(PostgresRunning(postgres), PostgresRunsInPhase(postgres, Id, "queued")), error)
        /\ mongo' = MongoInterrupt(mongo,
              rows(MongoRunning(mongo), MongoRunsInPhase(mongo, Id, "queued")), error)
        /\ UNCHANGED stale

Next ==
    \/ \E c \in Clients :
          \/ \E update \in Updates : UpdateReads(c, update)
          \/ UpdateWrites(c)
          \/ \E run \in Runs, update \in PhaseUpdates : PhaseReads(c, run, update)
          \/ PhaseWrites(c)
          \/ Mark(c, [status |-> "cancelled", completed_at |-> "now"])
          \/ Mark(c, [status |-> "running", completed_at |-> "none"])
          \/ \E run \in Runs : InsertRun(c, run) \/ InsertResult(c, run)
          \/ DeleteResults(c) \/ DeleteRuns(c) \/ DeleteExperiment(c)
    \/ CrashAndBoot

Spec == Init /\ [][Next]_vars

-----------------------------------------------------------------------------
Exists == Id \in DOMAIN mongo.experiments

(* As long as no two updates of one SQLite row overlapped, every read of   *)
(* an experiment finds the same in the three stores: its document, its     *)
(* runs in every phase, and its results. Rows of a deleted experiment, if  *)
(* Mongo has some, are not read any more.                                  *)
StoresAgree ==
    ~stale =>
        /\ SqliteFind(sqlite, Id) = PostgresFind(postgres, Id)
        /\ PostgresFind(postgres, Id) = MongoFind(mongo, Id)
        /\ SqliteRuns(sqlite, Id) = PostgresRuns(postgres, Id)
        /\ SqliteResults(sqlite, Id) = PostgresResults(postgres, Id)
        /\ Exists => /\ PostgresRuns(postgres, Id) = MongoRuns(mongo, Id)
                     /\ PostgresResults(postgres, Id) = MongoResults(mongo, Id)

(* What overlapping updates of SQLite lose is in the JSON document, never  *)
(* in a column: experiments are in the same status and runs in the same    *)
(* phase as in the stores that update in one statement.                    *)
ColumnsAreNotLost ==
    /\ SqliteRunning(sqlite) = PostgresRunning(postgres)
    /\ PostgresRunning(postgres) = MongoRunning(mongo)
    /\ \A phase \in {"queued", "failed", "complete", "interrupted"} :
          /\ SqliteRunsInPhase(sqlite, Id, phase) = PostgresRunsInPhase(postgres, Id, phase)
          /\ Exists => PostgresRunsInPhase(postgres, Id, phase)
                            = MongoRunsInPhase(mongo, Id, phase)

(* The SQL stores keep no row of an experiment they do not have, wherever  *)
(* a delete is overtaken by a run or stopped by a crash.                   *)
RowsHaveTheirExperiment ==
    \A store \in {sqlite, postgres} :
        /\ \A r \in DOMAIN store.runs :
              store.runs[r].columns.experiment_id \in DOMAIN store.experiments
        /\ \A x \in store.results : x.experiment_id \in DOMAIN store.experiments
=============================================================================
