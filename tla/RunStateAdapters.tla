-------------------------- MODULE RunStateAdapters -------------------------
(***************************************************************************)
(* The three adapters of the StorageBackend port as operators on the state *)
(* of their store. A document is a function on its fields; SQLite and      *)
(* Postgres split it into columns and a JSON document, Mongo keeps it.     *)
(* Each method is one statement or, where the code has two, two operators. *)
(***************************************************************************)
EXTENDS Functions, FiniteSets

ExperimentColumns == {"status", "completed_at"}
RunColumns == {"experiment_id", "phase"}
AllColumns == ExperimentColumns \cup RunColumns

EmptyStore == [experiments |-> <<>>, runs |-> <<>>, results |-> {}]

(* A document, or the columns of a row, after an update of some fields.    *)
Updated(doc, update) == [field \in DOMAIN doc \cup DOMAIN update |->
                            IF field \in DOMAIN update THEN update[field] ELSE doc[field]]

ToJson(doc) == Restrict(doc, DOMAIN doc \ AllColumns)
Promoted(doc) == Restrict(doc, DOMAIN doc \cap AllColumns)

ToRow(doc) == [columns |-> Promoted(doc), doc |-> ToJson(doc)]

(* On read the columns win over what the JSON document may still hold.     *)
RowToDoc(row) == Updated(row.doc, row.columns)
RowsToDocs(rows) == [key \in DOMAIN rows |-> RowToDoc(rows[key])]

RunsOf(docs, id) == {r \in DOMAIN docs : docs[r].experiment_id = id}

Without(table, key) == Restrict(table, DOMAIN table \ {key})
RowsElsewhere(rows, id) ==
    Restrict(rows, {r \in DOMAIN rows : rows[r].columns.experiment_id # id})
Elsewhere(results, id) == {x \in results : x.experiment_id # id}

Put(table, key, value) == [k \in DOMAIN table \cup {key} |->
                              IF k = key THEN value ELSE table[k]]

Interruption(error) == [phase |-> "interrupted", error_message |-> error]

-----------------------------------------------------------------------------
(* SQLite: INSERT OR IGNORE; a row without its experiment is refused.      *)
SqliteInsertExperiment(s, id, doc) ==
    IF id \in DOMAIN s.experiments THEN s
    ELSE [s EXCEPT !.experiments = Put(@, id, ToRow(doc))]

SqliteInsertRun(s, run, doc) ==
    IF run \in DOMAIN s.runs \/ doc.experiment_id \notin DOMAIN s.experiments THEN s
    ELSE [s EXCEPT !.runs = Put(@, run, ToRow(doc))]

SqliteInsertResult(s, id, run) ==
    IF id \notin DOMAIN s.experiments THEN s
    ELSE [s EXCEPT !.results = @ \cup {[experiment_id |-> id, run_id |-> run]}]

(* The SELECT of update_experiment and of update_run_phase.                *)
SqliteReadDoc(table, key) == IF key \in DOMAIN table THEN table[key].doc ELSE <<>>

(* Mutant of SqliteWriteDoc: the columns go through the document, too.     *)
SqliteWriteWhole(table, key, read, update) ==
    IF key \notin DOMAIN table THEN table
    ELSE [table EXCEPT ![key] = [columns |-> Updated(@.columns, Promoted(Updated(read, update))),
                                 doc     |-> Updated(read, update)]]

(* Their UPDATE: what was read, merged with the update.                    *)
SqliteWriteDoc(table, key, read, update) ==
    IF key \notin DOMAIN table THEN table
    ELSE [table EXCEPT ![key] = [columns |-> Updated(@.columns, Promoted(update)),
                                 doc     |-> Updated(read, ToJson(update))]]

SqliteUpdateExperiment(s, id, read, update) ==
    [s EXCEPT !.experiments = SqliteWriteDoc(@, id, read, update)]

SqliteUpdateRunPhase(s, run, read, update) ==
    [s EXCEPT !.runs = SqliteWriteDoc(@, run, read, update)]

SqliteMark(s, id, columns) ==
    IF id \notin DOMAIN s.experiments THEN s
    ELSE [s EXCEPT !.experiments[id].columns = Updated(@, columns)]

(* Row by row in the code, at a boot, when nobody else writes: what a      *)
(* crash leaves of it, the next boot does.                                 *)
SqliteInterrupt(s, runs, error) ==
    [s EXCEPT !.runs = [r \in DOMAIN @ |->
        IF r \in runs THEN SqliteWriteDoc(@, r, @[r].doc, Interruption(error))[r]
        ELSE @[r]]]

SqliteDelete(s, id, step) ==
    CASE step = "results"  -> [s EXCEPT !.results = Elsewhere(@, id)]
      [] step = "runs"     -> [s EXCEPT !.runs = RowsElsewhere(@, id)]
      [] step = "experiment" ->     \* ON DELETE CASCADE
            [experiments |-> Without(s.experiments, id), runs |-> RowsElsewhere(s.runs, id),
             results |-> Elsewhere(s.results, id)]

SqliteRuns(s, id) == Restrict(RowsToDocs(s.runs), RunsOf(RowsToDocs(s.runs), id))

SqliteRunsInPhase(s, id, phase) ==
    {r \in DOMAIN s.runs : s.runs[r].columns = [experiment_id |-> id, phase |-> phase]}

SqliteFind(s, id) == Restrict(RowsToDocs(s.experiments), {id} \cap DOMAIN s.experiments)

SqliteResults(s, id) == {x.run_id : x \in s.results \ Elsewhere(s.results, id)}

SqliteRunning(s) ==
    {id \in DOMAIN s.experiments : s.experiments[id].columns.status = "running"}

-----------------------------------------------------------------------------
(* Postgres: a second row of a key is refused, as is one without its       *)
(* experiment; an update merges in the statement itself.                   *)
PostgresInsertExperiment(s, id, doc) ==
    IF id \in DOMAIN s.experiments THEN s
    ELSE [s EXCEPT !.experiments = Put(@, id, ToRow(doc))]

PostgresInsertRun(s, run, doc) ==
    IF run \in DOMAIN s.runs \/ doc.experiment_id \notin DOMAIN s.experiments THEN s
    ELSE [s EXCEPT !.runs = Put(@, run, ToRow(doc))]

PostgresInsertResult(s, id, run) ==
    IF id \notin DOMAIN s.experiments THEN s
    ELSE [s EXCEPT !.results = @ \cup {[experiment_id |-> id, run_id |-> run]}]

UpdateStatement(table, key, update) ==
    IF key \notin DOMAIN table THEN table
    ELSE [table EXCEPT ![key] = [columns |-> Updated(@.columns, Promoted(update)),
                                 doc     |-> Updated(@.doc, ToJson(update))]]

PostgresUpdateExperiment(s, id, update) ==
    [s EXCEPT !.experiments = UpdateStatement(@, id, update)]

PostgresUpdateRunPhase(s, run, update) ==
    [s EXCEPT !.runs = UpdateStatement(@, run, update)]

PostgresMark(s, id, columns) == PostgresUpdateExperiment(s, id, columns)

PostgresInterrupt(s, runs, error) ==
    [s EXCEPT !.runs = [r \in DOMAIN @ |->
        IF r \in runs THEN UpdateStatement(@, r, Interruption(error))[r]
        ELSE @[r]]]

(* Mutant of PostgresDelete: the rows are left to the next statement.      *)
PostgresDeleteUncascaded(s, id, step) ==
    CASE step = "results"    -> [s EXCEPT !.results = Elsewhere(@, id)]
      [] step = "runs"       -> [s EXCEPT !.runs = RowsElsewhere(@, id)]
      [] step = "experiment" -> [s EXCEPT !.experiments = Without(@, id)]

PostgresDelete(s, id, step) ==
    CASE step = "results"    -> [s EXCEPT !.results = Elsewhere(@, id)]
      [] step = "runs"       -> [s EXCEPT !.runs = RowsElsewhere(@, id)]
      [] step = "experiment" ->     \* ON DELETE CASCADE
            [experiments |-> Without(s.experiments, id), runs |-> RowsElsewhere(s.runs, id),
             results |-> Elsewhere(s.results, id)]

PostgresRuns(s, id) == Restrict(RowsToDocs(s.runs), RunsOf(RowsToDocs(s.runs), id))

PostgresRunsInPhase(s, id, phase) ==
    {r \in DOMAIN s.runs : s.runs[r].columns = [experiment_id |-> id, phase |-> phase]}

PostgresFind(s, id) == Restrict(RowsToDocs(s.experiments), {id} \cap DOMAIN s.experiments)

PostgresResults(s, id) == {x.run_id : x \in s.results \ Elsewhere(s.results, id)}

PostgresRunning(s) ==
    {id \in DOMAIN s.experiments : s.experiments[id].columns.status = "running"}

-----------------------------------------------------------------------------
(* Mongo: $set on the whole document, and nothing ties a row to its        *)
(* experiment.                                                             *)
MongoInsertExperiment(s, id, doc) ==
    IF id \in DOMAIN s.experiments THEN s ELSE [s EXCEPT !.experiments = Put(@, id, doc)]

MongoInsertRun(s, run, doc) ==
    IF run \in DOMAIN s.runs THEN s ELSE [s EXCEPT !.runs = Put(@, run, doc)]

MongoInsertResult(s, id, run) ==
    [s EXCEPT !.results = @ \cup {[experiment_id |-> id, run_id |-> run]}]

Set(collection, key, update) ==
    IF key \notin DOMAIN collection THEN collection
    ELSE [collection EXCEPT ![key] = Updated(@, update)]

(* Mutant of MongoUpdateExperiment: the update replaces the document.      *)
MongoReplaceExperiment(s, id, update) ==
    [s EXCEPT !.experiments = [k \in DOMAIN @ |->
        IF k = id THEN Updated(Promoted(@[k]), update) ELSE @[k]]]

MongoUpdateExperiment(s, id, update) == [s EXCEPT !.experiments = Set(@, id, update)]

MongoUpdateRunPhase(s, run, update) == [s EXCEPT !.runs = Set(@, run, update)]

MongoMark(s, id, columns) == MongoUpdateExperiment(s, id, columns)

MongoInterrupt(s, runs, error) ==
    [s EXCEPT !.runs = [r \in DOMAIN @ |->
        IF r \in runs THEN Updated(@[r], Interruption(error)) ELSE @[r]]]

MongoDelete(s, id, step) ==
    CASE step = "results"    -> [s EXCEPT !.results = Elsewhere(@, id)]
      [] step = "runs"       -> [s EXCEPT !.runs =
                                    Restrict(@, {r \in DOMAIN @ : @[r].experiment_id # id})]
      [] step = "experiment" -> [s EXCEPT !.experiments = Without(@, id)]

MongoRuns(s, id) == Restrict(s.runs, RunsOf(s.runs, id))

MongoRunsInPhase(s, id, phase) ==
    {r \in DOMAIN s.runs : s.runs[r].experiment_id = id /\ s.runs[r].phase = phase}

MongoFind(s, id) == Restrict(s.experiments, {id} \cap DOMAIN s.experiments)

MongoResults(s, id) == {x.run_id : x \in s.results \ Elsewhere(s.results, id)}

MongoRunning(s) == {id \in DOMAIN s.experiments : s.experiments[id].status = "running"}
=============================================================================
