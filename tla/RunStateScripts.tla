-------------------------- MODULE RunStateScripts --------------------------
(***************************************************************************)
(* The two offline scripts that move run state, and the SQLite file they   *)
(* both end in. migrate_run_state_to_sqlite copies a Mongo or Postgres     *)
(* store into it and may drop the source; merge_run_state_dbs merges two   *)
(* backup copies into a third file and promotes that. A script may be      *)
(* killed between any two steps and run again, and a server may write to   *)
(* the store it uses meanwhile.                                            *)
(*                                                                         *)
(* A row is its experiment, its table and a version of its content. A      *)
(* server updates the experiments and run_status rows and only ever adds   *)
(* results, so that a key of results may have two rows in a source.        *)
(* Version 0 of an experiments row is status running.                      *)
(***************************************************************************)
EXTENDS Integers, FiniteSets, Sequences

CONSTANTS
    Sources,        \* kinds of source store: subset of {"mongo", "postgres"}
    Experiments,    \* experiment ids
    MaxHost,        \* bound on the experiments of the host copy
    MaxWrites,      \* bound on what the servers write
    MaxScripts      \* bound on the scripts started

ASSUME ExperimentsAssumption == IsFiniteSet(Experiments)

Tables == {"experiments", "run_status", "results"}
Row == [exp : Experiments, table : Tables, v : {0, 1}]

VARIABLES
    kind, source,   \* the store the migration reads
    db, wal,        \* run_state.db, with the rows its WAL still holds
    host, volume,   \* the verified backup copies
    merged,         \* run_state.merged.db
    archive,        \* run_state_pre_promote_*
    files,          \* which of "db" and "merged" there are
    walOf,          \* the database the WAL was written for
    dbIs,           \* the database that has the name run_state.db
    step,           \* what the script under way does next
    read,           \* the rows the migration has read
    late,           \* keys written to the source since their table was read
    writes,         \* number of writes of the servers
    scripts         \* number of scripts started

src == <<kind, source, writes>>
live == <<db, wal, walOf, dbIs>>
copies == <<host, volume, archive>>
vars == <<src, live, copies, merged, files, step, read, late, scripts>>

Key(row) == <<row.exp, row.table>>
Keys(rows) == {Key(r) : r \in rows}
Of(rows, t) == {r \in rows : r.table = t}
About(rows, e) == {r \in rows : r.exp = e}
Ids(rows) == {r.exp : r \in Of(rows, "experiments")}

(* The first rows of a conflict win: committed rows of the WAL over db's.  *)
Over(rows, others) == rows \cup {r \in others : Key(r) \notin Keys(rows)}
Live == Over(wal, db)

(* A backup of either file holds any of the experiments: running, ended,  *)
(* or ended with other results.                                            *)
Whole(e, v, w) == {[exp |-> e, table |-> t, v |-> IF t = "results" THEN w ELSE v] : t \in Tables}
Contents(e) == {{}, Whole(e, 0, 0), Whole(e, 1, 0), Whole(e, 1, 1)}
Backups == {UNION {f[e] : e \in Experiments} :
              f \in {g \in [Experiments -> UNION {Contents(e) : e \in Experiments}] :
                       \A e \in Experiments : g[e] \in Contents(e)}}

Starts(first) ==
    /\ step = "none" /\ scripts < MaxScripts
    /\ step' = first /\ scripts' = scripts + 1
    /\ UNCHANGED <<read, late>>

(* A script that ends or is killed forgets what it has read.               *)
Goes(next) ==
    /\ step' = next
    /\ UNCHANGED scripts
    /\ IF next = "none" THEN read' = {} /\ late' = {} ELSE UNCHANGED <<read, late>>

Init ==
    /\ kind \in Sources
    /\ source = {} /\ writes = 0 /\ scripts = 0
    /\ host \in {rows \in Backups : Cardinality(Ids(rows)) <= MaxHost}
    /\ volume \in Backups
    /\ db = host /\ wal = {} /\ walOf = "old" /\ dbIs = "old"
    /\ merged = {} /\ archive = {} /\ files = {"db"}
    /\ step = "none" /\ read = {} /\ late = {}

-----------------------------------------------------------------------------
(* Servers: one on the source store, one on the SQLite file.               *)
(* An experiment is created running under an id nothing has (uuid4).       *)
SourceWrites(row) ==
    /\ writes < MaxWrites /\ row \notin source
    /\ IF row.exp \in Ids(source) THEN TRUE
       ELSE /\ row.table = "experiments" /\ row.v = 0
            /\ About(source \cup Live \cup merged \cup archive \cup host \cup volume,
                     row.exp) = {}
    /\ source' = {row} \cup IF row.table = "results" THEN source
                            ELSE {r \in source : Key(r) # Key(row)}
    /\ writes' = writes + 1
    /\ late' = IF step \in {"none", "experiments"}
                \/ (step = "run_status" /\ row.table # "experiments")
                \/ (step = "results" /\ row.table = "results")
               THEN late ELSE late \cup {Key(row)}
    /\ UNCHANGED <<kind, live, copies, merged, files, step, read, scripts>>

LiveWrites(row) ==
    /\ "db" \in files /\ step # "promote"
    /\ writes < MaxWrites /\ row \notin Live
    /\ row.table # "results" /\ row.exp \in Ids(Live)
    /\ wal' = Over({row}, wal) /\ walOf' = dbIs
    /\ writes' = writes + 1
    /\ UNCHANGED <<kind, source, late, db, dbIs, copies, merged, files, step, read, scripts>>

(* The last connection that closes moves the WAL into the database.        *)
Checkpoint ==
    /\ "db" \in files /\ wal # {}
    /\ db' = Live /\ wal' = {}
    /\ UNCHANGED <<src, walOf, dbIs, copies, merged, files, step, read, late, scripts>>

-----------------------------------------------------------------------------
(* migrate_run_state_to_sqlite --execute [--drop-source].                  *)
StartMigration ==
    /\ Starts("experiments") /\ "db" \in files
    /\ UNCHANGED <<src, live, copies, merged, files>>

(* The three collections are read one after the other.                     *)
ReadTable(t, next) ==
    /\ step = t
    /\ read' = read \cup Of(source, t)
    /\ step' = next
    /\ UNCHANGED <<src, late, live, copies, merged, files, scripts>>

(* One transaction; a key the target has is passed over, whatever it holds,*)
(* and of two results of a key the first is copied.                        *)
WriteSqlite ==
    /\ step = "write"
    /\ \E new \in SUBSET read :
         /\ Keys(new) = Keys(read) \ Keys(Live) /\ Cardinality(new) = Cardinality(Keys(new))
         /\ wal' = wal \cup new
    /\ walOf' = dbIs
    /\ step' = "verify"
    /\ UNCHANGED <<src, late, read, db, dbIs, copies, merged, files, scripts>>

(* The counts of the target may not be smaller; the drop is optional.      *)
VerifyParity ==
    /\ step = "verify"
    /\ IF \A t \in Tables : Cardinality(Of(read, t)) <= Cardinality(Of(Live, t))
       THEN \E next \in {"none", "drop 1"} : Goes(next)
       ELSE Goes("none")
    /\ UNCHANGED <<src, live, copies, merged, files>>

DropOrder == IF kind = "mongo" THEN <<"experiments", "run_status", "results">>
             ELSE <<"results", "run_status", "experiments">>
DropSteps == <<"drop 1", "drop 2", "drop 3", "none">>

(* Mutant of DropsRow: the whole table is dropped.                         *)
DropsAnyRow(r, t) == r.table = t

(* The rows of the experiments that were read, whatever they are by now.   *)
DropsRow(r, t) == r.table = t /\ r.exp \in Ids(read)

DropSource(n) ==
    /\ step = DropSteps[n]
    /\ source' = {r \in source : ~DropsRow(r, DropOrder[n])}
    /\ Goes(DropSteps[n + 1])
    /\ UNCHANGED <<kind, writes, live, copies, merged, files>>

-----------------------------------------------------------------------------
(* merge_run_state_dbs --execute: the host copy, then the checks, then one *)
(* transaction. A check that fails leaves the copy behind.                 *)
BackupCopy ==
    /\ Starts("merge")
    /\ merged' = host /\ files' = files \cup {"merged"}
    /\ UNCHANGED <<src, live, copies>>

NoneRunning(rows) == \A r \in Of(rows, "experiments") : r.v # 0

(* Mutant of SameContent: the digest of the experiments row alone.         *)
SameExperiment(rows, others, e) == Of(About(rows, e), "experiments")
                                        = Of(About(others, e), "experiments")

(* experiment_content_digest.                                              *)
SameContent(rows, others, e) == About(rows, e) = About(others, e)

ToMove == Ids(volume) \ Ids(merged)

NoCollision == \A e \in Ids(volume) \cap Ids(merged) : SameContent(merged, volume, e)

MoveExperiments ==
    /\ step = "merge"
    /\ NoneRunning(merged) /\ NoneRunning(volume) /\ NoCollision
    /\ merged' = merged \cup UNION {About(volume, e) : e \in ToMove}
    /\ Goes("merged")
    /\ UNCHANGED <<src, live, copies, files>>

MergeRefused ==
    /\ step = "merge"
    /\ ~(NoneRunning(merged) /\ NoneRunning(volume) /\ NoCollision)
    /\ Goes("none")
    /\ UNCHANGED <<src, live, copies, merged, files>>

MergeReported ==
    /\ step = "merged" /\ Goes("none")
    /\ UNCHANGED <<src, live, copies, merged, files>>

(* merge_run_state_dbs --promote --execute: the database, its WAL, then    *)
(* the merged file are moved; the server is stopped.                       *)
StartPromote ==
    /\ Starts("promote") /\ "merged" \in files
    /\ UNCHANGED <<src, live, copies, merged, files>>

ArchiveDb ==
    /\ step = "promote" /\ "db" \in files
    /\ archive' = archive \cup db
    /\ db' = {} /\ dbIs' = "none" /\ files' = files \ {"db"}
    /\ UNCHANGED <<src, wal, walOf, host, volume, merged, step, read, late, scripts>>

ArchiveWal ==
    /\ step = "promote" /\ "db" \notin files /\ wal # {}
    /\ archive' = archive \cup wal
    /\ wal' = {}
    /\ UNCHANGED <<src, db, walOf, dbIs, host, volume, merged, files, step, read, late, scripts>>

(* Mutant of Archived: the database is archived without its WAL.           *)
ArchivedDb == "db" \notin files

Archived == "db" \notin files /\ wal = {}

MoveMerged ==
    /\ step = "promote" /\ Archived
    /\ db' = merged /\ dbIs' = "merged"
    /\ merged' = {} /\ files' = {"db"}
    /\ Goes("none")
    /\ UNCHANGED <<src, wal, walOf, copies>>

-----------------------------------------------------------------------------
(* The script is killed; run again, a promotion goes on with what it finds.*)
Killed ==
    /\ step # "none"
    /\ Goes("none")
    /\ UNCHANGED <<src, live, copies, merged, files>>

Migrate ==
    \/ StartMigration
    \/ ReadTable("experiments", "run_status") \/ ReadTable("run_status", "results")
    \/ ReadTable("results", "write")
    \/ WriteSqlite \/ VerifyParity
    \/ \E n \in 1 .. 3 : DropSource(n)

Merge == BackupCopy \/ MoveExperiments \/ MergeRefused \/ MergeReported

Promote == StartPromote \/ ArchiveDb \/ ArchiveWal \/ MoveMerged

Next ==
    \/ \E row \in Row : SourceWrites(row) \/ LiveWrites(row)
    \/ Checkpoint
    \/ Migrate \/ Merge \/ Promote \/ Killed

Spec == Init /\ [][Next]_vars

-----------------------------------------------------------------------------
(* A row that leaves the source has its key in the target, or in what a    *)
(* promotion archived, whatever was killed and run again: an experiment    *)
(* created while the script runs keeps its rows. What a server wrote about *)
(* an experiment of the migration, since the table was read, is excepted.  *)
DroppedIsCopied ==
    [][\A r \in source : Key(r) \in Keys(source') \cup Keys(Live') \cup Keys(archive')
            \cup {k \in late : k[1] \in Ids(read)}]_vars

(* A merge that reports success holds every row of both copies, none twice.*)
MergedIsWhole ==
    step = "merged" => /\ merged = host \cup volume
                       /\ Cardinality(Keys(merged)) = Cardinality(merged)

(* A WAL lies beside the database it was written for or beside none: the   *)
(* promoted file never opens with the WAL of the one it replaced.          *)
WalFollowsItsDatabase == wal # {} /\ "db" \in files => walOf = dbIs
=============================================================================
