------------------------ MODULE RunStateScriptsProofs -----------------------
(***************************************************************************)
(* The safety of the migration and of the merge, for any experiments, any  *)
(* backup copies and any number of scripts, writes and kills: what the     *)
(* migration drops it has copied or knows to be late, a merge that reports *)
(* success is the union of the copies, and no database opens with the WAL  *)
(* of another.                                                             *)
(***************************************************************************)
EXTENDS RunStateScripts, FiniteSetTheorems, TLAPS

Copied == {"verify", "drop 1", "drop 2", "drop 3"}

(* The tables the migration under way has read.                            *)
ReadTables ==
    CASE step = "run_status" -> {"experiments"}
      [] step = "results"    -> {"experiments", "run_status"}
      [] step \in {"write"} \cup Copied -> Tables
      [] OTHER -> {}

(* A row of a table that was read has its key among those read, or it was  *)
(* written since; once they are written, the keys read stay in the target. *)
MigrationInv ==
    /\ source \subseteq Row
    /\ \A r \in source : r.table \in ReadTables => Key(r) \in Keys(read) \cup late
    /\ step \in Copied => Keys(read) \subseteq Keys(wal) \cup Keys(db)

(* A merge starts from the host copy; either copy has one row of a table   *)
(* of an experiment, none without that of the experiments table.           *)
IsBackup(rows) ==
    /\ rows \subseteq Row
    /\ \A r \in rows : r.exp \in Ids(rows)
    /\ \A r1, r2 \in rows : Key(r1) = Key(r2) => r1 = r2

MergeInv ==
    /\ IsBackup(host) /\ IsBackup(volume)
    /\ step = "merge" => merged = host
    /\ MergedIsWhole

Inv == MigrationInv /\ MergeInv /\ WalFollowsItsDatabase

-----------------------------------------------------------------------------
(* Rows over others have the keys of both.                                 *)
LEMMA OverHasBothKeys ==
  ASSUME NEW rows, NEW others
  PROVE  Keys(Over(rows, others)) = Keys(rows) \cup Keys(others)
BY DEF Over, Keys

(* Every backup copy is one row for each table of whole experiments.       *)
LEMMA BackupsAreBackups == ASSUME NEW rows \in Backups PROVE IsBackup(rows)
<1>1. PICK f \in [Experiments -> UNION {Contents(e) : e \in Experiments}] :
         /\ \A e \in Experiments : f[e] \in Contents(e)
         /\ rows = UNION {f[e] : e \in Experiments}
  BY DEF Backups
<1>2. \A r \in rows : \E e \in Experiments : r \in f[e]
  BY <1>1
<1>3. ASSUME NEW e \in Experiments, NEW r \in f[e]
      PROVE  /\ r \in Row /\ r.exp = e
             /\ \E x \in f[e] : x.exp = e /\ x.table = "experiments"
             /\ \A x \in f[e] : Key(x) = Key(r) => x = r
  <2>1. PICK v \in {0, 1}, w \in {0, 1} : f[e] = Whole(e, v, w)
    BY <1>1, <1>3 DEF Contents
  <2>2. \A x \in f[e] : \E t \in Tables :
           x = [exp |-> e, table |-> t, v |-> IF t = "results" THEN w ELSE v]
    BY <2>1 DEF Whole
  <2>3. [exp |-> e, table |-> "experiments", v |-> v] \in f[e]
    BY <2>1 DEF Whole, Tables
  <2> QED
    BY <2>2, <2>3 DEF Row, Key
<1>4. \A r \in rows : r \in Row /\ r.exp \in Ids(rows)
  BY <1>1, <1>2, <1>3 DEF Ids, Of
<1>5. \A r1, r2 \in rows : Key(r1) = Key(r2) => r1 = r2
  BY <1>2, <1>3 DEF Key
<1> QED
  BY <1>4, <1>5 DEF IsBackup

(* A set of rows with one row of a key has as many keys as rows.           *)
LEMMA OneRowOfAKey ==
  ASSUME NEW rows \in SUBSET Row, \A r1, r2 \in rows : Key(r1) = Key(r2) => r1 = r2
  PROVE  Cardinality(Keys(rows)) = Cardinality(rows)
<1> DEFINE f == [r \in rows |-> Key(r)]
<1>1. IsFiniteSet(Tables)
  <2>1. Tables = {"experiments", "run_status", "results"}
    BY DEF Tables
  <2>2. IsFiniteSet({"experiments"}) /\ IsFiniteSet({"run_status"}) /\ IsFiniteSet({"results"})
    BY FS_Singleton
  <2>3. IsFiniteSet(({"experiments"} \cup {"run_status"}) \cup {"results"})
    BY <2>2, FS_Union
  <2>4. Tables = ({"experiments"} \cup {"run_status"}) \cup {"results"}
    BY <2>1
  <2> QED
    BY <2>3, <2>4
<1>2. IsFiniteSet(Experiments \X Tables)
  BY <1>1, ExperimentsAssumption, FS_Product
<1>3. Keys(rows) \subseteq Experiments \X Tables
  BY DEF Keys, Key, Row
<1>4. IsFiniteSet(Keys(rows))
  BY <1>2, <1>3, FS_Subset
<1>5. f \in [rows -> Keys(rows)] /\ \A k \in Keys(rows) : \E r \in rows : f[r] = k
  BY DEF Keys
<1>6. \A r1, r2 \in rows : f[r1] = f[r2] => r1 = r2
  OBVIOUS
<1>7. f \in Injection(rows, Keys(rows)) /\ f \in Surjection(rows, Keys(rows))
  BY <1>5, <1>6, Zenon DEF Injection, IsInjective, Surjection
<1> HIDE DEF f
<1> QED
  BY <1>4, <1>7, FS_Injection

-----------------------------------------------------------------------------
(* Nothing is lost in the initial states: no script has started.           *)
LEMMA InitInv == Init => Inv
<1> SUFFICES ASSUME Init PROVE Inv
  OBVIOUS
<1>1. MigrationInv
  BY DEF Init, MigrationInv, ReadTables, Copied
<1>2. host \in Backups /\ volume \in Backups
  BY DEF Init
<1>3. MergeInv
  BY <1>2, BackupsAreBackups DEF Init, MergeInv, MergedIsWhole
<1> QED
  BY <1>1, <1>3 DEF Init, Inv, WalFollowsItsDatabase

(* A server of the source: a row whose table was read becomes late.        *)
LEMMA SourceWritesKeepsInv ==
  ASSUME Inv, NEW row \in Row, SourceWrites(row)
  PROVE  Inv'
<1>1. /\ source' \subseteq source \cup {row} /\ read' = read /\ step' = step
      /\ UNCHANGED <<live, copies, merged, files>>
      /\ late \subseteq late'
  BY DEF SourceWrites, live, copies
<1>2. row.table \in ReadTables => Key(row) \in late'
  BY DEF SourceWrites, ReadTables, Copied, Tables
<1>3. MigrationInv'
  <2>1. ReadTables' = ReadTables
    BY <1>1 DEF ReadTables
  <2> QED
    BY <1>1, <1>2, <2>1 DEF Inv, MigrationInv, Keys, live
<1> QED
  BY <1>1, <1>3 DEF Inv, MergeInv, MergedIsWhole, WalFollowsItsDatabase, live, copies

(* A server of the target, and the checkpoint, keep the target's keys.     *)
LEMMA TargetKeepsInv ==
  ASSUME Inv, (\E row \in Row : LiveWrites(row)) \/ Checkpoint
  PROVE  Inv'
<1>1. UNCHANGED <<source, read, late, step, copies, merged, files, dbIs>>
  BY DEF LiveWrites, Checkpoint, src
<1>2. Keys(wal) \cup Keys(db) \subseteq Keys(wal') \cup Keys(db')
  <2>1. ASSUME NEW row \in Row, LiveWrites(row)
        PROVE  Keys(wal) \subseteq Keys(wal') /\ db' = db
    BY <2>1, OverHasBothKeys DEF LiveWrites
  <2>2. CASE Checkpoint
    BY <2>2, OverHasBothKeys DEF Checkpoint, Live
  <2> QED
    BY <2>1, <2>2
<1>3. MigrationInv'
  <2>1. ReadTables' = ReadTables
    BY <1>1 DEF ReadTables
  <2> QED
    BY <1>1, <1>2, <2>1 DEF Inv, MigrationInv
<1>4. WalFollowsItsDatabase'
  BY DEF LiveWrites, Checkpoint, WalFollowsItsDatabase
<1> QED
  BY <1>1, <1>3, <1>4 DEF Inv, MergeInv, MergedIsWhole, copies

(* A drop is followed by the next one or by the end of the script.         *)
LEMMA DropsFollow ==
  ASSUME NEW n \in 1 .. 3
  PROVE  DropSteps[n] \in Copied /\ DropSteps[n + 1] \in Copied \cup {"none"}
<1>1. (n = 1 /\ n + 1 = 2) \/ (n = 2 /\ n + 1 = 3) \/ (n = 3 /\ n + 1 = 4)
  OBVIOUS
<1>2. /\ DropSteps[1] = "drop 1" /\ DropSteps[2] = "drop 2"
      /\ DropSteps[3] = "drop 3" /\ DropSteps[4] = "none"
  BY DEF DropSteps
<1>3. {"drop 1", "drop 2", "drop 3"} \subseteq Copied
  BY DEF Copied
<1> QED
  BY <1>1, <1>2, <1>3

(* The migration: a table that is read has its keys among those read, the  *)
(* keys read are written before anything is dropped.                       *)
LEMMA MigrateKeepsInv == Inv /\ Migrate => Inv'
<1> SUFFICES ASSUME Inv, Migrate PROVE Inv'
  OBVIOUS
<1>1. UNCHANGED <<copies, merged, files, db, dbIs>> /\ step' # "merged" /\ step' # "merge"
  <2>1. ASSUME NEW n \in 1 .. 3, DropSource(n)
        PROVE  UNCHANGED <<copies, merged, files, db, dbIs>> /\ step' \in Copied \cup {"none"}
    BY <2>1, DropsFollow DEF DropSource, Goes, live
  <2> QED
    BY <2>1 DEF Migrate, StartMigration, ReadTable, WriteSqlite, VerifyParity, Starts, Goes, live,
                Copied
<1>2. MergeInv'
  BY <1>1 DEF Inv, MergeInv, MergedIsWhole, copies
<1>3. WalFollowsItsDatabase'
  BY <1>1 DEF Inv, WalFollowsItsDatabase, Migrate, StartMigration, ReadTable, WriteSqlite,
              VerifyParity, DropSource, live
<1>4. MigrationInv'
  <2>1. CASE StartMigration
    BY <2>1 DEF StartMigration, Starts, src, live, Inv, MigrationInv, ReadTables, Copied
  <2>2. ASSUME NEW t \in Tables, NEW next,
               ReadTable(t, next),
               <<t, next>> \in {<<"experiments", "run_status">>, <<"run_status", "results">>,
                                <<"results", "write">>}
        PROVE  MigrationInv'
    <3>1. /\ step = t /\ step' = next /\ read' = read \cup Of(source, t)
          /\ UNCHANGED <<source, late, wal, db>>
      BY <2>2 DEF ReadTable, src, live
    <3>2. ReadTables' \subseteq ReadTables \cup {t} /\ step' \notin Copied
      BY <2>2, <3>1 DEF ReadTables, Tables, Copied
    <3>3. \A r \in source : r.table = t => Key(r) \in Keys(read')
      BY <3>1 DEF Keys, Of
    <3>4. Keys(read) \subseteq Keys(read')
      BY <3>1 DEF Keys
    <3> QED
      BY <3>1, <3>2, <3>3, <3>4 DEF Inv, MigrationInv
  <2>3. CASE WriteSqlite
    <3>1. PICK new \in SUBSET read :
             Keys(new) = Keys(read) \ Keys(Live) /\ wal' = wal \cup new
      BY <2>3 DEF WriteSqlite
    <3>2. Keys(wal') = Keys(wal) \cup Keys(new)
      BY <3>1 DEF Keys
    <3>3. Keys(Live) = Keys(wal) \cup Keys(db)
      BY OverHasBothKeys DEF Live
    <3>4. UNCHANGED <<source, late, read, db>> /\ step = "write" /\ step' = "verify"
      BY <2>3 DEF WriteSqlite, src
    <3>5. Keys(read') \subseteq Keys(wal') \cup Keys(db')
      BY <3>1, <3>2, <3>3, <3>4
    <3>6. ReadTables' = ReadTables
      BY <3>4 DEF ReadTables, Copied
    <3> QED
      BY <3>4, <3>5, <3>6 DEF Inv, MigrationInv
  <2>4. ASSUME source' \subseteq source, UNCHANGED live, step \in Copied,
               NEW next \in Copied \cup {"none"}, Goes(next)
        PROVE  MigrationInv'
    <3>1. CASE next = "none"
      BY <2>4, <3>1 DEF Goes, Inv, MigrationInv, ReadTables, Copied
    <3>2. CASE next \in Copied
      <4>1. step' \in Copied /\ UNCHANGED <<read, late>>
        BY <2>4, <3>2 DEF Goes, Copied
      <4>2. ReadTables' = ReadTables
        BY <2>4, <4>1 DEF ReadTables, Copied
      <4> QED
        BY <2>4, <4>1, <4>2 DEF Inv, MigrationInv, live
    <3> QED
      BY <2>4, <3>1, <3>2
  <2>5. CASE VerifyParity
    BY <2>4, <2>5 DEF VerifyParity, src, Copied
  <2>6. ASSUME NEW n \in 1 .. 3, DropSource(n)
        PROVE  MigrationInv'
    <3>1. DropSteps[n] \in Copied /\ DropSteps[n + 1] \in Copied \cup {"none"}
      BY DropsFollow
    <3> QED
      BY <2>4, <2>6, <3>1 DEF DropSource
  <2> QED
    BY <2>1, <2>2, <2>3, <2>5, <2>6 DEF Migrate, Tables
<1> QED
  BY <1>2, <1>3, <1>4 DEF Inv

(* The merge, with nothing of the migration under way.                     *)
LEMMA MergeKeepsInv == Inv /\ Merge => Inv'
<1> SUFFICES ASSUME Inv, Merge PROVE Inv'
  OBVIOUS
<1>1. /\ UNCHANGED <<source, host, volume, wal, db, walOf, dbIs>>
      /\ step' \in {"merge", "merged", "none"}
      /\ "db" \in files' <=> "db" \in files
  BY DEF Merge, BackupCopy, MoveExperiments, MergeRefused, MergeReported, Starts, Goes,
         src, live, copies
<1>2. MigrationInv'
  BY <1>1 DEF Inv, MigrationInv, ReadTables, Copied
<1>3. WalFollowsItsDatabase'
  BY <1>1 DEF Inv, WalFollowsItsDatabase
<1>4. MergeInv'
  <2>1. CASE BackupCopy
    BY <1>1, <2>1 DEF BackupCopy, Starts, Inv, MergeInv, MergedIsWhole
  <2>2. CASE MergeRefused \/ MergeReported
    BY <1>1, <2>2 DEF MergeRefused, MergeReported, Goes, Inv, MergeInv, MergedIsWhole
  <2>3. CASE MoveExperiments
    <3>1. /\ IsBackup(host) /\ IsBackup(volume) /\ merged = host /\ step' = "merged"
          /\ merged' = merged \cup UNION {About(volume, e) : e \in ToMove}
          /\ NoCollision
      BY <2>3 DEF MoveExperiments, Goes, Inv, MergeInv
    <3>2. \A r \in volume : r.exp \in Ids(host) => r \in host
      BY <3>1 DEF NoCollision, SameContent, About, IsBackup
    <3>3. \A r \in host : r.exp \in Ids(volume) => r \in volume
      BY <3>1 DEF NoCollision, SameContent, About, IsBackup
    <3>4. merged' = host \cup volume
      <4>1. \A r \in volume : r \in host \/ r \in UNION {About(volume, e) : e \in ToMove}
        BY <3>1, <3>2 DEF ToMove, About, IsBackup
      <4>2. UNION {About(volume, e) : e \in ToMove} \subseteq volume
        BY DEF About
      <4> QED
        BY <3>1, <4>1, <4>2
    <3>5. \A r1, r2 \in host \cup volume : Key(r1) = Key(r2) => r1 = r2
      <4>1. \A r1, r2 : Key(r1) = Key(r2) => r1.exp = r2.exp
        BY DEF Key
      <4>2. ASSUME NEW r1 \in host, NEW r2 \in volume, Key(r1) = Key(r2)
            PROVE  r1 = r2
        <5>1. r1.exp \in Ids(volume)
          BY <3>1, <4>1, <4>2 DEF IsBackup
        <5> QED
          BY <3>1, <3>3, <4>2, <5>1 DEF IsBackup
      <4> QED
        BY <3>1, <4>2 DEF IsBackup
    <3>6. Cardinality(Keys(host \cup volume)) = Cardinality(host \cup volume)
      BY <3>1, <3>5, OneRowOfAKey DEF IsBackup
    <3> QED
      BY <1>1, <3>1, <3>4, <3>6 DEF MergeInv, MergedIsWhole
  <2> QED
    BY <2>1, <2>2, <2>3 DEF Merge
<1> QED
  BY <1>2, <1>3, <1>4 DEF Inv

(* A promotion moves the database first and its WAL before the next one.   *)
LEMMA PromoteKeepsInv == Inv /\ (Promote \/ Killed) => Inv'
<1> SUFFICES ASSUME Inv, Promote \/ Killed PROVE Inv'
  OBVIOUS
<1>1. UNCHANGED <<source, host, volume>> /\ step' \in {"promote", "none"}
  BY DEF Promote, StartPromote, ArchiveDb, ArchiveWal, MoveMerged, Killed, Starts, Goes,
         src, copies
<1>2. MigrationInv'
  BY <1>1 DEF Inv, MigrationInv, ReadTables, Copied
<1>3. MergeInv'
  BY <1>1 DEF Inv, MergeInv, MergedIsWhole
<1>4. WalFollowsItsDatabase'
  BY DEF Inv, WalFollowsItsDatabase, Promote, StartPromote, ArchiveDb, ArchiveWal, MoveMerged,
         Killed, Archived, live
<1> QED
  BY <1>2, <1>3, <1>4 DEF Inv

(* A step that changes nothing.                                            *)
LEMMA StutterKeepsInv == Inv /\ UNCHANGED vars => Inv'
<1> SUFFICES ASSUME Inv, UNCHANGED vars PROVE Inv'
  OBVIOUS
<1>1. MigrationInv'
  BY DEF Inv, MigrationInv, ReadTables, vars, src, live
<1> QED
  BY <1>1 DEF Inv, MergeInv, MergedIsWhole, WalFollowsItsDatabase, vars, src, live, copies

LEMMA NextKeepsInv == Inv /\ [Next]_vars => Inv'
BY SourceWritesKeepsInv, TargetKeepsInv, MigrateKeepsInv, MergeKeepsInv, PromoteKeepsInv,
   StutterKeepsInv DEF Next

LEMMA InvHolds == Spec => []Inv
BY InitInv, NextKeepsInv, PTL DEF Spec

-----------------------------------------------------------------------------
(* A merge that reports success holds every row of both backup copies and  *)
(* none twice, for any copies, though it was killed and run again before.  *)
THEOREM MergeIsWhole == Spec => []MergedIsWhole
BY InvHolds, PTL DEF Inv, MergeInv

(* No database ever opens with the WAL of another: a promotion killed      *)
(* between its moves leaves the old WAL beside no database, and goes on    *)
(* with it when it is run again.                                           *)
THEOREM WalStaysWithItsDatabase == Spec => []WalFollowsItsDatabase
BY InvHolds, PTL DEF Inv

(* The drop of the source loses nothing: the key of every row that leaves  *)
(* it is in the target or in an archive by then, except what a server      *)
(* wrote about an experiment of the migration after its table was read.    *)
THEOREM DropsWhatWasCopied == Spec => DroppedIsCopied
<1> DEFINE Safe(r) == Key(r) \in Keys(source') \cup Keys(Live') \cup Keys(archive')
                         \cup {k \in late : k[1] \in Ids(read)}
<1>1. ASSUME Inv, [Next]_vars, NEW r \in source
      PROVE  Safe(r)
  <2>1. CASE r \in source'
    BY <2>1 DEF Keys
  <2>2. ASSUME NEW row \in Row, SourceWrites(row), r \notin source'
        PROVE  Safe(r)
    <3>1. Key(r) = Key(row) /\ row \in source'
      BY <2>2 DEF SourceWrites
    <3> QED
      BY <3>1 DEF Keys
  <2>3. ASSUME NEW n \in 1 .. 3, DropSource(n), r \notin source'
        PROVE  Safe(r)
    <3>1. r.exp \in Ids(read) /\ UNCHANGED live /\ step \in Copied
      BY <2>3, DropsFollow DEF DropSource, DropsRow
    <3>2. Key(r) \in Keys(read) \cup late
      BY <1>1, <3>1 DEF Inv, MigrationInv, ReadTables, Copied, Row
    <3>3. Keys(Live') = Keys(wal) \cup Keys(db)
      BY <3>1, OverHasBothKeys DEF Live, live
    <3>4. Key(r) \in Keys(read) => Key(r) \in Keys(Live')
      BY <1>1, <3>1, <3>3 DEF Inv, MigrationInv
    <3>5. Key(r)[1] = r.exp
      BY DEF Key
    <3> QED
      BY <3>1, <3>2, <3>4, <3>5
  <2>4. CASE UNCHANGED source
    BY <2>1, <2>4
  <2>5. \/ UNCHANGED source
        \/ \E row \in Row : SourceWrites(row)
        \/ \E n \in 1 .. 3 : DropSource(n)
    BY <1>1 DEF Next, LiveWrites, Checkpoint, Migrate, StartMigration, ReadTable, WriteSqlite,
       VerifyParity, Merge, BackupCopy, MoveExperiments, MergeRefused, MergeReported, Promote,
       StartPromote, ArchiveDb, ArchiveWal, MoveMerged, Killed, vars, src
  <2> QED
    BY <2>1, <2>2, <2>3, <2>4, <2>5
<1>2. Inv /\ [Next]_vars =>
        [\A r \in source : Key(r) \in Keys(source') \cup Keys(Live') \cup Keys(archive')
            \cup {k \in late : k[1] \in Ids(read)}]_vars
  BY <1>1
<1> QED
  BY <1>2, InvHolds, PTL DEF Spec, DroppedIsCopied
=============================================================================
