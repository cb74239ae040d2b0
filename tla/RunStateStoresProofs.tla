------------------------ MODULE RunStateStoresProofs ------------------------
(***************************************************************************)
(* The three stores behind the port, proved interchangeable for any        *)
(* threads, runs and number of calls. First what a table of rows, the      *)
(* collection that mirrors it and a table with the same columns become     *)
(* under a statement; then that every call of the port keeps three stores  *)
(* related; then that every step of the threads does.                      *)
(***************************************************************************)
EXTENDS RunStateStores, TLAPS

IsFcn(f) == f = [x \in DOMAIN f |-> f[x]]

IsStore(s) == s = [experiments |-> s.experiments, runs |-> s.runs, results |-> s.results]

(* A row holds the columns of its table, and its JSON document holds no    *)
(* column of either table.                                                 *)
IsRow(row, columns) ==
    /\ row = [columns |-> row.columns, doc |-> row.doc]
    /\ IsFcn(row.columns) /\ DOMAIN row.columns = columns
    /\ IsFcn(row.doc) /\ DOMAIN row.doc \cap AllColumns = {}

IsTable(table, columns) == \A k \in DOMAIN table : IsRow(table[k], columns)

(* A collection of Mongo holds what is read back of the rows of a table.   *)
Mirrors(collection, table) ==
    /\ DOMAIN collection = DOMAIN table
    /\ \A k \in DOMAIN table : collection[k] = RowToDoc(table[k])

SameColumns(table1, table2) ==
    /\ DOMAIN table1 = DOMAIN table2
    /\ \A k \in DOMAIN table2 : table1[k].columns = table2[k].columns

(* What a write may hold: the columns of the table it goes to, no other.   *)
Fits(doc, columns) == DOMAIN doc \cap AllColumns \subseteq columns

(* A new document has them all.                                            *)
IsWhole(doc, columns) == IsFcn(doc) /\ DOMAIN doc \cap AllColumns = columns

(* Postgres has rows of the one experiment, and none once it is deleted.   *)
PostgresInv(p) ==
    /\ IsStore(p)
    /\ DOMAIN p.experiments \subseteq {Id}
    /\ IsTable(p.experiments, ExperimentColumns)
    /\ IsTable(p.runs, RunColumns)
    /\ \A r \in DOMAIN p.runs : p.runs[r].columns["experiment_id"] = Id
    /\ \A x \in p.results : x.experiment_id = Id
    /\ Id \notin DOMAIN p.experiments => DOMAIN p.runs = {} /\ p.results = {}

(* Mongo has the documents of those rows as long as the experiment exists. *)
MongoInv(m, p) ==
    /\ IsStore(m)
    /\ Mirrors(m.experiments, p.experiments)
    /\ Id \in DOMAIN p.experiments => Mirrors(m.runs, p.runs) /\ m.results = p.results

(* SQLite has the same rows in the same columns.                           *)
SqliteInv(s, p) ==
    /\ IsStore(s)
    /\ SameColumns(s.experiments, p.experiments)
    /\ SameColumns(s.runs, p.runs)
    /\ s.results = p.results

Related(s, p, m) == PostgresInv(p) /\ MongoInv(m, p) /\ SqliteInv(s, p)

-----------------------------------------------------------------------------
LEMMA UpdatedIs ==
    ASSUME NEW doc, NEW update
    PROVE  /\ IsFcn(Updated(doc, update))
           /\ DOMAIN Updated(doc, update) = DOMAIN doc \cup DOMAIN update
           /\ \A x \in DOMAIN doc \cup DOMAIN update :
                 Updated(doc, update)[x] = IF x \in DOMAIN update THEN update[x] ELSE doc[x]
BY DEF Updated, IsFcn

LEMMA SplitIs ==
    ASSUME NEW doc
    PROVE  /\ IsFcn(ToJson(doc)) /\ DOMAIN ToJson(doc) = DOMAIN doc \ AllColumns
           /\ IsFcn(Promoted(doc)) /\ DOMAIN Promoted(doc) = DOMAIN doc \cap AllColumns
           /\ \A x \in DOMAIN doc \ AllColumns : ToJson(doc)[x] = doc[x]
           /\ \A x \in DOMAIN doc \cap AllColumns : Promoted(doc)[x] = doc[x]
BY DEF ToJson, Promoted, Restrict, IsFcn

(* An update split over columns and document reads back as the update of   *)
(* what was read.                                                          *)
LEMMA UpdateReadsBack ==
    ASSUME NEW c, NEW d, NEW columns, NEW update,
           DOMAIN c = columns, DOMAIN d \cap AllColumns = {},
           columns \subseteq AllColumns, Fits(update, columns)
    PROVE  LET newc == Updated(c, Promoted(update))
               newd == Updated(d, ToJson(update))
           IN  /\ IsFcn(newc) /\ DOMAIN newc = columns
               /\ IsFcn(newd) /\ DOMAIN newd \cap AllColumns = {}
               /\ Updated(newd, newc) = Updated(Updated(d, c), update)
<1> DEFINE newc == Updated(c, Promoted(update))
           newd == Updated(d, ToJson(update))
<1>1. /\ DOMAIN Promoted(update) = DOMAIN update \cap AllColumns
      /\ DOMAIN ToJson(update) = DOMAIN update \ AllColumns
      /\ \A x \in DOMAIN Promoted(update) : Promoted(update)[x] = update[x]
      /\ \A x \in DOMAIN ToJson(update) : ToJson(update)[x] = update[x]
  BY SplitIs
<1>2. /\ IsFcn(newc) /\ DOMAIN newc = columns
      /\ \A x \in columns : newc[x] = IF x \in DOMAIN update THEN update[x] ELSE c[x]
  BY <1>1 DEF Updated, IsFcn, Fits
<1>3. /\ IsFcn(newd) /\ DOMAIN newd = DOMAIN d \cup (DOMAIN update \ AllColumns)
      /\ \A x \in DOMAIN newd : newd[x] = IF x \in DOMAIN update THEN update[x] ELSE d[x]
  BY <1>1 DEF Updated, IsFcn
<1> HIDE DEF newc, newd
<1>4. Updated(newd, newc) = Updated(Updated(d, c), update)
  <2>1. DOMAIN newd \cup DOMAIN newc = (DOMAIN d \cup DOMAIN c) \cup DOMAIN update
    BY <1>2, <1>3 DEF Fits
  <2>2. ASSUME NEW x \in DOMAIN newd \cup DOMAIN newc
        PROVE  (IF x \in DOMAIN newc THEN newc[x] ELSE newd[x])
                 = (IF x \in DOMAIN update THEN update[x]
                    ELSE [y \in DOMAIN d \cup DOMAIN c |-> IF y \in DOMAIN c THEN c[y] ELSE d[y]][x])
    BY <1>2, <1>3, <2>1
  <2>3. DOMAIN [y \in DOMAIN d \cup DOMAIN c |-> IF y \in DOMAIN c THEN c[y] ELSE d[y]]
           = DOMAIN d \cup DOMAIN c
    OBVIOUS
  <2> QED  BY <2>1, <2>2, <2>3 DEF Updated
<1> QED  BY <1>2, <1>3, <1>4 DEF newc, newd

(* A new document split into a row reads back whole.                       *)
LEMMA RowReadsBack ==
    ASSUME NEW doc, IsFcn(doc), NEW columns, DOMAIN doc \cap AllColumns = columns
    PROVE  IsRow(ToRow(doc), columns) /\ RowToDoc(ToRow(doc)) = doc
<1>1. ToRow(doc).columns = Promoted(doc) /\ ToRow(doc).doc = ToJson(doc)
  BY DEF ToRow
<1>2. IsRow(ToRow(doc), columns)
  <2>1. ToRow(doc) = [columns |-> ToRow(doc).columns, doc |-> ToRow(doc).doc]
    BY DEF ToRow
  <2>2. /\ IsFcn(Promoted(doc)) /\ DOMAIN Promoted(doc) = columns
        /\ IsFcn(ToJson(doc)) /\ DOMAIN ToJson(doc) \cap AllColumns = {}
    BY SplitIs
  <2> QED  BY <1>1, <2>1, <2>2 DEF IsRow
<1>3. Updated(ToJson(doc), Promoted(doc)) = [x \in DOMAIN doc |-> doc[x]]
  BY SplitIs DEF Updated
<1> QED  BY <1>1, <1>2, <1>3 DEF IsFcn, RowToDoc

-----------------------------------------------------------------------------
(* The statements on a table and on its mirror.                            *)

LEMMA UpdateOfATable ==
    ASSUME NEW t, NEW columns, columns \subseteq AllColumns, IsTable(t, columns),
           NEW key, NEW update, Fits(update, columns)
    PROVE  LET new == UpdateStatement(t, key, update)
           IN  /\ DOMAIN new = DOMAIN t /\ IsTable(new, columns)
               /\ \A k \in DOMAIN t : \A x \in columns \ DOMAIN update :
                     new[k].columns[x] = t[k].columns[x]
<1> DEFINE new == UpdateStatement(t, key, update)
<1>1. DOMAIN new = DOMAIN t /\ \A k \in DOMAIN t \ {key} : new[k] = t[k]
  BY DEF UpdateStatement
<1>2. ASSUME key \in DOMAIN t
      PROVE  /\ IsRow(new[key], columns)
             /\ \A x \in columns \ DOMAIN update : new[key].columns[x] = t[key].columns[x]
  <2>1. IsRow(t[key], columns)  BY <1>2 DEF IsTable
  <2>2. new[key] = [columns |-> Updated(t[key].columns, Promoted(update)),
                    doc     |-> Updated(t[key].doc, ToJson(update))]
    BY <1>2 DEF UpdateStatement
  <2>3. IsRow(new[key], columns)
    BY <2>1, <2>2, UpdateReadsBack DEF IsRow
  <2>4. \A x \in columns \ DOMAIN update :
           Updated(t[key].columns, Promoted(update))[x] = t[key].columns[x]
    BY <2>1 DEF IsRow, Updated, Promoted, Restrict
  <2> QED  BY <2>2, <2>3, <2>4
<1> QED  BY <1>1, <1>2 DEF IsTable

LEMMA UpdateOfAMirror ==
    ASSUME NEW t, NEW columns, columns \subseteq AllColumns, IsTable(t, columns),
           NEW u, Mirrors(u, t), NEW key, NEW update, Fits(update, columns)
    PROVE  Mirrors(Set(u, key, update), UpdateStatement(t, key, update))
<1> DEFINE new == UpdateStatement(t, key, update)
           set == Set(u, key, update)
<1>1. DOMAIN new = DOMAIN t /\ \A k \in DOMAIN t \ {key} : new[k] = t[k]
  BY DEF UpdateStatement
<1>2. DOMAIN set = DOMAIN t /\ \A k \in DOMAIN t \ {key} : set[k] = u[k]
  BY DEF Set, Mirrors
<1>3. ASSUME key \in DOMAIN t  PROVE set[key] = RowToDoc(new[key])
  <2>1. IsRow(t[key], columns)  BY <1>3 DEF IsTable
  <2>2. new[key] = [columns |-> Updated(t[key].columns, Promoted(update)),
                    doc     |-> Updated(t[key].doc, ToJson(update))]
    BY <1>3 DEF UpdateStatement
  <2>3. set[key] = Updated(Updated(t[key].doc, t[key].columns), update)
    BY <1>3 DEF Set, Mirrors, RowToDoc
  <2>4. RowToDoc(new[key]) = Updated(Updated(t[key].doc, t[key].columns), update)
    BY <2>1, <2>2, UpdateReadsBack DEF IsRow, RowToDoc
  <2> QED  BY <2>3, <2>4
<1> QED  BY <1>1, <1>2, <1>3 DEF Mirrors

LEMMA WriteKeepsColumns ==
    ASSUME NEW t1, NEW t2, SameColumns(t1, t2), NEW key, NEW read, NEW update
    PROVE  SameColumns(SqliteWriteDoc(t1, key, read, update), UpdateStatement(t2, key, update))
BY DEF SameColumns, SqliteWriteDoc, UpdateStatement

LEMMA WriteIsTheStatement ==
    ASSUME NEW t, NEW key, NEW update
    PROVE  SqliteWriteDoc(t, key, SqliteReadDoc(t, key), update) = UpdateStatement(t, key, update)
BY DEF SqliteWriteDoc, UpdateStatement, SqliteReadDoc

LEMMA PutOfARow ==
    ASSUME NEW t, NEW columns, IsTable(t, columns), NEW key, NEW doc, IsWhole(doc, columns)
    PROVE  IsTable(Put(t, key, ToRow(doc)), columns)
<1>1. IsRow(ToRow(doc), columns)
  BY RowReadsBack DEF IsWhole
<1> QED  BY <1>1 DEF IsTable, Put

LEMMA PutOfAMirror ==
    ASSUME NEW t, NEW u, Mirrors(u, t), NEW key, NEW doc, IsFcn(doc)
    PROVE  Mirrors(Put(u, key, doc), Put(t, key, ToRow(doc)))
<1>1. RowToDoc(ToRow(doc)) = doc  BY RowReadsBack
<1> QED  BY <1>1 DEF Mirrors, Put

LEMMA PutOfAColumn ==
    ASSUME NEW t, NEW u, SameColumns(u, t), NEW key, NEW row
    PROVE  SameColumns(Put(u, key, row), Put(t, key, row))
BY DEF SameColumns, Put

(* Interrupt updates every row of a set, whatever else the table holds.    *)
LEMMA InterruptionFits ==
    ASSUME NEW error
    PROVE  /\ Fits(Interruption(error), RunColumns) /\ RunColumns \subseteq AllColumns
           /\ "experiment_id" \in RunColumns \ DOMAIN Interruption(error)
BY DEF Interruption, Fits, RunColumns, AllColumns, ExperimentColumns

LEMMA InterruptOfATable ==
    ASSUME NEW t, IsTable(t, RunColumns), NEW rows, NEW error
    PROVE  LET new == [r \in DOMAIN t |->
                         IF r \in rows THEN UpdateStatement(t, r, Interruption(error))[r] ELSE t[r]]
           IN  /\ IsTable(new, RunColumns)
               /\ \A r \in DOMAIN t : new[r].columns["experiment_id"] = t[r].columns["experiment_id"]
<1> DEFINE U == Interruption(error)
<1>1. ASSUME NEW r \in DOMAIN t
      PROVE  /\ IsRow(UpdateStatement(t, r, U)[r], RunColumns)
             /\ UpdateStatement(t, r, U)[r].columns["experiment_id"] = t[r].columns["experiment_id"]
  <2>1. /\ DOMAIN UpdateStatement(t, r, U) = DOMAIN t
        /\ IsTable(UpdateStatement(t, r, U), RunColumns)
        /\ \A k \in DOMAIN t : \A x \in RunColumns \ DOMAIN U :
              UpdateStatement(t, r, U)[k].columns[x] = t[k].columns[x]
    BY InterruptionFits, UpdateOfATable
  <2> QED  BY <2>1, InterruptionFits DEF IsTable
<1> HIDE DEF U
<1> QED  BY <1>1 DEF IsTable, U

LEMMA InterruptOfAMirror ==
    ASSUME NEW t, IsTable(t, RunColumns), NEW u, Mirrors(u, t), NEW rows, NEW error
    PROVE  Mirrors([r \in DOMAIN u |->
                      IF r \in rows THEN Updated(u[r], Interruption(error)) ELSE u[r]],
                   [r \in DOMAIN t |->
                      IF r \in rows THEN UpdateStatement(t, r, Interruption(error))[r] ELSE t[r]])
<1> DEFINE U == Interruption(error)
<1>1. ASSUME NEW r \in DOMAIN t
      PROVE  Updated(u[r], U) = RowToDoc(UpdateStatement(t, r, U)[r])
  <2>1. Mirrors(Set(u, r, U), UpdateStatement(t, r, U))
    BY InterruptionFits, UpdateOfAMirror
  <2>2. Set(u, r, U)[r] = Updated(u[r], U) /\ r \in DOMAIN UpdateStatement(t, r, U)
    BY DEF Set, Mirrors, UpdateStatement
  <2> QED  BY <2>1, <2>2 DEF Mirrors
<1> HIDE DEF U
<1> QED  BY <1>1 DEF Mirrors, U

LEMMA InterruptOfColumns ==
    ASSUME NEW t, NEW u, SameColumns(u, t), NEW rows, NEW U
    PROVE  SameColumns([r \in DOMAIN u |->
                          IF r \in rows THEN SqliteWriteDoc(u, r, u[r].doc, U)[r] ELSE u[r]],
                       [r \in DOMAIN t |->
                          IF r \in rows THEN UpdateStatement(t, r, U)[r] ELSE t[r]])
<1>1. ASSUME NEW r \in DOMAIN t
      PROVE  SqliteWriteDoc(u, r, u[r].doc, U)[r].columns = UpdateStatement(t, r, U)[r].columns
  BY WriteKeepsColumns DEF SameColumns, UpdateStatement
<1> QED  BY <1>1 DEF SameColumns

-----------------------------------------------------------------------------
(* The calls of the port, on three stores that are related.                *)

LEMMA UpdateExperimentRelated ==
    ASSUME NEW s, NEW p, NEW m, Related(s, p, m),
           NEW read, NEW update, Fits(update, ExperimentColumns)
    PROVE  Related(SqliteUpdateExperiment(s, Id, read, update),
                   PostgresUpdateExperiment(p, Id, update),
                   MongoUpdateExperiment(m, Id, update))
<1> DEFINE s1 == SqliteUpdateExperiment(s, Id, read, update)
           p1 == PostgresUpdateExperiment(p, Id, update)
           m1 == MongoUpdateExperiment(m, Id, update)
<1>1. /\ IsStore(s) /\ IsStore(p) /\ IsStore(m)
  BY DEF Related, PostgresInv, MongoInv, SqliteInv
<1>2. /\ p1 = [experiments |-> UpdateStatement(p.experiments, Id, update),
               runs |-> p.runs, results |-> p.results]
      /\ s1 = [experiments |-> SqliteWriteDoc(s.experiments, Id, read, update),
               runs |-> s.runs, results |-> s.results]
      /\ m1 = [experiments |-> Set(m.experiments, Id, update),
               runs |-> m.runs, results |-> m.results]
  BY <1>1 DEF IsStore, SqliteUpdateExperiment, PostgresUpdateExperiment, MongoUpdateExperiment
<1> HIDE DEF s1, p1, m1
<1>3. ExperimentColumns \subseteq AllColumns  BY DEF AllColumns
<1>4. /\ DOMAIN p1.experiments = DOMAIN p.experiments
      /\ IsTable(p1.experiments, ExperimentColumns)
  BY <1>2, <1>3, UpdateOfATable DEF Related, PostgresInv
<1>5. PostgresInv(p1)
  BY <1>2, <1>4 DEF Related, PostgresInv, IsStore
<1>6. MongoInv(m1, p1)
  BY <1>2, <1>3, <1>4, UpdateOfAMirror DEF Related, PostgresInv, MongoInv, IsStore
<1>7. SqliteInv(s1, p1)
  BY <1>2, WriteKeepsColumns DEF Related, SqliteInv, IsStore
<1> QED  BY <1>5, <1>6, <1>7 DEF Related, s1, p1, m1

LEMMA UpdateRunPhaseRelated ==
    ASSUME NEW s, NEW p, NEW m, Related(s, p, m), NEW run,
           NEW read, NEW update, Fits(update, RunColumns \ {"experiment_id"})
    PROVE  Related(SqliteUpdateRunPhase(s, run, read, update),
                   PostgresUpdateRunPhase(p, run, update),
                   MongoUpdateRunPhase(m, run, update))
<1> DEFINE s1 == SqliteUpdateRunPhase(s, run, read, update)
           p1 == PostgresUpdateRunPhase(p, run, update)
           m1 == MongoUpdateRunPhase(m, run, update)
<1>1. /\ IsStore(s) /\ IsStore(p) /\ IsStore(m)
  BY DEF Related, PostgresInv, MongoInv, SqliteInv
<1>2. /\ p1 = [experiments |-> p.experiments,
               runs |-> UpdateStatement(p.runs, run, update), results |-> p.results]
      /\ s1 = [experiments |-> s.experiments,
               runs |-> SqliteWriteDoc(s.runs, run, read, update), results |-> s.results]
      /\ m1 = [experiments |-> m.experiments,
               runs |-> Set(m.runs, run, update), results |-> m.results]
  BY <1>1 DEF IsStore, SqliteUpdateRunPhase, PostgresUpdateRunPhase, MongoUpdateRunPhase
<1> HIDE DEF s1, p1, m1
<1>3. /\ RunColumns \subseteq AllColumns /\ Fits(update, RunColumns)
      /\ "experiment_id" \in RunColumns \ DOMAIN update
  BY DEF AllColumns, RunColumns, Fits
<1>4. /\ DOMAIN p1.runs = DOMAIN p.runs /\ IsTable(p1.runs, RunColumns)
      /\ \A r \in DOMAIN p.runs : p1.runs[r].columns["experiment_id"] = Id
  BY <1>2, <1>3, UpdateOfATable DEF Related, PostgresInv
<1>5. PostgresInv(p1)
  BY <1>2, <1>4 DEF Related, PostgresInv, IsStore
<1>6. MongoInv(m1, p1)
  BY <1>2, <1>3, <1>4, UpdateOfAMirror DEF Related, PostgresInv, MongoInv, IsStore
<1>7. SqliteInv(s1, p1)
  BY <1>2, WriteKeepsColumns DEF Related, SqliteInv, IsStore
<1> QED  BY <1>5, <1>6, <1>7 DEF Related, s1, p1, m1

(* A mark writes columns alone, which is what the statement does of them.  *)
LEMMA MarkIsAnUpdate ==
    ASSUME NEW s, IsStore(s), NEW columns, IsFcn(columns), DOMAIN columns \subseteq AllColumns
    PROVE  /\ SqliteMark(s, Id, columns) =
                 [experiments |-> IF Id \notin DOMAIN s.experiments THEN s.experiments
                                  ELSE [s.experiments EXCEPT ![Id].columns = Updated(@, columns)],
                  runs |-> s.runs, results |-> s.results]
           /\ Promoted(columns) = columns
           /\ DOMAIN ToJson(columns) = {}
<1>1. SqliteMark(s, Id, columns) =
         [experiments |-> IF Id \notin DOMAIN s.experiments THEN s.experiments
                          ELSE [s.experiments EXCEPT ![Id].columns = Updated(@, columns)],
          runs |-> s.runs, results |-> s.results]
  <2>1. CASE Id \notin DOMAIN s.experiments
    BY <2>1 DEF SqliteMark, IsStore
  <2>2. CASE Id \in DOMAIN s.experiments
    BY <2>2 DEF SqliteMark, IsStore
  <2> QED  BY <2>1, <2>2
<1>2. Promoted(columns) = [x \in DOMAIN columns |-> columns[x]]
  BY DEF Promoted, Restrict
<1>3. DOMAIN ToJson(columns) = {}  BY SplitIs
<1> QED  BY <1>1, <1>2, <1>3 DEF IsFcn

LEMMA MarkRelated ==
    ASSUME NEW s, NEW p, NEW m, Related(s, p, m),
           NEW columns, IsFcn(columns), DOMAIN columns \subseteq ExperimentColumns
    PROVE  /\ Related(SqliteMark(s, Id, columns), PostgresMark(p, Id, columns),
                      MongoMark(m, Id, columns))
           /\ s = p => SqliteMark(s, Id, columns) = PostgresMark(p, Id, columns)
<1> DEFINE s0 == SqliteUpdateExperiment(s, Id, <<>>, columns)
           s1 == SqliteMark(s, Id, columns)
           p1 == PostgresMark(p, Id, columns)
           m1 == MongoMark(m, Id, columns)
<1>1. IsStore(s) /\ IsStore(p)  BY DEF Related, PostgresInv, SqliteInv
<1>2. DOMAIN columns \subseteq AllColumns  BY DEF AllColumns
<1>3. Related(s0, p1, m1)
  BY UpdateExperimentRelated DEF Fits, PostgresMark, MongoMark
<1>4. /\ s1.experiments = IF Id \notin DOMAIN s.experiments THEN s.experiments
                          ELSE [s.experiments EXCEPT ![Id].columns = Updated(@, columns)]
      /\ s1 = [experiments |-> s1.experiments, runs |-> s.runs, results |-> s.results]
      /\ s0 = [experiments |-> SqliteWriteDoc(s.experiments, Id, <<>>, columns),
               runs |-> s.runs, results |-> s.results]
      /\ p1 = [experiments |-> UpdateStatement(p.experiments, Id, columns),
               runs |-> p.runs, results |-> p.results]
      /\ Promoted(columns) = columns
  BY <1>1, <1>2, MarkIsAnUpdate
     DEF IsStore, SqliteUpdateExperiment, PostgresMark, PostgresUpdateExperiment
<1>5. SameColumns(s1.experiments, s0.experiments)
  BY <1>4 DEF SameColumns, SqliteWriteDoc
<1> HIDE DEF s0, s1, p1, m1
<1>6. SqliteInv(s1, p1)
  BY <1>3, <1>4, <1>5 DEF Related, SqliteInv, SameColumns, IsStore
<1>7. ASSUME s = p  PROVE s1 = p1
  <2>1. CASE Id \notin DOMAIN p.experiments
    BY <2>1, <1>4, <1>7 DEF UpdateStatement
  <2>2. CASE Id \in DOMAIN p.experiments
    <3>1. IsRow(p.experiments[Id], ExperimentColumns)
      BY <2>2 DEF Related, PostgresInv, IsTable
    <3>2. Updated(p.experiments[Id].doc, ToJson(columns)) = p.experiments[Id].doc
      BY <3>1, <1>1, <1>2, MarkIsAnUpdate DEF Updated, IsRow, IsFcn
    <3>3. [p.experiments[Id] EXCEPT !.columns = Updated(@, columns)]
             = [columns |-> Updated(p.experiments[Id].columns, columns),
                doc |-> p.experiments[Id].doc]
      BY <3>1 DEF IsRow
    <3> QED  BY <1>4, <1>7, <2>2, <3>2, <3>3 DEF UpdateStatement
  <2> QED  BY <2>1, <2>2
<1> QED  BY <1>3, <1>6, <1>7 DEF Related, s1, p1, m1

LEMMA InsertRunRelated ==
    ASSUME NEW s, NEW p, NEW m, Related(s, p, m), NEW run
    PROVE  /\ Related(SqliteInsertRun(s, run, NewRun), PostgresInsertRun(p, run, NewRun),
                      MongoInsertRun(m, run, NewRun))
           /\ s = p => SqliteInsertRun(s, run, NewRun) = PostgresInsertRun(p, run, NewRun)
<1> DEFINE s1 == SqliteInsertRun(s, run, NewRun)
           p1 == PostgresInsertRun(p, run, NewRun)
           m1 == MongoInsertRun(m, run, NewRun)
<1>1. /\ IsFcn(NewRun) /\ IsWhole(NewRun, RunColumns)
      /\ NewRun.experiment_id = Id /\ Promoted(NewRun)["experiment_id"] = Id
  BY DEF NewRun, AllColumns, RunColumns, ExperimentColumns, IsFcn, IsWhole, Promoted, Restrict
<1>2. /\ IsStore(s) /\ IsStore(p) /\ IsStore(m)
      /\ DOMAIN s.runs = DOMAIN p.runs /\ DOMAIN s.experiments = DOMAIN p.experiments
      /\ Id \in DOMAIN p.experiments => DOMAIN m.runs = DOMAIN p.runs
  BY DEF Related, PostgresInv, SqliteInv, MongoInv, SameColumns, Mirrors
<1>3. CASE run \in DOMAIN p.runs \/ Id \notin DOMAIN p.experiments
  <2>1. s1 = s /\ p1 = p
    BY <1>1, <1>2, <1>3 DEF SqliteInsertRun, PostgresInsertRun
  <2>2. /\ IsStore(m1) /\ m1.experiments = m.experiments
        /\ Id \in DOMAIN p.experiments => m1 = m
    BY <1>2, <1>3 DEF MongoInsertRun, IsStore
  <2> HIDE DEF m1
  <2>3. MongoInv(m1, p)
    BY <2>2 DEF MongoInv, Related
  <2> QED  BY <2>1, <2>3 DEF Related, m1
<1>4. CASE run \notin DOMAIN p.runs /\ Id \in DOMAIN p.experiments
  <2>1. /\ s1 = [experiments |-> s.experiments, runs |-> Put(s.runs, run, ToRow(NewRun)),
                 results |-> s.results]
        /\ p1 = [experiments |-> p.experiments, runs |-> Put(p.runs, run, ToRow(NewRun)),
                 results |-> p.results]
        /\ m1 = [experiments |-> m.experiments, runs |-> Put(m.runs, run, NewRun),
                 results |-> m.results]
    BY <1>1, <1>2, <1>4 DEF SqliteInsertRun, PostgresInsertRun, MongoInsertRun, IsStore
  <2> HIDE DEF s1, p1, m1
  <2>2. IsTable(p.runs, RunColumns)  BY DEF Related, PostgresInv
  <2> DEFINE new == Put(p.runs, run, ToRow(NewRun))
  <2>3. /\ DOMAIN new = DOMAIN p.runs \cup {run} /\ IsTable(new, RunColumns)
        /\ \A r \in DOMAIN p.runs \ {run} : new[r] = p.runs[r]
        /\ new[run].columns = Promoted(NewRun)
    BY <1>1, <2>2, PutOfARow DEF Put, ToRow
  <2>6. Mirrors(m.runs, p.runs) => Mirrors(Put(m.runs, run, NewRun), new)
    BY <1>1, PutOfAMirror
  <2>7. SameColumns(s.runs, p.runs) => SameColumns(Put(s.runs, run, ToRow(NewRun)), new)
    BY PutOfAColumn
  <2>8. p1.runs = new  BY <2>1
  <2> HIDE DEF new
  <2>4. PostgresInv(p1)
    BY <1>1, <1>4, <2>1, <2>3, <2>8 DEF Related, PostgresInv, IsStore
  <2>5. MongoInv(m1, p1) /\ SqliteInv(s1, p1)
    BY <1>4, <2>1, <2>6, <2>7, <2>8 DEF Related, MongoInv, SqliteInv, IsStore
  <2> QED  BY <2>1, <2>4, <2>5 DEF Related, s1, p1, m1
<1> QED  BY <1>3, <1>4

LEMMA InsertResultRelated ==
    ASSUME NEW s, NEW p, NEW m, Related(s, p, m), NEW run
    PROVE  /\ Related(SqliteInsertResult(s, Id, run), PostgresInsertResult(p, Id, run),
                      MongoInsertResult(m, Id, run))
           /\ s = p => SqliteInsertResult(s, Id, run) = PostgresInsertResult(p, Id, run)
<1> DEFINE s1 == SqliteInsertResult(s, Id, run)
           p1 == PostgresInsertResult(p, Id, run)
           m1 == MongoInsertResult(m, Id, run)
           one == {[experiment_id |-> Id, run_id |-> run]}
<1>1. /\ IsStore(s) /\ IsStore(p) /\ IsStore(m)
      /\ DOMAIN s.experiments = DOMAIN p.experiments
  BY DEF Related, PostgresInv, SqliteInv, MongoInv, SameColumns
<1>2. m1 = [experiments |-> m.experiments, runs |-> m.runs, results |-> m.results \cup one]
  BY <1>1 DEF MongoInsertResult, IsStore
<1>3. CASE Id \notin DOMAIN p.experiments
  <2>1. s1 = s /\ p1 = p
    BY <1>1, <1>3 DEF SqliteInsertResult, PostgresInsertResult
  <2> HIDE DEF m1
  <2>2. MongoInv(m1, p)
    BY <1>2, <1>3 DEF MongoInv, Related, IsStore
  <2> QED  BY <2>1, <2>2 DEF Related, m1
<1>4. CASE Id \in DOMAIN p.experiments
  <2>1. /\ s1 = [experiments |-> s.experiments, runs |-> s.runs, results |-> s.results \cup one]
        /\ p1 = [experiments |-> p.experiments, runs |-> p.runs, results |-> p.results \cup one]
    BY <1>1, <1>4 DEF SqliteInsertResult, PostgresInsertResult, IsStore
  <2>2. \A x \in one : x.experiment_id = Id
    OBVIOUS
  <2> HIDE DEF s1, p1, m1, one
  <2>3. PostgresInv(p1)
    BY <1>4, <2>1, <2>2 DEF Related, PostgresInv, IsStore
  <2>4. MongoInv(m1, p1) /\ SqliteInv(s1, p1)
    BY <1>2, <1>4, <2>1 DEF Related, MongoInv, SqliteInv, IsStore
  <2> QED  BY <2>1, <2>3, <2>4 DEF Related, s1, p1, m1
<1> QED  BY <1>3, <1>4

LEMMA ColumnsReadBack ==
    ASSUME NEW row, NEW columns, IsRow(row, columns)
    PROVE  \A x \in columns : RowToDoc(row)[x] = row.columns[x]
BY DEF IsRow, RowToDoc, Updated

LEMMA DeleteRelated ==
    ASSUME NEW s, NEW p, NEW m, Related(s, p, m),
           NEW step \in {"results", "runs", "experiment"}
    PROVE  /\ Related(SqliteDelete(s, Id, step), PostgresDelete(p, Id, step),
                      MongoDelete(m, Id, step))
           /\ s = p => SqliteDelete(s, Id, step) = PostgresDelete(p, Id, step)
<1> DEFINE s1 == SqliteDelete(s, Id, step)
           p1 == PostgresDelete(p, Id, step)
           m1 == MongoDelete(m, Id, step)
           rest == Restrict(m.runs, {r \in DOMAIN m.runs : m.runs[r].experiment_id # Id})
<1>1. /\ IsStore(s) /\ IsStore(p) /\ IsStore(m)
      /\ DOMAIN s.runs = DOMAIN p.runs /\ DOMAIN s.experiments = DOMAIN p.experiments
      /\ DOMAIN m.experiments = DOMAIN p.experiments /\ DOMAIN p.experiments \subseteq {Id}
  BY DEF Related, PostgresInv, SqliteInv, MongoInv, SameColumns, Mirrors
<1>2. /\ Elsewhere(p.results, Id) = {} /\ Elsewhere(s.results, Id) = {}
      /\ Id \in DOMAIN p.experiments => Elsewhere(m.results, Id) = {}
  BY DEF Elsewhere, Related, PostgresInv, SqliteInv, MongoInv
<1>3. /\ DOMAIN RowsElsewhere(p.runs, Id) = {} /\ DOMAIN RowsElsewhere(s.runs, Id) = {}
  BY <1>1 DEF RowsElsewhere, Restrict, Related, PostgresInv, SqliteInv, SameColumns
<1>4. Id \in DOMAIN p.experiments => DOMAIN rest = {}
  <2> SUFFICES ASSUME Id \in DOMAIN p.experiments, NEW r \in DOMAIN m.runs
               PROVE  m.runs[r].experiment_id = Id
    BY DEF Restrict
  <2>1. r \in DOMAIN p.runs /\ m.runs[r] = RowToDoc(p.runs[r])
    BY DEF Related, MongoInv, Mirrors
  <2>2. IsRow(p.runs[r], RunColumns) /\ p.runs[r].columns["experiment_id"] = Id
    BY <2>1 DEF Related, PostgresInv, IsTable
  <2> QED  BY <2>1, <2>2, ColumnsReadBack DEF RunColumns
<1>5. CASE step = "results"
  <2>1. /\ s1 = [experiments |-> s.experiments, runs |-> s.runs, results |-> Elsewhere(s.results, Id)]
        /\ p1 = [experiments |-> p.experiments, runs |-> p.runs, results |-> Elsewhere(p.results, Id)]
        /\ m1 = [experiments |-> m.experiments, runs |-> m.runs, results |-> Elsewhere(m.results, Id)]
    BY <1>1, <1>5 DEF SqliteDelete, PostgresDelete, MongoDelete, IsStore
  <2> HIDE DEF s1, p1, m1
  <2>2. PostgresInv(p1) /\ MongoInv(m1, p1) /\ SqliteInv(s1, p1)
    BY <1>2, <2>1 DEF Related, PostgresInv, MongoInv, SqliteInv, IsStore
  <2> QED  BY <2>1, <2>2 DEF Related, s1, p1, m1
<1>6. CASE step = "runs"
  <2>1. /\ s1 = [experiments |-> s.experiments, runs |-> RowsElsewhere(s.runs, Id), results |-> s.results]
        /\ p1 = [experiments |-> p.experiments, runs |-> RowsElsewhere(p.runs, Id), results |-> p.results]
        /\ m1 = [experiments |-> m.experiments, runs |-> rest, results |-> m.results]
    BY <1>1, <1>6 DEF SqliteDelete, PostgresDelete, MongoDelete, IsStore
  <2> HIDE DEF s1, p1, m1, rest
  <2>2. PostgresInv(p1)
    BY <1>3, <2>1 DEF Related, PostgresInv, IsStore, IsTable
  <2>3. MongoInv(m1, p1) /\ SqliteInv(s1, p1)
    BY <1>3, <1>4, <2>1 DEF Related, MongoInv, SqliteInv, IsStore, Mirrors, SameColumns
  <2> QED  BY <2>1, <2>2, <2>3 DEF Related, s1, p1, m1
<1>7. CASE step = "experiment"
  <2>1. /\ s1 = [experiments |-> Without(s.experiments, Id), runs |-> RowsElsewhere(s.runs, Id),
                 results |-> Elsewhere(s.results, Id)]
        /\ p1 = [experiments |-> Without(p.experiments, Id), runs |-> RowsElsewhere(p.runs, Id),
                 results |-> Elsewhere(p.results, Id)]
        /\ m1 = [experiments |-> Without(m.experiments, Id), runs |-> m.runs, results |-> m.results]
    BY <1>1, <1>7 DEF SqliteDelete, PostgresDelete, MongoDelete, IsStore
  <2>2. /\ DOMAIN Without(p.experiments, Id) = {} /\ DOMAIN Without(s.experiments, Id) = {}
        /\ DOMAIN Without(m.experiments, Id) = {}
    BY <1>1 DEF Without, Restrict
  <2> HIDE DEF s1, p1, m1
  <2>3. PostgresInv(p1)
    BY <1>2, <1>3, <2>1, <2>2 DEF Related, PostgresInv, IsStore, IsTable
  <2>4. MongoInv(m1, p1) /\ SqliteInv(s1, p1)
    BY <1>2, <1>3, <2>1, <2>2 DEF Related, MongoInv, SqliteInv, IsStore, Mirrors, SameColumns
  <2> QED  BY <2>1, <2>3, <2>4 DEF Related, s1, p1, m1
<1> QED  BY <1>5, <1>6, <1>7

LEMMA SameRunning ==
    ASSUME NEW s, NEW p, NEW m, Related(s, p, m)
    PROVE  SqliteRunning(s) = PostgresRunning(p) /\ PostgresRunning(p) = MongoRunning(m)
<1>1. SqliteRunning(s) = PostgresRunning(p)
  BY DEF SqliteRunning, PostgresRunning, Related, SqliteInv, SameColumns
<1>2. ASSUME NEW id \in DOMAIN p.experiments
      PROVE  m.experiments[id].status = p.experiments[id].columns.status
  <2>1. IsRow(p.experiments[id], ExperimentColumns)
    BY DEF Related, PostgresInv, IsTable
  <2>2. m.experiments[id] = RowToDoc(p.experiments[id])
    BY DEF Related, MongoInv, Mirrors
  <2> QED  BY <2>1, <2>2, ColumnsReadBack DEF ExperimentColumns
<1>3. DOMAIN m.experiments = DOMAIN p.experiments
  BY DEF Related, MongoInv, Mirrors
<1> QED  BY <1>1, <1>2, <1>3 DEF PostgresRunning, MongoRunning

LEMMA SameRunsInPhase ==
    ASSUME NEW s, NEW p, NEW m, Related(s, p, m), NEW phase
    PROVE  /\ SqliteRunsInPhase(s, Id, phase) = PostgresRunsInPhase(p, Id, phase)
           /\ Id \in DOMAIN p.experiments =>
                 PostgresRunsInPhase(p, Id, phase) = MongoRunsInPhase(m, Id, phase)
<1>1. SqliteRunsInPhase(s, Id, phase) = PostgresRunsInPhase(p, Id, phase)
  BY DEF SqliteRunsInPhase, PostgresRunsInPhase, Related, SqliteInv, SameColumns
<1>2. ASSUME Id \in DOMAIN p.experiments, NEW r \in DOMAIN p.runs
      PROVE  p.runs[r].columns = [experiment_id |-> Id, phase |-> phase]
                <=> m.runs[r].experiment_id = Id /\ m.runs[r].phase = phase
  <2> DEFINE columns == p.runs[r].columns
  <2>1. IsRow(p.runs[r], RunColumns)
    BY DEF Related, PostgresInv, IsTable
  <2>2. m.runs[r] = RowToDoc(p.runs[r])
    BY <1>2 DEF Related, MongoInv, Mirrors
  <2>3. m.runs[r].experiment_id = columns["experiment_id"] /\ m.runs[r].phase = columns["phase"]
    BY <2>1, <2>2, ColumnsReadBack DEF RunColumns
  <2>4. IsFcn(columns) /\ DOMAIN columns = {"experiment_id", "phase"}
    BY <2>1 DEF IsRow, RunColumns
  <2> HIDE DEF columns
  <2>5. columns = [experiment_id |-> Id, phase |-> phase]
           <=> columns["experiment_id"] = Id /\ columns["phase"] = phase
    BY <2>4 DEF IsFcn
  <2> QED  BY <2>3, <2>5 DEF columns
<1>3. Id \in DOMAIN p.experiments => DOMAIN m.runs = DOMAIN p.runs
  BY DEF Related, MongoInv, Mirrors
<1> QED  BY <1>1, <1>2, <1>3 DEF PostgresRunsInPhase, MongoRunsInPhase

LEMMA InterruptRelated ==
    ASSUME NEW s, NEW p, NEW m, Related(s, p, m), NEW rows, NEW rowsOfMongo,
           Id \in DOMAIN p.experiments => rowsOfMongo = rows, NEW error
    PROVE  /\ Related(SqliteInterrupt(s, rows, error), PostgresInterrupt(p, rows, error),
                      MongoInterrupt(m, rowsOfMongo, error))
           /\ s = p => SqliteInterrupt(s, rows, error) = PostgresInterrupt(p, rows, error)
<1> DEFINE s1 == SqliteInterrupt(s, rows, error)
           p1 == PostgresInterrupt(p, rows, error)
           m1 == MongoInterrupt(m, rowsOfMongo, error)
           U == Interruption(error)
           sruns == [r \in DOMAIN s.runs |->
                       IF r \in rows THEN SqliteWriteDoc(s.runs, r, s.runs[r].doc, U)[r] ELSE s.runs[r]]
           pruns == [r \in DOMAIN p.runs |->
                       IF r \in rows THEN UpdateStatement(p.runs, r, U)[r] ELSE p.runs[r]]
           mruns == [r \in DOMAIN m.runs |->
                       IF r \in rows THEN Updated(m.runs[r], U) ELSE m.runs[r]]
<1>1. IsStore(s) /\ IsStore(p) /\ IsStore(m) /\ IsTable(p.runs, RunColumns)
  BY DEF Related, PostgresInv, SqliteInv, MongoInv
<1>2. /\ s1 = [experiments |-> s.experiments, runs |-> sruns, results |-> s.results]
      /\ p1 = [experiments |-> p.experiments, runs |-> pruns, results |-> p.results]
      /\ IsStore(m1) /\ m1.experiments = m.experiments /\ m1.results = m.results
      /\ Id \in DOMAIN p.experiments => m1.runs = mruns
  BY <1>1 DEF SqliteInterrupt, PostgresInterrupt, MongoInterrupt, IsStore
<1>3. /\ IsTable(pruns, RunColumns)
      /\ \A r \in DOMAIN p.runs : pruns[r].columns["experiment_id"] = p.runs[r].columns["experiment_id"]
  BY <1>1, InterruptOfATable
<1>4. Mirrors(m.runs, p.runs) => Mirrors(mruns, pruns)
  BY <1>1, InterruptOfAMirror
<1>5. SameColumns(s.runs, p.runs) => SameColumns(sruns, pruns)
  BY InterruptOfColumns
<1>6. DOMAIN pruns = DOMAIN p.runs
  OBVIOUS
<1>7. s = p => s1 = p1
  <2>1. ASSUME s = p, NEW r \in DOMAIN p.runs
        PROVE  SqliteWriteDoc(s.runs, r, s.runs[r].doc, U) = UpdateStatement(p.runs, r, U)
    BY <2>1 DEF SqliteWriteDoc, UpdateStatement
  <2>2. ASSUME s = p  PROVE sruns = pruns
    BY <2>1, <2>2
  <2> HIDE DEF s1, p1, sruns, pruns
  <2> QED  BY <1>2, <2>2
<1> HIDE DEF s1, p1, m1, sruns, pruns, mruns
<1>8. PostgresInv(p1)
  BY <1>2, <1>3, <1>6 DEF Related, PostgresInv, IsStore
<1>9. MongoInv(m1, p1) /\ SqliteInv(s1, p1)
  BY <1>2, <1>4, <1>5 DEF Related, MongoInv, SqliteInv, IsStore
<1> QED  BY <1>7, <1>8, <1>9 DEF Related, s1, p1, m1

-----------------------------------------------------------------------------
(* The invariant: the stores are related at every moment, SQLite equals    *)
(* Postgres until an update is overtaken, and a thread in the middle of an *)
(* update holds one of those the callers make.                             *)
HeldInv ==
    /\ DOMAIN pc = Clients /\ DOMAIN held = Clients
    /\ \A c \in Clients : pc[c] = "update" => held[c].update \in Updates
    /\ \A c \in Clients : pc[c] = "phase" => held[c].update \in PhaseUpdates

StoresInv ==
    /\ Related(sqlite, postgres, mongo)
    /\ ~stale => sqlite = postgres

Inv == HeldInv /\ StoresInv

LEMMA HeldUpdatesFit ==
    ASSUME HeldInv, NEW c \in Clients
    PROVE  /\ pc[c] = "update" => Fits(held[c].update, ExperimentColumns)
           /\ pc[c] = "phase" => Fits(held[c].update, RunColumns \ {"experiment_id"})
<1>1. \A update \in Updates : Fits(update, ExperimentColumns)
  BY DEF Updates, Reconciled, PreEmbedState, GoldenCount, Fits, AllColumns, ExperimentColumns,
         RunColumns
<1>2. \A update \in PhaseUpdates : Fits(update, RunColumns \ {"experiment_id"})
  BY DEF PhaseUpdates, Fits, AllColumns, ExperimentColumns, RunColumns
<1> QED  BY <1>1, <1>2 DEF HeldInv

LEMMA InvInit == Init => Inv
<1> SUFFICES ASSUME Init  PROVE Inv
  OBVIOUS
<1> DEFINE row == ToRow(NewExperiment)
           empty == EmptyStore.experiments
<1>1. /\ sqlite = [experiments |-> Put(empty, Id, row), runs |-> <<>>, results |-> {}]
      /\ postgres = [experiments |-> Put(empty, Id, row), runs |-> <<>>, results |-> {}]
      /\ mongo = [experiments |-> Put(empty, Id, NewExperiment), runs |-> <<>>, results |-> {}]
      /\ DOMAIN empty = {}
  <2>1. EmptyStore = [experiments |-> <<>>, runs |-> <<>>, results |-> {}] /\ DOMAIN <<>> = {}
    BY DEF EmptyStore
  <2>2. Id \notin DOMAIN EmptyStore.experiments
    BY <2>1
  <2> QED
    BY <2>1, <2>2 DEF Init, SqliteInsertExperiment, PostgresInsertExperiment, MongoInsertExperiment
<1>2. IsFcn(NewExperiment) /\ IsWhole(NewExperiment, ExperimentColumns)
  BY DEF NewExperiment, IsFcn, IsWhole, AllColumns, RunColumns, ExperimentColumns
<1>3. IsTable(Put(empty, Id, row), ExperimentColumns) /\ DOMAIN Put(empty, Id, row) = {Id}
  BY <1>1, <1>2, PutOfARow DEF IsTable, Put
<1>4. Mirrors(Put(empty, Id, NewExperiment), Put(empty, Id, row))
  BY <1>1, <1>2, PutOfAMirror DEF Mirrors
<1> HIDE DEF row, empty
<1>5. PostgresInv(postgres)
  BY <1>1, <1>3 DEF PostgresInv, IsStore, IsTable
<1>6. MongoInv(mongo, postgres)
  BY <1>1, <1>4 DEF MongoInv, IsStore, Mirrors
<1>7. SqliteInv(sqlite, postgres)
  BY <1>1 DEF SqliteInv, IsStore, SameColumns
<1>8. HeldInv
  BY DEF Init, HeldInv
<1> QED  BY <1>1, <1>5, <1>6, <1>7, <1>8 DEF Inv, StoresInv, Related

LEMMA HeldNext == HeldInv /\ [Next]_vars => HeldInv'
<1> SUFFICES ASSUME HeldInv, [Next]_vars  PROVE HeldInv'
  OBVIOUS
<1> USE DEF HeldInv, Call, Return
<1>1. ASSUME NEW c \in Clients, NEW update \in Updates, UpdateReads(c, update)  PROVE HeldInv'
  BY <1>1 DEF UpdateReads
<1>2. ASSUME NEW c \in Clients, NEW run, NEW update \in PhaseUpdates, PhaseReads(c, run, update)
      PROVE  HeldInv'
  BY <1>2 DEF PhaseReads
<1>3. ASSUME NEW c \in Clients, UpdateWrites(c) \/ PhaseWrites(c)  PROVE HeldInv'
  BY <1>3 DEF UpdateWrites, PhaseWrites
<1>4. ASSUME NEW c \in Clients, NEW run, NEW columns,
             Mark(c, columns) \/ InsertRun(c, run) \/ InsertResult(c, run)
      PROVE  HeldInv'
  BY <1>4 DEF Mark, InsertRun, InsertResult
<1>5. ASSUME NEW c \in Clients, DeleteResults(c) \/ DeleteRuns(c) \/ DeleteExperiment(c)
      PROVE  HeldInv'
  BY <1>5 DEF DeleteResults, DeleteRuns, DeleteExperiment, Delete
<1>6. CASE CrashAndBoot
  BY <1>6 DEF CrashAndBoot
<1>7. CASE UNCHANGED vars
  BY <1>7 DEF vars
<1> QED  BY <1>1, <1>2, <1>3, <1>4, <1>5, <1>6, <1>7 DEF Next

LEMMA StoresNext == Inv /\ [Next]_vars => StoresInv'
<1> SUFFICES ASSUME HeldInv, StoresInv, [Next]_vars  PROVE StoresInv'
  BY DEF Inv
<1> USE DEF StoresInv
<1>1. ASSUME UNCHANGED <<sqlite, postgres, mongo, stale>>  PROVE StoresInv'
  BY <1>1
<1>2. ASSUME NEW c \in Clients, UpdateWrites(c)  PROVE StoresInv'
  <2>1. Fits(held[c].update, ExperimentColumns)
    BY <1>2, HeldUpdatesFit DEF UpdateWrites
  <2>2. Related(sqlite, postgres, mongo)'
    BY <1>2, <2>1, UpdateExperimentRelated DEF UpdateWrites
  <2>3. ASSUME ~stale'  PROVE sqlite' = postgres'
    BY <1>2, <2>3, WriteIsTheStatement
       DEF UpdateWrites, SqliteUpdateExperiment, PostgresUpdateExperiment
  <2> QED  BY <2>2, <2>3
<1>3. ASSUME NEW c \in Clients, PhaseWrites(c)  PROVE StoresInv'
  <2>1. Fits(held[c].update, RunColumns \ {"experiment_id"})
    BY <1>3, HeldUpdatesFit DEF PhaseWrites
  <2>2. Related(sqlite, postgres, mongo)'
    BY <1>3, <2>1, UpdateRunPhaseRelated DEF PhaseWrites
  <2>3. ASSUME ~stale'  PROVE sqlite' = postgres'
    <3> DEFINE run == held[c].run
               read == held[c].read
               update == held[c].update
    <3>1. /\ sqlite' = SqliteUpdateRunPhase(sqlite, run, read, update)
          /\ postgres' = PostgresUpdateRunPhase(postgres, run, update)
          /\ read = SqliteReadDoc(sqlite.runs, run) /\ sqlite = postgres
      BY <1>3, <2>3 DEF PhaseWrites
    <3> QED
      BY <3>1, WriteIsTheStatement DEF SqliteUpdateRunPhase, PostgresUpdateRunPhase
  <2> QED  BY <2>2, <2>3
<1>4. ASSUME NEW c \in Clients, NEW status, NEW completed_at,
             Mark(c, [status |-> status, completed_at |-> completed_at])
      PROVE  StoresInv'
  <2> DEFINE columns == [status |-> status, completed_at |-> completed_at]
  <2>1. IsFcn(columns) /\ DOMAIN columns \subseteq ExperimentColumns
    BY DEF IsFcn, ExperimentColumns
  <2>2. /\ sqlite' = SqliteMark(sqlite, Id, columns)
        /\ postgres' = PostgresMark(postgres, Id, columns)
        /\ mongo' = MongoMark(mongo, Id, columns)
        /\ stale' = stale
    BY <1>4 DEF Mark
  <2> HIDE DEF columns
  <2> QED  BY <2>1, <2>2, MarkRelated
<1>5. ASSUME NEW c \in Clients, NEW run, InsertRun(c, run)  PROVE StoresInv'
  BY <1>5, InsertRunRelated DEF InsertRun
<1>6. ASSUME NEW c \in Clients, NEW run, InsertResult(c, run)  PROVE StoresInv'
  BY <1>6, InsertResultRelated DEF InsertResult
<1>7. ASSUME NEW c \in Clients, NEW step \in {"results", "runs", "experiment"}, Delete(c, step)
      PROVE  StoresInv'
  BY <1>7, DeleteRelated DEF Delete
<1>8. CASE CrashAndBoot
  <2> DEFINE rows(running, runs) == IF Id \in running THEN runs ELSE {}
             rowsS == rows(SqliteRunning(sqlite), SqliteRunsInPhase(sqlite, Id, "queued"))
             rowsP == rows(PostgresRunning(postgres), PostgresRunsInPhase(postgres, Id, "queued"))
             rowsM == rows(MongoRunning(mongo), MongoRunsInPhase(mongo, Id, "queued"))
  <2>1. rowsS = rowsP /\ (Id \in DOMAIN postgres.experiments => rowsM = rowsP)
    BY SameRunning, SameRunsInPhase
  <2>2. /\ sqlite' = SqliteInterrupt(sqlite, rowsS, "interrupted")
        /\ postgres' = PostgresInterrupt(postgres, rowsP, "interrupted")
        /\ mongo' = MongoInterrupt(mongo, rowsM, "interrupted")
        /\ stale' = stale
    BY <1>8 DEF CrashAndBoot
  <2> HIDE DEF rowsS, rowsP, rowsM
  <2> QED  BY <2>1, <2>2, InterruptRelated
<1>9. CASE UNCHANGED vars
  BY <1>1, <1>9 DEF vars
<1> QED
  BY <1>1, <1>2, <1>3, <1>4, <1>5, <1>6, <1>7, <1>8, <1>9
  DEF Next, UpdateReads, PhaseReads, DeleteResults, DeleteRuns, DeleteExperiment

LEMMA InvHolds == Spec => []Inv
<1>1. Inv /\ [Next]_vars => Inv'
  BY HeldNext, StoresNext DEF Inv
<1> QED  BY InvInit, <1>1, PTL DEF Spec

(* The SQL stores keep no run and no result of an experiment they do not   *)
(* have, whatever calls a delete meets and wherever a crash stops it.      *)
THEOREM NoRowIsOrphaned == Spec => []RowsHaveTheirExperiment
<1>1. Inv => RowsHaveTheirExperiment
  <2> SUFFICES ASSUME Inv, NEW store \in {sqlite, postgres}
               PROVE  /\ \A r \in DOMAIN store.runs :
                            store.runs[r].columns.experiment_id \in DOMAIN store.experiments
                      /\ \A x \in store.results : x.experiment_id \in DOMAIN store.experiments
    BY DEF RowsHaveTheirExperiment
  <2>1. PostgresInv(postgres) /\ SqliteInv(sqlite, postgres)
    BY DEF Inv, StoresInv, Related
  <2> QED  BY <2>1 DEF PostgresInv, SqliteInv, SameColumns
<1> QED  BY InvHolds, <1>1, PTL

(* The status of the experiment and the phases of its runs are the same in *)
(* the three stores, even after SQLite has lost an update of a document.   *)
THEOREM ColumnsSurvive == Spec => []ColumnsAreNotLost
<1>1. Inv => ColumnsAreNotLost
  <2> SUFFICES ASSUME Inv  PROVE ColumnsAreNotLost
    OBVIOUS
  <2>1. Related(sqlite, postgres, mongo)  BY DEF Inv, StoresInv
  <2>2. Exists => Id \in DOMAIN postgres.experiments
    BY <2>1 DEF Exists, Related, MongoInv, Mirrors
  <2> QED  BY <2>1, <2>2, SameRunning, SameRunsInPhase DEF ColumnsAreNotLost
<1> QED  BY InvHolds, <1>1, PTL

(* Until one update of a SQLite row overtakes another, the port's reads    *)
(* find the same experiment, runs and results whatever store is behind it. *)
THEOREM StoresAreInterchangeable == Spec => []StoresAgree
<1>1. Inv => StoresAgree
  <2> SUFFICES ASSUME Inv, ~stale
               PROVE  /\ SqliteFind(sqlite, Id) = PostgresFind(postgres, Id)
                      /\ PostgresFind(postgres, Id) = MongoFind(mongo, Id)
                      /\ SqliteRuns(sqlite, Id) = PostgresRuns(postgres, Id)
                      /\ SqliteResults(sqlite, Id) = PostgresResults(postgres, Id)
                      /\ Exists => /\ PostgresRuns(postgres, Id) = MongoRuns(mongo, Id)
                                   /\ PostgresResults(postgres, Id) = MongoResults(mongo, Id)
    BY DEF StoresAgree
  <2>1. sqlite = postgres /\ MongoInv(mongo, postgres)
    BY DEF Inv, StoresInv, Related
  <2>2. /\ SqliteFind(sqlite, Id) = PostgresFind(postgres, Id)
        /\ SqliteRuns(sqlite, Id) = PostgresRuns(postgres, Id)
        /\ SqliteResults(sqlite, Id) = PostgresResults(postgres, Id)
    BY <2>1 DEF SqliteFind, PostgresFind, SqliteRuns, PostgresRuns, SqliteResults, PostgresResults
  <2>3. PostgresFind(postgres, Id) = MongoFind(mongo, Id)
    BY <2>1 DEF PostgresFind, MongoFind, RowsToDocs, Restrict, MongoInv, Mirrors
  <2>4. ASSUME Exists
        PROVE  /\ PostgresRuns(postgres, Id) = MongoRuns(mongo, Id)
               /\ PostgresResults(postgres, Id) = MongoResults(mongo, Id)
    <3>1. Mirrors(mongo.runs, postgres.runs) /\ mongo.results = postgres.results
      BY <2>1, <2>4 DEF Exists, MongoInv, Mirrors
    <3>2. RunsOf(RowsToDocs(postgres.runs), Id) = RunsOf(mongo.runs, Id)
      BY <3>1 DEF RunsOf, RowsToDocs, Mirrors
    <3>3. PostgresRuns(postgres, Id) = MongoRuns(mongo, Id)
      BY <3>1, <3>2 DEF PostgresRuns, MongoRuns, RunsOf, RowsToDocs, Restrict, Mirrors
    <3> QED  BY <3>1, <3>3 DEF PostgresResults, MongoResults
  <2> QED  BY <2>2, <2>3, <2>4
<1> QED  BY InvHolds, <1>1, PTL
=============================================================================
