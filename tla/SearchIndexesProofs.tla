------------------------ MODULE SearchIndexesProofs ------------------------
(***************************************************************************)
(* A running sweep has the indexes it needs, but for dropped ones: proved  *)
(* for any experiments, configs, stores, foreign indexes and quota. What   *)
(* makes RunningHasItsIndexes inductive is that it holds from the snapshot *)
(* that lets a sweep pass, not only from its start (PassedHaveIndexes),    *)
(* and that the steps that drop or build indexes are MongoDB's, so that a  *)
(* store of another kind keeps the index its plan has seen.                *)
(***************************************************************************)
EXTENDS VectorSearch, TLAPS

MongoStages == {"list", "drop", "resnapshot", "listUnknown", "dropUnknown", "recount",
                "ensure", "create", "wait", "final"}
SharedStages == {"ensureShared", "createShared", "planAgain", "fit"}
Passed == {"providers", "running"}
Apart == {"new", "plan", "queued", "refused", "crashed", "failed", "stuck", "ended"}
Stages == Apart \cup MongoStages \cup SharedStages \cup Passed
Statuses == {"absent", "building", "ready", "failed", "quantized"}

IndexTypes ==
    /\ index \in [Indexes -> Statuses]
    /\ at \in [Experiments -> Stages]
    /\ gone \in [Experiments -> SUBSET Indexes]
    /\ sweeping \in [Experiments -> BOOLEAN]

StagesOfStore ==
    \A e \in Experiments :
        /\ at[e] \in MongoStages => backend = "mongodb"
        /\ at[e] \in SharedStages => backend # "mongodb"
        /\ at[e] = "fit" => index["chunks"] = "ready"
        /\ at[e] = "running" => sweeping[e]

PassedHaveIndexes ==
    \A e \in Experiments :
        HasPassed(e) => \A i \in Required(e) : index[i] = "ready" \/ i \in gone[e]

IndexInv == IndexTypes /\ StagesOfStore /\ PassedHaveIndexes

-----------------------------------------------------------------------------
(* Every index a config needs is one of the cluster's or the shared one.   *)
LEMMA RequiredAreIndexes ==
    ASSUME NEW e \in Experiments
    PROVE  Required(e) \subseteq Indexes
<1>1. {"text_search_index", "vector_index_1024", "vector_index_30522", "vector_index_384"}
        \subseteq Range(Known)
  <2>1. /\ 1 \in DOMAIN Known /\ Known[1] = "text_search_index"
        /\ 2 \in DOMAIN Known /\ Known[2] = "vector_index_1024"
        /\ 3 \in DOMAIN Known /\ Known[3] = "vector_index_30522"
        /\ 4 \in DOMAIN Known /\ Known[4] = "vector_index_384"
    BY DEF Known
  <2> QED  BY <2>1 DEF Range
<1>2. \A m : IndexName(m) \in {"vector_index_1024", "vector_index_30522", "vector_index_384"}
  BY DEF IndexName, VectorIndex
<1>3. RequiredSearchIndexes(e) \subseteq Range(Known)
  BY <1>1, <1>2 DEF RequiredSearchIndexes
<1> QED  BY <1>3 DEF Required, Indexes

(* The config of an experiment and the store of the server stay.           *)
LEMMA RequiredStay ==
    ASSUME UNCHANGED settings, NEW e \in Experiments
    PROVE  Required(e)' = Required(e)
BY DEF settings, Required, RequiredSearchIndexes, Models

-----------------------------------------------------------------------------
(* A step of one experiment's thread that leaves the indexes alone.        *)
LEMMA GoesOn ==
    ASSUME IndexInv,
           UNCHANGED settings, index' = index, gone' = gone, sweeping' = sweeping,
           NEW e \in Experiments, NEW s \in Stages, Goes(e, s),
           s \in MongoStages => backend = "mongodb",
           s \in SharedStages => backend # "mongodb",
           s = "fit" => index["chunks"] = "ready",
           s = "running" => sweeping[e] = TRUE,
           s \in Passed => \A i \in Required(e) :
                              sweeping[e] = TRUE => index[i] = "ready" \/ i \in gone[e]
    PROVE  IndexInv'
<1>1. backend' = backend  BY DEF settings
<1>2. at' \in [Experiments -> Stages] /\ at'[e] = s
      /\ \A f \in Experiments \ {e} : at'[f] = at[f]
  BY DEF IndexInv, IndexTypes, Goes
<1>3. IndexTypes'
  <2>1. Indexes' = Indexes  OBVIOUS
  <2> QED  BY <1>2, <2>1 DEF IndexInv, IndexTypes
<1>4. StagesOfStore'
  BY <1>1, <1>2 DEF IndexInv, StagesOfStore
<1>5. PassedHaveIndexes'
  BY <1>2, RequiredStay DEF IndexInv, PassedHaveIndexes, HasPassed, Passed
<1> QED  BY <1>3, <1>4, <1>5 DEF IndexInv

(* The same for a step that forgets what was dropped before: e has not     *)
(* passed yet, or its sweep is over.                                       *)
LEMMA GoesOnAfresh ==
    ASSUME IndexInv,
           UNCHANGED settings, index' = index, sweeping' = sweeping,
           NEW e \in Experiments, NEW s \in Stages, Goes(e, s),
           gone' = [gone EXCEPT ![e] = {}],
           s \in MongoStages => backend = "mongodb",
           s \notin SharedStages, s # "running",
           s \in Passed => \A i \in Required(e) : index[i] = "ready"
    PROVE  IndexInv'
<1>1. backend' = backend  BY DEF settings
<1>2. at' \in [Experiments -> Stages] /\ at'[e] = s
      /\ \A f \in Experiments \ {e} : at'[f] = at[f] /\ gone'[f] = gone[f]
  BY DEF IndexInv, IndexTypes, Goes
<1>3. IndexTypes'
  <2>1. Indexes' = Indexes  OBVIOUS
  <2>2. gone' \in [Experiments -> SUBSET Indexes]  BY DEF IndexInv, IndexTypes
  <2> QED  BY <1>2, <2>1, <2>2 DEF IndexInv, IndexTypes
<1>4. StagesOfStore'
  BY <1>1, <1>2 DEF IndexInv, StagesOfStore, SharedStages
<1>5. PassedHaveIndexes'
  BY <1>2, RequiredStay DEF IndexInv, PassedHaveIndexes, HasPassed, Passed
<1> QED  BY <1>3, <1>4, <1>5 DEF IndexInv

(* A step that changes one index, which no thread's progress has relied    *)
(* on: it was not ready, or it is ready now.                               *)
LEMMA IndexChanges ==
    ASSUME IndexInv,
           UNCHANGED settings, gone' = gone, sweeping' = sweeping,
           NEW i, NEW s \in Statuses, index' = [index EXCEPT ![i] = s],
           i \in Indexes => index[i] # "ready" \/ s = "ready",
           NEW e \in Experiments, NEW next \in Stages, at' = at \/ Goes(e, next),
           next \in MongoStages => backend = "mongodb",
           next \in SharedStages => backend # "mongodb",
           next \notin Passed, next # "fit"
    PROVE  IndexInv'
<1>1. backend' = backend  BY DEF settings
<1>2. at' \in [Experiments -> Stages]
      /\ \A f \in Experiments : at'[f] = at[f] \/ at'[f] = next
  BY DEF IndexInv, IndexTypes, Goes
<1>3. index' \in [Indexes -> Statuses]
      /\ \A j \in Indexes : index[j] = "ready" => index'[j] = "ready"
  BY DEF IndexInv, IndexTypes
<1>4. IndexTypes'
  <2>1. Indexes' = Indexes  OBVIOUS
  <2> QED  BY <1>2, <1>3, <2>1 DEF IndexInv, IndexTypes
<1>5. StagesOfStore'
  <2>1. "chunks" \in Indexes  BY DEF Indexes
  <2> QED  BY <1>1, <1>2, <1>3, <2>1 DEF IndexInv, StagesOfStore, Passed
<1>6. PassedHaveIndexes'
  BY <1>2, <1>3, RequiredStay, RequiredAreIndexes
  DEF IndexInv, PassedHaveIndexes, HasPassed, Passed
<1> QED  BY <1>4, <1>5, <1>6 DEF IndexInv

-----------------------------------------------------------------------------
LEMMA SatisfiedIsReady ==
    ASSUME NEW e \in Experiments, NEW seen, IsSatisfied(e, seen)
    PROVE  \A i \in Required(e) : index[i] = "ready"
BY DEF IsSatisfied

(* The stages after which an experiment is checked again from the start,   *)
(* or not at all.                                                          *)
LEMMA GoesApart ==
    ASSUME IndexInv, UNCHANGED settings, index' = index, sweeping' = sweeping,
           NEW e \in Experiments,
           NEW s \in Apart,
           Goes(e, s), gone' = gone \/ gone' = [gone EXCEPT ![e] = {}]
    PROVE  IndexInv'
<1>1. s \in Stages /\ s \notin MongoStages /\ s \notin SharedStages /\ s \notin Passed
      /\ s # "fit" /\ s # "running"
  BY DEF Stages, Apart, MongoStages, SharedStages, Passed
<1>2. CASE gone' = gone
  BY <1>1, <1>2, GoesOn
<1>3. CASE gone' = [gone EXCEPT ![e] = {}]
  BY <1>1, <1>3, GoesOnAfresh
<1> QED  BY <1>2, <1>3

LEMMA GoesOnMongo ==
    ASSUME IndexInv, UNCHANGED settings, index' = index, sweeping' = sweeping,
           NEW e \in Experiments, NEW s \in MongoStages, Goes(e, s), backend = "mongodb",
           gone' = gone \/ gone' = [gone EXCEPT ![e] = {}]
    PROVE  IndexInv'
<1>1. s \in Stages /\ s \notin SharedStages /\ s \notin Passed /\ s # "fit" /\ s # "running"
  BY DEF Stages, MongoStages, SharedStages, Passed
<1>2. CASE gone' = gone
  BY <1>1, <1>2, GoesOn
<1>3. CASE gone' = [gone EXCEPT ![e] = {}]
  BY <1>1, <1>3, GoesOnAfresh
<1> QED  BY <1>2, <1>3

LEMMA GoesOnShared ==
    ASSUME IndexInv, UNCHANGED settings, index' = index, sweeping' = sweeping, gone' = gone,
           NEW e \in Experiments, NEW s \in SharedStages, Goes(e, s), backend # "mongodb",
           s = "fit" => index["chunks"] = "ready"
    PROVE  IndexInv'
<1>1. s \in Stages /\ s \notin MongoStages /\ s \notin Passed /\ s # "running"
  BY DEF Stages, MongoStages, SharedStages, Passed
<1> QED  BY <1>1, GoesOn

(* A preflight that passes, and a sweep that starts its runs.              *)
LEMMA GoesPassed ==
    ASSUME IndexInv, UNCHANGED settings, index' = index, sweeping' = sweeping, gone' = gone,
           NEW e \in Experiments, NEW s \in Passed, Goes(e, s), s = "running" => sweeping[e] = TRUE,
           \A i \in Required(e) : sweeping[e] = TRUE => index[i] = "ready" \/ i \in gone[e]
    PROVE  IndexInv'
<1>1. s \in Stages /\ s \notin MongoStages /\ s \notin SharedStages /\ s # "fit"
  BY DEF Stages, MongoStages, SharedStages, Passed
<1> QED  BY <1>1, GoesOn

LEMMA RefuseKeeps ==
    ASSUME IndexInv, UNCHANGED settings, index' = index, sweeping' = sweeping,
           NEW e \in Experiments, Refuse(e) \/ Raise(e),
           gone' = gone \/ gone' = [gone EXCEPT ![e] = {}]
    PROVE  IndexInv'
<1>1. PICK s \in {"failed", "refused", "stuck", "crashed"} : Goes(e, s)
  BY DEF Refuse, Raise
<1> QED  BY <1>1, GoesApart DEF Apart

(* The plan an assessment leaves is followed by no step into "providers".  *)
LEMMA FollowPlanKeeps ==
    ASSUME IndexInv, UNCHANGED settings, index' = index, sweeping' = sweeping,
           NEW e \in Experiments, NEW p, FollowPlan(e, p), backend = "mongodb",
           gone' = gone \/ gone' = [gone EXCEPT ![e] = {}]
    PROVE  IndexInv'
<1>1. CASE Refuse(e)
  BY <1>1, RefuseKeeps
<1>2. CASE \E s \in {"listUnknown", "ensure"} : Goes(e, s)
  BY <1>2, GoesOnMongo DEF MongoStages
<1> QED  BY <1>1, <1>2 DEF FollowPlan

(* A snapshot that satisfies the config has all its indexes ready.         *)
LEMMA SnapshotKeeps ==
    ASSUME IndexInv, NEW e \in Experiments,
           FirstSnapshot(e) \/ SecondSnapshot(e) \/ SnapshotOfPruned(e) \/ FinalSnapshot(e)
    PROVE  IndexInv'
<1>1. /\ UNCHANGED settings /\ index' = index /\ sweeping' = sweeping
      /\ gone' = [gone EXCEPT ![e] = {}] /\ backend = "mongodb"
  BY DEF FirstSnapshot, SecondSnapshot, SnapshotOfPruned, FinalSnapshot, Snapshot
<1>2. CASE Refuse(e)
  BY <1>1, <1>2, RefuseKeeps
<1>3. CASE Pass(e) /\ \E seen : IsSatisfied(e, seen)
  <2>1. "providers" \in Stages /\ "providers" \notin MongoStages
        /\ "providers" \notin SharedStages
    BY DEF Stages, Passed, MongoStages, SharedStages
  <2>2. \A i \in Required(e) : index[i] = "ready"
    BY <1>3, SatisfiedIsReady
  <2>3. Goes(e, "providers")
    BY <1>3 DEF Pass
  <2> QED  BY <1>1, <2>1, <2>2, <2>3, GoesOnAfresh
<1>4. CASE Goes(e, "list")
  BY <1>1, <1>4, GoesOnMongo DEF MongoStages
<1>5. CASE \E p : FollowPlan(e, p)
  BY <1>1, <1>5, FollowPlanKeeps
<1> QED
  BY <1>2, <1>3, <1>4, <1>5
  DEF FirstSnapshot, SecondSnapshot, SnapshotOfPruned, FinalSnapshot

LEMMA ListKeeps ==
    ASSUME IndexInv, NEW e \in Experiments, ListToReconcile(e) \/ ListUnknown(e)
    PROVE  IndexInv'
<1>1. /\ UNCHANGED settings /\ index' = index /\ sweeping' = sweeping /\ gone' = gone
      /\ at[e] \in MongoStages
  BY DEF ListToReconcile, ListUnknown, MongoStages
<1>2. backend = "mongodb"
  BY <1>1 DEF IndexInv, StagesOfStore
<1>3. CASE Refuse(e)
  BY <1>1, <1>3, RefuseKeeps
<1>4. CASE \E s \in {"drop", "dropUnknown"} : Goes(e, s)
  BY <1>1, <1>2, <1>4, GoesOnMongo DEF MongoStages
<1>5. CASE \E p : FollowPlan(e, p)
  BY <1>1, <1>2, <1>5, FollowPlanKeeps
<1> QED
  BY <1>3, <1>4, <1>5 DEF ListToReconcile, ListUnknown

(* An index that is dropped is noted as gone by every sweep that has       *)
(* passed; a sweep that has not passed needs nothing yet.                  *)
LEMMA DropKeeps ==
    ASSUME IndexInv, NEW e \in Experiments, Reconcile(e) \/ PruneUnknown(e)
    PROVE  IndexInv'
<1>1. PICK stage \in MongoStages, next \in MongoStages : DropIndex(e, stage, next)
  BY DEF Reconcile, PruneUnknown, MongoStages
<1>2. UNCHANGED settings /\ sweeping' = sweeping /\ at[e] = stage /\ backend = "mongodb"
  BY <1>1 DEF DropIndex, IndexInv, StagesOfStore
<1>3. PICK i \in todo[e] :
        IF i \in Present
        THEN /\ index' = [index EXCEPT ![i] = "absent"]
             /\ gone' = [f \in Experiments |-> IF HasPassed(f) THEN gone[f] \cup {i} ELSE {}]
             /\ at' = at \/ Goes(e, next)
        ELSE Raise(e) /\ index' = index /\ gone' = gone
  BY <1>1 DEF DropIndex
<1>4. CASE i \notin Present
  BY <1>2, <1>3, <1>4, RefuseKeeps
<1>5. CASE i \in Present
  <2>1. i \in Indexes  BY <1>5 DEF Present
  <2>2. /\ at' \in [Experiments -> Stages]
        /\ at'[e] \in MongoStages
        /\ \A f \in Experiments \ {e} : at'[f] = at[f]
    BY <1>2, <1>3, <1>5 DEF IndexInv, IndexTypes, Goes, Stages
  <2>3. IndexTypes'
    <3>1. Indexes' = Indexes  OBVIOUS
    <3>2. index' \in [Indexes -> Statuses]  BY <1>3, <1>5 DEF IndexInv, IndexTypes, Statuses
    <3>3. gone' \in [Experiments -> SUBSET Indexes]
      BY <1>3, <1>5, <2>1 DEF IndexInv, IndexTypes
    <3> QED  BY <1>2, <2>2, <3>1, <3>2, <3>3 DEF IndexInv, IndexTypes
  <2>4. StagesOfStore'
    BY <1>2, <2>2 DEF IndexInv, StagesOfStore, MongoStages, SharedStages, settings
  <2>5. PassedHaveIndexes'
    <3> SUFFICES ASSUME NEW f \in Experiments, HasPassed(f)',
                        NEW j \in Required(f)
                 PROVE  index'[j] = "ready" \/ j \in gone'[f]
      BY <1>2, RequiredStay DEF PassedHaveIndexes
    <3>1. f # e  BY <2>2 DEF HasPassed, MongoStages
    <3>2. HasPassed(f)  BY <1>2, <2>2, <3>1 DEF HasPassed
    <3>3. j \in Indexes  BY RequiredAreIndexes
    <3>4. gone'[f] = gone[f] \cup {i}  BY <1>3, <1>5, <3>2
    <3>5. j # i => index'[j] = index[j]  BY <1>3, <1>5, <3>3 DEF IndexInv, IndexTypes
    <3> QED  BY <3>2, <3>4, <3>5 DEF IndexInv, PassedHaveIndexes
  <2> QED  BY <2>3, <2>4, <2>5 DEF IndexInv
<1> QED  BY <1>4, <1>5

LEMMA EnsureKeeps ==
    ASSUME IndexInv, NEW e \in Experiments,
           EnsureIndex(e) \/ SeeReady(e) \/ TimeOut(e) \/ EndEnsure(e)
    PROVE  IndexInv'
<1>1. /\ UNCHANGED settings /\ index' = index /\ sweeping' = sweeping /\ gone' = gone
      /\ at[e] \in MongoStages
  BY DEF EnsureIndex, SeeReady, TimeOut, EndEnsure, EndWait, MongoStages
<1>2. backend = "mongodb"
  BY <1>1 DEF IndexInv, StagesOfStore
<1>3. \E s \in {at[e], "create", "ensure", "final"} : Goes(e, s)
  <2>1. at' = at => Goes(e, at[e])  BY DEF Goes, IndexInv, IndexTypes
  <2> QED  BY <2>1 DEF EnsureIndex, SeeReady, TimeOut, EndEnsure, EndWait
<1> QED
  BY <1>1, <1>2, <1>3, GoesOnMongo DEF MongoStages

LEMMA CreateKeeps ==
    ASSUME IndexInv, NEW e \in Experiments, CreateIndex(e) \/ CreateShared(e)
    PROVE  IndexInv'
<1>1. UNCHANGED settings /\ sweeping' = sweeping /\ gone' = gone
  BY DEF CreateIndex, CreateShared
<1>2. CASE CreateIndex(e)
  <2>1. backend = "mongodb"
    BY <1>2 DEF CreateIndex, IndexInv, StagesOfStore, MongoStages
  <2>2. CASE Raise(e) /\ index' = index
    BY <1>1, <2>2, RefuseKeeps
  <2>3. CASE Goes(e, "ensure") /\ index' = index
    BY <1>1, <2>1, <2>3, GoesOnMongo DEF MongoStages
  <2>4. CASE /\ First(e) \notin Present /\ Goes(e, "wait")
             /\ index' = [index EXCEPT ![First(e)] = "building"]
    <3>1. First(e) \in Indexes => index[First(e)] # "ready"  BY <2>4 DEF Present
    <3>2. "wait" \in Stages /\ "building" \in Statuses /\ "wait" \notin SharedStages
          /\ "wait" \notin Passed /\ "wait" # "fit"
      BY DEF Stages, Statuses, MongoStages, SharedStages, Passed
    <3> QED
      BY <1>1, <2>1, <2>4, <3>1, <3>2, IndexChanges
  <2> QED  BY <1>2, <2>2, <2>3, <2>4 DEF CreateIndex
<1>3. CASE CreateShared(e)
  <2>1. backend # "mongodb"
    BY <1>3 DEF CreateShared, IndexInv, StagesOfStore, SharedStages
  <2>2. CASE Raise(e) /\ index' = index
    BY <1>1, <2>2, RefuseKeeps
  <2>3. CASE Goes(e, "planAgain") /\ index' = [index EXCEPT !["chunks"] = "ready"]
    <3>1. "planAgain" \in Stages /\ "ready" \in Statuses /\ "planAgain" \notin MongoStages
          /\ "planAgain" \notin Passed /\ "planAgain" # "fit"
      BY DEF Stages, Statuses, SharedStages, MongoStages, Passed
    <3> QED
      BY <1>1, <2>1, <2>3, <3>1, IndexChanges
  <2> QED  BY <1>3, <2>2, <2>3 DEF CreateShared
<1> QED  BY <1>2, <1>3

LEMMA SharedKeeps ==
    ASSUME IndexInv, NEW e \in Experiments,
           \/ PlanPostgres(e) \/ PlanShared(e) \/ EnsureShared(e)
           \/ PlanAgain(e) \/ RunConfigPreflight(e)
    PROVE  IndexInv'
<1>1. UNCHANGED settings /\ index' = index /\ sweeping' = sweeping /\ gone' = gone
  BY DEF PlanPostgres, PlanShared, EnsureShared, PlanAgain, RunConfigPreflight
<1>2. backend # "mongodb"
  BY DEF PlanPostgres, PlanShared, EnsureShared, PlanAgain, RunConfigPreflight,
         IndexInv, StagesOfStore, SharedStages
<1>3. Required(e) = {"chunks"}
  BY <1>2 DEF Required
<1>4. CASE Refuse(e) \/ Raise(e)
  BY <1>1, <1>4, RefuseKeeps
<1>5. CASE index["chunks"] = "ready" /\ \E s \in {"fit", "providers"} : Goes(e, s)
  <2>1. CASE Goes(e, "fit")
    BY <1>1, <1>2, <1>5, <2>1, GoesOnShared DEF SharedStages
  <2>2. CASE Goes(e, "providers")
    <3>1. "providers" \in Passed /\ "providers" # "running"  BY DEF Passed
    <3>2. \A i \in Required(e) : index[i] = "ready"  BY <1>3, <1>5
    <3> QED  BY <1>1, <2>2, <3>1, <3>2, GoesPassed
  <2> QED  BY <1>5, <2>1, <2>2
<1>6. CASE \E s \in {"ensureShared", "createShared", "planAgain"} : Goes(e, s)
  <2>1. PICK s \in SharedStages \ {"fit"} : Goes(e, s)
    BY <1>6 DEF SharedStages
  <2> QED  BY <1>1, <1>2, <2>1, GoesOnShared
<1>7. at[e] = "fit" => index["chunks"] = "ready"
  BY DEF IndexInv, StagesOfStore
<1> QED
  BY <1>4, <1>5, <1>6, <1>7
  DEF PlanPostgres, PlanShared, EnsureShared, PlanAgain, RunConfigPreflight, Ready, Pass

LEMMA CheckProvidersKeeps ==
    ASSUME IndexInv, NEW e \in Experiments, CheckProviders(e)
    PROVE  IndexInv'
<1>1. UNCHANGED settings /\ index' = index /\ sweeping' = sweeping /\ gone' = gone
  BY DEF CheckProviders
<1>2. sweeping[e] => \A i \in Required(e) : index[i] = "ready" \/ i \in gone[e]
  BY DEF CheckProviders, IndexInv, PassedHaveIndexes, HasPassed
<1>3. CASE Refuse(e)
  BY <1>1, <1>3, RefuseKeeps
<1>4. CASE sweeping[e] /\ Goes(e, "running")
  BY <1>1, <1>2, <1>4, GoesPassed DEF Passed
<1>5. CASE Goes(e, "queued")
  BY <1>1, <1>5, GoesApart DEF Apart
<1> QED  BY <1>3, <1>4, <1>5 DEF CheckProviders

(* No step of a preflight breaks it.                                       *)
LEMMA PreflightKeeps ==
    ASSUME IndexInv, NEW e \in Experiments, Preflight(e)
    PROVE  IndexInv'
BY SnapshotKeeps, ListKeeps, DropKeeps, EnsureKeeps, CreateKeeps, SharedKeeps,
   CheckProvidersKeeps
DEF Preflight

LEMMA SubmitKeeps ==
    ASSUME IndexInv, NEW e \in Experiments, Submit(e) \/ CallFails(e)
    PROVE  IndexInv'
<1>1. UNCHANGED settings /\ index' = index /\ sweeping' = sweeping /\ gone' = gone
  BY DEF Submit, CallFails
<1>2. CASE Refuse(e) \/ Raise(e)
  BY <1>1, <1>2, RefuseKeeps
<1>3. CASE Goes(e, "plan")
  BY <1>1, <1>3, GoesApart DEF Apart
<1> QED  BY <1>2, <1>3 DEF Submit, CallFails

LEMMA StartSweepKeeps ==
    ASSUME IndexInv, StartSweep
    PROVE  IndexInv'
<1> DEFINE e == Head(queue)
<1>1. /\ UNCHANGED settings /\ index' = index /\ gone' = gone
      /\ Goes(e, "plan") /\ sweeping' = [sweeping EXCEPT ![e] = TRUE]
  BY DEF StartSweep
<1>2. /\ at' \in [Experiments -> Stages] /\ sweeping' \in [Experiments -> BOOLEAN]
      /\ \A f \in Experiments : \/ at'[f] = at[f] /\ sweeping'[f] = sweeping[f]
                                \/ at'[f] = "plan"
  BY <1>1 DEF IndexInv, IndexTypes, Goes, Stages, Apart
<1>3. IndexTypes'
  <2>1. Indexes' = Indexes  OBVIOUS
  <2> QED  BY <1>1, <1>2, <2>1 DEF IndexInv, IndexTypes
<1>4. StagesOfStore'
  BY <1>1, <1>2 DEF IndexInv, StagesOfStore, MongoStages, SharedStages, settings
<1>5. PassedHaveIndexes'
  BY <1>1, <1>2, RequiredStay DEF IndexInv, PassedHaveIndexes, HasPassed
<1> QED  BY <1>3, <1>4, <1>5 DEF IndexInv

LEMMA EndSweepKeeps ==
    ASSUME IndexInv, NEW e \in Experiments, EndSweep(e)
    PROVE  IndexInv'
<1>1. /\ UNCHANGED settings /\ index' = index /\ sweeping' = sweeping
      /\ gone' = [gone EXCEPT ![e] = {}] /\ Goes(e, "ended")
  BY DEF EndSweep
<1> QED  BY <1>1, GoesApart DEF Apart

(* The cluster builds, and other projects use it.                          *)
LEMMA ClusterKeeps ==
    ASSUME IndexInv, Cluster
    PROVE  IndexInv'
<1>1. /\ UNCHANGED settings /\ gone' = gone /\ sweeping' = sweeping /\ at' = at
      /\ backend = "mongodb"
  BY DEF Cluster
<1>2. \E i, s : /\ index' = [index EXCEPT ![i] = s] /\ s \in {"ready", "failed"}
                /\ index[i] # "ready" \/ s = "ready"
  <2>1. CASE \E i \in Range(Known), s \in {"ready", "failed"} :
               index[i] = "building" /\ index' = [index EXCEPT ![i] = s]
    <3>1. PICK i \in Range(Known), s \in {"ready", "failed"} :
            index[i] = "building" /\ index' = [index EXCEPT ![i] = s]
      BY <2>1
    <3>2. index[i] # "ready"  BY <3>1
    <3> QED  BY <3>1, <3>2
  <2>2. CASE \E i \in Unknown : index' = [index EXCEPT ![i] = "ready"]
    BY <2>2
  <2> QED  BY <2>1, <2>2 DEF Cluster
<1>3. PICK i, s : /\ index' = [index EXCEPT ![i] = s] /\ s \in {"ready", "failed"}
                  /\ index[i] # "ready" \/ s = "ready"
  BY <1>2
<1>4. CASE Experiments = {}
  <2>1. Indexes' = Indexes  OBVIOUS
  <2>2. s \in Statuses  BY <1>3 DEF Statuses
  <2>3. index' \in [Indexes -> Statuses]  BY <1>3, <2>2 DEF IndexInv, IndexTypes
  <2>4. IndexTypes'  BY <1>1, <2>1, <2>3 DEF IndexInv, IndexTypes
  <2>5. StagesOfStore'  BY <1>4 DEF StagesOfStore
  <2>6. PassedHaveIndexes'  BY <1>4 DEF PassedHaveIndexes
  <2> QED  BY <2>4, <2>5, <2>6 DEF IndexInv
<1>5. CASE Experiments # {}
  <2>1. PICK e \in Experiments : TRUE  BY <1>5
  <2>2. "list" \in Stages /\ "list" \notin SharedStages /\ "list" \notin Passed
        /\ "list" # "fit" /\ s \in Statuses
    BY <1>3 DEF Stages, Statuses, MongoStages, SharedStages, Passed
  <2> QED  BY <1>1, <1>3, <2>1, <2>2, IndexChanges
<1> QED  BY <1>4, <1>5

-----------------------------------------------------------------------------
LEMMA IndexInvInit == SearchInit => IndexInv
<1> SUFFICES ASSUME SearchInit PROVE IndexInv
  OBVIOUS
<1>1. /\ index \in [Indexes -> Statuses]
      /\ gone = [e \in Experiments |-> {}]
      /\ sweeping = [e \in Experiments |-> FALSE]
      /\ \E resumed : at = [e \in Experiments |-> IF e \in resumed THEN "queued" ELSE "new"]
  BY DEF SearchInit, Init, Statuses
<1> QED
  BY <1>1 DEF IndexInv, IndexTypes, StagesOfStore, PassedHaveIndexes, HasPassed,
              Stages, Apart, Passed, MongoStages, SharedStages

(* The runs of a sweep leave the indexes alone.                            *)
LEMMA RunKeeps ==
    ASSUME IndexInv, UNCHANGED indexVars
    PROVE  IndexInv'
BY RequiredStay
DEF indexVars, settings, preflight, IndexInv, IndexTypes, StagesOfStore, PassedHaveIndexes,
    HasPassed

LEMMA IndexInvNext == IndexInv /\ [Next]_vars => IndexInv'
<1> SUFFICES ASSUME IndexInv, [Next]_vars PROVE IndexInv'
  OBVIOUS
<1>1. CASE UNCHANGED vars
  BY <1>1, RunKeeps DEF vars
<1>2. CASE (\E r \in Runs : Run(r)) \/ (\E e \in Experiments : DeleteChunks(e))
  BY <1>2, RunKeeps DEF Run, StoreChunks, PostgresQuery, DenseSearch, SparseSearch, FailRun, DeleteChunks
<1>3. CASE \E e \in Experiments : EndRuns(e)
  BY <1>3, EndSweepKeeps DEF EndRuns
<1>4. CASE \E e \in Experiments : Submit(e) \/ CallFails(e)
  BY <1>4, SubmitKeeps
<1>5. CASE \E e \in Experiments : PreflightStep(e)
  BY <1>5, PreflightKeeps DEF PreflightStep
<1>6. CASE StartSweep
  BY <1>6, StartSweepKeeps
<1>7. CASE Cluster
  BY <1>7, ClusterKeeps
<1> QED
  BY <1>1, <1>2, <1>3, <1>4, <1>5, <1>6, <1>7 DEF Next

(* A running sweep lacks an index its config needs only when another       *)
(* experiment's preflight has dropped it since the sweep's own last look   *)
(* (validate_experiment_search_indexes), whatever the number of            *)
(* experiments, their configs, the store, its quota and its other users.   *)
THEOREM RunningSweepsHaveTheirIndexes == Spec => []RunningHasItsIndexes
<1>1. IndexInv => RunningHasItsIndexes
  BY DEF IndexInv, StagesOfStore, PassedHaveIndexes, RunningHasItsIndexes, HasPassed
<1> QED  BY <1>1, IndexInvInit, IndexInvNext, PTL DEF Spec
=============================================================================
