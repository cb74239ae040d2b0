--------------------------- MODULE SearchIndexes ---------------------------
(***************************************************************************)
(* The preflight of an experiment: before it is stored, and again when its *)
(* sweep starts, the server compares the search indexes its config needs   *)
(* with those of the vector store and tries to make up the difference.     *)
(* Submissions run in threads of the default pool, side by side with each  *)
(* other and with the one sweep of the sweep pool; every listing, drop and *)
(* creation of an index is a call to a cluster they share.                 *)
(*                                                                         *)
(* MongoDB indexes each vector width, and the text, on its own and within  *)
(* a quota. The other stores have one object: Postgres its schema, Redis   *)
(* and Elasticsearch one index for all chunks. Here it is named "chunks".  *)
(* An index that Elasticsearch quantizes has the status "quantized".       *)
(***************************************************************************)
EXTENDS Integers, Sequences, FiniteSets, SequencesExt

CONSTANTS
    Experiments,
    Resumable,      \* experiments that may be paused ones, resumed
    Backends,       \* vector stores the server may be configured with
    Configs,        \* [engine, models, methods] an experiment may have
    Unknown,        \* search indexes of other projects on the cluster
    Limit           \* M0_SEARCH_INDEX_LIMIT

VARIABLES
    backend,        \* VECTOR_STORE_BACKEND
    config,         \* each experiment's config
    index,          \* status of every index
    at,             \* what each experiment's thread does next
    sweeping,       \* whether that thread is its sweep, not its submission
    plan,           \* what the first snapshot leaves to do
    todo,           \* indexes still to drop, or still to create
    gone,           \* indexes dropped since a sweep's last snapshot
    queue           \* the sweeps the pool's one thread has not started

settings == <<backend, config>>
preflight == <<index, at, plan, todo, gone>>
indexVars == <<settings, preflight, sweeping, queue>>

Dimensions(m) == CASE m = "all-MiniLM-L6-v2" -> 384
                   [] m = "splade-v3" -> 30522
                   [] OTHER -> 1024
Provider(m) == CASE m = "all-MiniLM-L6-v2" -> "local"
                 [] m = "Qwen3-Embedding-8B" -> "doubleword"
                 [] OTHER -> "sie"

ATLAS_MAX_VECTOR_DIMENSIONS == 4096
SUPPORTED_DIMS == {384, 1024}

VectorIndex(dims) == IF dims = 384 THEN "vector_index_384"
                     ELSE IF dims = 1024 THEN "vector_index_1024" ELSE "vector_index_30522"
IndexName(m) == VectorIndex(Dimensions(m))
Known == <<"text_search_index", "vector_index_1024", "vector_index_30522", "vector_index_384">>
Indexes == Range(Known) \cup Unknown \cup {"chunks"}

Models(e) == config[e].models

RequiredSearchIndexes(e) ==
    {IndexName(m) : m \in Models(e)} \cup
    (IF config[e].methods \cap {"sparse", "hybrid"} # {} THEN {"text_search_index"} ELSE {})

Required(e) == IF backend = "mongodb" THEN RequiredSearchIndexes(e) ELSE {"chunks"}

(* A boot creates indexes or prunes unknown ones, but goes on without: any *)
(* status may be found, save that no cluster indexes 30522 dimensions. A   *)
(* resumed experiment is only queued.                                      *)
Init ==
    /\ backend \in Backends
    /\ config \in [Experiments -> Configs]
    /\ index \in {s \in [Indexes -> {"absent", "building", "ready", "failed", "quantized"}] :
                    /\ \A i \in Unknown : s[i] \in {"absent", "ready"}
                    /\ \A i \in Range(Known) : s[i] # "quantized"
                    /\ s["vector_index_30522"] = "absent"
                    /\ s["chunks"] \in {"absent", "ready"} \cup
                         (IF backend = "elasticsearch" THEN {"quantized"} ELSE {})
                    /\ IF backend = "mongodb" THEN s["chunks"] = "absent"
                       ELSE \A i \in Indexes \ {"chunks"} : s[i] = "absent"
                    /\ Cardinality({i \in Indexes : s[i] # "absent"}) <= Limit}
    /\ \E resumed \in {es \in SUBSET Resumable : \A e \in es : config[e].engine = backend} :
         /\ queue = SetToSeq(resumed)
         /\ at = [e \in Experiments |-> IF e \in resumed THEN "queued" ELSE "new"]
    /\ sweeping = [e \in Experiments |-> FALSE]
    /\ plan = [e \in Experiments |-> "none"]
    /\ todo = [e \in Experiments |-> {}]
    /\ gone = [e \in Experiments |-> {}]

-----------------------------------------------------------------------------
(* How a preflight goes on.                                                *)

Goes(e, next) == at' = [at EXCEPT ![e] = next]

(* SearchIndexMismatchError and SIEUnavailableError: 422, or a sweep that  *)
(* has failed.                                                             *)
Refuse(e) == Goes(e, IF sweeping[e] THEN "failed" ELSE "refused")

(* Any other exception: 500, or a sweep that nobody runs any more though   *)
(* its experiment has status running.                                      *)
Raise(e) == Goes(e, IF sweeping[e] THEN "stuck" ELSE "crashed")

Pass(e) == Goes(e, "providers")

Present == {i \in Indexes : index[i] # "absent"}
Missing(e, seen) == Required(e) \ seen
Slots(seen) == IF Limit > Cardinality(seen) THEN Limit - Cardinality(seen) ELSE 0

(* A listing of the cluster passes over a collection that it fails to      *)
(* list: the server's own, those of others, or both.                       *)
Listings == {Present, Present \ Range(Known), Present \ Unknown, {}}

IsSatisfied(e, seen) ==
    /\ Cardinality(Required(e)) <= Limit
    /\ \A i \in Required(e) : i \in seen /\ index[i] = "ready"

(* What an assessment that is not satisfied leaves to do.                  *)
LeftToDo(e, seen) ==
    IF Missing(e, seen) = {} THEN "refuse"
    ELSE IF Cardinality(Missing(e, seen)) > Slots(seen) THEN "prune" ELSE "create"

FollowPlan(e, p) ==
    \/ p = "prune" /\ Goes(e, "listUnknown") /\ UNCHANGED todo
    \/ p = "create" /\ Goes(e, "ensure") /\ todo' = [todo EXCEPT ![e] = Required(e)]
    \/ p = "refuse" /\ Refuse(e) /\ UNCHANGED todo

(* Every preflight starts here: the engine is compared on submission only. *)
Submit(e) ==
    /\ at[e] = "new"
    /\ IF config[e].engine = backend THEN Goes(e, "plan") ELSE Refuse(e)
    /\ UNCHANGED <<settings, index, plan, todo, gone, sweeping, queue>>

-----------------------------------------------------------------------------
(* MongoDB.                                                                *)

Infeasible(e) == \E m \in Models(e) : Dimensions(m) > ATLAS_MAX_VECTOR_DIMENSIONS

Snapshot(e, stage) ==
    /\ backend = "mongodb" /\ at[e] = stage
    /\ gone' = [gone EXCEPT ![e] = {}]
    /\ UNCHANGED <<settings, index, sweeping, queue>>

FirstSnapshot(e) ==
    /\ Snapshot(e, "plan")
    /\ UNCHANGED todo
    /\ IF Infeasible(e) THEN Refuse(e) /\ UNCHANGED plan
       ELSE \E seen \in Listings :
              IF IsSatisfied(e, seen) THEN Pass(e) /\ UNCHANGED plan
              ELSE Goes(e, "list") /\ plan' = [plan EXCEPT ![e] = LeftToDo(e, seen)]

(* FAILED indexes, and known ones this config has no use for.              *)
Reconcilable(e, seen) ==
    {i \in Range(Known) \cap seen : index[i] = "failed" \/ i \notin Required(e)}

ListToReconcile(e) ==
    /\ at[e] = "list"
    /\ \E seen \in Listings :
         IF Reconcilable(e, seen) = {} THEN FollowPlan(e, plan[e])
         ELSE Goes(e, "drop") /\ todo' = [todo EXCEPT ![e] = Reconcilable(e, seen)]
    /\ plan' = [plan EXCEPT ![e] = "none"]
    /\ UNCHANGED <<settings, index, gone, sweeping, queue>>

ListUnknown(e) ==
    /\ at[e] = "listUnknown"
    /\ \E seen \in Listings :
         IF Unknown \cap seen = {} THEN Refuse(e) /\ UNCHANGED todo
         ELSE Goes(e, "dropUnknown") /\ todo' = [todo EXCEPT ![e] = Unknown \cap seen]
    /\ UNCHANGED <<settings, index, plan, gone, sweeping, queue>>

HasPassed(e) == sweeping[e] /\ at[e] \in {"providers", "running"}

(* The list may be stale: an index that is gone by now is an error, and    *)
(* one that was rebuilt is dropped all the same.                           *)
DropIndex(e, stage, next) ==
    /\ at[e] = stage
    /\ \E i \in todo[e] :
         IF i \in Present
         THEN /\ index' = [index EXCEPT ![i] = "absent"]
              /\ gone' = [f \in Experiments |-> IF HasPassed(f) THEN gone[f] \cup {i} ELSE {}]
              /\ todo' = [todo EXCEPT ![e] = @ \ {i}]
              /\ IF todo[e] = {i} THEN Goes(e, next) ELSE UNCHANGED at
         ELSE Raise(e) /\ todo' = [todo EXCEPT ![e] = {}] /\ UNCHANGED <<index, gone>>
    /\ UNCHANGED <<settings, plan, sweeping, queue>>

Reconcile(e) == DropIndex(e, "drop", "resnapshot")
PruneUnknown(e) == DropIndex(e, "dropUnknown", "recount")

SecondSnapshot(e) ==
    /\ Snapshot(e, "resnapshot")
    /\ UNCHANGED plan
    /\ \E seen \in Listings :
         IF IsSatisfied(e, seen) THEN Pass(e) /\ UNCHANGED todo ELSE FollowPlan(e, LeftToDo(e, seen))

SnapshotOfPruned(e) ==
    /\ Snapshot(e, "recount")
    /\ UNCHANGED plan
    /\ \E seen \in Listings :
         IF IsSatisfied(e, seen) THEN Pass(e) /\ UNCHANGED todo
         ELSE FollowPlan(e, IF LeftToDo(e, seen) = "create" THEN "create" ELSE "refuse")

(* ensure_required_search_indexes takes the names in order; one that       *)
(* exists is passed over, whatever its status. When the listing fails, it  *)
(* is taken to be absent.                                                  *)
First(e) == Head(SelectSeq(Known, LAMBDA i : i \in todo[e]))
Done(e) == todo' = [todo EXCEPT ![e] = @ \ {First(e)}]

EnsureIndex(e) ==
    /\ at[e] = "ensure" /\ todo[e] # {}
    /\ \/ First(e) \in Present /\ Done(e) /\ UNCHANGED at
       \/ Goes(e, "create") /\ UNCHANGED todo
    /\ UNCHANGED <<settings, index, plan, gone, sweeping, queue>>

CreateIndex(e) ==
    /\ at[e] = "create"
    /\ \/ /\ First(e) \in Present           \* overlooked, or another has created it
          /\ Raise(e) /\ todo' = [todo EXCEPT ![e] = {}] /\ UNCHANGED index
       \/ /\ First(e) \notin Present /\ Slots(Present) = 0   \* over quota: only logged
          /\ Goes(e, "ensure") /\ Done(e) /\ UNCHANGED index
       \/ /\ First(e) \notin Present /\ Slots(Present) > 0
          /\ Goes(e, "wait") /\ index' = [index EXCEPT ![First(e)] = "building"]
          /\ UNCHANGED todo
    /\ UNCHANGED <<settings, plan, gone, sweeping, queue>>

EndWait(e) ==
    /\ at[e] = "wait" /\ Goes(e, "ensure") /\ Done(e)
    /\ UNCHANGED <<settings, index, plan, gone, sweeping, queue>>

SeeReady(e) == at[e] = "wait" /\ index[First(e)] = "ready" /\ EndWait(e)

(* Mutant of TimeOut: waits without a deadline.                            *)
TimeOutNever(e) == FALSE /\ EndWait(e)

TimeOut(e) == EndWait(e)

EndEnsure(e) ==
    /\ at[e] = "ensure" /\ todo[e] = {} /\ Goes(e, "final")
    /\ UNCHANGED <<settings, index, plan, todo, gone, sweeping, queue>>

(* Mutant of FinalSnapshot: the indexes just created are taken for ready.  *)
FinalWithoutSnapshot(e) ==
    /\ Snapshot(e, "final")
    /\ UNCHANGED <<plan, todo>>
    /\ Pass(e)

FinalSnapshot(e) ==
    /\ Snapshot(e, "final")
    /\ UNCHANGED <<plan, todo>>
    /\ \E seen \in Listings : IF IsSatisfied(e, seen) THEN Pass(e) ELSE Refuse(e)

-----------------------------------------------------------------------------
(* The other stores.                                                       *)

PlanPostgres(e) ==
    /\ backend = "postgres" /\ at[e] = "plan"
    /\ IF index["chunks"] = "ready" THEN Pass(e) ELSE Refuse(e)
    /\ UNCHANGED <<settings, index, plan, todo, gone, sweeping, queue>>

Unsupported(e) == \E m \in Models(e) : Dimensions(m) \notin SUPPORTED_DIMS

Ready(e) == IF backend = "redis" THEN Goes(e, "fit") ELSE Pass(e)

(* A store that answers the health check with no is refused; one that      *)
(* cannot be reached raises, see CallFails.                                *)
PlanShared(e) ==
    /\ backend \in {"redis", "elasticsearch"} /\ at[e] = "plan"
    /\ \/ Refuse(e)
       \/ IF Unsupported(e) \/ index["chunks"] = "quantized" THEN Refuse(e)
          ELSE IF index["chunks"] = "ready" THEN Ready(e) ELSE Goes(e, "ensureShared")
    /\ UNCHANGED <<settings, index, plan, todo, gone, sweeping, queue>>

EnsureShared(e) ==
    /\ at[e] = "ensureShared"
    /\ Goes(e, IF index["chunks"] = "absent" THEN "createShared" ELSE "planAgain")
    /\ UNCHANGED <<settings, index, plan, todo, gone, sweeping, queue>>

CreateShared(e) ==
    /\ at[e] = "createShared"
    /\ IF index["chunks"] = "absent"
       THEN Goes(e, "planAgain") /\ index' = [index EXCEPT !["chunks"] = "ready"]
       ELSE Raise(e) /\ UNCHANGED index
    /\ UNCHANGED <<settings, plan, todo, gone, sweeping, queue>>

PlanAgain(e) ==
    /\ at[e] = "planAgain"
    /\ IF index["chunks"] = "ready" THEN Ready(e) ELSE Refuse(e)
    /\ UNCHANGED <<settings, index, plan, todo, gone, sweeping, queue>>

(* Query engine, eviction policy, memory: a RedisPreflightError is a       *)
(* ValueError.                                                             *)
RunConfigPreflight(e) ==
    /\ at[e] = "fit"
    /\ Pass(e) \/ Raise(e)
    /\ UNCHANGED <<settings, index, plan, todo, gone, sweeping, queue>>

(* A call to the store that raises, other than the listing of one          *)
(* collection, ends the preflight: it is not turned into a mismatch. Only  *)
(* the wait for an index carries on.                                       *)
CallFails(e) ==
    /\ at[e] \in {"plan", "list", "drop", "resnapshot", "listUnknown", "dropUnknown", "recount",
                  "ensure", "create", "final", "ensureShared", "createShared", "planAgain"}
    /\ Raise(e)
    /\ plan' = [plan EXCEPT ![e] = "none"]
    /\ todo' = [todo EXCEPT ![e] = {}]
    /\ UNCHANGED <<settings, index, gone, sweeping, queue>>

-----------------------------------------------------------------------------
(* After the indexes: SIE, and on submission DoubleWord, if a model needs  *)
(* them. Then the submission stores the experiment and queues its sweep.   *)
Uses(e, provider) == \E m \in Models(e) : Provider(m) = provider

CheckProviders(e) ==
    /\ at[e] = "providers"
    /\ \/ /\ Uses(e, "sie") \/ (Uses(e, "doubleword") /\ ~sweeping[e])
          /\ Refuse(e) /\ UNCHANGED queue
       \/ IF sweeping[e] THEN Goes(e, "running") /\ UNCHANGED queue
          ELSE Goes(e, "queued") /\ queue' = Append(queue, e)
    /\ UNCHANGED <<settings, index, plan, todo, gone, sweeping>>

Over == {"refused", "crashed", "failed", "stuck", "ended"}
PoolIsFree == \A e \in Experiments : sweeping[e] => at[e] \in Over

StartSweep ==
    /\ queue # <<>> /\ PoolIsFree
    /\ LET e == Head(queue) IN
         /\ Goes(e, "plan") /\ sweeping' = [sweeping EXCEPT ![e] = TRUE]
    /\ queue' = Tail(queue)
    /\ UNCHANGED <<settings, index, plan, todo, gone>>

EndSweep(e) ==
    /\ at[e] = "running" /\ Goes(e, "ended")
    /\ gone' = [gone EXCEPT ![e] = {}]
    /\ UNCHANGED <<settings, index, plan, todo, sweeping, queue>>

(* Atlas: an index is built, or its build fails; other projects use the    *)
(* cluster too.                                                            *)
Cluster ==
    /\ backend = "mongodb"
    /\ \/ \E i \in Range(Known), s \in {"ready", "failed"} :
            index[i] = "building" /\ index' = [index EXCEPT ![i] = s]
       \/ \E i \in Unknown : i \notin Present /\ Slots(Present) > 0 /\ index' = [index EXCEPT ![i] = "ready"]
    /\ UNCHANGED <<settings, at, plan, todo, gone, sweeping, queue>>

Preflight(e) ==
    \/ FirstSnapshot(e) \/ ListToReconcile(e) \/ Reconcile(e) \/ SecondSnapshot(e)
    \/ ListUnknown(e) \/ PruneUnknown(e) \/ SnapshotOfPruned(e)
    \/ EnsureIndex(e) \/ CreateIndex(e) \/ SeeReady(e) \/ TimeOut(e) \/ EndEnsure(e)
    \/ FinalSnapshot(e)
    \/ PlanPostgres(e) \/ PlanShared(e) \/ EnsureShared(e) \/ CreateShared(e) \/ PlanAgain(e)
    \/ RunConfigPreflight(e) \/ CheckProviders(e)

-----------------------------------------------------------------------------
(* A sweep that has passed its preflight has the indexes its config needs, *)
(* but for those that the preflight of another experiment has dropped      *)
(* since the sweep's own last look at the cluster (validate_experiment_    *)
(* search_indexes): the create loop passes over indexes that are still     *)
(* being built and gives up waiting after two minutes.                     *)
RunningHasItsIndexes ==
    \A e \in Experiments :
        at[e] = "running" => \A i \in Required(e) : index[i] = "ready" \/ i \in gone[e]

(* Every preflight comes to an end: the experiment is refused, queued or   *)
(* run, though indexes may stay in status building and others may drop     *)
(* them meanwhile (_wait_for_indexes_ready).                               *)
PreflightEnds ==
    \A e \in Experiments :
        at[e] = "plan" ~> at[e] \in Over \cup {"queued", "running"}
=============================================================================
