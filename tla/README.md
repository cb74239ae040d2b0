# A TLA+ model of rag-params-finder

rag-params-finder runs *experiments*: sweeps over the parameters of a
retrieval-augmented-generation pipeline (embedding models, chunkers, chunk
sizes, overlaps, paddings, retrievers). A FastAPI server accepts an experiment,
runs every combination through the phases parsing, chunking, embedding,
storing and querying on threads of its own, keeps the state of the runs in a
small relational store (SQLite by default) and the chunks in a vector store,
and lets clients pause, resume, cancel and delete while all of that happens.

This directory holds TLA+ modules for the parts of the server that are hardest to
test: how sweeps, runs, signals, request handlers, remote batches, rate limits,
search indexes, crashes and restarts interleave, and what the stores and the
scripts that move their contents keep. TLC checks them on small instances; the
TLA+ proof system checks theorems about them for every size.

Paths below are relative to `src/`.

## 1. The parts of the system

| part | state it keeps | operations | made correct by |
|---|---|---|---|
| **Sweep scheduler** `server/core/pipeline/orchestrator.py` (`_execute_sweep`, `_run_sweep_inner`) | iterator over combinations, map of futures, four flags (`cancelled`, `paused`, `stop_after_failure`, `infrastructure_error`) | preflight, submit, wait, handle outcomes, re-check control, verdict | drains what it submitted; stops for good once told to; its verdict says what happened |
| **Runs** `orchestrator.py` (`_run_single`), `search.py` | one `run_status` row, `results` rows, chunks | the phases, a control check before each and before each query, the three `except` clauses | a COMPLETE row is whole; a run ends soon after a signal and leaves a terminal row |
| **Control registry** `experiment_control.py` | `_sweep_controls`: two `threading.Event`s per experiment | register, unregister, `request_cancel`, `request_pause`, `check_control` | a signal reaches every thread of the sweep it was meant for |
| **Sweep executor** `executors.py` | one thread, a FIFO queue | `schedule_sweep`, `_run_sweep_safe` | every sweep ends, so the ones behind it run |
| **Expansion and signatures** `models/config.py`, `signatures.py` | none | `expand_sweep`, `_params_signature` | no two combinations of one experiment have the same signature |
| **Lifecycle API** `server/api/experiments*.py` | none of its own; reads and writes the run state, with an `await` before every storage call | create, cancel, pause, resume, delete, and the GETs that normalise a stale RUNNING | what a client is told happens, and a status only changes in the documented ways |
| **Boot reconciliation** `startup_reconciliation.py` | none | settle rows and statuses left by a dead process | nothing stays RUNNING or live without a thread behind it |
| **Run-state store** `server/db/sqlite/*` (also Mongo, Postgres) | tables `experiments`, `run_status`, `results`; JSON documents beside promoted columns | one autocommitted statement per call | no lost update, no orphaned rows |
| **Bayesian sweep** `orchestrator.py:154-480` | visited candidates, trial log, run ids | ask, run, tell, finalise | terminates within its budget; its summary adds up |
| **DoubleWord pre-embedding** `pre_embed.py`, `doubleword_watcher.py` | a checkpoint file, remote batches, `pre_embed.state` | submit, poll, cache, trigger a sweep, cancel | every waiting experiment is swept or failed, once, with its vectors |
| **Rate limiter and embedders** `embedding/*` | two sliding windows under a lock that is released while sleeping, a semaphore, torch's thread count | `wait`, `call_with_retry`, the splitters, `_encode_with_retries`, `_limited_thread_pool` | limits hold with several threads; every text is embedded, in its place |
| **Search-index guards** `guards/search_index_*.py`, `db/mongo/indexes.py` | none; the indexes of a cluster that everybody shares | plan, reconcile, prune, create, wait | a sweep that starts has its indexes; a preflight ends |
| **Vector stores and retrievers** `db/*/…`, `retrieval/*`, `rerank/*`, `search.py` | chunks of all runs in one collection, table or index | `insert_chunks`, dense, sparse and hybrid search, reranking | a query finds the chunks of its run, and no others |
| **Migration scripts** `scripts/migrate/*` | source store, SQLite file with its WAL, backup copies, merged file | migrate, drop source, merge, promote | nothing is dropped that was not copied; a merge is whole |
| Chunkers, loaders, analysis and statistics, settings, CLI, dashboard | little or none | I/O, arithmetic, rendering | outside the model |

How they interact: a handler registers a control and puts a sweep on the
executor; the executor's thread schedules runs on a pool of its own; runs poll
the control; all of them write the run state, which the handlers and the GETs
read; the boot reconciliation reads what a dead process left. Memory (registry,
executor, pool) and database (status, rows, chunks) are never changed together,
which is where the difficult behaviours are. Before a sweep is queued, and again
when it starts, the index guard looks at the vector store and changes it, while
another experiment may be querying it. An experiment with a DoubleWord model is
not queued by its creation but by the watcher, from a file, possibly after a
restart.

`PROJECT.json` lists the components with their files and what of each is
modelled, and the hazards: what can go wrong where, with the properties that
would show it.

## 2. The modules

| module | what it is |
|---|---|
| `ExperimentStatuses` | statuses, phases, and the three functions that derive a status from a tally of rows |
| `RunParameters` | `expand_sweep` and the signatures of `signatures.py` |
| `SweepPromise` | abstract specification: what one grid sweep promises |
| `GridSweep` | one grid sweep: scheduler, workers, cancel and pause |
| `BayesianSweep` | one Bayesian sweep: budget, pruning, trial log, verdict |
| `ExperimentLifecycle` | one experiment from insertion to deletion: executor, registry, handlers, GETs, crash and boot, with a coarse sweep |
| `PreEmbed` | one experiment that waits for DoubleWord batches: creation, checkpoint file, watcher, cancel, crash and boot |
| `EmbeddingBatches` | how texts are cut into calls |
| `EmbeddingCalls` | threads that embed: rate limiter, retries, semaphore, torch threads |
| `RunStateAdapters` | the three adapters of the `StorageBackend` port, as operators on the state of their store |
| `RunStateStores` | the same calls against all three: what the port promises |
| `RunStateScripts` | migration, merge and promotion of run state |
| `SearchIndexes` | the preflights of several experiments on one cluster |
| `Retrieval` | ranked lists: reciprocal rank fusion, reranking |
| `VectorSearch` | runs that store and query chunks while preflights change the indexes; extends `SearchIndexes` and `Retrieval` |
| `MC…` | instances for TLC |
| `GridSweepProofs` (with the signatures of `RunParameters`), `ExperimentLifecycleProofs` (with the derivations of `ExperimentStatuses`), `PreEmbedProofs`, `BayesianSweepProofs`, `EmbeddingCallsProofs`, `RunStateStoresProofs`, `RunStateScriptsProofs`, `SearchIndexesProofs` | theorems |

`GridSweep`, `BayesianSweep`, `ExperimentLifecycle` and `PreEmbed` share
`ExperimentStatuses`. `GridSweep` is shown to implement `SweepPromise`.
`MCGridSweepSignatures` composes it with `RunParameters`: the combinations and
signatures of a real configuration are its constants. `ExperimentLifecycle` uses
the same status functions with a sweep of fewer steps (a run is started, has
stored its chunks, or has ended), because there are several sweeps, two requests
and a crash beside it. `VectorSearch` composes the preflights of `SearchIndexes`
with the queries of `Retrieval`.

A definition that a run swaps for a mutated form (`Mutant of ...` in the comment
above it) stands beside it in the module; the mutants are in no specification
and only serve to show that a property can fail.

### GridSweep and the code

| model | code |
|---|---|
| `pc` | where `_run_sweep_inner` stands: `queued` (before the database check), `control` (line 634), `preflight` (644), `prime` (the first loop, 715), `wait` (720), `recheck` (754), `refill` (765), `finalise` (769-811), `unregister` (the `finally` of `_execute_sweep`) |
| `runIter`, `futures`, the flags | the local variables of the same names |
| `result` | what the sweep function returned, `"raised"` if an exception left it |
| `at[c]` | the thread of `_run_single` for combination `c`: in the pool's queue, at a control check, about to write a phase, working, searching, about to complete, in an `except` clause, done |
| `outcome[c]` | how its future ended: `ok`, the two control errors, `sie` (SIEUnavailableError), any other error |
| `row[c]`, `answered[c]`, `stored[c]` | its `run_status` row, its results rows, its chunks |
| `prior[c]` | the row an earlier, paused sweep left |
| `status`, `cancelEvent`, `pauseEvent` | the experiment's status, the two events of `_SweepControl` |
| `cancelRequest`, `pauseRequest` | where the two handlers stand; a handler is three steps with an `await` in between |

The loop over `done` is one step because it touches the thread's own variables
only. The order of the iterator and of the pool's queue is left open. Phases
and their work are the steps of `EnterPhase`, `FinishPhase`, `Rerank` and
`AnswerQuery`; `Raise` lets any of them fail, `StorageFaults` any write of the
run state. `lateEntries` is a history variable that counts phases entered after
the cancel event was set.

### ExperimentLifecycle and the code

The database is `exists`, `status`, `row`, `chunks`; the memory of the process
`control`, `sweep`, `full`, `skip`, `seen`, `work`. `Crash` empties the memory
and drops every request; `BootMarksRuns` and `BootDerivesStatus` are the two
halves of `_reconcile_one`, before the server serves anything. Every handler
step is one storage call or one synchronous stretch of the event loop. A client
sees the status it read (`saw`) and keeps deciding on it, as the code does.
`creating` is the window between `insert_experiment_doc` and `schedule_sweep`.
A sweep knows of a signal either from a run that it interrupted or from its own
control check (`seen`).

Any call of the run state may raise, `MaxFaults` times (`Raises`): before the first
run (`ResumeRaises`, `PreflightRaises`, `FirstSubmitRaises`), at the insert of a row or
its terminal phase (`InsertRaises`, `LoseRun`), at the verdict (`ConcludeRaises`), in
a handler and in the boot, which `main.py` lets go on. `_run_sweep_safe` only logs
what leaves a sweep, so the experiment stays RUNNING; `gaveUp` remembers that the last
sweep or boot left it so. `LoseRun` leaves a live row without a worker.

The GET of one experiment runs its normalisation on the event loop itself; the
model lets other handlers in between, so it has a little more behaviour than
the code there. The list GET, whose normalisation runs in a thread, has all of
it.

### PreEmbed and the code

| model | code |
|---|---|
| `creator` | where `_maybe_pre_embed_and_schedule` stands: submitting its two jobs, adding the entries, writing `waiting`; `"late"` if that write came after the watcher's |
| `batch`, `checkpoint` | DoubleWord's side of each job, and the entries of `doubleword_batches.json` |
| `cache`, `backend` | jobs whose vectors are all in the embedding cache, and whether that is SQLite or Redis |
| `watcher`, `todo` | `DoubleWordWatcher.run`: the entry it is at, in what step, and the entries it loaded at the start of the round |
| `sweeps`, `over`, `active`, `control` | the executor's queue and the registered control |
| `canceller` | where the cancel handler stands: mark, cancel batches, clear the file |
| `lost`, `forgotten`, `missed` | history: vectors that were not downloaded, kept, or have expired; checkpoints that went before their batch was done; a watcher's write or a sweep's verdict lost to a storage error |

The file, the cache and the database survive `Crash`. `Boot` is
`reconcile_orphaned_experiments`. Each `await` of the watcher and of the handlers
ends a step. Once every vector is cached the run still fails, because the
embedder does not take an argument it is given (see 3); `SweepEnds` and `Outcome`
have that. A
storage error may meet creation's `waiting` write, the insert of the run's row, its
terminal write (the row stays live), or leave the sweep without a verdict
(`SweepRaises`).

### BayesianSweep and the code

`at` is the place in `_run_bayesian_inner`, `trial` the candidate of the trial
under way, `rows` and `log` the `run_status` rows and `trial_log`, `flags` the
local flags. Optuna is any choice among the candidates (`Prune` when it was seen
before, `Ask` when not). `BeginRaises`, `TrialRaises`, `StartRaises`, `LoseRun`,
`ScoreFails` and `FinaliseRaises` are the storage errors: before the loop, at the
write of `started_at`, at the insert of the row (the run is in `run_ids` and has
none, `"absent"`), at its terminal write (the row stays `"live"`), at the score, and
at the end.

### EmbeddingBatches, EmbeddingCalls and the code

A text is its number of tokens. `plan` is what a caller was asked for and how
the splitters cut it; `log` the limiter's two deques, with ages in ticks in
place of times; `nap` the remaining sleep. The stretch from the check of a limit
to the append is one step, because the lock is held; a sleep ends it.
`WaitForTpm` does not look at the request limit again, as in the code. `busy` is
the SIE semaphore; `torch` and `previous` are the process-wide number of threads
and the one each local caller will restore. `after` counts the calls made after
a cancel.

### RunStateAdapters, RunStateStores and the code

A document is a function from fields to values. The SQL stores split it into
promoted columns and a JSON document and join them on reading; Mongo keeps it.
`SqliteReadDoc` and `SqliteWriteDoc` are the two statements of an update; every
other call is one statement. `RunStateStores` gives the same calls of two threads
to the three stores at the same moments; `held` is what a thread has read between
its SELECT and its UPDATE, `stale` that an UPDATE has overwritten a document its
thread had not seen.

### RunStateScripts and the code

A row is its experiment, its table and a version. `step` is what the script under
way does next; `Killed` may end it anywhere, and it may be started again.
`source` is the old store, `db` and `wal` the SQLite file, `host` and `volume` the
verified copies, `merged` the third file, `archive` the folder of a promotion.
Servers write to the store they use (`SourceWrites`, `LiveWrites`, `Checkpoint`).

### SearchIndexes, Retrieval, VectorSearch and the code

`at[e]` is what the thread of experiment `e` does next: its submission first,
its sweep later (`sweeping[e]`). On MongoDB the steps are those of
`validate_experiment_search_indexes`: snapshot, list and reconcile (drop failed
and surplus indexes), snapshot, list and prune unknown ones, create in order of
names, wait, last snapshot. Each call to the cluster is a step, and so is each
drop, because `todo` was computed from a listing that may be old. Postgres, Redis
and Elasticsearch have one object, `"chunks"`. `CallFails` lets any call raise;
`Refuse` and `Raise` are the errors that create and the sweep catch, and those
they do not. A listing of the cluster passes over a collection it fails to list
(`Listings`), so a preflight may take indexes for absent that are there. `gone[e]` is
a history variable: indexes dropped since the sweep's last snapshot.

`docs` are the chunks of all runs of all experiments, each with the run it belongs to
and its `chunk_id` (`ChunkId`: the run and the index). A run is an experiment and the
number of a worker: a sweep has several under way. `StoreChunks` stores all chunks of
a run or fails it; Elasticsearch takes the `chunk_id` for the document's id and
overwrites, Postgres for the primary key and raises. Every query of every retriever
has a filter of its own (`OfRun` in `AtlasDense`, `RedisSparse`, `FullText` and so on),
and returns what passes it in the given order, or less where MongoDB's index lags.
`RrfFuse` is `fusion.py`, `SqlFused` the same in Postgres's SQL, where ties have any
order. `Wanted` and `Better` say in `SearchFindsTheRun`, without any of this, how many
hits there should be and which chunk may not be left out for which.

## 3. What the runs check

Passing runs:

| run | instance | what it shows |
|---|---|---|
| `GridSweepConcurrent` | 2 combinations, 2 workers, 1 query, cancel and pause, storage faults, symmetry | `NoRunLeftBehind`: at the verdict everything submitted has ended and every row is terminal, except one whose terminal write itself failed. `OnePhaseAfterCancel`. `CompleteRunsHaveData`. `VerdictHasCause`. `KeepsPromise`: refinement of `SweepPromise` |
| `GridSweepResumed` | a dense and a reranking combination with their real signatures, 1 worker, on_error=stop, resumed from any earlier rows, cancel and pause, storage faults, fairness | `CompleteMeansAll`, `NoCompletedRunRepeated`, `ResumeRunsTheRest`, the action property `NothingSubmittedAfterStop`, and the liveness property `SweepEnds` |
| `LifecycleRequests` | 2 combinations, 2 clients, 3 requests of any kind, 2 sweeps, one storage error | `DeleteLeavesNoRows` |
| `LifecycleSettles` | from creation on, 1 client, 2 requests among cancel, pause, resume, delete and the detail GET, 2 sweeps, 2 crashes, one storage error, fairness | `ResumeRepeatsNothing`, `BootSettlesRows`, and the liveness property `RunningIsSettled` |
| `PreEmbedSettles` | a document and a query job, one fault of seven kinds, one crash, a cancel, a pause and a resume, both caches, fairness | `SweptAtMostOnce`, `SweepHasVectors`: an entry leaves the file only after its vectors are kept. `WaitingIsUnswept`, `CancelIsFinal`, and the liveness property `WaitingIsSettled` |
| `BayesianSweepEnds` | 2 candidates, one of them named twice, both `on_error`, two storage errors, cancel and pause, fairness | `AskingEnds` within three calls per planned trial; `BayesianVerdictHasCause` and `TrialLogMatchesRows` up to the storage errors there were |
| `EmbeddingCallsLimited` | 2 callers with any two of seven workloads, limits of 2 requests and 6 tokens, 3 attempts, fairness | `TokensWithinLimit`; `RequestsWithinLimit` up to one request for each other thread; `EmbeddedInOrder`; `CancelStopsCalls`; `ThreadsRestored`; `CallersFinish` |
| `RunStateStoresAgree` | 2 threads, 2 runs, 6 calls of any kind, crash and boot | `StoresAgree` while no two SQLite updates overlap; `ColumnsAreNotLost` in any case; `RowsHaveTheirExperiment` in the SQL stores |
| `RunStateScriptsKeepRows` | 2 experiments, 3 server writes, 3 scripts, kills, any backup copies, symmetry | `DroppedIsCopied`, `MergedIsWhole`, `WalFollowsItsDatabase` |
| `VectorSearchFindsTheRun` | 1 experiment, new or resumed, 2 runs at a time, 5 configurations over four stores, 4 chunks of which 2 match, three candidates and two hits | `SearchFindsTheRun` |
| `PreflightsShareTheCluster` | 2 experiments, one possibly resumed, 6 configurations over four stores, a cluster of 2 indexes, one of another project | `RunningHasItsIndexes`, and the liveness property `PreflightEnds` |

The violation run checks one sentence of the documentation that the code does not
keep, and TLC prints the interleaving. The quotation and lines are in `PROJECT.json`
under `findings`.

| run | what happens |
|---|---|
| `LifecyclePauseDuringResume` | a pause between the two steps of a resume finds no control and writes PAUSED itself; the resumed sweep, which looks for CANCELLED only, runs its combinations in the PAUSED experiment |

`CHECK_DEADLOCK FALSE` stands in every configuration because the modelled
system really stops: a sweep is over, an experiment is settled and no request
is left to send, or, in `RunStateStoresAgree` and `RunStateScriptsKeepRows`, the
bounds on calls and scripts are reached. That nothing is stuck before is what the
liveness properties show.

### What the properties leave out, and why

Some properties name an exception. Each is something the code does:

* `SweptAtMostOnce` and `SweepHasVectors` do not speak of an experiment whose
  checkpoint was emptied by a failed batch or a cancel in the middle of a round:
  the watcher goes on with the entries it loaded, and each completed one may
  schedule a sweep. Nor of vectors whose download failed or that Redis did not
  keep: both errors are only logged.
* `WaitingIsUnswept` excepts creation's own `waiting` write that lands late.
* `RunningHasItsIndexes` excepts indexes another preflight has dropped since the
  sweep's last look: reconcile drops what its own configuration does not need.
* `SearchFindsTheRun` does not count MongoDB's hits, because an index may lag or be
  dropped. Postgres is taken to have pgvector 0.8, whose iterative scan fills the
  limit. In a hybrid query only a chunk that is nearer and does not match worse may
  not be left out: the weights of the fusion are not told apart.
* `RunningIsSettled` excepts an experiment that its last sweep or boot has given up
  (`gaveUp`) and that nobody is at work on: a signal before the first run, or a
  storage error that leaves the sweep or the boot. A cancel, a GET or the next boot
  settles it, if one comes.
* `BayesianVerdictHasCause` and `TrialLogMatchesRows` grant one run without its row or
  its phase for each storage error; COMPLETE may rest on such runs alone (see below).
* `WaitingIsSettled` excepts a storage error that ate the watcher's write or left the
  sweep (`missed`), and a pause that met the sweep while it was queued.
* `RequestsWithinLimit` grants one request more for each other thread, and
  `TokensWithinLimit` a call that is larger than the ceiling by itself.
* `StoresAgree` does not speak of documents that overlapping SQLite updates have
  overwritten, nor of rows of a deleted experiment in Mongo.
* `DroppedIsCopied` excepts what a server wrote about an experiment of the
  migration after its table was read.

### Known deviations without a run

Behaviours of the same models that differ from what the documentation says or a
reader would expect, each listed as a hazard:

* A pause that reaches a queued sweep is raised past every `except`
  (`orchestrator.py:636`, and `:161` for Bayesian ones): the experiment stays
  RUNNING without a sweep, though `cli-reference.md:82` says its status becomes
  `paused`.
* With `on_error: stop`, runs already handed to the pool still start after the
  first failure (`orchestrator.py:765`; `local-environment.md:231`).
* A combination that fails before a pause and after it makes the experiment
  FAILED although another completed (`orchestrator.py:858`;
  `dashboard-guide.md:61`).
* Combinations that differ in padding have one signature: a resume skips one of
  them (`signatures.py:22`; `cli-reference.md:94`).
* A GET that read RUNNING before the sweep paused may write its derived status
  over PAUSED (`experiments_lifecycle.py:212`).
* Chunks that a worker of a cancelled sweep stores after a delete stay
  (`experiments_shared.py:80`).
* Rows of a cancelled experiment stay live after a crash
  (`startup_reconciliation.py:36`).
* A cancel after the last control check is overwritten by the verdict; one
  decided on a stale status overwrites COMPLETE; a reranker and a cross-encoder on
  one model have one signature; a GET between the two steps of a resume writes
  COMPLETE with combinations left; a pause and a resume before the first schedule
  run everything twice.
* A storage error of `resume_sweep`'s first read, before `_execute_sweep`'s `try`,
  leaves the control registered and the experiment RUNNING without a sweep
  (`orchestrator.py:126`). One in the read of the status, the preflight, the first
  submission or the verdict (`:626`, `:644`, `:692`, `:811`) leaves it RUNNING too.
* The write of a run's terminal phase that raises leaves its row live under the
  verdict (`orchestrator.py:1075-1083`).
* Every run of a DoubleWord experiment fails, also with all its vectors in the cache:
  `_run_single` passes `cancel_check` (`orchestrator.py:945-953`) to an embedder that
  does not take it (`embedder_factory.py:59`), though `doubleword-setup.md:12-14` says
  the watcher "resumes runs once vectors are cached".
* A Bayesian sweep whose only runs have no row, because their inserts raised, ends
  COMPLETE: none counts as failed, and PARTIAL without a failed row is turned into
  COMPLETE (`orchestrator.py:364`; `dashboard-guide.md:56`).
* Two resumes that both read PAUSED schedule two sweeps under one control, and the
  first to end removes it (`experiments.py:475`).
* The pre-embedding submits paragraphs while the runs embed chunks
  (`experiments.py:88`), so the cache holds other keys than the ones asked for.
* An unreachable Redis or Elasticsearch, and a refused Redis index, end in 500 or
  a stuck sweep where `redis-setup.md:128-129` says 422
  (`search_index_guard.py:238`).
* `--promote` accepts the file a refused or killed merge leaves; a second
  `--drop-source` keeps the older of two copies.

### Bounds

The bounds are constants: `Combos`, `MaxWorkers`, `NumQueries`, `MaxSweeps`,
`MaxRequests`, `MaxCrashes` (`Schedule`, `Read` and `Crash` have the last three in
their guards), `MaxFaults`, `MaxCalls`, `MaxWrites`, `MaxScripts`, `MaxHost`.
The age in the limiter's log stops growing one past `Window`.

* Two combinations on two workers give every race of two runs with each other,
  with the scheduler and with a signal; two on one worker give a run that has
  ended, or works, while the other is in the queue or still in the iterator. The
  proofs do not depend on the numbers.
* One query is enough for the loop's boundaries; `EnterPhaseOffByOne` is caught
  with it. Reranking and its second phase write are included.
* Two requests at a time are what the documented races need; three in total
  allow pause, resume and one more.
* Two sweeps are the first and one resume. One storage error at any call is what
  each of the error paths needs; two in `BayesianSweepEnds` let two runs go
  unrecorded, so that a sweep can end COMPLETE with nothing completed.
* Two crashes cover a crash at any step and another one between the two halves of
  the reconciliation. `PreEmbed` has one: its boot is one step.
* One experiment has two DoubleWord jobs, which are all the code makes; one fault
  at a time is what a round of the watcher can meet between two entries.
* A Bayesian sweep's plan is three here, with two candidates, so that every
  proposal after the second is a repeat and the budget of nine calls is reached.
* Two callers are enough for a thread that sleeps with the lock released and one
  that passes it; the workloads fill the token ceiling, exceed it, and follow each
  other closely.
* Six calls of two threads on two runs cover an insertion, an update that
  overlaps another, the three steps of a delete with an insertion between them,
  and a boot.
* Three scripts allow a migration killed and run again with a third one after it,
  or a merge and its promotion with one restart.
* Two experiments, of which one sweeps and the other submits; a cluster of two
  indexes, one of another project, makes the quota bind. What queries find needs no
  second experiment: two runs of one sweep share the collection, its filters on the
  experiment and the model, and nothing tells their chunks apart but the run. Of four
  chunks three are candidates and two are hits, so that a list can lack a better
  chunk, have one twice, or be short.

### Fairness

`GridSweep` assumes weak fairness of the sweep thread, of each worker and of a
handler that has started: the operating system schedules threads, the event loop
resumes coroutines, and every provider call has a timeout, so the work of a
phase returns or raises. Requests, faults and signals are never obliged to
happen. `ExperimentLifecycle` adds that a server that is down is started again,
`PreEmbed` that DoubleWord ends each batch within its completion window and that
the supervised watcher goes on. `BayesianSweep` has weak fairness of the sweep
thread. `EmbeddingCalls` has strong fairness of each caller, because several
queue at one semaphore and one lock, and weak fairness of time; `VectorSearch`
weak fairness of each preflight, whose calls return or raise, but none of the
cluster: an index may stay in status building for ever.

`WaitingIsSettled` and `RunningIsSettled` are checked with pauses and storage errors
and name the ends that the code leaves open (see above).

## 4. What is proved

Every invariant and action property that a passing run checks is a theorem, but
for `SearchFindsTheRun`. The theorems assume only the named assumptions of the
modules: the sets of combinations, candidates, callers and experiments are
finite, there is a worker, limits and bounds are natural numbers, a text has at
least one token and a caller at least one text, `on_error` is one of its two
values. Those about `GridSweep` hold for any signature function, resumed or not,
with or without storage faults, unless said otherwise; the others for any bound
on crashes, faults, retries and requests.

| theorem | states |
|---|---|
| `TypeCorrect` | `Spec => []TypeOK` |
| `NothingLeftBehind` | `Spec => []NoRunLeftBehind` |
| `CancelStopsAtNextPhase` | `Spec => []OnePhaseAfterCancel` |
| `ResumeSkipsCompleted` | `Spec => []NoCompletedRunRepeated` |
| `CompletedRunsAreWhole` | `Spec => []CompleteRunsHaveData` |
| `CompleteIsComplete` | `Spec => []CompleteMeansAll` |
| `VerdictsAreCaused` | `Spec => []VerdictHasCause` |
| `StopIsFinal` | `Spec => NothingSubmittedAfterStop` |
| `SweepImplementsPromise` | `Spec => KeepsPromise`, the refinement of `SweepPromise` |
| `ResumeRunsAll` | `Spec => []ResumeRunsTheRest`, if no two combinations have the same signature |
| `SignaturesTellApart` | that hypothesis for the real signatures, if there is one padding and no two retrievers share their deprecated fields |
| `SweepAndBootAgree`, `BootAndGetAgree`, `FullTalliesAgree` | exactly when two of the three status derivations give the same answer |
| `LifecycleTypes` | `Spec => []TypeOK` of `ExperimentLifecycle`, for any combinations, clients, operations and bounds |
| `ResumedSweepsRepeatNothing` | `Spec => []ResumeRepeatsNothing` |
| `DeleteLeavesNothing` | `Spec => []DeleteLeavesNoRows` |
| `BootLeavesNoLiveRow` | `Spec => BootSettlesRows` |
| `WatcherSweepsOnce` | `Spec => []SweptAtMostOnce` of `PreEmbed`, for any faults, requests and crashes |
| `SweepFindsVectors` | `Spec => []SweepHasVectors` |
| `WaitingHasNoSweep` | `Spec => []WaitingIsUnswept` |
| `CancelStaysFinal` | `Spec => CancelIsFinal` |
| `VerdictHasCause` | `Spec => []BayesianVerdictHasCause` of `BayesianSweep`, for any candidates, budget, repeats and faults |
| `LogMatchesRows` | `Spec => []TrialLogMatchesRows` |
| `CancelEndsCalls` | `Spec => []CancelStopsCalls` of `EmbeddingCalls`, for any callers, texts, limits and retries |
| `PoolIsRestored` | `Spec => []ThreadsRestored` |
| `RequestsAreLimited` | `Spec => []RequestsWithinLimit` |
| `TokensAreLimited` | `Spec => []TokensWithinLimit` |
| `VectorsAreInOrder` | `Spec => []EmbeddedInOrder` |
| `StoresAreInterchangeable` | `Spec => []StoresAgree` of `RunStateStores`, for any callers |
| `ColumnsSurvive` | `Spec => []ColumnsAreNotLost` |
| `NoRowIsOrphaned` | `Spec => []RowsHaveTheirExperiment` |
| `MergeIsWhole` | `Spec => []MergedIsWhole` of `RunStateScripts`, for any experiments and number of kills |
| `WalStaysWithItsDatabase` | `Spec => []WalFollowsItsDatabase` |
| `DropsWhatWasCopied` | `Spec => DroppedIsCopied` |
| `RunningSweepsHaveTheirIndexes` | `Spec => []RunningHasItsIndexes` of `VectorSearch`, for any experiments, configurations, stores, foreign indexes and quota |

The invariants are not inductive by themselves. For `GridSweep` the chain, each
link using the ones before it:

1. `TypeInv`: the types, and that a run about to enter a phase has a next one.
2. `DrainInv`: a future is held for every combination whose worker has not
   ended; a combination not yet taken is idle; before the loops and after them
   everything is idle or ended; a row is live exactly while its worker is between
   its start and its end. `NoRunLeftBehind` follows when `futures` is empty.
3. `CancelInv`: a run whose next step enters a phase passed its check before the
   event was set, so its count is still zero; hence at most one.
4. `SkipInv`: a combination with a completed prior row is idle and, after the
   preflight, not in the iterator.
5. `DataInv`: chunks are stored before querying begins and the number of results
   rows is below `NumQueries` until the run completes.
6. `VerdictInv` and `CompleteVerdict`: for COMPLETE the completed rows must be as
   many as the combinations with no failed one; since no combination has two
   completed rows (`SkipInv`), the two sets of completed combinations are disjoint
   and their union is all of them (cardinalities of finite sets).
7. `CauseInv`, `StopInv`: where each flag came from.
8. `RestInv`: unless the scheduler was stopped, a combination that is not in the
   iterator was submitted or had completed before, and the scheduler comes to its
   verdict with an empty iterator.
9. `PromiseInv` combines 1, 2, 4 and 6 and gives the step simulation: the start
   of a run is `Launch`, its terminal write `Settle`, the verdict `Conclude`, and
   every other step leaves the abstract state unchanged.

For `ExperimentLifecycle` there are three inductive invariants over `TypeInv`
(the types, and that a GET about to write has derived a status):

1. `RowsInv`: a deleted experiment has no row, `DeleteLeavesNoRows` itself, which is
   inductive.
2. `OrderInv`: sweeps are scheduled in the order of their numbers and each leaves
   the queue when those before it are over (`InOrder`); a worker works for the
   sweep that is running, on a combination that sweep does not skip, and a run
   without a worker has no row (`WorkInv`); the sweep under way skips whatever the
   sweeps before it completed (`SkipInv`). A run completes only while its sweep is
   running, so later sweeps have no rows yet and earlier ones are settled.
3. `BootInv`: a process that is not up has no thread, and one that is booting has
   no live row in an experiment that is still RUNNING.

For `VectorSearch` the invariant is `IndexInv`: the types of what the preflights
change; that the steps which drop or build indexes are only reached on MongoDB
and those of the shared object only elsewhere; and `PassedHaveIndexes`, which is
`RunningHasItsIndexes` from the snapshot that lets a sweep pass rather than from
its start. A step that drops an index adds it to `gone` of every sweep that has
passed, and a step that lets a sweep pass has just seen its indexes ready.

For `PreEmbed` the invariant has three parts over the types:

1. `VectorsInv`: a job is in the checkpoint file until its vectors are kept, or
   lost to a swallowed error, or its entry was thrown away. Nothing leaves the
   file before that (`DropEntry` comes after `KeepVectors`), and nothing is added
   after the creator's one write.
2. `CancelInv`: an experiment is only waiting when its creator is through, so no
   entry appears behind a cancel that saw it waiting and emptied the file.
3. `OnceInv`: in a round over both jobs the second entry stays in the file until
   its turn, so only the last of a round finds the file empty and schedules the
   sweep, and then no round follows. It holds while nobody but the watcher has
   taken an entry out (`Untouched`), as `SweptAtMostOnce` says.

For `BayesianSweep`: `FlagsInv` (a flag goes back to its event or to a failed
run, and an interrupted run to a signal), `RowsInv` (the runs never exceed the plan,
and the one that is running is the last), `OneEntryInv` (the log has one entry for a
candidate, and none yet for that of the trial) and `CountsInv` (at least as many
entries as ended runs, no more "completed" entries than complete rows, and what the
rows lack against the log is covered by the errors counted in `faults`). The cause of
a verdict is a comparison of those counts.

For `EmbeddingCalls` there is one part for each promise:

1. `StopInv` counts the calls since the cancel: none between a check and its
   answer for Voyage and local calls, fewer than the attempt under way for SIE,
   whose retries do not look at the event.
2. `ThreadInv`: what a caller holds to restore is the number torch started with,
   and while torch has another, some caller holds one.
3. `RequestsInv` counts the requests of the window and the threads that sleep on
   the tokens *together*: the request limit was looked at before that sleep and
   is not looked at after it, so a sleeper is a request to come. The bound alone
   is not inductive.
4. `TokensWithinLimit` is inductive, with lemmas that the sum of a log grows with
   its suffix and that of a log with one more request is the sum of both.
5. `OrderInv`: the calls of a plan are its texts from cut to cut, and what a
   caller has is its texts up to the cut of the call it is at. That the plan is
   such calls is the correctness of the three splitters of `EmbeddingBatches` and
   of the slices, for every list of texts and every limit.

The last two need induction over lists. The library's induction theorems take
an operator as their parameter, which no prover here can instantiate, so
`EmbeddingCallsProofs` states induction over *sets*: a set of numbers that has 0
and the successor of each of its members below m has all of `0 .. m`
(`Induction`, from `LeastMember`). `StepsDefine` derives that a function given
step by step exists, which is what a fold over a list needs.

For `RunStateStores` the invariant relates the three stores (`Related`): a
collection of MongoDB holds what is read back of the rows of Postgres, while the
experiment exists (`Mirrors`); SQLite has the same rows in the same columns
(`SameColumns`), and *equals* Postgres until an update has been overtaken
(`stale`). Every call of the port keeps the relation; a thread in the middle of a
read-modify-write holds an update the callers make (`HeldInv`).

For `RunStateScripts`: the key of a row of a table that was read is among the keys
read or was written since, and after the write the keys read stay in the target
(`MigrationInv`); both copies have one row of a table for an experiment, and a
merge starts from the host's (`MergeInv`). `WalFollowsItsDatabase` is inductive.

Only model-checked:

* liveness (`SweepEnds`, `RunningIsSettled`, `WaitingIsSettled`, `AskingEnds`,
  `CallersFinish`, `PreflightEnds`), which is beyond the prover under fairness;
* `SearchFindsTheRun`, whose lists are sorted by choosing a sorted permutation of
  a set, cut, fused and filtered. For every list that would need that such a
  permutation exists and what each filter leaves of it; the part that several
  actors can break, the indexes, is `RunningSweepsHaveTheirIndexes`;
* the violation, which is a counterexample.

## 5. What is not modelled

* Wording, logging, timestamps, and counts shown to the user (`failed_count`,
  `completion_reason`), except where an adapter's merge can lose them.
* The contents of chunks, embeddings and results; a phase's work is a step.
* In `ExperimentLifecycle` and `PreEmbed` the threads and phases inside a sweep
  (they are in `GridSweep`), and other experiments on the executor, which delay a
  sweep but share nothing else with it.
* Chunkers and loaders (sequential wrappers of third-party code and files),
  statistics, comparison and analysis (read-only floating point), settings and
  health pages, the command line and the dashboard (clients of the API), the
  walk-through export and the release tooling.
* `preflight_stores` of `search_index_guard.py`, which has no caller in
  production, and the third case of the boot reconciliation (the DoubleWord key
  was removed), which the two cases before it leave nothing for.
* The creation of the singletons (`get_limiter`, the clients) without a lock.
* The databases themselves: a statement is atomic, and a filter is exact. The boot
  marks the rows of an experiment one by one; `SqliteInterrupt` is one step, because
  no other thread writes at boot (`BootRaises` stops half way).

## 6. Plan

Done: the sweeps, the lifecycle, pre-embedding, embedding calls, the run-state
stores and scripts, and search; the proofs of section 4. Left, in this order:

1. A refinement between `GridSweep` and the coarse sweep of
   `ExperimentLifecycle`, and one between `PreEmbed` and an abstract "waiting,
   then swept or settled", with the step simulations proved.
2. The part of `SearchFindsTheRun` that needs no sort: what a query finds belongs
   to the run that asked.
3. Two experiments on the executor.

## 7. Running it

    tlc -workers 2 -config GridSweepConcurrent.cfg MCGridSweep.tla
    tlapm GridSweepProofs.tla

A configuration's module is the one `PROJECT.json` names in its run. The largest
runs, `LifecycleSettles` and `LifecycleRequests`, take up to three minutes,
`PreflightsShareTheCluster`, `EmbeddingCallsLimited` and `PreEmbedSettles` two, the
others about one or less; the proofs from nothing take some minutes.
