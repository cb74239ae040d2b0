------------------------------ MODULE PreEmbed ------------------------------
(***************************************************************************)
(* An experiment whose embedding model is served by DoubleWord: the tail   *)
(* of create_experiment submits one batch for the documents and one for    *)
(* the queries, checkpoints them in doubleword_batches.json and marks the  *)
(* experiment as waiting; the supervised watcher polls the checkpointed    *)
(* batches, keeps their vectors and schedules the sweep once none is left. *)
(* The file and the embedding cache survive a crash, all else does not.    *)
(*                                                                         *)
(* The sweep is the coarse one: it runs one combination and writes its     *)
(* verdict (ExperimentLifecycle and GridSweep have the fine ones). Pause   *)
(* and resume are one step each here; their interleavings are in           *)
(* ExperimentLifecycle.                                                    *)
(***************************************************************************)
EXTENDS ExperimentStatuses, FiniteSets, Sequences

CONSTANTS
    Faults,         \* what may go wrong: see AllFaults
    Requests,       \* what clients ask for: see AllRequests
    MaxFaults,      \* bound on faults
    MaxCrashes      \* bound on crashes of the process

AllFaults == {"submit", "poll", "download", "cache", "expiry", "storage", "cancel"}
AllRequests == {"cancel", "pause", "resume"}

ASSUME FaultsAssumption == Faults \subseteq AllFaults /\ MaxFaults \in Nat
ASSUME RequestsAssumption == Requests \subseteq AllRequests
ASSUME CrashesAssumption == MaxCrashes \in Nat

VARIABLES
    status,     \* the experiment's status column
    preEmbed,   \* its pre_embed.state
    row,        \* the phase of its one run_status row
    batch,      \* DoubleWord's side of each job's batch
    checkpoint, \* jobs in doubleword_batches.json
    cache,      \* jobs all of whose vectors are in the embedding cache
    backend,    \* EMBEDDING_CACHE_BACKEND
    server,     \* "up" or "down"
    creator,    \* where _maybe_pre_embed_and_schedule stands
    watcher,    \* where the watcher's round stands
    todo,       \* the entries it loaded and has not dealt with
    sweeps,     \* what was given to schedule_sweep, in order
    over,       \* how many of them have ended
    active,     \* the next one is past its first check
    control,    \* {} or the registered control and its set events
    canceller,  \* where the cancel request stands
    asked,      \* the requests made
    lost,       \* jobs whose vectors were not downloaded, not kept, or expired
    forgotten,  \* jobs whose checkpoint went before their batch was done
    missed,     \* a storage error ate a sweep or its verdict, or the watcher's
    faults, crashes

database == <<status, preEmbed, row>>
files    == <<checkpoint, cache, backend>>
thread   == <<sweeps, over, active, control>>
round    == <<watcher, todo>>
client   == <<canceller, asked>>
history  == <<lost, forgotten, missed>>
vars     == <<database, batch, files, server, creator, round, thread, client,
              history, faults, crashes>>

Jobs == {"doc", "query"}

Ordered(S) ==
    CASE S = {} -> <<>>
      [] S = {"doc"} -> <<"doc">>
      [] S = {"query"} -> <<"query">>
      [] S = Jobs -> <<"doc", "query">>

Ended == {"completed", "failed", "cancelled"}

Fault(kind) ==
    /\ kind \in Faults
    /\ faults < MaxFaults
    /\ faults' = faults + 1

Init ==
    /\ status = "running"
    /\ preEmbed = "none"
    /\ row = "absent"
    /\ batch = [j \in Jobs |-> "none"]
    /\ checkpoint = {}
    /\ cache \in SUBSET Jobs
    /\ backend \in {"sqlite", "redis"}
    /\ server = "up"
    /\ creator = "submitting"
    /\ watcher = "idle"
    /\ todo = <<>>
    /\ sweeps = <<>>
    /\ over = 0
    /\ active = FALSE
    /\ control = {}
    /\ canceller = "idle"
    /\ asked = {}
    /\ lost = {}
    /\ forgotten = {}
    /\ missed = FALSE
    /\ faults = 0
    /\ crashes = 0

(* schedule_sweep registers a control, or keeps the one that is there.     *)
Schedule(fn) ==
    /\ sweeps' = Append(sweeps, fn)
    /\ control' = control \cup {"registered"}
    /\ UNCHANGED <<over, active>>

-----------------------------------------------------------------------------
(* The tail of create_experiment, after the row is inserted.               *)

(* plan_pre_embed: a job for each role with texts that are not cached.     *)
Planned == {j \in Jobs : batch[j] # "none" \/ j \notin cache}

NextJob == Ordered({j \in Planned : batch[j] = "none"})

CreateSchedules ==
    /\ server = "up"
    /\ creator = "submitting"
    /\ Planned = {}
    /\ creator' = "done"
    /\ Schedule("run_sweep")
    /\ UNCHANGED <<database, batch, files, server, round, client, history,
                   faults, crashes>>

(* submit_batch of each job in turn. An error leaves the batches submitted *)
(* before it without a checkpoint and the experiment RUNNING.              *)
SubmitBatch ==
    /\ server = "up"
    /\ creator = "submitting"
    /\ NextJob # <<>>
    /\ \/ /\ batch' = [batch EXCEPT ![Head(NextJob)] = "in_progress"]
          /\ creator' = IF Len(NextJob) = 1 THEN "submitted" ELSE creator
          /\ UNCHANGED faults
       \/ /\ Fault("submit")
          /\ creator' = "died"
          /\ UNCHANGED batch
    /\ UNCHANGED <<database, files, server, round, thread, client, history, crashes>>

AddEntries ==
    /\ server = "up"
    /\ creator = "submitted"
    /\ creator' = "checkpointed"
    /\ checkpoint' = checkpoint \cup {j \in Jobs : batch[j] # "none"}
    /\ UNCHANGED <<database, batch, cache, backend, server, round, thread, client,
                   history, faults, crashes>>

(* Whatever the watcher or a cancel has done since the checkpoint. "late"  *)
(* remembers that the watcher had already marked the experiment ready. If  *)
(* the write raises the watcher goes on without it.                        *)
MarkWaiting ==
    /\ server = "up"
    /\ creator = "checkpointed"
    /\ \/ /\ creator' = IF preEmbed = "ready" THEN "late" ELSE "done"
          /\ preEmbed' = "waiting"
          /\ UNCHANGED faults
       \/ Fault("storage") /\ creator' = "died" /\ UNCHANGED preEmbed
    /\ UNCHANGED <<status, row, batch, files, server, round, thread, client,
                   history, crashes>>

(* DoubleWord ends a batch; "failed" stands for expired too.               *)
BatchEnds(j) ==
    /\ batch[j] = "in_progress"
    /\ \E how \in {"completed", "failed"} : batch' = [batch EXCEPT ![j] = how]
    /\ UNCHANGED <<database, files, server, creator, round, thread, client,
                   history, faults, crashes>>

-----------------------------------------------------------------------------
(* One round of DoubleWordWatcher.run over the entries it has loaded.      *)

Watching(where) == server = "up" /\ watcher = where

This == Head(todo)

GoOn == watcher' = "polling" /\ todo' = Tail(todo)

Load ==
    /\ Watching("idle")
    /\ checkpoint # {}
    /\ watcher' = "polling"
    /\ todo' = Ordered(checkpoint)
    /\ UNCHANGED <<database, batch, files, server, creator, thread, client,
                   history, faults, crashes>>

(* A timeout or an error of the poll is logged, the entry passed over.     *)
PollBatch ==
    /\ Watching("polling")
    /\ \/ /\ todo = <<>>
          /\ watcher' = "idle"
          /\ UNCHANGED <<todo, faults>>
       \/ /\ todo # <<>>
          /\ \/ batch[This] \notin Ended /\ UNCHANGED faults
             \/ Fault("poll")
          /\ GoOn
       \/ /\ todo # <<>>
          /\ batch[This] \in Ended
          /\ watcher' = IF batch[This] = "completed" THEN "completed" ELSE "terminal"
          /\ UNCHANGED <<todo, faults>>
    /\ UNCHANGED <<database, batch, files, server, creator, thread, client,
                   history, crashes>>

(* Mutant of KeepVectors: the entry is dropped before its vectors are kept. *)
KeepAfterDropping ==
    /\ Watching("completed")
    /\ checkpoint' = checkpoint \ {This}
    /\ \/ cache' = cache \cup {This} /\ watcher' = "cached" /\ UNCHANGED <<todo, faults>>
       \/ Fault("cache") /\ watcher' = "idle" /\ todo' = <<>> /\ UNCHANGED cache
    /\ UNCHANGED <<database, batch, backend, server, creator, thread, client, history,
                   crashes>>

(* download_vectors swallows its errors and returns what it has, possibly  *)
(* nothing.                                                                *)
DownloadVectors(j) ==
    \/ /\ cache' = cache \cup {j}
       /\ UNCHANGED <<lost, faults>>
    \/ /\ Fault("download")
       /\ lost' = lost \cup {j}
       /\ UNCHANGED cache

(* Mutant of KeepVectors: an empty download is left for the next round.     *)
KeepOnlySomething ==
    /\ Watching("completed")
    /\ \/ This \notin lost /\ cache' = cache \cup {This} /\ watcher' = "cached"
          /\ UNCHANGED <<todo, lost, faults>>
       \/ Fault("download") /\ lost' = lost \cup {This} /\ GoOn
          /\ UNCHANGED cache
       \/ This \in lost /\ GoOn /\ UNCHANGED <<cache, lost, faults>>
    /\ UNCHANGED <<database, batch, checkpoint, backend, server, creator, thread,
                   client, forgotten, missed, crashes>>

(* put_many of the two cache backends: SQLite raises, and the round is over*)
(* for every entry; Redis logs its error, and the watcher takes the vectors*)
(* for kept.                                                               *)
PutManyFails ==
    /\ Fault("cache")
    /\ \/ backend = "sqlite" /\ watcher' = "idle" /\ todo' = <<>> /\ UNCHANGED lost
       \/ backend = "redis" /\ watcher' = "cached" /\ lost' = lost \cup {This}
          /\ UNCHANGED todo

KeepVectors ==
    /\ Watching("completed")
    /\ \/ DownloadVectors(This) /\ watcher' = "cached" /\ UNCHANGED todo
       \/ PutManyFails /\ UNCHANGED cache
    /\ UNCHANGED <<database, batch, checkpoint, backend, server, creator, thread,
                   client, forgotten, missed, crashes>>

(* The vectors in Redis have a time to live and may be evicted.            *)
CacheExpires(j) ==
    /\ backend = "redis"
    /\ j \in cache
    /\ Fault("expiry")
    /\ cache' = cache \ {j}
    /\ lost' = lost \cup {j}
    /\ UNCHANGED <<database, batch, checkpoint, backend, server, creator, round,
                   thread, client, forgotten, missed, crashes>>

(* remove_by_batch_id, then get_for_experiment.                            *)
DropEntry ==
    /\ Watching("cached")
    /\ checkpoint' = checkpoint \ {This}
    /\ watcher' = "dropped"
    /\ UNCHANGED <<database, batch, cache, backend, server, creator, todo, thread, client,
                   history, faults, crashes>>

(* Mutant of CountRemaining: the last entry of the round is enough.         *)
CountTheRound ==
    /\ Watching("dropped")
    /\ watcher' = "triggering"
    /\ UNCHANGED <<database, batch, files, server, creator, todo, thread, client,
                   history, faults, crashes>>

CountRemaining ==
    /\ Watching("dropped")
    /\ IF checkpoint = {} THEN watcher' = "triggering" /\ UNCHANGED todo ELSE GoOn
    /\ UNCHANGED <<database, batch, files, server, creator, thread, client,
                   history, faults, crashes>>

(* Mutant of MarkReady: an error of the store does not stop the trigger.    *)
MarkReadyOrNot ==
    /\ Watching("triggering")
    /\ watcher' = "ready"
    /\ \/ preEmbed' = "ready" /\ UNCHANGED faults
       \/ Fault("storage") /\ UNCHANGED preEmbed
    /\ UNCHANGED <<status, row, batch, files, server, creator, todo, thread, client,
                   history, crashes>>

(* _trigger_sweep: any error of the store is logged and the sweep is lost. *)
MarkReady ==
    /\ Watching("triggering")
    /\ \/ /\ preEmbed' = "ready"
          /\ watcher' = "ready"
          /\ UNCHANGED <<todo, missed, faults>>
       \/ /\ Fault("storage")
          /\ missed' = TRUE
          /\ GoOn
          /\ UNCHANGED preEmbed
    /\ UNCHANGED <<status, row, batch, files, server, creator, thread, client,
                   lost, forgotten, crashes>>

TriggerSweep ==
    /\ Watching("ready")
    /\ Schedule("run_sweep")
    /\ GoOn
    /\ UNCHANGED <<database, batch, files, server, creator, client, history,
                   faults, crashes>>

(* _on_batch_terminal: first every checkpoint of the experiment goes.      *)
DropExperiment ==
    /\ Watching("terminal")
    /\ checkpoint' = {}
    /\ forgotten' = forgotten \cup checkpoint
    /\ watcher' = "failing"
    /\ UNCHANGED <<database, batch, cache, backend, server, creator, todo, thread, client,
                   lost, missed, faults, crashes>>

MarkFailed ==
    /\ Watching("failing")
    /\ \/ /\ status' = "failed"
          /\ preEmbed' = "failed"
          /\ UNCHANGED <<missed, faults>>
       \/ /\ Fault("storage")
          /\ missed' = TRUE
          /\ UNCHANGED <<status, preEmbed>>
    /\ GoOn
    /\ UNCHANGED <<row, batch, files, server, creator, thread, client,
                   lost, forgotten, crashes>>

Watcher ==
    \/ Load \/ PollBatch \/ KeepVectors \/ DropEntry \/ CountRemaining
    \/ MarkReady \/ TriggerSweep \/ DropExperiment \/ MarkFailed

-----------------------------------------------------------------------------
(* The sweep thread, coarse.                                               *)

SweepOnly == UNCHANGED <<preEmbed, batch, files, server, creator, round, sweeps, client,
                         lost, forgotten, crashes>>

Leaves == active' = FALSE /\ over' = over + 1 /\ control' = {}

(* Turned away at once, or failed by its preflight; else its run begins,   *)
(* with a row unless the insert raises.                                    *)
SweepBegins ==
    /\ server = "up"
    /\ ~active
    /\ over < Len(sweeps)
    /\ \/ /\ status = "cancelled" \/ control \cap {"cancel", "pause"} # {}
          /\ Leaves
          /\ UNCHANGED <<status, row, faults>>
       \/ /\ status # "cancelled" /\ control \cap {"cancel", "pause"} = {}
          /\ \/ Leaves /\ status' = "failed" /\ UNCHANGED <<row, faults>>
             \/ /\ active' = TRUE
                /\ \/ row' = "live" /\ UNCHANGED faults
                   \/ Fault("storage") /\ UNCHANGED row
                /\ UNCHANGED <<status, over, control>>
    /\ UNCHANGED missed
    /\ SweepOnly

(* _run_single hands a cancel_check to every embedder; the one that reads  *)
(* the cache for DoubleWord has no such parameter.                         *)
TakesCancelCheck == FALSE

(* The documents first, then the queries; a text that is not cached is a   *)
(* DoublewordCacheMissError.                                               *)
Outcome == IF TakesCancelCheck /\ cache = Jobs THEN "complete" ELSE "failed"

Verdict(phase) ==
    ComputeFinalStatus(1, IF phase = "complete" THEN 1 ELSE 0, IF phase = "failed" THEN 1 ELSE 0)

SignalVerdict ==
    IF "cancel" \in control THEN {"cancelled"}
    ELSE IF "pause" \in control THEN {"paused"} ELSE {}

(* What the run leaves in its row, if it has one, and the verdict on it.   *)
RunEnds(phase, verdict) ==
    \/ /\ phase = IF row = "live" THEN "interrupted" ELSE row
       /\ verdict \in SignalVerdict
    \/ /\ phase = IF row = "live" THEN Outcome ELSE row
       /\ verdict = Verdict(phase)

(* If the write of the terminal phase raises the row stays live.           *)
SweepEnds ==
    /\ server = "up"
    /\ active
    /\ Leaves
    /\ \/ RunEnds(row', status') /\ UNCHANGED faults
       \/ /\ row = "live" /\ Fault("storage")
          /\ row' = row
          /\ status' \in SignalVerdict \cup {Verdict(row)}
    /\ UNCHANGED missed
    /\ SweepOnly

(* The status read, the preflight, the write of started_at or of the       *)
(* verdict raises out of the sweep, or already the read of resume_sweep,   *)
(* outside the finally that removes the control: no status is written.     *)
SweepRaises ==
    /\ server = "up"
    /\ over < Len(sweeps)
    /\ Fault("storage")
    /\ missed' = TRUE
    /\ active' = FALSE
    /\ over' = over + 1
    /\ control' = {} \/ (~active /\ sweeps[over + 1] = "resume_sweep" /\ UNCHANGED control)
    /\ row' = row \/ (active /\ \E verdict \in ExperimentStatus : RunEnds(row', verdict))
    /\ UNCHANGED status
    /\ SweepOnly

-----------------------------------------------------------------------------
(* Requests.                                                               *)

Ask(op) ==
    /\ server = "up"
    /\ op \in Requests \ asked
    /\ asked' = asked \cup {op}

Signal(event) == control' = IF control = {} THEN {} ELSE control \cup {event}

(* cancel_experiment decides on the status and pre_embed it has read.      *)
ReadForCancel ==
    /\ Ask("cancel")
    /\ status = "running"
    /\ canceller' = IF preEmbed = "waiting" THEN "saw waiting" ELSE "saw nothing"
    /\ UNCHANGED <<database, batch, files, server, creator, round, thread,
                   history, faults, crashes>>

MarkCancelled ==
    /\ server = "up"
    /\ canceller \in {"saw waiting", "saw nothing"}
    /\ Signal("cancel")
    /\ status' = "cancelled"
    /\ canceller' = IF canceller = "saw waiting" THEN "cancelling" ELSE "answered"
    /\ UNCHANGED <<preEmbed, row, batch, files, server, creator, round, sweeps,
                   over, active, asked, history, faults, crashes>>

(* cancel_batch of each entry, errors logged; a batch that has ended stays *)
(* as it is.                                                               *)
CancelBatches ==
    /\ server = "up"
    /\ canceller = "cancelling"
    /\ canceller' = IF checkpoint = {} THEN "cancelled" ELSE "clearing"
    /\ \/ /\ batch' = [j \in Jobs |-> IF j \in checkpoint /\ batch[j] = "in_progress"
                                      THEN "cancelled" ELSE batch[j]]
          /\ UNCHANGED faults
       \/ Fault("cancel") /\ UNCHANGED batch
    /\ UNCHANGED <<database, files, server, creator, round, thread, asked,
                   history, crashes>>

(* Mutant of ClearCheckpoint: cancelled batches keep their entries.         *)
ClearNothing ==
    /\ server = "up"
    /\ canceller = "clearing"
    /\ canceller' = "cancelled"
    /\ UNCHANGED <<database, batch, files, server, creator, round, thread, asked,
                   history, faults, crashes>>

ClearCheckpoint ==
    /\ server = "up"
    /\ canceller = "clearing"
    /\ canceller' = "cancelled"
    /\ checkpoint' = {}
    /\ forgotten' = forgotten \cup checkpoint
    /\ UNCHANGED <<database, batch, cache, backend, server, creator, round, thread, asked,
                   lost, missed, faults, crashes>>

Pause ==
    /\ Ask("pause")
    /\ status = "running"
    /\ Signal("pause")
    /\ status' = IF control = {} THEN "paused" ELSE status
    /\ UNCHANGED <<preEmbed, row, batch, files, server, creator, round, sweeps, over,
                   active, canceller, history, faults, crashes>>

(* Resume looks at the status alone, not at pre_embed.                     *)
Resume ==
    /\ Ask("resume")
    /\ status = "paused"
    /\ status' = "running"
    /\ Schedule("resume_sweep")
    /\ UNCHANGED <<preEmbed, row, batch, files, server, creator, round, canceller,
                   history, faults, crashes>>

-----------------------------------------------------------------------------
Crash ==
    /\ server = "up"
    /\ crashes < MaxCrashes
    /\ crashes' = crashes + 1
    /\ server' = "down"
    /\ creator' = IF creator \in {"done", "late"} THEN creator ELSE "died"
    /\ watcher' = "idle"
    /\ todo' = <<>>
    /\ over' = Len(sweeps)
    /\ active' = FALSE
    /\ control' = {}
    /\ canceller' = IF canceller \in {"idle", "answered", "cancelled"} THEN canceller
                    ELSE "died"
    /\ UNCHANGED <<database, batch, files, sweeps, asked, history, faults>>

(* reconcile_orphaned_experiments, then start_watcher. A waiting experiment*)
(* with a checkpoint is left to the watcher, one without is failed and its *)
(* rows are not looked at; every other RUNNING one is reconciled.          *)
Settled(phase) == IF phase = "live" THEN "interrupted" ELSE phase

One(phase) == IF Settled(row) = phase THEN 1 ELSE 0

Boot ==
    /\ server = "down"
    /\ server' = "up"
    /\ CASE status = "running" /\ preEmbed = "waiting" ->
              /\ status' = IF checkpoint = {} THEN "failed" ELSE status
              /\ UNCHANGED row
         [] status = "running" /\ preEmbed # "waiting" ->
              /\ row' = Settled(row)
              /\ status' = DeriveExperimentStatus(1, One("complete"), One("failed"),
                              IF row = "absent" THEN 0 ELSE 1)
         [] OTHER -> UNCHANGED <<status, row>>
    /\ UNCHANGED <<preEmbed, batch, files, creator, round, thread, client, history,
                   faults, crashes>>

-----------------------------------------------------------------------------
Creator == CreateSchedules \/ SubmitBatch \/ AddEntries \/ MarkWaiting

SweepThread == SweepBegins \/ SweepEnds \/ SweepRaises

Canceller == MarkCancelled \/ CancelBatches \/ ClearCheckpoint

Next ==
    \/ Creator
    \/ \E j \in Jobs : BatchEnds(j) \/ CacheExpires(j)
    \/ Watcher
    \/ SweepThread
    \/ ReadForCancel \/ Canceller \/ Pause \/ Resume
    \/ Crash \/ Boot

Spec == Init /\ [][Next]_vars

(* The event loop serves its tasks, the executor thread runs, the process  *)
(* is restarted, and DoubleWord ends every batch within its window. No     *)
(* client is obliged to ask for anything.                                  *)
FairSpec ==
    /\ Spec
    /\ WF_vars(Creator)
    /\ \A j \in Jobs : WF_vars(BatchEnds(j))
    /\ WF_vars(Watcher)
    /\ WF_vars(SweepThread)
    /\ WF_vars(Canceller)
    /\ WF_vars(Boot)

-----------------------------------------------------------------------------
(* What may be expected.                                                   *)

(* The experiment gets one run_sweep: create's, when everything is cached, *)
(* or the watcher's, once, whatever crashes and whichever batch is last.   *)
(* Only when a cancel or a failed batch empties the file under a round of  *)
(* the watcher may each completed entry of that round schedule one.        *)
FirstSweeps == {i \in DOMAIN sweeps : sweeps[i] = "run_sweep"}

SweptAtMostOnce == forgotten = {} => \A i, j \in FirstSweeps : i = j

(* A first sweep finds the vectors of each job in the cache, unless they   *)
(* were lost on the way there or the job's checkpoint was thrown away      *)
(* unfinished (by a failed sibling or a cancel): an entry leaves the file  *)
(* only after its vectors are kept, in every crash and retry.              *)
SweepHasVectors == FirstSweeps # {} => cache \cup lost \cup forgotten = Jobs

(* An experiment that says it is waiting has not had its first sweep: the  *)
(* boot relies on it when it fails a waiting experiment without looking at *)
(* its rows. The exception is create's write landing after the watcher's.  *)
WaitingIsUnswept ==
    preEmbed = "waiting" /\ FirstSweeps # {} => creator = "late"

(* A cancel that saw the experiment waiting is final once the round it     *)
(* fell into is over: no entry is left or comes back, so the watcher never *)
(* takes the experiment up again to fail or sweep it.                      *)
CancelIsFinal ==
    [][canceller = "cancelled" /\ watcher = "idle" => watcher' = "idle"]_vars

(* An experiment with checkpointed batches does not stay RUNNING: it is    *)
(* swept, failed or cancelled, unless a storage error ate the watcher's    *)
(* write or left the sweep, or a pause met the sweep while it was queued   *)
(* (it then leaves silently).                                              *)
WaitingIsSettled ==
    (checkpoint # {} /\ status = "running")
        ~> (status # "running" \/ missed \/ "pause" \in asked)
=============================================================================
