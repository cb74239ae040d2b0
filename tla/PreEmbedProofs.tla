--------------------------- MODULE PreEmbedProofs --------------------------
(***************************************************************************)
(* The safety of pre-embedding, proved for any set of faults, any requests *)
(* and any number of crashes and faults.                                   *)
(***************************************************************************)
EXTENDS PreEmbed, SequenceTheorems, TLAPS

Fns == {"run_sweep", "resume_sweep"}

Queues == {<<>>, <<"doc">>, <<"query">>, <<"doc", "query">>}

Handling == {"completed", "cached", "dropped", "triggering", "ready", "terminal", "failing"}

Types ==
    /\ preEmbed \in {"none", "waiting", "ready", "failed"}
    /\ batch \in [Jobs -> Ended \cup {"none", "in_progress"}]
    /\ checkpoint \subseteq Jobs /\ cache \subseteq Jobs
    /\ lost \subseteq Jobs /\ forgotten \subseteq Jobs
    /\ creator \in {"submitting", "submitted", "checkpointed", "late", "done", "died"}
    /\ watcher \in {"idle", "polling"} \cup Handling
    /\ todo \in Queues
    /\ watcher \in Handling => todo # <<>>
    /\ watcher = "idle" => todo = <<>>
    /\ sweeps \in Seq(Fns)
    /\ canceller \in {"idle", "saw waiting", "saw nothing", "answered", "cancelling",
                      "clearing", "cancelled", "died"}

Kept(j) == j \in cache \cup lost \cup forgotten

Swept == FirstSweeps # {}

Unposted == {"submitting", "submitted"}

Posted == watcher # "idle" \/ checkpoint # {} \/ Swept

(* A job is in the file until it is kept, lost or thrown away: nothing     *)
(* leaves the file before (DropEntry comes after KeepVectors), and nothing *)
(* comes back to it (AddEntries comes before everything else).             *)
VectorsInv ==
    /\ creator = "submitted" => \A j \in Jobs : batch[j] # "none" \/ Kept(j)
    /\ Posted => /\ creator \notin Unposted
                 /\ \A j \in Jobs : j \in checkpoint \/ Kept(j)
    /\ watcher = "cached" => Kept(This)
    /\ watcher \in {"triggering", "ready"} => checkpoint = {}
    /\ Swept => \A j \in Jobs : Kept(j)

(* Only an experiment whose creator is through is waiting, so no entry is  *)
(* added behind a cancel that saw it waiting.                              *)
CancelInv ==
    /\ preEmbed = "waiting" => creator \in {"done", "late"}
    /\ canceller \in {"saw waiting", "cancelling", "clearing", "cancelled"} =>
          creator \in {"done", "late"}
    /\ canceller = "cancelled" => checkpoint = {}

(* Nobody but the watcher has taken an entry out of the file: a cancel that*)
(* could have comes after the creator.                                     *)
Untouched == forgotten = {} \/ creator = "checkpointed"

(* In a round over both jobs the second is in the file until its turn, so  *)
(* only the last entry of a round finds the file empty, and no round       *)
(* follows it.                                                             *)
OnceInv ==
    /\ Untouched /\ todo = <<"doc", "query">> /\ watcher # "failing" =>
          "query" \in checkpoint
    /\ Untouched /\ Swept => /\ checkpoint = {}
                             /\ watcher \in {"idle", "polling"}
                             /\ todo = <<>>
    /\ SweptAtMostOnce
    /\ watcher = "ready" => preEmbed = "ready" \/ creator = "late"
    /\ creator = "checkpointed" /\ Swept => preEmbed = "ready"
    /\ WaitingIsUnswept

IInv == Types /\ VectorsInv /\ CancelInv /\ OnceInv

-----------------------------------------------------------------------------
(* Sequences: what Ordered, Tail and Append make of queues and sweeps.     *)

LEMMA OrderedIsAQueue ==
    ASSUME NEW S \in SUBSET Jobs
    PROVE  /\ Ordered(S) \in Queues
           /\ Ordered(S) = <<>> <=> S = {}
           /\ Ordered(S) = <<"doc", "query">> => "query" \in S
           /\ Len(Ordered(S)) = 1 => S = {Head(Ordered(S))}
           /\ S # {} => Head(Ordered(S)) \in S
<1> USE DEF Ordered, Queues, Jobs
<1>1. CASE S = Jobs
  <2>1. Ordered(S) = <<"doc", "query">>  BY <1>1
  <2>2. Head(<<"doc", "query">>) = "doc" /\ Len(<<"doc", "query">>) = 2  OBVIOUS
  <2> QED  BY <1>1, <2>1, <2>2
<1>2. CASE S = {"doc"}
  <2>1. Ordered(S) = <<"doc">>  BY <1>2
  <2>2. Head(<<"doc">>) = "doc" /\ <<"doc">> # <<"doc", "query">>  OBVIOUS
  <2> QED  BY <1>2, <2>1, <2>2
<1>3. CASE S = {"query"}
  <2>1. Ordered(S) = <<"query">>  BY <1>3
  <2> QED  BY <1>3, <2>1
<1>4. CASE S = {}
  <2>1. Ordered(S) = <<>>  BY <1>4
  <2> QED  BY <1>4, <2>1
<1> QED  BY <1>1, <1>2, <1>3, <1>4

LEMMA QueueShrinks ==
    ASSUME NEW q \in Queues, q # <<>>
    PROVE  /\ Tail(q) \in Queues \ {<<"doc", "query">>}
           /\ Head(q) \in Jobs
           /\ q # <<"doc", "query">> => Tail(q) = <<>>
           /\ q = <<"doc", "query">> => Head(q) = "doc"
<1>1. CASE q = <<"doc">>
  <2>1. Head(q) = "doc" /\ Tail(q) = <<>> /\ q # <<"doc", "query">>  BY <1>1
  <2> QED  BY <2>1 DEF Queues, Jobs
<1>2. CASE q = <<"query">>
  <2>1. Head(q) = "query" /\ Tail(q) = <<>> /\ q # <<"doc", "query">>  BY <1>2
  <2> QED  BY <2>1 DEF Queues, Jobs
<1>3. CASE q = <<"doc", "query">>
  <2>1. Head(q) = "doc" /\ Tail(q) = <<"query">>  BY <1>3
  <2>2. <<"query">> # <<"doc", "query">>  OBVIOUS
  <2> QED  BY <2>1, <2>2, <1>3 DEF Queues, Jobs
<1> QED  BY <1>1, <1>2, <1>3 DEF Queues

LEMMA ScheduleSweeps ==
    ASSUME Types, NEW fn \in Fns, Schedule(fn)
    PROVE  /\ sweeps' \in Seq(Fns)
           /\ fn = "resume_sweep" => FirstSweeps' = FirstSweeps
           /\ fn = "run_sweep" =>
                 FirstSweeps' = FirstSweeps \cup {Len(sweeps) + 1} /\ Swept'
<1>1. sweeps \in Seq(Fns) /\ sweeps' = Append(sweeps, fn)
  BY DEF Types, Schedule
<1>2. /\ sweeps' \in Seq(Fns)
      /\ DOMAIN sweeps = 1 .. Len(sweeps) /\ Len(sweeps) \in Nat
      /\ DOMAIN sweeps' = DOMAIN sweeps \cup {Len(sweeps) + 1}
      /\ \A i \in DOMAIN sweeps : sweeps'[i] = sweeps[i]
      /\ sweeps'[Len(sweeps) + 1] = fn
  BY <1>1, AppendProperties, LenProperties
<1>3. Len(sweeps) + 1 \notin DOMAIN sweeps  BY <1>2
<1> QED  BY <1>2, <1>3 DEF FirstSweeps, Swept

LEMMA SweepsStay ==
    ASSUME sweeps' = sweeps
    PROVE  FirstSweeps' = FirstSweeps /\ Swept' = Swept
BY DEF FirstSweeps, Swept

(* The sweep's thread leaves the files, the watcher and its queue alone.   *)
LEMMA SweepThreadKeeps ==
    ASSUME SweepThread
    PROVE  UNCHANGED <<preEmbed, batch, checkpoint, cache, creator, watcher, todo, sweeps,
                       canceller, lost, forgotten>>
BY DEF SweepThread, SweepBegins, SweepEnds, SweepRaises, SweepOnly, files, round, client

LEMMA TypesNext ==
    ASSUME Types, [Next]_vars
    PROVE  Types'
<1> USE DEF database, files, thread, round, client, history
<1> USE DEF Types, Handling, Watching, GoOn
<1>u. ASSUME UNCHANGED <<preEmbed, batch, checkpoint, cache, lost, forgotten,
                  creator, watcher, todo, sweeps, canceller>>  PROVE Types'
  BY <1>u
<1>1. CASE CreateSchedules
  BY <1>1, ScheduleSweeps DEF CreateSchedules, Fns
<1>2. CASE SubmitBatch
  BY <1>2 DEF SubmitBatch, Ended
<1>3. CASE AddEntries
  BY <1>3 DEF AddEntries
<1>4. CASE MarkWaiting
  BY <1>4 DEF MarkWaiting
<1>5. ASSUME NEW j \in Jobs, BatchEnds(j)  PROVE Types'
  <2>1. PICK how \in Ended : batch' = [batch EXCEPT ![j] = how]  BY <1>5 DEF BatchEnds, Ended
  <2> QED  BY <1>5, <2>1 DEF BatchEnds
<1>6. ASSUME NEW j \in Jobs, CacheExpires(j)  PROVE Types'
  BY <1>6 DEF CacheExpires
<1>7. CASE Load
  <2>1. Ordered(checkpoint) \in Queues  BY OrderedIsAQueue
  <2> QED  BY <1>7, <2>1 DEF Load
<1>8. CASE PollBatch
  BY <1>8, QueueShrinks DEF PollBatch
<1>9. CASE KeepVectors
  <2>1. This \in Jobs /\ <<>> \in Queues  BY <1>9, QueueShrinks DEF This, KeepVectors, Queues
  <2> QED  BY <1>9, <2>1 DEF KeepVectors, DownloadVectors, PutManyFails
<1>10. CASE DropEntry
  BY <1>10 DEF DropEntry
<1>11. CASE CountRemaining
  BY <1>11, QueueShrinks DEF CountRemaining
<1>12. CASE MarkReady
  BY <1>12, QueueShrinks DEF MarkReady
<1>13. CASE TriggerSweep
  BY <1>13, ScheduleSweeps, QueueShrinks DEF TriggerSweep, Fns
<1>14. CASE DropExperiment
  BY <1>14 DEF DropExperiment
<1>15. CASE MarkFailed
  BY <1>15, QueueShrinks DEF MarkFailed
<1>16. CASE ReadForCancel
  BY <1>16 DEF ReadForCancel
<1>17. CASE MarkCancelled
  BY <1>17 DEF MarkCancelled
<1>18. CASE CancelBatches
  BY <1>18 DEF CancelBatches, Ended
<1>19. CASE ClearCheckpoint
  BY <1>19 DEF ClearCheckpoint
<1>20. CASE Resume
  <2>1. sweeps' \in Seq(Fns)  BY <1>20, ScheduleSweeps DEF Resume, Fns
  <2> QED  BY <1>20, <2>1 DEF Resume
<1>21. CASE Crash
  BY <1>21 DEF Crash, Queues
<1>22. CASE UNCHANGED vars \/ SweepThread \/ Pause \/ Boot
  BY <1>u, <1>22, SweepThreadKeeps DEF vars, Pause, Boot
<1> QED
  BY <1>u, <1>1, <1>2, <1>3, <1>4, <1>5, <1>6, <1>7, <1>8, <1>9, <1>10, <1>11, <1>12, <1>13, <1>14, <1>15, <1>16, <1>17, <1>18, <1>19, <1>20, <1>21, <1>22
  DEF Next, Creator, Watcher, Canceller

LEMMA VectorsNext ==
    ASSUME Types, Types', VectorsInv, [Next]_vars
    PROVE  VectorsInv'
<1> USE DEF database, files, thread, round, client, history
<1> USE DEF VectorsInv, Posted, Kept, Unposted, Watching, GoOn
<1>t. /\ checkpoint \subseteq Jobs
      /\ watcher \in Handling => todo # <<>> /\ This \in Jobs
  BY QueueShrinks DEF Types, This
<1>u. ASSUME UNCHANGED <<batch, checkpoint, cache, lost, forgotten, creator, watcher, todo, sweeps>>  PROVE VectorsInv'
  BY <1>u, SweepsStay DEF This
<1>1. CASE CreateSchedules
  BY <1>1, ScheduleSweeps DEF CreateSchedules, Fns, Planned
<1>2. CASE SubmitBatch
  <2>1. ~Posted /\ ~Posted' /\ watcher' = "idle"
    BY <1>2, SweepsStay DEF SubmitBatch
  <2>2. ASSUME creator' = "submitted", NEW j \in Jobs, batch'[j] = "none"
        PROVE  Kept(j)'
    <3> DEFINE left == {i \in Planned : batch[i] = "none"}
    <3>1. left = {Head(NextJob)} /\ batch' = [batch EXCEPT ![Head(NextJob)] = "in_progress"]
      BY <1>2, <2>2, OrderedIsAQueue DEF SubmitBatch, NextJob, Planned, Fault
    <3>2. Head(NextJob) \in Jobs /\ batch \in [Jobs -> Ended \cup {"none", "in_progress"}]
      BY <3>1 DEF Types, Planned
    <3>3. j \notin left /\ batch[j] = "none"  BY <2>2, <3>1, <3>2
    <3> QED  BY <1>2, <3>3 DEF Planned, SubmitBatch
  <2> QED  BY <2>1, <2>2
<1>3. CASE AddEntries
  <2>1. ~Posted /\ Swept' = FALSE /\ watcher' = "idle"
    BY <1>3, SweepsStay DEF AddEntries
  <2> QED  BY <1>3, <2>1 DEF AddEntries
<1>4. CASE MarkWaiting
  BY <1>4, <1>t, SweepsStay DEF MarkWaiting, This
<1>5. ASSUME NEW j \in Jobs, BatchEnds(j)  PROVE VectorsInv'
  <2>1. PICK how \in Ended : batch' = [batch EXCEPT ![j] = how]  BY <1>5 DEF BatchEnds, Ended
  <2>2. \A i \in Jobs : batch[i] # "none" => batch'[i] # "none"  BY <2>1 DEF Types, Ended
  <2> QED  BY <1>5, <2>2, SweepsStay DEF BatchEnds, This
<1>6. ASSUME NEW j \in Jobs, CacheExpires(j)  PROVE VectorsInv'
  BY <1>6, <1>t, SweepsStay DEF CacheExpires, This
<1>7. CASE Load
  BY <1>7, <1>t, SweepsStay DEF Load
<1>8. CASE PollBatch
  BY <1>8, <1>t, SweepsStay DEF PollBatch
<1>9. CASE KeepVectors
  <2>1. \A j \in Jobs : Kept(j) => Kept(j)'
    BY <1>9 DEF KeepVectors, DownloadVectors, PutManyFails
  <2>2. Swept' = Swept /\ creator' = creator /\ checkpoint' = checkpoint /\ batch' = batch
    BY <1>9, SweepsStay DEF KeepVectors
  <2>3. watcher = "completed" /\ Posted /\ watcher' \in {"cached", "idle"}
    BY <1>9 DEF KeepVectors, DownloadVectors, PutManyFails
  <2>4. watcher' = "cached" => Kept(This)'
    BY <1>9 DEF KeepVectors, DownloadVectors, PutManyFails, This
  <2> QED  BY <2>1, <2>2, <2>3, <2>4
<1>10. CASE DropEntry
  BY <1>10, <1>t, SweepsStay DEF DropEntry, Handling
<1>11. CASE CountRemaining
  BY <1>11, <1>t, SweepsStay DEF CountRemaining
<1>12. CASE MarkReady
  BY <1>12, <1>t, SweepsStay DEF MarkReady
<1>13. CASE TriggerSweep
  BY <1>13, ScheduleSweeps DEF TriggerSweep, Fns
<1>14. CASE DropExperiment
  BY <1>14, <1>t, SweepsStay DEF DropExperiment
<1>15. CASE MarkFailed
  BY <1>15, <1>t, SweepsStay DEF MarkFailed
<1>16. CASE CancelBatches
  BY <1>16, SweepsStay DEF CancelBatches, Types, This
<1>17. CASE ClearCheckpoint
  BY <1>17, <1>t, SweepsStay DEF ClearCheckpoint, This
<1>18. CASE Resume
  BY <1>18, ScheduleSweeps DEF Resume, Fns, Swept, This
<1>19. CASE Crash
  BY <1>19, SweepsStay DEF Crash
<1>20. CASE UNCHANGED vars \/ SweepThread \/ ReadForCancel \/ MarkCancelled
                            \/ Pause \/ Boot
  BY <1>u, <1>20, SweepThreadKeeps DEF vars, ReadForCancel, MarkCancelled, Pause, Boot
<1> QED
  BY <1>u, <1>1, <1>2, <1>3, <1>4, <1>5, <1>6, <1>7, <1>8, <1>9, <1>10, <1>11, <1>12, <1>13, <1>14, <1>15, <1>16, <1>17, <1>18, <1>19, <1>20
  DEF Next, Creator, Watcher, Canceller

LEMMA CancelNext ==
    ASSUME Types, CancelInv, VectorsInv, [Next]_vars
    PROVE  CancelInv'
<1> USE DEF database, files, thread, round, client, history
<1> USE DEF CancelInv, Watching, GoOn
<1>u. ASSUME UNCHANGED <<preEmbed, creator, canceller, checkpoint>>  PROVE CancelInv'
  BY <1>u
<1>1. CASE CreateSchedules
  BY <1>1 DEF CreateSchedules
<1>2. CASE AddEntries
  BY <1>2 DEF AddEntries
<1>3. CASE MarkWaiting
  BY <1>3 DEF MarkWaiting
<1>4. CASE DropEntry
  BY <1>4 DEF DropEntry
<1>5. CASE MarkReady
  BY <1>5 DEF MarkReady
<1>6. CASE DropExperiment
  BY <1>6 DEF DropExperiment
<1>7. CASE MarkFailed
  BY <1>7 DEF MarkFailed
<1>8. CASE ReadForCancel
  BY <1>8 DEF ReadForCancel
<1>9. CASE MarkCancelled
  BY <1>9 DEF MarkCancelled
<1>10. CASE CancelBatches
  BY <1>10 DEF CancelBatches
<1>11. CASE ClearCheckpoint
  BY <1>11 DEF ClearCheckpoint
<1>12. CASE Crash
  BY <1>12 DEF Crash
<1>13. CASE UNCHANGED vars \/ SubmitBatch \/ (\E j \in Jobs : BatchEnds(j)) \/ (\E j \in
                            Jobs : CacheExpires(j)) \/ Load \/ PollBatch \/ KeepVectors
                            \/ CountRemaining \/ TriggerSweep \/ SweepThread \/ Pause \/ Resume \/ Boot
  BY <1>u, <1>13, SweepThreadKeeps DEF vars, SubmitBatch, BatchEnds, CacheExpires, Load, PollBatch, KeepVectors, CountRemaining, TriggerSweep, Pause, Resume, Boot
<1> QED
  BY <1>u, <1>1, <1>2, <1>3, <1>4, <1>5, <1>6, <1>7, <1>8, <1>9, <1>10, <1>11, <1>12, <1>13
  DEF Next, Creator, Watcher, Canceller

LEMMA OnceNext ==
    ASSUME Types, Types', VectorsInv, CancelInv, OnceInv, [Next]_vars
    PROVE  OnceInv'
<1> USE DEF database, files, thread, round, client, history
<1> USE DEF OnceInv, Untouched, SweptAtMostOnce, WaitingIsUnswept, Swept, Watching, GoOn
<1>t. /\ todo # <<>> => /\ Tail(todo) # <<"doc", "query">>
                        /\ todo # <<"doc", "query">> => Tail(todo) = <<>>
                        /\ todo = <<"doc", "query">> => This = "doc"
      /\ watcher \in Handling => todo # <<>>
      /\ checkpoint \subseteq Jobs
      /\ <<>> # <<"doc", "query">>
  BY QueueShrinks DEF Types, This
<1>u. ASSUME UNCHANGED <<preEmbed, checkpoint, forgotten, creator, watcher, todo, sweeps>>  PROVE OnceInv'
  BY <1>u, SweepsStay
<1>1. CASE CreateSchedules
  BY <1>1, ScheduleSweeps DEF CreateSchedules, Fns, VectorsInv, Posted, Unposted, CancelInv, Types
<1>2. CASE SubmitBatch
  BY <1>2, <1>t, SweepsStay DEF SubmitBatch
<1>3. CASE AddEntries
  BY <1>3, <1>t, SweepsStay DEF AddEntries, VectorsInv, Posted, Unposted, Types
<1>4. CASE MarkWaiting
  BY <1>4, <1>t, SweepsStay DEF MarkWaiting
<1>5. CASE Load
  BY <1>5, <1>t, SweepsStay, OrderedIsAQueue DEF Load
<1>6. CASE PollBatch
  BY <1>6, <1>t, SweepsStay DEF PollBatch, Handling, Ended
<1>7. CASE KeepVectors
  BY <1>7, <1>t, SweepsStay DEF KeepVectors, DownloadVectors, PutManyFails, Handling
<1>8. CASE DropEntry
  BY <1>8, <1>t, SweepsStay DEF DropEntry, Handling
<1>9. CASE CountRemaining
  BY <1>9, <1>t, SweepsStay DEF CountRemaining, Handling
<1>10. CASE MarkReady
  BY <1>10, <1>t, SweepsStay DEF MarkReady, Handling, VectorsInv, CancelInv
<1>11. CASE TriggerSweep
  BY <1>11, <1>t, ScheduleSweeps DEF TriggerSweep, Fns, Handling, VectorsInv, Posted, Unposted
<1>12. CASE DropExperiment
  BY <1>12, <1>t, SweepsStay DEF DropExperiment, Handling
<1>13. CASE MarkFailed
  BY <1>13, <1>t, SweepsStay DEF MarkFailed, Handling
<1>14. CASE ClearCheckpoint
  BY <1>14, <1>t, SweepsStay DEF ClearCheckpoint, CancelInv
<1>15. CASE Resume
  BY <1>15, ScheduleSweeps DEF Resume, Fns
<1>16. CASE Crash
  BY <1>16, <1>t, SweepsStay DEF Crash
<1>17. CASE UNCHANGED vars \/ (\E j \in Jobs : BatchEnds(j)) \/ (\E j \in Jobs :
                            CacheExpires(j)) \/ SweepThread \/
                            ReadForCancel \/ MarkCancelled \/ CancelBatches \/ Pause \/
                            Boot
  BY <1>u, <1>17, SweepThreadKeeps DEF vars, BatchEnds, CacheExpires, ReadForCancel, MarkCancelled, CancelBatches, Pause, Boot
<1> QED
  BY <1>u, <1>1, <1>2, <1>3, <1>4, <1>5, <1>6, <1>7, <1>8, <1>9, <1>10, <1>11, <1>12, <1>13, <1>14, <1>15, <1>16, <1>17
  DEF Next, Creator, Watcher, Canceller

-----------------------------------------------------------------------------
LEMMA IInvInit == Init => IInv
<1> SUFFICES ASSUME Init  PROVE IInv
  OBVIOUS
<1>1. FirstSweeps = {} /\ <<>> \in Seq(Fns) /\ <<>> # <<"doc", "query">>
  BY DEF Init, FirstSweeps
<1> QED
  BY <1>1 DEF Init, IInv, Types, Queues, Handling, Ended, VectorsInv, Posted, Swept, Unposted,
              CancelInv, OnceInv, Untouched, SweptAtMostOnce, WaitingIsUnswept

LEMMA IInvNext == IInv /\ [Next]_vars => IInv'
BY TypesNext, VectorsNext, CancelNext, OnceNext DEF IInv

LEMMA Safety == Spec => []IInv
BY IInvInit, IInvNext, PTL DEF Spec

(* Every variable the arguments above read stays in its range; a watcher   *)
(* that is handling an entry has one in hand, an idle one has none.        *)
THEOREM PreEmbedTypes == Spec => []Types
BY Safety, PTL DEF IInv

(* However often the process crashes, the store fails or a batch is lost,  *)
(* the watcher and create schedule the first sweep once between them, as   *)
(* long as no checkpoint was thrown away under them.                       *)
THEOREM WatcherSweepsOnce == Spec => []SweptAtMostOnce
<1>1. IInv => SweptAtMostOnce  BY DEF IInv, OnceInv
<1> QED  BY Safety, <1>1, PTL

(* A sweep is scheduled only when every job's vectors were kept, or were   *)
(* lost or dropped on one of the ways the code accepts.                    *)
THEOREM SweepFindsVectors == Spec => []SweepHasVectors
<1>1. IInv => SweepHasVectors
  BY DEF IInv, Types, VectorsInv, Swept, Kept, SweepHasVectors
<1> QED  BY Safety, <1>1, PTL

(* The boot may fail a waiting experiment without looking at its rows: it  *)
(* has none, unless create's write came after the watcher's.               *)
THEOREM WaitingHasNoSweep == Spec => []WaitingIsUnswept
<1>1. IInv => WaitingIsUnswept  BY DEF IInv, OnceInv
<1> QED  BY Safety, <1>1, PTL

(* Once a cancel that saw the experiment waiting is through, the file has  *)
(* no entry of it, and nothing puts one there: an idle watcher stays idle. *)
THEOREM CancelStaysFinal == Spec => CancelIsFinal
<1>1. ASSUME IInv, [Next]_vars, canceller = "cancelled", watcher = "idle"
      PROVE  watcher' = "idle"
  <2> USE <1>1 DEF Watching, database, files, thread, round, client, history
  <2>1. checkpoint = {}  BY DEF IInv, CancelInv
  <2>2. ~Watcher
    BY <2>1 DEF Watcher, Load, PollBatch, KeepVectors, DropEntry, CountRemaining,
               MarkReady, TriggerSweep, DropExperiment, MarkFailed
  <2>3. CASE Creator
    BY <2>3 DEF Creator, CreateSchedules, SubmitBatch, AddEntries, MarkWaiting
  <2>4. CASE \E j \in Jobs : BatchEnds(j) \/ CacheExpires(j)
    BY <2>4 DEF BatchEnds, CacheExpires
  <2>5. CASE SweepThread
    BY <2>5, SweepThreadKeeps
  <2>6. CASE ReadForCancel \/ Canceller \/ Pause \/ Resume
    BY <2>6 DEF ReadForCancel, Canceller, MarkCancelled, CancelBatches, ClearCheckpoint,
               Pause, Resume
  <2>7. CASE Crash \/ Boot
    BY <2>7 DEF Crash, Boot
  <2>8. CASE UNCHANGED vars
    BY <2>8 DEF vars
  <2> QED  BY <2>2, <2>3, <2>4, <2>5, <2>6, <2>7, <2>8 DEF Next
<1>2. IInv /\ [Next]_vars =>
        [canceller = "cancelled" /\ watcher = "idle" => watcher' = "idle"]_vars
  BY <1>1
<1> QED  BY Safety, <1>2, PTL DEF Spec, CancelIsFinal
=============================================================================
