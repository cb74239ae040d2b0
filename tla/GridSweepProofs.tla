-------------------------- MODULE GridSweepProofs --------------------------
(***************************************************************************)
(* Theorems about GridSweep, for any finite set of combinations, any       *)
(* number of workers and queries, any signature function, with or without  *)
(* storage faults, resumed or not. The last are about RunParameters.       *)
(***************************************************************************)
EXTENDS GridSweep, RunParameters, FiniteSetTheorems, TLAPS

-----------------------------------------------------------------------------
(* Type correctness.                                                       *)

(* The phases that have a next phase, and what that phase is.              *)
LEMMA NextPhaseType ==
    /\ DOMAIN NextPhase = {"queued", "parsing", "chunking", "embedding", "storing"}
    /\ \A p \in DOMAIN NextPhase : NextPhase[p] \in WorkPhases
BY DEF NextPhase, WorkPhases

(* A verdict is a status.                                                  *)
LEMMA VerdictType == Verdict \in ExperimentStatus
BY DEF Verdict, ComputeFinalStatus, ExperimentStatus

(* A run is only about to enter a phase when its row has a next phase, so  *)
(* that every phase written is a phase.                                    *)
EnteringHasNext ==
    \A c \in Combos : at[c] = "entering" => row[c] \in DOMAIN NextPhase

TypeInv == TypeOK /\ EnteringHasNext

(* The initial states satisfy the types.                                   *)
LEMMA TypeInit == Init => TypeInv
<1> SUFFICES ASSUME Init PROVE TypeInv
  OBVIOUS
<1>1. prior \in [Combos -> TerminalPhases \cup {"none"}]
  <2>1. (IF Resuming THEN TerminalPhases \cup {"none"} ELSE {"none"})
           \subseteq TerminalPhases \cup {"none"}
    OBVIOUS
  <2> QED
    BY <2>1 DEF Init
<1> QED
  BY <1>1 DEF Init, TypeInv, TypeOK, EnteringHasNext, SchedulerPoints,
              WorkerPoints, Outcomes, ExperimentStatus, Phases

(* Every step keeps the types.                                             *)
LEMMA TypeNext == TypeInv /\ [Next]_vars => TypeInv'
<1> SUFFICES ASSUME TypeInv, [Next]_vars
             PROVE  TypeInv'
  OBVIOUS
<1> USE DEF TypeInv, TypeOK, EnteringHasNext, SchedulerPoints, scheduler, flags,
            worker, control, clients
<1>1. CASE Scheduler
  <2> USE <1>1
  <2>1. CASE CheckCancelledInDb
    BY <2>1 DEF CheckCancelledInDb, Leave, ExperimentStatus
  <2>2. CASE CheckBeforeStart
    BY <2>2 DEF CheckBeforeStart, Leave, ExperimentStatus
  <2>3. CASE PreflightFails
    BY <2>3 DEF PreflightFails, Leave, ExperimentStatus
  <2>4. CASE PreflightPasses
    BY <2>4 DEF PreflightPasses
  <2>5. ASSUME NEW c \in Combos, Submit(c) PROVE TypeInv'
    BY <2>5 DEF Submit, WorkerPoints
  <2>6. ASSUME NEW c \in Combos, SubmitSeesSignal(c) PROVE TypeInv'
    BY <2>6 DEF SubmitSeesSignal
  <2>7. CASE FirstSubmitRaises
    BY <2>7 DEF FirstSubmitRaises, Leave
  <2>8. CASE SubmitNothing
    BY <2>8 DEF SubmitNothing
  <2>9. CASE HandleDone
    BY <2>9 DEF HandleDone
  <2>10. CASE AllHandled
    BY <2>10 DEF AllHandled
  <2>11. CASE Recheck
    BY <2>11 DEF Recheck
  <2>12. CASE Finalise
    BY <2>12, VerdictType DEF Finalise, Leave
  <2>13. CASE FinaliseRaises
    BY <2>13, VerdictType DEF FinaliseRaises, Leave
  <2>14. CASE Unregister
    BY <2>14 DEF Unregister
  <2>15. CASE StartRaises
    BY <2>15 DEF StartRaises, Leave
  <2> QED
    BY <2>1, <2>2, <2>3, <2>4, <2>5, <2>6, <2>7, <2>8, <2>9, <2>10, <2>11,
       <2>12, <2>13, <2>14, <2>15 DEF Scheduler
<1>2. ASSUME NEW c \in Combos, Worker(c) PROVE TypeInv'
  <2> USE DEF WorkerOnly, End, Outcomes, WorkerPoints
  <2>1. CASE Start(c)
    BY <2>1, NextPhaseType DEF Start, Phases, LivePhases
  <2>2. CASE CheckControl(c)
    BY <2>2 DEF CheckControl
  <2>3. CASE EnterPhase(c)
    <3>1. row[c] \in DOMAIN NextPhase
      BY <2>3 DEF EnterPhase
    <3>2. NextPhase[row[c]] \in WorkPhases
      BY <3>1, NextPhaseType
    <3> QED
      BY <2>3, <3>2 DEF EnterPhase, WritePhase, Phases, LivePhases
  <2>4. CASE FinishPhase(c)
    BY <2>4 DEF FinishPhase
  <2>5. CASE Rerank(c)
    BY <2>5 DEF Rerank, WritePhase, Phases, LivePhases, WorkPhases
  <2>6. CASE AnswerQuery(c)
    BY <2>6 DEF AnswerQuery
  <2>7. CASE Complete(c)
    BY <2>7 DEF Complete, Phases, TerminalPhases
  <2>8. CASE Raise(c)
    BY <2>8 DEF Raise
  <2>9. CASE Unwind(c)
    BY <2>9 DEF Unwind, Phases, TerminalPhases
  <2>10. CASE CheckWhileEmbedding(c)
    BY <2>10 DEF CheckWhileEmbedding
  <2> QED
    BY <1>2, <2>1, <2>2, <2>3, <2>4, <2>5, <2>6, <2>7, <2>8, <2>9, <2>10 DEF Worker
<1>3. CASE CancelHandler
  <2> USE DEF RequestOnly
  <2>1. CASE CancelReads
    BY <2>1 DEF CancelReads
  <2>2. CASE CancelSignals
    BY <2>2 DEF CancelSignals, Registered
  <2>3. CASE CancelMarks
    BY <2>3 DEF CancelMarks, ExperimentStatus
  <2> QED
    BY <1>3, <2>1, <2>2, <2>3 DEF CancelHandler
<1>4. CASE PauseHandler
  <2> USE DEF RequestOnly
  <2>1. CASE PauseReads
    BY <2>1 DEF PauseReads
  <2>2. CASE PauseSignals
    BY <2>2 DEF PauseSignals, Registered
  <2>3. CASE PauseMarks
    BY <2>3 DEF PauseMarks, ExperimentStatus
  <2> QED
    BY <1>4, <2>1, <2>2, <2>3 DEF PauseHandler
<1>5. CASE UNCHANGED vars
  BY <1>5 DEF vars
<1> QED
  BY <1>1, <1>2, <1>3, <1>4, <1>5 DEF Next

(* Every variable of the sweep keeps its type.                             *)
THEOREM TypeCorrect == Spec => []TypeOK
<1>1. Spec => []TypeInv
  BY TypeInit, TypeNext, PTL DEF Spec
<1>2. TypeInv => TypeOK
  BY DEF TypeInv
<1> QED
  BY <1>1, <1>2, PTL

-----------------------------------------------------------------------------
(* No run is left behind. The argument: the scheduler holds a future for   *)
(* every run that has not ended, so that when it has none left, or has     *)
(* submitted none, every run has ended; and a run that has ended has       *)
(* written its terminal phase, or never had a row, or lost that write.     *)

(* Points of the sweep thread before the first submission.                 *)
Early == {"queued", "control", "preflight"}

(* Points of the sweep thread after the last future.                       *)
Late == {"finalise", "unregister", "over"}

FuturesHeld ==
    \A c \in Combos : at[c] \notin {"idle", "done", "lost"} => c \in futures

UntakenIdle == \A c \in runIter : at[c] = "idle"

EarlyIdle == pc \in Early => \A c \in Combos : at[c] = "idle"

LateEnded ==
    pc \in Late => \A c \in Combos : at[c] \in {"idle", "done", "lost"}

RowFollowsWorker ==
    \A c \in Combos :
        /\ at[c] \in {"idle", "pooled"} => row[c] = "absent"
        /\ Active(c) \/ at[c] = "lost" => row[c] \in LivePhases
        /\ at[c] = "done" => row[c] \in TerminalPhases \cup {"absent"}

DrainInv ==
    FuturesHeld /\ UntakenIdle /\ EarlyIdle /\ LateEnded /\ RowFollowsWorker

(* The initial states satisfy the drain invariant.                         *)
LEMMA DrainInit == Init => DrainInv
BY DEF Init, DrainInv, FuturesHeld, UntakenIdle, EarlyIdle, LateEnded, Late,
       RowFollowsWorker, Active

(* Every step keeps the drain invariant.                                   *)
LEMMA DrainNext == TypeInv /\ DrainInv /\ [Next]_vars => DrainInv'
<1> SUFFICES ASSUME TypeInv, DrainInv, [Next]_vars
             PROVE  DrainInv'
  OBVIOUS
<1> USE DEF TypeInv, TypeOK, DrainInv, FuturesHeld, UntakenIdle, EarlyIdle,
            LateEnded, RowFollowsWorker, Active, Early, Late, scheduler, flags,
            worker, control, clients
<1>1. CASE Scheduler
  <2>1. CASE CheckCancelledInDb
    BY <2>1 DEF CheckCancelledInDb, Leave
  <2>2. CASE CheckBeforeStart
    BY <2>2 DEF CheckBeforeStart, Leave
  <2>3. CASE PreflightFails
    BY <2>3 DEF PreflightFails, Leave
  <2>4. CASE PreflightPasses
    BY <2>4 DEF PreflightPasses
  <2>5. ASSUME NEW c \in Combos, Submit(c) PROVE DrainInv'
    BY <2>5 DEF Submit, MayCallSubmit, WorkerPoints
  <2>6. ASSUME NEW c \in Combos, SubmitSeesSignal(c) PROVE DrainInv'
    BY <2>6 DEF SubmitSeesSignal, MayCallSubmit
  <2>7. CASE FirstSubmitRaises
    BY <2>7 DEF FirstSubmitRaises, Leave, Submitted
  <2>8. CASE SubmitNothing
    BY <2>8 DEF SubmitNothing
  <2>9. CASE HandleDone
    BY <2>9 DEF HandleDone, Ended
  <2>10. CASE AllHandled
    BY <2>10 DEF AllHandled
  <2>11. CASE Recheck
    BY <2>11 DEF Recheck
  <2>12. CASE Finalise
    BY <2>12 DEF Finalise, Leave
  <2>13. CASE FinaliseRaises
    BY <2>13 DEF FinaliseRaises, Leave
  <2>14. CASE Unregister
    BY <2>14 DEF Unregister
  <2>15. CASE StartRaises
    BY <2>15 DEF StartRaises, Leave
  <2> QED
    BY <1>1, <2>1, <2>2, <2>3, <2>4, <2>5, <2>6, <2>7, <2>8, <2>9, <2>10, <2>11,
       <2>12, <2>13, <2>14, <2>15 DEF Scheduler
<1>2. ASSUME NEW c \in Combos, Worker(c) PROVE DrainInv'
  <2> USE DEF WorkerOnly, End, WorkerPoints
  <2>1. CASE Start(c)
    BY <2>1 DEF Start, LivePhases
  <2>2. CASE CheckControl(c)
    BY <2>2 DEF CheckControl
  <2>3. CASE EnterPhase(c)
    <3>1. NextPhase[row[c]] \in LivePhases
      BY <2>3, NextPhaseType DEF EnterPhase, EnteringHasNext, LivePhases
    <3> QED
      BY <2>3, <3>1 DEF EnterPhase, WritePhase
  <2>4. CASE FinishPhase(c)
    BY <2>4 DEF FinishPhase
  <2>5. CASE Rerank(c)
    BY <2>5 DEF Rerank, WritePhase, LivePhases, WorkPhases
  <2>6. CASE AnswerQuery(c)
    BY <2>6 DEF AnswerQuery
  <2>7. CASE Complete(c)
    BY <2>7 DEF Complete, TerminalPhases
  <2>8. CASE Raise(c)
    BY <2>8 DEF Raise
  <2>9. CASE Unwind(c)
    BY <2>9 DEF Unwind, TerminalPhases
  <2>10. CASE CheckWhileEmbedding(c)
    BY <2>10 DEF CheckWhileEmbedding
  <2> QED
    BY <1>2, <2>1, <2>2, <2>3, <2>4, <2>5, <2>6, <2>7, <2>8, <2>9, <2>10 DEF Worker
<1>3. CASE CancelHandler
  BY <1>3 DEF CancelHandler, CancelReads, CancelSignals, CancelMarks, RequestOnly
<1>4. CASE PauseHandler
  BY <1>4 DEF PauseHandler, PauseReads, PauseSignals, PauseMarks, RequestOnly
<1>5. CASE UNCHANGED vars
  BY <1>5 DEF vars
<1> QED
  BY <1>1, <1>2, <1>3, <1>4, <1>5 DEF Next

(* Nothing runs, and no row is live, when the sweep gives its verdict.     *)
THEOREM NothingLeftBehind == Spec => []NoRunLeftBehind
<1>1. Spec => [](TypeInv /\ DrainInv)
  BY TypeInit, TypeNext, DrainInit, DrainNext, PTL DEF Spec
<1>2. TypeInv /\ DrainInv => NoRunLeftBehind
  BY DEF DrainInv, LateEnded, RowFollowsWorker, NoRunLeftBehind, Late
<1> QED
  BY <1>1, <1>2, PTL

-----------------------------------------------------------------------------
(* At most one more phase after a cancel. The argument: a phase entered    *)
(* late leads to a check_control before the next one is entered, and a     *)
(* check_control does not pass once cancelEvent is set, which stays set.   *)

(* A run that is about to enter a phase has not entered one late.          *)
CancelInv ==
    \A c \in Combos :
        /\ lateEntries[c] <= 1
        /\ lateEntries[c] > 0 => cancelEvent
        /\ at[c] = "entering" => lateEntries[c] = 0
        /\ at[c] = "searching" /\ row[c] = "querying" => lateEntries[c] = 0

(* The initial states satisfy the cancel invariant.                        *)
LEMMA CancelInit == Init => CancelInv
BY DEF Init, CancelInv

(* Every step keeps the cancel invariant.                                  *)
LEMMA CancelNext == TypeInv /\ CancelInv /\ [Next]_vars => CancelInv'
<1> SUFFICES ASSUME TypeInv, CancelInv, [Next]_vars
             PROVE  CancelInv'
  OBVIOUS
<1> USE DEF TypeInv, TypeOK, CancelInv, scheduler, flags, worker, control,
    clients
<1>1. CASE Scheduler
  <2>1. CASE CheckCancelledInDb
    BY <2>1 DEF CheckCancelledInDb, Leave
  <2>2. CASE CheckBeforeStart
    BY <2>2 DEF CheckBeforeStart, Leave
  <2>3. CASE PreflightFails
    BY <2>3 DEF PreflightFails, Leave
  <2>4. CASE PreflightPasses
    BY <2>4 DEF PreflightPasses
  <2>5. ASSUME NEW c \in Combos, Submit(c) PROVE CancelInv'
    BY <2>5 DEF Submit
  <2>6. ASSUME NEW c \in Combos, SubmitSeesSignal(c) PROVE CancelInv'
    BY <2>6 DEF SubmitSeesSignal
  <2>7. CASE FirstSubmitRaises
    BY <2>7 DEF FirstSubmitRaises, Leave
  <2>8. CASE SubmitNothing
    BY <2>8 DEF SubmitNothing
  <2>9. CASE HandleDone
    BY <2>9 DEF HandleDone
  <2>10. CASE AllHandled
    BY <2>10 DEF AllHandled
  <2>11. CASE Recheck
    BY <2>11 DEF Recheck
  <2>12. CASE Finalise
    BY <2>12 DEF Finalise, Leave
  <2>13. CASE FinaliseRaises
    BY <2>13 DEF FinaliseRaises, Leave
  <2>14. CASE Unregister
    BY <2>14 DEF Unregister
  <2>15. CASE StartRaises
    BY <2>15 DEF StartRaises, Leave
  <2> QED
    BY <1>1, <2>1, <2>2, <2>3, <2>4, <2>5, <2>6, <2>7, <2>8, <2>9, <2>10,
        <2>11,
       <2>12, <2>13, <2>14, <2>15 DEF Scheduler
<1>2. ASSUME NEW c \in Combos, Worker(c) PROVE CancelInv'
  <2> USE DEF WorkerOnly, End, WorkerPoints
  <2>1. CASE Start(c)
    BY <2>1 DEF Start
  <2>2. CASE CheckControl(c)
    BY <2>2 DEF CheckControl
  <2>3. CASE EnterPhase(c)
    BY <2>3 DEF EnterPhase, WritePhase
  <2>4. CASE FinishPhase(c)
    BY <2>4 DEF FinishPhase
  <2>5. CASE Rerank(c)
    BY <2>5 DEF Rerank, WritePhase
  <2>6. CASE AnswerQuery(c)
    BY <2>6 DEF AnswerQuery
  <2>7. CASE Complete(c)
    BY <2>7 DEF Complete
  <2>8. CASE Raise(c)
    BY <2>8 DEF Raise
  <2>9. CASE Unwind(c)
    BY <2>9 DEF Unwind
  <2>10. CASE CheckWhileEmbedding(c)
    BY <2>10 DEF CheckWhileEmbedding
  <2> QED
    BY <1>2, <2>1, <2>2, <2>3, <2>4, <2>5, <2>6, <2>7, <2>8, <2>9, <2>10 DEF Worker
<1>3. CASE CancelHandler
  BY <1>3 DEF CancelHandler, CancelReads, CancelSignals, CancelMarks,
      RequestOnly
<1>4. CASE PauseHandler
  BY <1>4 DEF PauseHandler, PauseReads, PauseSignals, PauseMarks, RequestOnly
<1>5. CASE UNCHANGED vars
  BY <1>5 DEF vars
<1> QED
  BY <1>1, <1>2, <1>3, <1>4, <1>5 DEF Next

(* Once cancel is signalled, no run enters more than one phase.            *)
THEOREM CancelStopsAtNextPhase == Spec => []OnePhaseAfterCancel
<1>1. Spec => [](TypeInv /\ CancelInv)
  BY TypeInit, TypeNext, CancelInit, CancelNext, PTL DEF Spec
<1>2. CancelInv => OnePhaseAfterCancel
  BY DEF CancelInv, OnePhaseAfterCancel
<1> QED
  BY <1>1, <1>2, PTL

-----------------------------------------------------------------------------
(* A completed combination is not run again. The argument: after the       *)
(* preflight, the iterator holds no combination with a completed row,   *)
(* and only combinations from the iterator get a worker.                   *)

SkipInv ==
    \A c \in Combos :
        prior[c] = "complete" =>
            at[c] = "idle" /\ (pc \in Early \cup Late \/ c \notin runIter)

(* The initial states satisfy the skip invariant.                          *)
LEMMA SkipInit == Init => SkipInv
BY DEF Init, SkipInv, Early

(* Every step keeps the skip invariant.                                    *)
LEMMA SkipNext == TypeInv /\ DrainInv /\ SkipInv /\ [Next]_vars => SkipInv'
<1> SUFFICES ASSUME TypeInv, DrainInv, SkipInv, [Next]_vars
             PROVE  SkipInv'
  OBVIOUS
<1> USE DEF TypeInv, TypeOK, SkipInv, Early, Late, scheduler, flags, worker,
            control, clients
<1>1. CASE Scheduler
  <2>1. CASE CheckCancelledInDb
    BY <2>1 DEF CheckCancelledInDb, Leave
  <2>2. CASE CheckBeforeStart
    BY <2>2 DEF CheckBeforeStart, Leave
  <2>3. CASE PreflightFails
    BY <2>3 DEF PreflightFails, Leave
  <2>4. CASE PreflightPasses
    BY <2>4 DEF PreflightPasses, Skipped
  <2>5. ASSUME NEW c \in Combos, Submit(c) PROVE SkipInv'
    BY <2>5 DEF Submit, MayCallSubmit
  <2>6. ASSUME NEW c \in Combos, SubmitSeesSignal(c) PROVE SkipInv'
    BY <2>6 DEF SubmitSeesSignal, MayCallSubmit
  <2>7. CASE FirstSubmitRaises
    BY <2>7 DEF FirstSubmitRaises, Leave
  <2>8. CASE SubmitNothing
    BY <2>8 DEF SubmitNothing
  <2>9. CASE HandleDone
    BY <2>9 DEF HandleDone
  <2>10. CASE AllHandled
    BY <2>10 DEF AllHandled
  <2>11. CASE Recheck
    BY <2>11 DEF Recheck
  <2>12. CASE Finalise
    BY <2>12 DEF Finalise, Leave
  <2>13. CASE FinaliseRaises
    BY <2>13 DEF FinaliseRaises, Leave
  <2>14. CASE Unregister
    BY <2>14 DEF Unregister
  <2>15. CASE StartRaises
    BY <2>15 DEF StartRaises, Leave
  <2> QED
    BY <1>1, <2>1, <2>2, <2>3, <2>4, <2>5, <2>6, <2>7, <2>8, <2>9, <2>10,
        <2>11,
       <2>12, <2>13, <2>14, <2>15 DEF Scheduler
<1>2. ASSUME NEW c \in Combos, Worker(c) PROVE SkipInv'
  <2> USE DEF WorkerOnly, End, WorkerPoints, Active
  <2>1. CASE Start(c)
    BY <2>1 DEF Start
  <2>2. CASE CheckControl(c)
    BY <2>2 DEF CheckControl
  <2>3. CASE EnterPhase(c)
    BY <2>3 DEF EnterPhase, WritePhase
  <2>4. CASE FinishPhase(c)
    BY <2>4 DEF FinishPhase
  <2>5. CASE Rerank(c)
    BY <2>5 DEF Rerank, WritePhase
  <2>6. CASE AnswerQuery(c)
    BY <2>6 DEF AnswerQuery
  <2>7. CASE Complete(c)
    BY <2>7 DEF Complete
  <2>8. CASE Raise(c)
    BY <2>8 DEF Raise
  <2>9. CASE Unwind(c)
    BY <2>9 DEF Unwind
  <2>10. CASE CheckWhileEmbedding(c)
    BY <2>10 DEF CheckWhileEmbedding
  <2> QED
    BY <1>2, <2>1, <2>2, <2>3, <2>4, <2>5, <2>6, <2>7, <2>8, <2>9, <2>10 DEF Worker
<1>3. CASE CancelHandler
  BY <1>3 DEF CancelHandler, CancelReads, CancelSignals, CancelMarks,
      RequestOnly
<1>4. CASE PauseHandler
  BY <1>4 DEF PauseHandler, PauseReads, PauseSignals, PauseMarks, RequestOnly
<1>5. CASE UNCHANGED vars
  BY <1>5 DEF vars
<1> QED
  BY <1>1, <1>2, <1>3, <1>4, <1>5 DEF Next

(* A combination completed before the pause gets no second row.            *)
THEOREM ResumeSkipsCompleted == Spec => []NoCompletedRunRepeated
<1>1. Spec => [](TypeInv /\ DrainInv /\ SkipInv)
  BY TypeInit, TypeNext, DrainInit, DrainNext, SkipInit, SkipNext, PTL DEF Spec
<1>2. DrainInv /\ SkipInv => NoCompletedRunRepeated
  BY DEF DrainInv, RowFollowsWorker, SkipInv, NoCompletedRunRepeated
<1> QED
  BY <1>1, <1>2, PTL

-----------------------------------------------------------------------------
(* A completed row has its data. The argument: answered stays zero until   *)
(* the querying phase, which is entered from a finished storing phase, and *)
(* the query loop is left when every query is answered.                    *)

Querying == {"querying", "reranking"}

DataInv ==
    \A c \in Combos :
        /\ row[c] \in {"absent"} \cup DOMAIN NextPhase => answered[c] = 0
        /\ at[c] = "working" => row[c] \in WorkPhases \ Querying
        /\ row[c] = "storing" /\ at[c] \in {"checking", "entering"} => stored[c]
        /\ row[c] \in Querying => stored[c]
        /\ row[c] \in Querying /\ at[c] \in {"checking", "searching"}
              => answered[c] < NumQueries
        /\ at[c] \in {"searching", "completing"} => row[c] \in Querying
        /\ at[c] = "completing" => answered[c] = NumQueries
        /\ row[c] = "complete" => stored[c] /\ answered[c] = NumQueries

(* The order of the phases of a run.                                       *)
LEMMA NextPhaseValues ==
    /\ NextPhase["queued"] = "parsing" /\ NextPhase["parsing"] = "chunking"
    /\ NextPhase["chunking"] = "embedding" /\ NextPhase["embedding"] = "storing"
    /\ NextPhase["storing"] = "querying"
BY DEF NextPhase

(* The initial states satisfy the data invariant.                          *)
LEMMA DataInit == Init => DataInv
BY NextPhaseType DEF Init, DataInv, Querying

(* Every step keeps the data invariant.                                    *)
LEMMA DataNext == TypeInv /\ DrainInv /\ DataInv /\ [Next]_vars => DataInv'
<1> SUFFICES ASSUME TypeInv, DrainInv, DataInv, [Next]_vars
             PROVE  DataInv'
  OBVIOUS
<1> USE DEF TypeInv, TypeOK, DataInv, Querying, scheduler, flags, worker,
    control, clients
<1>1. CASE Scheduler
  <2>1. CASE CheckCancelledInDb
    BY <2>1 DEF CheckCancelledInDb, Leave
  <2>2. CASE CheckBeforeStart
    BY <2>2 DEF CheckBeforeStart, Leave
  <2>3. CASE PreflightFails
    BY <2>3 DEF PreflightFails, Leave
  <2>4. CASE PreflightPasses
    BY <2>4 DEF PreflightPasses
  <2>5. ASSUME NEW c \in Combos, Submit(c) PROVE DataInv'
    BY <2>5 DEF Submit
  <2>6. ASSUME NEW c \in Combos, SubmitSeesSignal(c) PROVE DataInv'
    BY <2>6 DEF SubmitSeesSignal
  <2>7. CASE FirstSubmitRaises
    BY <2>7 DEF FirstSubmitRaises, Leave
  <2>8. CASE SubmitNothing
    BY <2>8 DEF SubmitNothing
  <2>9. CASE HandleDone
    BY <2>9 DEF HandleDone
  <2>10. CASE AllHandled
    BY <2>10 DEF AllHandled
  <2>11. CASE Recheck
    BY <2>11 DEF Recheck
  <2>12. CASE Finalise
    BY <2>12 DEF Finalise, Leave
  <2>13. CASE FinaliseRaises
    BY <2>13 DEF FinaliseRaises, Leave
  <2>14. CASE Unregister
    BY <2>14 DEF Unregister
  <2>15. CASE StartRaises
    BY <2>15 DEF StartRaises, Leave
  <2> QED
    BY <1>1, <2>1, <2>2, <2>3, <2>4, <2>5, <2>6, <2>7, <2>8, <2>9, <2>10,
        <2>11,
       <2>12, <2>13, <2>14, <2>15 DEF Scheduler
<1>2. ASSUME NEW c \in Combos, Worker(c) PROVE DataInv'
  <2> USE DEF WorkerOnly, End, WorkerPoints
  <2>1. CASE Start(c)
    BY <2>1, NextPhaseType DEF Start, DrainInv, RowFollowsWorker
  <2>2. CASE CheckControl(c)
    BY <2>2, NextPhaseType
       DEF CheckControl, DrainInv, RowFollowsWorker, Active, LivePhases,
           WorkPhases
  <2>3. CASE EnterPhase(c)
    BY <2>3, NextPhaseType, NextPhaseValues, QueriesAssumption
       DEF EnterPhase, WritePhase, EnteringHasNext, WorkPhases
  <2>4. CASE FinishPhase(c)
    BY <2>4, NextPhaseType DEF FinishPhase, WorkPhases
  <2>5. CASE Rerank(c)
    BY <2>5, NextPhaseType DEF Rerank, WritePhase
  <2>6. CASE AnswerQuery(c)
    BY <2>6, NextPhaseType, QueriesAssumption DEF AnswerQuery
  <2>7. CASE Complete(c)
    BY <2>7, NextPhaseType DEF Complete
  <2>8. CASE Raise(c)
    BY <2>8 DEF Raise
  <2>9. CASE Unwind(c)
    BY <2>9, NextPhaseType DEF Unwind
  <2>10. CASE CheckWhileEmbedding(c)
    BY <2>10 DEF CheckWhileEmbedding
  <2> QED
    BY <1>2, <2>1, <2>2, <2>3, <2>4, <2>5, <2>6, <2>7, <2>8, <2>9, <2>10 DEF Worker
<1>3. CASE CancelHandler
  BY <1>3 DEF CancelHandler, CancelReads, CancelSignals, CancelMarks,
      RequestOnly
<1>4. CASE PauseHandler
  BY <1>4 DEF PauseHandler, PauseReads, PauseSignals, PauseMarks, RequestOnly
<1>5. CASE UNCHANGED vars
  BY <1>5 DEF vars
<1> QED
  BY <1>1, <1>2, <1>3, <1>4, <1>5 DEF Next

(* The results and chunks of a COMPLETE run are all there.                 *)
THEOREM CompletedRunsAreWhole == Spec => []CompleteRunsHaveData
<1>1. Spec => [](TypeInv /\ DrainInv /\ DataInv)
  BY TypeInit, TypeNext, DrainInit, DrainNext, DataInit, DataNext, PTL DEF Spec
<1>2. DataInv => CompleteRunsHaveData
  BY DEF DataInv, CompleteRunsHaveData
<1> QED
  BY <1>1, <1>2, PTL

-----------------------------------------------------------------------------
(* A COMPLETE verdict means all of them. The argument: no combination has  *)
(* completed rows of both sweeps, so as many completed rows as there are   *)
(* combinations are a row for each; and once the verdict is given no row   *)
(* changes any more.                                                       *)

RowIn(phases) == {c \in Combos : row[c] \in phases}

PriorIn(phases) == {c \in Combos : prior[c] \in phases}

AllCompleted ==
    \A c \in Combos : /\ "complete" \in {row[c], prior[c]}
                      /\ "failed" \notin {row[c], prior[c]}

(* Rows counts the rows of both sweeps, and is zero only without any.      *)
LEMMA RowsCount ==
    ASSUME NEW phases
    PROVE  /\ IsFiniteSet(RowIn(phases)) /\ IsFiniteSet(PriorIn(phases))
           /\ Rows(phases) = Cardinality(RowIn(phases)) + Cardinality(PriorIn(phases))
           /\ Rows(phases) = 0 => RowIn(phases) = {} /\ PriorIn(phases) = {}
<1>1. RowIn(phases) \in SUBSET Combos /\ PriorIn(phases) \in SUBSET Combos
  BY DEF RowIn, PriorIn
<1>2. IsFiniteSet(RowIn(phases)) /\ IsFiniteSet(PriorIn(phases))
  BY <1>1, CombosAssumption, FS_Subset
<1>3. /\ Cardinality(RowIn(phases)) \in Nat
      /\ Cardinality(PriorIn(phases)) \in Nat
  BY <1>2, FS_CardinalityType
<1>4. Rows(phases) = Cardinality(RowIn(phases)) + Cardinality(PriorIn(phases))
  BY DEF Rows, RowIn, PriorIn
<1>5. Rows(phases) = 0 => RowIn(phases) = {} /\ PriorIn(phases) = {}
  BY <1>2, <1>3, <1>4, FS_EmptySet
<1> QED
  BY <1>2, <1>4, <1>5

(* Why a COMPLETE verdict needs every combination: counting the rows.      *)
LEMMA CompleteVerdict ==
    ASSUME TypeInv, NoCompletedRunRepeated, Verdict = "complete"
    PROVE  AllCompleted
<1>1. Rows({"complete"}) = Cardinality(Combos) /\ Rows({"failed"}) = 0
  BY DEF Verdict, ComputeFinalStatus
<1>2. RowIn({"failed"}) = {} /\ PriorIn({"failed"}) = {}
  BY <1>1, RowsCount
<1> DEFINE R == RowIn({"complete"})
           P == PriorIn({"complete"})
<1>3. R \cap P = {}
  BY DEF RowIn, PriorIn, NoCompletedRunRepeated
<1>4. IsFiniteSet(R) /\ IsFiniteSet(P)
  BY RowsCount
<1>5. /\ Cardinality(R) \in Nat /\ Cardinality(P) \in Nat
      /\ Cardinality(R) + Cardinality(P) = Cardinality(Combos)
  BY <1>1, <1>4, RowsCount, FS_CardinalityType
<1>6. Cardinality(R \cup P) = Cardinality(Combos)
  <2>1. Cardinality(R \cup P) = Cardinality(R) + Cardinality(P) - Cardinality(R \cap P)
    BY <1>4, FS_Union
  <2>2. Cardinality(R \cap P) = 0
    BY <1>3, FS_EmptySet
  <2> HIDE DEF R, P
  <2> QED
    BY <1>5, <2>1, <2>2
<1>7. R \cup P \in SUBSET Combos
  BY DEF RowIn, PriorIn
<1>8. R \cup P = Combos
  <2> HIDE DEF R, P
  <2> QED
    BY <1>6, <1>7, CombosAssumption, FS_Subset
<1> QED
  BY <1>2, <1>8 DEF AllCompleted, RowIn, PriorIn

VerdictInv ==
    /\ result = "none" <=> pc \notin {"unregister", "over"}
    /\ result = "complete" => AllCompleted

(* The initial states satisfy the verdict invariant.                       *)
LEMMA VerdictInit == Init => VerdictInv
BY DEF Init, VerdictInv

(* Every step keeps the verdict invariant.                                 *)
LEMMA VerdictNext == TypeInv /\ DrainInv /\ SkipInv /\ VerdictInv /\
    [Next]_vars => VerdictInv'
<1> SUFFICES ASSUME TypeInv, DrainInv, SkipInv, VerdictInv, [Next]_vars
             PROVE  VerdictInv'
  OBVIOUS
<1> USE DEF TypeInv, TypeOK, VerdictInv, SchedulerPoints, AllCompleted,
    scheduler, flags, worker, control, clients
<1>1. CASE Scheduler
  <2>1. CASE CheckCancelledInDb
    BY <2>1 DEF CheckCancelledInDb, Leave
  <2>2. CASE CheckBeforeStart
    BY <2>2 DEF CheckBeforeStart, Leave
  <2>3. CASE PreflightFails
    BY <2>3 DEF PreflightFails, Leave
  <2>4. CASE PreflightPasses
    BY <2>4 DEF PreflightPasses
  <2>5. ASSUME NEW c \in Combos, Submit(c) PROVE VerdictInv'
    BY <2>5 DEF Submit, MayCallSubmit
  <2>6. ASSUME NEW c \in Combos, SubmitSeesSignal(c) PROVE VerdictInv'
    BY <2>6 DEF SubmitSeesSignal, MayCallSubmit
  <2>7. CASE FirstSubmitRaises
    BY <2>7 DEF FirstSubmitRaises, Leave
  <2>8. CASE SubmitNothing
    BY <2>8 DEF SubmitNothing
  <2>9. CASE HandleDone
    BY <2>9 DEF HandleDone
  <2>10. CASE AllHandled
    BY <2>10 DEF AllHandled
  <2>11. CASE Recheck
    BY <2>11 DEF Recheck
  <2>12. CASE Finalise
    <3>1. NoCompletedRunRepeated
      BY DEF DrainInv, RowFollowsWorker, SkipInv, NoCompletedRunRepeated
    <3>2. Verdict = "complete" => AllCompleted
      BY <3>1, CompleteVerdict
    <3>3. Verdict # "none"
      BY VerdictType DEF ExperimentStatus
    <3> QED
      BY <2>12, <3>2, <3>3 DEF Finalise, Leave
  <2>13. CASE FinaliseRaises
    BY <2>13 DEF FinaliseRaises, Leave
  <2>14. CASE Unregister
    BY <2>14 DEF Unregister
  <2>15. CASE StartRaises
    BY <2>15 DEF StartRaises, Leave
  <2> QED
    BY <1>1, <2>1, <2>2, <2>3, <2>4, <2>5, <2>6, <2>7, <2>8, <2>9, <2>10,
        <2>11,
       <2>12, <2>13, <2>14, <2>15 DEF Scheduler
<1>2. ASSUME NEW c \in Combos, Worker(c) PROVE VerdictInv'
  <2> USE DEF WorkerOnly, End, WorkerPoints, DrainInv, LateEnded, Late
  <2>1. CASE Start(c)
    BY <2>1 DEF Start
  <2>2. CASE CheckControl(c)
    BY <2>2 DEF CheckControl
  <2>3. CASE EnterPhase(c)
    BY <2>3 DEF EnterPhase, WritePhase
  <2>4. CASE FinishPhase(c)
    BY <2>4 DEF FinishPhase
  <2>5. CASE Rerank(c)
    BY <2>5 DEF Rerank, WritePhase
  <2>6. CASE AnswerQuery(c)
    BY <2>6 DEF AnswerQuery
  <2>7. CASE Complete(c)
    BY <2>7 DEF Complete
  <2>8. CASE Raise(c)
    BY <2>8 DEF Raise
  <2>9. CASE Unwind(c)
    BY <2>9 DEF Unwind
  <2>10. CASE CheckWhileEmbedding(c)
    BY <2>10 DEF CheckWhileEmbedding
  <2> QED
    BY <1>2, <2>1, <2>2, <2>3, <2>4, <2>5, <2>6, <2>7, <2>8, <2>9, <2>10 DEF Worker
<1>3. CASE CancelHandler
  BY <1>3 DEF CancelHandler, CancelReads, CancelSignals, CancelMarks,
      RequestOnly
<1>4. CASE PauseHandler
  BY <1>4 DEF PauseHandler, PauseReads, PauseSignals, PauseMarks, RequestOnly
<1>5. CASE UNCHANGED vars
  BY <1>5 DEF vars
<1> QED
  BY <1>1, <1>2, <1>3, <1>4, <1>5 DEF Next

(* COMPLETE is only ever returned when every combination has a completed   *)
(* row and none a failed one.                                              *)
THEOREM CompleteIsComplete == Spec => []CompleteMeansAll
<1>1. Spec => [](TypeInv /\ DrainInv /\ SkipInv /\ VerdictInv)
  BY TypeInit, TypeNext, DrainInit, DrainNext, SkipInit, SkipNext,
     VerdictInit, VerdictNext, PTL DEF Spec
<1>2. VerdictInv => CompleteMeansAll
  BY DEF VerdictInv, AllCompleted, CompleteMeansAll
<1> QED
  BY <1>1, <1>2, PTL

-----------------------------------------------------------------------------
(* The sweep implements SweepPromise. A step of a worker launches or       *)
(* settles its combination or is invisible, a step of the sweep thread     *)
(* concludes or is invisible, and the handlers are invisible.              *)

Before == {c \in Combos : prior[c] = "complete"}

FateOf == [c \in Combos |-> Fate(c)]

VerdictOf == IF result = "none" THEN "open" ELSE result

PromiseVars == <<Before, FateOf, VerdictOf>>

PromiseInv == TypeInv /\ DrainInv /\ SkipInv /\ VerdictInv

(* What the refinement proof knows of every reachable state.               *)
LEMMA PromiseInvariant == Spec => []PromiseInv
BY TypeInit, TypeNext, DrainInit, DrainNext, SkipInit, SkipNext, VerdictInit,
   VerdictNext, PTL DEF Spec, PromiseInv

(* An initial state of the sweep is one of the promise.                    *)
LEMMA PromiseInit == Init => Promise!Init
BY DEF Init, Promise!Init, Fate

(* A run that works is live, and one that has settled is not.              *)
LEMMA LiveFates ==
    ASSUME PromiseInv, NEW c \in Combos
    PROVE  /\ Active(c) => Fate(c) = "live"
           /\ at[c] \in {"idle", "pooled"} => Fate(c) = "waiting"
           /\ at[c] \in {"idle", "done", "lost"} => Fate(c) # "live"
           /\ row[c] = "complete" => Fate(c) = "complete"
BY DEF PromiseInv, TypeInv, TypeOK, DrainInv, RowFollowsWorker, Fate, Active,
       LivePhases, WorkPhases, TerminalPhases, WorkerPoints

(* A step that leaves the rows and the workers alone leaves the fates.     *)
LEMMA SameFates ==
    ASSUME UNCHANGED <<at, row, prior>>
    PROVE  UNCHANGED Before /\ UNCHANGED FateOf
BY DEF Before, FateOf, Fate

(* A verdict on settled combinations is a Conclude.                        *)
LEMMA ConcludeStep ==
    ASSUME PromiseInv, NEW res, Leave(res), UNCHANGED <<at, row, prior>>,
           result = "none",
           res \in {"complete", "partial", "failed", "cancelled", "paused", "raised"},
           res = "complete" => AllCompleted,
           \A c \in Combos : at[c] \in {"idle", "done", "lost"}
    PROVE  Promise!Next
<1>1. \A c \in Combos : Fate(c) # "live"
  BY LiveFates
<1>2. res = "complete" => \A c \in Combos : c \in Before \/ FateOf[c] = "complete"
  BY LiveFates DEF AllCompleted, Before, FateOf
<1>3. UNCHANGED Before /\ UNCHANGED FateOf
  BY SameFates
<1>4. VerdictOf = "open" /\ VerdictOf' = res
  BY DEF VerdictOf, Leave
<1>5. Promise!Conclude
  BY <1>1, <1>2, <1>3, <1>4
     DEF Promise!Conclude, Promise!Verdicts, Before, FateOf, VerdictOf
<1> QED
  BY <1>5 DEF Promise!Next

(* A step of one worker that changes its fate.                             *)
LEMMA LaunchStep ==
    ASSUME PromiseInv, NEW c \in Combos, Start(c)
    PROVE  Promise!Next
<1> USE DEF PromiseInv
<1>1. at[c] = "pooled" /\ c \notin Before
  BY DEF Start, SkipInv, Before
<1>2. Fate(c) = "waiting"
  BY <1>1, LiveFates
<1>3. VerdictOf = "open" /\ VerdictOf' = "open"
  BY <1>1 DEF Start, WorkerOnly, scheduler, VerdictOf, VerdictInv, DrainInv,
              LateEnded, Late
<1>4. \E f \in {"live", "lost"} : FateOf' = [FateOf EXCEPT ![c] = f]
  <2>1. Fate(c)' \in {"live", "lost"}
    BY <1>1 DEF Start, End, Fate, TypeInv, TypeOK, LivePhases, DrainInv,
                RowFollowsWorker
  <2>2. \A d \in Combos \ {c} : Fate(d)' = Fate(d)
    BY DEF Start, End, Fate, TypeInv, TypeOK
  <2>3. FateOf' = [FateOf EXCEPT ![c] = Fate(c)']
    BY <2>2 DEF FateOf
  <2> QED
    BY <2>1, <2>3
<1>5. UNCHANGED Before
  BY DEF Start, WorkerOnly, Before
<1>6. Promise!Launch(c)
  BY <1>1, <1>2, <1>3, <1>4, <1>5 DEF Promise!Launch, Before, FateOf, VerdictOf
<1> QED
  BY <1>6 DEF Promise!Next

(* A step of one worker after which its run is no longer live.             *)
LEMMA SettleStep ==
    ASSUME PromiseInv, NEW c \in Combos, Complete(c) \/ Unwind(c)
    PROVE  Promise!Next
<1> USE DEF PromiseInv
<1>1. at[c] \in {"completing", "unwinding"}
  BY DEF Complete, Unwind
<1>2. Fate(c) = "live"
  BY <1>1, LiveFates DEF Active
<1>3. VerdictOf = "open" /\ VerdictOf' = "open"
  BY <1>1 DEF Complete, Unwind, WorkerOnly, scheduler, VerdictOf, VerdictInv,
              DrainInv, LateEnded, Late
<1>4. \E f \in Promise!Fates : FateOf' = [FateOf EXCEPT ![c] = f]
  <2>1. Fate(c)' \in {"complete", "failed", "interrupted", "lost"}
    <3>1. row[c] \in LivePhases
      BY <1>1 DEF DrainInv, RowFollowsWorker, Active
    <3> QED
      BY <1>1, <3>1 DEF Complete, Unwind, End, Fate, TypeInv, TypeOK, LivePhases,
                        WorkPhases
  <2>2. \A d \in Combos \ {c} : Fate(d)' = Fate(d)
    BY DEF Complete, Unwind, End, Fate, TypeInv, TypeOK
  <2>3. FateOf' = [FateOf EXCEPT ![c] = Fate(c)']
    BY <2>2 DEF FateOf
  <2> QED
    BY <2>1, <2>3 DEF Promise!Fates
<1>5. UNCHANGED Before
  BY DEF Complete, Unwind, WorkerOnly, Before
<1>6. Promise!Settle(c)
  BY <1>2, <1>3, <1>4, <1>5 DEF Promise!Settle, Before, FateOf, VerdictOf
<1> QED
  BY <1>6 DEF Promise!Next

(* The other steps of a worker: its combination is live before and after.  *)
LEMMA InvisibleWorkerStep ==
    ASSUME PromiseInv, PromiseInv', NEW c \in Combos,
           \/ CheckControl(c) \/ EnterPhase(c) \/ FinishPhase(c)
           \/ Rerank(c) \/ AnswerQuery(c) \/ CheckWhileEmbedding(c) \/ Raise(c)
    PROVE  UNCHANGED PromiseVars
<1>1. Active(c) /\ Active(c)'
  BY DEF CheckControl, EnterPhase, FinishPhase, Rerank, AnswerQuery,
         CheckWhileEmbedding, Raise, End,
         WritePhase, Active, PromiseInv, TypeInv, TypeOK
<1>2. Fate(c) = "live"
  BY <1>1, LiveFates
<1>3. Fate(c)' = "live"
  BY <1>1 DEF PromiseInv, TypeInv, TypeOK, DrainInv, RowFollowsWorker, Fate,
              Active, LivePhases, WorkPhases, WorkerPoints
<1>4. \A d \in Combos \ {c} : Fate(d)' = Fate(d)
  BY DEF CheckControl, EnterPhase, FinishPhase, Rerank, AnswerQuery,
         CheckWhileEmbedding, Raise, End,
         WritePhase, Fate, PromiseInv, TypeInv, TypeOK
<1>5. FateOf' = FateOf
  BY <1>2, <1>3, <1>4 DEF FateOf
<1>6. UNCHANGED <<prior, result>>
  BY DEF CheckControl, EnterPhase, FinishPhase, Rerank, AnswerQuery,
         CheckWhileEmbedding, Raise,
         WorkerOnly, scheduler
<1> QED
  BY <1>5, <1>6 DEF PromiseVars, Before, VerdictOf

(* Every step of the sweep is a step of the promise or a stutter.          *)
LEMMA PromiseNext ==
    ASSUME PromiseInv, PromiseInv', [Next]_vars
    PROVE  Promise!Next \/ UNCHANGED PromiseVars
<1> USE DEF scheduler, flags, worker, control, clients
<1>1. CASE Scheduler
  <2>1. CASE CheckCancelledInDb
    <3>1. CASE status = "cancelled"
      <4>1. Leave("cancelled") /\ UNCHANGED <<at, row, prior>> /\ result = "none"
        BY <2>1, <3>1 DEF CheckCancelledInDb, Leave, PromiseInv, VerdictInv
      <4>2. \A c \in Combos : at[c] = "idle"
        BY <2>1 DEF CheckCancelledInDb, PromiseInv, DrainInv, EarlyIdle, Early
      <4> QED
        BY <4>1, <4>2, ConcludeStep
    <3>2. CASE status # "cancelled"
      <4>1. UNCHANGED <<at, row, prior, result>>
        BY <2>1, <3>2 DEF CheckCancelledInDb
      <4> QED
        BY <4>1, SameFates DEF PromiseVars, VerdictOf
    <3> QED
      BY <3>1, <3>2
  <2>2. CASE CheckBeforeStart
    <3>1. CASE cancelEvent \/ pauseEvent
      <4>1. PICK res \in {"cancelled", "raised"} : Leave(res)
        BY <2>2, <3>1 DEF CheckBeforeStart
      <4>2. UNCHANGED <<at, row, prior>> /\ result = "none"
        BY <2>2, <4>1 DEF CheckBeforeStart, Leave, PromiseInv, VerdictInv
      <4>3. \A c \in Combos : at[c] = "idle"
        BY <2>2 DEF CheckBeforeStart, PromiseInv, DrainInv, EarlyIdle, Early
      <4> QED
        BY <4>1, <4>2, <4>3, ConcludeStep
    <3>2. CASE ~(cancelEvent \/ pauseEvent)
      <4>1. UNCHANGED <<at, row, prior, result>>
        BY <2>2, <3>2 DEF CheckBeforeStart
      <4> QED
        BY <4>1, SameFates DEF PromiseVars, VerdictOf
    <3> QED
      BY <3>1, <3>2
  <2>3. CASE PreflightFails
    <3>1. Leave("failed") /\ UNCHANGED <<at, row, prior>> /\ result = "none"
      BY <2>3 DEF PreflightFails, Leave, PromiseInv, VerdictInv
    <3>2. \A c \in Combos : at[c] = "idle"
      BY <2>3 DEF PreflightFails, PromiseInv, DrainInv, EarlyIdle, Early
    <3> QED
      BY <3>1, <3>2, ConcludeStep
  <2>4. ASSUME NEW c \in Combos, Submit(c) PROVE UNCHANGED PromiseVars
    <3>1. at[c] = "idle" /\ UNCHANGED <<row, prior, result>>
      BY <2>4 DEF Submit, PromiseInv, DrainInv, UntakenIdle
    <3>2. \A d \in Combos : Fate(d)' = Fate(d)
      <4> SUFFICES ASSUME NEW d \in Combos PROVE Fate(d)' = Fate(d)
        OBVIOUS
      <4>1. CASE d = c
        BY <2>4, <3>1, <4>1 DEF Submit, Fate, PromiseInv, TypeInv, TypeOK
      <4>2. CASE d # c
        BY <2>4, <3>1, <4>2 DEF Submit, Fate, PromiseInv, TypeInv, TypeOK
      <4> QED
        BY <4>1, <4>2
    <3> QED
      BY <3>1, <3>2 DEF PromiseVars, Before, FateOf, VerdictOf
  <2>5. CASE FirstSubmitRaises
    <3>1. Leave("raised") /\ UNCHANGED <<at, row, prior>> /\ result = "none"
      BY <2>5 DEF FirstSubmitRaises, Leave, PromiseInv, VerdictInv
    <3>2. \A c \in Combos : at[c] = "idle"
      BY <2>5 DEF FirstSubmitRaises, Submitted
    <3> QED
      BY <3>1, <3>2, ConcludeStep
  <2>6. CASE Finalise
    <3>1. Leave(Verdict) /\ UNCHANGED <<at, row, prior>> /\ result = "none"
      BY <2>6 DEF Finalise, Leave, PromiseInv, VerdictInv
    <3>2. Verdict \in {"complete", "partial", "failed", "cancelled", "paused"}
      BY DEF Verdict, ComputeFinalStatus
    <3>3. Verdict = "complete" => AllCompleted
      BY CompleteVerdict
         DEF PromiseInv, DrainInv, RowFollowsWorker, SkipInv, NoCompletedRunRepeated
    <3>4. \A c \in Combos : at[c] \in {"idle", "done", "lost"}
      BY <2>6 DEF Finalise, PromiseInv, DrainInv, LateEnded, Late
    <3> HIDE DEF Verdict
    <3> QED
      BY <3>1, <3>2, <3>3, <3>4, ConcludeStep
  <2>7. CASE FinaliseRaises
    <3>1. Leave("raised") /\ UNCHANGED <<at, row, prior>> /\ result = "none"
      BY <2>7 DEF FinaliseRaises, Leave, PromiseInv, VerdictInv
    <3>2. \A c \in Combos : at[c] \in {"idle", "done", "lost"}
      BY <2>7 DEF FinaliseRaises, PromiseInv, DrainInv, LateEnded, Late
    <3> QED
      BY <3>1, <3>2, ConcludeStep
  <2>9. CASE StartRaises
    <3>1. Leave("raised") /\ UNCHANGED <<at, row, prior>> /\ result = "none"
      BY <2>9 DEF StartRaises, Leave, PromiseInv, VerdictInv
    <3>2. \A c \in Combos : at[c] = "idle"
      BY <2>9 DEF StartRaises, PromiseInv, DrainInv, EarlyIdle, Early
    <3> QED
      BY <3>1, <3>2, ConcludeStep
  <2>8. ASSUME \/ PreflightPasses \/ SubmitNothing \/ HandleDone \/ AllHandled
               \/ Recheck \/ Unregister
               \/ \E c \in Combos : SubmitSeesSignal(c)
        PROVE  UNCHANGED PromiseVars
    <3>1. UNCHANGED <<at, row, prior, result>>
      BY <2>8 DEF PreflightPasses, SubmitNothing, HandleDone, AllHandled, Recheck,
                  Unregister, SubmitSeesSignal
    <3> QED
      BY <3>1, SameFates DEF PromiseVars, VerdictOf
  <2> QED
    BY <1>1, <2>1, <2>2, <2>3, <2>4, <2>5, <2>6, <2>7, <2>8, <2>9 DEF Scheduler
<1>2. ASSUME NEW c \in Combos, Worker(c)
      PROVE  Promise!Next \/ UNCHANGED PromiseVars
  BY <1>2, LaunchStep, SettleStep, InvisibleWorkerStep DEF Worker
<1>3. ASSUME CancelHandler \/ PauseHandler PROVE UNCHANGED PromiseVars
  <2>1. UNCHANGED <<at, row, prior, result>>
    BY <1>3 DEF CancelHandler, CancelReads, CancelSignals, CancelMarks,
                PauseHandler, PauseReads, PauseSignals, PauseMarks, RequestOnly
  <2> QED
    BY <2>1, SameFates DEF PromiseVars, VerdictOf
<1>4. CASE UNCHANGED vars
  <2>1. UNCHANGED <<at, row, prior, result>>
    BY <1>4 DEF vars
  <2> QED
    BY <2>1, SameFates DEF PromiseVars, VerdictOf
<1> QED
  BY <1>1, <1>2, <1>3, <1>4 DEF Next

(* With its threads, phases, events and faults, the grid sweep behaves as  *)
(* SweepPromise allows.                                                    *)
THEOREM SweepImplementsPromise == Spec => KeepsPromise
<1>1. PromiseInv /\ PromiseInv' /\ [Next]_vars => [Promise!Next]_PromiseVars
  BY PromiseNext
<1>2. Init /\ []PromiseInv /\ [][Next]_vars
         => Promise!Init /\ [][Promise!Next]_PromiseVars
  BY <1>1, PromiseInit, PTL
<1> QED
  BY <1>2, PromiseInvariant, PTL
     DEF Spec, KeepsPromise, Promise!Spec, PromiseVars, Before, FateOf, VerdictOf

-----------------------------------------------------------------------------
(* Every verdict has its cause. The argument: a flag of the scheduler, and *)
(* the outcome of a run, are only set on an event, which stays set.        *)

CancelAsked == cancelEvent \/ cancelRequest = "answered"

CauseInv ==
    /\ cancelled => cancelEvent
    /\ paused => pauseEvent
    /\ \A c \in Combos : /\ outcome[c] = "cancelled" => cancelEvent
                         /\ outcome[c] = "paused" => pauseEvent
    /\ status = "cancelled" => CancelAsked
    /\ result = "cancelled" => CancelAsked
    /\ result = "paused" => pauseEvent
    /\ infrastructureError =>
          result \in {"none", "raised", "failed", "cancelled", "paused"}

(* The initial states satisfy the cause invariant.                         *)
LEMMA CauseInit == Init => CauseInv
BY DEF Init, CauseInv

(* Every step keeps the cause invariant.                                   *)
LEMMA CauseNext == TypeInv /\ VerdictInv /\ CauseInv /\ [Next]_vars =>
    CauseInv'
<1> SUFFICES ASSUME TypeInv, VerdictInv, CauseInv, [Next]_vars
             PROVE  CauseInv'
  OBVIOUS
<1> USE DEF TypeInv, TypeOK, CauseInv, CancelAsked, scheduler, flags, worker,
    control, clients
<1>1. CASE Scheduler
  <2>1. CASE CheckCancelledInDb
    BY <2>1 DEF CheckCancelledInDb, Leave
  <2>2. CASE CheckBeforeStart
    BY <2>2 DEF CheckBeforeStart, Leave
  <2>3. CASE PreflightFails
    BY <2>3 DEF PreflightFails, Leave
  <2>4. CASE PreflightPasses
    BY <2>4 DEF PreflightPasses
  <2>5. ASSUME NEW c \in Combos, Submit(c) PROVE CauseInv'
    BY <2>5 DEF Submit
  <2>6. ASSUME NEW c \in Combos, SubmitSeesSignal(c) PROVE CauseInv'
    BY <2>6 DEF SubmitSeesSignal
  <2>7. CASE FirstSubmitRaises
    BY <2>7 DEF FirstSubmitRaises, Leave
  <2>8. CASE SubmitNothing
    BY <2>8 DEF SubmitNothing
  <2>9. CASE HandleDone
    <3>1. cancelled' => cancelEvent
      BY <2>9 DEF HandleDone
    <3>2. paused' => pauseEvent
      BY <2>9 DEF HandleDone
    <3>3. result = "none"
      BY <2>9 DEF HandleDone, VerdictInv
    <3> QED
      BY <2>9, <3>1, <3>2, <3>3 DEF HandleDone
  <2>10. CASE AllHandled
    BY <2>10 DEF AllHandled
  <2>11. CASE Recheck
    BY <2>11 DEF Recheck
  <2>12. CASE Finalise
    <3>1. Verdict = "cancelled" => cancelled
      BY DEF Verdict, ComputeFinalStatus
    <3>2. Verdict = "paused" => paused
      BY DEF Verdict, ComputeFinalStatus
    <3>3. infrastructureError => Verdict \in {"failed", "cancelled", "paused"}
      BY DEF Verdict
    <3> QED
      BY <2>12, <3>1, <3>2, <3>3 DEF Finalise, Leave
  <2>13. CASE FinaliseRaises
    BY <2>13 DEF FinaliseRaises, Leave, Verdict, ComputeFinalStatus
  <2>14. CASE Unregister
    BY <2>14 DEF Unregister
  <2>15. CASE StartRaises
    BY <2>15 DEF StartRaises, Leave
  <2> QED
    BY <1>1, <2>1, <2>2, <2>3, <2>4, <2>5, <2>6, <2>7, <2>8, <2>9, <2>10,
        <2>11,
       <2>12, <2>13, <2>14, <2>15 DEF Scheduler
<1>2. ASSUME NEW c \in Combos, Worker(c) PROVE CauseInv'
  <2> USE DEF WorkerOnly, End, WorkerPoints
  <2>1. CASE Start(c)
    BY <2>1 DEF Start
  <2>2. CASE CheckControl(c)
    BY <2>2 DEF CheckControl
  <2>3. CASE EnterPhase(c)
    BY <2>3 DEF EnterPhase, WritePhase
  <2>4. CASE FinishPhase(c)
    BY <2>4 DEF FinishPhase
  <2>5. CASE Rerank(c)
    BY <2>5 DEF Rerank, WritePhase
  <2>6. CASE AnswerQuery(c)
    BY <2>6 DEF AnswerQuery
  <2>7. CASE Complete(c)
    BY <2>7 DEF Complete
  <2>8. CASE Raise(c)
    BY <2>8 DEF Raise
  <2>9. CASE Unwind(c)
    BY <2>9 DEF Unwind
  <2>10. CASE CheckWhileEmbedding(c)
    BY <2>10 DEF CheckWhileEmbedding
  <2> QED
    BY <1>2, <2>1, <2>2, <2>3, <2>4, <2>5, <2>6, <2>7, <2>8, <2>9, <2>10 DEF Worker
<1>3. CASE CancelHandler
  BY <1>3 DEF CancelHandler, CancelReads, CancelSignals, CancelMarks,
      RequestOnly
<1>4. CASE PauseHandler
  BY <1>4 DEF PauseHandler, PauseReads, PauseSignals, PauseMarks, RequestOnly
<1>5. CASE UNCHANGED vars
  BY <1>5 DEF vars
<1> QED
  BY <1>1, <1>2, <1>3, <1>4, <1>5 DEF Next

(* CANCELLED and PAUSED are answers to a request, and an SIE outage does   *)
(* not pass for COMPLETE or PARTIAL.                                       *)
THEOREM VerdictsAreCaused == Spec => []VerdictHasCause
<1>1. Spec => [](TypeInv /\ DrainInv /\ SkipInv /\ VerdictInv /\ CauseInv)
  BY TypeInit, TypeNext, DrainInit, DrainNext, SkipInit, SkipNext, VerdictInit,
     VerdictNext, CauseInit, CauseNext, PTL DEF Spec
<1>2. CauseInv => VerdictHasCause
  BY DEF CauseInv, CancelAsked, VerdictHasCause
<1> QED
  BY <1>1, <1>2, PTL

-----------------------------------------------------------------------------
(* Nothing is submitted after a stop. The argument: a run whose future has *)
(* been handled has ended, so its outcome is the one that was handled and  *)
(* set the flag, which is never cleared.                                   *)

StopInv ==
    (\E c \in Submitted \ futures : outcome[c] \in StoppingOutcomes)
        => stopAfterFailure

(* The initial states satisfy the stop invariant.                          *)
LEMMA StopInit == Init => StopInv
BY DEF Init, StopInv, Submitted

(* Every step keeps the stop invariant.                                    *)
LEMMA StopNext == TypeInv /\ DrainInv /\ StopInv /\ [Next]_vars => StopInv'
<1> SUFFICES ASSUME TypeInv, DrainInv, StopInv, [Next]_vars
             PROVE  StopInv'
  OBVIOUS
<1> USE DEF TypeInv, TypeOK, StopInv, Submitted, StoppingOutcomes, scheduler,
    flags, worker, control, clients
<1>1. CASE Scheduler
  <2>1. CASE CheckCancelledInDb
    BY <2>1 DEF CheckCancelledInDb, Leave
  <2>2. CASE CheckBeforeStart
    BY <2>2 DEF CheckBeforeStart, Leave
  <2>3. CASE PreflightFails
    BY <2>3 DEF PreflightFails, Leave
  <2>4. CASE PreflightPasses
    BY <2>4 DEF PreflightPasses
  <2>5. ASSUME NEW c \in Combos, Submit(c) PROVE StopInv'
    BY <2>5 DEF Submit
  <2>6. ASSUME NEW c \in Combos, SubmitSeesSignal(c) PROVE StopInv'
    BY <2>6 DEF SubmitSeesSignal
  <2>7. CASE FirstSubmitRaises
    BY <2>7 DEF FirstSubmitRaises, Leave
  <2>8. CASE SubmitNothing
    BY <2>8 DEF SubmitNothing
  <2>9. CASE HandleDone
    BY <2>9 DEF HandleDone, Ended
  <2>10. CASE AllHandled
    BY <2>10 DEF AllHandled
  <2>11. CASE Recheck
    BY <2>11 DEF Recheck
  <2>12. CASE Finalise
    BY <2>12 DEF Finalise, Leave
  <2>13. CASE FinaliseRaises
    BY <2>13 DEF FinaliseRaises, Leave
  <2>14. CASE Unregister
    BY <2>14 DEF Unregister
  <2>15. CASE StartRaises
    BY <2>15 DEF StartRaises, Leave
  <2> QED
    BY <1>1, <2>1, <2>2, <2>3, <2>4, <2>5, <2>6, <2>7, <2>8, <2>9, <2>10,
        <2>11,
       <2>12, <2>13, <2>14, <2>15 DEF Scheduler
<1>2. ASSUME NEW c \in Combos, Worker(c) PROVE StopInv'
  <2> USE DEF WorkerOnly, End, WorkerPoints, DrainInv, FuturesHeld
  <2>1. CASE Start(c)
    BY <2>1 DEF Start
  <2>2. CASE CheckControl(c)
    BY <2>2 DEF CheckControl
  <2>3. CASE EnterPhase(c)
    BY <2>3 DEF EnterPhase, WritePhase
  <2>4. CASE FinishPhase(c)
    BY <2>4 DEF FinishPhase
  <2>5. CASE Rerank(c)
    BY <2>5 DEF Rerank, WritePhase
  <2>6. CASE AnswerQuery(c)
    BY <2>6 DEF AnswerQuery
  <2>7. CASE Complete(c)
    BY <2>7 DEF Complete
  <2>8. CASE Raise(c)
    BY <2>8 DEF Raise
  <2>9. CASE Unwind(c)
    BY <2>9 DEF Unwind
  <2>10. CASE CheckWhileEmbedding(c)
    BY <2>10 DEF CheckWhileEmbedding
  <2> QED
    BY <1>2, <2>1, <2>2, <2>3, <2>4, <2>5, <2>6, <2>7, <2>8, <2>9, <2>10 DEF Worker
<1>3. CASE CancelHandler
  BY <1>3 DEF CancelHandler, CancelReads, CancelSignals, CancelMarks,
      RequestOnly
<1>4. CASE PauseHandler
  BY <1>4 DEF PauseHandler, PauseReads, PauseSignals, PauseMarks, RequestOnly
<1>5. CASE UNCHANGED vars
  BY <1>5 DEF vars
<1> QED
  BY <1>1, <1>2, <1>3, <1>4, <1>5 DEF Next

(* After a stopping outcome has been handled the scheduler's futures only  *)
(* get fewer.                                                              *)
THEOREM StopIsFinal == Spec => NothingSubmittedAfterStop
<1> DEFINE Step == (\E c \in Submitted \ futures : outcome[c] \in StoppingOutcomes)
                      => futures' \subseteq futures
<1>1. Spec => [](TypeInv /\ DrainInv /\ StopInv)
  BY TypeInit, TypeNext, DrainInit, DrainNext, StopInit, StopNext, PTL DEF Spec
<1>2. TypeInv /\ DrainInv /\ StopInv /\ [Next]_vars => [Step]_vars
  <2> SUFFICES ASSUME StopInv, Next, stopAfterFailure
               PROVE  futures' \subseteq futures
    BY DEF StopInv
  <2> USE DEF scheduler, flags, worker, control, clients
  <2>1. CASE Scheduler
    BY <2>1 DEF Scheduler, CheckCancelledInDb, CheckBeforeStart, PreflightFails,
                PreflightPasses, StartRaises, Submit, SubmitSeesSignal,
                FirstSubmitRaises, SubmitNothing, HandleDone, AllHandled,
                Recheck, Finalise, FinaliseRaises, Unregister, Leave
  <2>2. ASSUME NEW c \in Combos, Worker(c) PROVE UNCHANGED futures
    BY <2>2 DEF Worker, Start, CheckControl, EnterPhase, FinishPhase, Rerank,
                AnswerQuery, Complete, CheckWhileEmbedding, Raise, Unwind, WorkerOnly
  <2>3. ASSUME CancelHandler \/ PauseHandler PROVE UNCHANGED futures
    BY <2>3 DEF CancelHandler, CancelReads, CancelSignals, CancelMarks,
                PauseHandler, PauseReads, PauseSignals, PauseMarks, RequestOnly
  <2> QED
    BY <2>1, <2>2, <2>3 DEF Next
<1> QED
  BY <1>1, <1>2, PTL DEF Spec, NothingSubmittedAfterStop

-----------------------------------------------------------------------------
(* A resumed sweep runs the rest, if different combinations have different *)
(* signatures (GridSweepPaddings refutes it where they have not). The      *)
(* argument: a combination that has left the iterator has a worker, or had *)
(* a completed row, and the scheduler only comes to its verdict with       *)
(* combinations left in the iterator when it was stopped.                  *)

SignaturesDiffer ==
    \A c, d \in Combos : Signature[c] = Signature[d] => c = d

RestInv ==
    /\ pc = "prime" => Submitted \subseteq futures
    /\ pc = "wait" /\ futures = {} => stopAfterFailure \/ runIter = {}
    /\ pc = "finalise" => stopAfterFailure \/ runIter = {}
    /\ result \in {"complete", "partial"} \/ (result = "failed" /\ Submitted # {})
          => stopAfterFailure \/ runIter = {}
    /\ \A c \in Combos :
          \/ stopAfterFailure \/ c \in runIter
          \/ at[c] # "idle" \/ prior[c] = "complete"

(* The initial states satisfy the rest invariant.                          *)
LEMMA RestInit == Init => RestInv
BY DEF Init, RestInv, Submitted

(* Every step keeps the rest invariant.                                    *)
LEMMA RestNext ==
    ASSUME SignaturesDiffer
    PROVE  TypeInv /\ DrainInv /\ VerdictInv /\ RestInv /\ [Next]_vars => RestInv'
<1> SUFFICES ASSUME TypeInv, DrainInv, VerdictInv, RestInv, [Next]_vars
             PROVE  RestInv'
  OBVIOUS
<1> USE DEF TypeInv, TypeOK, RestInv, Submitted, VerdictInv, DrainInv, Early,
    Late, scheduler, flags, worker, control, clients
<1>1. CASE Scheduler
  <2>1. CASE CheckCancelledInDb
    BY <2>1 DEF CheckCancelledInDb, Leave
  <2>2. CASE CheckBeforeStart
    BY <2>2 DEF CheckBeforeStart, Leave
  <2>3. CASE PreflightFails
    BY <2>3 DEF PreflightFails, Leave, EarlyIdle
  <2>4. CASE PreflightPasses
    BY <2>4 DEF SignaturesDiffer, PreflightPasses, Skipped, EarlyIdle
  <2>5. ASSUME NEW c \in Combos, Submit(c) PROVE RestInv'
    BY <2>5 DEF Submit, MayCallSubmit, UntakenIdle
  <2>6. ASSUME NEW c \in Combos, SubmitSeesSignal(c) PROVE RestInv'
    BY <2>6 DEF SubmitSeesSignal, MayCallSubmit
  <2>7. CASE FirstSubmitRaises
    BY <2>7 DEF FirstSubmitRaises, Leave
  <2>8. CASE SubmitNothing
    <3>1. pc = "prime" /\ Cardinality(Submitted) >= MaxWorkers => Submitted #
        {}
      <4> HIDE DEF Submitted
      <4>1. Cardinality({}) = 0
        BY FS_EmptySet
      <4> QED
        BY <4>1, WorkersAssumption
    <3> QED
      BY <2>8, <3>1 DEF SubmitNothing
  <2>9. CASE HandleDone
    BY <2>9 DEF HandleDone
  <2>10. CASE AllHandled
    BY <2>10 DEF AllHandled
  <2>11. CASE Recheck
    BY <2>11 DEF Recheck
  <2>12. CASE Finalise
    BY <2>12 DEF Finalise, Leave
  <2>13. CASE FinaliseRaises
    BY <2>13 DEF FinaliseRaises, Leave
  <2>14. CASE Unregister
    BY <2>14 DEF Unregister
  <2>15. CASE StartRaises
    BY <2>15 DEF StartRaises, Leave
  <2> QED
    BY <1>1, <2>1, <2>2, <2>3, <2>4, <2>5, <2>6, <2>7, <2>8, <2>9, <2>10,
        <2>11,
       <2>12, <2>13, <2>14, <2>15 DEF Scheduler
<1>2. ASSUME NEW c \in Combos, Worker(c) PROVE RestInv'
  <2> USE DEF WorkerOnly, End, WorkerPoints, LateEnded, RowFollowsWorker,
      Active, LivePhases, WorkPhases, TerminalPhases
  <2>1. CASE Start(c)
    BY <2>1, NextPhaseType DEF Start
  <2>2. CASE CheckControl(c)
    BY <2>2 DEF CheckControl
  <2>3. CASE EnterPhase(c)
    BY <2>3 DEF EnterPhase, WritePhase
  <2>4. CASE FinishPhase(c)
    BY <2>4 DEF FinishPhase
  <2>5. CASE Rerank(c)
    BY <2>5 DEF Rerank, WritePhase
  <2>6. CASE AnswerQuery(c)
    BY <2>6 DEF AnswerQuery
  <2>7. CASE Complete(c)
    BY <2>7 DEF Complete
  <2>8. CASE Raise(c)
    BY <2>8 DEF Raise
  <2>9. CASE Unwind(c)
    BY <2>9 DEF Unwind
  <2>10. CASE CheckWhileEmbedding(c)
    BY <2>10 DEF CheckWhileEmbedding
  <2> QED
    BY <1>2, <2>1, <2>2, <2>3, <2>4, <2>5, <2>6, <2>7, <2>8, <2>9, <2>10 DEF Worker
<1>3. CASE CancelHandler
  BY <1>3 DEF CancelHandler, CancelReads, CancelSignals, CancelMarks,
      RequestOnly
<1>4. CASE PauseHandler
  BY <1>4 DEF PauseHandler, PauseReads, PauseSignals, PauseMarks, RequestOnly
<1>5. CASE UNCHANGED vars
  BY <1>5 DEF vars
<1> QED
  BY <1>1, <1>2, <1>3, <1>4, <1>5 DEF Next

(* A resumed sweep that nothing stopped has started a run for every        *)
(* combination without a completed row.                                    *)
THEOREM ResumeRunsAll ==
    ASSUME SignaturesDiffer
    PROVE  Spec => []ResumeRunsTheRest
<1>1. TypeInv /\ DrainInv /\ VerdictInv /\ RestInv /\ [Next]_vars => RestInv'
  BY RestNext
<1>2. Spec => [](TypeInv /\ DrainInv /\ VerdictInv /\ RestInv)
  BY <1>1, TypeInit, TypeNext, DrainInit, DrainNext, SkipInit, SkipNext,
     VerdictInit, VerdictNext, RestInit, PTL DEF Spec
<1>3. TypeInv /\ DrainInv /\ VerdictInv /\ RestInv => ResumeRunsTheRest
  BY DEF RestInv, ResumeRunsTheRest, Submitted
<1> QED
  BY <1>2, <1>3, PTL

-----------------------------------------------------------------------------
(* When the signatures of RunParameters tell the combinations of a         *)
(* configuration apart, as a resumed sweep needs.                          *)

(* At most one padding, and no two retrievers with the same deprecated     *)
(* fields: what the signature needs, since it has neither the padding nor  *)
(* the retriever in it.                                                    *)
Distinguishable(config) ==
    /\ \A p, q \in Paddings(config) : p = q
    /\ \A r, s \in Retrievers(config) :
          LegacyRetrievalFields(r) = LegacyRetrievalFields(s) => r = s

(* Under that condition a resumed sweep recognises exactly the completed   *)
(* combinations: no two have the same signature.                           *)
THEOREM SignaturesTellApart ==
    ASSUME NEW config, Distinguishable(config),
           NEW p \in ExpandSweep(config), NEW q \in ExpandSweep(config),
           ParamsSignature(p) = ParamsSignature(q)
    PROVE  p = q
<1>1. PICK m1 \in config.models, k1 \in config.methods,
           s1 \in config.chunk_sizes, o1 \in config.overlaps,
           p1 \in Paddings(config), r1 \in Retrievers(config) :
             p = RunParams(m1, k1, s1, o1, p1, r1)
  BY DEF ExpandSweep
<1>2. PICK m2 \in config.models, k2 \in config.methods,
           s2 \in config.chunk_sizes, o2 \in config.overlaps,
           p2 \in Paddings(config), r2 \in Retrievers(config) :
             q = RunParams(m2, k2, s2, o2, p2, r2)
  BY DEF ExpandSweep
<1>3. /\ m1 = m2 /\ k1 = k2 /\ s1 = s2 /\ o1 = o2
      /\ LegacyRetrievalFields(r1).method = LegacyRetrievalFields(r2).method
      /\ LegacyRetrievalFields(r1).provider = LegacyRetrievalFields(r2).provider
      /\ LegacyRetrievalFields(r1).model = LegacyRetrievalFields(r2).model
  BY <1>1, <1>2 DEF ParamsSignature, RunParams
<1>4. LegacyRetrievalFields(r1) = LegacyRetrievalFields(r2)
  BY <1>3 DEF LegacyRetrievalFields
<1>5. p1 = p2 /\ r1 = r2
  BY <1>4 DEF Distinguishable
<1> QED
  BY <1>1, <1>2, <1>3, <1>5
=============================================================================
