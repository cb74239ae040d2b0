---------------------- MODULE ExperimentLifecycleProofs ----------------------
(***************************************************************************)
(* The safety of one experiment's lifecycle, proved for any combinations,  *)
(* clients and operations and for any bounds on sweeps, requests, crashes  *)
(* and storage errors. The inductive part is the order of the executor: sweeps are    *)
(* scheduled in the order of their numbers and each begins when those      *)
(* before it are over (InOrder), a worker works for the sweep under way    *)
(* (WorkInv), and that sweep knows what the ones before it completed       *)
(* (SkipInv).                                                              *)
(***************************************************************************)
EXTENDS ExperimentLifecycle, TLAPS

Begun == {"begun", "running", "leaving"}

Working == {"started", "stored"}

Requests ==
    [op : Operations \cup {"idle"},
     at : {"idle", "read", "signalled", "unsignalled", "marked", "unchunked",
           "emptied", "decide", "fresh", "write"},
     saw : ExperimentStatus \cup {"none"},
     resolved : ExperimentStatus \cup {"none", "empty"}]

(* A GET only writes a status that it has derived.                         *)
TypeInv ==
    /\ TypeOK
    /\ \A k \in Clients : client[k].at = "write" => client[k].resolved \in ExperimentStatus

InOrder ==
    \A s, t \in Sweeps : t < s =>
        /\ sweep[s] # "none" => sweep[t] # "none"
        /\ sweep[s] \in Begun \cup {"over"} => sweep[t] = "over"

WorkInv ==
    \A s \in Sweeps, c \in Combos :
        /\ work[<<s, c>>] \in Working => sweep[s] = "running"
        /\ sweep[s] \in {"none", "queued", "begun"} => work[<<s, c>>] = "none"
        /\ work[<<s, c>>] = "none" => row[<<s, c>>] = "absent"
        /\ work[<<s, c>>] # "none" => c \notin skip[s]

SkipInv ==
    \A s \in Sweeps \ full, t \in Sweeps, c \in Combos :
        sweep[s] \in Begun /\ t < s /\ row[<<t, c>>] = "complete" => c \in skip[s]

OrderInv == InOrder /\ WorkInv /\ SkipInv /\ ResumeRepeatsNothing

-----------------------------------------------------------------------------
(* Types.                                                                  *)
LEMMA TypeInit == Init => TypeInv
<1> SUFFICES ASSUME Init PROVE TypeInv  OBVIOUS
<1>1. MaxSweeps \in Nat \ {0}  BY BoundsAssumption
<1>2. {1} \subseteq Sweeps  BY <1>1 DEF Sweeps
<1>3. requests \in 0 .. MaxRequests /\ crashes \in 0 .. MaxCrashes /\ faults \in 0 .. MaxFaults
  BY BoundsAssumption DEF Init
<1> QED
  BY <1>2, <1>3, CreatingAssumption
  DEF Init, TypeInv, TypeOK, Idle, Fresh, ExperimentStatus, RowPhases, TerminalPhases

(* What the derivations of a status return.                                *)
LEMMA VerdictsAreStatuses ==
    /\ \A s \in Sweeps : Verdict(s) \in ExperimentStatus
    /\ \A a, b, c, d : DeriveExperimentStatus(a, b, c, d) \in ExperimentStatus
    /\ Resolved \in ExperimentStatus \cup {"none", "empty"}
BY DEF Verdict, ComputeFinalStatus, DeriveExperimentStatus, NormalizeStaleStatus, Resolved,
       ExperimentStatus

LEMMA ScheduleTypes ==
    ASSUME TypeOK, NEW fn, Schedule(fn)
    PROVE  /\ control' \subseteq {"registered", "cancel", "pause"}
           /\ sweep' \in [Sweeps -> {"none", "queued", "begun", "running", "leaving", "over"}]
           /\ full' \subseteq Sweeps
           /\ skip' = skip /\ seen' = seen /\ work' = work
<1>1. PICK s \in Sweeps : /\ sweep' = [sweep EXCEPT ![s] = "queued"]
                          /\ full' \subseteq full \cup {s}
  BY DEF Schedule, Unscheduled
<1> QED  BY <1>1 DEF Schedule, TypeOK, Fresh

(* The count of errors keeps its type over a step that raises or does not. *)
LEMMA RaisesTypes ==
    ASSUME faults \in 0 .. MaxFaults, Raises \/ UNCHANGED faults
    PROVE  faults' \in 0 .. MaxFaults
BY BoundsAssumption DEF Raises

(* A handler's step moves the request it serves or answers it.             *)
LEMMA MoveTypes ==
    ASSUME TypeInv, NEW k \in Clients, NEW where,
           \/ Move(k, where) /\ where \in {"signalled", "unsignalled", "marked", "unchunked",
                                            "emptied", "decide", "fresh"}
           \/ Answer(k)
    PROVE  /\ client' \in [Clients -> Requests]
           /\ \A j \in Clients : client'[j].at = "write" =>
                                    client'[j].resolved \in ExperimentStatus
BY DEF TypeInv, TypeOK, Move, Answer, Idle, Requests

(* The sweep thread.                                                       *)
LEMMA SweepThreadTypes ==
    ASSUME TypeInv, NEW s \in Sweeps, SweepThread(s)
    PROVE  TypeInv'
<1> USE DEF TypeInv, TypeOK, SweepOnly, SweepFrame, GivesUp, bounds, errors
<1>1. CASE Begin(s)  BY <1>1 DEF Begin, Fresh, database
<1>2. CASE ResumeRaises(s)  BY <1>2, RaisesTypes DEF ResumeRaises, database
<1>3. CASE TurnedAway(s)  BY <1>3 DEF TurnedAway, database
<1>4. CASE PreflightRaises(s)  BY <1>4, RaisesTypes DEF PreflightRaises, database
<1>5. CASE CheckBeforeRuns(s)  BY <1>5 DEF CheckBeforeRuns, ExperimentStatus
<1>6. CASE FirstSubmitRaises(s)  BY <1>6, RaisesTypes DEF FirstSubmitRaises, database
<1>7. CASE SchedulerSeesSignal(s)  BY <1>7 DEF SchedulerSeesSignal, Signal, database
<1>8. CASE Conclude(s)  BY <1>8, VerdictsAreStatuses DEF Conclude
<1>9. CASE ConcludeRaises(s)  BY <1>9, RaisesTypes DEF ConcludeRaises, database
<1>10. CASE Leave(s)  BY <1>10 DEF Leave, database
<1> QED
  BY <1>1, <1>2, <1>3, <1>4, <1>5, <1>6, <1>7, <1>8, <1>9, <1>10 DEF SweepThread

(* The workers.                                                            *)
LEMMA RunThreadTypes ==
    ASSUME TypeInv, NEW s \in Sweeps, NEW c \in Combos, RunThread(s, c)
    PROVE  TypeInv'
<1> USE DEF TypeInv, TypeOK, SweepOnly, SweepFrame, bounds, errors
<1>1. <<s, c>> \in Runs  BY DEF Runs
<1>2. CASE StartRun(s, c)  BY <1>1, <1>2 DEF StartRun, RowPhases
<1>3. CASE StoreChunks(s, c)  BY <1>1, <1>3 DEF StoreChunks
<1>4. CASE CompleteRun(s, c)
  BY <1>1, <1>4 DEF CompleteRun, EndRun, RowPhases, TerminalPhases
<1>5. CASE FailRun(s, c)
  BY <1>1, <1>5 DEF FailRun, EndRun, NoticesFailure, RowPhases, TerminalPhases
<1>6. CASE InterruptRun(s, c)
  BY <1>1, <1>6 DEF InterruptRun, EndRun, Signal, RowPhases, TerminalPhases
<1>7. CASE InsertRaises(s, c)
  BY <1>1, <1>7, RaisesTypes DEF InsertRaises, NoticesFailure, database
<1>8. CASE LoseRun(s, c)
  BY <1>1, <1>8, RaisesTypes DEF LoseRun, NoticesFailure, database
<1> QED  BY <1>2, <1>3, <1>4, <1>5, <1>6, <1>7, <1>8 DEF RunThread

LEMMA HandlerTypes ==
    ASSUME TypeInv, NEW k \in Clients, Handle(k)
    PROVE  TypeInv'
<1> USE DEF TypeInv, TypeOK, HandlerOnly, memory, bounds, errors, Requests
<1>1. ASSUME CancelSignals(k)  PROVE TypeInv'
  BY <1>1, MoveTypes DEF CancelSignals, database
<1>2. ASSUME CancelMarks(k)  PROVE TypeInv'
  BY <1>2, MoveTypes DEF CancelMarks, ExperimentStatus
<1>3. ASSUME PauseSignals(k)  PROVE TypeInv'
  BY <1>3, MoveTypes DEF PauseSignals, database
<1>4. ASSUME PauseMarks(k)  PROVE TypeInv'
  BY <1>4, MoveTypes DEF PauseMarks, ExperimentStatus
<1>5. ASSUME ResumeMarks(k)  PROVE TypeInv'
  BY <1>5, MoveTypes DEF ResumeMarks, ExperimentStatus
<1>6. ASSUME ResumeSchedules(k)  PROVE TypeInv'
  BY <1>6, MoveTypes, ScheduleTypes DEF ResumeSchedules, database
<1>7. ASSUME DeleteChunks(k)  PROVE TypeInv'
  BY <1>7, MoveTypes DEF DeleteChunks
<1>8. ASSUME DeleteRows(k)  PROVE TypeInv'
  BY <1>8, MoveTypes DEF DeleteRows, RowPhases
<1>9. ASSUME DeleteExperiment(k)  PROVE TypeInv'
  BY <1>9, MoveTypes DEF DeleteExperiment, RowPhases
<1>10. ASSUME DetailReadsRuns(k)  PROVE TypeInv'
  <2>1. /\ client' \in [Clients -> Requests]
        /\ \A j \in Clients : j # k => client'[j] = client[j]
        /\ client'[k].at = "decide"
    <3> DEFINE moved == [client EXCEPT ![k].at = "decide"]
    <3>1. moved \in [Clients -> Requests]
      BY DEF Requests
    <3>2. Resolved \in ExperimentStatus \cup {"none", "empty"}
      BY VerdictsAreStatuses
    <3>3. client' = [moved EXCEPT ![k].resolved = Resolved]
      BY <1>10 DEF DetailReadsRuns
    <3>4. client' = [moved EXCEPT ![k] = [moved[k] EXCEPT !.resolved = Resolved]]
      BY <3>3
    <3>5. moved[k] \in Requests /\ moved[k].at = "decide"
      BY <3>1 DEF Requests
    <3>6. \A j \in Clients : j # k => moved[j] = client[j]
      OBVIOUS
    <3> HIDE DEF moved
    <3>7. /\ [moved[k] EXCEPT !.resolved = Resolved] \in Requests
          /\ [moved[k] EXCEPT !.resolved = Resolved].at = "decide"
      BY <3>2, <3>5 DEF Requests
    <3> QED  BY <3>1, <3>4, <3>6, <3>7
  <2>2. UNCHANGED <<database, memory, server, creating, bounds, errors>>
    BY <1>10 DEF DetailReadsRuns
  <2> QED  BY <2>1, <2>2 DEF database, Requests
<1>11. ASSUME NormalizeDecides(k)  PROVE TypeInv'
  <2>1. CASE client' = client \/ Answer(k) \/ Move(k, "fresh")
    BY <1>11, <2>1, MoveTypes DEF NormalizeDecides, database
  <2>2. CASE Move(k, "write") /\ client[k].resolved \in ExperimentStatus
    BY <1>11, <2>2 DEF NormalizeDecides, database, Move
  <2> QED  BY <1>11, <2>1, <2>2 DEF NormalizeDecides, At
<1>12. ASSUME NormalizeReadsRuns(k)  PROVE TypeInv'
  <2>1. CASE Answer(k)
    BY <1>12, <2>1, MoveTypes DEF NormalizeReadsRuns, database
  <2>2. CASE ~Answer(k)
    BY <1>12, <2>2, VerdictsAreStatuses DEF NormalizeReadsRuns, database
  <2> QED  BY <2>1, <2>2
<1>13. ASSUME NormalizeWrites(k)  PROVE TypeInv'
  BY <1>13, MoveTypes DEF NormalizeWrites, At
<1>14. ASSUME HandlerRaises(k)  PROVE TypeInv'
  BY <1>14, MoveTypes, RaisesTypes DEF HandlerRaises, database
<1> QED
  BY <1>1, <1>2, <1>3, <1>4, <1>5, <1>6, <1>7, <1>8, <1>9, <1>10, <1>11, <1>12, <1>13,
     <1>14
  DEF Handle

LEMMA TypeNext == TypeInv /\ [Next]_vars => TypeInv'
<1> SUFFICES ASSUME TypeInv, [Next]_vars PROVE TypeInv'  OBVIOUS
<1> USE DEF TypeInv, TypeOK
<1>1. CASE CreateSchedules
  BY <1>1, ScheduleTypes DEF CreateSchedules, database, bounds, errors
<1>2. CASE \E s \in Sweeps : SweepThread(s)
  BY <1>2, SweepThreadTypes
<1>3. CASE \E s \in Sweeps, c \in Combos : RunThread(s, c)
  BY <1>3, RunThreadTypes
<1>4. CASE \E k \in Clients : Handle(k)
  BY <1>4, HandlerTypes
<1>5. ASSUME NEW k \in Clients, NEW op \in Operations, Read(k, op)  PROVE TypeInv'
  <2>1. [op |-> op, at |-> "read", saw |-> status, resolved |-> "none"] \in Requests
    BY DEF Requests
  <2>2. /\ client' \in [Clients -> Requests]
        /\ \A j \in Clients : j # k => client'[j] = client[j]
        /\ client'[k].at = "read"
    BY <1>5, <2>1 DEF Read, Requests
  <2>3. requests' \in 0 .. MaxRequests
    BY <1>5, BoundsAssumption DEF Read
  <2>4. UNCHANGED <<database, server, creating, memory, crashes, errors>>
    BY <1>5 DEF Read
  <2> QED  BY <2>2, <2>3, <2>4 DEF database, memory, errors, Requests
<1>6. CASE Crash
  <2>1. crashes' \in 0 .. MaxCrashes
    BY <1>6, BoundsAssumption DEF Crash
  <2>2. /\ client' \in [Clients -> Requests]
        /\ \A k \in Clients : client'[k].at # "write"
    BY <1>6 DEF Crash, Idle, Requests
  <2>3. /\ sweep' \in [Sweeps -> {"none", "queued", "begun", "running", "leaving", "over"}]
        /\ work' \in [Runs -> {"none", "started", "stored", "ended"}]
    BY <1>6 DEF Crash
  <2> QED  BY <1>6, <2>1, <2>2, <2>3 DEF Crash, database, Requests
<1>7. CASE BootMarksRuns
  BY <1>7 DEF BootMarksRuns, memory, bounds, errors, RowPhases, TerminalPhases
<1>8. CASE BootDerivesStatus
  BY <1>8, VerdictsAreStatuses DEF BootDerivesStatus, memory, bounds, errors
<1>9. CASE BootRaises
  BY <1>9, RaisesTypes DEF BootRaises, memory, bounds, RowPhases, TerminalPhases
<1>10. CASE UNCHANGED vars
  BY <1>10 DEF vars, database, memory, bounds, errors
<1> QED
  BY <1>1, <1>2, <1>3, <1>4, <1>5, <1>6, <1>7, <1>8, <1>9, <1>10 DEF Next

(* Every variable keeps its type: no interleaving of handlers, sweeps,     *)
(* crashes and boots writes a status that the derivations do not know.     *)
THEOREM LifecycleTypes == Spec => []TypeOK
<1>1. TypeInv => TypeOK  BY DEF TypeInv
<1> QED  BY TypeInit, TypeNext, <1>1, PTL DEF Spec

THEOREM TypesHold == Spec => []TypeInv
BY TypeInit, TypeNext, PTL DEF Spec

-----------------------------------------------------------------------------
(* Rows of a deleted experiment.                                           *)
RowsInv == ~exists => \A r \in Runs : row[r] = "absent"

(* A worker makes a row only for an experiment that is there.              *)
LEMMA RowsRunThread ==
    ASSUME TypeInv, RowsInv, NEW s \in Sweeps, NEW c \in Combos, RunThread(s, c)
    PROVE  RowsInv'
<1> USE DEF TypeInv, TypeOK, RowsInv
<1>1. <<s, c>> \in Runs  BY DEF Runs
<1>2. CASE StartRun(s, c)  BY <1>2 DEF StartRun
<1>3. CASE StoreChunks(s, c)  BY <1>3 DEF StoreChunks
<1>4. ASSUME NEW phase, EndRun(s, c, phase)  PROVE RowsInv'
  BY <1>1, <1>4 DEF EndRun
<1>5. CASE CompleteRun(s, c)  BY <1>4, <1>5 DEF CompleteRun
<1>6. CASE FailRun(s, c)  BY <1>4, <1>6 DEF FailRun
<1>7. CASE InterruptRun(s, c)  BY <1>4, <1>7 DEF InterruptRun
<1>8. CASE InsertRaises(s, c) \/ LoseRun(s, c)
  BY <1>8 DEF InsertRaises, LoseRun, database
<1> QED  BY <1>2, <1>3, <1>5, <1>6, <1>7, <1>8 DEF RunThread

LEMMA RowsHandler ==
    ASSUME RowsInv, NEW k \in Clients, Handle(k)
    PROVE  RowsInv'
<1> USE DEF RowsInv
<1>1. CASE DeleteRows(k)  BY <1>1 DEF DeleteRows
<1>2. CASE DeleteExperiment(k)  BY <1>2 DEF DeleteExperiment
<1>3. CASE ~DeleteRows(k) /\ ~DeleteExperiment(k)
  BY <1>3
  DEF Handle, CancelSignals, CancelMarks, PauseSignals, PauseMarks, ResumeMarks,
      ResumeSchedules, DeleteChunks, DetailReadsRuns, NormalizeDecides,
      NormalizeReadsRuns, NormalizeWrites, HandlerRaises, database
<1> QED  BY <1>1, <1>2, <1>3

LEMMA RowsNext == TypeInv /\ RowsInv /\ [Next]_vars => RowsInv'
<1> SUFFICES ASSUME TypeInv, RowsInv, [Next]_vars PROVE RowsInv'  OBVIOUS
<1>0. ASSUME UNCHANGED <<exists, row>>  PROVE RowsInv'
  BY <1>0 DEF RowsInv
<1>1. CASE CreateSchedules
  BY <1>0, <1>1 DEF CreateSchedules, database
<1>2. ASSUME NEW s \in Sweeps, SweepThread(s)  PROVE RowsInv'
  BY <1>0, <1>2
  DEF SweepThread, Begin, ResumeRaises, TurnedAway, PreflightRaises, CheckBeforeRuns,
      FirstSubmitRaises, SchedulerSeesSignal, Conclude, ConcludeRaises, Leave, database
<1>3. ASSUME NEW k \in Clients, NEW op \in Operations, Read(k, op)  PROVE RowsInv'
  BY <1>0, <1>3 DEF Read, database
<1>4. CASE \E s \in Sweeps, c \in Combos : RunThread(s, c)  BY <1>4, RowsRunThread
<1>5. CASE \E k \in Clients : Handle(k)  BY <1>5, RowsHandler
<1>6. CASE Crash
  BY <1>0, <1>6 DEF Crash, database
<1>7. CASE BootMarksRuns
  BY <1>7 DEF BootMarksRuns, RowsInv
<1>8. CASE BootDerivesStatus
  BY <1>0, <1>8 DEF BootDerivesStatus
<1>9. CASE BootRaises
  BY <1>9 DEF BootRaises, RowsInv
<1>10. CASE UNCHANGED vars
  BY <1>0, <1>10 DEF vars, database
<1> QED  BY <1>1, <1>2, <1>3, <1>4, <1>5, <1>6, <1>7, <1>8, <1>9, <1>10 DEF Next

(* No order of a delete's four steps and a draining worker's inserts       *)
(* leaves a run row of the deleted experiment.                             *)
THEOREM DeleteLeavesNothing == Spec => []DeleteLeavesNoRows
<1>1. Init => RowsInv  BY DEF Init, RowsInv
<1>2. RowsInv => DeleteLeavesNoRows
  BY DEF RowsInv, DeleteLeavesNoRows, RowsIn, Phases, LivePhases, WorkPhases, TerminalPhases
<1> QED  BY <1>1, <1>2, TypesHold, RowsNext, PTL DEF Spec

-----------------------------------------------------------------------------
(* The order of the executor, and what a resumed sweep leaves out.         *)

LEMMA SweepsAreOrdered ==
    /\ \A s \in Sweeps : ~(s < s)
    /\ \A s, t \in Sweeps : s < t \/ s = t \/ t < s
    /\ \A s, t \in Sweeps : s <= t => ~(t < s)
    /\ \A s, t \in Sweeps : s < t => ~(t < s)
BY BoundsAssumption DEF Sweeps

(* What a sweep under way may assume of the sweeps around it.              *)
LEMMA OneUnderWay ==
    ASSUME TypeInv, OrderInv, NEW s \in Sweeps, sweep[s] \in Begun \cup {"queued"}
    PROVE  \A t \in Sweeps : s < t => /\ sweep[t] \in {"none", "queued"}
                                      /\ \A c \in Combos : row[<<t, c>>] = "absent"
<1> SUFFICES ASSUME NEW t \in Sweeps, s < t
             PROVE  /\ sweep[t] \in {"none", "queued"}
                    /\ \A c \in Combos : row[<<t, c>>] = "absent"
  OBVIOUS
<1>1. sweep[t] \in {"none", "queued"}
  BY DEF OrderInv, InOrder, Begun, TypeInv, TypeOK
<1> QED  BY <1>1 DEF OrderInv, WorkInv

(* Handlers and the boot: no thread moves, and rows are only taken away or *)
(* interrupted.                                                            *)
LEMMA OrderOthers ==
    ASSUME OrderInv, UNCHANGED <<sweep, work, skip, full>>,
           \A r \in Runs : /\ row[r] = "absent" => row'[r] = "absent"
                           /\ row'[r] = "complete" => row[r] = "complete"
    PROVE  OrderInv'
<1>1. \A s \in Sweeps, c \in Combos : <<s, c>> \in Runs  BY DEF Runs
<1>2. InOrder'
  <2> SUFFICES ASSUME NEW s \in Sweeps, NEW t \in Sweeps, t < s
               PROVE  /\ sweep[s] # "none" => sweep[t] # "none"
                      /\ sweep[s] \in Begun \cup {"over"} => sweep[t] = "over"
    BY DEF InOrder, Begun
  <2> QED  BY DEF OrderInv, InOrder
<1>3. WorkInv'
  <2> SUFFICES ASSUME NEW s \in Sweeps, NEW c \in Combos
               PROVE  /\ work[<<s, c>>] \in Working => sweep[s] = "running"
                      /\ sweep[s] \in {"none", "queued", "begun"} => work[<<s, c>>] = "none"
                      /\ work[<<s, c>>] = "none" => row'[<<s, c>>] = "absent"
                      /\ work[<<s, c>>] # "none" => c \notin skip[s]
    BY DEF WorkInv
  <2> QED  BY <1>1 DEF OrderInv, WorkInv
<1>4. SkipInv'
  <2> SUFFICES ASSUME NEW s \in Sweeps \ full, NEW t \in Sweeps, NEW c \in Combos,
                      sweep[s] \in Begun, t < s, row'[<<t, c>>] = "complete"
               PROVE  c \in skip[s]
    BY DEF SkipInv
  <2>1. row[<<t, c>>] = "complete"  BY <1>1
  <2> QED  BY <2>1 DEF OrderInv, SkipInv
<1>5. ResumeRepeatsNothing'
  BY <1>1 DEF OrderInv, ResumeRepeatsNothing
<1> QED  BY <1>2, <1>3, <1>4, <1>5 DEF OrderInv

LEMMA OrderSchedule ==
    ASSUME TypeInv, OrderInv, NEW fn, Schedule(fn), row' = row
    PROVE  OrderInv'
<1>1. PICK s \in Sweeps : /\ sweep[s] = "none"
                          /\ \A t \in Sweeps : sweep[t] = "none" => s <= t
                          /\ sweep' = [sweep EXCEPT ![s] = "queued"]
                          /\ full \subseteq full'
  BY DEF Schedule, Unscheduled
<1>2. UNCHANGED <<skip, work>>  BY DEF Schedule
<1>3. \A t \in Sweeps : sweep'[t] = IF t = s THEN "queued" ELSE sweep[t]
  BY <1>1 DEF TypeInv, TypeOK
<1>4. InOrder'
  BY <1>1, <1>3, SweepsAreOrdered DEF OrderInv, InOrder, Begun
<1>5. WorkInv'
  <2> SUFFICES ASSUME NEW t \in Sweeps, NEW d \in Combos
               PROVE  /\ work[<<t, d>>] \in Working => sweep'[t] = "running"
                      /\ sweep'[t] \in {"none", "queued", "begun"} => work[<<t, d>>] = "none"
                      /\ work[<<t, d>>] = "none" => row[<<t, d>>] = "absent"
                      /\ work[<<t, d>>] # "none" => d \notin skip[t]
    BY <1>2 DEF WorkInv
  <2> QED  BY <1>1, <1>3 DEF OrderInv, WorkInv, Working
<1>6. SkipInv'
  BY <1>1, <1>2, <1>3 DEF OrderInv, SkipInv, Begun
<1>7. ResumeRepeatsNothing'
  BY <1>1 DEF OrderInv, ResumeRepeatsNothing
<1> QED  BY <1>4, <1>5, <1>6, <1>7 DEF OrderInv

(* The steps of the sweep thread that only move it on.                     *)
LEMMA OrderMove ==
    ASSUME TypeInv, OrderInv, NEW s \in Sweeps, NEW to,
           sweep' = [sweep EXCEPT ![s] = to],
           UNCHANGED <<work, skip, full, row>>,
           \/ sweep[s] = "begun" /\ to \in {"running", "leaving"}
           \/ /\ sweep[s] = "running" /\ to = "leaving"
              /\ \A c \in Combos : work[<<s, c>>] \notin Working
           \/ sweep[s] = "leaving" /\ to = "over"
           \/ sweep[s] = "queued" /\ to = "over" /\ ItsTurn(s)
    PROVE  OrderInv'
<1>1. \A t \in Sweeps : sweep'[t] = IF t = s THEN to ELSE sweep[t]
  BY DEF TypeInv, TypeOK
<1>2. InOrder'
  <2>1. \A t \in Sweeps : t < s => sweep[t] = "over"
    BY DEF OrderInv, InOrder, Begun, ItsTurn
  <2>2. \A t \in Sweeps : s < t => sweep[t] \in {"none", "queued"}
    BY OneUnderWay DEF Begun
  <2>3. to # "none" /\ sweep[s] # "none"  OBVIOUS
  <2> QED  BY <1>1, <2>1, <2>2, <2>3, SweepsAreOrdered DEF OrderInv, InOrder, Begun
<1>3. WorkInv'
  <2> SUFFICES ASSUME NEW t \in Sweeps, NEW d \in Combos
               PROVE  /\ work[<<t, d>>] \in Working => sweep'[t] = "running"
                      /\ sweep'[t] \in {"none", "queued", "begun"} => work[<<t, d>>] = "none"
                      /\ work[<<t, d>>] = "none" => row[<<t, d>>] = "absent"
                      /\ work[<<t, d>>] # "none" => d \notin skip[t]
    BY DEF WorkInv
  <2>1. CASE t = s  BY <2>1, <1>1 DEF OrderInv, WorkInv, Working
  <2>2. CASE t # s  BY <2>2, <1>1 DEF OrderInv, WorkInv, Working
  <2> QED  BY <2>1, <2>2
<1>4. SkipInv'
  BY <1>1 DEF OrderInv, SkipInv, Begun
<1>5. ResumeRepeatsNothing'
  BY DEF OrderInv, ResumeRepeatsNothing
<1> QED  BY <1>2, <1>3, <1>4, <1>5 DEF OrderInv

LEMMA OrderBegin ==
    ASSUME TypeInv, OrderInv, NEW s \in Sweeps, Begin(s)
    PROVE  OrderInv'
<1>1. /\ sweep[s] = "queued"
      /\ \A t \in Sweeps : t < s => sweep[t] = "over"
      /\ sweep' = [sweep EXCEPT ![s] = "begun"]
      /\ UNCHANGED <<row, work, full>>
  BY DEF Begin, ItsTurn, database, SweepFrame
<1>2. \A t \in Sweeps : sweep'[t] = IF t = s THEN "begun" ELSE sweep[t]
  BY <1>1 DEF TypeInv, TypeOK
<1>3. \A t \in Sweeps : s < t => sweep[t] \in {"none", "queued"}
  BY <1>1, OneUnderWay
<1>4. \A t \in Sweeps : t # s => skip'[t] = skip[t]
  BY DEF Begin, TypeInv, TypeOK
<1>5. s \notin full => skip'[s] = {c \in Combos : \E t \in Sweeps : row[<<t, c>>] = "complete"}
  BY DEF Begin, TypeInv, TypeOK
<1>6. InOrder'
  BY <1>1, <1>2, <1>3, SweepsAreOrdered DEF OrderInv, InOrder, Begun
<1>7. \A c \in Combos : work[<<s, c>>] = "none"
  BY <1>1 DEF OrderInv, WorkInv
<1>8. WorkInv'
  <2> SUFFICES ASSUME NEW t \in Sweeps, NEW d \in Combos
               PROVE  /\ work[<<t, d>>] \in Working => sweep'[t] = "running"
                      /\ sweep'[t] \in {"none", "queued", "begun"} => work[<<t, d>>] = "none"
                      /\ work[<<t, d>>] = "none" => row[<<t, d>>] = "absent"
                      /\ work[<<t, d>>] # "none" => d \notin skip'[t]
    BY <1>1 DEF WorkInv
  <2>1. CASE t = s  BY <2>1, <1>2, <1>7 DEF OrderInv, WorkInv, Working
  <2>2. CASE t # s  BY <2>2, <1>2, <1>4 DEF OrderInv, WorkInv, Working
  <2> QED  BY <2>1, <2>2
<1>9. SkipInv'
  <2> SUFFICES ASSUME NEW u \in Sweeps \ full, NEW t \in Sweeps, NEW c \in Combos,
                      sweep'[u] \in Begun, t < u, row[<<t, c>>] = "complete"
               PROVE  c \in skip'[u]
    BY <1>1 DEF SkipInv
  <2>1. CASE u = s  BY <2>1, <1>5
  <2>2. CASE u # s  BY <2>2, <1>2, <1>4 DEF OrderInv, SkipInv
  <2> QED  BY <2>1, <2>2
<1>10. ResumeRepeatsNothing'
  BY <1>1 DEF OrderInv, ResumeRepeatsNothing
<1> QED  BY <1>6, <1>8, <1>9, <1>10 DEF OrderInv

LEMMA OrderSweepThread ==
    ASSUME TypeInv, OrderInv, NEW s \in Sweeps, SweepThread(s)
    PROVE  OrderInv'
<1> USE DEF SweepOnly, SweepFrame, GivesUp, database
<1>1. CASE Begin(s)  BY <1>1, OrderBegin
<1>2. CASE ResumeRaises(s)  BY <1>2, OrderMove DEF ResumeRaises
<1>3. CASE TurnedAway(s)  BY <1>3, OrderMove DEF TurnedAway
<1>4. CASE PreflightRaises(s)  BY <1>4, OrderMove DEF PreflightRaises
<1>5. CASE CheckBeforeRuns(s)  BY <1>5, OrderMove DEF CheckBeforeRuns
<1>6. CASE FirstSubmitRaises(s)  BY <1>6, OrderMove DEF FirstSubmitRaises, Working
<1>7. CASE SchedulerSeesSignal(s)  BY <1>7, OrderOthers DEF SchedulerSeesSignal
<1>8. CASE Conclude(s)  BY <1>8, OrderMove DEF Conclude, RunsAreOver, Working
<1>9. CASE ConcludeRaises(s)  BY <1>9, OrderMove DEF ConcludeRaises, RunsAreOver, Working
<1>10. CASE Leave(s)  BY <1>10, OrderMove DEF Leave
<1> QED
  BY <1>1, <1>2, <1>3, <1>4, <1>5, <1>6, <1>7, <1>8, <1>9, <1>10 DEF SweepThread

(* A worker's step changes one run of the sweep that is running: its row   *)
(* may become complete, and no sweep after it has a row yet.               *)
LEMMA OrderWork ==
    ASSUME TypeInv, OrderInv, NEW s \in Sweeps, NEW c \in Combos, NEW to, NEW phase,
           sweep[s] = "running", c \notin skip[s], to # "none",
           work' = [work EXCEPT ![<<s, c>>] = to],
           row' = row \/ row' = [row EXCEPT ![<<s, c>>] = phase],
           UNCHANGED <<sweep, skip, full>>
    PROVE  OrderInv'
<1> DEFINE mine == <<s, c>>
<1>1. mine \in Runs /\ \A t \in Sweeps, d \in Combos : <<t, d>> \in Runs
  BY DEF Runs
<1>2. \A r \in Runs : r # mine => work'[r] = work[r] /\ row'[r] = row[r]
  BY <1>1 DEF TypeInv, TypeOK
<1>3. work'[mine] = to
  BY <1>1 DEF TypeInv, TypeOK
<1>4. \A t \in Sweeps, d \in Combos : <<t, d>> = mine <=> t = s /\ d = c
  OBVIOUS
<1> HIDE DEF mine
<1>5. InOrder'  BY DEF OrderInv, InOrder
<1>6. WorkInv'
  <2> SUFFICES ASSUME NEW t \in Sweeps, NEW d \in Combos
               PROVE  /\ work'[<<t, d>>] \in Working => sweep[t] = "running"
                      /\ sweep[t] \in {"none", "queued", "begun"} => work'[<<t, d>>] = "none"
                      /\ work'[<<t, d>>] = "none" => row'[<<t, d>>] = "absent"
                      /\ work'[<<t, d>>] # "none" => d \notin skip[t]
    BY DEF WorkInv
  <2>1. CASE <<t, d>> = mine  BY <2>1, <1>3, <1>4
  <2>2. CASE <<t, d>> # mine  BY <2>2, <1>1, <1>2 DEF OrderInv, WorkInv
  <2> QED  BY <2>1, <2>2
<1>7. \A t \in Sweeps : s < t => /\ sweep[t] \in {"none", "queued"}
                                 /\ \A d \in Combos : row[<<t, d>>] = "absent"
  BY OneUnderWay DEF Begun
<1>8. SkipInv'
  <2> SUFFICES ASSUME NEW u \in Sweeps \ full, NEW t \in Sweeps, NEW d \in Combos,
                      sweep[u] \in Begun, t < u, row'[<<t, d>>] = "complete"
               PROVE  d \in skip[u]
    BY DEF SkipInv
  <2>1. <<t, d>> # mine  BY <1>4, <1>7 DEF Begun
  <2> QED  BY <2>1, <1>1, <1>2 DEF OrderInv, SkipInv
<1>9. ResumeRepeatsNothing'
  <2> SUFFICES ASSUME NEW d \in Combos, NEW u \in Sweeps \ full, NEW t \in Sweeps, t < u,
                      row'[<<u, d>>] = "complete", row'[<<t, d>>] = "complete"
               PROVE  FALSE
    BY DEF ResumeRepeatsNothing
  <2>1. CASE <<u, d>> = mine
    <3>1. <<t, d>> # mine  BY <2>1, <1>4, SweepsAreOrdered
    <3>2. row[<<t, d>>] = "complete"  BY <3>1, <1>1, <1>2
    <3> QED  BY <2>1, <3>2, <1>4 DEF OrderInv, SkipInv, Begun
  <2>2. CASE <<t, d>> = mine
    <3>1. <<u, d>> # mine  BY <2>2, <1>4, SweepsAreOrdered
    <3> QED  BY <2>2, <3>1, <1>1, <1>2, <1>4, <1>7
  <2>3. CASE <<u, d>> # mine /\ <<t, d>> # mine
    BY <2>3, <1>1, <1>2 DEF OrderInv, ResumeRepeatsNothing
  <2> QED  BY <2>1, <2>2, <2>3
<1> QED  BY <1>5, <1>6, <1>8, <1>9 DEF OrderInv

LEMMA OrderRunThread ==
    ASSUME TypeInv, OrderInv, NEW s \in Sweeps, NEW c \in Combos, RunThread(s, c)
    PROVE  OrderInv'
<1>1. work[<<s, c>>] \in Working => sweep[s] = "running" /\ c \notin skip[s]
  BY DEF OrderInv, WorkInv, Working
<1> USE DEF SweepOnly, SweepFrame, database, Working
<1>2. CASE StartRun(s, c)
  BY <1>2, OrderWork DEF StartRun
<1>3. CASE StoreChunks(s, c)
  BY <1>1, <1>3, OrderWork DEF StoreChunks
<1>4. ASSUME NEW phase, EndRun(s, c, phase)  PROVE OrderInv'
  BY <1>1, <1>4, OrderWork DEF EndRun
<1>5. CASE CompleteRun(s, c)  BY <1>4, <1>5 DEF CompleteRun
<1>6. CASE FailRun(s, c)  BY <1>4, <1>6 DEF FailRun
<1>7. CASE InterruptRun(s, c)  BY <1>4, <1>7 DEF InterruptRun
<1>8. CASE InsertRaises(s, c)  BY <1>8, OrderWork DEF InsertRaises
<1>9. CASE LoseRun(s, c)  BY <1>1, <1>9, OrderWork DEF LoseRun
<1> QED  BY <1>2, <1>3, <1>5, <1>6, <1>7, <1>8, <1>9 DEF RunThread

LEMMA OrderHandler ==
    ASSUME TypeInv, OrderInv, NEW k \in Clients, Handle(k)
    PROVE  OrderInv'
<1>1. CASE ResumeSchedules(k)
  BY <1>1, OrderSchedule DEF ResumeSchedules, database
<1>2. CASE DeleteRows(k)
  BY <1>2, OrderOthers DEF DeleteRows, memory
<1>3. CASE DeleteExperiment(k)
  BY <1>3, OrderOthers DEF DeleteExperiment, memory
<1>4. CASE ~ResumeSchedules(k) /\ ~DeleteRows(k) /\ ~DeleteExperiment(k)
  <2>1. UNCHANGED <<sweep, work, skip, full, row>>
    BY <1>4
    DEF Handle, CancelSignals, CancelMarks, PauseSignals, PauseMarks, ResumeMarks,
        DeleteChunks, DetailReadsRuns, NormalizeDecides, NormalizeReadsRuns,
        NormalizeWrites, HandlerRaises, database, memory
  <2> QED  BY <2>1, OrderOthers
<1> QED  BY <1>1, <1>2, <1>3, <1>4

LEMMA OrderCrash ==
    ASSUME TypeInv, OrderInv, Crash
    PROVE  OrderInv'
<1>1. /\ UNCHANGED <<row, skip, full>>
      /\ \A s \in Sweeps : sweep'[s] = IF sweep[s] = "none" THEN "none" ELSE "over"
      /\ \A r \in Runs : work'[r] = IF work[r] = "none" THEN "none" ELSE "ended"
  BY DEF Crash, database
<1>2. \A s \in Sweeps, c \in Combos : <<s, c>> \in Runs  BY DEF Runs
<1>3. InOrder'  BY <1>1 DEF OrderInv, InOrder, Begun
<1>4. WorkInv'  BY <1>1, <1>2 DEF OrderInv, WorkInv, Working
<1>5. SkipInv'  BY <1>1 DEF SkipInv, Begun
<1>6. ResumeRepeatsNothing'  BY <1>1 DEF OrderInv, ResumeRepeatsNothing
<1> QED  BY <1>3, <1>4, <1>5, <1>6 DEF OrderInv

LEMMA OrderNext == TypeInv /\ OrderInv /\ [Next]_vars => OrderInv'
<1> SUFFICES ASSUME TypeInv, OrderInv, [Next]_vars PROVE OrderInv'  OBVIOUS
<1>1. CASE CreateSchedules
  BY <1>1, OrderSchedule DEF CreateSchedules, database
<1>2. CASE \E s \in Sweeps : SweepThread(s)  BY <1>2, OrderSweepThread
<1>3. CASE \E s \in Sweeps, c \in Combos : RunThread(s, c)  BY <1>3, OrderRunThread
<1>4. CASE \E k \in Clients : Handle(k)  BY <1>4, OrderHandler
<1>5. ASSUME NEW k \in Clients, NEW op \in Operations, Read(k, op)  PROVE OrderInv'
  BY <1>5, OrderOthers DEF Read, database, memory
<1>6. CASE Crash  BY <1>6, OrderCrash
<1>7. CASE BootMarksRuns
  BY <1>7, OrderOthers DEF BootMarksRuns, memory
<1>8. CASE BootDerivesStatus
  BY <1>8, OrderOthers DEF BootDerivesStatus, memory
<1>9. CASE BootRaises
  BY <1>9, OrderOthers DEF BootRaises, memory, RowsIn
<1>10. CASE UNCHANGED vars
  BY <1>10, OrderOthers DEF vars, database, memory
<1> QED
  BY <1>1, <1>2, <1>3, <1>4, <1>5, <1>6, <1>7, <1>8, <1>9, <1>10 DEF Next

LEMMA OrderInit == Init => OrderInv
<1> SUFFICES ASSUME Init PROVE OrderInv  OBVIOUS
<1>1. \A s \in Sweeps : sweep[s] = IF ~Creating /\ s = 1 THEN "queued" ELSE "none"
  BY DEF Init
<1>2. \A s \in Sweeps, t \in Sweeps : t < s => s # 1
  BY BoundsAssumption DEF Sweeps
<1>3. InOrder  BY <1>1, <1>2 DEF InOrder, Begun
<1>4. \A s \in Sweeps, c \in Combos :
        work[<<s, c>>] = "none" /\ row[<<s, c>>] = "absent"
  BY DEF Init, Runs
<1> QED
  BY <1>3, <1>4 DEF OrderInv, WorkInv, SkipInv, ResumeRepeatsNothing, Working

(* Sweeps on one executor, in the order scheduled: that, and the completed *)
(* rows read when the turn has come, is why no combination is completed a  *)
(* second time, over any number of pauses, resumes and crashes.            *)
THEOREM ResumedSweepsRepeatNothing == Spec => []ResumeRepeatsNothing
<1>1. OrderInv => ResumeRepeatsNothing  BY DEF OrderInv
<1>2. Spec => []OrderInv  BY OrderInit, TypesHold, OrderNext, PTL DEF Spec
<1> QED  BY <1>1, <1>2, PTL

-----------------------------------------------------------------------------
(* A process that is not up has no thread, and one that is booting has     *)
(* settled the rows of an experiment that is still RUNNING.                *)
BootInv ==
    /\ server # "up" =>
          /\ ~creating
          /\ \A s \in Sweeps : sweep[s] \in {"none", "over"}
          /\ \A r \in Runs : work[r] \notin Working
    /\ server = "booting" /\ exists /\ status = "running" => RowsIn({"live"}) = {}

LEMMA NoThreadWhenDown ==
    ASSUME BootInv, server # "up"
    PROVE  /\ ~CreateSchedules
           /\ \A s \in Sweeps : ~SweepThread(s)
           /\ \A s \in Sweeps, c \in Combos : ~RunThread(s, c)
           /\ \A k \in Clients : ~Handle(k)
           /\ \A k \in Clients, op \in Operations : ~Read(k, op)
<1>1. ~CreateSchedules  BY DEF CreateSchedules
<1>2. ASSUME NEW s \in Sweeps  PROVE ~SweepThread(s)
  BY DEF BootInv, SweepThread, Begin, ResumeRaises, TurnedAway, PreflightRaises,
         CheckBeforeRuns, FirstSubmitRaises, SchedulerSeesSignal, RunsAreOver, Conclude,
         ConcludeRaises, Leave
<1>3. ASSUME NEW s \in Sweeps, NEW c \in Combos  PROVE ~RunThread(s, c)
  <2>1. sweep[s] # "running" /\ work[<<s, c>>] \notin {"started", "stored"}
    BY DEF BootInv, Runs, Working
  <2> QED
    BY <2>1 DEF RunThread, StartRun, InsertRaises, StoreChunks, CompleteRun, FailRun,
                InterruptRun, LoseRun, EndRun
<1>4. ASSUME NEW k \in Clients  PROVE ~Handle(k)
  BY DEF Handle, CancelSignals, CancelMarks, PauseSignals, PauseMarks, ResumeMarks,
         ResumeSchedules, DeleteChunks, DeleteRows, DeleteExperiment, DetailReadsRuns,
         NormalizeDecides, NormalizeReadsRuns, NormalizeWrites, HandlerRaises, At
<1>5. ASSUME NEW k \in Clients, NEW op \in Operations  PROVE ~Read(k, op)
  BY DEF Read
<1> QED  BY <1>1, <1>2, <1>3, <1>4, <1>5

(* While it is up only a crash stops the process.                          *)
LEMMA StaysUp ==
    ASSUME server = "up", [Next]_vars, ~Crash
    PROVE  server' = "up"
<1>1. CASE CreateSchedules  BY <1>1 DEF CreateSchedules
<1>2. ASSUME NEW s \in Sweeps, SweepThread(s)  PROVE server' = "up"
  BY <1>2 DEF SweepThread, Begin, ResumeRaises, TurnedAway, PreflightRaises,
              CheckBeforeRuns, FirstSubmitRaises, SchedulerSeesSignal, Conclude,
              ConcludeRaises, Leave, SweepOnly, SweepFrame, GivesUp
<1>3. ASSUME NEW s \in Sweeps, NEW c \in Combos, RunThread(s, c)  PROVE server' = "up"
  BY <1>3 DEF RunThread, StartRun, InsertRaises, StoreChunks, CompleteRun, FailRun,
              InterruptRun, LoseRun, EndRun, SweepOnly, SweepFrame
<1>4. ASSUME NEW k \in Clients, Handle(k)  PROVE server' = "up"
  BY <1>4 DEF Handle, CancelSignals, CancelMarks, PauseSignals, PauseMarks, ResumeMarks,
         ResumeSchedules, DeleteChunks, DeleteRows, DeleteExperiment, DetailReadsRuns,
         NormalizeDecides, NormalizeReadsRuns, NormalizeWrites, HandlerRaises, HandlerOnly
<1>5. ASSUME NEW k \in Clients, NEW op \in Operations, Read(k, op)  PROVE server' = "up"
  BY <1>5 DEF Read
<1>6. CASE BootMarksRuns \/ BootDerivesStatus \/ BootRaises
  BY <1>6 DEF BootMarksRuns, BootDerivesStatus, BootRaises
<1>7. CASE UNCHANGED vars  BY <1>7 DEF vars
<1> QED  BY <1>1, <1>2, <1>3, <1>4, <1>5, <1>6, <1>7 DEF Next

LEMMA BootNext == TypeInv /\ BootInv /\ [Next]_vars => BootInv'
<1> SUFFICES ASSUME TypeInv, BootInv, [Next]_vars PROVE BootInv'  OBVIOUS
<1>1. CASE Crash
  BY <1>1 DEF Crash, BootInv, Working
<1>2. CASE server = "up" /\ ~Crash
  BY <1>2, StaysUp DEF BootInv
<1>3. CASE BootMarksRuns
  <2>1. server' # "up" => ~creating' /\ UNCHANGED <<sweep, work>>
    BY <1>3 DEF BootMarksRuns, memory, BootInv
  <2>2. exists' /\ status' = "running" => RowsIn({"live"})' = {}
    BY <1>3 DEF BootMarksRuns, RowsIn, TypeInv, TypeOK
  <2> QED  BY <1>3, <2>1, <2>2 DEF BootInv, BootMarksRuns, Working
<1>4. CASE BootDerivesStatus
  BY <1>4 DEF BootDerivesStatus, BootInv
<1>5. CASE BootRaises
  BY <1>5 DEF BootRaises, BootInv
<1>6. CASE UNCHANGED vars
  BY <1>6 DEF vars, database, memory, BootInv, RowsIn, Working
<1> QED  BY <1>1, <1>2, <1>3, <1>4, <1>5, <1>6, NoThreadWhenDown DEF Next

(* Whenever the boot gives an experiment a status none of its rows is left *)
(* live, also after a boot that died between the two writes.               *)
THEOREM BootLeavesNoLiveRow == Spec => BootSettlesRows
<1>1. Init => BootInv  BY DEF Init, BootInv
<1>2. Spec => []BootInv  BY <1>1, TypesHold, BootNext, PTL DEF Spec
<1>3. ASSUME BootInv, [Next]_vars, server = "booting", status' # status
      PROVE  RowsIn({"live"})' = {}
  <2>1. BootDerivesStatus
    BY <1>3, NoThreadWhenDown
    DEF Next, Crash, BootMarksRuns, BootRaises, vars, database
  <2>2. exists /\ status = "running" /\ row' = row
    BY <1>3, <2>1 DEF BootDerivesStatus
  <2> QED  BY <1>3, <2>2 DEF BootInv, RowsIn
<1>4. BootInv /\ [Next]_vars =>
        [server = "booting" /\ status' # status => RowsIn({"live"})' = {}]_vars
  BY <1>3
<1> QED  BY <1>2, <1>4, PTL DEF Spec, BootSettlesRows

-----------------------------------------------------------------------------
(* How the three derivations of the experiment's status relate, for every  *)
(* tally of rows that are all terminal and at most one per combination.    *)

(* A tally of terminal rows of an experiment with expected > 0 runs.       *)
Tally(expected, complete, failed, interrupted) ==
    /\ expected \in Nat \ {0}
    /\ complete \in Nat /\ failed \in Nat /\ interrupted \in Nat
    /\ complete + failed + interrupted <= expected

(* The sampling shortfall: some rows, all COMPLETE, fewer than planned.    *)
Shortfall(expected, complete, failed, interrupted) ==
    failed = 0 /\ interrupted = 0 /\ 0 < complete /\ complete < expected

(* Runs failed and were interrupted, none completed.                       *)
FailedAndInterrupted(complete, failed, interrupted) ==
    complete = 0 /\ failed > 0 /\ interrupted > 0

(* The verdict of a sweep and the status the boot reconciliation derives   *)
(* from the same rows differ exactly when runs failed and were interrupted *)
(* and none completed: FAILED in one place, PARTIAL in the other.          *)
THEOREM SweepAndBootAgree ==
    ASSUME NEW expected, NEW complete, NEW failed, NEW interrupted,
           Tally(expected, complete, failed, interrupted)
    PROVE  ComputeFinalStatus(expected, complete, failed)
             = DeriveExperimentStatus(expected, complete, failed,
                                      complete + failed + interrupted)
           <=> ~FailedAndInterrupted(complete, failed, interrupted)
BY DEF Tally, FailedAndInterrupted, ComputeFinalStatus, DeriveExperimentStatus

(* The status a GET derives differs from the boot's exactly on a sampling  *)
(* shortfall, which only the GET takes for COMPLETE.                       *)
THEOREM BootAndGetAgree ==
    ASSUME NEW expected, NEW complete, NEW failed, NEW interrupted,
           Tally(expected, complete, failed, interrupted)
    PROVE  DeriveExperimentStatus(expected, complete, failed,
                                  complete + failed + interrupted)
             = NormalizeStaleStatus(expected, complete, failed, interrupted)
           <=> ~Shortfall(expected, complete, failed, interrupted)
BY DEF Tally, Shortfall, DeriveExperimentStatus, NormalizeStaleStatus

(* When every combination has a terminal row and none was interrupted, the *)
(* three agree.                                                            *)
THEOREM FullTalliesAgree ==
    ASSUME NEW expected, NEW complete, NEW failed,
           Tally(expected, complete, failed, 0), complete + failed = expected
    PROVE  /\ ComputeFinalStatus(expected, complete, failed)
                = DeriveExperimentStatus(expected, complete, failed, expected)
           /\ ComputeFinalStatus(expected, complete, failed)
                = NormalizeStaleStatus(expected, complete, failed, 0)
BY DEF Tally, ComputeFinalStatus, DeriveExperimentStatus, NormalizeStaleStatus
=============================================================================
