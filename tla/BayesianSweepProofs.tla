------------------------ MODULE BayesianSweepProofs ------------------------
(***************************************************************************)
(* The verdict of a Bayesian sweep and its trial log, proved for any       *)
(* search space, any plan and any number of faults. A sweep's verdict is   *)
(* drawn from its rows and its flags, so the invariant says what each flag *)
(* and each phase goes back to; the log is counted against the rows, entry *)
(* by entry.                                                               *)
(***************************************************************************)
EXTENDS BayesianSweep, FiniteSetTheorems, TLAPS

EndStates == {"completed", "failed", "interrupted"}

EndPhases == {"complete", "failed", "interrupted"}

Signals == {"cancelled", "paused"}

Trying == {"trying", "starting", "running"}

(* A run whose end is not recorded has no row, or one in a live phase.     *)
Open == {"absent", "live"}

RowPhases == EndPhases \cup Open

Positions(s, phases) == {i \in DOMAIN s : s[i] \in phases}

Logs(l, states) == {i \in DOMAIN l : l[i].state \in states}

Types ==
    /\ visited \in SUBSET Candidates
    /\ rows \in Seq(RowPhases)
    /\ faults \in Nat
    /\ log \in Seq([candidate : Candidates, state : EndStates \cup {"pruned"}])
    /\ flags \in SUBSET {"cancelled", "paused", "stop", "infra"}
    /\ events \in SUBSET {"cancel", "pause"}
    /\ at \in {"queued", "asking", "trying", "starting", "running", "between",
               "finalising", "over", "left"}

(* A signal's flag goes back to its event, an outage's to a failed run,    *)
(* and an interrupted run to a signal.                                     *)
FlagsInv ==
    /\ "cancelled" \in flags => "cancel" \in events
    /\ "paused" \in flags => "pause" \in events
    /\ "infra" \in flags => \E i \in DOMAIN rows : rows[i] = "failed"
    /\ \A i \in DOMAIN rows : rows[i] = "interrupted" => flags \cap Signals # {}

(* The plan has room for the run of a trial, and the run that is running   *)
(* is the last one.                                                        *)
RowsInv ==
    /\ Len(rows) <= Planned
    /\ at \in {"trying", "starting"} => Len(rows) < Planned
    /\ at = "running" => Len(rows) > 0 /\ rows[Len(rows)] = "live"

(* No candidate has two entries, and that of the trial has none yet.       *)
OneEntryInv ==
    /\ \A i \in Logs(log, EndStates) : log[i].candidate \in visited
    /\ \A i, j \in Logs(log, EndStates) : log[i].candidate = log[j].candidate => i = j
    /\ at \in Trying =>
         \E c \in visited :
            /\ trial = {c}
            /\ \A i \in Logs(log, EndStates) : log[i].candidate # c

(* Every run that ended has an entry, every "completed" a complete run,    *)
(* and what the rows lack a fault, but for the run that is running.        *)
Running == IF at = "running" THEN 1 ELSE 0

CountsInv ==
    /\ Cardinality(Logs(log, EndStates)) >=
         Len(rows) - Running
    /\ Cardinality(Logs(log, {"completed"})) <= Cardinality(Positions(rows, {"complete"}))
    /\ Cardinality(Positions(rows, Open)) + Cardinality(Positions(rows, {"complete"}))
         <= faults + Cardinality(Logs(log, {"completed"})) + Running

Inv == Types /\ FlagsInv /\ RowsInv /\ OneEntryInv /\ CountsInv /\ BayesianVerdictHasCause

-----------------------------------------------------------------------------
(* The plan is a positive number of runs.                                  *)
LEMMA PlannedIsPositive == Planned \in Nat /\ Planned > 0
<1>1. Cardinality(Candidates) \in Nat
  BY FS_CardinalityType, CandidatesAssumption
<1>2. Cardinality(Candidates) # 0
  BY FS_EmptySet, CandidatesAssumption
<1> QED
  BY <1>1, <1>2, RepeatsAssumption, ConfiguredAssumption DEF Planned, GridEquivalent

(* A set of positions of a sequence is finite.                             *)
LEMMA PositionsAreFinite ==
  ASSUME NEW S, NEW s \in Seq(S), NEW P, P \subseteq DOMAIN s
  PROVE  IsFiniteSet(P) /\ Cardinality(P) \in Nat /\ Cardinality(P) <= Len(s)
<1>1. Len(s) \in Nat /\ DOMAIN s = 1 .. Len(s)
  OBVIOUS
<1>2. /\ IsFiniteSet(1 .. Len(s))
      /\ Cardinality(1 .. Len(s)) = IF 1 > Len(s) THEN 0 ELSE Len(s) - 1 + 1
  <2>1. Len(s) \in Int
    BY <1>1
  <2> QED
    BY <2>1, FS_Interval
<1>3. Cardinality(1 .. Len(s)) = Len(s)
  BY <1>1, <1>2
<1> QED
  BY <1>1, <1>2, <1>3, FS_Subset, FS_CardinalityType

(* One more member makes the cardinality one greater.                      *)
LEMMA OneMore ==
  ASSUME NEW S, NEW s \in Seq(S), NEW P, P \subseteq DOMAIN s, NEW n, n \notin P
  PROVE  Cardinality(P \cup {n}) = Cardinality(P) + 1
BY PositionsAreFinite, FS_AddElement

(* A new run, with a row or without one, is at an open position.           *)
LEMMA StartedPositions ==
  ASSUME NEW s \in Seq(RowPhases), NEW phase \in Open, NEW t, t = Append(s, phase)
  PROVE  /\ Positions(t, {"complete"}) = Positions(s, {"complete"})
         /\ Positions(t, Open) = Positions(s, Open) \cup {Len(s) + 1}
         /\ Len(s) + 1 \notin Positions(s, Open)
<1>1. /\ DOMAIN t = DOMAIN s \cup {Len(s) + 1} /\ Len(s) + 1 \notin DOMAIN s
      /\ t[Len(s) + 1] = phase /\ \A i \in DOMAIN s : t[i] = s[i]
  OBVIOUS
<1> QED
  BY <1>1 DEF Positions, Open

(* The positions of rows are finite sets.                                  *)
LEMMA CountsAreNumbers ==
  ASSUME NEW s \in Seq(RowPhases), NEW phases
  PROVE  Cardinality(Positions(s, phases)) \in Nat
<1>1. Positions(s, phases) \subseteq DOMAIN s
  BY DEF Positions
<1> QED
  BY <1>1, PositionsAreFinite

(* An entry adds its position to those of the states it is among.          *)
LEMMA LoggedPositions ==
  ASSUME NEW l \in Seq([candidate : Candidates, state : EndStates \cup {"pruned"}]),
         NEW c \in Candidates, NEW state \in EndStates \cup {"pruned"}, NEW states
  PROVE  Logs(Append(l, [candidate |-> c, state |-> state]), states) =
           IF state \in states THEN Logs(l, states) \cup {Len(l) + 1} ELSE Logs(l, states)
BY DEF Logs

(* The entries that are not pruned are those at the end states' positions. *)
LEMMA UnprunedIsLogs == Unpruned = Logs(log, EndStates)
BY DEF Unpruned, Entries, Logs, EndStates

(* And so are the "completed" entries.                                     *)
LEMMA CompletedIsLogs == Entries("completed") = Logs(log, {"completed"})
BY DEF Entries, Logs

-----------------------------------------------------------------------------
(* What noticing a signal sets is a flag with its event.                   *)
LEMMA NoticedHasItsEvent ==
  ASSUME Types, events # {}
  PROVE  /\ Noticed \in Signals
         /\ Noticed = "cancelled" => "cancel" \in events
         /\ Noticed = "paused" => "pause" \in events
BY DEF Types, Noticed, Signals

(* A sweep that has not begun has no rows, no entries and no flags.        *)
LEMMA InitInv == Init => Inv
<1> SUFFICES ASSUME Init PROVE Inv
  OBVIOUS
<1>1. Types /\ FlagsInv /\ OneEntryInv /\ BayesianVerdictHasCause
  BY DEF Init, Types, FlagsInv, OneEntryInv, Logs, Trying, BayesianVerdictHasCause
<1>2. RowsInv
  BY PlannedIsPositive DEF Init, RowsInv
<1>3. /\ Logs(log, EndStates) = {} /\ Logs(log, {"completed"}) = {}
      /\ Positions(rows, {"complete"}) = {} /\ Positions(rows, Open) = {}
  BY DEF Init, Logs, Positions
<1>4. /\ Cardinality(Logs(log, EndStates)) = 0
      /\ Cardinality(Logs(log, {"completed"})) = 0
      /\ Cardinality(Positions(rows, {"complete"})) = 0
      /\ Cardinality(Positions(rows, Open)) = 0
  BY <1>3, FS_EmptySet, Zenon
<1>5. at # "running" /\ Len(rows) = 0 /\ faults = 0
  BY DEF Init
<1>6. CountsInv
  BY <1>4, <1>5 DEF CountsInv, Running
<1> QED
  BY <1>1, <1>2, <1>6 DEF Inv

(* An entry for the trial: a new one for its candidate, in its place.      *)
LEMMA EntryLogged ==
  ASSUME Types, OneEntryInv, at \in Trying, visited' = visited,
         NEW state \in EndStates, Logged(state)
  PROVE  /\ log' \in Seq([candidate : Candidates, state : EndStates \cup {"pruned"}])
         /\ Cardinality(Logs(log', EndStates)) = Cardinality(Logs(log, EndStates)) + 1
         /\ Cardinality(Logs(log', {"completed"})) =
              IF state = "completed" THEN Cardinality(Logs(log, {"completed"})) + 1
              ELSE Cardinality(Logs(log, {"completed"}))
         /\ \A i \in Logs(log', EndStates) : log'[i].candidate \in visited
         /\ \A i, j \in Logs(log', EndStates) : log'[i].candidate = log'[j].candidate => i = j
<1>1. PICK c \in visited : trial = {c} /\ \A i \in Logs(log, EndStates) : log[i].candidate # c
  BY DEF OneEntryInv
<1>2. c \in Candidates
  BY DEF Types
<1>3. log' = Append(log, [candidate |-> c, state |-> state])
  BY <1>1 DEF Logged
<1>4. log \in Seq([candidate : Candidates, state : EndStates \cup {"pruned"}])
  BY DEF Types
<1>5. log' \in Seq([candidate : Candidates, state : EndStates \cup {"pruned"}])
  BY <1>2, <1>3, <1>4
<1>6. /\ Logs(log', EndStates) = Logs(log, EndStates) \cup {Len(log) + 1}
      /\ Logs(log', {"completed"}) =
           IF state \in {"completed"} THEN Logs(log, {"completed"}) \cup {Len(log) + 1}
           ELSE Logs(log, {"completed"})
  <2>1. \A states :
          Logs(Append(log, [candidate |-> c, state |-> state]), states) =
            IF state \in states THEN Logs(log, states) \cup {Len(log) + 1} ELSE Logs(log, states)
    BY <1>2, <1>4, LoggedPositions
  <2> QED
    BY <1>3, <2>1
<1>7. \A states : Logs(log, states) \subseteq DOMAIN log /\ Len(log) + 1 \notin Logs(log, states)
  BY <1>4 DEF Logs
<1>8. /\ Cardinality(Logs(log', EndStates)) = Cardinality(Logs(log, EndStates)) + 1
      /\ Cardinality(Logs(log, {"completed"}) \cup {Len(log) + 1}) =
           Cardinality(Logs(log, {"completed"})) + 1
  BY <1>4, <1>6, <1>7, OneMore
<1>9. \A i \in Logs(log', EndStates) :
        \/ i = Len(log) + 1 /\ log'[i].candidate = c
        \/ i \in Logs(log, EndStates) /\ log'[i].candidate = log[i].candidate
  BY <1>2, <1>3, <1>4, <1>6 DEF Logs
<1>10. \A i \in Logs(log', EndStates) : log'[i].candidate \in visited
  BY <1>1, <1>9 DEF OneEntryInv
<1>11. \A i, j \in Logs(log', EndStates) : log'[i].candidate = log'[j].candidate => i = j
  BY <1>1, <1>9 DEF OneEntryInv
<1> QED
  BY <1>5, <1>6, <1>8, <1>10, <1>11

(* A run ends: its row takes its last phase, its candidate an entry.       *)
LEMMA EndRunKeepsInv ==
  ASSUME Inv, NEW phase \in EndPhases \cup {"live"}, NEW state \in EndStates,
         NEW noticed \in SUBSET {"cancelled", "paused", "stop", "infra"},
         EndRun(phase, state, noticed),
         state = "completed" => phase = "complete",
         faults' \in Nat, faults' >= faults,
         phase = "live" \/ (phase = "complete" /\ state # "completed") => faults' > faults,
         "infra" \in noticed => phase = "failed",
         phase = "interrupted" => noticed \cap Signals # {},
         "cancelled" \in noticed => "cancel" \in events,
         "paused" \in noticed => "pause" \in events
  PROVE  Inv'
<1>1. /\ Len(rows) > 0 /\ rows[Len(rows)] = "live" /\ faults \in Nat
      /\ rows \in Seq(RowPhases)
      /\ at = "running" /\ at' \in {"between", "finalising"}
      /\ Len(rows) \in DOMAIN rows
  BY DEF Inv, Types, RowsInv, EndRun
<1>2. /\ rows' = [rows EXCEPT ![Len(rows)] = phase]
      /\ Len(rows') = Len(rows) /\ DOMAIN rows' = DOMAIN rows
      /\ rows' \in Seq(RowPhases)
  BY <1>1 DEF EndRun, RowPhases, Open
<1>3. \A i \in DOMAIN rows : rows'[i] = IF i = Len(rows) THEN phase ELSE rows[i]
  BY <1>1, <1>2
<1>4. flags' = flags \cup noticed /\ UNCHANGED <<events, visited, trial>>
  BY DEF EndRun
<1>5. Types /\ OneEntryInv /\ at \in Trying /\ Logged(state)
  BY <1>1 DEF Inv, EndRun, Trying
<1>6. /\ log' \in Seq([candidate : Candidates, state : EndStates \cup {"pruned"}])
      /\ Cardinality(Logs(log', EndStates)) = Cardinality(Logs(log, EndStates)) + 1
      /\ Cardinality(Logs(log', {"completed"})) =
           IF state = "completed" THEN Cardinality(Logs(log, {"completed"})) + 1
           ELSE Cardinality(Logs(log, {"completed"}))
      /\ \A i \in Logs(log', EndStates) : log'[i].candidate \in visited
      /\ \A i, j \in Logs(log', EndStates) : log'[i].candidate = log'[j].candidate => i = j
  BY <1>4, <1>5, EntryLogged
<1>7. Types'
  BY <1>1, <1>2, <1>4, <1>6 DEF Inv, Types
<1>8. FlagsInv'
  <2>1. "infra" \in flags' => \E i \in DOMAIN rows' : rows'[i] = "failed"
    <3>1. CASE "infra" \in noticed
      BY <1>1, <1>2, <1>3, <3>1
    <3>2. CASE "infra" \in flags
      <4>1. PICK i \in DOMAIN rows : rows[i] = "failed"
        BY <3>2 DEF Inv, FlagsInv
      <4>2. rows'[i] = "failed" /\ i \in DOMAIN rows'
        BY <1>1, <1>2, <1>3, <4>1
      <4> QED
        BY <4>2
    <3> QED
      BY <1>4, <3>1, <3>2
  <2>2. \A i \in DOMAIN rows' : rows'[i] = "interrupted" => flags' \cap Signals # {}
    BY <1>2, <1>3, <1>4 DEF Inv, FlagsInv
  <2> QED
    BY <1>4, <2>1, <2>2 DEF Inv, FlagsInv
<1>9. RowsInv'
  BY <1>1, <1>2, <1>3 DEF Inv, RowsInv, EndPhases
<1>10. OneEntryInv'
  BY <1>1, <1>4, <1>6 DEF OneEntryInv, Trying
<1>11. CountsInv'
  <2> DEFINE done(s) == Cardinality(Positions(s, {"complete"}))
             open(s) == Cardinality(Positions(s, Open))
             scored(l) == Cardinality(Logs(l, {"completed"}))
  <2>1. /\ done(rows') = IF phase = "complete" THEN done(rows) + 1 ELSE done(rows)
        /\ open(rows) = IF phase = "live" THEN open(rows') ELSE open(rows') + 1
    <3>2. /\ Positions(rows', {"complete"}) =
                IF phase = "complete" THEN Positions(rows, {"complete"}) \cup {Len(rows)}
                ELSE Positions(rows, {"complete"})
          /\ Len(rows) \notin Positions(rows, {"complete"})
          /\ phase # "live" =>
                /\ Positions(rows, Open) = Positions(rows', Open) \cup {Len(rows)}
                /\ Len(rows) \notin Positions(rows', Open)
          /\ phase = "live" => Positions(rows', Open) = Positions(rows, Open)
      BY <1>1, <1>2, <1>3 DEF Positions, EndPhases, Open
    <3>3. /\ Positions(rows, {"complete"}) \subseteq DOMAIN rows
          /\ Positions(rows', Open) \subseteq DOMAIN rows'
      BY DEF Positions
    <3>4. Cardinality(Positions(rows, {"complete"}) \cup {Len(rows)}) = done(rows) + 1
      BY <1>1, <3>2, <3>3, OneMore
    <3>5. phase # "live" => Cardinality(Positions(rows', Open) \cup {Len(rows)}) = open(rows') + 1
      BY <1>2, <3>2, <3>3, OneMore
    <3> QED
      BY <3>2, <3>4, <3>5
  <2>2. done(rows) \in Nat /\ open(rows) \in Nat /\ open(rows') \in Nat
    BY <1>1, <1>2, CountsAreNumbers
  <2>3. \A states : Cardinality(Logs(log, states)) \in Nat
    BY PositionsAreFinite DEF Inv, Types, Logs
  <2>4. Running = 1 /\ Running' = 0
    BY <1>1 DEF Running
  <2>5. /\ Cardinality(Logs(log, EndStates)) >= Len(rows) - 1
        /\ scored(log) <= done(rows)
        /\ open(rows) + done(rows) <= faults + scored(log) + 1
    BY <2>4 DEF Inv, CountsInv
  <2>6. scored(log') = IF state = "completed" THEN scored(log) + 1 ELSE scored(log)
    BY <1>6
  <2>7. scored(log) \in Nat /\ Cardinality(Logs(log, EndStates)) \in Nat
    BY <2>3
  <2> HIDE DEF done, open, scored
  <2>8. scored(log') <= done(rows')
    BY <2>1, <2>2, <2>5, <2>6, <2>7
  <2>9. open(rows') + done(rows') <= faults' + scored(log')
    <3>1. faults \in Nat /\ faults' \in Nat /\ faults' >= faults
      BY <1>1
    <3>2. CASE phase = "live"
      <4>1. faults' > faults /\ state # "completed"
        BY <3>2
      <4> QED
        BY <3>1, <3>2, <4>1, <2>1, <2>2, <2>5, <2>6, <2>7
    <3>3. CASE phase = "complete" /\ state # "completed"
      <4>1. faults' > faults
        BY <3>3
      <4> QED
        BY <3>1, <3>3, <4>1, <2>1, <2>2, <2>5, <2>6, <2>7
    <3>4. CASE phase = "complete" /\ state = "completed"
      BY <3>1, <3>4, <2>1, <2>2, <2>5, <2>6, <2>7
    <3>5. CASE phase \notin {"live", "complete"}
      <4>1. state # "completed"
        BY <3>5
      <4> QED
        BY <3>1, <3>5, <4>1, <2>1, <2>2, <2>5, <2>6, <2>7
    <3> QED
      BY <3>2, <3>3, <3>4, <3>5
  <2>10. Cardinality(Logs(log', EndStates)) >= Len(rows')
    BY <1>1, <1>2, <1>6, <2>5, <2>7
  <2>11. faults' + scored(log') + Running' = faults' + scored(log') /\ Len(rows') - Running' = Len(rows')
    BY <1>1, <1>2, <2>4, <2>6, <2>7
  <2> QED
    BY <2>8, <2>9, <2>10, <2>11 DEF CountsInv, done, open, scored
<1>12. BayesianVerdictHasCause'
  BY <1>1 DEF BayesianVerdictHasCause
<1> QED
  BY <1>7, <1>8, <1>9, <1>10, <1>11, <1>12 DEF Inv

(* Giving up a trial leaves an entry without a run.                        *)
LEMMA GiveUpKeepsInv == Inv /\ GiveUp => Inv'
<1> SUFFICES ASSUME Inv, GiveUp PROVE Inv'
  OBVIOUS
<1> DEFINE state == IF flags' \cap Signals # {} THEN "interrupted" ELSE "failed"
<1>1. /\ Types /\ OneEntryInv /\ at = "trying" /\ at \in Trying
      /\ at' = "finalising" /\ UNCHANGED <<visited, trial, rows, events, faults>>
      /\ rows \in Seq(RowPhases)
  BY DEF Inv, GiveUp, Trying, Types
<1>2. /\ Logged(state) /\ state \in EndStates /\ state # "completed"
  BY DEF GiveUp, Signals, EndStates
<1> HIDE DEF state
<1>3. /\ log' \in Seq([candidate : Candidates, state : EndStates \cup {"pruned"}])
      /\ Cardinality(Logs(log', EndStates)) = Cardinality(Logs(log, EndStates)) + 1
      /\ Cardinality(Logs(log', {"completed"})) = Cardinality(Logs(log, {"completed"}))
      /\ \A i \in Logs(log', EndStates) : log'[i].candidate \in visited
      /\ \A i, j \in Logs(log', EndStates) : log'[i].candidate = log'[j].candidate => i = j
  BY <1>1, <1>2, EntryLogged
<1>4. ASSUME "stop" \in flags, flags' = flags
      PROVE  Types' /\ FlagsInv'
  <2>1. Types'
    BY <1>1, <1>3, <1>4 DEF Types
  <2>2. FlagsInv'
    BY <1>1, <1>4 DEF Inv, FlagsInv
  <2> QED
    BY <2>1, <2>2
<1>5. ASSUME events # {}, flags' = flags \cup {"stop", Noticed}
      PROVE  Types' /\ FlagsInv'
  <2>1. /\ Noticed \in Signals
        /\ Noticed = "cancelled" => "cancel" \in events
        /\ Noticed = "paused" => "pause" \in events
    BY <1>1, <1>5, NoticedHasItsEvent
  <2>2. Types'
    BY <1>1, <1>3, <1>5, <2>1 DEF Types, Signals
  <2>3. FlagsInv'
    BY <1>1, <1>5, <2>1 DEF Inv, FlagsInv, Signals
  <2> QED
    BY <2>2, <2>3
<1>6. Types' /\ FlagsInv'
  BY <1>4, <1>5 DEF GiveUp
<1>7. RowsInv'
  BY <1>1 DEF Inv, RowsInv
<1>8. OneEntryInv'
  BY <1>1, <1>3 DEF OneEntryInv, Trying
<1>9. CountsInv'
  <2>1. Cardinality(Logs(log, EndStates)) \in Nat /\ Len(rows) \in Nat
    BY PositionsAreFinite DEF Inv, Types, Logs
  <2> QED
    BY <1>1, <1>3, <2>1 DEF Inv, CountsInv, Running
<1> QED
  BY <1>1, <1>6, <1>7, <1>8, <1>9 DEF Inv, BayesianVerdictHasCause

(* A run is added to run_ids, with a row or without one.                   *)
LEMMA RunAdded ==
  ASSUME Inv, at = "starting", NEW phase \in Open, rows' = Append(rows, phase)
  PROVE  /\ rows' \in Seq(RowPhases) /\ Len(rows') = Len(rows) + 1 /\ Len(rows) \in Nat
         /\ rows'[Len(rows')] = phase /\ Len(rows') <= Planned
         /\ \A i \in DOMAIN rows' : rows'[i] # phase => i \in DOMAIN rows /\ rows'[i] = rows[i]
         /\ \A i \in DOMAIN rows : i \in DOMAIN rows' /\ rows'[i] = rows[i]
         /\ Cardinality(Positions(rows', {"complete"})) = Cardinality(Positions(rows, {"complete"}))
         /\ Cardinality(Positions(rows', Open)) = Cardinality(Positions(rows, Open)) + 1
<1>1. rows \in Seq(RowPhases) /\ phase \in RowPhases /\ Len(rows) \in Nat
  BY DEF Inv, Types, RowPhases
<1>2. /\ rows' \in Seq(RowPhases) /\ Len(rows') = Len(rows) + 1
      /\ rows'[Len(rows')] = phase
      /\ \A i \in DOMAIN rows' : rows'[i] # phase => i \in DOMAIN rows /\ rows'[i] = rows[i]
      /\ \A i \in DOMAIN rows : i \in DOMAIN rows' /\ rows'[i] = rows[i]
  BY <1>1
<1>3. Len(rows') <= Planned
  BY <1>1, <1>2, PlannedIsPositive DEF Inv, RowsInv
<1>4. /\ Positions(rows', {"complete"}) = Positions(rows, {"complete"})
      /\ Positions(rows', Open) = Positions(rows, Open) \cup {Len(rows) + 1}
      /\ Len(rows) + 1 \notin Positions(rows, Open)
  BY <1>1, StartedPositions
<1>5. Positions(rows, Open) \subseteq DOMAIN rows
  BY DEF Positions
<1>6. Cardinality(Positions(rows, Open) \cup {Len(rows) + 1}) = Cardinality(Positions(rows, Open)) + 1
  BY <1>1, <1>4, <1>5, OneMore
<1> QED
  BY <1>1, <1>2, <1>3, <1>4, <1>6

(* A new run has a live row, and is the one that is running.               *)
LEMMA StartRunKeepsInv == Inv /\ StartRun => Inv'
<1> SUFFICES ASSUME Inv, StartRun PROVE Inv'
  OBVIOUS
<1>1. /\ at = "starting" /\ at' = "running" /\ rows' = Append(rows, "live")
      /\ UNCHANGED <<visited, trial, log, flags, events, faults>>
      /\ "live" \in Open
  BY DEF StartRun, Open
<1>2. /\ rows' \in Seq(RowPhases) /\ Len(rows') = Len(rows) + 1 /\ Len(rows) \in Nat
      /\ rows'[Len(rows')] = "live" /\ Len(rows') <= Planned
      /\ \A i \in DOMAIN rows' : rows'[i] # "live" => i \in DOMAIN rows /\ rows'[i] = rows[i]
      /\ \A i \in DOMAIN rows : i \in DOMAIN rows' /\ rows'[i] = rows[i]
      /\ Cardinality(Positions(rows', {"complete"})) = Cardinality(Positions(rows, {"complete"}))
      /\ Cardinality(Positions(rows', Open)) = Cardinality(Positions(rows, Open)) + 1
  BY <1>1, RunAdded
<1>3. Types'
  BY <1>1, <1>2 DEF Inv, Types
<1>4. FlagsInv'
  BY <1>1, <1>2 DEF Inv, FlagsInv
<1>5. RowsInv'
  BY <1>1, <1>2 DEF RowsInv
<1>6. OneEntryInv'
  BY <1>1 DEF Inv, OneEntryInv, Trying
<1>7. CountsInv'
  <2>1. /\ Cardinality(Positions(rows, Open)) \in Nat
        /\ Cardinality(Positions(rows, {"complete"})) \in Nat
    BY CountsAreNumbers DEF Inv, Types
  <2>2. \A states : Cardinality(Logs(log, states)) \in Nat
    BY PositionsAreFinite DEF Inv, Types, Logs
  <2>3. faults \in Nat
    BY DEF Inv, Types
  <2> QED
    BY <1>1, <1>2, <2>1, <2>2, <2>3 DEF Inv, CountsInv, Running
<1> QED
  BY <1>1, <1>3, <1>4, <1>5, <1>6, <1>7 DEF Inv, BayesianVerdictHasCause

(* A run without a row has its entry and its fault.                        *)
LEMMA StartRaisesKeepsInv == Inv /\ StartRaises => Inv'
<1> SUFFICES ASSUME Inv, StartRaises PROVE Inv'
  OBVIOUS
<1>1. /\ at = "starting" /\ at' \in {"between", "finalising"} /\ rows' = Append(rows, "absent")
      /\ faults' = faults + 1 /\ Logged("failed")
      /\ UNCHANGED <<visited, trial, events>>
      /\ flags \subseteq flags' /\ flags' \subseteq flags \cup {"stop"}
      /\ "absent" \in Open
  BY DEF StartRaises, Open, OnError
<1>2. /\ rows' \in Seq(RowPhases) /\ Len(rows') = Len(rows) + 1 /\ Len(rows) \in Nat
      /\ Len(rows') <= Planned
      /\ \A i \in DOMAIN rows' : rows'[i] # "absent" => i \in DOMAIN rows /\ rows'[i] = rows[i]
      /\ \A i \in DOMAIN rows : i \in DOMAIN rows' /\ rows'[i] = rows[i]
      /\ Cardinality(Positions(rows', {"complete"})) = Cardinality(Positions(rows, {"complete"}))
      /\ Cardinality(Positions(rows', Open)) = Cardinality(Positions(rows, Open)) + 1
  BY <1>1, RunAdded
<1>3. /\ log' \in Seq([candidate : Candidates, state : EndStates \cup {"pruned"}])
      /\ Cardinality(Logs(log', EndStates)) = Cardinality(Logs(log, EndStates)) + 1
      /\ Cardinality(Logs(log', {"completed"})) = Cardinality(Logs(log, {"completed"}))
      /\ \A i \in Logs(log', EndStates) : log'[i].candidate \in visited
      /\ \A i, j \in Logs(log', EndStates) : log'[i].candidate = log'[j].candidate => i = j
  <2>1. Types /\ OneEntryInv /\ at \in Trying /\ visited' = visited /\ "failed" \in EndStates
    BY <1>1 DEF Inv, Trying, EndStates
  <2> QED
    BY <1>1, <2>1, EntryLogged
<1>4. Types'
  BY <1>1, <1>2, <1>3 DEF Inv, Types
<1>5. FlagsInv'
  <2>1. "infra" \in flags' => \E i \in DOMAIN rows' : rows'[i] = "failed"
    BY <1>1, <1>2 DEF Inv, FlagsInv
  <2>2. \A i \in DOMAIN rows' : rows'[i] = "interrupted" => flags' \cap Signals # {}
    BY <1>1, <1>2 DEF Inv, FlagsInv
  <2> QED
    BY <1>1, <2>1, <2>2 DEF Inv, FlagsInv
<1>6. RowsInv'
  BY <1>1, <1>2 DEF RowsInv
<1>7. OneEntryInv'
  BY <1>1, <1>3 DEF OneEntryInv, Trying
<1>8. CountsInv'
  <2>1. /\ Cardinality(Positions(rows, Open)) \in Nat
        /\ Cardinality(Positions(rows, {"complete"})) \in Nat
    BY CountsAreNumbers DEF Inv, Types
  <2>2. \A states : Cardinality(Logs(log, states)) \in Nat
    BY PositionsAreFinite DEF Inv, Types, Logs
  <2>3. faults \in Nat
    BY DEF Inv, Types
  <2> QED
    BY <1>1, <1>2, <1>3, <2>1, <2>2, <2>3 DEF Inv, CountsInv, Running
<1> QED
  BY <1>1, <1>4, <1>5, <1>6, <1>7, <1>8 DEF Inv, BayesianVerdictHasCause

(* The steps that leave the rows and the log alone.                        *)
LEMMA QuietKeepsInv ==
  ASSUME Inv, UNCHANGED <<rows, log, visited, trial>>,
         at # "running", at' \in {"asking", "trying", "starting", "between", "finalising", "left"},
         at' \in {"trying", "starting"} => at \in {"trying", "starting"},
         events' \in SUBSET {"cancel", "pause"}, events \subseteq events',
         faults' \in Nat, faults' >= faults,
         flags' \in SUBSET {"cancelled", "paused", "stop", "infra"}, flags \subseteq flags',
         "infra" \in flags' => "infra" \in flags,
         "cancelled" \in flags' => "cancelled" \in flags \/ "cancel" \in events,
         "paused" \in flags' => "paused" \in flags \/ "pause" \in events
  PROVE  Inv'
<1>1. Types'
  BY DEF Inv, Types
<1>2. FlagsInv'
  BY DEF Inv, FlagsInv
<1>3. RowsInv'
  BY DEF Inv, RowsInv
<1>4. OneEntryInv'
  BY DEF Inv, OneEntryInv, Trying
<1>5. CountsInv'
  <2>1. /\ Cardinality(Positions(rows, Open)) \in Nat
        /\ Cardinality(Positions(rows, {"complete"})) \in Nat
    BY CountsAreNumbers DEF Inv, Types
  <2>2. \A states : Cardinality(Logs(log, states)) \in Nat
    BY PositionsAreFinite DEF Inv, Types, Logs
  <2>3. faults \in Nat /\ Running = 0 /\ Running' = 0
    BY DEF Inv, Types, Running
  <2> QED
    BY <2>1, <2>2, <2>3 DEF Inv, CountsInv
<1>6. BayesianVerdictHasCause'
  BY DEF BayesianVerdictHasCause
<1> QED
  BY <1>1, <1>2, <1>3, <1>4, <1>5, <1>6 DEF Inv

(* A repeated candidate leaves an entry that counts for nothing.           *)
LEMMA PruneKeepsInv == ASSUME Inv, NEW c \in Candidates, Prune(c) PROVE Inv'
<1>1. /\ at = "asking" /\ log' = Append(log, [candidate |-> c, state |-> "pruned"])
      /\ UNCHANGED <<at, visited, trial, rows, flags, events, faults>>
      /\ log \in Seq([candidate : Candidates, state : EndStates \cup {"pruned"}])
  BY DEF Inv, Types, Prune
<1>2. \A states :
        Logs(Append(log, [candidate |-> c, state |-> "pruned"]), states) =
          IF "pruned" \in states THEN Logs(log, states) \cup {Len(log) + 1} ELSE Logs(log, states)
  <2>1. "pruned" \in EndStates \cup {"pruned"}
    OBVIOUS
  <2> QED
    BY <1>1, <2>1, LoggedPositions
<1>3. /\ Logs(log', EndStates) = Logs(log, EndStates)
      /\ Logs(log', {"completed"}) = Logs(log, {"completed"})
  <2>1. "pruned" \notin EndStates /\ "pruned" \notin {"completed"}
    BY DEF EndStates
  <2> QED
    BY <1>1, <1>2, <2>1
<1>4. log' \in Seq([candidate : Candidates, state : EndStates \cup {"pruned"}])
  BY <1>1
<1>5. \A i \in Logs(log', EndStates) :
        i \in Logs(log, EndStates) /\ log'[i].candidate = log[i].candidate
  BY <1>1, <1>3 DEF Logs
<1>6. Types' /\ FlagsInv' /\ RowsInv'
  BY <1>1, <1>4 DEF Inv, Types, FlagsInv, RowsInv
<1>7. OneEntryInv'
  BY <1>1, <1>3, <1>5 DEF Inv, OneEntryInv, Trying
<1>8. CountsInv'
  BY <1>1, <1>3 DEF Inv, CountsInv, Running
<1> QED
  BY <1>1, <1>6, <1>7, <1>8 DEF Inv, BayesianVerdictHasCause

(* A candidate not seen before has no entry yet, and the plan has room.    *)
LEMMA AskKeepsInv == ASSUME Inv, NEW c \in Candidates, Ask(c) PROVE Inv'
<1>1. /\ at = "asking" /\ at' = "trying" /\ c \notin visited
      /\ visited' = visited \cup {c} /\ trial' = {c}
      /\ UNCHANGED <<rows, log, flags, events, faults>>
      /\ ~(Len(rows) >= Planned)
  BY DEF Ask, Enough
<1>2. Types' /\ FlagsInv'
  BY <1>1 DEF Inv, Types, FlagsInv
<1>3. RowsInv'
  <2>1. Len(rows) \in Nat
    BY DEF Inv, Types
  <2> QED
    BY <1>1, <2>1, PlannedIsPositive DEF Inv, RowsInv
<1>4. OneEntryInv'
  BY <1>1 DEF Inv, OneEntryInv, Trying
<1>5. CountsInv'
  BY <1>1 DEF Inv, CountsInv, Running
<1> QED
  BY <1>1, <1>2, <1>3, <1>4, <1>5 DEF Inv, BayesianVerdictHasCause

-----------------------------------------------------------------------------
(* When no signal was noticed and no run failed, a run is complete or the  *)
(* storage lost it, and what it lost is within the faults.                 *)
LEMMA RowsAreTallied ==
  ASSUME Types, FlagsInv, CountsInv, at # "running"
  PROVE  /\ Count("complete") \in Nat /\ Count("failed") \in Nat
         /\ Count("complete") <= Len(rows)
         /\ Unrecorded \in Nat /\ Unrecorded <= faults
         /\ "infra" \in flags => Count("failed") > 0
         /\ Count("failed") = 0 /\ flags \cap Signals = {} =>
              Count("complete") + Unrecorded = Len(rows)
<1>1. rows \in Seq(RowPhases)
  BY DEF Types
<1>2. /\ Count("complete") = Cardinality(Positions(rows, {"complete"}))
      /\ Count("failed") = Cardinality(Positions(rows, {"failed"}))
      /\ Unrecorded = Cardinality(Positions(rows, Open))
  BY DEF Count, Unrecorded, Positions, Open
<1>3. /\ Positions(rows, {"complete"}) \subseteq DOMAIN rows
      /\ Positions(rows, {"failed"}) \subseteq DOMAIN rows
      /\ Positions(rows, Open) \subseteq DOMAIN rows
  BY DEF Positions
<1>4. /\ Count("complete") \in Nat /\ Count("complete") <= Len(rows)
      /\ Count("failed") \in Nat /\ IsFiniteSet(Positions(rows, {"failed"}))
      /\ Unrecorded \in Nat
      /\ IsFiniteSet(Positions(rows, {"complete"})) /\ IsFiniteSet(Positions(rows, Open))
  BY <1>1, <1>2, <1>3, PositionsAreFinite
<1>5. Count("failed") = 0 => Positions(rows, {"failed"}) = {}
  BY <1>2, <1>4, FS_EmptySet
<1>6. "infra" \in flags => Count("failed") > 0
  <2>1. "infra" \in flags => Positions(rows, {"failed"}) # {}
    BY DEF FlagsInv, Positions
  <2> QED
    BY <1>4, <1>5, <2>1
<1>7. Unrecorded <= faults
  <2>1. Cardinality(Logs(log, {"completed"})) \in Nat
    BY PositionsAreFinite DEF Types, Logs
  <2>2. faults \in Nat /\ Running = 0
    BY DEF Types, Running
  <2> QED
    BY <1>2, <1>4, <2>1, <2>2 DEF CountsInv
<1>8. ASSUME Count("failed") = 0, flags \cap Signals = {}
      PROVE  Count("complete") + Unrecorded = Len(rows)
  <2>1. \A i \in DOMAIN rows : rows[i] \in {"complete"} \cup Open
    BY <1>1, <1>5, <1>8 DEF Positions, FlagsInv, RowPhases, EndPhases
  <2>2. /\ Positions(rows, {"complete"}) \cup Positions(rows, Open) = 1 .. Len(rows)
        /\ Positions(rows, {"complete"}) \cap Positions(rows, Open) = {}
    BY <1>1, <2>1 DEF Positions, Open
  <2>3. Len(rows) \in Int /\ Len(rows) >= 0
    BY <1>1
  <2>4. Cardinality(1 .. Len(rows)) = IF 1 > Len(rows) THEN 0 ELSE Len(rows) - 1 + 1
    BY <2>3, FS_Interval
  <2>5. Cardinality(1 .. Len(rows)) = Len(rows)
    BY <2>3, <2>4
  <2>6. Cardinality(Positions(rows, {"complete"}) \cup Positions(rows, Open)) =
          Cardinality(Positions(rows, {"complete"})) + Cardinality(Positions(rows, Open))
            - Cardinality(Positions(rows, {"complete"}) \cap Positions(rows, Open))
    BY <1>4, FS_Union
  <2>7. Cardinality(Positions(rows, {"complete"}) \cap Positions(rows, Open)) = 0
    BY <2>2, FS_EmptySet, Zenon
  <2>8. Cardinality(Positions(rows, {"complete"}) \cup Positions(rows, Open)) = Len(rows)
    BY <2>2, <2>5
  <2>9. Count("complete") + Unrecorded - 0 = Len(rows)
    BY <1>2, <2>6, <2>7, <2>8
  <2> QED
    BY <1>4, <2>9
<1> QED
  BY <1>4, <1>6, <1>7, <1>8

(* The verdict that is written has its cause.                              *)
LEMMA FinaliseKeepsInv == Inv /\ Finalise => Inv'
<1> SUFFICES ASSUME Inv, Finalise PROVE Inv'
  OBVIOUS
<1>1. /\ at = "finalising" /\ at' = "over" /\ status' = Verdict
      /\ UNCHANGED <<visited, trial, rows, log, flags, events, faults>>
      /\ Types /\ FlagsInv /\ RowsInv /\ CountsInv
  BY DEF Inv, Finalise
<1>2. Types' /\ FlagsInv' /\ RowsInv' /\ OneEntryInv' /\ CountsInv'
  BY <1>1 DEF Inv, Types, FlagsInv, RowsInv, OneEntryInv, CountsInv, Trying, Running
<1>3. /\ Count("complete") \in Nat /\ Count("failed") \in Nat
      /\ Count("complete") <= Len(rows) /\ Len(rows) <= Planned
      /\ Unrecorded \in Nat /\ Unrecorded <= faults
      /\ "infra" \in flags => Count("failed") > 0
      /\ Count("failed") = 0 /\ flags \cap Signals = {} =>
           Count("complete") + Unrecorded = Len(rows)
  BY <1>1, RowsAreTallied DEF RowsInv
<1>4. /\ Count("complete")' = Count("complete") /\ Count("failed")' = Count("failed")
      /\ Unrecorded' = Unrecorded
  BY <1>1 DEF Count, Unrecorded
<1>5. BayesianVerdictHasCause'
  <2>1. CASE "cancelled" \in flags
    BY <1>1, <2>1 DEF Verdict, BayesianVerdictHasCause, FlagsInv
  <2>2. CASE "cancelled" \notin flags /\ "paused" \in flags
    BY <1>1, <2>2 DEF Verdict, BayesianVerdictHasCause, FlagsInv
  <2>3. CASE flags \cap Signals = {}
    <3>1. Count("failed") > 0 => flags' \cap {"cancelled", "paused"} = {}
      BY <1>1, <2>3 DEF Signals
    <3>2. CASE "infra" \in flags
      <4>1. Verdict = "failed"
        <5>1. Tallied \in {"complete", "partial", "failed"}
          BY DEF Tallied, ComputeFinalStatus
        <5>2. rows # <<>>
          BY <1>1, <3>2 DEF FlagsInv
        <5> QED
          BY <2>3, <3>2, <5>1, <5>2 DEF Verdict, Signals
      <4> QED
        BY <1>1, <1>3, <1>4, <2>3, <3>1, <3>2, <4>1 DEF BayesianVerdictHasCause
    <3>3. CASE "infra" \notin flags /\ rows = <<>>
      BY <1>1, <2>3, <3>3 DEF Verdict, BayesianVerdictHasCause, Signals
    <3>4. CASE "infra" \notin flags /\ rows # <<>>
      <4>1. Verdict = Tallied
        BY <2>3, <3>4 DEF Verdict, Signals
      <4>2. Len(rows) > 0 /\ Len(rows) \in Nat
        BY <1>1, <3>4 DEF Types
      <4>3. \/ /\ Tallied = "complete" /\ Count("complete") + Unrecorded = Len(rows)
            \/ /\ Tallied = "failed" /\ Count("failed") > 0
            \/ /\ Tallied = "partial" /\ Count("complete") > 0 /\ Count("failed") > 0
        BY <1>3, <2>3, <4>2, PlannedIsPositive DEF Tallied, ComputeFinalStatus
      <4> QED
        BY <1>1, <1>3, <1>4, <3>1, <3>4, <4>1, <4>3 DEF BayesianVerdictHasCause
    <3> QED
      BY <3>2, <3>3, <3>4
  <2> QED
    BY <2>1, <2>2, <2>3 DEF Signals
<1> QED
  BY <1>2, <1>5 DEF Inv

-----------------------------------------------------------------------------
(* The first moments of a sweep, and its end without a verdict.            *)
LEMMA BeginKeepsInv == Inv /\ (Begin \/ BeginRaises) => Inv'
<1> SUFFICES ASSUME Inv, Begin \/ BeginRaises PROVE Inv'
  OBVIOUS
<1>1. /\ at = "queued" /\ at' \in {"asking", "left"}
      /\ UNCHANGED <<rows, log, visited, trial, flags, events>>
      /\ faults' \in {faults, faults + 1}
  BY DEF Begin, BeginRaises
<1>2. /\ faults' \in Nat /\ faults' >= faults
      /\ events' \in SUBSET {"cancel", "pause"}
      /\ flags' \in SUBSET {"cancelled", "paused", "stop", "infra"}
  BY <1>1 DEF Inv, Types
<1> QED
  BY <1>1, <1>2, QuietKeepsInv

(* Every step keeps the invariant.                                         *)
LEMMA NextKeepsInv == Inv /\ [Next]_vars => Inv'
<1> SUFFICES ASSUME Inv, [Next]_vars PROVE Inv'
  OBVIOUS
<1>t. Types
  BY DEF Inv
<1>1. CASE Begin \/ BeginRaises
  BY <1>1, BeginKeepsInv
<1>2. CASE StopAsking
  BY <1>2, <1>t, QuietKeepsInv DEF StopAsking, Types
<1>3. ASSUME NEW c \in Candidates, Prune(c) PROVE Inv'
  BY <1>3, PruneKeepsInv
<1>4. ASSUME NEW c \in Candidates, Ask(c) PROVE Inv'
  BY <1>4, AskKeepsInv
<1>5. CASE GiveUp
  BY <1>5, GiveUpKeepsInv
<1>6. CASE CheckTrial
  BY <1>6, <1>t, QuietKeepsInv DEF CheckTrial, Types
<1>7. CASE TrialRaises
  BY <1>7, <1>t, QuietKeepsInv DEF TrialRaises, Types
<1>8. CASE StartRun \/ StartRaises
  BY <1>8, StartRunKeepsInv, StartRaisesKeepsInv
<1>9. CASE CompleteRun
  BY <1>9, <1>t, EndRunKeepsInv DEF CompleteRun, EndPhases, EndStates, Types
<1>10. CASE FailRun
  BY <1>10, <1>t, EndRunKeepsInv DEF FailRun, OnError, EndPhases, EndStates, Types
<1>11. CASE SieOutage
  BY <1>11, <1>t, EndRunKeepsInv DEF SieOutage, EndPhases, EndStates, Types
<1>12. CASE ScoreFails
  BY <1>12, <1>t, EndRunKeepsInv DEF ScoreFails, OnError, EndPhases, EndStates, Types
<1>13. CASE InterruptRun
  <2>1. /\ Noticed \in Signals
        /\ Noticed = "cancelled" => "cancel" \in events
        /\ Noticed = "paused" => "pause" \in events
    BY <1>13, <1>t, NoticedHasItsEvent DEF InterruptRun
  <2> QED
    BY <1>13, <1>t, <2>1, EndRunKeepsInv DEF InterruptRun, EndPhases, EndStates, Signals, Types
<1>14. CASE CheckBetween
  <2>0. /\ at = "between" /\ at' \in {"asking", "finalising"}
        /\ UNCHANGED <<rows, log, visited, trial, events, faults>>
        /\ faults' \in Nat /\ faults' >= faults
    BY <1>14, <1>t DEF CheckBetween, Types
  <2>1. CASE events = {}
    <3>1. flags' = flags
      BY <1>14, <2>1 DEF CheckBetween
    <3> QED
      BY <1>t, <2>0, <3>1, QuietKeepsInv DEF Types
  <2>2. CASE events # {}
    <3>1. /\ Noticed \in Signals
          /\ Noticed = "cancelled" => "cancel" \in events
          /\ Noticed = "paused" => "pause" \in events
      BY <1>t, <2>2, NoticedHasItsEvent
    <3>2. flags' = flags \cup {Noticed}
      BY <1>14, <2>2 DEF CheckBetween
    <3> QED
      BY <1>t, <2>0, <3>1, <3>2, QuietKeepsInv DEF Types, Signals
  <2> QED
    BY <2>1, <2>2
<1>15. CASE Finalise
  BY <1>15, FinaliseKeepsInv
<1>16. CASE FinaliseRaises
  BY <1>16, <1>t, QuietKeepsInv DEF FinaliseRaises, Types
<1>17. CASE Cancel \/ Pause
  <2>1. /\ at' = at /\ at \notin {"over", "left"}
        /\ UNCHANGED <<rows, log, visited, trial, flags, faults>>
        /\ events \subseteq events' /\ events' \in SUBSET {"cancel", "pause"}
    BY <1>17, <1>t DEF Cancel, Pause, Types
  <2>2. Types' /\ FlagsInv' /\ RowsInv' /\ OneEntryInv' /\ CountsInv'
    BY <2>1 DEF Inv, Types, FlagsInv, RowsInv, OneEntryInv, CountsInv, Running
  <2> QED
    BY <2>1, <2>2 DEF Inv, BayesianVerdictHasCause
<1>18. CASE UNCHANGED vars
  <2>1. Types' /\ FlagsInv' /\ RowsInv' /\ OneEntryInv' /\ CountsInv'
    BY <1>18 DEF vars, Inv, Types, FlagsInv, RowsInv, OneEntryInv, CountsInv, Running
  <2>2. /\ Count("complete")' = Count("complete") /\ Count("failed")' = Count("failed")
        /\ Unrecorded' = Unrecorded
    BY <1>18 DEF vars, Count, Unrecorded
  <2>3. BayesianVerdictHasCause'
    BY <1>18, <2>2 DEF vars, Inv, BayesianVerdictHasCause
  <2> QED
    BY <2>1, <2>3 DEF Inv
<1>19. CASE LoseRun
  BY <1>19, <1>t, EndRunKeepsInv DEF LoseRun, OnError, EndStates, Types
<1> QED
  BY <1>1, <1>2, <1>3, <1>4, <1>5, <1>6, <1>7, <1>8, <1>9, <1>10, <1>11, <1>12, <1>13, <1>14,
     <1>15, <1>16, <1>17, <1>18, <1>19 DEF Next, Sweep

LEMMA InvHolds == Spec => []Inv
BY InitInv, NextKeepsInv, PTL DEF Spec

(* The verdict a Bayesian sweep writes has a cause, for every search       *)
(* space, plan, moment of a cancel or pause and number of storage errors,  *)
(* those of the inserts and of the terminal writes included: COMPLETE      *)
(* means every run that was started is complete but for one run per such   *)
(* error, FAILED and PARTIAL that some failed, PAUSED and CANCELLED that   *)
(* someone asked or that nothing could be started.                         *)
THEOREM VerdictHasCause == Spec => []BayesianVerdictHasCause
BY InvHolds, PTL DEF Inv

(* When a Bayesian sweep is over its trial log and its rows agree: no      *)
(* candidate ran twice, every run has its entry and every "completed" its  *)
(* complete row, the plan was not overrun, and each run without a row,     *)
(* with a row left live or complete without its score cost the storage an  *)
(* error of its own.                                                       *)
THEOREM LogMatchesRows == Spec => []TrialLogMatchesRows
<1>1. Inv => TrialLogMatchesRows
  <2> SUFFICES ASSUME Inv, at \in {"over", "left"} PROVE TrialLogMatchesRows
    BY DEF TrialLogMatchesRows
  <2>1. \A i, j \in Unpruned : log[i].candidate = log[j].candidate => i = j
    BY UnprunedIsLogs DEF Inv, OneEntryInv
  <2>2. /\ Count("complete") = Cardinality(Positions(rows, {"complete"}))
        /\ Unrecorded = Cardinality(Positions(rows, Open))
        /\ Running = 0
    BY DEF Count, Unrecorded, Positions, Open, Running
  <2>3. /\ Count("complete") \in Nat /\ Unrecorded \in Nat /\ faults \in Nat
        /\ Len(rows) \in Nat
    BY <2>2, CountsAreNumbers DEF Inv, Types
  <2>4. /\ Cardinality(Entries("completed")) \in Nat
        /\ Cardinality(Unpruned) \in Nat
    BY UnprunedIsLogs, CompletedIsLogs, PositionsAreFinite DEF Inv, Types, Logs
  <2>5. Cardinality(Unpruned) >= Attempted
    BY <2>2, <2>3, <2>4, UnprunedIsLogs DEF Inv, CountsInv, Attempted
  <2>6. Unscored >= 0 /\ Unrecorded + Unscored <= faults
    BY <2>2, <2>3, <2>4, CompletedIsLogs DEF Inv, CountsInv, Unscored
  <2>7. Discarded >= 0
    BY PlannedIsPositive DEF Inv, Types, RowsInv, Discarded, Attempted
  <2> QED
    BY <2>1, <2>5, <2>6, <2>7 DEF TrialLogMatchesRows
<1> QED
  BY <1>1, InvHolds, PTL
=============================================================================
