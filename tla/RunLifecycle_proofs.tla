------------------------ MODULE RunLifecycle_proofs ------------------------
(***************************************************************************)
(* Proofs about RunLifecycle, for every set of runs, every age bound and   *)
(* every number of stops.  The inductive invariant of a run's outcome is   *)
(* OutcomeInv: it ties where the executor stands to what has been recorded *)
(* and to what memory holds.                                               *)
(***************************************************************************)
EXTENDS RunLifecycle, TLAPS

\* Type correctness: no step of the executor, the checkpoint task, the sweeper or
\* startup takes a variable out of its type.
THEOREM TypeCorrect == Spec => []TypeOK
<1> USE RowsAssumption, AgesAssumption, DbAssumption, StopsAssumption
    DEF Terminal, Unfinished, Gates, Executing, Stages
<1>1. Init => TypeOK
  BY DEF Init, TypeOK
<1>2. TypeOK /\ [Next]_vars => TypeOK'
  <2> SUFFICES ASSUME TypeOK, [Next]_vars PROVE TypeOK'
    OBVIOUS
  <2> USE DEF TypeOK, GoTo, SetMem, memVars, rowVars, resultVars, activeVars
  <2>1. CASE Tick
    BY <2>1 DEF Tick, Older
  <2>2. CASE Sweep
    BY <2>2 DEF Sweep
  <2>3. CASE Stop
    BY <2>3 DEF Stop
  <2>4. CASE RecoverRows
    BY <2>4 DEF RecoverRows
  <2>5. CASE Rehydrate
    BY <2>5 DEF Rehydrate, Leftovers
  <2>6. ASSUME NEW r \in Runs, Trigger(r) PROVE TypeOK'
    BY <2>6 DEF Trigger
  <2>7. ASSUME NEW r \in Runs, TriggerAtdd(r) PROVE TypeOK'
    BY <2>7 DEF TriggerAtdd
  <2>8. ASSUME NEW r \in Runs, Execute(r) PROVE TypeOK'
    <3>1. CASE InsertAtdd(r)
      BY <3>1 DEF InsertAtdd
    <3>2. CASE Refuse(r)
      BY <3>2 DEF Refuse
    <3>3. CASE Start(r)
      BY <3>3 DEF Start
    <3>4. CASE MarkRunning(r)
      BY <3>4 DEF MarkRunning
    <3>5. CASE AbortPreflight(r)
      BY <3>5 DEF AbortPreflight
    <3>6. CASE Complete(r)
      BY <3>6 DEF Complete
    <3>7. CASE DecideGate(r)
      BY <3>7 DEF DecideGate
    <3>8. CASE Crash(r)
      BY <3>8 DEF Crash
    <3>9. CASE PersistRow(r)
      <4>1. exec' \in [Runs -> Stages]
        BY <3>9 DEF PersistRow
      <4>2. row' \in [Runs -> Terminal \cup Unfinished \cup {"none"}]
        BY <3>9 DEF PersistRow
      <4>3. rowGate' \in [Runs -> Gates]
        BY <3>9 DEF PersistRow
      <4>4. recorded' \in [Runs -> Terminal \cup {"none"}]
        BY <3>9 DEF PersistRow
      <4>5. UNCHANGED <<boot, ckpt, memVars, rowAge, resultVars, activeVars, stops>>
        BY <3>9 DEF PersistRow
      <4>6. QED
        BY <4>1, <4>2, <4>3, <4>4, <4>5
    <3>10. CASE PersistResults(r)
      <4> DEFINE written == Survivors(IF mem[r] = "completed" THEN BadRows[r] ELSE {})
      <4>1. written \subseteq 1..NumRows
        BY DEF Survivors
      <4>2. /\ results' = [results EXCEPT ![r] = written] \/ results' = results
            /\ resultAge' = [resultAge EXCEPT ![r] = IF written = {} THEN @ ELSE 0] \/ resultAge' = resultAge
            /\ exec' = [exec EXCEPT ![r] = "dropping"]
            /\ UNCHANGED <<boot, ckpt, memVars, rowVars, activeVars, recorded, stops>>
        BY <3>10 DEF PersistResults
      <4> HIDE DEF written
      <4>3. results' \in [Runs -> SUBSET (1..NumRows)]
        BY <4>1, <4>2
      <4>4. resultAge' \in [Runs -> 0..AgeCap]
        BY <4>2
      <4>5. QED
        BY <4>2, <4>3, <4>4
    <3>11. CASE DropActive(r)
      BY <3>11 DEF DropActive
    <3>12. QED
      BY <2>8, <3>1, <3>2, <3>3, <3>4, <3>5, <3>6, <3>7, <3>8, <3>9, <3>10, <3>11 DEF Execute
  <2>9. ASSUME NEW r \in Runs, CheckpointRead(r) PROVE TypeOK'
    BY <2>9 DEF CheckpointRead
  <2>10. ASSUME NEW r \in Runs, CheckpointWrite(r) PROVE TypeOK'
    BY <2>10 DEF CheckpointWrite
  <2>11. CASE UNCHANGED vars
    BY <2>11 DEF vars
  <2>12. QED
    BY <2>1, <2>2, <2>3, <2>4, <2>5, <2>6, <2>7, <2>8, <2>9, <2>10, <2>11 DEF Next
<1>3. QED
  BY <1>1, <1>2, PTL DEF Spec

-----------------------------------------------------------------------------
(* The outcome of a run.                                                     *)

\* Before its executor commits transaction 1 a run has no recorded outcome, after
\* it the outcome is what the row says; a row only exists once the trigger has
\* inserted it.
RecordInv ==
    \A r \in Runs :
        /\ recorded[r] # "none" => row[r] = recorded[r]
        /\ exec[r] \in Executing \cup {"unborn", "inserting", "parked"} => recorded[r] = "none"
        /\ exec[r] \in {"reporting", "dropping"} => recorded[r] # "none"
        /\ exec[r] \in {"unborn", "inserting"} => row[r] = "none"

\* Only a run that memory calls completed can have a PASS to record, and while
\* the process is starting no executor is left.
GateInv ==
    \A r \in Runs :
        /\ exec[r] = "finalized" => mem[r] = "completed"
        /\ memGate[r] = "PASS" =>
              mem[r] = "completed" /\ exec[r] \in {"persisting", "reporting", "dropping", "done"}
        /\ boot # "up" => memGate[r] = "none" /\ exec[r] \in {"unborn", "dead"}

OutcomeInv == RecordInv /\ GateInv /\ PassMeansCompleted /\ ResultsOnlyWhenRecorded

\* No step of the executor, the sweeper or startup separates the row from the
\* recorded outcome.
LEMMA RecordStep == TypeOK /\ RecordInv /\ [Next]_vars => RecordInv'
<1> SUFFICES ASSUME TypeOK, RecordInv, [Next]_vars PROVE RecordInv'
  OBVIOUS
<1> USE DEF TypeOK, RecordInv, GoTo, Executing, Stages, Terminal, Unfinished, rowVars
<1>1. CASE Tick
  BY <1>1 DEF Tick
<1>2. CASE Sweep
  BY <1>2 DEF Sweep, Orphans
<1>3. CASE Stop
  BY <1>3 DEF Stop
<1>4. CASE RecoverRows
  BY <1>4 DEF RecoverRows
<1>5. CASE Rehydrate
  BY <1>5 DEF Rehydrate
<1>6. ASSUME NEW r \in Runs, Trigger(r) PROVE RecordInv'
  BY <1>6 DEF Trigger
<1>7. ASSUME NEW r \in Runs, TriggerAtdd(r) PROVE RecordInv'
  BY <1>7 DEF TriggerAtdd
<1>8. ASSUME NEW r \in Runs, Execute(r) PROVE RecordInv'
  <2>1. CASE InsertAtdd(r)
    BY <2>1 DEF InsertAtdd
  <2>2. CASE Refuse(r)
    BY <2>2 DEF Refuse
  <2>3. CASE Start(r)
    BY <2>3 DEF Start
  <2>4. CASE MarkRunning(r)
    BY <2>4 DEF MarkRunning
  <2>5. CASE AbortPreflight(r)
    BY <2>5 DEF AbortPreflight
  <2>6. CASE Complete(r)
    BY <2>6 DEF Complete
  <2>7. CASE DecideGate(r)
    BY <2>7 DEF DecideGate
  <2>8. CASE Crash(r)
    BY <2>8 DEF Crash
  <2>9. CASE PersistRow(r)
    BY <2>9 DEF PersistRow
  <2>10. CASE PersistResults(r)
    BY <2>10 DEF PersistResults
  <2>11. CASE DropActive(r)
    BY <2>11 DEF DropActive
  <2>12. QED
    BY <1>8, <2>1, <2>2, <2>3, <2>4, <2>5, <2>6, <2>7, <2>8, <2>9, <2>10, <2>11 DEF Execute
<1>9. ASSUME NEW r \in Runs, CheckpointRead(r) PROVE RecordInv'
  BY <1>9 DEF CheckpointRead
<1>10. ASSUME NEW r \in Runs, CheckpointWrite(r) PROVE RecordInv'
  BY <1>10 DEF CheckpointWrite
<1>11. CASE UNCHANGED vars
  BY <1>11 DEF vars
<1>12. QED
  BY <1>1, <1>2, <1>3, <1>4, <1>5, <1>6, <1>7, <1>8, <1>9, <1>10, <1>11 DEF Next

\* A PASS in memory is set after completion, and is not carried across a restart.
LEMMA GateStep == TypeOK /\ GateInv /\ [Next]_vars => GateInv'
<1> SUFFICES ASSUME TypeOK, GateInv, [Next]_vars PROVE GateInv'
  OBVIOUS
<1> USE DEF TypeOK, GateInv, GoTo, SetMem, memVars
<1>1. CASE Tick
  BY <1>1 DEF Tick
<1>2. CASE Sweep
  BY <1>2 DEF Sweep
<1>3. CASE Stop
  BY <1>3 DEF Stop
<1>4. CASE RecoverRows
  BY <1>4 DEF RecoverRows
<1>5. CASE Rehydrate
  BY <1>5 DEF Rehydrate
<1>6. ASSUME NEW r \in Runs, Trigger(r) PROVE GateInv'
  BY <1>6 DEF Trigger
<1>7. ASSUME NEW r \in Runs, TriggerAtdd(r) PROVE GateInv'
  BY <1>7 DEF TriggerAtdd
<1>8. ASSUME NEW r \in Runs, Execute(r) PROVE GateInv'
  <2>1. CASE InsertAtdd(r)
    BY <2>1 DEF InsertAtdd
  <2>2. CASE Refuse(r)
    BY <2>2 DEF Refuse
  <2>3. CASE Start(r)
    BY <2>3 DEF Start
  <2>4. CASE MarkRunning(r)
    BY <2>4 DEF MarkRunning
  <2>5. CASE AbortPreflight(r)
    BY <2>5 DEF AbortPreflight
  <2>6. CASE Complete(r)
    BY <2>6 DEF Complete
  <2>7. CASE DecideGate(r)
    BY <2>7 DEF DecideGate
  <2>8. CASE Crash(r)
    BY <2>8 DEF Crash
  <2>9. CASE PersistRow(r)
    BY <2>9 DEF PersistRow
  <2>10. CASE PersistResults(r)
    BY <2>10 DEF PersistResults
  <2>11. CASE DropActive(r)
    BY <2>11 DEF DropActive
  <2>12. QED
    BY <1>8, <2>1, <2>2, <2>3, <2>4, <2>5, <2>6, <2>7, <2>8, <2>9, <2>10, <2>11 DEF Execute
<1>9. ASSUME NEW r \in Runs, CheckpointRead(r) PROVE GateInv'
  BY <1>9 DEF CheckpointRead
<1>10. ASSUME NEW r \in Runs, CheckpointWrite(r) PROVE GateInv'
  BY <1>10 DEF CheckpointWrite
<1>11. CASE UNCHANGED vars
  BY <1>11 DEF vars
<1>12. QED
  BY <1>1, <1>2, <1>3, <1>4, <1>5, <1>6, <1>7, <1>8, <1>9, <1>10, <1>11 DEF Next

-----------------------------------------------------------------------------
(* The outcome a run leaves in the tables.                                   *)

\* The recorded outcome is set by transaction 1 alone, and stays.
LEMMA PassStep ==
    TypeOK /\ RecordInv /\ GateInv /\ PassMeansCompleted /\ [Next]_vars => PassMeansCompleted'
<1> SUFFICES ASSUME TypeOK, RecordInv, GateInv, PassMeansCompleted, [Next]_vars,
                    NEW q \in Runs, rowGate'[q] = "PASS"
             PROVE  row'[q] = "completed" /\ recorded'[q] = "completed"
  BY DEF PassMeansCompleted
<1> USE DEF TypeOK, PassMeansCompleted, RecordInv, Executing, Unfinished, rowVars
<1>1. CASE Tick
  BY <1>1 DEF Tick
<1>2. CASE Sweep
  BY <1>2 DEF Sweep, Orphans
<1>3. CASE Stop
  BY <1>3 DEF Stop
<1>4. CASE RecoverRows
  BY <1>4 DEF RecoverRows
<1>5. CASE Rehydrate
  BY <1>5 DEF Rehydrate
<1>6. ASSUME NEW r \in Runs, Trigger(r)
      PROVE  row'[q] = "completed" /\ recorded'[q] = "completed"
  BY <1>6 DEF Trigger
<1>7. ASSUME NEW r \in Runs, TriggerAtdd(r)
      PROVE  row'[q] = "completed" /\ recorded'[q] = "completed"
  BY <1>7 DEF TriggerAtdd
<1>8. ASSUME NEW r \in Runs, Execute(r)
      PROVE  row'[q] = "completed" /\ recorded'[q] = "completed"
  <2>1. CASE InsertAtdd(r)
    BY <2>1 DEF InsertAtdd
  <2>2. CASE Refuse(r)
    BY <2>2 DEF Refuse
  <2>3. CASE Start(r)
    BY <2>3 DEF Start
  <2>4. CASE MarkRunning(r)
    BY <2>4 DEF MarkRunning
  <2>5. CASE AbortPreflight(r)
    BY <2>5 DEF AbortPreflight
  <2>6. CASE Complete(r)
    BY <2>6 DEF Complete
  <2>7. CASE DecideGate(r)
    BY <2>7 DEF DecideGate
  <2>8. CASE Crash(r)
    BY <2>8 DEF Crash
  <2>9. CASE PersistRow(r)
    BY <2>9 DEF PersistRow, GateInv
  <2>10. CASE PersistResults(r)
    BY <2>10 DEF PersistResults
  <2>11. CASE DropActive(r)
    BY <2>11 DEF DropActive
  <2>12. QED
    BY <1>8, <2>1, <2>2, <2>3, <2>4, <2>5, <2>6, <2>7, <2>8, <2>9, <2>10, <2>11 DEF Execute
<1>9. ASSUME NEW r \in Runs, CheckpointRead(r) \/ CheckpointWrite(r)
      PROVE  row'[q] = "completed" /\ recorded'[q] = "completed"
  BY <1>9 DEF CheckpointRead, CheckpointWrite
<1>10. CASE UNCHANGED vars
  BY <1>10 DEF vars
<1>11. QED
  BY <1>1, <1>2, <1>3, <1>4, <1>5, <1>6, <1>7, <1>8, <1>9, <1>10 DEF Next

\* Only PersistResults writes result rows, and it runs after transaction 1.
LEMMA ResultsStep ==
    TypeOK /\ RecordInv /\ ResultsOnlyWhenRecorded /\ [Next]_vars => ResultsOnlyWhenRecorded'
<1> SUFFICES ASSUME TypeOK, RecordInv, ResultsOnlyWhenRecorded, [Next]_vars,
                    NEW q \in Runs
             PROVE  results'[q] # {} => recorded'[q] # "none"
  BY DEF ResultsOnlyWhenRecorded
<1> USE DEF TypeOK, ResultsOnlyWhenRecorded
<1>1. ASSUME NEW r \in Runs, PersistRow(r)
      PROVE  results'[q] # {} => recorded'[q] # "none"
  BY <1>1 DEF PersistRow, resultVars
<1>2. ASSUME NEW r \in Runs, PersistResults(r)
      PROVE  results'[q] # {} => recorded'[q] # "none"
  <2>1. recorded' = recorded /\ \E w : results' = [results EXCEPT ![r] = w] \/ results' = results
    BY <1>2 DEF PersistResults, resultVars
  <2>2. recorded[r] # "none"
    BY <1>2 DEF PersistResults, RecordInv
  <2>3. QED
    BY <2>1, <2>2
<1>3. CASE UNCHANGED <<results, recorded>>
  BY <1>3
<1>4. ASSUME NEW r \in Runs, Execute(r)
      PROVE  results'[q] # {} => recorded'[q] # "none"
  BY <1>1, <1>2, <1>3, <1>4
     DEF Execute, InsertAtdd, Refuse, Start, MarkRunning, AbortPreflight, Complete,
         DecideGate, Crash, DropActive, resultVars
<1>5. QED
  BY <1>3, <1>4
     DEF Next, Tick, Sweep, Stop, RecoverRows, Rehydrate, Trigger, TriggerAtdd,
         CheckpointRead, CheckpointWrite, resultVars, vars

\* The inductive invariant: where each executor stands, what memory says of its
\* gate, and what the tables hold of its outcome fit together.
THEOREM OutcomeInductive == Spec => [](TypeOK /\ OutcomeInv)
<1>1. Init => OutcomeInv
  BY DEF Init, OutcomeInv, RecordInv, GateInv, PassMeansCompleted, ResultsOnlyWhenRecorded, Executing
<1>2. TypeOK /\ OutcomeInv /\ [Next]_vars => OutcomeInv'
  BY RecordStep, GateStep, PassStep, ResultsStep DEF OutcomeInv
<1>3. QED
  BY <1>1, <1>2, TypeCorrect, PTL DEF Spec

\* What an executor recorded is what test_runs says ever after (execution.py
\* 825-832, main.py 91-98).
THEOREM RecordedOutcomeCorrect == Spec => []RecordedOutcomeStands
<1>1. OutcomeInv => RecordedOutcomeStands
  BY DEF OutcomeInv, RecordInv, RecordedOutcomeStands
<1>2. QED
  BY <1>1, OutcomeInductive, PTL

\* A PASS in test_runs belongs to a completed run (execution.py 5506-5511, 13493).
THEOREM PassCorrect == Spec => []PassMeansCompleted
BY OutcomeInductive, PTL DEF OutcomeInv

\* Results never precede the outcome of their run (execution.py 13551-13553).
THEOREM ResultsCorrect == Spec => []ResultsOnlyWhenRecorded
BY OutcomeInductive, PTL DEF OutcomeInv

\* An active_runs row goes only after the outcome is in test_runs, or as an orphan
\* without a recent heartbeat (execution.py 752-757, 878-884).
THEOREM ActiveRowsCorrect == Spec => ActiveRowOutlivesRun
<1> DEFINE Gone == \A r \in active \ active' :
                      row[r] \in Terminal \/ (boot = "rehydrating" /\ beat[r] > RecoveryWindow)
<1>1. TypeOK /\ OutcomeInv /\ [Next]_vars => [Gone]_vars
  <2> SUFFICES ASSUME TypeOK, OutcomeInv, [Next]_vars, NEW q \in active \ active'
               PROVE  row[q] \in Terminal \/ (boot = "rehydrating" /\ beat[q] > RecoveryWindow)
    OBVIOUS
  <2>1. CASE Rehydrate
    BY <2>1 DEF Rehydrate, Leftovers
  <2>2. ASSUME NEW r \in Runs, DropActive(r)
        PROVE  row[q] \in Terminal
    <3>1. q = r /\ exec[r] = "dropping"
      BY <2>2 DEF DropActive
    <3>2. recorded[r] # "none" /\ row[r] = recorded[r]
      BY <3>1, <2>2 DEF OutcomeInv, RecordInv
    <3>3. recorded[r] \in Terminal \cup {"none"}
      BY <2>2 DEF TypeOK
    <3>4. QED
      BY <3>1, <3>2, <3>3
  <2>3. CASE active \subseteq active'
    BY <2>3
  <2>4. QED
    BY <2>1, <2>2, <2>3
       DEF Next, Execute, Tick, Sweep, Stop, RecoverRows, Trigger, TriggerAtdd, InsertAtdd,
           Refuse, Start, MarkRunning, AbortPreflight, Complete, DecideGate, Crash, PersistRow,
           PersistResults, CheckpointRead, CheckpointWrite, activeVars, vars
<1>2. QED
  BY <1>1, OutcomeInductive, PTL DEF Spec, ActiveRowOutlivesRun

-----------------------------------------------------------------------------
(* Refinement: the row and the recorded outcome behave as RunLedger says.    *)

\* Every step is a step of the ledger, or leaves it alone: the two inserts
\* register the run, MarkRunning starts it, transaction 1 records its outcome, and
\* the sweeper and startup recovery give rows up.
LEMMA LedgerStep == TypeOK /\ RecordInv /\ [Next]_vars => [Ledger!Next]_(Ledger!vars)
<1> SUFFICES ASSUME TypeOK, RecordInv, [Next]_vars PROVE [Ledger!Next]_(Ledger!vars)
  OBVIOUS
<1> USE DEF Ledger!vars, rowVars
<1>1. CASE UNCHANGED <<row, recorded>>
  BY <1>1
<1>2. ASSUME NEW S \in SUBSET {r \in Runs : row[r] \in Unfinished},
             row' = [r \in Runs |-> IF r \in S THEN "failed" ELSE row[r]],
             UNCHANGED recorded
      PROVE  Ledger!Next
  BY <1>2 DEF Ledger!Next, Ledger!GiveUp, Unfinished
<1>3. CASE Sweep
  <2>1. Orphans \in SUBSET {r \in Runs : row[r] \in Unfinished}
    BY DEF Orphans, Unfinished
  <2>2. QED
    BY <1>3, <2>1, <1>2 DEF Sweep
<1>4. CASE RecoverRows
  <2> DEFINE lost == {r \in Runs : row[r] \in Unfinished}
  <2>1. CASE UNCHANGED row
    BY <2>1, <1>4, <1>1 DEF RecoverRows
  <2>2. CASE row' = [r \in Runs |-> IF row[r] \in Unfinished THEN "failed" ELSE row[r]]
    <3>1. row' = [r \in Runs |-> IF r \in lost THEN "failed" ELSE row[r]]
      BY <2>2
    <3>2. QED
      BY <3>1, <1>4, <1>2 DEF RecoverRows
  <2>3. QED
    BY <1>4, <2>1, <2>2 DEF RecoverRows
<1>5. ASSUME NEW r \in Runs, Trigger(r) \/ InsertAtdd(r)
      PROVE  [Ledger!Next]_(Ledger!vars)
  <2>1. row[r] = "none" /\ recorded[r] = "none"
    BY <1>5 DEF Trigger, InsertAtdd, RecordInv
  <2>2. QED
    BY <1>5, <2>1 DEF Trigger, InsertAtdd, Ledger!Next, Ledger!Register
<1>6. ASSUME NEW r \in Runs, MarkRunning(r)
      PROVE  [Ledger!Next]_(Ledger!vars)
  <2>1. recorded[r] = "none"
    BY <1>6 DEF MarkRunning, RecordInv, Executing
  <2>2. QED
    BY <1>6, <2>1 DEF MarkRunning, Ledger!Next, Ledger!Start
<1>7. ASSUME NEW r \in Runs, PersistRow(r)
      PROVE  [Ledger!Next]_(Ledger!vars)
  <2>1. recorded[r] = "none"
    BY <1>7 DEF PersistRow, RecordInv, Executing
  <2>2. QED
    BY <1>7, <2>1 DEF PersistRow, Ledger!Next, Ledger!Record, Ledger!Outcomes
<1>8. QED
  BY <1>1, <1>3, <1>4, <1>5, <1>6, <1>7
     DEF Next, Execute, Tick, Stop, Rehydrate, TriggerAtdd, Refuse, Start, AbortPreflight,
         Complete, DecideGate, Crash, PersistResults, DropActive, CheckpointRead,
         CheckpointWrite, vars

\* The lifecycle implements the ledger: whoever writes test_runs, only the run's
\* executor records an outcome, and nobody revises one (execution.py 13498-13527,
\* 822-844; main.py 90-103).
THEOREM ImplementsLedger == Spec => LedgerSpec
<1>1. Init => Ledger!Init
  BY DEF Init, Ledger!Init
<1>2. QED
  BY <1>1, LedgerStep, OutcomeInductive, PTL DEF Spec, LedgerSpec, Ledger!Spec, OutcomeInv

-----------------------------------------------------------------------------
(* What memory, the result rows and the sweep may still say once an outcome  *)
(* is recorded.                                                              *)

\* A run whose outcome is in test_runs is known in memory by that outcome or not at
\* all: startup never brings it back as running, although its checkpoint row may
\* have outlived it (execution.py 848-884; the checkpoint task writes after it
\* looked, 752-757).
MemoryAgrees == \A r \in Runs : recorded[r] # "none" => mem[r] \in {"none", recorded[r]}

\* What a refused row takes with it (execution.py 14031, where the comment says
\* only itself): the rows before it, and nothing else.  No row after the last
\* refused one is lost, a run that failed loses none, and what is there is no
\* refused row.
ResultsAreTail ==
    \A r \in Runs : results[r] # {} =>
        /\ \A i \in results[r] : i..NumRows \subseteq results[r]
        /\ recorded[r] = "failed" => results[r] = 1..NumRows
        /\ recorded[r] = "completed" =>
              /\ results[r] \cap BadRows[r] = {}
              /\ \A i \in (1..NumRows) \ results[r] : i..NumRows \cap BadRows[r] # {}

\* A row that does not say "running" and whose executor is past marking it.
Settled(r) ==
    row[r] # "running" /\ exec[r] \notin {"unborn", "inserting", "starting", "marking"}

\* What is settled stays settled: no executor is started twice, and neither a
\* restart nor a rehydrated run without an executor marks a row as running again
\* (execution.py 822-884).  RunningRowsSettle rests on it.
SettledForEver == \A r \in Runs : [](Settled(r) => []Settled(r))

\* What the executor is about to record is what memory holds, and what it has
\* written is what the last refused row leaves of the batch.
MemInv ==
    \A r \in Runs :
        /\ exec[r] = "persisting" => mem[r] \in Terminal
        /\ recorded[r] # "none" => mem[r] \in {"none", recorded[r]}
        /\ exec[r] \in {"reporting", "dropping"} => mem[r] = recorded[r]

WrittenInv ==
    \A r \in Runs : results[r] # {} =>
        results[r] = Survivors(IF recorded[r] = "completed" THEN BadRows[r] ELSE {})

\* No step separates memory from the recorded outcome.
LEMMA MemStep == TypeOK /\ OutcomeInv /\ MemInv /\ [Next]_vars => MemInv'
<1> SUFFICES ASSUME TypeOK, RecordInv, GateInv, MemInv, [Next]_vars PROVE MemInv'
  BY DEF OutcomeInv
<1> USE DEF TypeOK, MemInv, RecordInv, GoTo, SetMem, Executing, Stages, Terminal, memVars
<1>1. CASE UNCHANGED <<exec, mem, recorded>>
  BY <1>1
<1>2. CASE Stop
  BY <1>2 DEF Stop
<1>3. CASE Rehydrate
  <2>1. /\ boot = "rehydrating"
        /\ exec' = exec /\ recorded' = recorded
        /\ \A q \in Runs : mem'[q] \in {"none", "running", mem[q]}
        /\ \A q \in Runs : mem'[q] = "running" =>
              mem[q] = "running" \/ row[q] \notin Terminal
    BY <1>3 DEF Rehydrate, Leftovers
  <2>2. \A q \in Runs : exec[q] \notin {"persisting", "reporting", "dropping"}
    BY <2>1 DEF GateInv
  <2>3. \A q \in Runs : recorded[q] # "none" => row[q] \in Terminal
    OBVIOUS
  <2>4. QED
    BY <2>1, <2>2, <2>3
<1>4. ASSUME NEW r \in Runs, Trigger(r) \/ TriggerAtdd(r) PROVE MemInv'
  BY <1>4 DEF Trigger, TriggerAtdd
<1>5. ASSUME NEW r \in Runs, Execute(r) PROVE MemInv'
  <2>1. CASE InsertAtdd(r)
    BY <2>1 DEF InsertAtdd
  <2>2. CASE Refuse(r)
    BY <2>2 DEF Refuse
  <2>3. CASE Start(r)
    BY <2>3 DEF Start
  <2>4. CASE MarkRunning(r)
    BY <2>4 DEF MarkRunning
  <2>5. CASE AbortPreflight(r)
    BY <2>5 DEF AbortPreflight
  <2>6. CASE Complete(r)
    BY <2>6 DEF Complete
  <2>7. CASE DecideGate(r)
    BY <2>7 DEF DecideGate, GateInv
  <2>8. CASE Crash(r)
    BY <2>8 DEF Crash
  <2>9. CASE PersistRow(r)
    BY <2>9 DEF PersistRow
  <2>10. CASE PersistResults(r)
    BY <2>10 DEF PersistResults
  <2>11. CASE DropActive(r)
    BY <2>11 DEF DropActive
  <2>12. QED
    BY <1>5, <2>1, <2>2, <2>3, <2>4, <2>5, <2>6, <2>7, <2>8, <2>9, <2>10, <2>11 DEF Execute
<1>6. QED
  BY <1>1, <1>2, <1>3, <1>4, <1>5
     DEF Next, Tick, Sweep, RecoverRows, CheckpointRead, CheckpointWrite, vars

\* Result rows are written once, for the outcome that is recorded.
LEMMA WrittenStep == TypeOK /\ OutcomeInv /\ MemInv /\ WrittenInv /\ [Next]_vars => WrittenInv'
<1> SUFFICES ASSUME TypeOK, OutcomeInv, MemInv, WrittenInv, [Next]_vars, NEW q \in Runs,
                    results'[q] # {}
             PROVE  results'[q] = Survivors(IF recorded'[q] = "completed" THEN BadRows[q] ELSE {})
  BY DEF WrittenInv
<1>1. CASE results'[q] = results[q] /\ recorded'[q] = recorded[q]
  BY <1>1 DEF WrittenInv
<1>2. ASSUME NEW r \in Runs, PersistRow(r)
      PROVE  results'[q] = Survivors(IF recorded'[q] = "completed" THEN BadRows[q] ELSE {})
  <2>1. results' = results /\ exec[r] = "persisting" /\ \A x \in Runs : x # r => recorded'[x] = recorded[x]
    BY <1>2 DEF PersistRow, resultVars, TypeOK
  <2>2. results[r] = {}
    BY <2>1 DEF OutcomeInv, RecordInv, Executing, ResultsOnlyWhenRecorded
  <2>3. q # r
    BY <2>1, <2>2
  <2>4. QED
    BY <1>1, <2>1, <2>3
<1>3. ASSUME NEW r \in Runs, PersistResults(r)
      PROVE  results'[q] = Survivors(IF recorded'[q] = "completed" THEN BadRows[q] ELSE {})
  <2> DEFINE written == Survivors(IF mem[r] = "completed" THEN BadRows[r] ELSE {})
  <2>1. /\ exec[r] = "reporting" /\ recorded' = recorded
        /\ results' = [results EXCEPT ![r] = written] \/ results' = results
    BY <1>3 DEF PersistResults, resultVars
  <2>2. mem[r] = recorded[r]
    BY <2>1 DEF MemInv
  <2>3. results \in [Runs -> SUBSET (1..NumRows)]
    BY DEF TypeOK
  <2>4. written = Survivors(IF recorded[r] = "completed" THEN BadRows[r] ELSE {})
    BY <2>2
  <2> HIDE DEF written
  <2>5. CASE q = r /\ results'[q] # results[q]
    <3>1. results'[q] = written
      BY <2>1, <2>3, <2>5
    <3>2. QED
      BY <2>1, <2>4, <2>5, <3>1
  <2>6. CASE q # r \/ results'[q] = results[q]
    <3>1. results'[q] = results[q]
      BY <2>1, <2>3, <2>6
    <3>2. QED
      BY <1>1, <2>1, <3>1
  <2>7. QED
    BY <2>5, <2>6
<1>4. QED
  BY <1>1, <1>2, <1>3
     DEF Next, Execute, Tick, Sweep, Stop, RecoverRows, Rehydrate, Trigger, TriggerAtdd,
         InsertAtdd, Refuse, Start, MarkRunning, AbortPreflight, Complete, DecideGate, Crash,
         DropActive, CheckpointRead, CheckpointWrite, resultVars, vars

\* Memory, the result rows and the recorded outcome fit together under every
\* failure and restart.
THEOREM RecordInductive == Spec => [](MemInv /\ WrittenInv)
<1>1. Init => MemInv /\ WrittenInv
  BY DEF Init, MemInv, WrittenInv
<1>2. QED
  BY <1>1, MemStep, WrittenStep, OutcomeInductive, PTL DEF Spec

\* Nothing that is recorded comes back as running, or as something else.
THEOREM MemoryAgreesHolds == Spec => []MemoryAgrees
<1>1. MemInv => MemoryAgrees
  BY DEF MemInv, MemoryAgrees
<1>2. QED
  BY <1>1, RecordInductive, PTL

\* A refused row takes the rows before it, and no other.
THEOREM ResultsAreTailHolds == Spec => []ResultsAreTail
<1>1. TypeOK /\ WrittenInv => ResultsAreTail
  <2> SUFFICES ASSUME TypeOK, WrittenInv, NEW r \in Runs, results[r] # {}
               PROVE  /\ \A i \in results[r] : i..NumRows \subseteq results[r]
                      /\ recorded[r] = "failed" => results[r] = 1..NumRows
                      /\ recorded[r] = "completed" =>
                            /\ results[r] \cap BadRows[r] = {}
                            /\ \A i \in (1..NumRows) \ results[r] : i..NumRows \cap BadRows[r] # {}
    BY DEF ResultsAreTail
  <2> USE RowsAssumption
  <2> DEFINE bad == IF recorded[r] = "completed" THEN BadRows[r] ELSE {}
  <2>1. results[r] = {i \in 1..NumRows : \A j \in i..NumRows : j \notin bad}
    BY DEF WrittenInv, Survivors
  <2> HIDE DEF bad
  <2>2. \A i \in results[r] : i..NumRows \subseteq results[r]
    <3> SUFFICES ASSUME NEW i \in results[r], NEW k \in i..NumRows
                 PROVE  k \in results[r]
      OBVIOUS
    <3>1. i \in 1..NumRows /\ k \in 1..NumRows /\ \A j \in k..NumRows : j \in i..NumRows
      BY <2>1
    <3>2. \A j \in k..NumRows : j \notin bad
      BY <2>1, <3>1
    <3>3. QED
      BY <2>1, <3>1, <3>2
  <2>3. ASSUME recorded[r] = "failed"
        PROVE  results[r] = 1..NumRows
    BY <2>1, <2>3 DEF bad
  <2>4. ASSUME recorded[r] = "completed"
        PROVE  /\ results[r] \cap BadRows[r] = {}
               /\ \A i \in (1..NumRows) \ results[r] : i..NumRows \cap BadRows[r] # {}
    <3>1. bad = BadRows[r]
      BY <2>4 DEF bad
    <3>2. \A i \in results[r] : i \in i..NumRows /\ i \notin bad
      BY <2>1
    <3>3. QED
      BY <2>1, <3>1, <3>2
  <2>5. QED
    BY <2>2, <2>3, <2>4
<1>2. QED
  BY <1>1, TypeCorrect, RecordInductive, PTL

\* A settled run stays settled, through every sweep, stop and restart.
THEOREM SettledForEverHolds == Spec => SettledForEver
<1> SUFFICES ASSUME NEW r \in Runs PROVE Spec => [](Settled(r) => []Settled(r))
  BY DEF SettledForEver
<1>1. TypeOK /\ RecordInv /\ Settled(r) /\ [Next]_vars => Settled(r)'
  <2> SUFFICES ASSUME TypeOK, RecordInv, Settled(r), [Next]_vars PROVE Settled(r)'
    OBVIOUS
  <2> USE DEF TypeOK, Settled, GoTo, Terminal, rowVars
  <2>1. CASE UNCHANGED <<row, exec>>
    BY <2>1
  <2>2. CASE Sweep \/ RecoverRows
    BY <2>2 DEF Sweep, RecoverRows
  <2>3. CASE Stop
    BY <2>3 DEF Stop
  <2>4. ASSUME NEW q \in Runs, Trigger(q) \/ TriggerAtdd(q)
        PROVE  Settled(r)'
    BY <2>4 DEF Trigger, TriggerAtdd
  <2>5. ASSUME NEW q \in Runs, Execute(q)
        PROVE  Settled(r)'
    <3>1. CASE PersistRow(q)
      BY <3>1 DEF PersistRow
    <3>2. CASE ~PersistRow(q)
      BY <3>2, <2>5
         DEF Execute, InsertAtdd, Refuse, Start, MarkRunning, AbortPreflight, Complete,
             DecideGate, Crash, PersistResults, DropActive
    <3>3. QED
      BY <3>1, <3>2
  <2>6. QED
    BY <2>1, <2>2, <2>3, <2>4, <2>5
       DEF Next, Tick, Rehydrate, CheckpointRead, CheckpointWrite, vars
<1>2. QED
  BY <1>1, OutcomeInductive, PTL DEF Spec, OutcomeInv

=============================================================================
