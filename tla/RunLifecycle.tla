---------------------------- MODULE RunLifecycle ----------------------------
(***************************************************************************)
(* The life of a test run, from the trigger to the recorded outcome        *)
(* (api/routers/execution.py, api/main.py, services/command_dispatcher.py).*)
(*                                                                         *)
(* One process executes runs as asyncio tasks.  A run is known in three    *)
(* places: _REAL_RUNS in memory, its row in test_runs, and a checkpoint    *)
(* row in active_runs that a background task refreshes.  They are written  *)
(* by the executor, the checkpoint task, the orphan sweeper and startup    *)
(* recovery; the process may stop between any two steps, and any database  *)
(* statement may fail, which every writer here swallows.  A step below is  *)
(* the code between two awaits that others can observe.                    *)
(***************************************************************************)
EXTENDS Naturals, FiniteSets

CONSTANTS
    Runs,            \* run ids
    NumRows,         \* result rows of a run
    BadRows,         \* the result rows whose enum CAST the database refuses
    RecoveryWindow,  \* _PPP_RECOVERY_HEARTBEAT_WINDOW_SEC
    SweepTTL,        \* ARTA_ORPHAN_SWEEP_TTL_MIN
    SweepHeartbeat,  \* max(5, SweepTTL // 3)
    DbMayFail,       \* whether database statements can fail
    AgeCap,          \* bound: ages saturate here
    MaxStops         \* bound: how often the process stops

ASSUME RowsAssumption == NumRows \in Nat /\ BadRows \in [Runs -> SUBSET (1..NumRows)]
ASSUME AgesAssumption ==
    /\ RecoveryWindow \in Nat /\ SweepTTL \in Nat /\ SweepHeartbeat \in Nat /\ AgeCap \in Nat
    /\ AgeCap > RecoveryWindow /\ AgeCap > SweepTTL /\ AgeCap > SweepHeartbeat
ASSUME DbAssumption == DbMayFail \in BOOLEAN
ASSUME StopsAssumption == MaxStops \in Nat

VARIABLES
    boot,       \* "up", or where startup stands
    exec,       \* where each run's _real_execution task stands
    ckpt,       \* each run's checkpoint task
    mem,        \* _REAL_RUNS[r].status
    memGate,    \* _REAL_RUNS[r].gate_decision
    row,        \* test_runs.status
    rowGate,    \* test_runs.gate_decision
    rowAge,     \* now - COALESCE(started_at, created_at)
    results,    \* the execution_results rows of the run
    resultAge,  \* age of the newest of them; AgeCap without one
    active,     \* the runs that have a row in active_runs
    beat,       \* now - heartbeat_at of that row
    recorded,   \* history: the outcome the executor committed to test_runs
    stops       \* history: how often the process has stopped

memVars == <<mem, memGate>>
rowVars == <<row, rowGate, rowAge>>
resultVars == <<results, resultAge>>
activeVars == <<active, beat>>
vars == <<boot, exec, ckpt, mem, memGate, row, rowGate, rowAge, results, resultAge,
          active, beat, recorded, stops>>

Terminal == {"completed", "failed"}       \* the statuses of _PPP_TERMINAL_STATUSES in use
Unfinished == {"queued", "running"}
Gates == {"none", "PASS", "FAIL", "CONCERNS"}

\* "inserting": run_atdd before its INSERT; "starting": before _REAL_RUNS is set;
\* "marking": before the UPDATE to running; "finalized": completed, gate not set;
\* "persisting", "reporting", "dropping": before transaction 1, 2 and the DELETE
\* of _persist_run_to_db; "parked": queued without scripts; "dead": the process stopped.
Executing == {"starting", "marking", "executing", "finalized", "persisting"}
Stages == Executing \cup {"unborn", "inserting", "reporting", "dropping", "done", "parked", "dead"}

TypeOK ==
    /\ boot \in {"up", "down", "rehydrating"}
    /\ exec \in [Runs -> Stages]
    /\ ckpt \in [Runs -> {"off", "ready", "writing"}]
    /\ mem \in [Runs -> Terminal \cup {"none", "running"}]
    /\ memGate \in [Runs -> Gates]
    /\ row \in [Runs -> Terminal \cup Unfinished \cup {"none"}]
    /\ rowGate \in [Runs -> Gates]
    /\ rowAge \in [Runs -> 0..AgeCap]
    /\ results \in [Runs -> SUBSET (1..NumRows)]
    /\ resultAge \in [Runs -> 0..AgeCap]
    /\ active \subseteq Runs
    /\ beat \in [Runs -> 0..AgeCap]
    /\ recorded \in [Runs -> Terminal \cup {"none"}]
    /\ stops \in 0..MaxStops

Init ==
    /\ boot = "up"
    /\ exec = [r \in Runs |-> "unborn"]
    /\ ckpt = [r \in Runs |-> "off"]
    /\ mem = [r \in Runs |-> "none"]
    /\ memGate = [r \in Runs |-> "none"]
    /\ row = [r \in Runs |-> "none"]
    /\ rowGate = [r \in Runs |-> "none"]
    /\ rowAge = [r \in Runs |-> 0]
    /\ results = [r \in Runs |-> {}]
    /\ resultAge = [r \in Runs |-> AgeCap]
    /\ active = {}
    /\ beat = [r \in Runs |-> 0]
    /\ recorded = [r \in Runs |-> "none"]
    /\ stops = 0

GoTo(r, stage) == exec' = [exec EXCEPT ![r] = stage]
SetMem(r, status, gate) ==
    /\ mem' = [mem EXCEPT ![r] = status]
    /\ memGate' = [memGate EXCEPT ![r] = gate]

-----------------------------------------------------------------------------
(* The executor: trigger_run, _run_atdd, _real_execution,                   *)
(* _real_execution_inner and _persist_run_to_db.                            *)

\* Without a database the run exists in memory only.
Trigger(r) ==
    /\ boot = "up" /\ exec[r] = "unborn"
    /\ \/ row' = [row EXCEPT ![r] = "queued"]
       \/ DbMayFail /\ UNCHANGED row
    /\ \/ GoTo(r, "starting")
       \/ GoTo(r, "parked")              \* no tool has scripts: nobody runs it
    /\ UNCHANGED <<boot, ckpt, memVars, rowGate, rowAge, resultVars, activeVars, recorded, stops>>

TriggerAtdd(r) ==
    /\ boot = "up" /\ exec[r] = "unborn"
    /\ GoTo(r, "inserting")
    /\ SetMem(r, "running", "none")
    /\ UNCHANGED <<boot, ckpt, rowVars, resultVars, activeVars, recorded, stops>>

InsertAtdd(r) ==
    /\ boot = "up" /\ exec[r] = "inserting"
    /\ GoTo(r, "starting")
    /\ \/ row' = [row EXCEPT ![r] = "running"]
       \/ DbMayFail /\ UNCHANGED row
    /\ UNCHANGED <<boot, ckpt, memVars, rowGate, rowAge, resultVars, activeVars, recorded, stops>>

\* The project has no base_url: the run fails before it starts.
Refuse(r) ==
    /\ boot = "up" /\ exec[r] = "starting"
    /\ GoTo(r, "persisting")
    /\ SetMem(r, "failed", "none")
    /\ UNCHANGED <<boot, ckpt, rowVars, resultVars, activeVars, recorded, stops>>

Start(r) ==
    /\ boot = "up" /\ exec[r] = "starting"
    /\ GoTo(r, "marking")
    /\ SetMem(r, "running", "none")
    /\ ckpt' = [ckpt EXCEPT ![r] = "ready"]
    /\ UNCHANGED <<boot, rowVars, resultVars, activeVars, recorded, stops>>

\* _update_run_status_in_db(run_id, "running"): an UPDATE without a row, or one
\* that fails, changes nothing.
MarkRunning(r) ==
    /\ boot = "up" /\ exec[r] = "marking"
    /\ GoTo(r, "executing")
    /\ \/ row[r] # "none" /\ row' = [row EXCEPT ![r] = "running"]
       \/ (row[r] = "none" \/ DbMayFail) /\ UNCHANGED row
    /\ UNCHANGED <<boot, ckpt, memVars, rowGate, rowAge, resultVars, activeVars, recorded, stops>>

\* The SUT is unreachable.
AbortPreflight(r) ==
    /\ boot = "up" /\ exec[r] = "executing"
    /\ GoTo(r, "persisting")
    /\ SetMem(r, "failed", "CONCERNS")
    /\ UNCHANGED <<boot, ckpt, rowVars, resultVars, activeVars, recorded, stops>>

\* The tools are done; the red-phase stamps are awaited before the gate is set.
Complete(r) ==
    /\ boot = "up" /\ exec[r] = "executing"
    /\ GoTo(r, "finalized")
    /\ SetMem(r, "completed", memGate[r])
    /\ UNCHANGED <<boot, ckpt, rowVars, resultVars, activeVars, recorded, stops>>

DecideGate(r) ==
    /\ boot = "up" /\ exec[r] = "finalized"
    /\ GoTo(r, "persisting")
    /\ \E gate \in {"PASS", "FAIL"} : SetMem(r, mem[r], gate)
    /\ UNCHANGED <<boot, ckpt, rowVars, resultVars, activeVars, recorded, stops>>

\* Mutant: an exception after the gate was set is handled the same way.
CrashLate(r) ==
    /\ boot = "up" /\ exec[r] \in {"starting", "executing", "finalized", "persisting"}
    /\ GoTo(r, "persisting")
    /\ SetMem(r, "failed", IF mem[r] = "none" THEN "FAIL" ELSE memGate[r])
    /\ UNCHANGED <<boot, ckpt, rowVars, resultVars, activeVars, recorded, stops>>

\* An exception reaches the handler of _real_execution.
Crash(r) ==
    /\ boot = "up" /\ exec[r] \in {"starting", "executing"}
    /\ GoTo(r, "persisting")
    /\ SetMem(r, "failed", IF mem[r] = "none" THEN "FAIL" ELSE memGate[r])
    /\ UNCHANGED <<boot, ckpt, rowVars, resultVars, activeVars, recorded, stops>>

\* Mutant: a failed upsert does not end the function.
PersistRowGoesOn(r) ==
    LET outcome == IF mem[r] = "completed" THEN "completed" ELSE "failed" IN
    /\ boot = "up" /\ exec[r] = "persisting"
    /\ \/ /\ GoTo(r, "reporting")
          /\ row' = [row EXCEPT ![r] = outcome]
          /\ rowGate' = [rowGate EXCEPT ![r] = IF memGate[r] = "none" THEN "FAIL" ELSE memGate[r]]
          /\ recorded' = [recorded EXCEPT ![r] = outcome]
       \/ /\ DbMayFail
          /\ GoTo(r, "reporting")
          /\ UNCHANGED <<row, rowGate, recorded>>
    /\ UNCHANGED <<boot, ckpt, memVars, rowAge, resultVars, activeVars, stops>>

\* Transaction 1: the upsert of test_runs.  If it fails nothing else is done.
PersistRow(r) ==
    LET outcome == IF mem[r] = "completed" THEN "completed" ELSE "failed" IN
    /\ boot = "up" /\ exec[r] = "persisting"
    /\ \/ /\ GoTo(r, "reporting")
          /\ row' = [row EXCEPT ![r] = outcome]
          /\ rowGate' = [rowGate EXCEPT ![r] = IF memGate[r] = "none" THEN "FAIL" ELSE memGate[r]]
          /\ recorded' = [recorded EXCEPT ![r] = outcome]
       \/ /\ DbMayFail
          /\ GoTo(r, "done")
          /\ UNCHANGED <<row, rowGate, recorded>>
    /\ UNCHANGED <<boot, ckpt, memVars, rowAge, resultVars, activeVars, stops>>

\* All rows are inserted in one transaction.  A refused row is rolled back with
\* the session, and so are all the rows that came before it.
Survivors(bad) == {i \in 1..NumRows : \A j \in i..NumRows : j \notin bad}

\* Transaction 2 (the summary of transaction 3 is not a property's concern).
PersistResults(r) ==
    \* the synthetic rows of a run that failed are never refused
    LET written == Survivors(IF mem[r] = "completed" THEN BadRows[r] ELSE {}) IN
    /\ boot = "up" /\ exec[r] = "reporting"
    /\ GoTo(r, "dropping")
    /\ \/ /\ results' = [results EXCEPT ![r] = written]
          /\ resultAge' = [resultAge EXCEPT ![r] = IF written = {} THEN @ ELSE 0]
       \/ DbMayFail /\ UNCHANGED resultVars
    /\ UNCHANGED <<boot, ckpt, memVars, rowVars, activeVars, recorded, stops>>

\* _ppp_drop_active_run
DropActive(r) ==
    /\ boot = "up" /\ exec[r] = "dropping"
    /\ GoTo(r, "done")
    /\ \/ active' = active \ {r}
       \/ DbMayFail /\ UNCHANGED active
    /\ UNCHANGED <<boot, ckpt, memVars, rowVars, resultVars, beat, recorded, stops>>

-----------------------------------------------------------------------------
(* The checkpoint task: it reads the run, and writes what it read after an   *)
(* await (_ppp_checkpoint_run, _ppp_checkpoint_loop).                        *)

\* Mutant: a terminal run's row is deleted by the checkpoint task.
CheckpointReadDeletes(r) ==
    /\ boot = "up" /\ ckpt[r] = "ready"
    /\ ckpt' = [ckpt EXCEPT ![r] = IF mem[r] \in Terminal THEN "off" ELSE "writing"]
    /\ active' = IF mem[r] \in Terminal THEN active \ {r} ELSE active
    /\ UNCHANGED <<boot, exec, memVars, rowVars, resultVars, beat, recorded, stops>>

CheckpointRead(r) ==
    /\ boot = "up" /\ ckpt[r] = "ready"
    /\ ckpt' = [ckpt EXCEPT ![r] = IF mem[r] \in Terminal THEN "off" ELSE "writing"]
    /\ UNCHANGED <<boot, exec, memVars, rowVars, resultVars, activeVars, recorded, stops>>

CheckpointWrite(r) ==
    /\ boot = "up" /\ ckpt[r] = "writing"
    /\ ckpt' = [ckpt EXCEPT ![r] = IF mem[r] \in Terminal THEN "off" ELSE "ready"]
    /\ \/ /\ active' = active \cup {r}
          /\ beat' = [beat EXCEPT ![r] = 0]
       \/ DbMayFail /\ UNCHANGED activeVars
    /\ UNCHANGED <<boot, exec, memVars, rowVars, resultVars, recorded, stops>>

-----------------------------------------------------------------------------
(* The orphan sweeper, and the process around it all.                       *)

\* Mutant: the status is not looked at.
OrphansOfAnyStatus ==
    {r \in Runs : row[r] # "none" /\ rowAge[r] > SweepTTL /\ resultAge[r] > SweepHeartbeat}

Orphans == {r \in Runs : row[r] = "running" /\ rowAge[r] > SweepTTL /\ resultAge[r] > SweepHeartbeat}

\* Mutant: only runs that were checkpointed are swept.
SweepCheckpointed ==
    /\ boot = "up" /\ Orphans \cap active # {}
    /\ row' = [r \in Runs |-> IF r \in Orphans \cap active THEN "failed" ELSE row[r]]
    /\ rowGate' = [r \in Runs |-> IF r \in Orphans \cap active THEN "FAIL" ELSE rowGate[r]]
    /\ UNCHANGED <<boot, exec, ckpt, memVars, rowAge, resultVars, activeVars, recorded, stops>>

\* A sweep that fails, or finds nothing, changes nothing.
Sweep ==
    /\ boot = "up" /\ Orphans # {}
    /\ row' = [r \in Runs |-> IF r \in Orphans THEN "failed" ELSE row[r]]
    /\ rowGate' = [r \in Runs |-> IF r \in Orphans THEN "FAIL" ELSE rowGate[r]]
    /\ UNCHANGED <<boot, exec, ckpt, memVars, rowAge, resultVars, activeVars, recorded, stops>>

\* The process stops.  In an orderly shutdown the cancelled checkpoint tasks of
\* unfinished runs write once more; after a kill none does.
Stop ==
    /\ stops < MaxStops
    /\ stops' = stops + 1
    /\ boot' = "down"
    /\ \E saved \in SUBSET {r \in Runs : ckpt[r] # "off" /\ mem[r] \notin Terminal} :
          /\ active' = active \cup saved
          /\ beat' = [r \in Runs |-> IF r \in saved THEN 0 ELSE beat[r]]
    /\ exec' = [r \in Runs |-> IF exec[r] = "unborn" THEN "unborn" ELSE "dead"]
    /\ ckpt' = [r \in Runs |-> "off"]
    /\ mem' = [r \in Runs |-> "none"]
    /\ memGate' = [r \in Runs |-> "none"]
    /\ UNCHANGED <<rowVars, resultVars, recorded>>

\* Mutant: startup recovery fails every run, finished or not.
RecoverRowsAll ==
    /\ boot = "down"
    /\ boot' = "rehydrating"
    /\ row' = [r \in Runs |-> IF row[r] # "none" THEN "failed" ELSE "none"]
    /\ UNCHANGED <<exec, ckpt, memVars, rowGate, rowAge, resultVars, activeVars, recorded, stops>>

\* recover_stale_runs, first transaction.
RecoverRows ==
    /\ boot = "down"
    /\ boot' = "rehydrating"
    /\ \/ /\ row' = [r \in Runs |-> IF row[r] \in Unfinished THEN "failed" ELSE row[r]]
          /\ rowGate' = [r \in Runs |-> IF row[r] \in Unfinished THEN "FAIL" ELSE rowGate[r]]
       \/ DbMayFail /\ UNCHANGED <<row, rowGate>>
    /\ UNCHANGED <<exec, ckpt, memVars, rowAge, resultVars, activeVars, recorded, stops>>

Leftovers == {r \in active : row[r] \in Terminal \/ beat[r] > RecoveryWindow}

\* recover_stale_runs, second transaction.  The DELETE may fail after _REAL_RUNS
\* has been filled.
Rehydrate ==
    LET live == active \ Leftovers IN
    /\ boot = "rehydrating"
    /\ boot' = "up"
    /\ \/ /\ mem' = [r \in Runs |-> IF r \in live THEN "running" ELSE "none"]
          /\ ckpt' = [r \in Runs |-> IF r \in live THEN "ready" ELSE "off"]
          /\ \/ active' = live
             \/ DbMayFail /\ UNCHANGED active
       \/ DbMayFail /\ UNCHANGED <<mem, ckpt, active>>
    /\ UNCHANGED <<exec, memGate, rowVars, resultVars, beat, recorded, stops>>

\* Mutant: the bound is off by one.
OlderUncapped(age) == IF age <= AgeCap THEN age + 1 ELSE AgeCap

Older(age) == IF age < AgeCap THEN age + 1 ELSE AgeCap

\* One unit of the database's clock.
Tick ==
    /\ rowAge' = [r \in Runs |-> IF row[r] = "none" THEN 0 ELSE Older(rowAge[r])]
    /\ resultAge' = [r \in Runs |-> Older(resultAge[r])]
    /\ beat' = [r \in Runs |-> IF r \in active THEN Older(beat[r]) ELSE beat[r]]
    /\ UNCHANGED <<boot, exec, ckpt, memVars, row, rowGate, results, active, recorded, stops>>

Execute(r) ==
    \/ InsertAtdd(r) \/ Refuse(r) \/ Start(r) \/ MarkRunning(r) \/ AbortPreflight(r)
    \/ Complete(r) \/ DecideGate(r) \/ Crash(r)
    \/ PersistRow(r) \/ PersistResults(r) \/ DropActive(r)

Next ==
    \/ Tick \/ Sweep \/ Stop \/ RecoverRows \/ Rehydrate
    \/ \E r \in Runs :
          \/ Trigger(r) \/ TriggerAtdd(r) \/ Execute(r)
          \/ CheckpointRead(r) \/ CheckpointWrite(r)

Spec == Init /\ [][Next]_vars

\* Executors reach their next await or end: every tool runs under a timeout.
\* The sweeper runs every five minutes and its UPDATE does not fail forever; a
\* stopped container is started again; time passes.
Fairness ==
    /\ WF_vars(Tick) /\ WF_vars(Sweep) /\ WF_vars(RecoverRows) /\ WF_vars(Rehydrate)
    /\ \A r \in Runs : WF_vars(Execute(r))

FairSpec == Spec /\ Fairness

-----------------------------------------------------------------------------
(* Properties.                                                              *)

\* The outcome that a run's executor committed to test_runs is what the table
\* says ever after: neither the sweeper nor a restart, whatever checkpoint rows
\* were left behind, turns a finished run into a failed one (execution.py
\* 825-832, main.py 91-98).
RecordedOutcomeStands == \A r \in Runs : recorded[r] # "none" => row[r] = recorded[r]

\* A PASS in test_runs belongs to a run that completed: no crash, abort, sweep or
\* restart leaves the gate of a run that did not (execution.py 5506-5511, 13493).
PassMeansCompleted ==
    \A r \in Runs : rowGate[r] = "PASS" => row[r] = "completed" /\ recorded[r] = "completed"

\* Result rows exist only for a run whose outcome is recorded: a failed
\* transaction 1 never leaves results of a run that still counts as running
\* (execution.py 13551-13553).
ResultsOnlyWhenRecorded == \A r \in Runs : results[r] # {} => recorded[r] # "none"

\* A run is never lost from both tables: its active_runs row goes only when
\* test_runs holds a final status, or as an orphan without a recent heartbeat
\* (execution.py 712-717, 752-757, 878-884).
ActiveRowOutlivesRun ==
    [][\A r \in active \ active' :
          row[r] \in Terminal \/ (boot = "rehydrating" /\ beat[r] > RecoveryWindow)]_vars

\* The test_runs table behaves as RunLedger promises: nobody but the run's own
\* executor records an outcome or revives a row that was given up, and no row
\* leaves a recorded outcome.
Ledger == INSTANCE RunLedger WITH status <- row
LedgerSpec == Ledger!Spec

\* No row shows "running" forever: whatever the executor's fate - a lost upsert,
\* a stop at any point, a failed recovery - the sweeper or a restart settles it
\* (main.py 1033-1037).
RunningRowsSettle == \A r \in Runs : <>[](row[r] # "running")

\* main.py 1047-1053: a run that keeps producing results is alive "even if
\* started_at is older than TTL": while its tools are dispatched and their results
\* come in, nobody marks it failed.
LiveRunNotSwept ==
    [][\A r \in Runs :
         exec[r] = "executing" /\ exec'[r] = "executing" /\ row[r] = "running"
            => row'[r] = "running"]_vars

\* recover_stale_runs, lines 817-818: it "rehydrates _REAL_RUNS from active_runs
\* rows whose heartbeat is fresh", for the runs that had no outcome yet.
FreshRunsRehydrated ==
    [][\A r \in Runs :
         boot = "rehydrating" /\ boot' = "up" /\ r \in active /\ beat[r] <= RecoveryWindow
            /\ recorded[r] = "none" => mem'[r] = "running"]_vars

\* _persist_run_to_db, lines 13479-13480: "a single bad row only loses ITSELF, not
\* the whole batch".
BadRowLosesOnlyItself ==
    \A r \in Runs : exec[r] = "dropping" /\ mem[r] = "completed" =>
        results[r] = (1..NumRows) \ BadRows[r]
=============================================================================
