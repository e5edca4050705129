# A verification project for ARTA

TLA+ models of the parts of ARTA whose behaviour depends on the order of
things: the circuit breaker in front of the LLM providers, the generation of tests
and their version history, the life of a test run from its trigger to its recorded
outcome, the tools it dispatches, the release gate, the healing of scripts, and the
queue that regenerates faulty tests.  TLC checks them on small instances; TLAPS
proves the invariants and the refinements for every value of the constants.  The API
server is the package `src/src` of the repository; paths are relative to it; `docs/` and
`ARTA_ARCHITECTURE.md` are at the root.

## The system

ARTA is one FastAPI process (one uvicorn worker, `docs/SELF_HOSTING_INFRASTRUCTURE.md`)
with asyncio tasks, Postgres, Redis, Neo4j and a directory tree on disk.  It
turns requirements into test scripts with LLM agents, executes them with
external tools, decides a quality gate and regenerates the tests that were
themselves at fault.

| Component | State | Operations | Interacts with | Model |
|---|---|---|---|---|
| LLM circuit breaker (`agents/circuit_breaker.py`) | per provider: state, window of failures, opening time; one semaphore | `call()`, snapshot | every LLM client awaits it; closing it calls the recovery queue | `CircuitBreaker` |
| Test generation and review (`api/routers/tests.py`, `tests_versions.py`, `agents/automation_engineer.py`) | `GENERATED_TESTS`, in-flight registry, jobs, their files; `test_cases`, `test_case_versions`, script files | generate, regenerate, generate-all, retry, abort; snapshot, revert, roll back, restore | LLM agents through the breaker; scripts are read by runs and healing | `GenerationJobs`, `ScriptVersions` (partly) |
| Run lifecycle (`api/routers/execution.py`, `api/main.py`, `api/services/command_dispatcher.py`) | `_REAL_RUNS`; tables `test_runs`, `execution_results`, `active_runs` | trigger, execute, finalise, persist, checkpoint, sweep, recover at startup | gate, reports and dashboard read it | `RunLifecycle` (partly) |
| Tool dispatch (`_real_execution_inner` and the `_run_*` coroutines) | coroutines, subprocesses, result rows, verdict of a run | schedule, stage, time out, reconcile, decide | inside the executor of a run | `ToolDispatch` (partly) |
| Quality gate and readiness (`agents/quality_gate_agent.py`, `api/routers/gates.py`, `agents/traceability_agent.py`) | thresholds in memory and in the database; the graph of results | check, readiness, set thresholds | reads runs and the graph the post-run pipeline writes | `QualityGate` (partly) |
| Self-healing (`agents/self_healing.py`, `api/routers/healing.py`) | proposals, script files, their backups | propose, analyse, try, approve, reject, heal inline | writes the files generation writes | `HealTrials` (partly) |
| Recovery queue (`api/services/recovery_queue.py`) | markers on disk | queue the failed tests when a breaker closes | breaker → regeneration queue | `RegenQueue` |
| Regeneration queue (`api/services/regen_consumer.py`) | `.arta/regen_queue/` and its sub-directories, `GENERATED_TESTS` | drain, gate, regenerate, retire a marker, backfill | producers in nine files; LLM agents through the breaker | `RegenQueue` |
| Improvement loop (`api/services/improvement_loop.py`) | markers | route findings to markers | regeneration queue | `RegenQueue` (its two producers) |
| Task supervision (`observability/task_supervisor.py`) | done-callbacks | mark or log a crashed task | jobs, retries, runs | `GenerationJobs` (partly) |
| Command dispatcher (`api/services/command_dispatcher.py`) | none of its own | start a run from an ATDD command | run lifecycle | `RunLifecycle` (partly) |
| Database, retention and graph (`db/`) | tables, graph | statements, retention | everything | in the modules that use it (partly) |
| LLM retry (`agents/retry_policy.py`, `agents/retry_ladder.py`) | attempt counters | retry, escalate | wraps the breaker | – |
| Durable state (`api/services/durable_state.py`) | Redis keys, in-memory fallbacks | set/get run, queue/list approvals, drift | run persistence, healing, discovery | – |
| LLM clients, auth refresher, orchestrator, requirements, discovery, real-id store, post-discovery regeneration, post-run pipeline, defects and reports, users and access, CI/CD, automation runtime, front end, scripts | see `PROJECT.json` | | | – |

What is hard here: tasks interleave at every `await`; the process may be killed
between two database commits, and startup has to make sense of what is left;
every database statement is wrapped in `try/except` and its failure swallowed;
a breaker hears of failures long after it changed state; and the queue on disk
is written by many producers without a lock.  `PROJECT.json` lists each hazard at
its line with the properties that cover it.

What makes each component correct, in a sentence each:

- *breaker*: it never leaks a permit, opens on a burst and stays open for a
  whole cooldown, closes only after a probe, and is always probed again;
- *run lifecycle*: a recorded outcome is final, a PASS is earned, a run is never
  lost between its tables, and no row shows `running` forever;
- *regeneration queue*: no two drains work on one marker, the last report about a
  test is never lost, every marker that can be acted on is, and a healed Gherkin
  reaches the scripts;
- *generation*: two pipelines work on the same part of a requirement (all of it, or one
  criterion) only after one outlived its entry, a recorded outcome is never changed and
  the status of a job tells the truth, every job ends, and a regeneration that fails
  leaves the tests it found;
- *test versions*: a text that is replaced, and a script that a way back or a clear takes
  out of its file, is in the history;
- *tool dispatch*: every scheduled tool is accounted for and, if the request names it,
  started in its stage; only forgotten subprocesses outlive the stage, a tool that raised
  cannot hide behind the others' rows, and the run ends;
- *quality gate*: an approval rests on a report of every P0 test and on as many that
  passed as the threshold asks for, and a build that was not tested is not approved on
  another run's results;
- *self-healing*: a trial leaves no trace of a fix that nobody approved;
- *durable state*, *retry*: not modelled, see the end.

## The modules

| Module | What it is |
|---|---|
| `CircuitBreaker` | `CircuitBreaker.call()` for any number of breakers behind one semaphore |
| `BreakerProtocol` | what a breaker promises its users: opened for a cooldown, then probed, then closed |
| `CircuitBreaker_proofs` | the theorems about both |
| `MCCircuitBreaker` | the small instances TLC checks |
| `RunLifecycle` | executor, checkpoint task, sweeper, startup and the process around them |
| `RunLedger` | what the `test_runs` table promises about a run, whoever writes it |
| `RunLifecycle_proofs` | the theorems about both |
| `MCRunLifecycle` | the small instances TLC checks |
| `RegenQueue` | marker files, their producers, two drains, backfill and kills |
| `MarkerCustody` | what the queue promises about the last report on a test |
| `RegenQueue_proofs` | the theorems about both |
| `MCRegenQueue` | the small instances TLC checks |
| `GenerationJobs` | pipelines, the in-flight registry, generate-all and retry jobs, their files |
| `JobLedger` | what a job promises whoever polls it: outcomes recorded once and in order, an honest end, and what a restart may make of it |
| `ScriptVersions` | rows, shared script files and versions of the tests of one requirement, under transactions |
| `HealTrials` | proposals for one script file, tried out in the file itself |
| `ToolDispatch` | the tools of one run: coroutines in three stages under budgets |
| `QualityGate` | `POST /check` on the graph and the newest run, with runs, restarts and thresholds |
| `X_proofs`, `MCX` for each of these five components | the theorems, and the small instances |

Definitions commented `Mutant:` are wrong variants of the definition that
follows; each property is required to fail when its mutant replaces the original.

### CircuitBreaker

`call()` takes the breaker's lock twice, but no body under the lock suspends, so
a locked section is one step of the event loop.  A call is admitted or rejected
(`Admit`, `Reject`), may wait for a permit in the FIFO queue of
`asyncio.Semaphore` (`Acquire`, `CancelWaiting`), and ends by `Succeed`, `Fail` or
`CancelInFlight`; `CancelledError` is not an `Exception`, so only `finally` runs.
Timestamps are kept as ages; `Tick` lets them grow to `AgeCap`.  The window of
failures forgets what lies beyond the threshold, because only "at least
`fail_threshold`" is ever read.

### RunLifecycle

`exec[r]` is where the task of run `r` stands between two awaits.  A run starts by
`Trigger` (the API; it may also be parked as queued when no scripts exist) or by
`TriggerAtdd` and `InsertAtdd` (the command dispatcher).  `Refuse`, `Start`,
`MarkRunning`, `AbortPreflight`, `Complete`, `DecideGate` and `Crash` are the
executor; `PersistRow`, `PersistResults` and `DropActive` the transactions of
`_persist_run_to_db`, each of which may fail when `DbMayFail`.  The checkpoint
task reads the run and writes what it read after an await (`CheckpointRead`,
`CheckpointWrite`), so a stale write is possible.  `Sweep` is the orphan sweeper.
`Stop` is a shutdown or a kill: any set of checkpoint tasks may still write.
Startup is two transactions, `RecoverRows` and `Rehydrate`.

### RegenQueue

`queue` maps each name to its marker file, `filed` the sub-directories whose file
names carry no time stamp (a move overwrites), `applied` the one that keeps all.
Markers are numbered by the write that made them.  Producers (`Produce`: over a dozen
writers in nine files, one `write_text` each) overwrite whatever is there;
`CircuitRecovered` is the recovery queue that the breaker calls and skips names
that wait.  A drain takes a batch (`StartDrain`) and goes through it in the order
of names: `Skip`, `Gate`, `Orphan`, `Leave`, `Defer`, or `Begin`, where it reads
marker and Gherkin and awaits the LLM; then `Fail`, `Regenerate`, `Heal` or
`StillBlocked`.  `Locked` is the flock on the file: an overwritten file keeps its
inode, so the lock follows the name until the file is moved.  The code does not
suspend between two markers that need no LLM; the model lets others step in, which
only adds behaviours.  `gherkin` and `script` are versions: what the entry holds,
and what the script on disk was built from.  `Kill` loses drains and unsaved
Gherkin and may strike inside `Regenerate` or `Heal` (`CutShort`).  Matching a
marker to its entry is a long cascade of heuristics in the code; here a marker
belongs to the test of its name, which has an entry (`known`) or not.  An entry
without a script path is not distinguished from one with an unsupported tool
(`Unfit`), except that `Heal` would write no marker for it.  Moves inside the
queue are taken to succeed.

### GenerationJobs

`pipe[o][r]` is where the work of owner `o` (a job, or a request of its own) on
requirement `r` stands, `part[o][r]` whether it is about the whole requirement (`"*"`) or
one acceptance criterion.  The registry `holder` has an entry per requirement and part, as
`_IN_FLIGHT_GENERATIONS` is keyed, so a pipeline of one criterion and one of the whole
requirement run side by side; the inventory is a set of cells, the tests of one criterion.
`Enter` is `generate_tests` from its registration to its first await, with the force-clear,
the clear of what is out of date, and the backup; `Cached` is its early return.  `Store`
puts the tests into the inventory; a cell may stay out of it when tests of a sibling took
its ids (`Joined`).  The ways out differ in what they clean up: `Finish`, `FinishEmpty` and
`FailFast` remove the entry and, without a result, restore the backup; `FailHard` removes
the entry only, `Raise` neither.  The cap on the tests in memory (`Capped`) evicts any
requirement's.  `Regenerate` and `CleanTool` (`regenerate-by-tool`) clear tests before they
are refused.

A job is created (`StartJob`, `Retry`), may clear its scope, and takes its requirements one
by one or several at a time (`BeginLoop`, `Pick`, `EnterFromJob`); `Abort` sets a flag that
the loop looks at between requirements and the coroutines only when they start.  `Crash` and
`CrashEarly` (an `ARTA_GEN_CONCURRENCY` that is no number) are exceptions outside the part
that records errors; the callback of the task marks a generate-all and only logs a retry
(`Collapse`).

Every write of the files can fail: `SaveJob` leaves the file as it was or, cut short, an
empty one, which takes the outcomes of all other jobs with it; `SaveFails` does so for the
inventory.  `Kill` reads both back from what the files have.  The repair of interrupted jobs
is saved at startup; that save is taken to succeed, for after one that failed the next start
repairs the same jobs again.  Left out: the pruning of the jobs file to its last 20, and
tests that belong to no requirement.

### ScriptVersions

`row`, `disk` and `hist` are the rows, the script files and the versions.  `FileOf` gives the
file of a test: in the code the tests of all criteria of a tool have the same
`script_path`.  `tx[c]` is what client `c` has open and will put in place at `Commit`.
`WriteScripts` and `PersistBegin` are the two halves of a generation: the files are written
before the transaction that snapshots the rows.  A file may not get what the rows get: it is
`"kept"` (an invalid script, the guard against smaller collections, the checks of
permission and of prefixes) or `"quarantined"` (renamed after a failed dry run).  After the
transaction the source gate merges its verdicts into the metadata, in a transaction of its
own and without a snapshot (`Stamp`).  `ClearBegin` is a forced generate-all, which after its
transaction, also a failed one, renames the files of three of the tools (`Renamed`).
`Revert` and `Rollback` are one `apply_version_to_test_case`; a restore is a loop of them
(`RestoreBegin`, `RestoreOne`, `RestoreSkip`, an error that is rolled back to a savepoint
although the file may be written).  A failing file write is logged and the rest goes on.
`Snapshots` is the fingerprint gate: nothing may be added for a test that equals its latest
version.  `last` is the latest pre-regeneration batch.  Texts and scripts are numbers; the
fields of the row that the fingerprint does not cover are the choice of `Snapshots` to add a
version of an unchanged test.

### HealTrials

The text of the file is what stands in each place that some fix replaces.  An analysis
(`Propose`, `Try`, `TestFails`, `TestSettles`, ...) tries its fix up to `Attempts` times
in the text it was proposed on; `StartRun` and `EndRun` are `POST /run`.  Each kind has
one backup file, whatever the proposal.  `Approve`, the inline healer
(`HealStart`, `HealWrite`) and `Regenerate` write the same file; with the database up a
decision changes no status, because the UPDATE finds no row (`Decide`).  `due` is the
text the file would have without trials, `tangled` whether a trial met something that
spoils its backup.  The two safety properties are therefore about trials that nothing
overlapped (`TrialsLeaveNoTrace`) and a process that was not killed (`BackupsHaveTrials`);
trials that overlap, or meet a file that changed, and a kill are in the model as exceptions
to them, because the code promises nothing then.  The LLM's choice of fixes is any choice; a second manual trial of a
fix that already stands in its place is refused there.

### ToolDispatch

`Schedule` is the decision which tools are dispatched and which get a row at once; the
stage loop is `SkipStage`, `StartStage`, `StageTimeout`, `EndStage`.  The two read the
request differently: scheduling strips the names and obeys two killswitches (`Asked`, `On`),
the stage loop does neither (`Literal`), so a scheduled tool may never start.  The coroutine
of a tool starts a subprocess for each spec (`StartSpec`) and reads its report (`SpecEnds`).
A spec may time out: some handlers kill the subprocess, others forget it (`SpecTimesOut`),
and Playwright's and axe's drain its pipes before they append the row (`dying`,
`TimeoutTold`), an await at which the stage may run out of its budget.  pytest's diagnosis
of a file without tests and Playwright's merge of its reports are subprocesses of their own
that nobody kills (`FollowUp`, `FollowUpEnds`).  The coroutine returns, raises or is
cancelled.  `Reconcile` backfills rows, then come ZAP, the counters and the verdict.  A row
is reduced to PASS, FAIL or not run.  Abstracted: the preflights, the merging of reports, the
staggered start (the stage starts its coroutines at once), and the Selenium and Cypress rows.

### QualityGate

`runs` are all runs in the order they were started, `memory` those in `_REAL_RUNS`,
`graph` what `record_test_result` has written.  `Check` is `POST /check`: the readiness
probe, which looks at the first run of the build, and the checks of `decide()` on
coverage, pass rates (from the graph and from the rows of the newest run in memory),
rates per tool with and without triaged failures, skips and blocked rows, each with its
severity; the other checks contribute any severity.  Rates are in tenths of a percent, as
the code rounds them.  `Record` writes one row to the graph, in any order and perhaps
never; `Restart` forgets runs and thresholds; `GetThresholds` reads the saved ones back,
which the check itself does not do.

## The runs

| Run | Instance | Shows |
|---|---|---|
| `breaker` | 3 calls, 2 providers, cap 2, threshold 2, window 2, cooldown 1 | permits, windows, cooldowns, `BreakerProtocol`, independence; admitted calls end and an open breaker is probed |
| `run_safety` | 1 run, 2 stops, failing database | recorded outcomes, PASS, results, `active_runs`, `RunLedger`, rows settle |
| `regen_safety` | 1 test, 1 requirement, 2 drains, 3 writes, 1 kill, all kinds of marker | one drain per marker, `MarkerCustody` |
| `regen_handled` | 2 tests, 1 requirement, 1 drain, cap 2, one entry without Gherkin | markers that can be acted on are handled |
| `generation_jobs` | 2 jobs, 2 requirements, widths 1 and 2, 1 kill, 1 write that fails or is cut short | completed accounts for the scope; `JobLedger` |
| `generation_dedup` | 2 jobs, 1 caller, 1 requirement and its one criterion, entries that expire | duplicates need an overrun; jobs settle |
| `generation_coverage` | 2 jobs, 1 caller, 1 requirement with tests, 1 kill | violated: a failed regeneration loses the tests it cleared |
| `heal_trials` | 2 rival proposals, 2 attempts, 1 manual trial at once, 1 kill | undisturbed trials leave no trace; backups have trials |
| `script_versions` | 2 tests that share a file, 2 clients, 3 texts, 3 versions | replaced texts are in the history, and so are scripts taken away |
| `tool_dispatch` | 6 requests, 3 settings of the killswitches, 5 inventories, stubs or not, pytest width 2 | tools accounted for, named ones started, all kept to their stage; no exception, timeout or cancellation hides behind a PASS; reports stand; the run ends |
| `gate_answers` | 2 runs, 2 builds, 2 P0 tests, 4 reports, threshold 100% or 50% | an approval has a report of every P0 test, and as many that passed as the threshold asks for |
| `gate_aborted` | the same with 1 P0 test, threshold 100% or 95% | violated: a build whose last run was aborted is approved |

The first run of each module also checks its type invariant.  The other `.cfg` files are
kept beside them to reproduce the disagreements listed under Findings: run
`tlc -config X_y.cfg MCX`, and TLC prints a counterexample.

**Bounds.**  Two callers of one provider are what a late result needs (one opens
the breaker, the other reports after it), the third goes through the other
provider and competes for the permits.  A window of 2 units and a cooldown of 1
have the ratio of the defaults (60 and 30 seconds): a failure expires while the breaker
is open or half open; ages beyond `AgeCap` cannot be told apart by any guard.  Runs influence each other
only through the set-wide UPDATEs of the sweeper and of startup, which treat
every row alone, so one run shows every behaviour of a run; two runs with a
reliable database were checked while the model was built (1.7 million states), and
the theorems hold for any set of runs.  Two stops allow a restart that meets what
an earlier restart left behind.  Thresholds of one unit with ages up to two
distinguish "fresh" from "old", which is all the sweeper and startup ask.
Queue: the last report about a test is disturbed by an older one and by a newer one,
so three writes show every encounter; names meet only in the batch and in `Heal`.
The cap of 20 is scaled to 2 with three names (or 1 with two), so that it binds; the
theorems hold for any cap.
Generation: one job that is aborted or crashes and its retry are two jobs; two
requirements are what an abort between them, and two coroutines at once, need; an entry
that is too old at age 1 expires in every state a pipeline can be in.  Duplicates and
liveness are about one requirement, so that run has one and adds a direct caller; with one
criterion there are two parts, and a request for either meets one for the other.  One cell
may stay in memory, so with two requirements the cap evicts.  One failed write is enough for
each way a file can lie: stale or empty, before a save that succeeds or a kill.
Versions: two writers overlap in every order, three texts make a version, its
replacement and a third, and two tests of one file are siblings whose script the other's
revert replaces.  The properties are about untangled tests and a test stays tangled, so the
constraint `Untangled` checks states with a tangled test but does not continue them; the
theorems hold for any number of tests and files.  Healing: two proposals for one place are rivals for the same text, an analysis
with a second attempt backs up twice.  Tools: every tool appears with one, two or (pytest)
three specs, so that the width of 2 binds, alone and beside a tool of its own and of
another stage; requests name a tool of each stage, none, and ZAP, and two have a name with
a blank beside it.  Gate: a test with
nineteen rows beside one with one makes 95%, the least a tool may have, a boundary that one
failure touches; with two P0 tests 50% is what one of them reaches, and two runs are what
it takes for each to pass in another, and for the newest one to be of another build, or
aborted.

**Fairness.**  Breaker: time passes, a woken waiter is run by the event loop, and
a call in flight ends, because every provider client sets a timeout.  Only
`OpenIsEventuallyProbed` needs callers that keep calling: the half-open transition
is lazy, and the callers are generation loops.  Lifecycle: an executor reaches
its next await (every tool has a timeout), the sweeper's loop runs every five
minutes and its UPDATE does not fail forever, a stopped container is started
again (`restart: always`), and time passes.  Nothing is assumed of triggers, of
the checkpoint task or of the database otherwise.  Queue: the loop comes
round and a pause ends, LLM calls end and do not fail for the same marker forever
("retry next cycle"), the client is not missing forever, and operators do not
backfill forever (a backfill before every cycle could keep a batch full).
Generation: the event loop resumes every coroutine, and an LLM call ends, because the
clients have timeouts; nothing is assumed of requests, retries, aborts or time.  Tools:
the loop goes on, the budget of a stage runs out (`asyncio.wait_for`; the budgets are on by default), and
a coroutine that is cancelled is thrown its error at the await it stands at, which no
handler swallows (`wait_for` waits for the cancelled gather); ZAP's commands have
timeouts of their own.  Tools and their subprocesses may hang forever.

## Findings

The two runs that are expected to be violated show errors of the code:

1. `generation_coverage`: a forced regeneration clears the tests of its requirement, and
   on the paths without an LLM client or without a script, or with an exception, it does
   not restore its backup, although "an early failure NEVER reduces coverage below what
   existed" (`api/routers/tests.py:2472`).
2. `gate_aborted`: the rows synthesised for a run that its preflight aborted reach
   neither the graph nor the results the gate reads, so it "approves a release whose
   CURRENT run produced zero quality signal" (`api/routers/execution.py:4106-4112`), which
   they are there to prevent.

More sentences of the repository that the code does not keep, each with the property
that states it and the configuration that refutes it:

| Sentence | Property, configuration | What happens |
|---|---|---|
| one trial call in HALF_OPEN (`agents/circuit_breaker.py:9`) | `OneTrialCall`, `CircuitBreaker_onetrial` | every caller that arrives before the first result is admitted |
| result rows as the heartbeat of a live run (`api/main.py:1047-1053`) | `LiveRunNotSwept`, `RunLifecycle_swept` | rows are inserted after the run, so the sweeper fails a run that executes (the executor overwrites the row when it ends) |
| fresh runs are rehydrated (`api/routers/execution.py:817-818`) | `FreshRunsRehydrated`, `RunLifecycle_rehydrate` | the transaction before it has just failed them (the self-hosting guide, section 2, says that runs do not survive a restart) |
| a bad row loses only itself (`api/routers/execution.py:13479-13480`) | `BadRowLosesOnlyItself`, `RunLifecycle_badrow` | the rollback takes all earlier rows with it |
| each marker is looked up and leaves the queue when consumed (`api/services/regen_consumer.py:10`, `:48-50`) | `ActionableIsHandled`, `RegenQueue_starved` | one whose entry cannot be regenerated stays, and as many as the cap starve all later names |
| healed Gherkin gets its scripts rebuilt (`api/services/regen_consumer.py:660`) | `HealedScriptsRebuilt`, `RegenQueue_stale` | a drain that is busy with the test retires the rebuild marker unread |
| "Backup original" (`api/routers/healing.py:550`) | `BackupIsOriginal`, `HealTrials_restored` | the analysis backs up the text it was proposed on; a script generated or approved since is undone |
| supervision keeps a crashed retry from sitting in running (`api/routers/tests.py:6325-6326`) | `RetriesSettle`, `GenerationJobs_retry` | the retry's callback only logs; the job keeps its status and its place under the cap |
| a job's result survives a server restart (`api/routers/tests_helpers.py:119`) | `ResultsSurviveRestart`, `GenerationJobs_restart` | a write that fails is swallowed, and one that is cut short empties the file for all jobs |
| a request for one criterion clears only its tests (`api/routers/tests.py:2391`) | `PerACClearsOnlyIt`, `GenerationJobs_percriterion` | the narrowed requirement has another hash, so all its tests are cleared as out of date |
| later stages see the script the guard preserved (`api/routers/tests.py:4616-4618`) | `RowsSeeFile`, `ScriptVersions_refused` | the rows are made from the refused script |
| a revert is itself undoable (`api/routers/tests_versions.py:178-180`) | `ScriptsTakenReversibly`, `ScriptVersions_reversible` | a deleted test that is brought back overwrites the file it shares, and there is no row to snapshot |
| a regeneration "no longer destroys the prior gen" (`api/routers/tests.py:4917-4918`) | `ScriptsKept`, `ScriptVersions_scripts` | the file is overwritten before the snapshot reads it |
| restore every test of the requirement (`api/routers/tests_versions.py:529-530`) | `RestoreUndoesForce`, `ScriptVersions_restore` | a test whose snapshot was skipped is not in the batch and stays deleted |
| with the killswitch all tools run, and a request's tools do (`api/routers/execution.py:4628-4631`) | `ScheduledToolsRun`, `ToolDispatch_filter` | the stage loop knows no killswitch and does not strip names: the tool is scheduled, its stage skipped |
| truthful BLOCKED rows for cancelled tools (`api/routers/execution.py:5326-5327`) | `CancelledToolsMarked`, `ToolDispatch_cancelled` | a tool that already has a row gets none, and the run can pass on the specs it got to |

Met while reading, without a model: the docstring of the parallel jobs says that an abort
stops requirements that have not started (`api/routers/tests.py:6735`), but a coroutine
asks for the flag before it waits for its place; `ARTA_ARCHITECTURE.md:1106-1120` describes
waivers that no caller hands to `decide()`; `CircuitOpenError` is a `RuntimeError` and so
is retried.

## What is proved

All theorems are checked by TLAPS from the named assumptions on the constants,
which TLC evaluates in every run.  Every invariant and every action property of a
passing run is one of them, and so is each of the four refinements; in addition there are
theorems of two kinds that no run states:

- *the safety part of a liveness property*: what no step may do if the promise is to be
  kept, or how far each step brings it.  That the steps are taken at all is fairness, and
  stays with TLC;
- *what is left of a sentence that the code does not keep*: the ways in which it fails
  and that there are no others, or the weaker bound that holds instead.

| Property | Its counterpart among the theorems |
|---|---|
| `AdmittedCallsEnd` (liveness) | `NobodyOvertakes`: a waiter keeps its place or moves up until it is cancelled or is served at the head |
| `OpenIsEventuallyProbed` (liveness) | `OpenRunsOut`: while a breaker is open its pending calls only become fewer, and only their failures restart its cooldown |
| `RunningRowsSettle` (liveness) | `SettledForEver`: no restart, sweep or rehydrated run marks a settled row as running again |
| `JobsSettle` (liveness) | `RunningHasTask` and `JobsDescend`: a running job has a task that can go on, no step sets it back, and its own steps are at most `4 * NumReqs + 3` |
| `RunEnds` (liveness) | `RunAdvances`: every step of the loop takes it further, no stage is entered and no tool dispatched twice |
| `OneTrialCall` (violated) | `TrialsWithinCap`: the trials of a half-open breaker are at most the permits of the semaphore |
| `FreshRunsRehydrated` (violated) | `MemoryAgrees`: a recorded run is in memory with its outcome or not at all |
| `BadRowLosesOnlyItself` (violated) | `ResultsAreTail`: the result rows are those after the last refused one, without a gap |
| `HealedScriptsRebuilt` (violated) | `RebuildKept`: a rebuild is lost only to another request's marker or to a drain that began from older Gherkin |
| `ScriptsKept`, `ScriptsTakenReversibly` (violated) | `ScriptsTakenAreKept` (run and theorem): a revert, roll-back, restore or clear takes no script away that is not kept, as long as all tests of the file have rows |
| `ResultsSurviveRestart` (violated) | `FinishedWorkStands`: but by a kill no ended job changes, and after a kill it is as it ended, set back as interrupted, or forgotten |
| `ScheduledToolsRun` (violated) | `NamedToolsRun` (run and theorem): a tool that the request names as it is spelled, and every tool if it names none, is started |
| `CancelledToolsMarked` (violated) | `PassIsEarned` (run and theorem): behind a PASS a cancelled tool has rows of its own, or the backfilled row and no other |

`CircuitBreaker_proofs`.  Type correctness; `QueueCorrect` (the queue is exactly the
set of waiters, each once), from lemmas on appending, removing the head and
removing a waiter; `PermitsCorrect` by counting the calls in flight, from which
`TrialsWithinCapHolds` follows;
`BreakersCorrect`, the inductive invariant of one breaker, which adds to the
checked properties that the window is ordered oldest first and bounded by the
threshold, and what the newest failure of a full window says about the opening
time.  `ClosedBelowThresholdHolds`, `CooldownTracksBurstHolds` and
`HalfOpenCooledDownHolds` follow from it.  `ImplementsProtocol` maps every step
to a step of `BreakerProtocol` or a stutter; `Independence`, `NobodyOvertakesHolds` and
`OpenRunsOutHolds` are action properties.

`RunLifecycle_proofs`.  Type correctness; `OutcomeInductive`, the invariant
`OutcomeInv`.  The checked properties are not inductive: that a recorded outcome
stands needs that nothing is recorded before the executor has passed transaction 1
and that rows exist only after the trigger (`RecordInv`); that PASS means completed
needs that only a completed run has a PASS in memory, that it is past
finalisation then, and that no executor is left while the process starts
(`GateInv`).  From it: `RecordedOutcomeCorrect`, `PassCorrect`, `ResultsCorrect`,
the action property `ActiveRowsCorrect`, and `ImplementsLedger`, where the two inserts map to `Register`,
`MarkRunning` to `Start`, `PersistRow` to `Record`, the sweeper and startup to `GiveUp`.
On top of it stand `MemInv` (an executor records what memory holds, and a restart brings
back no other outcome), which gives `MemoryAgreesHolds`; `WrittenInv`, which gives
`ResultsAreTailHolds`; and `SettledForEverHolds`, a property `[](P => []P)` by a step lemma.

`RegenQueue_proofs`.  Type correctness; `OneDrainPerMarkerCorrect`, which is inductive
with the types: a drain takes only an unlocked name, and only the drain of a name
removes its file.  `ImplementsCustody` rests on `CustodyInv`: markers are numbered and
never newer than the last report, an old marker that came back from the orphans is
of a kind that cannot overwrite a filed one, and the last report among the orphans
means that nothing waits.  The lemma `Effects` classifies every step by what it does
to each test's markers (untouched, reported, set aside, retired, returned), and one
lemma per effect shows what becomes of the invariant and of the report's place.
`RebuildKeptHolds` needs `TextInv`: newer Gherkin has a higher number, so what a kill
brings back from the file is never newer than what was in memory.

`GenerationJobs_proofs`.  Type correctness; `DuplicateNeedsOverrunHolds` by `EntryInv`: the
entry of a part that was not overrun belongs to every pipeline of it and is not too old, so
there is at most one; an exception that leaves its entry behind and an end that removes a
successor's entry keep it.  `CompletedAccountsForScopeHolds` and `FinishedWorkStandsHolds`
rest on `JobInv`: what the phase of a job says of its requirements (`TaskInv`), and what its
file may say of it (`FileInv`): nothing, or outcomes it has recorded, all of them if it says
that the job ended.  `ImplementsJobLedger` adds `LedgerInv`: nothing outside its scope is
touched by a job, one of width 1 is done with everything before the requirement it is at,
and its file, however old, is a beginning of its list.  Lemmas name what a step may do to one
job (leave it, start it, settle its width, record one outcome, end it) and to its entry in
the file (keep it, lose it, or write it anew, `SaveEffect`); a kill does its own to all of
them.  Each maps to a step of `JobLedger` or a stutter, a kill to its `Restart`; the ledger
sees outcomes, not pipelines, so most steps stutter.
`RunningHasTaskHolds` follows from `TaskInv`; it excepts a retry whose task crashed, which
is where `RetriesSettle` fails.  `JobsDescendHolds` goes through the actions.

`HealTrials_proofs`.  Type correctness; `BackupsHaveTrialsHolds`, which is inductive with
the types; and `TrialsLeaveNoTraceHolds` by `NoTrace`: as long as nothing tangled there is
at most one trial, its backup is `due`, and `due` holds only approved fixes.

`ScriptVersions_proofs`.  Type correctness, with the shape of transactions (versions are
added only for tests written, and none for those a restore has still to come to; a clear is
about all of them).  `TextsKeptHolds` needs that a test whose writers never overlapped has
one writer (`OneWriter`), and that the text it is about to replace is in the history or comes
with the transaction (`Backed`, from the fingerprint gate).  `ScriptsTakenAreKeptHolds`
adds `ClearDue`, because a clear renames the files after its transaction: the script of a
file it will rename is in the history, or in what the transaction adds, of each of the tests
that share it and have a row.  A step that begins or continues a transaction only has to
leave rows and histories alone and to keep its promise about its own tests (`ProceedsInv`,
with a lemma per operation); one that ends it may only touch what it is on (`EndInv`, with
`CommitInv`, `AbortInv` and `StampInv`).

`ToolDispatch_proofs`.  Type correctness with the width of pytest; the invariant relates
the stage the loop has got to and the coroutines of the tools (`Control`, `Running`), says
why a scheduled tool has not started (its stage is to come, or the second filter does not
know the name: `Queued`) and why there are forgotten subprocesses (`Leftovers`), what rows
late specs and tools without a row of their own have, whichever way their coroutine ended
(`Stories`: a spec killed just before its stage ran out has none), and what has been
published (`Verdict`, of which `PassIsEarned` is a part).
`ReportsStandHolds` is an action property under the same invariant; it is about a loop
that does not itself crash (the handler at `api/routers/execution.py:2482` starts over with
its own rows).

`QualityGate_proofs`.  Type correctness, which needs that a completed run has a report; and
`ApprovalIsEarnedHolds`, for every threshold: every result in the graph comes from a run's
report and reports are never replaced (`Evidence`, `ReportsStay`), an approving answer has
a row of every P0 test (else its coverage blocks) and a rounded rate of at least the
threshold, so the number of P0 tests that passed reaches it to half a tenth of a percent
(`TenthsBound`).
`NeverPassedBlocksHolds` is its corollary at 100%: with fewer than two thousand P0 tests,
one that never passed blocks every build.  The bound is needed: 1999 of 2000 rounds to
100.0%.

Only model-checked: the six liveness properties (`AdmittedCallsEnd`,
`OpenIsEventuallyProbed`, `RunningRowsSettle`, `ActionableIsHandled`, `JobsSettle`,
`RunEnds`), since liveness under fairness and `ENABLED` are out of the prover's reach;
`ActionableIsHandled` has no counterpart in the table, because the code itself lets a marker
wait as long as others fill the batch; and the violations.

## What is not modelled, and the plan

Left out on purpose: the generation, linting, grounding and parsing of text (most of
`agents/automation_engineer.py`, `agents/grounding_validator.py`,
`agents/api_discovery.py` and the report parsers of `execution.py`, which are sequential
and whose correctness is about the text), the tools' own behaviour, HTML, logging, the
front end, clients of external services, and request-scoped CRUD.  They are the larger part
of the repository's lines.  The reason for each component is in `PROJECT.json`.

Within the modelled components: snapshots of the breaker; review states; auto-heal and its
cap, the proposals of the regeneration chain; the scaffolding of test data; the locks of
the database (of two transactions on a test the one that commits last wins, and either is
tangled), whose order could deadlock two restores; a `script_path` that changes, for a test
keeps its file; the switch that turns versioning off; the texts that the source gate's
verdicts replace, which no history has and `TextsKept` does not claim; the gate's checks on NFRs, risk,
defects, smells, chains, flakiness and reproducibility; waivers and stored decisions, which
no run of the code brings into an answer (`decide()` gets no waiver, and a decision without
a run id does not satisfy its table).

What would come next, most important first:

1. durable state: write-through with fallback under an unreliable Redis against a
   register and a set;
2. the post-run pipeline: what a re-dispatch does to the rows and the graph of a run;
3. the retry loop and the escalation ladder around the breaker;
4. retention, which deletes what versions and runs still refer to.
