----------------------------- MODULE ToolDispatch -----------------------------
(***************************************************************************)
(* The dispatch of the test tools of one run (_real_execution_inner and    *)
(* the _run_* coroutines of api/routers/execution.py).                     *)
(*                                                                         *)
(* The tools that have specs are scheduled and run in three stages, each a *)
(* gather of coroutines under a time budget.  A coroutine starts           *)
(* subprocesses and appends result rows; it can return, raise, or be       *)
(* cancelled when its stage runs out of its budget.  Afterwards rows are   *)
(* backfilled for tools without any, ZAP scans the target system, and the  *)
(* rows decide the gate.  A subprocess ends when it likes.                 *)
(* A step is the code between two awaits.                                  *)
(***************************************************************************)
EXTENDS Naturals, FiniteSets

CONSTANTS
    Requests,     \* the values of body.tools; {} asks for all tools
    Switches,     \* the killswitches of the filters that may be set
    Inventories,  \* how many valid spec files each tool has
    Stubs,        \* how many k6 files fail the content check
    Workers       \* how many pytest files run at once

Tools == {"axe", "pytest", "k6", "newman", "playwright"}

\* "other" stands for the names without a dispatcher, the empty one included.
Names == Tools \cup {"zap", "other"}

\* A name as the request spells it, with blanks around it or without.
Words == [name : Names, padded : BOOLEAN]

ASSUME RequestsAssumption == Requests \subseteq SUBSET Words
ASSUME SwitchesAssumption == Switches \subseteq SUBSET {"R163", "K18"}
ASSUME InventoriesAssumption == Inventories \subseteq [Tools -> Nat]
ASSUME CountsAssumption == Stubs \subseteq Nat /\ Workers \in Nat \ {0}

VARIABLES
    request,  \* body.tools
    disabled, \* the filters that a killswitch turns off
    specs,    \* the valid spec files
    stubs,    \* the k6 files that are not
    authOk,   \* whether the auth pre-flight succeeded
    loop,     \* where _real_execution_inner stands
    stage,    \* the stage it has got to
    overran,  \* the stages whose budget ran out
    job,      \* the coroutine of each tool
    left,     \* the specs it has not started
    procs,    \* the subprocesses of specs that it waits for
    dying,    \* its specs that timed out: killed, and the pipes not drained yet
    extra,    \* its further subprocesses: pytest's diagnoses, Playwright's report merge
    stray,    \* its subprocesses that nobody waits for any more
    rows,     \* the statuses of its rows; "UNRUN" is SKIP or BLOCKED
    status,   \* _REAL_RUNS: status
    gate,     \* _REAL_RUNS: gate_decision
    own,      \* history: tools with a row that was not backfilled
    late,     \* history: tools of which a spec timed out
    hung      \* history: tools of which a further subprocess timed out

input == <<request, disabled, specs, stubs, authOk>>
children == <<procs, dying, extra, stray>>
vars == <<input, loop, stage, overran, job, left, children, rows, status, gate, own, late, hung>>

Rows == {"PASS", "FAIL", "UNRUN"}
Jobs == {"absent", "pending", "running", "returned", "raised", "cancelled"}

\* The stage whose gather a tool is appended to.
StageOf(t) == IF t \in {"axe", "pytest", "k6"} THEN 1 ELSE IF t = "newman" THEN 2 ELSE 3

\* Mutant: k6 is missing in the fast stage.
StageToolsWithoutK6(s) ==
    IF s = 1 THEN {"axe", "pytest", "playwright"} ELSE IF s = 2 THEN {"newman"} ELSE {"playwright"}

\* _R99_E_STAGE_TO_TOOLS: a request with none of these skips the stage.
StageTools(s) ==
    IF s = 1 THEN {"axe", "pytest", "playwright", "k6"} ELSE IF s = 2 THEN {"newman"} ELSE {"playwright"}

Width(t) == IF t = "pytest" THEN Workers ELSE 1

\* The names as _tools_filter and _requested_tools have them, stripped ...
Asked == {word.name : word \in request}

\* ... and as _r99_e_tools_filter has them, which is not.
Literal == {word.name : word \in {w \in request : ~w.padded}}

\* _tool_on
On(t) == "R163" \in disabled \/ request = {} \/ t \in Asked

TypeOK ==
    /\ request \in Requests /\ disabled \in Switches
    /\ specs \in Inventories /\ stubs \in Stubs /\ authOk \in BOOLEAN
    /\ loop \in {"schedule", "stage", "waiting", "reconcile", "zap", "finalize", "gate", "done"}
    /\ stage \in 1..4 /\ overran \subseteq 1..3
    /\ job \in [Tools -> Jobs]
    /\ left \in [Tools -> Nat]
    /\ procs \in [Tools -> Nat] /\ dying \in [Tools -> Nat] /\ extra \in [Tools -> Nat]
    /\ \A t \in Tools : procs[t] + dying[t] + extra[t] <= Width(t)
    /\ stray \in [Tools -> Nat]
    /\ rows \in [Names -> SUBSET Rows]
    /\ status \in {"running", "completed"} /\ gate \in {"none", "PASS", "FAIL"}
    /\ own \subseteq Tools /\ late \subseteq Tools /\ hung \subseteq Tools

Init ==
    /\ request \in Requests /\ disabled \in Switches
    /\ specs \in Inventories /\ stubs \in Stubs /\ authOk \in BOOLEAN
    /\ loop = "schedule" /\ stage = 1 /\ overran = {}
    /\ job = [t \in Tools |-> "absent"]
    /\ left = [t \in Tools |-> 0]
    /\ procs = [t \in Tools |-> 0] /\ dying = [t \in Tools |-> 0]
    /\ extra = [t \in Tools |-> 0] /\ stray = [t \in Tools |-> 0]
    /\ rows = [n \in Names |-> {}]
    /\ status = "running" /\ gate = "none"
    /\ own = {} /\ late = {} /\ hung = {}

-----------------------------------------------------------------------------
(* Scheduling.                                                              *)

\* The tool is asked for and has something to dispatch; Playwright's directory counts
\* as soon as there is any spec in it, an accessibility one too.  Pytest has a
\* killswitch of its own.
Wanted(t) ==
    /\ On(t) \/ (t = "pytest" /\ "K18" \in disabled)
    /\ IF t = "playwright" THEN specs["playwright"] + specs["axe"] > 0 ELSE specs[t] > 0

NeedsAuth == {"playwright", "axe", "newman"}

Scheduled == {t \in Tools : Wanted(t) /\ (t \in NeedsAuth => authOk)}

\* The rows of tools that cannot be dispatched: no auth; k6 files that are stubs, also
\* of runs that did not ask for k6; no valid k6 file among the ones that are there;
\* axe or pytest asked for by name without specs; a name without a dispatcher.
Refused(t) ==
    \/ Wanted(t) /\ t \in NeedsAuth /\ ~authOk
    \/ t = "k6" /\ stubs > 0
    \/ t \in {"axe", "pytest"} /\ t \in Asked /\ specs[t] = 0

Schedule ==
    /\ loop = "schedule"
    /\ job' = [t \in Tools |-> IF t \in Scheduled THEN "pending" ELSE "absent"]
    /\ left' = [t \in Tools |-> IF t \in Scheduled THEN specs[t] ELSE 0]
    /\ rows' = [n \in Names |->
          IF (n \in Tools /\ Refused(n)) \/ (n = "other" /\ n \in Asked) THEN {"UNRUN"} ELSE {}]
    /\ own' = {t \in Tools : Refused(t)}
    /\ loop' = "stage"
    /\ UNCHANGED <<input, stage, overran, children, status, gate, late, hung>>

-----------------------------------------------------------------------------
(* The stage loop.                                                          *)

Members(s) == {t \in Tools : StageOf(t) = s /\ job[t] # "absent"}

\* The filter at the loop is not the one of the scheduling: it takes the names as they
\* are spelled, and no killswitch.  The coroutines of a stage that is skipped never start.
SkipStage ==
    /\ loop = "stage" /\ stage <= 3
    /\ (request # {} /\ Literal \cap StageTools(stage) = {}) \/ Members(stage) = {}
    /\ stage' = stage + 1
    /\ UNCHANGED <<input, loop, overran, job, left, children, rows, status, gate, own, late, hung>>

\* create_task for each coroutine of the stage (a staggered one sleeps first), and gather.
StartStage ==
    /\ loop = "stage" /\ stage <= 3
    /\ request = {} \/ Literal \cap StageTools(stage) # {}
    /\ Members(stage) # {}
    /\ job' = [t \in Tools |-> IF t \in Members(stage) THEN "running" ELSE job[t]]
    /\ loop' = "waiting"
    /\ UNCHANGED <<input, stage, overran, left, children, rows, status, gate, own, late, hung>>

\* Mutant: only the fast stage has a budget.
StageTimeoutFast ==
    /\ loop = "waiting" /\ stage \notin overran /\ stage = 1
    /\ \E t \in Members(stage) : job[t] = "running"
    /\ overran' = overran \cup {stage}
    /\ UNCHANGED <<input, loop, stage, job, left, children, rows, status, gate, own, late, hung>>

\* The budget runs out: wait_for cancels the gather and with it every coroutine.
StageTimeout ==
    /\ loop = "waiting" /\ stage \notin overran
    /\ \E t \in Members(stage) : job[t] = "running"
    /\ overran' = overran \cup {stage}
    /\ UNCHANGED <<input, loop, stage, job, left, children, rows, status, gate, own, late, hung>>

\* Mutant: the row of an exception replaces what the tool has told.
BackfillRaisedOver ==
    [n \in Names |-> IF n \in Members(stage) /\ job[n] = "raised" THEN {"FAIL"} ELSE rows[n]]

\* A tool that raised and has no row gets a FAIL row.  CancelledError is no Exception.
BackfillRaised ==
    [n \in Names |-> IF n \in Members(stage) /\ job[n] = "raised" /\ rows[n] = {} THEN {"FAIL"} ELSE rows[n]]

\* The gather is over when every coroutine is, also after a cancellation.
Gathered == \A t \in Members(stage) : job[t] # "running"

EndStage ==
    /\ loop = "waiting" /\ Gathered
    /\ rows' = BackfillRaised
    /\ loop' = "stage" /\ stage' = stage + 1
    /\ UNCHANGED <<input, overran, job, left, children, status, gate, own, late, hung>>

LeaveStages ==
    /\ loop = "stage" /\ stage = 4
    /\ loop' = "reconcile"
    /\ UNCHANGED <<input, stage, overran, job, left, children, rows, status, gate, own, late, hung>>

-----------------------------------------------------------------------------
(* The coroutine of a tool.                                                 *)

\* It may go on: it runs and its cancellation, if any, has not been requested yet.
Active(t) == job[t] = "running" /\ StageOf(t) \notin overran

\* The specs that occupy a place: of pytest's semaphore, of the loop of the others.
Busy(t) == procs[t] + dying[t] + extra[t]

\* It appends a row.
Append(t, row) ==
    /\ rows' = [rows EXCEPT ![t] = @ \cup {row}]
    /\ own' = own \cup {t}

\* Mutant: the semaphore of the pytest files is gone.
StartSpecUnbounded(t) ==
    /\ Active(t) /\ left[t] > 0
    /\ left' = [left EXCEPT ![t] = @ - 1]
    /\ procs' = [procs EXCEPT ![t] = @ + 1]
    /\ UNCHANGED <<input, loop, stage, overran, job, dying, extra, stray, rows, status, gate, own, late, hung>>

\* The next spec gets a subprocess; axe gets one for all.
StartSpec(t) ==
    /\ Active(t) /\ left[t] > 0 /\ Busy(t) < Width(t)
    /\ left' = [left EXCEPT ![t] = IF t = "axe" THEN 0 ELSE @ - 1]
    /\ procs' = [procs EXCEPT ![t] = @ + 1]
    /\ UNCHANGED <<input, loop, stage, overran, job, dying, extra, stray, rows, status, gate, own, late, hung>>

\* A pre-dispatch check keeps a spec from being run, or a filter leaves it out silently.
PassOver(t) ==
    /\ Active(t) /\ left[t] > 0 /\ Busy(t) < Width(t)
    /\ left' = [left EXCEPT ![t] = @ - 1]
    /\ Append(t, "UNRUN") \/ UNCHANGED <<rows, own>>
    /\ UNCHANGED <<input, loop, stage, overran, job, children, status, gate, late, hung>>

\* The subprocess of a spec ends and its report is read; a report of Playwright or Newman
\* may list nothing.
SpecEnds(t) ==
    /\ Active(t) /\ procs[t] > 0
    /\ procs' = [procs EXCEPT ![t] = @ - 1]
    /\ \/ \E row \in Rows : Append(t, row)
       \/ t \in {"playwright", "newman"} /\ UNCHANGED <<rows, own>>
    /\ UNCHANGED <<input, loop, stage, overran, job, left, dying, extra, stray, status, gate, late, hung>>

\* A further subprocess: pytest collects once more what a file without tests says, with
\* the place of the file; Playwright merges the reports after its last spec.
FollowUp(t) ==
    /\ Active(t)
    /\ \/ t = "pytest" /\ procs[t] > 0 /\ procs' = [procs EXCEPT ![t] = @ - 1]
       \/ t = "playwright" /\ specs[t] > 0 /\ left[t] = 0 /\ Busy(t) = 0 /\ UNCHANGED procs
    /\ extra' = [extra EXCEPT ![t] = @ + 1]
    /\ UNCHANGED <<input, loop, stage, overran, job, left, dying, stray, rows, status, gate, own, late, hung>>

\* It ends, or its time is up, and then nobody kills it.  The row of the pytest file is
\* appended; Playwright is through.
FollowUpEnds(t) ==
    /\ Active(t) /\ extra[t] > 0
    /\ extra' = [extra EXCEPT ![t] = @ - 1]
    /\ \/ UNCHANGED <<stray, hung>>
       \/ stray' = [stray EXCEPT ![t] = @ + 1] /\ hung' = hung \cup {t}
    /\ IF t = "pytest"
       THEN (\E row \in {"FAIL", "UNRUN"} : Append(t, row)) /\ UNCHANGED job
       ELSE job' = [job EXCEPT ![t] = "returned"] /\ UNCHANGED <<rows, own>>
    /\ UNCHANGED <<input, loop, stage, overran, left, procs, dying, status, gate, late>>

\* Mutant: nobody kills a subprocess that timed out.
KillsNone == {}

\* The tools whose handler of a spec's timeout kills the subprocess.
Kills == {"playwright", "axe", "pytest"}

\* The tools that drain the pipes of what they killed, up to five seconds, before they
\* append the row.
Reaps == {"playwright", "axe"}

SpecTimesOut(t) ==
    /\ Active(t) /\ procs[t] > 0
    /\ procs' = [procs EXCEPT ![t] = @ - 1]
    /\ stray' = IF t \in Kills THEN stray ELSE [stray EXCEPT ![t] = @ + 1]
    /\ late' = late \cup {t}
    /\ IF t \in Reaps
       THEN dying' = [dying EXCEPT ![t] = @ + 1] /\ UNCHANGED <<rows, own>>
       ELSE Append(t, "FAIL") /\ UNCHANGED dying
    /\ UNCHANGED <<input, loop, stage, overran, job, left, extra, status, gate, hung>>

\* Mutant: a spec that was killed gets no row.
TimeoutUntold(t) ==
    /\ Active(t) /\ dying[t] > 0
    /\ dying' = [dying EXCEPT ![t] = @ - 1]
    /\ UNCHANGED <<input, loop, stage, overran, job, left, procs, extra, stray, rows, status, gate, own, late, hung>>

TimeoutTold(t) ==
    /\ Active(t) /\ dying[t] > 0
    /\ dying' = [dying EXCEPT ![t] = @ - 1]
    /\ Append(t, "FAIL")
    /\ UNCHANGED <<input, loop, stage, overran, job, left, procs, extra, stray, status, gate, late, hung>>

\* The whole tool cannot run: not installed, blocked, or nothing left in scope.
GiveUp(t) ==
    /\ Active(t) /\ left[t] = specs[t] /\ Busy(t) = 0
    /\ job' = [job EXCEPT ![t] = "returned"]
    /\ left' = [left EXCEPT ![t] = 0]
    /\ \E row \in {"FAIL", "UNRUN"} : Append(t, row)
    /\ UNCHANGED <<input, loop, stage, overran, children, status, gate, late, hung>>

Return(t) ==
    /\ Active(t) /\ left[t] = 0 /\ Busy(t) = 0
    /\ job' = [job EXCEPT ![t] = "returned"]
    /\ UNCHANGED <<input, loop, stage, overran, left, children, rows, status, gate, own, late, hung>>

\* An exception outside the handlers of single specs.
Raise(t) ==
    /\ Active(t) /\ Busy(t) = 0
    /\ job' = [job EXCEPT ![t] = "raised"]
    /\ left' = [left EXCEPT ![t] = 0]
    /\ UNCHANGED <<input, loop, stage, overran, children, rows, status, gate, own, late, hung>>

\* CancelledError is thrown at the await it stands at; no handler catches it, and the
\* subprocesses it was waiting for go on.  A spec whose pipes were being drained gets no
\* row.
Cancelled(t) ==
    /\ job[t] = "running" /\ StageOf(t) \in overran
    /\ job' = [job EXCEPT ![t] = "cancelled"]
    /\ left' = [left EXCEPT ![t] = 0]
    /\ procs' = [procs EXCEPT ![t] = 0]
    /\ dying' = [dying EXCEPT ![t] = 0]
    /\ extra' = [extra EXCEPT ![t] = 0]
    /\ stray' = [stray EXCEPT ![t] = @ + procs[t] + extra[t]]
    /\ UNCHANGED <<input, loop, stage, overran, rows, status, gate, own, late, hung>>

\* A forgotten subprocess ends by itself.
StrayEnds(t) ==
    /\ stray[t] > 0
    /\ stray' = [stray EXCEPT ![t] = @ - 1]
    /\ UNCHANGED <<input, loop, stage, overran, job, left, procs, dying, extra, rows, status, gate, own, late, hung>>

-----------------------------------------------------------------------------
(* After the stages.                                                        *)

\* Mutant: only tools that were started are looked at, and cancelled ones are not.
MissingReturned == {t \in Tools : job[t] \in {"returned", "raised"} /\ rows[t] = {}}

\* expected_tools without a row.
Missing == {t \in Tools : job[t] # "absent" /\ rows[t] = {}}

\* _r214_reconcile_dispatched_tools backfills a row, BLOCKED or SKIP.
Reconcile ==
    /\ loop = "reconcile"
    /\ rows' = [n \in Names |-> IF n \in Missing THEN {"UNRUN"} ELSE rows[n]]
    /\ loop' = IF On("zap") THEN "zap" ELSE "finalize"
    /\ UNCHANGED <<input, stage, overran, job, left, children, status, gate, own, late, hung>>

\* The scan ends, within its own timeouts; a failed baseline scan leaves no row.
ZapEnds ==
    /\ loop = "zap"
    /\ \/ \E row \in Rows : rows' = [rows EXCEPT !["zap"] = @ \cup {row}]
       \/ UNCHANGED rows
    /\ loop' = "finalize"
    /\ UNCHANGED <<input, stage, overran, job, left, children, status, gate, own, late, hung>>

\* The counters are published with status "completed".
Finalize ==
    /\ loop = "finalize"
    /\ status' = "completed"
    /\ loop' = "gate"
    /\ UNCHANGED <<input, stage, overran, job, left, children, rows, gate, own, late, hung>>

\* After the database has been told about first runs: no row is FAIL too.
DecideGate ==
    /\ loop = "gate"
    /\ gate' = IF (\A n \in Names : rows[n] = {}) \/ (\E n \in Names : "FAIL" \in rows[n])
               THEN "FAIL" ELSE "PASS"
    /\ loop' = "done"
    /\ UNCHANGED <<input, stage, overran, job, left, children, rows, status, own, late, hung>>

-----------------------------------------------------------------------------
StageStep == SkipStage \/ StartStage \/ EndStage \/ LeaveStages
LoopStep == Schedule \/ StageStep \/ Reconcile \/ ZapEnds \/ Finalize \/ DecideGate

ToolStep(t) ==
    \/ StartSpec(t) \/ PassOver(t) \/ SpecEnds(t) \/ SpecTimesOut(t) \/ TimeoutTold(t)
    \/ FollowUp(t) \/ FollowUpEnds(t)
    \/ GiveUp(t) \/ Return(t) \/ Raise(t)

Next == LoopStep \/ StageTimeout \/ \E t \in Tools : ToolStep(t) \/ Cancelled(t) \/ StrayEnds(t)

Spec == Init /\ [][Next]_vars

\* The loop runs, budgets run out and cancelled coroutines are thrown their error; the
\* tools and their subprocesses may hang for ever.
Fairness ==
    /\ WF_vars(LoopStep) /\ WF_vars(StageTimeout)
    /\ \A t \in Tools : WF_vars(Cancelled(t))

FairSpec == Spec /\ Fairness

-----------------------------------------------------------------------------
(* Properties.                                                              *)

\* "every SCHEDULED tool must have produced >=1 result row" (execution.py:3109) once the
\* run goes on to ZAP, whether its coroutine returned, raised or was cancelled.
ToolsAccountedFor ==
    loop \in {"zap", "finalize", "gate", "done"} => \A t \in Tools : job[t] # "absent" => rows[t] # {}

\* A scheduled tool that the request names as the code spells it is started, and every
\* one if the request names none: no stage's set is missing a tool that rides in it (the
\* INVARIANT of execution.py:3092-3094).  Not the others: the loop's own filter does not
\* strip the names and has no killswitch, see ScheduledToolsRun.
NamedToolsRun ==
    stage > 3 => \A t \in Tools : job[t] = "pending" => request # {} /\ t \notin Literal

\* "peak concurrent subprocess count is bounded to the stage's tools" (execution.py:5226)
\* and ZAP scans after them, but for subprocesses that were forgotten: those of a stage
\* that overran, of k6 and Newman specs that timed out, and a diagnosis of pytest
\* (execution.py:12269-12277) or Playwright's merge (7159-7167) that timed out itself.
OnlyLeftoversOverlap ==
    \A t \in Tools : procs[t] + extra[t] + stray[t] > 0 /\ stage # StageOf(t) =>
        /\ stage > StageOf(t) /\ procs[t] = 0 /\ extra[t] = 0
        /\ StageOf(t) \in overran \/ t \in late \cap {"k6", "newman"} \/ t \in hung

\* A run passes only if no spec timed out, but for one of Playwright or axe that was killed
\* in the last seconds of a stage that overran, before its row (execution.py:6926-6943,
\* 7368-7376); if a tool that raised had told its own story before (5342-5346); and so had
\* one that its stage's timeout cancelled, or it has the backfilled row and no other
\* (5326-5327).
PassIsEarned ==
    gate = "PASS" =>
        /\ \A t \in late : t \in Reaps /\ job[t] = "cancelled" /\ StageOf(t) \in overran
        /\ \A t \in Tools : job[t] = "raised" => t \in own
        /\ \A t \in Tools : job[t] = "cancelled" => t \in own \/ rows[t] = {"UNRUN"}

\* What the API has shown of a run stands: rows are only ever added, none after the
\* counters are published as those of a completed run, and the verdict is given once
\* (execution.py:5345-5365, 5410-5433).
ReportsStand ==
    [][ /\ \A n \in Names : rows[n] \subseteq rows'[n]
        /\ status = "completed" => status' = "completed" /\ rows' = rows
        /\ gate # "none" => gate' = gate ]_vars

\* The run ends although tools and subprocesses may hang (execution.py:5308-5315).
RunEnds == <>(loop = "done" /\ gate # "none")

\* "filter => all tools (legacy behavior)" of the killswitch, and "targeted/fast runs"
\* of the names (execution.py:4628-4631): what is scheduled runs.  The code violates it:
\* with the killswitch on, or a blank beside a name, the stage loop skips the stage.
ScheduledToolsRun ==
    stage > 3 => \A t \in Tools : job[t] # "pending"

\* "R214 will backfill truthful BLOCKED rows" for the tools a timeout cancels
\* (execution.py:5326-5327).  The code violates it: a tool that had some row gets none,
\* and the run passes on the specs it got to.
CancelledToolsMarked ==
    gate = "PASS" => \A t \in Tools : job[t] = "cancelled" => "UNRUN" \in rows[t]
=============================================================================
