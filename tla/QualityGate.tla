----------------------------- MODULE QualityGate -----------------------------
(***************************************************************************)
(* The release gate (api/routers/gates.py, agents/quality_gate_agent.py    *)
(* and the coverage report of agents/traceability_agent.py).               *)
(*                                                                         *)
(* POST /check judges a build by two things: the traceability graph, to    *)
(* which a background task writes the result rows of a run one by one      *)
(* after the run has completed, and the rows of the newest run in memory.  *)
(* Runs of any build start, complete and abort meanwhile, the process      *)
(* restarts, and the administrator moves the thresholds, which live in     *)
(* memory and in the database.                                             *)
(*                                                                         *)
(* Rates are in tenths of a percent, as the code rounds them.  The checks  *)
(* on NFRs, defects, risk, smells, chains and flakiness read other data:   *)
(* Check takes the severity they leave from outside.  Of the thresholds    *)
(* only p0_pass_rate_pct moves; the others have their defaults.            *)
(***************************************************************************)
EXTENDS Integers, Sequences, FiniteSets, FiniteSetsExt

CONSTANTS
    Tests,      \* tests that cover an acceptance criterion of their own
    P0Tests,    \* those of P0 requirements
    ToolOf,     \* the tool of a test
    Builds,     \* build ids
    None,       \* no results, no thresholds
    Reports,    \* results a run may have: rows of each test by status
    Rates,      \* values of p0_pass_rate_pct an administrator may set
    MaxRuns     \* bound: how many runs are triggered

\* FAIL by triage category ("SUT" is sut_regression, "GENBUG" is
\* test_gen_bug), SKIP by its reason.
Statuses == {"PASS", "FAIL", "SUT", "GENBUG", "SKIP", "CASCADE", "BLOCKED"}

\* What the graph's queries tell apart.
Results == {"PASS", "OTHER"}

ASSUME TestsAssumption == IsFiniteSet(Tests) /\ P0Tests \subseteq Tests
ASSUME ReportsAssumption == Reports \subseteq [Tests -> [Statuses -> Nat]] /\ None \notin Reports
ASSUME RatesAssumption == Rates \subseteq 0..1000 /\ None \notin Rates /\ MaxRuns \in Nat

VARIABLES
    runs,     \* all runs in the order of started_at
    memory,   \* the indices of those in _REAL_RUNS
    graph,    \* the Results each test has PRODUCED
    rate,     \* CURRENT_THRESHOLDS["p0_pass_rate_pct"]
    saved,    \* the same in platform_config
    answer    \* the last answer of POST /check

vars == <<runs, memory, graph, rate, saved, answer>>

Terminal == {"completed", "failed"}
Severities == {"BLOCK", "WARN"}
NoAnswer == [build |-> None, decision |-> "none", rate |-> 0]

TypeOK ==
    /\ runs \in Seq([build : Builds, status : Terminal \cup {"running", "rehydrated"},
                     report : Reports \cup {None}, manifest : BOOLEAN])
    /\ memory \subseteq DOMAIN runs
    /\ graph \in [Tests -> SUBSET Results]
    /\ rate \in Rates \cup {1000} /\ saved \in Rates \cup {None}
    /\ answer \in [build : Builds \cup {None}, rate : Rates \cup {0, 1000},
                   decision : {"none", "pending", "PASS", "CONCERNS", "FAIL"}]

Init ==
    /\ runs = <<>> /\ memory = {}
    /\ graph = [t \in Tests |-> {}]
    /\ rate = 1000 /\ saved = None
    /\ answer = NoAnswer

-----------------------------------------------------------------------------
(* The checks                                                                *)

\* round(100 * n / total, 1), in tenths.
Tenths(n, total) == (2000 * n + total) \div (2 * total)

Rows(report, tests, statuses) ==
    IF report = None THEN 0
    ELSE MapThenSumSet(LAMBDA t : MapThenSumSet(LAMBDA s : report[t][s], statuses), tests)

\* What a check leaves when it is not passed.
Unless(passed, severity) == IF passed THEN {} ELSE {severity}

\* COVERAGE_QUERY counts a test once it has produced a result, and as passing
\* when any of its results is a PASS.
Reported(tests) == {t \in tests : graph[t] # {}}
PassingReported(tests) == Reported(tests)
Passing(tests) == {t \in tests : "PASS" \in graph[t]}
GraphRate(tests) ==
    IF Reported(tests) = {} THEN 1000
    ELSE Tenths(Cardinality(Passing(tests)), Cardinality(Reported(tests)))

\* Acceptance criteria without results: p0_coverage_pct 100, overall 80.
Coverage ==
    Unless(Reported(P0Tests) = P0Tests, "BLOCK")
    \cup Unless(Tenths(Cardinality(Reported(Tests)), Cardinality(Tests)) >= 800, "BLOCK")

\* Rows are counted for the total, test ids for what is excluded from it.
Excluded(report) ==
    IF report = None THEN 0
    ELSE MapThenSumSet(LAMBDA s : Cardinality({t \in Tests : report[t][s] > 0}),
                       {"CASCADE", "BLOCKED", "SUT", "GENBUG"})

OverallPassRate(report) ==
    LET judged == Rows(report, Tests, Statuses) - Excluded(report)
    IN  IF Excluded(report) > 0 /\ judged > 0
        THEN 1000 * Rows(report, Tests, {"PASS"}) >= 900 * judged
        ELSE GraphRate(Tests) >= 900

PassRates(report) ==
    Unless(GraphRate(P0Tests) >= rate, "BLOCK") \cup Unless(OverallPassRate(report), "BLOCK")

Tools == {ToolOf[t] : t \in Tests}
RowsOfTool(report, tool, statuses) == Rows(report, {t \in Tests : ToolOf[t] = tool}, statuses)

\* _check_per_tool_pass_rates: without skips and triaged failures.
EffectiveRate(report, tool) ==
    LET passed == RowsOfTool(report, tool, {"PASS"})
        judged == RowsOfTool(report, tool, {"PASS", "FAIL"})
    IN  Unless(1000 * passed >= 950 * judged, IF 1000 * passed < 800 * judged THEN "BLOCK" ELSE "WARN")

\* _check_per_tool_raw_pass_rates: of every row.
RawRate(report, tool) ==
    LET passed == RowsOfTool(report, tool, {"PASS"})
        total == RowsOfTool(report, tool, Statuses)
    IN  IF total = 0 THEN {}
        ELSE Unless(Tenths(passed, total) >= 950, IF Tenths(passed, total) >= 800 THEN "WARN" ELSE "BLOCK")

ZeroSkips(report) == Unless(Rows(report, Tests, {"SKIP", "CASCADE", "BLOCKED"}) = 0, "BLOCK")

BlockedCount(report) ==
    LET blocked == Rows(report, Tests, {"BLOCKED"})
    IN  Unless(blocked = 0, IF blocked >= 50 THEN "BLOCK" ELSE "WARN")

\* The checks of decide() on a run, and on none when report is None.
Failed(report) ==
    Coverage \cup PassRates(report) \cup ZeroSkips(report) \cup BlockedCount(report)
    \cup UNION {EffectiveRate(report, tool) \cup RawRate(report, tool) : tool \in Tools}

\* No caller hands decide() a waiver, so WAIVED does not occur.
Decide(severities) ==
    IF "BLOCK" \in severities THEN "FAIL" ELSE IF "WARN" \in severities THEN "CONCERNS" ELSE "PASS"

-----------------------------------------------------------------------------
(* POST /check                                                               *)

OfBuild(b) == {r \in memory : runs[r].build = b}

\* The readiness probe looks at the first run of the build only.
NotReady(b) ==
    /\ OfBuild(b) # {}
    /\ LET run == runs[Min(OfBuild(b))] IN run.status \notin Terminal /\ ~run.manifest

\* The coverage report names no run, so the checks take the newest in memory.
Judged == IF memory = {} THEN None ELSE runs[Max(memory)].report

\* The severities the checks may leave.  Without the graph the coverage is zero
\* and blocks.
Verdicts == {Failed(Judged) \cup others : others \in SUBSET Severities} \cup {Severities}

Check(b) ==
    /\ \/ NotReady(b) /\ answer' = [build |-> b, decision |-> "pending", rate |-> rate]
       \/ /\ ~NotReady(b)
          /\ \E severities \in Verdicts :
                answer' = [build |-> b, decision |-> Decide(severities), rate |-> rate]
    /\ UNCHANGED <<runs, memory, graph, rate, saved>>

-----------------------------------------------------------------------------
(* Runs, their results and the process                                       *)

Trigger(b) ==
    /\ Len(runs) < MaxRuns
    /\ runs' = Append(runs, [build |-> b, status |-> "running", report |-> None, manifest |-> FALSE])
    /\ memory' = memory \cup {Len(runs')}
    /\ UNCHANGED <<graph, rate, saved, answer>>

Complete(r) ==
    /\ r \in memory /\ runs[r].status = "running"
    /\ \E report \in Reports : runs' = [runs EXCEPT ![r].status = "completed", ![r].report = report]
    /\ UNCHANGED <<memory, graph, rate, saved, answer>>

\* A failed preflight: its SKIP rows go to _REAL_RESULTS, not to the run's
\* results, and no pipeline writes them to the graph.
Abort(r) ==
    /\ r \in memory /\ runs[r].status = "running"
    /\ runs' = [runs EXCEPT ![r].status = "failed"]
    /\ UNCHANGED <<memory, graph, rate, saved, answer>>

\* The end of _persist_run_to_db writes the evidence manifest.
WriteManifest(r) ==
    /\ r \in memory /\ runs[r].status \in Terminal /\ ~runs[r].manifest
    /\ runs' = [runs EXCEPT ![r].manifest = TRUE]
    /\ UNCHANGED <<memory, graph, rate, saved, answer>>

\* The post-run pipeline writes a row to the graph; each write may fail.
Record(r, t, s) ==
    /\ r \in memory /\ runs[r].status = "completed"
    /\ runs[r].report[t][s] > 0
    /\ graph' = [graph EXCEPT ![t] = @ \cup {IF s = "PASS" THEN "PASS" ELSE "OTHER"}]
    /\ UNCHANGED <<runs, memory, rate, saved, answer>>

RestartFromSaved ==
    /\ memory' = {} /\ rate' = saved
    /\ UNCHANGED <<runs, graph, saved, answer>>

\* Only runs whose persistence had not ended are read back, some of them, and
\* none has an executor any more.
Restart ==
    /\ \E kept \in SUBSET {r \in memory : ~runs[r].manifest} :
          /\ memory' = kept
          /\ runs' = [r \in DOMAIN runs |->
                        IF runs[r].status \in Terminal THEN runs[r]
                        ELSE [runs[r] EXCEPT !.status = IF r \in kept THEN "rehydrated" ELSE "failed"]]
    /\ rate' = 1000
    /\ UNCHANGED <<graph, saved, answer>>

\* The write to the database may fail.
UpdateThresholds ==
    /\ \E v \in Rates : rate' = v /\ saved' \in {v, saved}
    /\ UNCHANGED <<runs, memory, graph, answer>>

GetThresholds ==
    /\ saved # None /\ rate' = saved
    /\ UNCHANGED <<runs, memory, graph, saved, answer>>

Next ==
    \/ \E b \in Builds : Trigger(b) \/ Check(b)
    \/ \E r \in DOMAIN runs :
          \/ Complete(r) \/ Abort(r) \/ WriteManifest(r)
          \/ \E t \in Tests, s \in Statuses : Record(r, t, s)
    \/ Restart \/ UpdateThresholds \/ GetThresholds

Spec == Init /\ [][Next]_vars

-----------------------------------------------------------------------------
(* Properties                                                                *)

Approved == answer.decision \in {"PASS", "CONCERNS"}

HasPassed(t) == \E r \in DOMAIN runs : runs[r].report # None /\ runs[r].report[t]["PASS"] > 0

HasReported(t) == \E r \in DOMAIN runs, s \in Statuses : runs[r].report # None /\ runs[r].report[t][s] > 0

\* An approval is earned by the runs there were: every P0 test has reported in one, and
\* as many have passed in one as the threshold in force asks for, to the rounding of a
\* rate to tenths of a percent - whatever run is the newest in memory, whatever rows the
\* pipeline failed to write, and across restarts (the checks p0_pass_rate and coverage_P0
\* together, since each alone counts a test without results as no failure).
ApprovalIsEarned ==
    Approved =>
        /\ \A t \in P0Tests : HasReported(t)
        /\ 2000 * Cardinality({t \in P0Tests : HasPassed(t)})
               >= (2 * answer.rate - 1) * Cardinality(P0Tests)

\* "Gate then approves a release whose CURRENT run produced zero quality
\* signal. Fix: synthesize one SKIP execution_result per project AC"
\* (execution.py, _real_execution_inner): no build is approved when its last
\* run was aborted by the preflight.
Last(b) == {r \in DOMAIN runs : runs[r].build = b /\ \A q \in DOMAIN runs : runs[q].build = b => q <= r}
AbortedRunNotApproved ==
    [][ \A b \in Builds : Check(b) /\ answer'.decision \in {"PASS", "CONCERNS"}
            => \A r \in Last(b) \cap memory : runs[r].status # "failed" ]_vars
=============================================================================
