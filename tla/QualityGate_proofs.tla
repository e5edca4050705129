------------------------- MODULE QualityGate_proofs -------------------------
(***************************************************************************)
(* What the release gate answers, for any tests, tools, builds, results    *)
(* and thresholds.  The argument for what an approval rests on: the graph  *)
(* holds a result of a test only if some run reported one, a run's         *)
(* results are set once, and an approving answer needs a result in the     *)
(* graph for every P0 test and a PASS for as many as the threshold asks.   *)
(***************************************************************************)
EXTENDS QualityGate, FiniteSetTheorems, SequenceTheorems, TLAPS

Run == [build : Builds, status : Terminal \cup {"running", "rehydrated"},
        report : Reports \cup {None}, manifest : BOOLEAN]

\* A rounded rate is at most half a tenth of a percent above the exact one.
LEMMA TenthsBound ==
    ASSUME NEW n \in Nat \ {0}, NEW c \in Nat, NEW v \in Int, Tenths(c, n) >= v
    PROVE  2000 * c >= (2 * v - 1) * n
<1> DEFINE a == 2000 * c + n
           b == 2 * n
           q == a \div b
<1>1. a \in Nat /\ b \in Nat \ {0}
  OBVIOUS
<1>2. q \in Int /\ b * q <= a
  <2> HIDE DEF a, b
  <2> QED BY <1>1, Z3
<1>3. q >= v
  BY DEF Tenths
<1>4. b * v <= b * q
  <2> HIDE DEF a, b, q
  <2> QED BY <1>1, <1>2, <1>3, Z3
<1>5. b * v <= a
  <2>1. b * q \in Int /\ b * v \in Int /\ a \in Int
    <3> HIDE DEF a, b, q
    <3> QED BY <1>1, <1>2
  <2> HIDE DEF a, b, q
  <2> QED BY <2>1, <1>2, <1>4
<1>6. (2 * n) * v <= 2000 * c + n
  BY <1>5
<1>7. (2 * v - 1) * n = (2 * n) * v - n
  BY Z3
<1> QED BY <1>6, <1>7

\* A sequence of runs changed at each index is a sequence of runs.
LEMMA RunsSeq ==
    ASSUME NEW s \in Seq(Run), NEW f, f \in [DOMAIN s -> Run]
    PROVE  f \in Seq(Run) /\ DOMAIN f = DOMAIN s
<1>1. Len(s) \in Nat /\ DOMAIN s = 1..Len(s)
  BY LenProperties
<1>2. f \in UNION {[1..n -> Run] : n \in Nat}
  BY <1>1
<1> QED BY <1>2, SeqDef

-----------------------------------------------------------------------------
(* Type correctness                                                            *)

\* What the types say of a run.
LEMMA RunFacts ==
    ASSUME TypeOK
    PROVE  /\ runs \in Seq(Run) /\ Len(runs) \in Nat /\ DOMAIN runs = 1..Len(runs)
           /\ \A r \in DOMAIN runs : runs[r] \in Run
           /\ memory \subseteq DOMAIN runs
<1>1. runs \in Seq(Run) /\ memory \subseteq DOMAIN runs
  BY DEF TypeOK, Run
<1>2. Len(runs) \in Nat /\ DOMAIN runs = 1..Len(runs) /\ runs \in [1..Len(runs) -> Run]
  BY <1>1, LenProperties
<1> QED BY <1>1, <1>2

\* A new run is the last; the others stay as they are.
LEMMA TriggerRuns ==
    ASSUME TypeOK, NEW b \in Builds, Trigger(b)
    PROVE  /\ runs' \in Seq(Run) /\ memory' \subseteq DOMAIN runs'
           /\ DOMAIN runs' = 1..(Len(runs) + 1)
           /\ \A r \in DOMAIN runs : runs'[r] = runs[r]
           /\ runs'[Len(runs) + 1].report = None
<1> DEFINE new == [build |-> b, status |-> "running", report |-> None, manifest |-> FALSE]
<1>1. new \in Run
  BY DEF Run
<1>2. runs' = Append(runs, new) /\ memory' = memory \cup {Len(runs')}
  BY DEF Trigger
<1> HIDE DEF new
<1>3. /\ runs' \in Seq(Run) /\ Len(runs') = Len(runs) + 1
      /\ \A r \in 1..Len(runs) : runs'[r] = runs[r]
      /\ runs'[Len(runs) + 1] = new
  BY <1>1, <1>2, RunFacts, AppendProperties
<1>4. DOMAIN runs' = 1..Len(runs')
  BY <1>3, LenProperties
<1> QED BY <1>2, <1>3, <1>4, RunFacts DEF new

\* A run is completed, aborted or gets its manifest: only it changes.
LEMMA ChangedRun ==
    ASSUME TypeOK, NEW r \in DOMAIN runs, Complete(r) \/ Abort(r) \/ WriteManifest(r)
    PROVE  /\ runs' \in Seq(Run) /\ DOMAIN runs' = DOMAIN runs
           /\ \A q \in DOMAIN runs : q # r => runs'[q] = runs[q]
           /\ runs'[r].report = runs[r].report \/ runs[r].status = "running"
           /\ runs'[r].status # "running"
           /\ runs'[r].status = "completed" =>
                 \/ runs'[r].report # None
                 \/ runs[r].status = "completed" /\ runs'[r].report = runs[r].report
<1>1. PICK new \in Run : /\ runs' = [runs EXCEPT ![r] = new] /\ new.status # "running"
                         /\ new.report = runs[r].report \/ runs[r].status = "running"
                         /\ new.status = "completed" =>
                               \/ new.report # None
                               \/ runs[r].status = "completed" /\ new.report = runs[r].report
  <2>1. runs[r] \in Run
    BY RunFacts
  <2>2. CASE Complete(r)
    <3>1. PICK report \in Reports :
             runs' = [runs EXCEPT ![r].status = "completed", ![r].report = report]
      BY <2>2 DEF Complete
    <3>2. runs' = [runs EXCEPT ![r] = [runs[r] EXCEPT !.status = "completed", !.report = report]]
      BY <3>1, RunFacts
    <3>3. [runs[r] EXCEPT !.status = "completed", !.report = report] \in Run
      BY <2>1 DEF Run, Terminal
    <3> QED BY <2>1, <2>2, <3>2, <3>3, ReportsAssumption DEF Complete, Run
  <2>3. CASE Abort(r)
    <3>1. runs' = [runs EXCEPT ![r] = [runs[r] EXCEPT !.status = "failed"]]
      BY <2>3 DEF Abort
    <3>2. [runs[r] EXCEPT !.status = "failed"] \in Run
      BY <2>1 DEF Run, Terminal
    <3> QED BY <2>1, <3>1, <3>2 DEF Run
  <2>4. CASE WriteManifest(r)
    <3>1. runs' = [runs EXCEPT ![r] = [runs[r] EXCEPT !.manifest = TRUE]]
      BY <2>4 DEF WriteManifest
    <3>2. [runs[r] EXCEPT !.manifest = TRUE] \in Run
      BY <2>1 DEF Run, Terminal
    <3>3. runs[r].status # "running"
      BY <2>4 DEF WriteManifest, Terminal
    <3> QED BY <2>1, <3>1, <3>2, <3>3 DEF Run
  <2> QED BY <2>2, <2>3, <2>4
<1>2. runs' \in Seq(Run) /\ DOMAIN runs' = DOMAIN runs
  BY <1>1, RunFacts, ExceptSeq, LenProperties
<1>3. runs'[r] = new /\ \A q \in DOMAIN runs : q # r => runs'[q] = runs[q]
  BY <1>1, RunFacts
<1> QED BY <1>1, <1>2, <1>3

\* A restart keeps what every run reported, and none of them runs on.
LEMMA RestartRuns ==
    ASSUME TypeOK, Restart
    PROVE  /\ runs' \in Seq(Run) /\ DOMAIN runs' = DOMAIN runs /\ memory' \subseteq DOMAIN runs
           /\ \A r \in DOMAIN runs : runs'[r].report = runs[r].report /\ runs'[r].status # "running"
           /\ \A r \in DOMAIN runs : runs'[r].status = "completed" => runs[r].status = "completed"
<1>1. PICK kept \in SUBSET {r \in memory : ~runs[r].manifest} :
         /\ memory' = kept
         /\ runs' = [r \in DOMAIN runs |->
                        IF runs[r].status \in Terminal THEN runs[r]
                        ELSE [runs[r] EXCEPT !.status = IF r \in kept THEN "rehydrated" ELSE "failed"]]
  BY DEF Restart
<1>2. \A r \in DOMAIN runs : /\ runs'[r] \in Run /\ runs'[r].report = runs[r].report
                             /\ runs'[r].status # "running"
                             /\ runs'[r].status = "completed" => runs[r].status = "completed"
  <2> SUFFICES ASSUME NEW r \in DOMAIN runs
               PROVE  /\ runs'[r] \in Run /\ runs'[r].report = runs[r].report
                      /\ runs'[r].status # "running"
                      /\ runs'[r].status = "completed" => runs[r].status = "completed"
    OBVIOUS
  <2>1. runs[r] \in Run
    BY RunFacts
  <2> QED BY <1>1, <2>1 DEF Run, Terminal
<1>3. runs' \in [DOMAIN runs -> Run]
  BY <1>1, <1>2
<1>4. runs' \in Seq(Run) /\ DOMAIN runs' = DOMAIN runs
  BY <1>3, RunFacts, RunsSeq
<1> QED BY <1>1, <1>2, <1>4, RunFacts

\* The initial state has the types.
LEMMA InitType == Init => TypeOK
<1> SUFFICES ASSUME Init PROVE TypeOK
  OBVIOUS
<1>1. runs \in Seq(Run) /\ memory \subseteq DOMAIN runs
  BY EmptySeq DEF Init
<1>2. graph \in [Tests -> SUBSET Results] /\ rate = 1000 /\ saved = None /\ answer = NoAnswer
  BY DEF Init
<1> QED BY <1>1, <1>2 DEF TypeOK, Run, NoAnswer

\* Every step keeps the types.
LEMMA StepType == TypeOK /\ [Next]_vars => TypeOK'
<1> SUFFICES ASSUME TypeOK, [Next]_vars PROVE TypeOK'
  OBVIOUS
<1>d. \A d : Decide(d) \in {"PASS", "CONCERNS", "FAIL"}
  BY DEF Decide
<1>r. ASSUME runs' \in Seq(Run), memory' \subseteq DOMAIN runs', UNCHANGED <<graph, saved, answer>>,
             rate' \in {rate, 1000}
      PROVE  TypeOK'
  BY <1>r DEF TypeOK, Run
<1>s. ASSUME UNCHANGED <<runs, memory>>, graph' \in [Tests -> SUBSET Results],
             rate' \in Rates \cup {1000}, saved' \in Rates \cup {None}, UNCHANGED answer
      PROVE  TypeOK'
  BY <1>s DEF TypeOK, Run
<1>1. ASSUME NEW b \in Builds, Trigger(b) PROVE TypeOK'
  BY <1>1, <1>r, TriggerRuns DEF Trigger
<1>2. ASSUME NEW b \in Builds, Check(b) PROVE TypeOK'
  <2>1. /\ UNCHANGED <<runs, memory, graph, rate, saved>>
        /\ \E d \in {"pending", "PASS", "CONCERNS", "FAIL"} :
              answer' = [build |-> b, decision |-> d, rate |-> rate]
    BY <1>2, <1>d, Zenon DEF Check
  <2> QED BY <2>1 DEF TypeOK
<1>3. ASSUME NEW r \in DOMAIN runs, Complete(r) \/ Abort(r) \/ WriteManifest(r) PROVE TypeOK'
  <2>1. runs' \in Seq(Run) /\ memory' \subseteq DOMAIN runs' /\ UNCHANGED <<graph, rate, saved, answer>>
    BY <1>3, ChangedRun, RunFacts DEF Complete, Abort, WriteManifest
  <2> QED BY <2>1, <1>r
<1>4. ASSUME NEW r \in DOMAIN runs, NEW t \in Tests, NEW s \in Statuses, Record(r, t, s) PROVE TypeOK'
  <2>1. graph' \in [Tests -> SUBSET Results]
    <3>1. (IF s = "PASS" THEN "PASS" ELSE "OTHER") \in Results
      BY DEF Results
    <3> QED BY <1>4, <3>1 DEF Record, TypeOK
  <2> QED BY <1>4, <1>s, <2>1 DEF Record, TypeOK
<1>5. CASE Restart
  BY <1>5, <1>r, RestartRuns DEF Restart
<1>6. CASE UpdateThresholds
  <2>1. graph' \in [Tests -> SUBSET Results] /\ rate' \in Rates /\ saved' \in Rates \cup {None}
    BY <1>6 DEF UpdateThresholds, TypeOK
  <2> QED BY <1>6, <1>s, <2>1 DEF UpdateThresholds
<1>7. CASE GetThresholds
  <2>1. graph' \in [Tests -> SUBSET Results] /\ rate' \in Rates /\ saved' \in Rates \cup {None}
    BY <1>7 DEF GetThresholds, TypeOK
  <2> QED BY <1>7, <1>s, <2>1 DEF GetThresholds
<1>8. CASE UNCHANGED vars
  BY <1>8, <1>s DEF vars, TypeOK
<1> HIDE DEF TypeOK
<1> QED BY <1>1, <1>2, <1>3, <1>4, <1>5, <1>6, <1>7, <1>8 DEF Next

\* The records of runs, the graph, the thresholds and the answers of the gate
\* keep their types.
THEOREM TypeCorrect == Spec => []TypeOK
<1> QED BY InitType, StepType, PTL DEF Spec

-----------------------------------------------------------------------------
(* What an approval rests on                                                   *)

\* A run reports when it completes and never again.
ReportsOnce ==
    \A r \in DOMAIN runs : /\ runs[r].status = "running" => runs[r].report = None
                           /\ runs[r].status = "completed" => runs[r].report # None

\* The graph has results only of tests some run reported, and passes only of tests some
\* run reported as passing.
GraphIsEvidence == \A t \in Tests : /\ graph[t] # {} => HasReported(t)
                                    /\ "PASS" \in graph[t] => HasPassed(t)

Evidence == ReportsOnce /\ GraphIsEvidence /\ ApprovalIsEarned

Proven == {t \in P0Tests : HasPassed(t)}

\* The P0 tests can be counted.
LEMMA P0Finite ==
    /\ IsFiniteSet(P0Tests) /\ Cardinality(P0Tests) \in Nat
    /\ IsFiniteSet(Proven) /\ Cardinality(Proven) \in Nat
<1>1. IsFiniteSet(P0Tests) /\ IsFiniteSet(Proven)
  BY TestsAssumption, FS_Subset DEF Proven
<1> QED BY <1>1, FS_CardinalityType

\* Without a BLOCK of Coverage or of the P0 pass rate the graph has a result of every P0
\* test and a pass of as many as the rate asks for, and each is some run's.
LEMMA ApprovalNeedsEvidence ==
    ASSUME TypeOK, GraphIsEvidence, NEW b \in Builds, Check(b), Approved'
    PROVE  /\ answer'.rate = rate
           /\ \A t \in P0Tests : HasReported(t)
           /\ 2000 * Cardinality(Proven) >= (2 * rate - 1) * Cardinality(P0Tests)
<1>1. PICK severities \in Verdicts : "BLOCK" \notin severities /\ answer'.rate = rate
  <2>1. answer'.decision # "pending" /\ answer'.decision # "FAIL"
    BY DEF Approved
  <2>2. PICK severities \in Verdicts :
           answer' = [build |-> b, decision |-> Decide(severities), rate |-> rate]
    BY <2>1 DEF Check
  <2> QED BY <2>1, <2>2 DEF Decide
<1>2. "BLOCK" \notin Failed(Judged)
  BY <1>1 DEF Verdicts, Severities
<1>3. "BLOCK" \notin Coverage /\ "BLOCK" \notin PassRates(Judged)
  BY <1>2 DEF Failed
<1>4. Reported(P0Tests) = P0Tests
  BY <1>3 DEF Coverage, Unless
<1>5. GraphRate(P0Tests) >= rate
  BY <1>3 DEF PassRates, Unless
<1>6. \A t \in P0Tests : HasReported(t)
  <2>1. \A t \in P0Tests : graph[t] # {}
    BY <1>4 DEF Reported
  <2> QED BY <2>1, TestsAssumption, Zenon DEF GraphIsEvidence
<1>7. rate \in Int
  BY RatesAssumption DEF TypeOK
<1>8. Passing(P0Tests) \subseteq Proven
  BY TestsAssumption, Zenon DEF Passing, GraphIsEvidence, Proven
<1>9. 2000 * Cardinality(Proven) >= (2 * rate - 1) * Cardinality(P0Tests)
  <2> DEFINE n == Cardinality(P0Tests)
             c == Cardinality(Passing(P0Tests))
             d == Cardinality(Proven)
             m == (2 * rate - 1) * n
  <2>1. n \in Nat /\ c \in Nat /\ d \in Nat /\ c <= d
    BY <1>8, P0Finite, FS_Subset, FS_CardinalityType
  <2>2. CASE P0Tests = {}
    <3>1. n = 0
      BY <2>2, FS_EmptySet
    <3>2. m = 0
      BY <1>7, <3>1
    <3> QED BY <2>1, <3>2
  <2>3. CASE P0Tests # {}
    <3>1. n # 0
      BY <2>3, P0Finite, FS_EmptySet
    <3>2. Tenths(c, n) >= rate
      BY <1>4, <1>5, <2>3 DEF GraphRate
    <3>3. 2000 * c >= m
      <4> HIDE DEF c, n
      <4> QED BY <1>7, <2>1, <3>1, <3>2, TenthsBound
    <3>4. m \in Int
      <4> HIDE DEF n
      <4> QED BY <1>7, <2>1
    <3> HIDE DEF c, d, n, m
    <3>5. 2000 * d >= m
      BY <2>1, <3>3, <3>4
    <3> QED BY <3>5 DEF d, m, n
  <2> QED BY <2>2, <2>3
<1> QED BY <1>1, <1>6, <1>9

\* What was reported stays reported while each run keeps its report.
LEMMA ReportsStay ==
    ASSUME TypeOK, DOMAIN runs \subseteq DOMAIN runs',
           \A r \in DOMAIN runs : runs'[r].report = runs[r].report \/ runs[r].report = None
    PROVE  \A t \in Tests : (HasReported(t) => HasReported(t)') /\ (HasPassed(t) => HasPassed(t)')
  BY DEF HasReported, HasPassed

\* An answer stays earned while what was reported stays reported.
LEMMA EarnedStays ==
    ASSUME TypeOK, ApprovalIsEarned, UNCHANGED answer,
           \A t \in Tests : (HasReported(t) => HasReported(t)') /\ (HasPassed(t) => HasPassed(t)')
    PROVE  ApprovalIsEarned'
<1> SUFFICES ASSUME Approved PROVE ApprovalIsEarned'
  BY DEF ApprovalIsEarned, Approved
<1>1. \A t \in P0Tests : HasReported(t)'
  BY TestsAssumption DEF ApprovalIsEarned
<1>2. Proven \subseteq Proven'
  BY TestsAssumption DEF Proven
<1>3. IsFiniteSet(Proven')
  BY TestsAssumption, FS_Subset DEF Proven
<1> DEFINE m == (2 * answer.rate - 1) * Cardinality(P0Tests)
<1>4. m \in Int
  <2> DEFINE S == Rates \cup {0, 1000}
             v == answer.rate
  <2>1. v \in S
    BY DEF TypeOK
  <2>2. S \subseteq Int
    BY RatesAssumption
  <2>3. v \in Int
    <3> HIDE DEF S, v
    <3> QED BY <2>1, <2>2
  <2>4. 2 * answer.rate - 1 \in Int
    BY <2>3
  <2> QED BY <2>4, P0Finite
<1>5. 2000 * Cardinality(Proven) >= m
  BY DEF ApprovalIsEarned, Proven
<1>6. Cardinality(Proven) <= Cardinality(Proven') /\ Cardinality(Proven') \in Nat
  BY <1>2, <1>3, FS_Subset, FS_CardinalityType
<1>7. 2000 * Cardinality(Proven') >= m
  <2> HIDE DEF m
  <2> QED BY <1>4, <1>5, <1>6, P0Finite
<1> QED BY <1>1, <1>7 DEF ApprovalIsEarned, Proven

\* Enough for a step that answers nothing and writes nothing to the graph.
LEMMA StepsAside ==
    ASSUME TypeOK, Evidence, ReportsOnce', DOMAIN runs \subseteq DOMAIN runs',
           \A r \in DOMAIN runs : runs'[r].report = runs[r].report \/ runs[r].report = None,
           UNCHANGED <<graph, answer>>
    PROVE  Evidence'
<1>1. \A t \in Tests : (HasReported(t) => HasReported(t)') /\ (HasPassed(t) => HasPassed(t)')
  BY ReportsStay
<1>2. GraphIsEvidence'
  BY <1>1, Zenon DEF Evidence, GraphIsEvidence
<1>3. ApprovalIsEarned'
  BY <1>1, EarnedStays DEF Evidence
<1> QED BY <1>2, <1>3 DEF Evidence

\* Every step keeps the evidence of graph and answers.
LEMMA StepEvidence ==
    TypeOK /\ Evidence /\ [Next]_vars => Evidence'
<1> SUFFICES ASSUME TypeOK, Evidence, [Next]_vars PROVE Evidence'
  OBVIOUS
<1>1. ASSUME NEW b \in Builds, Trigger(b) PROVE Evidence'
  <2>1. runs'[Len(runs) + 1].status = "running"
    BY <1>1, RunFacts DEF Trigger
  <2>2. ReportsOnce'
    BY <1>1, <2>1, TriggerRuns, RunFacts DEF Evidence, ReportsOnce
  <2> QED BY <1>1, <2>2, TriggerRuns, RunFacts, StepsAside DEF Trigger
<1>2. ASSUME NEW b \in Builds, Check(b) PROVE Evidence'
  <2>1. UNCHANGED <<runs, graph>>
    BY <1>2 DEF Check
  <2>2. \A t : (HasReported(t)' <=> HasReported(t)) /\ (HasPassed(t)' <=> HasPassed(t))
    BY <2>1 DEF HasReported, HasPassed
  <2>3. ReportsOnce' /\ GraphIsEvidence'
    BY <2>1, <2>2 DEF Evidence, ReportsOnce, GraphIsEvidence
  <2>4. ApprovalIsEarned'
    <3> SUFFICES ASSUME Approved' PROVE ApprovalIsEarned'
      BY DEF ApprovalIsEarned
    <3>1. /\ answer'.rate = rate
          /\ \A t \in P0Tests : HasReported(t)
          /\ 2000 * Cardinality(Proven) >= (2 * rate - 1) * Cardinality(P0Tests)
      BY <1>2, ApprovalNeedsEvidence DEF Evidence
    <3>2. Proven' = Proven
      BY <2>2 DEF Proven
    <3> QED BY <2>2, <3>1, <3>2 DEF ApprovalIsEarned, Proven
  <2> QED BY <2>3, <2>4 DEF Evidence
<1>3. ASSUME NEW r \in DOMAIN runs, Complete(r) \/ Abort(r) \/ WriteManifest(r) PROVE Evidence'
  <2>1. \A q \in DOMAIN runs : runs'[q].report = runs[q].report \/ runs[q].report = None
    BY <1>3, ChangedRun DEF Evidence, ReportsOnce
  <2>2. ReportsOnce'
    BY <1>3, ChangedRun DEF Evidence, ReportsOnce
  <2>3. UNCHANGED <<graph, answer>>
    <3>1. CASE Complete(r)
      BY <3>1 DEF Complete
    <3>2. CASE Abort(r) \/ WriteManifest(r)
      BY <3>2 DEF Abort, WriteManifest
    <3> QED BY <1>3, <3>1, <3>2
  <2> QED BY <1>3, <2>1, <2>2, <2>3, ChangedRun, StepsAside
<1>4. ASSUME NEW r \in DOMAIN runs, NEW t \in Tests, NEW s \in Statuses, Record(r, t, s) PROVE Evidence'
  <2>1. UNCHANGED <<runs, answer>>
    BY <1>4 DEF Record
  <2>2. \A u : (HasReported(u)' <=> HasReported(u)) /\ (HasPassed(u)' <=> HasPassed(u))
    BY <2>1 DEF HasReported, HasPassed
  <2>3. \A u \in Tests : /\ graph'[u] # {} => graph[u] # {} \/ u = t
                         /\ "PASS" \in graph'[u] => "PASS" \in graph[u] \/ (u = t /\ s = "PASS")
    BY <1>4 DEF Record, TypeOK
  <2>4. HasReported(t) /\ (s = "PASS" => HasPassed(t))
    <3>1. runs[r].status = "completed" /\ runs[r].report[t][s] > 0
      BY <1>4 DEF Record
    <3>2. runs[r].report # None
      BY <3>1 DEF Evidence, ReportsOnce
    <3> QED BY <3>1, <3>2 DEF HasReported, HasPassed
  <2>5. GraphIsEvidence'
    BY <2>2, <2>3, <2>4, Zenon DEF Evidence, GraphIsEvidence
  <2>6. ReportsOnce' /\ ApprovalIsEarned'
    BY <2>1, <2>2, EarnedStays DEF Evidence, ReportsOnce
  <2> QED BY <2>5, <2>6 DEF Evidence
<1>5. CASE Restart
  <2>1. ReportsOnce'
    BY <1>5, RestartRuns DEF Evidence, ReportsOnce
  <2> QED BY <1>5, <2>1, RestartRuns, StepsAside DEF Restart
<1>6. CASE UpdateThresholds \/ GetThresholds \/ UNCHANGED vars
  <2>1. UNCHANGED <<runs, graph, answer>>
    BY <1>6 DEF UpdateThresholds, GetThresholds, vars
  <2>2. ReportsOnce'
    BY <2>1 DEF Evidence, ReportsOnce
  <2> QED BY <2>1, <2>2, StepsAside
<1> HIDE DEF Evidence, TypeOK
<1> QED BY <1>1, <1>2, <1>3, <1>4, <1>5, <1>6 DEF Next

\* Every result in the graph comes from a report, in every reachable state.
LEMMA EvidenceHolds == Spec => [](TypeOK /\ Evidence)
<1>1. Init => Evidence
  BY DEF Init, Evidence, ReportsOnce, GraphIsEvidence, ApprovalIsEarned, Approved, NoAnswer
<1>2. TypeOK /\ Evidence /\ [Next]_vars => Evidence'
  BY StepEvidence
<1> QED BY <1>1, <1>2, InitType, StepType, PTL DEF Spec

\* For every threshold an administrator sets: the gate approves a build only if every P0
\* test has reported in some run and as many have passed in one as the threshold asks
\* for, whatever runs, failed writes, restarts and changes of the thresholds came before
\* (POST /check with _check_coverage and _check_pass_rates).
THEOREM ApprovalIsEarnedHolds == Spec => []ApprovalIsEarned
<1>1. Evidence => ApprovalIsEarned
  BY DEF Evidence
<1> QED BY <1>1, EvidenceHolds, PTL

\* A P0 test that has not passed in any run blocks every build at a threshold of 100%,
\* the default of p0_pass_rate_pct.
NeverPassedBlocks ==
    Approved /\ answer.rate = 1000 => \A t \in P0Tests : HasPassed(t)

\* With fewer than two thousand P0 tests - from there on a rate of 100.0% may be a
\* rounded one, and a test that never passed be among them - no build is approved at the
\* default threshold over a P0 test that never passed (_check_pass_rates).
THEOREM NeverPassedBlocksHolds ==
    ASSUME Cardinality(P0Tests) < 2000
    PROVE  Spec => []NeverPassedBlocks
<1>1. ASSUME ApprovalIsEarned, Approved, answer.rate = 1000
      PROVE  \A t \in P0Tests : HasPassed(t)
  <2> DEFINE n == Cardinality(P0Tests)
             d == Cardinality(Proven)
  <2>1. n \in Nat /\ n < 2000 /\ d \in Nat
    BY P0Finite
  <2>2. 2000 * d >= (2 * answer.rate - 1) * n
    BY <1>1 DEF ApprovalIsEarned, Proven
  <2>3. 2000 * d >= 1999 * n
    BY <1>1, <2>1, <2>2
  <2>4. d >= n
    <3> HIDE DEF d, n
    <3> QED BY <2>1, <2>3
  <2>5. Proven \subseteq P0Tests
    BY DEF Proven
  <2>6. d <= n /\ (d = n => Proven = P0Tests)
    BY <2>5, P0Finite, FS_Subset
  <2>7. d = n
    <3> HIDE DEF d, n
    <3> QED BY <2>1, <2>4, <2>6
  <2> QED BY <2>6, <2>7 DEF Proven
<1>2. ApprovalIsEarned => NeverPassedBlocks
  BY <1>1 DEF NeverPassedBlocks
<1> QED BY <1>2, ApprovalIsEarnedHolds, PTL
=============================================================================
