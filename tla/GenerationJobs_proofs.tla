------------------------ MODULE GenerationJobs_proofs ------------------------
(***************************************************************************)
(* Proofs about GenerationJobs, for every set of jobs and callers, every   *)
(* list of requirements and of criteria, every width, cap, TTL and number  *)
(* of kills and failed writes.  Four invariants carry them: the registry   *)
(* entry of a part that has not been overrun belongs to its only pipeline  *)
(* (EntryInv), a job's list agrees with where its task stands (TaskInv),   *)
(* what the file has of a job is an earlier point of it (FileInv), and a   *)
(* job that works one by one has its outcomes in the order of its list, in *)
(* memory and in the file (LedgerInv).  The last one is what the           *)
(* refinement of JobLedger rests on.  At the end: why jobs settle.         *)
(***************************************************************************)
EXTENDS GenerationJobs, FiniteSetTheorems, TLAPS

RegistryTypes ==
    /\ holder' \in [Reqs -> [Parts -> Owners \cup {None}]]
    /\ entryAge' \in [Reqs -> [Parts -> 0..TTL]]

PipelineTypes ==
    /\ pipe' \in [Owners -> [Reqs -> Stages]]
    /\ part' \in [Owners -> [Reqs -> Parts]]
    /\ RegistryTypes
    /\ inventory' \subseteq Cells /\ sidecar' \subseteq Cells
    /\ backup' \in [Owners -> [Reqs -> SUBSET Cells]]
    /\ overran' \in [Reqs -> SUBSET Parts]

FileTypes == saved' \in [Jobs -> JobEntry] /\ failures' \in 0..MaxFailures

OutcomeTypes == pipe' \in [Owners -> [Reqs -> Stages]] /\ FileTypes

\* The tests of a part are tests of its requirement.
LEMMA OwnCells == ASSUME NEW r \in Reqs, NEW p \in Parts PROVE Own(r, p) \subseteq Of(r) /\ Of(r) \subseteq Cells
BY DEF Own, Of, Cells, Parts

\* Whatever joins the inventory or is left of it is made of cells.
LEMMA JoinedCells ==
    ASSUME NEW tests, NEW new, NEW r, tests \subseteq Cells, new \subseteq Cells
    PROVE  \A result \in Joined(tests, new, r) : result \subseteq Cells
BY DEF Joined

\* What the cap leaves is made of cells.
LEMMA CappedCells ==
    ASSUME NEW tests, tests \subseteq Cells
    PROVE  \A result \in Capped(tests) : result \subseteq Cells
BY DEF Capped

\* Type correctness: no step of a pipeline, a job, a kill or time takes a variable
\* out of its type.
THEOREM TypeCorrect == Spec => []TypeOK
<1> USE OwnersAssumption, NumbersAssumption, ScopesAssumption, PartsAssumption DEF Owners
<1>1. Init => TypeOK
  <2>1. Stocked \X ACs \subseteq Cells /\ "*" \in Parts
    BY DEF Cells, Parts
  <2>2. QED
    BY <2>1 DEF Init, TypeOK, NoWork, Stages, Terminal, JobEntry, Outcomes, NoEntry, AllTests, NoBackup,
                NoEntries, NoAges, NoneOverran
<1>a. /\ \A s \in Outcomes : s \in Stages
      /\ "none" \in Stages /\ "waiting" \in Stages /\ "dropped" \in Stages
      /\ "running" \in Stages /\ "storing" \in Stages /\ "picked" \in Stages
      /\ "ok" \in Outcomes /\ "failed" \in Outcomes /\ "skipped" \in Outcomes
      /\ "completed" \in Terminal /\ "aborted" \in Terminal
      /\ "crashed" \in Terminal /\ "interrupted" \in Terminal
      /\ "*" \in Parts
  BY DEF Stages, Outcomes, Terminal, Busy, Alive, Parts
<1>2. TypeOK /\ [Next]_vars => TypeOK'
  <2> SUFFICES ASSUME TypeOK, [Next]_vars PROVE TypeOK'
    OBVIOUS
  <2> USE <1>a DEF TypeOK, fileVars, jobVars, registryVars, testVars
  <2>0. \A r \in Reqs, p \in Parts : Own(r, p) \subseteq Cells /\ Of(r) \subseteq Cells
    BY OwnCells
  <2>1. ASSUME NEW j \in Jobs, NEW s \in Terminal \cup {"none", "running"}, NEW work, SaveJob(j, s, work)
        PROVE  FileTypes
    <3>1. Recorded(work) \in [Reqs -> Outcomes \cup {"none"}]
      BY DEF Recorded
    <3>2. NoEntry \in JobEntry
      BY DEF NoEntry, NoWork, JobEntry
    <3>3. [status |-> s, work |-> Recorded(work)] \in JobEntry
      BY <3>1 DEF JobEntry
    <3>4. CASE saved' = [saved EXCEPT ![j] = [status |-> s, work |-> Recorded(work)]] /\ UNCHANGED failures
      BY <3>3, <3>4 DEF FileTypes
    <3>5. CASE failures < MaxFailures /\ failures' = failures + 1 /\ (saved' = saved \/ saved' = [i \in Jobs |-> NoEntry])
      BY <3>2, <3>5 DEF FileTypes
    <3>6. QED
      BY <2>1, <3>4, <3>5 DEF SaveJob
  <2>2. ASSUME NEW j \in Jobs, NEW r \in Reqs, NEW outcome \in Outcomes, Record(j, r, outcome)
        PROVE  OutcomeTypes
    BY <2>1, <2>2 DEF Record, OutcomeTypes
  <2>3. ASSUME NEW o \in Owners, NEW r \in Reqs, NEW p \in Parts, NEW tests \in SUBSET Cells, NEW force,
               Enter(o, r, p, tests, force)
        PROVE  PipelineTypes
    <3> DEFINE own == IF force THEN tests \cap Own(r, p) ELSE {}
               left == tests \ own
    <3>1. own \subseteq Cells /\ left \subseteq Cells /\ left \ Of(r) \subseteq Cells /\ left \cap Of(r) \subseteq Cells
      BY <2>0
    <3>2. inventory' \subseteq Cells /\ backup' \in [Owners -> [Reqs -> SUBSET Cells]]
      <4>1. CASE inventory' = left /\ backup' = [backup EXCEPT ![o][r] = own]
        BY <3>1, <4>1
      <4>2. CASE inventory' = left \ Of(r) /\ backup' = [backup EXCEPT ![o][r] = left \cap Of(r)]
        BY <3>1, <4>2
      <4>3. QED
        BY <2>3, <4>1, <4>2, Zenon DEF Enter
    <3>3. RegistryTypes
      BY <2>3 DEF Enter, RegistryTypes
    <3>4. QED
      BY <2>3, <3>2, <3>3 DEF Enter, PipelineTypes
  <2>4. ASSUME NEW o \in Owners, NEW r \in Reqs, NEW outcome \in Outcomes, Conclude(o, r, outcome)
        PROVE  /\ pipe' \in [Owners -> [Reqs -> Stages]]
               /\ FileTypes
               /\ overran' \in [Reqs -> SUBSET Parts]
               /\ backup' \in [Owners -> [Reqs -> SUBSET Cells]]
               /\ part' \in [Owners -> [Reqs -> Parts]]
               /\ UNCHANGED <<status, phase, forced, scope, width, retried, abort, kills>>
    <3>1. UNCHANGED <<status, phase, forced, scope, width, retried, abort, kills>>
      BY <2>4 DEF Conclude
    <3>2. backup' \in [Owners -> [Reqs -> SUBSET Cells]] /\ part' \in [Owners -> [Reqs -> Parts]]
      BY <2>4 DEF Conclude
    <3>6. overran' \in [Reqs -> SUBSET Parts]
      BY <2>4 DEF Conclude
    <3>3. CASE o \in Jobs
      <4>1. OutcomeTypes
        BY <2>2, <2>4, <3>3 DEF Conclude
      <4>2. QED
        BY <3>1, <3>2, <3>6, <4>1 DEF OutcomeTypes
    <3>4. CASE o \notin Jobs
      <4>1. pipe' = [pipe EXCEPT ![o][r] = "none"] /\ UNCHANGED fileVars
        BY <2>4, <3>4, Zenon DEF Conclude
      <4>2. QED
        BY <3>1, <3>2, <3>6, <4>1 DEF FileTypes
    <3>5. QED
      BY <3>3, <3>4
  <2>17. ASSUME NEW r \in Reqs, NEW p \in Parts, ClearInFlight(r, p) PROVE RegistryTypes
    BY <2>17 DEF ClearInFlight, RegistryTypes
  <2>18. ASSUME NEW tests \in SUBSET Cells, Save(tests) \/ SaveFails(tests) PROVE sidecar' \subseteq Cells
    BY <2>18 DEF Save, SaveFails
  <2>5. ASSUME NEW o \in Owners, NEW r \in Reqs, PipelineStep(o, r) PROVE TypeOK'
    <3>0. /\ part[o][r] \in Parts /\ backup[o][r] \subseteq Cells /\ Own(r, part[o][r]) \subseteq Cells
          /\ inventory \subseteq Cells
      BY <2>0
    <3>9. /\ \A tests \in Joined(inventory, Own(r, part[o][r]), r) : tests \subseteq Cells
          /\ \A tests \in Joined(inventory, backup[o][r], r) : tests \subseteq Cells
      <4> HIDE DEF TypeOK, Owners
      <4>1. \A tests \in Joined(inventory, Own(r, part[o][r]), r) : tests \subseteq Cells
        BY ONLY <3>0, JoinedCells, Zenon
      <4>2. \A tests \in Joined(inventory, backup[o][r], r) : tests \subseteq Cells
        BY ONLY <3>0, JoinedCells, Zenon
      <4>3. QED
        BY <4>1, <4>2
    <3>1. CASE Store(o, r)
      <4>1. inventory' \subseteq Cells
        <5>1. inventory' \in Joined(inventory, Own(r, part[o][r]), r)
          BY <3>1 DEF Store
        <5>2. QED
          BY <3>0, <3>9, <5>1
      <4>2. pipe' \in [Owners -> [Reqs -> Stages]]
        BY <3>1 DEF Store
      <4>3. QED
        BY <3>1, <4>1, <4>2 DEF Store
    <3> DEFINE Done == /\ \E outcome \in Outcomes : Conclude(o, r, outcome)
                       /\ RegistryTypes
                       /\ inventory' \subseteq Cells
                       /\ sidecar' \subseteq Cells
    <3>7. Done => TypeOK'
      BY <2>4 DEF RegistryTypes, FileTypes
    <3>2. CASE Finish(o, r)
      <4>1. RegistryTypes
        BY <3>0, <3>2, <2>17 DEF Finish
      <4>2. inventory' \subseteq Cells /\ sidecar' \subseteq Cells
        <5>1. inventory' \subseteq Cells
          <6>1. inventory' \in Capped(inventory)
            BY <3>2 DEF Finish
          <6>2. QED
            BY <3>0, <6>1, CappedCells, Zenon
        <5>2. QED
          BY <3>2, <5>1, <2>18 DEF Finish
      <4>3. QED
        BY <3>2, <3>7, <4>1, <4>2 DEF Finish
    <3>3. CASE FinishEmpty(o, r)
      <4>1. RegistryTypes
        BY <3>0, <3>3, <2>17 DEF FinishEmpty
      <4>2. PICK tests \in Joined(inventory, backup[o][r], r) : Save(tests) /\ inventory' \in Capped(tests)
        BY <3>3 DEF FinishEmpty
      <4>3. tests \subseteq Cells
        BY <3>9, <4>2
      <4>4. inventory' \subseteq Cells /\ sidecar' \subseteq Cells
        <5>1. inventory' \subseteq Cells
          BY <4>2, <4>3, CappedCells, Zenon
        <5>2. QED
          BY <4>2, <4>3, <5>1, <2>18
      <4>5. \E outcome \in Outcomes : Conclude(o, r, outcome)
        BY <3>3 DEF FinishEmpty
      <4>6. QED
        BY <3>7, <4>1, <4>4, <4>5
    <3>4. CASE FailFast(o, r)
      <4>1. RegistryTypes
        BY <3>0, <3>4, <2>17 DEF FailFast
      <4>2. inventory' \in SUBSET Cells
        <5>1. inventory' \in Joined(inventory, backup[o][r], r)
          BY <3>4 DEF FailFast
        <5>2. inventory' \subseteq Cells
          BY <3>0, <3>9, <5>1
        <5>3. QED
          BY <5>2
      <4>3. sidecar' \subseteq Cells
        BY <3>4, <4>2, <2>18 DEF FailFast
      <4>4. QED
        BY <3>4, <3>7, <4>1, <4>2, <4>3 DEF FailFast
    <3>5. CASE FailHard(o, r)
      <4>1. RegistryTypes
        BY <3>0, <3>5, <2>17 DEF FailHard
      <4>2. QED
        BY <3>5, <3>7, <4>1 DEF FailHard
    <3>6. CASE Raise(o, r)
      <4>1. RegistryTypes
        BY <3>6 DEF Raise, RegistryTypes
      <4>2. inventory' \in SUBSET Cells
        <5>1. inventory' \in Joined(inventory, backup[o][r], r) \/ inventory' = inventory
          BY <3>6, Zenon DEF Raise
        <5>2. inventory' \subseteq Cells
          BY <3>0, <3>9, <5>1
        <5>3. QED
          BY <5>2
      <4>3. sidecar' \subseteq Cells
        BY <3>6, <4>2, <2>18 DEF Raise
      <4>4. QED
        BY <3>6, <3>7, <4>1, <4>2, <4>3 DEF Raise
    <3>8. QED
      BY <2>5, <3>1, <3>2, <3>3, <3>4, <3>5, <3>6, Zenon DEF PipelineStep, End
  <2>6. ASSUME NEW a \in Callers, NEW r \in Reqs, Call(a, r) PROVE TypeOK'
    <3>1. UNCHANGED <<jobVars, kills>>
      BY <2>6 DEF Call
    <3>2. ASSUME NEW p \in Parts, NEW force \in BOOLEAN, Enter(a, r, p, inventory, force) PROVE TypeOK'
      <4>0. inventory \in SUBSET Cells /\ a \in Owners
        OBVIOUS
      <4>1. PipelineTypes
        BY <3>2, <4>0, <2>3
      <4>2. QED
        BY <3>1, <4>1 DEF PipelineTypes, RegistryTypes
    <3>3. ASSUME NEW p \in Parts, NEW force \in BOOLEAN, Cached(r, p, force), UNCHANGED pipe PROVE TypeOK'
      <4>1. RegistryTypes
        BY <3>3, <2>17 DEF Cached
      <4>2. inventory' \subseteq Cells
        BY <3>3 DEF Cached
      <4>3. QED
        BY <3>1, <3>3, <4>1, <4>2 DEF Cached, RegistryTypes
    <3>4. ASSUME NEW p \in Parts, holder' = [holder EXCEPT ![r][p] = a], entryAge' = [entryAge EXCEPT ![r][p] = 0],
                 UNCHANGED <<pipe, overran, testVars>>
          PROVE  TypeOK'
      <4>1. a \in Owners \cup {None}
        OBVIOUS
      <4>2. RegistryTypes
        BY <3>4, <4>1 DEF RegistryTypes
      <4>3. UNCHANGED <<pipe, overran, part, backup, inventory, sidecar, saved, failures, kills>>
            /\ UNCHANGED <<status, phase, forced, scope, width, retried, abort>>
        BY <3>1, <3>4
      <4>4. QED
        BY <4>2, <4>3 DEF RegistryTypes
    <3>5. QED
      <4> HIDE DEF TypeOK
      <4>1. QED
        BY <2>6, <3>2, <3>3, <3>4, Zenon DEF Call
  <2>7. ASSUME NEW a \in Callers, NEW r \in Reqs, Regenerate(a, r) PROVE TypeOK'
    <3>1. UNCHANGED <<jobVars, kills>>
      BY <2>7 DEF Regenerate
    <3>2. CASE Enter(a, r, "*", inventory \ Of(r), FALSE)
      <4>1. PipelineTypes
        <5>1. inventory \ Of(r) \in SUBSET Cells /\ a \in Owners
          OBVIOUS
        <5>2. QED
          BY <5>1, <3>2, <2>3, <1>a, Zenon
      <4>2. QED
        BY <3>1, <4>1 DEF PipelineTypes, RegistryTypes
    <3>3. CASE inventory' = inventory \ Of(r) /\ UNCHANGED <<pipe, registryVars, part, backup, sidecar>>
      BY <3>1, <3>3
    <3>4. QED
      BY <2>7, <3>2, <3>3 DEF Regenerate
  <2>8. ASSUME NEW j \in Jobs, NEW force \in BOOLEAN, NEW todo \in SUBSET Reqs, NEW retry \in BOOLEAN,
               Create(j, force, todo, retry)
        PROVE  TypeOK'
    BY <2>8 DEF Create
  <2>9. ASSUME NEW old \in Jobs, NEW j \in Jobs, Retry(old, j) PROVE TypeOK'
    <3>1. PICK todo \in SUBSET Reqs : Create(j, FALSE, todo, TRUE)
      <4> DEFINE failed == {r \in Reqs : pipe[old][r] = "failed"}
                 ok == {r \in Reqs : pipe[old][r] = "ok"}
      <4>1. \A r \in Reqs : r..NumReqs \subseteq Reqs
        BY DEF Reqs
      <4>2. PICK todo \in {failed \cup some : some \in SUBSET ok} \cup {r..NumReqs : r \in Reqs} :
               Create(j, FALSE, todo, TRUE)
        BY <2>9, Zenon DEF Retry
      <4>3. todo \in SUBSET Reqs
        <5>1. CASE todo \in {r..NumReqs : r \in Reqs}
          BY <4>1, <5>1
        <5>2. CASE todo \in {failed \cup some : some \in SUBSET ok}
          <6>1. PICK some \in SUBSET ok : todo = failed \cup some
            BY <5>2
          <6>2. QED
            BY <6>1
        <5>3. QED
          BY <4>2, <5>1, <5>2
      <4>4. QED
        BY <4>2, <4>3, Zenon
    <3>2. QED
      BY <3>1, <2>8
  <2>10. ASSUME NEW j \in Jobs, Proceed(j) PROVE TypeOK'
    <3>1. CASE ClearScope(j)
      BY <3>1 DEF ClearScope
    <3>2. ASSUME NEW newStatus \in Terminal, Close(j, newStatus) PROVE TypeOK'
      <4>1. FileTypes
        BY <3>2, <2>1 DEF Close
      <4>2. /\ phase' \in [Jobs -> {"none", "created", "clearing", "looping", "over", "lost"}]
            /\ status' \in [Jobs -> Terminal \cup {"none", "running"}]
            /\ forced' \in [Jobs -> BOOLEAN]
        BY <3>2 DEF Close
      <4>3. UNCHANGED <<scope, width, retried, abort, pipe, registryVars, testVars, kills>>
        BY <3>2 DEF Close
      <4>4. QED
        BY <4>1, <4>2, <4>3 DEF FileTypes
    <3>8. ASSUME Ready(j) PROVE UNCHANGED <<part, backup, inventory>> /\ sidecar' \subseteq Cells
      BY <3>8, <2>18 DEF Ready
    <3>3. ASSUME NEW w \in Widths, BeginLoop(j, w) PROVE TypeOK'
      <4>1. pipe' \in [Owners -> [Reqs -> Stages]]
        BY <3>3 DEF BeginLoop
      <4>2. QED
        BY <3>3, <3>8, <4>1 DEF BeginLoop
    <3>4. ASSUME NEW r \in Reqs, Pick(j, r) PROVE TypeOK'
      <4>1. CASE pipe' = [pipe EXCEPT ![j][r] = "picked"] /\ UNCHANGED fileVars
        BY <3>4, <4>1 DEF Pick
      <4>2. CASE Record(j, r, "skipped")
        <5>1. OutcomeTypes
          BY <4>2, <2>2
        <5>2. QED
          BY <3>4, <5>1 DEF Pick, OutcomeTypes, FileTypes
      <4>3. QED
        BY <3>4, <4>1, <4>2 DEF Pick
    <3>5. ASSUME NEW r \in Reqs, EnterFromJob(j, r) PROVE TypeOK'
      <4>0. UNCHANGED <<status, phase, forced, scope, width, retried, abort, kills>>
        BY <3>5 DEF EnterFromJob
      <4>1. ASSUME Enter(j, r, "*", inventory, forced[j]), UNCHANGED fileVars PROVE TypeOK'
        <5>0. inventory \in SUBSET Cells /\ j \in Owners
          OBVIOUS
        <5>1. PipelineTypes
          BY <4>1, <5>0, <2>3
        <5>2. QED
          BY <4>0, <4>1, <5>1 DEF PipelineTypes, RegistryTypes
      <4>2. CASE Cached(r, "*", forced[j]) /\ Record(j, r, "skipped")
        <5>1. OutcomeTypes
          BY <4>2, <2>2
        <5>2. RegistryTypes
          BY <4>2, <2>17 DEF Cached
        <5>3. UNCHANGED <<overran, part, backup, sidecar>> /\ inventory' \subseteq Cells
          BY <4>2 DEF Cached
        <5>4. QED
          BY <4>0, <5>1, <5>2, <5>3 DEF OutcomeTypes, RegistryTypes, FileTypes
      <4>3. ASSUME NEW outcome \in {"skipped", "failed"}, Record(j, r, outcome), UNCHANGED <<registryVars, testVars>>
            PROVE  TypeOK'
        BY <4>0, <4>3, <2>2 DEF OutcomeTypes, FileTypes
      <4>5. QED
        BY <3>5, <4>1, <4>2, <4>3 DEF EnterFromJob
    <3>6. ASSUME NEW work \in [Reqs -> Stages], Collapse(j, work),
                 UNCHANGED <<scope, width, retried, abort, registryVars, kills>>,
                 UNCHANGED <<part, backup, inventory>>, sidecar' \subseteq Cells
          PROVE  TypeOK'
      <4>1. FileTypes
        <5>1. CASE retried[j]
          BY <3>6, <5>1 DEF Collapse, FileTypes
        <5>2. CASE ~retried[j]
          BY <3>6, <5>2, <2>1 DEF Collapse
        <5>3. QED
          BY <5>1, <5>2
      <4>2. pipe' \in [Owners -> [Reqs -> Stages]] /\ forced' \in [Jobs -> BOOLEAN]
        BY <3>6 DEF Collapse
      <4>3. /\ phase' \in [Jobs -> {"none", "created", "clearing", "looping", "over", "lost"}]
            /\ status' \in [Jobs -> Terminal \cup {"none", "running"}]
        <5>1. CASE retried[j]
          BY <3>6, <5>1 DEF Collapse
        <5>2. CASE ~retried[j]
          <6>1. phase' = [phase EXCEPT ![j] = "over"] /\ status' = [status EXCEPT ![j] = "crashed"]
            BY <3>6, <5>2 DEF Collapse
          <6>2. QED
            BY <6>1
        <5>3. QED
          BY <5>1, <5>2
      <4>4. QED
        BY <3>6, <4>1, <4>2, <4>3 DEF FileTypes
    <3>7. CASE CrashEarly(j)
      <4>1. pipe[j] \in [Reqs -> Stages]
        OBVIOUS
      <4>2. QED
        BY <3>6, <3>7, <3>8, <4>1 DEF CrashEarly
    <3>9. ASSUME NEW r \in Reqs, Crash(j, r) PROVE TypeOK'
      <4> DEFINE work == [pipe[j] EXCEPT ![r] = "dropped"]
      <4>1. work \in [Reqs -> Stages]
        OBVIOUS
      <4>2. UNCHANGED <<scope, width, retried, abort, registryVars, testVars, kills>>
        BY <3>9 DEF Crash
      <4>3. CASE width[j] > 1
        <5>1. pipe' = [pipe EXCEPT ![j] = work] /\ UNCHANGED <<forced, phase, status, fileVars>>
          BY <3>9, <4>3 DEF Crash
        <5>2. QED
          BY <4>1, <4>2, <5>1
      <4>4. CASE ~(width[j] > 1)
        <5>1. Collapse(j, work)
          BY <3>9, <4>4, Zenon DEF Crash
        <5>2. QED
          BY <3>6, <4>1, <4>2, <5>1
      <4>5. QED
        BY <4>3, <4>4
    <3>10. QED
      BY <2>10, <3>1, <3>2, <3>3, <3>4, <3>5, <3>7, <3>9, <1>a, Zenon DEF Proceed, AbortSeen, JobEnd
  <2>11. ASSUME NEW j \in Jobs, Abort(j) PROVE TypeOK'
    BY <2>11 DEF Abort
  <2>12. CASE Kill
    <3>1. status' \in [Jobs -> Terminal \cup {"none", "running"}] /\ kills' \in 0..MaxKills
      BY <2>12 DEF Kill, Loaded, JobEntry
    <3>2. saved' \in [Jobs -> JobEntry]
      <4>1. \A e \in JobEntry : [e EXCEPT !.status = Loaded(@)] \in JobEntry
        BY DEF JobEntry, Loaded
      <4>2. QED
        BY <2>12, <4>1 DEF Kill
    <3>3. pipe' \in [Owners -> [Reqs -> Stages]]
      BY <2>12 DEF Kill, JobEntry, NoWork
    <3>4. /\ phase' \in [Jobs -> {"none", "created", "clearing", "looping", "over", "lost"}]
          /\ scope' \in [Jobs -> SUBSET Reqs]
          /\ width' \in [Jobs -> Widths \cup {0}]
      BY <2>12 DEF Kill
    <3>6. /\ holder' \in [Reqs -> [Parts -> Owners \cup {None}]] /\ entryAge' \in [Reqs -> [Parts -> 0..TTL]]
          /\ overran' \in [Reqs -> SUBSET Parts]
          /\ part' \in [Owners -> [Reqs -> Parts]] /\ backup' \in [Owners -> [Reqs -> SUBSET Cells]]
      BY <2>12 DEF Kill, NoEntries, NoAges, NoneOverran, AllTests, NoBackup
    <3>5. QED
      BY <2>12, <3>1, <3>2, <3>3, <3>4, <3>6 DEF Kill
  <2>13. CASE Tick
    <3>1. entryAge' \in [Reqs -> [Parts -> 0..TTL]]
      BY <2>13 DEF Tick, Older
    <3>2. overran' \in [Reqs -> SUBSET Parts]
      BY <2>13 DEF Tick
    <3>3. QED
      BY <2>13, <3>1, <3>2 DEF Tick
  <2>14. CASE UNCHANGED vars
    BY <2>14 DEF vars
  <2>15. ASSUME NEW j \in Jobs, NEW force \in BOOLEAN, NEW todo \in Scopes, StartJob(j, force, todo)
         PROVE  TypeOK'
    <3>1. todo \in SUBSET Reqs /\ FALSE \in BOOLEAN
      OBVIOUS
    <3>2. QED
      BY <2>8, <2>15, <3>1, Zenon DEF StartJob
  <2>19. ASSUME NEW a \in Callers, NEW gone \in SUBSET inventory, CleanTool(a, gone) PROVE TypeOK'
    BY <2>19 DEF CleanTool
  <2>16. QED
    <3> HIDE DEF TypeOK
    <3>1. CASE Next
      BY <3>1, <2>5, <2>6, <2>7, <2>15, <2>9, <2>10, <2>11, <2>12, <2>13, <2>19, Zenon DEF Next
    <3>2. QED
      BY <2>14, <3>1
<1>3. QED
  BY <1>1, <1>2, PTL DEF Spec

-----------------------------------------------------------------------------
(* The registry of pipelines.                                                *)

\* As long as no pipeline of a part overran, the registry entry of the part is
\* fresh and belongs to its only pipeline.
EntryInv ==
    \A r \in Reqs, p \in Parts : p \notin overran[r] =>
        \A o \in Pipelines(r, p) : holder[r][p] = o /\ entryAge[r][p] < TTL

\* The age of an entry, the takeover of an old one and the removal of an entry by
\* whoever ends keep EntryInv, so a duplicate needs an overrun.
LEMMA EntryInvariant == Spec => []EntryInv
<1> USE OwnersAssumption, NumbersAssumption, PartsAssumption DEF Owners, Pipelines, Alive
<1>1. Init => EntryInv
  BY DEF Init, EntryInv, NoWork
<1>2. TypeOK /\ TypeOK' /\ EntryInv /\ [Next]_vars => EntryInv'
  <2> SUFFICES ASSUME TypeOK, TypeOK', EntryInv, [Next]_vars PROVE EntryInv'
    OBVIOUS
  <2> DEFINE Runs(x, q, c) == pipe[x][q] \in {"running", "storing"} /\ part[x][q] = c
             Kept(q, c, x) == holder'[q][c] = x /\ entryAge'[q][c] < TTL
  <2> SUFFICES ASSUME NEW q \in Reqs, NEW c \in Parts, c \notin overran'[q],
                      NEW x \in Owners, Runs(x, q, c)'
               PROVE  Kept(q, c, x)
    BY DEF EntryInv
  <2>0. /\ entryAge \in [Reqs -> [Parts -> 0..TTL]] /\ holder \in [Reqs -> [Parts -> Owners \cup {None}]]
        /\ pipe \in [Owners -> [Reqs -> Stages]] /\ part \in [Owners -> [Reqs -> Parts]]
        /\ overran \in [Reqs -> SUBSET Parts] /\ "*" \in Parts
    BY DEF TypeOK, Parts
  \* A step that starts no pipeline of this part and leaves its entry alone.
  <2>1. ASSUME holder'[q][c] = holder[q][c], entryAge'[q][c] = entryAge[q][c], c \notin overran[q], Runs(x, q, c)
        PROVE  Kept(q, c, x)
    BY <2>1 DEF EntryInv
  <2>16. ASSUME c \notin overran[q], ~InFlight(q, c), NEW y \in Owners PROVE ~Runs(y, q, c)
    BY <2>0, <2>16 DEF InFlight, EntryInv
  <2>2. ASSUME NEW o \in Owners, NEW r \in Reqs, NEW p \in Parts, NEW tests, NEW force, Enter(o, r, p, tests, force)
        PROVE  Kept(q, c, x)
    <3>0. /\ ~InFlight(r, p) /\ UNCHANGED overran
          /\ holder' = [holder EXCEPT ![r][p] = o] /\ entryAge' = [entryAge EXCEPT ![r][p] = 0]
          /\ pipe' = [pipe EXCEPT ![o][r] = "running"] /\ part' = [part EXCEPT ![o][r] = p]
      BY <2>2 DEF Enter
    <3>1. CASE q = r /\ c = p
      <4>1. ~Runs(x, q, c)
        BY <2>16, <3>0, <3>1
      <4>2. x = o
        BY <2>0, <3>0, <3>1, <4>1
      <4>3. QED
        BY <2>0, <3>0, <3>1, <4>2
    <3>2. CASE ~(q = r /\ c = p)
      <4>1. holder'[q][c] = holder[q][c] /\ entryAge'[q][c] = entryAge[q][c] /\ c \notin overran[q]
        BY <2>0, <3>0, <3>2
      <4>2. Runs(x, q, c)
        BY <2>0, <3>0, <3>2
      <4>3. QED
        BY <2>1, <4>1, <4>2
    <3>3. QED
      BY <3>1, <3>2
  <2>3. ASSUME NEW o \in Owners, NEW r \in Reqs, NEW outcome \in Outcomes, Conclude(o, r, outcome),
               UNCHANGED <<holder, entryAge>> \/ ClearInFlight(r, part[o][r]),
               pipe[o][r] \in {"running", "storing"}
        PROVE  Kept(q, c, x)
    <3>1. pipe' = [pipe EXCEPT ![o][r] = outcome] \/ pipe' = [pipe EXCEPT ![o][r] = "none"]
      <4>1. CASE o \in Jobs
        BY <2>0, <2>3, <4>1 DEF Conclude, Record
      <4>2. CASE o \notin Jobs
        BY <2>3, <4>2 DEF Conclude
      <4>3. QED
        BY <4>1, <4>2
    <3>2. part' = [part EXCEPT ![o][r] = "*"]
      BY <2>3 DEF Conclude
    <3>3. Runs(x, q, c) /\ ~(x = o /\ q = r)
      BY <2>0, <3>1, <3>2 DEF Outcomes
    <3>4. CASE q = r /\ c = part[o][r]
      <4>1. Runs(o, q, c)
        BY <2>3, <3>4
      <4>2. ~(Pipelines(r, part[o][r]) \subseteq {o})
        BY <3>3, <3>4
      <4>3. c \notin overran[q]
        BY <2>3, <3>4, <4>2 DEF Conclude
      <4>4. holder[q][c] = o /\ holder[q][c] = x
        BY <3>3, <4>1, <4>3 DEF EntryInv
      <4>5. QED
        BY <3>3, <3>4, <4>4
    <3>5. CASE ~(q = r /\ c = part[o][r])
      <4>1. c \notin overran[q]
        <5>1. overran' = overran \/ overran' = [overran EXCEPT ![r] = @ \ {part[o][r]}]
          BY <2>3 DEF Conclude
        <5>2. QED
          BY <2>0, <3>5, <5>1
      <4>2. holder'[q][c] = holder[q][c] /\ entryAge'[q][c] = entryAge[q][c]
        BY <2>0, <2>3, <3>5 DEF ClearInFlight
      <4>3. QED
        BY <2>1, <3>3, <4>1, <4>2
    <3>6. QED
      BY <3>4, <3>5
  <2>4. ASSUME NEW o \in Owners, NEW r \in Reqs, PipelineStep(o, r) PROVE Kept(q, c, x)
    <3>1. CASE Store(o, r)
      <4>1. UNCHANGED <<holder, entryAge, overran, part>> /\ pipe[o][r] = "running"
            /\ pipe' = [pipe EXCEPT ![o][r] = "storing"]
        BY <3>1 DEF Store, registryVars
      <4>2. Runs(x, q, c)
        BY <2>0, <4>1
      <4>3. QED
        BY <2>1, <4>1, <4>2
    <3>2. CASE End(o, r)
      <4>1. PICK outcome \in Outcomes : Conclude(o, r, outcome)
        BY <3>2 DEF End, Finish, FinishEmpty, FailFast, FailHard, Raise, Outcomes
      <4>2. /\ UNCHANGED <<holder, entryAge>> \/ ClearInFlight(r, part[o][r])
            /\ pipe[o][r] \in {"running", "storing"}
        BY <3>2 DEF End, Finish, FinishEmpty, FailFast, FailHard, Raise
      <4>3. QED
        BY <2>3, <4>1, <4>2
    <3>3. QED
      BY <2>4, <3>1, <3>2 DEF PipelineStep
  <2>5. ASSUME NEW r \in Reqs, NEW p \in Parts, NEW force, Cached(r, p, force), Runs(x, q, c)
        PROVE  Kept(q, c, x)
    <3>1. ~InFlight(r, p) /\ ClearInFlight(r, p) /\ UNCHANGED overran
      BY <2>5 DEF Cached
    <3>2. ~(q = r /\ c = p)
      BY <2>5, <2>16, <3>1
    <3>3. holder'[q][c] = holder[q][c] /\ entryAge'[q][c] = entryAge[q][c] /\ c \notin overran[q]
      BY <2>0, <3>1, <3>2 DEF ClearInFlight
    <3>4. QED
      BY <2>1, <2>5, <3>3
  \* A step that leaves the registry alone and starts nothing.
  <2>6. ASSUME UNCHANGED <<registryVars, part>>,
               pipe'[x][q] = pipe[x][q] \/ pipe'[x][q] \notin {"running", "storing"}
        PROVE  Kept(q, c, x)
    BY <2>1, <2>6 DEF registryVars
  \* A request for a criterion that the requirement does not have.
  <2>17. ASSUME NEW a, NEW r \in Reqs, NEW p \in Parts, ~InFlight(r, p), holder' = [holder EXCEPT ![r][p] = a],
                entryAge' = [entryAge EXCEPT ![r][p] = 0], UNCHANGED <<pipe, overran, testVars>>
         PROVE  Kept(q, c, x)
    <3>1. Runs(x, q, c) /\ c \notin overran[q]
      BY <2>17 DEF testVars
    <3>2. ~(q = r /\ c = p)
      BY <2>16, <2>17, <3>1
    <3>3. holder'[q][c] = holder[q][c] /\ entryAge'[q][c] = entryAge[q][c]
      BY <2>0, <2>17, <3>2
    <3>4. QED
      BY <2>1, <3>1, <3>3
  <2>7. ASSUME NEW a \in Callers, NEW r \in Reqs, Call(a, r) \/ Regenerate(a, r)
        PROVE  Kept(q, c, x)
    <3>1. CASE \E p \in Parts : \E tests, force : Enter(a, r, p, tests, force)
      BY <2>2, <3>1
    <3>2. CASE \E p \in Parts, force \in BOOLEAN : Cached(r, p, force) /\ UNCHANGED pipe
      BY <2>5, <3>2 DEF Cached
    <3>3. CASE UNCHANGED <<pipe, registryVars, part>>
      BY <2>6, <3>3
    <3>4. CASE \E p \in Parts : /\ ~InFlight(r, p)
                                /\ holder' = [holder EXCEPT ![r][p] = a] /\ entryAge' = [entryAge EXCEPT ![r][p] = 0]
                                /\ UNCHANGED <<pipe, overran, testVars>>
      BY <2>17, <3>4
    <3>5. CASE Call(a, r)
      BY <3>1, <3>2, <3>4, <3>5, Zenon DEF Call
    <3>6. CASE Regenerate(a, r)
      BY <2>0, <3>1, <3>3, <3>6 DEF Regenerate
    <3>7. QED
      BY <2>7, <3>5, <3>6
  <2>8. ASSUME NEW j \in Jobs, NEW force, NEW todo, NEW retry, Create(j, force, todo, retry)
        PROVE  Kept(q, c, x)
    BY <2>0, <2>6, <2>8 DEF Create, testVars
  <2>9. ASSUME NEW j \in Jobs, Proceed(j) PROVE Kept(q, c, x)
    <3>1. ASSUME NEW r \in Reqs, NEW outcome \in Outcomes, Record(j, r, outcome)
          PROVE  pipe'[x][q] = pipe[x][q] \/ pipe'[x][q] \notin {"running", "storing"}
      BY <2>0, <3>1 DEF Record, Outcomes
    <3>2. CASE ClearScope(j)
      BY <2>6, <3>2 DEF ClearScope
    <3>3. CASE AbortSeen(j) \/ JobEnd(j)
      BY <2>6, <3>3 DEF AbortSeen, JobEnd, Close, testVars
    <3>4. ASSUME NEW w \in Widths, BeginLoop(j, w) PROVE Kept(q, c, x)
      <4>1. pipe'[x][q] = pipe[x][q] \/ pipe'[x][q] \notin {"running", "storing"}
        BY <2>0, <3>4 DEF BeginLoop
      <4>2. QED
        BY <2>6, <3>4, <4>1 DEF BeginLoop, Ready
    <3>5. ASSUME NEW r \in Reqs, Pick(j, r) PROVE Kept(q, c, x)
      <4>1. pipe'[x][q] = pipe[x][q] \/ pipe'[x][q] \notin {"running", "storing"}
        <5>1. CASE pipe' = [pipe EXCEPT ![j][r] = "picked"]
          BY <2>0, <5>1
        <5>2. CASE Record(j, r, "skipped")
          BY <3>1, <5>2 DEF Outcomes
        <5>3. QED
          BY <3>5, <5>1, <5>2, Zenon DEF Pick
      <4>2. QED
        BY <2>6, <3>5, <4>1 DEF Pick, testVars
    <3>6. ASSUME NEW r \in Reqs, EnterFromJob(j, r) PROVE Kept(q, c, x)
      <4>1. CASE Enter(j, r, "*", inventory, forced[j])
        BY <2>0, <2>2, <4>1
      <4>2. CASE Cached(r, "*", forced[j]) /\ Record(j, r, "skipped")
        <5>1. Runs(x, q, c)
          BY <3>1, <4>2 DEF Outcomes, Cached
        <5>2. QED
          BY <2>0, <2>5, <4>2, <5>1
      <4>3. ASSUME NEW outcome \in {"skipped", "failed"}, Record(j, r, outcome), UNCHANGED <<registryVars, testVars>>
            PROVE  Kept(q, c, x)
        BY <2>6, <3>1, <4>3 DEF Outcomes, testVars
      <4>4. QED
        BY <3>6, <4>1, <4>2, <4>3 DEF EnterFromJob
    <3>7. ASSUME NEW r \in Reqs, Crash(j, r) PROVE Kept(q, c, x)
      <4>1. pipe' = [pipe EXCEPT ![j] = [pipe[j] EXCEPT ![r] = "dropped"]]
        BY <3>7 DEF Crash, Collapse
      <4>2. pipe'[x][q] = pipe[x][q] \/ pipe'[x][q] \notin {"running", "storing"}
        <5>1. pipe'[x] = IF x = j THEN [pipe[j] EXCEPT ![r] = "dropped"] ELSE pipe[x]
          BY <2>0, <4>1
        <5>2. pipe[j] \in [Reqs -> Stages]
          BY <2>0
        <5>3. QED
          BY <5>1, <5>2
      <4>3. QED
        BY <2>6, <3>7, <4>2 DEF Crash, testVars
    <3>9. CASE CrashEarly(j)
      <4>1. pipe' = [pipe EXCEPT ![j] = pipe[j]]
        BY <3>9 DEF CrashEarly, Collapse
      <4>2. pipe'[x][q] = pipe[x][q]
        BY <2>0, <4>1
      <4>3. QED
        BY <2>6, <3>9, <4>2 DEF CrashEarly, Ready
    <3>8. QED
      BY <2>9, <3>2, <3>3, <3>4, <3>5, <3>6, <3>7, <3>9 DEF Proceed
  <2>10. ASSUME NEW j \in Jobs, Abort(j) PROVE Kept(q, c, x)
    BY <2>6, <2>10 DEF Abort, testVars
  <2>11. CASE Kill
    <3>1. pipe'[x][q] \in Outcomes \cup {"none"}
      BY <2>11 DEF Kill, TypeOK, JobEntry, NoWork
    <3>2. QED
      BY <3>1 DEF Outcomes
  <2>12. CASE Tick
    <3>1. /\ UNCHANGED <<pipe, part, holder>>
          /\ entryAge'[q][c] = IF holder[q][c] = None THEN 0 ELSE Older(entryAge[q][c])
          /\ overran'[q] = overran[q] \cup
                {p \in Parts : holder[q][p] # None /\ entryAge'[q][p] >= TTL /\ Pipelines(q, p) # {}}
      BY <2>0, <2>12 DEF Tick, testVars
    <3>2. Runs(x, q, c) /\ c \notin overran[q] /\ holder[q][c] = x /\ x # None
      BY <3>1 DEF EntryInv
    <3>3. ~(entryAge'[q][c] >= TTL)
      BY <3>1, <3>2
    <3>4. entryAge'[q][c] \in Nat
      BY <2>0, <3>1 DEF Older
    <3>5. QED
      BY <3>1, <3>2, <3>3, <3>4
  <2>13. CASE UNCHANGED vars
    BY <2>6, <2>13 DEF vars, testVars
  <2>18. ASSUME NEW a \in Callers, NEW gone, CleanTool(a, gone) PROVE Kept(q, c, x)
    BY <2>6, <2>18 DEF CleanTool
  <2>14. CASE Next
    <3>1. ASSUME NEW j \in Jobs, NEW force, NEW todo, StartJob(j, force, todo) PROVE Kept(q, c, x)
      BY <2>8, <3>1, Zenon DEF StartJob
    <3>2. ASSUME NEW old \in Jobs, NEW j \in Jobs, Retry(old, j) PROVE Kept(q, c, x)
      BY <2>8, <3>2, Zenon DEF Retry
    <3>3. QED
      BY <2>4, <2>7, <2>9, <2>10, <2>11, <2>12, <2>14, <2>18, <3>1, <3>2, Zenon DEF Next
  <2>15. QED
    BY <2>13, <2>14
<1>3. QED
  BY <1>1, <1>2, TypeCorrect, PTL DEF Spec

\* Two pipelines of one part of a requirement need an overrun of that part: the
\* dedup of tests.py:2283-2323 holds for every number of callers, jobs and
\* criteria, whatever they raise, refuse or retry.
THEOREM DuplicateNeedsOverrunHolds == Spec => []DuplicateNeedsOverrun
<1>1. EntryInv => DuplicateNeedsOverrun
  <2> SUFFICES ASSUME EntryInv, NEW r \in Reqs, NEW p \in Parts, p \notin overran[r]
               PROVE  ~(Cardinality(Pipelines(r, p)) > 1)
    BY DEF DuplicateNeedsOverrun
  <2>1. Pipelines(r, p) \subseteq {holder[r][p]}
    BY DEF EntryInv
  <2>2. IsFiniteSet({holder[r][p]}) /\ Cardinality({holder[r][p]}) = 1
    BY FS_Singleton
  <2>3. Cardinality(Pipelines(r, p)) <= 1 /\ Cardinality(Pipelines(r, p)) \in Nat
    BY <2>1, <2>2, FS_Subset, FS_CardinalityType
  <2>4. QED
    BY <2>3
<1>2. QED
  BY <1>1, EntryInvariant, PTL

-----------------------------------------------------------------------------
(* The jobs.                                                                 *)

\* What a job's task may do with its list, by where it stands.
TaskInv(j) ==
    /\ phase[j] # "looping" => BusyReqs(j) = {}
    /\ phase[j] \in {"created", "clearing", "looping"} => status[j] = "running"
    /\ phase[j] \in {"created", "clearing"} =>
          \A r \in Reqs : pipe[j][r] = IF r \in scope[j] THEN "waiting" ELSE "none"
    /\ phase[j] = "looping" =>
          /\ width[j] > 0
          /\ \A r \in scope[j] : pipe[j][r] # "none" /\ (pipe[j][r] = "dropped" => width[j] > 1)
    /\ width[j] = 1 => \A q, r \in BusyReqs(j) : q = r
    /\ status[j] = "none" => pipe[j] = NoWork
    /\ status[j] = "completed" =>
          \A r \in scope[j] : pipe[j][r] \in Outcomes \/ (width[j] > 1 /\ pipe[j][r] \in {"dropped", "none"})

\* What the file has of a job is an earlier point of it: no outcome that the job does
\* not have, and an end only with everything.
FileInv(j) ==
    /\ saved[j].status = "none" => saved[j].work = NoWork
    /\ status[j] = "none" => saved[j].status = "none"
    /\ \A r \in Reqs : saved[j].work[r] # "none" => pipe[j][r] = saved[j].work[r]
    /\ saved[j].status \in Terminal => status[j] = saved[j].status /\ saved[j].work = Recorded(pipe[j])

JobInv(j) == TaskInv(j) /\ FileInv(j)

\* What a step does to the list of the job that takes it: nothing, an advance that
\* records nothing, or an outcome, which it tries to save; only a task that ends
\* changes the status.  What another job saves leaves the entry, or loses it.
InTurn(j, r) ==
    \/ pipe[j][r] \in Busy
    \/ /\ r \in WaitingReqs(j) /\ \A q \in WaitingReqs(j) : r <= q
       /\ width[j] = 1 => BusyReqs(j) = {}
Advances(j) ==
    /\ phase[j] = "looping" /\ phase'[j] = "looping"
    /\ \E r \in Reqs, stage \in Stages \ Outcomes :
          /\ stage \notin {"none", "waiting"} /\ (stage = "dropped" => width[j] > 1)
          /\ InTurn(j, r)
          /\ pipe'[j] = [pipe[j] EXCEPT ![r] = stage]
    /\ UNCHANGED <<status, scope, width, saved>>
Records(j) ==
    /\ phase[j] = "looping" /\ phase'[j] = "looping"
    /\ \E r \in Reqs, outcome \in Outcomes :
          /\ InTurn(j, r)
          /\ Record(j, r, outcome)
    /\ UNCHANGED <<status, scope, width>>
EntryStays(j) == saved'[j] = saved[j] \/ saved'[j] = NoEntry
Stays(j) ==
    /\ pipe'[j] = pipe[j] /\ EntryStays(j) /\ status'[j] = status[j] /\ phase'[j] = phase[j]
    /\ scope'[j] = scope[j] /\ width'[j] = width[j]

\* A save changes one entry of the file, or loses them all.
LEMMA SaveEffect ==
  ASSUME TypeOK, NEW k \in Jobs, NEW s, NEW work, SaveJob(k, s, work), NEW j \in Jobs
  PROVE  EntryStays(j) \/ (j = k /\ saved'[j] = [status |-> s, work |-> Recorded(work)])
BY DEF TypeOK, SaveJob, EntryStays

\* The file keeps its part of the invariant when its entry stays or is lost, as long
\* as the job keeps its outcomes and its end.
LEMMA EntryKeepsFile ==
  ASSUME TypeOK, NEW j \in Jobs, FileInv(j), EntryStays(j),
         \A r \in Reqs : pipe[j][r] \in Outcomes => pipe'[j][r] = pipe[j][r],
         status[j] \in Terminal => status'[j] = status[j] /\ Recorded(pipe'[j]) = Recorded(pipe[j]),
         status'[j] = "none" => status[j] = "none"
  PROVE  FileInv(j)'
<1>1. saved[j] \in JobEntry
  BY DEF TypeOK
<1>2. CASE saved'[j] = NoEntry
  <2>1. saved'[j].status = "none" /\ saved'[j].work = NoWork /\ \A r \in Reqs : saved'[j].work[r] = "none"
    BY <1>2 DEF NoEntry, NoWork
  <2>2. QED
    BY <2>1 DEF FileInv, Terminal
<1>3. CASE saved'[j] = saved[j]
  <2>1. ASSUME NEW r \in Reqs, saved[j].work[r] # "none" PROVE pipe'[j][r] = saved[j].work[r]
    <3>1. saved[j].work[r] \in Outcomes /\ pipe[j][r] = saved[j].work[r]
      BY <1>1, <2>1 DEF FileInv, JobEntry
    <3>2. QED
      BY <3>1
  <2>2. saved[j].status \in Terminal => status'[j] = saved[j].status /\ saved[j].work = Recorded(pipe'[j])
    BY DEF FileInv
  <2>3. Recorded(pipe[j])' = Recorded(pipe'[j])
    BY DEF Recorded
  <2>4. QED
    BY <1>3, <2>1, <2>2, <2>3 DEF FileInv
<1>4. QED
  BY <1>2, <1>3 DEF EntryStays

\* A job that is saved as it is.
LEMMA NewEntryKeepsFile ==
  ASSUME NEW j \in Jobs, NEW s, saved'[j] = [status |-> s, work |-> Recorded(pipe'[j])],
         s # "none", status'[j] = s
  PROVE  FileInv(j)'
<1>1. Recorded(pipe[j])' = Recorded(pipe'[j])
  BY DEF Recorded
<1>2. \A r \in Reqs : Recorded(pipe'[j])[r] # "none" => pipe'[j][r] = Recorded(pipe'[j])[r]
  BY DEF Recorded
<1>3. QED
  BY <1>1, <1>2 DEF FileInv

\* A job that a step leaves alone keeps its invariant.
LEMMA StaysKeepsJob ==
  ASSUME TypeOK, NEW j \in Jobs, JobInv(j), Stays(j)
  PROVE  JobInv(j)'
<1>1. TaskInv(j)'
  BY DEF JobInv, TaskInv, Stays, BusyReqs
<1>2. FileInv(j)'
  BY EntryKeepsFile DEF JobInv, Stays
<1>3. QED
  BY <1>1, <1>2 DEF JobInv

\* So does one of which a requirement gets further,
LEMMA AdvanceKeepsJob ==
  ASSUME TypeOK, NEW j \in Jobs, JobInv(j), Advances(j)
  PROVE  JobInv(j)'
<1>1. PICK r \in Reqs, stage \in Stages \ Outcomes :
          /\ stage # "none" /\ (stage = "dropped" => width[j] > 1)
          /\ pipe[j][r] \in Busy \/ (pipe[j][r] = "waiting" /\ (width[j] = 1 => BusyReqs(j) = {}))
          /\ pipe'[j] = [pipe[j] EXCEPT ![r] = stage]
  BY DEF Advances, InTurn, WaitingReqs
<1>2. pipe[j] \in [Reqs -> Stages] /\ pipe[j][r] \notin Outcomes /\ pipe[j][r] # "none"
  BY <1>1 DEF TypeOK, Owners, Busy, Alive, Outcomes
<1>3. /\ phase[j] = "looping" /\ phase'[j] = "looping"
      /\ UNCHANGED <<status, scope, width, saved>>
  BY DEF Advances
<1>4. status[j] = "running" /\ status'[j] = "running"
  BY <1>3 DEF JobInv, TaskInv
<1>5. Recorded(pipe'[j]) = Recorded(pipe[j])
  BY <1>1, <1>2 DEF Recorded
<1>6. FileInv(j)'
  <2>1. \A q \in Reqs : pipe[j][q] \in Outcomes => pipe'[j][q] = pipe[j][q]
    BY <1>1, <1>2
  <2>2. QED
    BY <1>3, <1>4, <1>5, <2>1, EntryKeepsFile DEF JobInv, EntryStays
<1>7. width[j] = 1 => \A q, s \in BusyReqs(j)' : q = s
  BY <1>1, <1>2 DEF JobInv, TaskInv, BusyReqs
<1>8. \A q \in scope[j] : pipe'[j][q] # "none" /\ (pipe'[j][q] = "dropped" => width[j] > 1)
  BY <1>1, <1>2, <1>3 DEF JobInv, TaskInv, TypeOK
<1>9. QED
  BY <1>3, <1>4, <1>6, <1>7, <1>8 DEF JobInv, TaskInv, Terminal

\* and one that records an outcome, saved or not.
LEMMA RecordKeepsJob ==
  ASSUME TypeOK, NEW j \in Jobs, JobInv(j), Records(j)
  PROVE  JobInv(j)'
<1>1. PICK r \in Reqs, outcome \in Outcomes : pipe[j][r] \in Busy \cup {"waiting"} /\ Record(j, r, outcome)
  BY DEF Records, InTurn, WaitingReqs
<1>2. pipe[j] \in [Reqs -> Stages] /\ pipe \in [Owners -> [Reqs -> Stages]] /\ saved \in [Jobs -> JobEntry]
      /\ j \in Owners
  BY DEF TypeOK, Owners
<1>3. /\ phase[j] = "looping" /\ phase'[j] = "looping"
      /\ UNCHANGED <<status, scope, width>>
  BY DEF Records
<1>4. status[j] = "running" /\ status'[j] = "running"
  BY <1>3 DEF JobInv, TaskInv
<1>5. /\ pipe'[j] = [pipe[j] EXCEPT ![r] = outcome]
      /\ EntryStays(j) \/ saved'[j] = [status |-> "running", work |-> Recorded(pipe'[j])]
  <2>1. pipe'[j] = [pipe[j] EXCEPT ![r] = outcome] /\ SaveJob(j, status[j], pipe'[j])
    BY <1>1, <1>2 DEF Record
  <2>2. QED
    BY <1>4, <2>1, SaveEffect
<1>6. FileInv(j)'
  <2>1. \A q \in Reqs : pipe[j][q] \in Outcomes => pipe'[j][q] = pipe[j][q]
    BY <1>1, <1>2, <1>5 DEF Busy, Alive, Outcomes
  <2>2. CASE EntryStays(j)
    BY <1>4, <2>1, <2>2, EntryKeepsFile DEF JobInv, Terminal
  <2>3. CASE saved'[j] = [status |-> "running", work |-> Recorded(pipe'[j])]
    BY <1>4, <2>3, NewEntryKeepsFile
  <2>4. QED
    BY <1>5, <2>2, <2>3
<1>7. width[j] = 1 => \A q, s \in BusyReqs(j)' : q = s
  BY <1>2, <1>5 DEF JobInv, TaskInv, BusyReqs, Busy, Alive, Outcomes
<1>8. \A q \in scope[j] : pipe'[j][q] # "none" /\ (pipe'[j][q] = "dropped" => width[j] > 1)
  BY <1>2, <1>3, <1>5 DEF JobInv, TaskInv, TypeOK, Outcomes
<1>9. QED
  BY <1>3, <1>4, <1>6, <1>7, <1>8 DEF JobInv, TaskInv, Terminal

\* A pipeline, a request, time and an abort do to a job nothing but record outcomes.
LEMMA PipelineEffect ==
  ASSUME TypeOK, NEW o \in Owners, NEW r \in Reqs, PipelineStep(o, r), NEW j \in Jobs, JobInv(j)
  PROVE  Stays(j) \/ Advances(j) \/ Records(j)
<1> USE OwnersAssumption DEF Owners
<1>1. pipe \in [Owners -> [Reqs -> Stages]] /\ saved \in [Jobs -> JobEntry] /\ pipe[o][r] \in Alive
  BY DEF TypeOK, PipelineStep, Store, End, Finish, FinishEmpty, FailFast, FailHard, Raise, Alive
<1>2. j = o => phase[j] = "looping"
  BY <1>1 DEF JobInv, TaskInv, BusyReqs, Busy
<1>3. CASE Store(o, r)
  <2>1. /\ pipe' = [pipe EXCEPT ![o][r] = "storing"]
        /\ UNCHANGED <<status, phase, forced, scope, width, retried, abort, saved>>
    BY <1>3 DEF Store, jobVars, fileVars
  <2>2. CASE j = o
    <3>1. "storing" \in Stages \ Outcomes /\ pipe'[j] = [pipe[j] EXCEPT ![r] = "storing"]
      BY <1>1, <2>1, <2>2 DEF Stages, Busy, Alive, Outcomes
    <3>2. QED
      BY <1>1, <1>2, <2>1, <2>2, <3>1 DEF Advances, InTurn, Busy
  <2>3. QED
    BY <1>1, <2>1, <2>2 DEF Stays, EntryStays
<1>4. CASE End(o, r)
  <2>1. PICK outcome \in Outcomes : Conclude(o, r, outcome)
    BY <1>4 DEF End, Finish, FinishEmpty, FailFast, FailHard, Raise, Outcomes
  <2>2. UNCHANGED <<status, phase, forced, scope, width, retried, abort>>
    BY <2>1 DEF Conclude
  <2>3. CASE j = o
    <3>1. Record(j, r, outcome)
      BY <2>1, <2>3 DEF Conclude
    <3>2. QED
      BY <1>1, <1>2, <2>2, <2>3, <3>1 DEF Records, InTurn, Busy
  <2>4. CASE j # o
    <3>1. CASE o \in Jobs
      <4>1. pipe'[j] = pipe[j] /\ EntryStays(j)
        <5>1. Record(o, r, outcome)
          BY <2>1, <3>1 DEF Conclude
        <5>2. QED
          BY <1>1, <2>4, <3>1, <5>1, SaveEffect DEF Record
      <4>2. QED
        BY <2>2, <4>1 DEF Stays
    <3>2. CASE o \notin Jobs
      <4>1. pipe'[j] = pipe[j] /\ EntryStays(j)
        BY <1>1, <2>1, <2>4, <3>2 DEF Conclude, EntryStays, fileVars
      <4>2. QED
        BY <2>2, <4>1 DEF Stays
    <3>3. QED
      BY <3>1, <3>2
  <2>5. QED
    BY <2>3, <2>4
<1>5. QED
  BY <1>3, <1>4 DEF PipelineStep

\* A direct request does nothing to a job.
LEMMA RequestEffect ==
  ASSUME TypeOK, NEW a \in Callers, NEW r \in Reqs, Call(a, r) \/ Regenerate(a, r), NEW j \in Jobs
  PROVE  Stays(j)
<1>1. UNCHANGED <<status, phase, forced, scope, width, retried, abort, saved>>
  BY DEF Call, Regenerate, jobVars, fileVars
<1>2. pipe'[j] = pipe[j]
  <2>1. pipe \in [Owners -> [Reqs -> Stages]] /\ j # a
    BY OwnersAssumption DEF TypeOK, Owners
  <2>2. UNCHANGED pipe \/ pipe' = [pipe EXCEPT ![a][r] = "running"]
    BY DEF Call, Regenerate, Enter
  <2>3. QED
    BY <2>1, <2>2 DEF Owners
<1>3. QED
  BY <1>1, <1>2 DEF Stays, EntryStays

\* A job that picks a requirement, enters its pipeline or loses one of several
\* coroutines advances or records; the other jobs stay as they are.
LEMMA LoopEffect ==
  ASSUME TypeOK, NEW k \in Jobs, NEW r \in Reqs, Pick(k, r) \/ EnterFromJob(k, r) \/ (Crash(k, r) /\ width[k] > 1),
         NEW j \in Jobs, JobInv(j)
  PROVE  Stays(j) \/ Advances(j) \/ Records(j)
<1> USE DEF Owners
<1>1. /\ pipe \in [Owners -> [Reqs -> Stages]] /\ saved \in [Jobs -> JobEntry] /\ width \in [Jobs -> Widths \cup {0}]
      /\ "picked" \in Stages \ Outcomes /\ "dropped" \in Stages \ Outcomes /\ "running" \in Stages \ Outcomes
      /\ "skipped" \in Outcomes /\ "failed" \in Outcomes
  BY DEF TypeOK, Stages, Busy, Alive, Outcomes
<1>2. UNCHANGED <<status, phase, scope, width>>
  BY Zenon DEF Pick, EnterFromJob, Crash
<1>3. pipe[k][r] = "picked" /\ j = k => phase[j] = "looping"
  BY <1>1 DEF JobInv, TaskInv, BusyReqs, Busy
<1>4. ASSUME NEW outcome \in Outcomes, Record(k, r, outcome), InTurn(k, r),
             j = k => phase[j] = "looping"
      PROVE  Stays(j) \/ Records(j)
  <2>1. CASE j = k
    BY <1>2, <1>4, <2>1 DEF Records
  <2>2. CASE j # k
    <3>1. pipe'[j] = pipe[j] /\ EntryStays(j)
      BY <1>1, <1>4, <2>2, SaveEffect DEF Record
    <3>2. QED
      BY <1>2, <3>1 DEF Stays
  <2>3. QED
    BY <2>1, <2>2
<1>5. ASSUME NEW stage \in Stages \ Outcomes, stage \notin {"none", "waiting"}, stage = "dropped" => width[k] > 1,
             pipe' = [pipe EXCEPT ![k][r] = stage], UNCHANGED saved, j = k => phase[j] = "looping",
             InTurn(k, r)
      PROVE  Stays(j) \/ Advances(j)
  <2>1. CASE j = k
    <3>1. pipe'[j] = [pipe[j] EXCEPT ![r] = stage]
      BY <1>1, <1>5, <2>1
    <3>2. QED
      BY <1>2, <1>5, <2>1, <3>1 DEF Advances
  <2>2. CASE j # k
    BY <1>1, <1>2, <1>5, <2>2 DEF Stays, EntryStays
  <2>3. QED
    BY <2>1, <2>2
<1>6. CASE Pick(k, r)
  <2>1. pipe[k][r] = "waiting" /\ phase[k] = "looping"
    BY <1>6 DEF Pick, WaitingReqs
  <2>2. width[k] = 1 => BusyReqs(k) = {}
    <3>1. IsFiniteSet(BusyReqs(k))
      <4>1. IsFiniteSet(Reqs)
        BY NumbersAssumption, FS_Interval DEF Reqs
      <4>2. QED
        BY <4>1, FS_Subset DEF BusyReqs
    <3>2. Cardinality(BusyReqs(k)) < width[k] /\ Cardinality(BusyReqs(k)) \in Nat
      BY <1>6, <3>1, FS_CardinalityType DEF Pick
    <3>3. width[k] = 1 => Cardinality(BusyReqs(k)) = 0
      BY <3>2
    <3>4. QED
      BY <3>1, <3>3, FS_EmptySet
  <2>0. InTurn(k, r)
    BY <1>6, <2>2 DEF Pick, InTurn
  <2>3. CASE Record(k, r, "skipped")
    BY <1>1, <1>4, <2>0, <2>1, <2>3
  <2>4. CASE pipe' = [pipe EXCEPT ![k][r] = "picked"] /\ UNCHANGED saved
    BY <1>1, <1>5, <2>0, <2>1, <2>4
  <2>5. QED
    BY <1>6, <2>3, <2>4 DEF Pick, fileVars
<1>7. CASE EnterFromJob(k, r)
  <2>1. pipe[k][r] = "picked" /\ InTurn(k, r)
    BY <1>7 DEF EnterFromJob, InTurn, Busy
  <2>2. CASE Record(k, r, "skipped") \/ Record(k, r, "failed")
    BY <1>1, <1>3, <1>4, <2>1, <2>2
  <2>3. CASE pipe' = [pipe EXCEPT ![k][r] = "running"] /\ UNCHANGED saved
    BY <1>1, <1>3, <1>5, <2>1, <2>3
  <2>4. QED
    BY <1>7, <2>2, <2>3 DEF EnterFromJob, Enter, fileVars
<1>8. CASE Crash(k, r) /\ width[k] > 1
  <2>1. pipe[k][r] = "picked" /\ InTurn(k, r) /\ UNCHANGED saved
    BY <1>8 DEF Crash, InTurn, Busy, fileVars
  <2>2. pipe' = [pipe EXCEPT ![k][r] = "dropped"]
    BY <1>1, <1>8 DEF Crash
  <2>3. QED
    BY <1>1, <1>3, <1>5, <1>8, <2>1, <2>2
<1>9. QED
  BY <1>6, <1>7, <1>8

\* A job that is created, clears its scope, begins its loop, ends or crashes in it.
Turn(k) ==
    \/ \E force \in BOOLEAN, todo \in SUBSET Reqs, retry \in BOOLEAN : Create(k, force, todo, retry)
    \/ ClearScope(k) \/ CrashEarly(k) \/ AbortSeen(k) \/ JobEnd(k)
    \/ \E w \in Widths : BeginLoop(k, w)
    \/ \E r \in Reqs : Crash(k, r) /\ ~(width[k] > 1)

\* Every other step but a kill leaves a job alone, advances it or records.
LEMMA StepEffect ==
  ASSUME TypeOK, \A x \in Jobs : JobInv(x), [Next]_vars, ~Kill, ~(\E k \in Jobs : Turn(k)), NEW j \in Jobs
  PROVE  Stays(j) \/ Advances(j) \/ Records(j)
<1>1. ASSUME NEW o \in Owners, NEW r \in Reqs, PipelineStep(o, r) PROVE Stays(j) \/ Advances(j) \/ Records(j)
  BY <1>1, PipelineEffect
<1>2. ASSUME NEW a \in Callers, NEW r \in Reqs, Call(a, r) \/ Regenerate(a, r) PROVE Stays(j)
  BY <1>2, RequestEffect
<1>3. ASSUME NEW k \in Jobs, NEW force \in BOOLEAN, NEW todo \in SUBSET Reqs, NEW retry \in BOOLEAN,
             Create(k, force, todo, retry)
      PROVE  FALSE
  BY <1>3, Zenon DEF Turn
<1>4. ASSUME NEW k \in Jobs, NEW force \in BOOLEAN, NEW todo \in Scopes, StartJob(k, force, todo) PROVE FALSE
  <2>1. todo \in SUBSET Reqs /\ FALSE \in BOOLEAN
    BY ScopesAssumption
  <2>2. QED
    BY <1>3, <1>4, <2>1, Zenon DEF StartJob
<1>5. ASSUME NEW old \in Jobs, NEW k \in Jobs, Retry(old, k) PROVE FALSE
  <2> DEFINE failed == {r \in Reqs : pipe[old][r] = "failed"}
             ok == {r \in Reqs : pipe[old][r] = "ok"}
  <2>1. PICK todo \in {failed \cup some : some \in SUBSET ok} \cup {r..NumReqs : r \in Reqs} :
           Create(k, FALSE, todo, TRUE)
    BY <1>5, Zenon DEF Retry
  <2>2. todo \in SUBSET Reqs /\ FALSE \in BOOLEAN /\ TRUE \in BOOLEAN
    <3>1. CASE todo \in {r..NumReqs : r \in Reqs}
      BY <3>1, NumbersAssumption DEF Reqs
    <3>2. CASE todo \in {failed \cup some : some \in SUBSET ok}
      <4>1. PICK some \in SUBSET ok : todo = failed \cup some
        BY <3>2
      <4>2. QED
        BY <4>1
    <3>3. QED
      BY <2>1, <3>1, <3>2
  <2>3. QED
    BY <1>3, <2>1, <2>2, Zenon
<1>6. ASSUME NEW k \in Jobs, Abort(k) PROVE Stays(j)
  BY <1>6 DEF Abort, Stays, EntryStays, fileVars
<1>10. ASSUME NEW a \in Callers, NEW gone, CleanTool(a, gone) PROVE Stays(j)
  BY <1>10 DEF CleanTool, Stays, EntryStays, jobVars, fileVars
<1>7. ASSUME NEW k \in Jobs, Proceed(k) PROVE Stays(j) \/ Advances(j) \/ Records(j)
  <2>1. \E r \in Reqs : Pick(k, r) \/ EnterFromJob(k, r) \/ (Crash(k, r) /\ width[k] > 1)
    BY <1>7 DEF Proceed, Turn
  <2>2. QED
    BY <2>1, LoopEffect
<1>8. ASSUME Tick \/ UNCHANGED vars PROVE Stays(j)
  BY <1>8 DEF Tick, vars, Stays, EntryStays, jobVars, fileVars
<1>9. QED
  BY <1>1, <1>2, <1>4, <1>5, <1>6, <1>7, <1>8, <1>10, Zenon DEF Next

\* A task that ends with an exception is lost, or its job is marked and saved.
LEMMA CollapseEffect ==
  ASSUME TypeOK, NEW k \in Jobs, NEW work, Collapse(k, work)
  PROVE  /\ pipe' = [pipe EXCEPT ![k] = work] /\ pipe'[k] = work
         /\ \/ retried[k] /\ phase' = [phase EXCEPT ![k] = "lost"] /\ UNCHANGED <<status, saved>>
            \/ /\ ~retried[k]
               /\ phase' = [phase EXCEPT ![k] = "over"] /\ status' = [status EXCEPT ![k] = "crashed"]
               /\ SaveJob(k, "crashed", work)
<1>1. pipe' = [pipe EXCEPT ![k] = work] /\ pipe'[k] = work
  BY DEF TypeOK, Owners, Collapse
<1>2. CASE retried[k]
  BY <1>1, <1>2 DEF Collapse, fileVars
<1>3. CASE ~retried[k]
  BY <1>1, <1>3 DEF Collapse
<1>4. QED
  BY <1>2, <1>3

\* The other jobs are left alone by such a turn.
LEMMA TurnAside ==
  ASSUME TypeOK, NEW k \in Jobs, NEW j \in Jobs, j # k, Turn(k)
  PROVE  Stays(j)
<1> USE DEF Owners, EntryStays, fileVars
<1>1. /\ pipe \in [Owners -> [Reqs -> Stages]] /\ width \in [Jobs -> Widths \cup {0}]
      /\ status \in [Jobs -> Terminal \cup {"none", "running"}] /\ scope \in [Jobs -> SUBSET Reqs]
      /\ phase \in [Jobs -> {"none", "created", "clearing", "looping", "over", "lost"}]
  BY DEF TypeOK
<1>2. ASSUME NEW force \in BOOLEAN, NEW todo \in SUBSET Reqs, NEW retry \in BOOLEAN, Create(k, force, todo, retry)
      PROVE  Stays(j)
  BY <1>1, <1>2 DEF Create, Stays
<1>3. CASE ClearScope(k)
  BY <1>1, <1>3 DEF ClearScope, Stays
<1>4. ASSUME NEW work, Collapse(k, work), UNCHANGED <<scope, width>> PROVE Stays(j)
  <2>1. pipe'[j] = pipe[j] /\ status'[j] = status[j] /\ phase'[j] = phase[j]
    BY <1>1, <1>4, CollapseEffect
  <2>2. EntryStays(j)
    <3>1. CASE retried[k]
      BY <1>4, <3>1, CollapseEffect
    <3>2. CASE ~retried[k]
      <4>1. SaveJob(k, "crashed", work)
        BY <1>4, <3>2, CollapseEffect
      <4>2. QED
        BY <4>1, SaveEffect
    <3>3. QED
      BY <3>1, <3>2
  <2>3. QED
    BY <1>4, <2>1, <2>2 DEF Stays
<1>5. CASE CrashEarly(k)
  BY <1>4, <1>5 DEF CrashEarly
<1>6. ASSUME NEW r \in Reqs, Crash(k, r), ~(width[k] > 1) PROVE Stays(j)
  <2>1. Collapse(k, [pipe[k] EXCEPT ![r] = "dropped"]) /\ UNCHANGED <<scope, width>>
    BY <1>6, Zenon DEF Crash
  <2>2. QED
    BY <1>4, <2>1
<1>7. ASSUME NEW s, Close(k, s) PROVE Stays(j)
  <2>1. EntryStays(j)
    BY <1>7, SaveEffect DEF Close
  <2>2. QED
    BY <1>1, <1>7, <2>1 DEF Close, Stays
<1>8. ASSUME NEW w \in Widths, BeginLoop(k, w) PROVE Stays(j)
  BY <1>1, <1>8 DEF BeginLoop, Stays
<1>9. QED
  BY <1>2, <1>3, <1>5, <1>6, <1>7, <1>8 DEF Turn, AbortSeen, JobEnd

\* Such a turn keeps the invariant of that job and of all others.
LEMMA TurnKeepsJob ==
  ASSUME TypeOK, TypeOK', NEW k \in Jobs, NEW j \in Jobs, JobInv(j), JobInv(k),
         Turn(k)
  PROVE  JobInv(j)'
<1> USE DEF Owners
<1>1. /\ pipe \in [Owners -> [Reqs -> Stages]] /\ saved \in [Jobs -> JobEntry] /\ width \in [Jobs -> Widths \cup {0}]
      /\ status \in [Jobs -> Terminal \cup {"none", "running"}] /\ scope \in [Jobs -> SUBSET Reqs]
      /\ phase \in [Jobs -> {"none", "created", "clearing", "looping", "over", "lost"}]
  BY DEF TypeOK
<1>2. CASE j # k
  BY <1>2, TurnAside, StaysKeepsJob
<1>3. ASSUME j = k, NEW force \in BOOLEAN, NEW todo \in SUBSET Reqs, NEW retry \in BOOLEAN, Create(k, force, todo, retry)
      PROVE  JobInv(j)'
  <2>1. /\ status[j] = "none" /\ status'[j] = "running" /\ phase'[j] = "created" /\ scope'[j] = todo
        /\ pipe'[j] = [r \in Reqs |-> IF r \in todo THEN "waiting" ELSE "none"]
        /\ saved'[j] = saved[j] /\ width'[j] = width[j]
    BY <1>1, <1>3 DEF Create, fileVars
  <2>2. pipe[j] = NoWork
    BY <2>1 DEF JobInv, TaskInv
  <2>3. \A r \in Reqs : pipe[j][r] \notin Outcomes
    BY <2>2 DEF NoWork, Outcomes
  <2>4. BusyReqs(j)' = {}
    BY <2>1 DEF BusyReqs, Busy, Alive
  <2>5. \A r \in Reqs : pipe'[j][r] = IF r \in scope'[j] THEN "waiting" ELSE "none"
    BY <2>1
  <2>6. TaskInv(j)'
    BY <2>1, <2>4, <2>5 DEF TaskInv
  <2>7. FileInv(j)'
    BY <2>1, <2>3, EntryKeepsFile DEF JobInv, EntryStays, Terminal
  <2>8. QED
    BY <2>6, <2>7 DEF JobInv
<1>4. CASE j = k /\ ClearScope(k)
  <2>1. /\ phase[j] = "created" /\ phase'[j] = "clearing"
        /\ UNCHANGED <<pipe, saved, status, scope, width>>
    BY <1>1, <1>4 DEF ClearScope, fileVars
  <2>2. TaskInv(j)'
    BY <2>1 DEF JobInv, TaskInv, BusyReqs
  <2>3. FileInv(j)'
    BY <2>1, EntryKeepsFile DEF JobInv, EntryStays
  <2>4. QED
    BY <2>2, <2>3 DEF JobInv
<1>5. ASSUME j = k, NEW newStatus \in {"aborted", "completed"}, Close(k, newStatus), BusyReqs(k) = {},
             newStatus = "completed" => WaitingReqs(k) = {}
      PROVE  JobInv(j)'
  <2>1. /\ phase[j] = "looping" /\ phase'[j] = "over" /\ status'[j] = newStatus
        /\ EntryStays(j) \/ saved'[j] = [status |-> newStatus, work |-> Recorded(pipe[j])]
        /\ UNCHANGED <<pipe, scope, width>>
    BY <1>1, <1>5, SaveEffect DEF Close
  <2>7. status[j] = "running"
    BY <2>1 DEF JobInv, TaskInv
  <2>2. BusyReqs(j)' = {}
    BY <1>5, <2>1 DEF BusyReqs
  <2>3. ASSUME newStatus = "completed", NEW r \in scope[j]
        PROVE  pipe[j][r] \in Outcomes \/ (width[j] > 1 /\ pipe[j][r] = "dropped")
    <3>1. r \in Reqs /\ pipe[j][r] \in Stages /\ pipe[j][r] \notin Busy /\ pipe[j][r] # "waiting"
      BY <1>1, <1>5, <2>3 DEF BusyReqs, WaitingReqs
    <3>2. pipe[j][r] # "none" /\ (pipe[j][r] = "dropped" => width[j] > 1)
      BY <2>1, <2>3 DEF JobInv, TaskInv
    <3>3. QED
      BY <3>1, <3>2 DEF Stages
  <2>4. TaskInv(j)'
    BY <2>1, <2>2, <2>3 DEF TaskInv
  <2>5. FileInv(j)'
    <3>1. CASE EntryStays(j)
      BY <2>1, <2>7, <3>1, EntryKeepsFile DEF JobInv, Terminal
    <3>2. CASE saved'[j] = [status |-> newStatus, work |-> Recorded(pipe'[j])]
      BY <2>1, <3>2, NewEntryKeepsFile
    <3>3. QED
      BY <2>1, <3>1, <3>2
  <2>6. QED
    BY <2>4, <2>5 DEF JobInv
<1>6. ASSUME j = k, NEW w \in Widths, BeginLoop(k, w) PROVE JobInv(j)'
  <2>1. /\ phase[j] \in {"created", "clearing"} /\ phase'[j] = "looping" /\ width'[j] = w /\ w > 0
        /\ UNCHANGED <<saved, status, scope>>
    BY <1>1, <1>6, NumbersAssumption DEF BeginLoop, Ready, fileVars
  <2>2. /\ status[j] = "running" /\ BusyReqs(j) = {} /\ scope[j] \subseteq Reqs
        /\ \A r \in Reqs : pipe[j][r] = IF r \in scope[j] THEN "waiting" ELSE "none"
    BY <1>1, <2>1 DEF JobInv, TaskInv
  <2>3. /\ \A r \in Reqs : pipe[j][r] \notin Outcomes \/ pipe'[j][r] = pipe[j][r]
        /\ \A r \in Reqs : pipe'[j][r] \in Outcomes => pipe'[j][r] = pipe[j][r]
        /\ BusyReqs(j)' = {}
        /\ \A r \in scope[j] : pipe'[j][r] # "none" /\ (pipe'[j][r] = "dropped" => w > 1)
    <3>1. CASE pipe' = pipe
      BY <2>2, <3>1 DEF BusyReqs
    <3>2. CASE w > 1 /\ pipe' = [pipe EXCEPT ![j] = [r \in Reqs |-> IF r \in scope[j] THEN "dropped" ELSE "none"]]
      <4>1. pipe'[j] = [r \in Reqs |-> IF r \in scope[j] THEN "dropped" ELSE "none"]
        BY <1>1, <3>2
      <4>2. \A r \in Reqs : pipe[j][r] \notin Outcomes
        BY <2>1, <2>2, <1>1 DEF JobInv, TaskInv, Outcomes
      <4>3. QED
        BY <1>1, <2>2, <3>2, <4>1, <4>2 DEF BusyReqs, Busy, Alive, Outcomes
    <3>3. QED
      BY <1>6, <3>1, <3>2 DEF BeginLoop
  <2>5. TaskInv(j)'
    BY <2>1, <2>2, <2>3 DEF TaskInv
  <2>6. FileInv(j)'
    BY <2>1, <2>2, <2>3, EntryKeepsFile DEF JobInv, EntryStays, Terminal
  <2>7. QED
    BY <2>5, <2>6 DEF JobInv
<1>9. ASSUME j = k, NEW work, Collapse(k, work), UNCHANGED <<scope, width>>, status[j] = "running",
             \A r \in Reqs : pipe[j][r] \in Outcomes => work[r] = pipe[j][r],
             BusyReqs(j)' = {}
      PROVE  JobInv(j)'
  <2>1. pipe'[j] = work
    BY <1>9, CollapseEffect
  <2>2. CASE retried[k]
    <3>1. phase'[j] = "lost" /\ status'[j] = "running" /\ saved'[j] = saved[j]
      BY <1>1, <1>9, <2>2, CollapseEffect
    <3>2. TaskInv(j)'
      BY <1>9, <3>1 DEF TaskInv
    <3>3. FileInv(j)'
      BY <1>9, <2>1, <3>1, EntryKeepsFile DEF JobInv, EntryStays, Terminal
    <3>4. QED
      BY <3>2, <3>3 DEF JobInv
  <2>3. CASE ~retried[k]
    <3>1. phase'[j] = "over" /\ status'[j] = "crashed" /\ SaveJob(k, "crashed", work)
      BY <1>1, <1>9, <2>3, CollapseEffect
    <3>2. TaskInv(j)'
      BY <1>9, <3>1 DEF TaskInv
    <3>3. CASE EntryStays(j)
      <4>1. FileInv(j)'
        BY <1>9, <2>1, <3>1, <3>3, EntryKeepsFile DEF JobInv, Terminal
      <4>2. QED
        BY <3>2, <4>1 DEF JobInv
    <3>4. CASE saved'[j] = [status |-> "crashed", work |-> Recorded(pipe'[j])]
      <4>1. FileInv(j)'
        BY <3>1, <3>4, NewEntryKeepsFile
      <4>2. QED
        BY <3>2, <4>1 DEF JobInv
    <3>5. QED
      BY <1>9, <2>1, <3>1, <3>3, <3>4, SaveEffect
  <2>4. QED
    BY <2>2, <2>3
<1>10. CASE j = k /\ CrashEarly(k)
  <2>1. phase[j] \in {"created", "clearing"} /\ Collapse(k, pipe[j]) /\ UNCHANGED <<scope, width>>
    BY <1>10 DEF CrashEarly, Ready
  <2>2. status[j] = "running" /\ BusyReqs(j) = {} /\ pipe'[j] = pipe[j]
    BY <1>10, <2>1, CollapseEffect DEF JobInv, TaskInv
  <2>3. BusyReqs(j)' = {}
    BY <2>2 DEF BusyReqs
  <2>4. QED
    BY <1>9, <1>10, <2>1, <2>2, <2>3
<1>7. ASSUME j = k, NEW r \in Reqs, Crash(k, r), ~(width[k] > 1) PROVE JobInv(j)'
  <2> DEFINE work == [pipe[j] EXCEPT ![r] = "dropped"]
  <2>1. pipe[j][r] = "picked" /\ Collapse(k, work) /\ UNCHANGED <<scope, width>>
    BY <1>7, Zenon DEF Crash
  <2>2. phase[j] = "looping" /\ pipe[j] \in [Reqs -> Stages]
    BY <1>1, <2>1 DEF JobInv, TaskInv, BusyReqs, Busy
  <2>3. width[j] = 1 /\ status[j] = "running"
    <3>1. width[j] > 0 /\ status[j] = "running"
      BY <2>2 DEF JobInv, TaskInv
    <3>2. width[j] \in Nat
      <4>1. \A x \in Widths \cup {0} : x \in Nat
        BY NumbersAssumption
      <4>2. width[j] \in Widths \cup {0}
        BY <1>1
      <4>3. QED
        BY <4>1, <4>2
    <3>3. QED
      BY <1>7, <3>1, <3>2
  <2>4. pipe'[j] = work
    BY <1>7, <2>1, CollapseEffect
  <2>5. BusyReqs(j)' = {}
    BY <2>1, <2>2, <2>3, <2>4 DEF JobInv, TaskInv, BusyReqs, Busy, Alive
  <2>6. \A q \in Reqs : pipe[j][q] \in Outcomes => work[q] = pipe[j][q]
    BY <2>1, <2>2 DEF Outcomes
  <2>7. QED
    BY <1>7, <1>9, <2>1, <2>3, <2>5, <2>6
<1>8. QED
  BY <1>2, <1>3, <1>4, <1>5, <1>6, <1>7, <1>10 DEF Turn, AbortSeen, JobEnd

\* What is read from the file after a kill is an earlier point of the job, ended if
\* it was running, or no job at all.
LEMMA KillKeepsJob ==
  ASSUME TypeOK, Kill, NEW j \in Jobs, JobInv(j)
  PROVE  JobInv(j)'
<1>1. saved[j] \in JobEntry /\ status[j] \in Terminal \cup {"none", "running"}
  BY DEF TypeOK
<1>2. /\ status'[j] = Loaded(saved[j].status)
      /\ saved'[j].status = Loaded(saved[j].status) /\ saved'[j].work = saved[j].work
      /\ pipe'[j] = saved[j].work
      /\ phase'[j] = IF saved[j].status = "none" THEN "none" ELSE "over"
      /\ scope'[j] = IF saved[j].status = "none" THEN {} ELSE scope[j]
      /\ width'[j] = IF saved[j].status = "none" THEN 0 ELSE width[j]
  BY <1>1 DEF Kill, Owners, JobEntry
<1>3. Recorded(saved[j].work) = saved[j].work
  BY <1>1 DEF Recorded, JobEntry
<1>4. BusyReqs(j)' = {}
  BY <1>1, <1>2 DEF BusyReqs, JobEntry, Busy, Alive, Outcomes
<1>5. FileInv(j)'
  <2>1. Recorded(pipe[j])' = saved[j].work
    BY <1>2, <1>3 DEF Recorded
  <2>2. saved'[j].status = "none" => saved[j].status = "none" /\ saved[j].work = NoWork
    BY <1>2 DEF Loaded, JobInv, FileInv
  <2>3. saved'[j].status = status'[j]
    BY <1>2
  <2>4. QED
    BY <1>2, <2>1, <2>2, <2>3 DEF FileInv
<1>6. ASSUME status'[j] = "completed", NEW r \in scope'[j]
      PROVE  pipe'[j][r] \in Outcomes \/ (width'[j] > 1 /\ pipe'[j][r] \in {"dropped", "none"})
  <2>1. saved[j].status = "completed" /\ status[j] = "completed" /\ r \in scope[j] /\ width'[j] = width[j]
    BY <1>2, <1>6 DEF Loaded, JobInv, FileInv, Terminal
  <2>2. pipe[j][r] \in Outcomes \/ (width[j] > 1 /\ pipe[j][r] \in {"dropped", "none"})
    BY <2>1 DEF JobInv, TaskInv
  <2>3. r \in Reqs /\ pipe'[j][r] = IF pipe[j][r] \in Outcomes THEN pipe[j][r] ELSE "none"
    BY <1>2, <2>1 DEF JobInv, FileInv, Recorded, TypeOK, Terminal
  <2>4. QED
    BY <2>1, <2>2, <2>3
<1>7. status'[j] = "none" => pipe'[j] = NoWork
  BY <1>1, <1>2 DEF Loaded, JobInv, FileInv
<1>8. TaskInv(j)'
  BY <1>2, <1>4, <1>6, <1>7 DEF TaskInv
<1>9. QED
  BY <1>5, <1>8 DEF JobInv

\* Every job agrees with its task and its file in every reachable state.
LEMMA JobInvariant == Spec => [](\A j \in Jobs : JobInv(j))
<1>1. Init => \A j \in Jobs : JobInv(j)
  BY DEF Init, JobInv, TaskInv, FileInv, BusyReqs, Busy, Alive, NoEntry, NoWork, Recorded, Outcomes, Terminal, Owners
<1>2. TypeOK /\ TypeOK' /\ (\A j \in Jobs : JobInv(j)) /\ [Next]_vars => (\A j \in Jobs : JobInv(j))'
  <2> SUFFICES ASSUME TypeOK, TypeOK', \A x \in Jobs : JobInv(x), [Next]_vars, NEW j \in Jobs
               PROVE  JobInv(j)'
    OBVIOUS
  <2>1. CASE Kill
    BY <2>1, KillKeepsJob
  <2>2. CASE \E k \in Jobs : Turn(k)
    BY <2>2, TurnKeepsJob
  <2>3. CASE ~Kill /\ ~(\E k \in Jobs : Turn(k))
    BY <2>3, StepEffect, StaysKeepsJob, AdvanceKeepsJob, RecordKeepsJob
  <2>4. QED
    BY <2>1, <2>2, <2>3
<1>3. QED
  BY <1>1, <1>2, TypeCorrect, PTL DEF Spec

\* A job that says completed accounts for the whole of its scope, or ran several
\* requirements at a time and has nothing under way, for every scope and width.
THEOREM CompletedAccountsForScopeHolds == Spec => []CompletedAccountsForScope
<1>1. (\A j \in Jobs : JobInv(j)) => CompletedAccountsForScope
  BY DEF JobInv, TaskInv, CompletedAccountsForScope, Busy, Alive
<1>2. QED
  BY <1>1, JobInvariant, PTL

\* What a step leaves of the finished work of a job.
Stands(j) ==
    /\ status[j] \in Terminal => status'[j] = status[j]
    /\ \A r \in Reqs : pipe[j][r] \in Outcomes => pipe'[j][r] = pipe[j][r]

\* Whatever leaves a job alone, advances it or records keeps its finished work,
LEMMA EffectStands ==
  ASSUME TypeOK, NEW j \in Jobs, JobInv(j), Stays(j) \/ Advances(j) \/ Records(j)
  PROVE  Stands(j)
<1>1. pipe \in [Owners -> [Reqs -> Stages]] /\ j \in Owners
  BY DEF TypeOK, Owners
<1>2. CASE Stays(j)
  BY <1>2 DEF Stays, Stands
<1>3. CASE Advances(j)
  BY <1>1, <1>3 DEF Advances, InTurn, WaitingReqs, Stands, Outcomes, Busy, Alive
<1>4. CASE Records(j)
  BY <1>1, <1>4 DEF Records, InTurn, WaitingReqs, Record, Stands, Outcomes, Busy, Alive
<1>5. QED
  BY <1>2, <1>3, <1>4

\* and so does a turn of its task.
LEMMA TurnStands ==
  ASSUME TypeOK, NEW k \in Jobs, NEW j \in Jobs, JobInv(j), JobInv(k),
         Turn(k)
  PROVE  Stands(j)
<1> USE DEF Owners
<1>1. /\ pipe \in [Owners -> [Reqs -> Stages]]
      /\ status \in [Jobs -> Terminal \cup {"none", "running"}]
  BY DEF TypeOK
<1>2. CASE \E force \in BOOLEAN, todo \in SUBSET Reqs, retry \in BOOLEAN : Create(k, force, todo, retry)
  <2>1. /\ status[k] = "none" /\ status' = [status EXCEPT ![k] = "running"]
        /\ \E work : pipe' = [pipe EXCEPT ![k] = work]
    BY <1>2 DEF Create
  <2>2. pipe[k] = NoWork
    BY <2>1 DEF JobInv, TaskInv
  <2>3. QED
    BY <1>1, <2>1, <2>2 DEF Stands, NoWork, Outcomes, Terminal
<1>3. CASE ClearScope(k)
  BY <1>3 DEF ClearScope, Stands
<1>4. CASE AbortSeen(k) \/ JobEnd(k)
  <2>1. /\ phase[k] = "looping" /\ UNCHANGED pipe
        /\ \E s : status' = [status EXCEPT ![k] = s]
    BY <1>4 DEF AbortSeen, JobEnd, Close
  <2>2. status[k] = "running"
    BY <2>1 DEF JobInv, TaskInv
  <2>3. QED
    BY <1>1, <2>1, <2>2 DEF Stands, Terminal
<1>5. ASSUME NEW w \in Widths, BeginLoop(k, w) PROVE Stands(j)
  <2>1. phase[k] \in {"created", "clearing"} /\ UNCHANGED status /\ \E work : pipe' = [pipe EXCEPT ![k] = work]
    BY <1>1, <1>5 DEF BeginLoop, Ready
  <2>2. \A r \in Reqs : pipe[k][r] \notin Outcomes
    BY <2>1 DEF JobInv, TaskInv, Outcomes
  <2>3. QED
    BY <1>1, <2>1, <2>2 DEF Stands
<1>6. ASSUME NEW r \in Reqs, Crash(k, r), ~(width[k] > 1) PROVE Stands(j)
  <2> DEFINE work == [pipe[k] EXCEPT ![r] = "dropped"]
  <2>1. pipe[k][r] = "picked" /\ Collapse(k, work)
    BY <1>6, Zenon DEF Crash
  <2>2. pipe' = [pipe EXCEPT ![k] = work] /\ (UNCHANGED status \/ status' = [status EXCEPT ![k] = "crashed"])
    BY <2>1, CollapseEffect
  <2>3. status[k] = "running"
    BY <2>1 DEF JobInv, TaskInv, BusyReqs, Busy
  <2>4. \A q \in Reqs : pipe[k][q] \in Outcomes => work[q] = pipe[k][q]
    BY <1>1, <2>1 DEF Outcomes
  <2>5. QED
    BY <1>1, <2>2, <2>3, <2>4 DEF Stands, Terminal
<1>8. CASE CrashEarly(k)
  <2>1. phase[k] \in {"created", "clearing"} /\ Collapse(k, pipe[k])
    BY <1>8 DEF CrashEarly, Ready
  <2>2. pipe' = [pipe EXCEPT ![k] = pipe[k]] /\ (UNCHANGED status \/ status' = [status EXCEPT ![k] = "crashed"])
    BY <2>1, CollapseEffect
  <2>3. status[k] = "running"
    BY <2>1 DEF JobInv, TaskInv
  <2>4. QED
    BY <1>1, <2>2, <2>3 DEF Stands, Terminal
<1>7. QED
  BY <1>2, <1>3, <1>4, <1>5, <1>6, <1>8 DEF Turn

\* Every other step leaves the number of kills alone.
LEMMA OnlyKillsKill == Next /\ ~Kill => kills' = kills
<1> SUFFICES ASSUME Next, ~Kill PROVE kills' = kills
  OBVIOUS
<1>1. ASSUME NEW o \in Owners, NEW r \in Reqs, PipelineStep(o, r) PROVE kills' = kills
  BY <1>1 DEF PipelineStep, Store, End, Finish, FinishEmpty, FailFast, FailHard, Raise, Conclude
<1>2. ASSUME NEW k \in Jobs, Proceed(k) PROVE kills' = kills
  BY <1>2, Zenon DEF Proceed, ClearScope, CrashEarly, AbortSeen, JobEnd, Close, BeginLoop, Pick, EnterFromJob, Crash
<1>3. ASSUME NEW k \in Jobs, NEW force, NEW todo, NEW retry, Create(k, force, todo, retry) PROVE kills' = kills
  BY <1>3 DEF Create
<1>4. ASSUME NEW old \in Jobs, NEW k \in Jobs, Retry(old, k) PROVE kills' = kills
  BY <1>3, <1>4, Zenon DEF Retry
<1>5. ASSUME NEW k \in Jobs, NEW force, NEW todo, StartJob(k, force, todo) PROVE kills' = kills
  BY <1>3, <1>5, Zenon DEF StartJob
<1>6. ASSUME NEW k \in Jobs, Abort(k) PROVE kills' = kills
  BY <1>6 DEF Abort
<1>7. ASSUME NEW a \in Callers, NEW r \in Reqs, Call(a, r) \/ Regenerate(a, r) PROVE kills' = kills
  BY <1>7 DEF Call, Regenerate
<1>8. ASSUME NEW a \in Callers, NEW gone, CleanTool(a, gone) PROVE kills' = kills
  BY <1>8 DEF CleanTool
<1>9. Tick => kills' = kills
  BY DEF Tick
<1>10. QED
  BY <1>1, <1>2, <1>4, <1>5, <1>6, <1>7, <1>8, <1>9, Zenon DEF Next

\* What a restart tells of a job.
Survives(j) ==
    \/ status'[j] = "none" /\ \A r \in Reqs : pipe'[j][r] = "none"
    \/ status[j] \in Terminal /\ status'[j] = status[j] /\ pipe'[j] = Recorded(pipe[j])
    \/ /\ status[j] # "none" /\ status'[j] = "interrupted"
       /\ \A r \in Reqs : pipe'[j][r] # "none" => pipe'[j][r] = pipe[j][r] /\ pipe[j][r] \in Outcomes

\* While the process lives, the end of a job and its recorded outcomes are never
\* taken back.  A kill may take them back, with a file that was not written or was
\* torn (tests_helpers.py:118-143): the job is forgotten, or "interrupted" with
\* outcomes missing, but an ended job that is still told as ended has all of them,
\* and none is ever told as another (tests.py:7043 "Persist job after each
\* requirement").
FinishedWorkStands ==
    [][\A j \in Jobs :
          IF kills' = kills
          THEN /\ status[j] \in Terminal => status'[j] = status[j]
               /\ \A r \in Reqs : pipe[j][r] \in Outcomes => pipe'[j][r] = pipe[j][r]
          ELSE Survives(j)]_vars

\* Recorded outcomes and ended jobs stand, under every interleaving of requests,
\* jobs and failed writes, and a kill loses them only as the file may lose them.
THEOREM FinishedWorkStandsHolds == Spec => FinishedWorkStands
<1> DEFINE Told(j) == IF kills' = kills THEN Stands(j) ELSE Survives(j)
<1>1. TypeOK /\ (\A j \in Jobs : JobInv(j)) /\ [Next]_vars => [\A j \in Jobs : Told(j)]_vars
  <2> SUFFICES ASSUME TypeOK, \A x \in Jobs : JobInv(x), Next, NEW j \in Jobs PROVE Told(j)
    OBVIOUS
  <2>1. CASE Kill
    <3>1. kills' # kills
      BY <2>1 DEF Kill, TypeOK
    <3>2. status'[j] = Loaded(saved[j].status) /\ pipe'[j] = saved[j].work
      BY <2>1 DEF Kill, Owners
    <3>3. saved[j] \in JobEntry /\ FileInv(j)
      BY DEF TypeOK, JobInv
    <3>4. \A r \in Reqs : pipe'[j][r] # "none" => pipe'[j][r] = pipe[j][r] /\ pipe[j][r] \in Outcomes
      BY <3>2, <3>3 DEF FileInv, JobEntry
    <3>5. CASE saved[j].status = "none"
      BY <3>1, <3>2, <3>3, <3>5 DEF Survives, FileInv, Loaded, NoWork
    <3>6. CASE saved[j].status = "running"
      <4>1. status[j] # "none" /\ status'[j] = "interrupted"
        BY <3>2, <3>3, <3>6 DEF FileInv, Loaded
      <4>2. QED
        BY <3>1, <3>4, <4>1 DEF Survives
    <3>7. CASE saved[j].status \in Terminal
      <4>1. status[j] = saved[j].status /\ pipe'[j] = Recorded(pipe[j]) /\ status'[j] = status[j]
        BY <3>2, <3>3, <3>7 DEF FileInv, Loaded, Terminal
      <4>2. QED
        BY <3>1, <3>7, <4>1 DEF Survives
    <3>8. QED
      BY <3>3, <3>5, <3>6, <3>7 DEF JobEntry
  <2>2. CASE ~Kill
    <3>1. Stands(j)
      <4>1. CASE \E k \in Jobs : Turn(k)
        BY <4>1, TurnStands
      <4>2. CASE ~(\E k \in Jobs : Turn(k))
        BY <2>2, <4>2, StepEffect, EffectStands
      <4>3. QED
        BY <4>1, <4>2
    <3>2. kills' = kills
      BY <2>2, OnlyKillsKill
    <3>3. QED
      BY <3>1, <3>2
  <2>4. QED
    BY <2>1, <2>2
<1>2. [\A j \in Jobs : Told(j)]_vars => [\A j \in Jobs :
          IF kills' = kills
          THEN /\ status[j] \in Terminal => status'[j] = status[j]
               /\ \A r \in Reqs : pipe[j][r] \in Outcomes => pipe'[j][r] = pipe[j][r]
          ELSE Survives(j)]_vars
  BY DEF Stands
<1>3. QED
  <2> HIDE DEF Told
  <2>1. QED
    BY <1>1, <1>2, TypeCorrect, JobInvariant, PTL DEF Spec, FinishedWorkStands

-----------------------------------------------------------------------------
(* What a poller is promised: the jobs implement JobLedger.                  *)

\* Nothing outside its scope is ever touched by a job, and one that works one by one
\* is done with everything before the requirement it is at; the file skips none.
LedgerInv(j) ==
    /\ status[j] = "none" => scope[j] = {} /\ width[j] = 0
    /\ status[j] # "none" => scope[j] # {}
    /\ \A r \in Reqs : r \notin scope[j] => pipe[j][r] = "none"
    /\ phase[j] = "looping" /\ width[j] = 1 =>
          \A q, r \in scope[j] : q < r /\ pipe[j][r] # "waiting" => pipe[j][q] \in Outcomes
    /\ width[j] = 1 =>
          \A q, r \in scope[j] : q < r /\ saved[j].work[r] # "none" => saved[j].work[q] # "none"

\* The order in the file: an entry that stays or is lost, or a new one made of work
\* that is in order.
InOrder(j, work) ==
    width'[j] = 1 => \A q, r \in scope'[j] : q < r /\ work[r] # "none" => work[q] # "none"

\* An entry that stays or is lost keeps the order of the outcomes in it.
LEMMA EntryKeepsOrder ==
  ASSUME TypeOK, NEW j \in Jobs, LedgerInv(j), EntryStays(j), scope'[j] = scope[j], width'[j] = width[j]
  PROVE  InOrder(j, saved'[j].work)
<1>1. scope[j] \subseteq Reqs
  BY DEF TypeOK
<1>2. CASE saved'[j] = saved[j]
  BY <1>2 DEF LedgerInv, InOrder
<1>3. CASE saved'[j] = NoEntry
  <2>1. \A r \in Reqs : saved'[j].work[r] = "none"
    BY <1>3 DEF NoEntry, NoWork
  <2>2. QED
    BY <1>1, <2>1 DEF InOrder
<1>4. QED
  BY <1>2, <1>3 DEF EntryStays

\* Of a job without outcomes the file has nothing out of order.
LEMMA NothingKeepsOrder ==
  ASSUME TypeOK, NEW j \in Jobs, FileInv(j), EntryStays(j), \A r \in Reqs : pipe[j][r] \notin Outcomes,
         scope'[j] \subseteq Reqs
  PROVE  InOrder(j, saved'[j].work)
<1>1. \A r \in Reqs : saved[j].work[r] = "none"
  BY DEF TypeOK, FileInv, JobEntry
<1>2. \A r \in Reqs : saved'[j].work[r] = "none"
  BY <1>1 DEF EntryStays, NoEntry, NoWork
<1>3. QED
  BY <1>2 DEF InOrder

\* Outcomes in order are so in the file too.
LEMMA RecordedInOrder ==
  ASSUME TypeOK, NEW j \in Jobs, scope'[j] \subseteq Reqs, NEW work,
         width'[j] = 1 => \A q, r \in scope'[j] : q < r /\ work[r] \in Outcomes => work[q] \in Outcomes
  PROVE  InOrder(j, Recorded(work))
<1>1. \A r \in Reqs : Recorded(work)[r] # "none" <=> work[r] \in Outcomes
  BY DEF Recorded, Outcomes
<1>2. QED
  BY <1>1 DEF InOrder

\* A job that a step leaves alone keeps the order of its list.
LEMMA StaysKeepsLedger ==
  ASSUME TypeOK, NEW j \in Jobs, LedgerInv(j), Stays(j)
  PROVE  LedgerInv(j)'
<1>1. InOrder(j, saved'[j].work)
  BY EntryKeepsOrder DEF Stays
<1>2. QED
  BY <1>1 DEF LedgerInv, Stays, InOrder

\* The requirement whose turn it is is in the scope, and everything before it has an
\* outcome if the job works one by one.
LEMMA TurnInOrder ==
  ASSUME TypeOK, NEW j \in Jobs, JobInv(j), LedgerInv(j), phase[j] = "looping", NEW r \in Reqs, InTurn(j, r)
  PROVE  /\ r \in scope[j] /\ pipe[j][r] \notin Outcomes
         /\ width[j] = 1 => \A q \in scope[j] : q < r => pipe[j][q] \in Outcomes
<1>1. pipe[j] \in [Reqs -> Stages] /\ scope[j] \subseteq Reqs
  BY DEF TypeOK, Owners
<1>2. pipe[j][r] \notin Outcomes /\ pipe[j][r] # "none"
  BY DEF InTurn, WaitingReqs, Busy, Alive, Outcomes
<1>3. r \in scope[j]
  BY <1>2 DEF LedgerInv
<1>4. ASSUME width[j] = 1, NEW q \in scope[j], q < r PROVE pipe[j][q] \in Outcomes
  <2>1. CASE pipe[j][r] \in Busy
    BY <1>3, <1>4, <2>1 DEF LedgerInv, Busy, Alive
  <2>2. CASE pipe[j][r] \notin Busy
    <3>1. q \notin WaitingReqs(j) /\ q \notin BusyReqs(j)
      BY <1>4, <2>2, <1>1 DEF InTurn, Reqs
    <3>2. pipe[j][q] # "none" /\ pipe[j][q] # "dropped"
      BY <1>4 DEF JobInv, TaskInv
    <3>3. q \in Reqs /\ pipe[j][q] \in Stages
      BY <1>1
    <3>4. QED
      BY <3>1, <3>2, <3>3 DEF WaitingReqs, BusyReqs, Stages
  <2>3. QED
    BY <2>1, <2>2
<1>5. QED
  BY <1>2, <1>3, <1>4

\* Whatever a requirement in its turn becomes, the order is kept.
LEMMA MoveKeepsLedger ==
  ASSUME TypeOK, NEW j \in Jobs, JobInv(j), LedgerInv(j), Advances(j) \/ Records(j)
  PROVE  LedgerInv(j)'
<1>1. pipe \in [Owners -> [Reqs -> Stages]] /\ j \in Owners /\ scope[j] \subseteq Reqs /\ pipe[j] \in [Reqs -> Stages]
  BY DEF TypeOK, Owners
<1>2. phase[j] = "looping" /\ UNCHANGED <<status, scope, width>>
  BY DEF Advances, Records
<1>3. \E r \in Reqs, stage \in Stages : InTurn(j, r) /\ pipe'[j] = [pipe[j] EXCEPT ![r] = stage]
  <2>1. CASE Advances(j)
    BY <2>1 DEF Advances
  <2>2. CASE Records(j)
    <3>1. PICK r \in Reqs, outcome \in Outcomes : InTurn(j, r) /\ Record(j, r, outcome)
      BY <2>2 DEF Records
    <3>2. pipe'[j] = [pipe[j] EXCEPT ![r] = outcome]
      BY <1>1, <3>1 DEF Record
    <3>3. outcome \in Stages
      BY DEF Stages
    <3>4. QED
      BY <3>1, <3>2, <3>3
  <2>3. QED
    BY <2>1, <2>2
<1>4. PICK r \in Reqs, stage \in Stages : InTurn(j, r) /\ pipe'[j] = [pipe[j] EXCEPT ![r] = stage]
  BY <1>3
<1>5. /\ r \in scope[j] /\ pipe[j][r] \notin Outcomes
      /\ width[j] = 1 => \A q \in scope[j] : q < r => pipe[j][q] \in Outcomes
  BY <1>2, <1>4, TurnInOrder
<1>6. status[j] = "running"
  BY <1>2 DEF JobInv, TaskInv
<1>7. \A q \in Reqs : q \notin scope[j] => pipe'[j][q] = "none"
  BY <1>1, <1>4, <1>5 DEF LedgerInv
<1>8. ASSUME width[j] = 1, NEW q \in scope[j], NEW s \in scope[j], q < s, pipe'[j][s] # "waiting"
      PROVE  pipe'[j][q] \in Outcomes
  <2>1. q \in Reqs /\ s \in Reqs /\ q # s
    BY <1>1, <1>8 DEF Reqs
  <2>2. CASE s = r
    BY <1>1, <1>4, <1>5, <1>8, <2>1, <2>2
  <2>3. CASE s # r
    <3>1. pipe[j][s] # "waiting"
      BY <1>1, <1>4, <1>8, <2>1, <2>3
    <3>2. pipe[j][q] \in Outcomes
      BY <1>2, <1>8, <3>1 DEF LedgerInv
    <3>3. q # r
      BY <1>5, <3>2
    <3>4. QED
      BY <1>1, <1>4, <2>1, <3>2, <3>3
  <2>4. QED
    BY <2>2, <2>3
<1>9. InOrder(j, saved'[j].work)
  <2>1. CASE EntryStays(j)
    BY <1>2, <2>1, EntryKeepsOrder
  <2>2. CASE ~EntryStays(j)
    <3>1. Records(j)
      BY <2>2 DEF Advances, EntryStays
    <3>2. PICK s \in Reqs, outcome \in Outcomes : Record(j, s, outcome)
      BY <3>1 DEF Records
    <3>3. pipe'[j] = [pipe[j] EXCEPT ![s] = outcome] /\ SaveJob(j, status[j], pipe'[j])
      BY <1>1, <3>2 DEF Record
    <3>4. saved'[j].work = Recorded(pipe'[j])
      <4>1. saved'[j] = [status |-> status[j], work |-> Recorded(pipe'[j])]
        BY <2>2, <3>3, SaveEffect, Zenon
      <4>2. QED
        BY <4>1
    <3>5. width'[j] = 1 => \A q, t \in scope'[j] : q < t /\ pipe'[j][t] \in Outcomes => pipe'[j][q] \in Outcomes
      BY <1>2, <1>8 DEF Outcomes
    <3>6. QED
      BY <1>1, <1>2, <3>4, <3>5, RecordedInOrder
  <2>3. QED
    BY <2>1, <2>2
<1>10. QED
  BY <1>2, <1>6, <1>7, <1>8, <1>9 DEF LedgerInv, InOrder

\* A turn of a job keeps the order of its list.
LEMMA TurnKeepsLedger ==
  ASSUME TypeOK, NEW k \in Jobs, NEW j \in Jobs, JobInv(j), JobInv(k), LedgerInv(j),
         Turn(k)
  PROVE  LedgerInv(j)'
<1> USE DEF Owners
<1>1. /\ pipe \in [Owners -> [Reqs -> Stages]] /\ width \in [Jobs -> Widths \cup {0}]
      /\ status \in [Jobs -> Terminal \cup {"none", "running"}] /\ scope \in [Jobs -> SUBSET Reqs]
      /\ phase \in [Jobs -> {"none", "created", "clearing", "looping", "over", "lost"}]
      /\ pipe[j] \in [Reqs -> Stages] /\ scope[j] \subseteq Reqs
  BY DEF TypeOK
<1>2. CASE j # k
  BY <1>2, TurnAside, StaysKeepsLedger
<1>3. ASSUME j = k, NEW force \in BOOLEAN, NEW todo \in SUBSET Reqs, NEW retry \in BOOLEAN, Create(k, force, todo, retry)
      PROVE  LedgerInv(j)'
  <2>1. /\ status[j] = "none" /\ status'[j] = "running" /\ phase'[j] = "created"
        /\ scope'[j] = todo /\ todo # {}
        /\ pipe'[j] = [r \in Reqs |-> IF r \in todo THEN "waiting" ELSE "none"]
        /\ EntryStays(j)
    BY <1>1, <1>3 DEF Create, EntryStays, fileVars
  <2>2. \A r \in Reqs : pipe[j][r] \notin Outcomes
    BY <2>1 DEF JobInv, TaskInv, NoWork, Outcomes
  <2>3. InOrder(j, saved'[j].work)
    BY <2>1, <2>2, NothingKeepsOrder DEF JobInv
  <2>4. QED
    BY <2>1, <2>3 DEF LedgerInv, InOrder
<1>4. CASE j = k /\ ClearScope(k)
  <2>1. phase'[j] = "clearing" /\ UNCHANGED <<pipe, saved, status, scope, width>>
    BY <1>1, <1>4 DEF ClearScope, fileVars
  <2>2. QED
    BY <2>1 DEF LedgerInv
<1>5. ASSUME j = k, NEW newStatus \in {"aborted", "completed"}, Close(k, newStatus) PROVE LedgerInv(j)'
  <2>1. /\ phase[j] = "looping" /\ phase'[j] = "over" /\ status'[j] = newStatus
        /\ UNCHANGED <<pipe, scope, width>> /\ SaveJob(k, newStatus, pipe[k])
    BY <1>1, <1>5 DEF Close
  <2>2. InOrder(j, saved'[j].work)
    <3>1. CASE EntryStays(j)
      BY <2>1, <3>1, EntryKeepsOrder
    <3>2. CASE saved'[j].work = Recorded(pipe[j])
      <4>1. width'[j] = 1 => \A q, t \in scope'[j] : q < t /\ pipe[j][t] \in Outcomes => pipe[j][q] \in Outcomes
        BY <2>1 DEF LedgerInv, Outcomes
      <4>2. QED
        BY <1>1, <2>1, <3>2, <4>1, RecordedInOrder
    <3>3. EntryStays(j) \/ saved'[j] = [status |-> newStatus, work |-> Recorded(pipe[j])]
      BY <1>5, <2>1, SaveEffect
    <3>4. QED
      BY <3>1, <3>2, <3>3
  <2>3. status[j] = "running"
    BY <2>1 DEF JobInv, TaskInv
  <2>4. QED
    BY <1>5, <2>1, <2>2, <2>3 DEF LedgerInv, InOrder
<1>6. ASSUME j = k, NEW w \in Widths, BeginLoop(k, w) PROVE LedgerInv(j)'
  <2>1. /\ phase[j] \in {"created", "clearing"} /\ width'[j] = w
        /\ UNCHANGED <<status, scope>> /\ EntryStays(j)
    BY <1>1, <1>6 DEF BeginLoop, Ready, EntryStays, fileVars
  <2>2. /\ status[j] = "running"
        /\ \A r \in Reqs : pipe[j][r] = IF r \in scope[j] THEN "waiting" ELSE "none"
    BY <1>1, <2>1 DEF JobInv, TaskInv
  <2>6. InOrder(j, saved'[j].work)
    <3>1. \A r \in Reqs : pipe[j][r] \notin Outcomes
      BY <2>2 DEF Outcomes
    <3>2. QED
      BY <1>1, <2>1, <3>1, NothingKeepsOrder DEF JobInv
  <2>3. CASE pipe' = pipe
    BY <1>1, <2>1, <2>2, <2>3, <2>6 DEF LedgerInv, InOrder
  <2>4. CASE w > 1 /\ pipe' = [pipe EXCEPT ![j] = [r \in Reqs |-> IF r \in scope[j] THEN "dropped" ELSE "none"]]
    <3>1. pipe'[j] = [r \in Reqs |-> IF r \in scope[j] THEN "dropped" ELSE "none"]
      BY <1>1, <2>4
    <3>2. w # 1
      BY <2>4
    <3>3. QED
      BY <2>1, <2>2, <3>1, <3>2 DEF LedgerInv
  <2>5. QED
    BY <1>6, <2>3, <2>4 DEF BeginLoop
<1>9. ASSUME j = k, NEW work \in [Reqs -> Stages], Collapse(k, work), UNCHANGED <<scope, width>>, status[j] = "running",
             \A q \in Reqs : q \notin scope[j] => work[q] = "none",
             width[j] = 1 => \A q, t \in scope[j] : q < t /\ work[t] \in Outcomes => work[q] \in Outcomes
      PROVE  LedgerInv(j)'
  <2>1. pipe'[j] = work /\ phase'[j] # "looping" /\ status'[j] # "none"
        /\ (EntryStays(j) \/ SaveJob(k, "crashed", work))
    <3>1. CASE retried[k]
      BY <1>1, <1>9, <3>1, CollapseEffect DEF EntryStays
    <3>2. CASE ~retried[k]
      BY <1>1, <1>9, <3>2, CollapseEffect
    <3>3. QED
      BY <3>1, <3>2
  <2>2. InOrder(j, saved'[j].work)
    <3>1. CASE EntryStays(j)
      BY <1>9, <3>1, EntryKeepsOrder
    <3>2. CASE saved'[j].work = Recorded(work)
      BY <1>1, <1>9, <3>2, RecordedInOrder
    <3>3. EntryStays(j) \/ saved'[j] = [status |-> "crashed", work |-> Recorded(work)]
      BY <1>9, <2>1, SaveEffect
    <3>4. QED
      BY <3>1, <3>2, <3>3
  <2>3. QED
    BY <1>9, <2>1, <2>2 DEF LedgerInv, InOrder
<1>10. CASE j = k /\ CrashEarly(k)
  <2>1. phase[j] \in {"created", "clearing"} /\ Collapse(k, pipe[j]) /\ UNCHANGED <<scope, width>>
    BY <1>10 DEF CrashEarly, Ready
  <2>2. status[j] = "running" /\ \A r \in Reqs : pipe[j][r] = IF r \in scope[j] THEN "waiting" ELSE "none"
    BY <2>1 DEF JobInv, TaskInv
  <2>3. \A r \in Reqs : pipe[j][r] \notin Outcomes
    BY <2>2 DEF Outcomes
  <2>4. QED
    BY <1>1, <1>9, <1>10, <2>1, <2>2, <2>3
<1>7. ASSUME j = k, NEW r \in Reqs, Crash(k, r), ~(width[k] > 1) PROVE LedgerInv(j)'
  <2> DEFINE work == [pipe[j] EXCEPT ![r] = "dropped"]
  <2>1. pipe[j][r] = "picked" /\ Collapse(k, work) /\ UNCHANGED <<scope, width>> /\ work \in [Reqs -> Stages]
    BY <1>1, <1>7, Zenon DEF Crash, Stages
  <2>2. phase[j] = "looping" /\ status[j] = "running"
    BY <2>1 DEF JobInv, TaskInv, BusyReqs, Busy
  <2>3. \A q \in Reqs : q \notin scope[j] => work[q] = "none"
    BY <1>1, <2>1 DEF LedgerInv
  <2>4. ASSUME width[j] = 1, NEW q \in scope[j], NEW t \in scope[j], q < t, work[t] \in Outcomes
        PROVE  work[q] \in Outcomes
    <3>1. q \in Reqs /\ t \in Reqs /\ "dropped" \notin Outcomes /\ "picked" \notin Outcomes /\ "waiting" \notin Outcomes
      BY <1>1 DEF Outcomes
    <3>2. pipe[j][t] \in Outcomes /\ pipe[j][t] # "waiting"
      BY <1>1, <2>4, <3>1
    <3>3. pipe[j][q] \in Outcomes
      BY <2>2, <2>4, <3>2 DEF LedgerInv
    <3>4. QED
      BY <1>1, <2>1, <3>1, <3>3
  <2>5. QED
    <3> HIDE DEF work
    <3>1. QED
      BY <1>7, <1>9, <2>1, <2>2, <2>3, <2>4
<1>8. QED
  BY <1>2, <1>3, <1>4, <1>5, <1>6, <1>7, <1>10 DEF Turn, AbortSeen, JobEnd

\* What is read back after a kill is in order.
LEMMA KillKeepsLedger ==
  ASSUME TypeOK, Kill, NEW j \in Jobs, JobInv(j), LedgerInv(j)
  PROVE  LedgerInv(j)'
<1>1. saved[j] \in JobEntry /\ scope[j] \subseteq Reqs
  BY DEF TypeOK
<1>2. /\ status'[j] = Loaded(saved[j].status)
      /\ pipe'[j] = saved[j].work
      /\ phase'[j] # "looping"
      /\ scope'[j] = IF saved[j].status = "none" THEN {} ELSE scope[j]
      /\ width'[j] = IF saved[j].status = "none" THEN 0 ELSE width[j]
      /\ saved'[j].work = saved[j].work
  BY <1>1 DEF Kill, Owners, JobEntry
<1>3. status'[j] = "none" => scope'[j] = {} /\ width'[j] = 0
  BY <1>2 DEF Loaded
<1>4. \A r \in Reqs : r \notin scope'[j] => pipe'[j][r] = "none"
  <2>1. CASE saved[j].status = "none"
    BY <1>2, <2>1 DEF JobInv, FileInv, NoWork
  <2>2. CASE saved[j].status # "none"
    BY <1>1, <1>2, <2>2 DEF JobInv, FileInv, LedgerInv, JobEntry, Outcomes
  <2>3. QED
    BY <2>1, <2>2
<1>6. status'[j] # "none" => scope'[j] # {}
  BY <1>2 DEF Loaded, JobInv, FileInv, LedgerInv
<1>5. QED
  BY <1>2, <1>3, <1>4, <1>6 DEF LedgerInv

\* Outcomes are in the order of the list in every reachable state.
LEMMA LedgerInvariant == Spec => [](\A j \in Jobs : LedgerInv(j))
<1>1. Init => \A j \in Jobs : LedgerInv(j)
  BY DEF Init, LedgerInv, NoEntry, NoWork, Owners
<1>2. TypeOK /\ (\A j \in Jobs : JobInv(j)) /\ (\A j \in Jobs : LedgerInv(j)) /\ [Next]_vars
        => (\A j \in Jobs : LedgerInv(j))'
  <2> SUFFICES ASSUME TypeOK, \A x \in Jobs : JobInv(x), \A x \in Jobs : LedgerInv(x), [Next]_vars, NEW j \in Jobs
               PROVE  LedgerInv(j)'
    OBVIOUS
  <2>1. CASE Kill
    BY <2>1, KillKeepsLedger
  <2>2. CASE \E k \in Jobs : Turn(k)
    BY <2>2, TurnKeepsLedger
  <2>3. CASE ~Kill /\ ~(\E k \in Jobs : Turn(k))
    BY <2>3, StepEffect, StaysKeepsLedger, MoveKeepsLedger
  <2>4. QED
    BY <2>1, <2>2, <2>3
<1>3. QED
  BY <1>1, <1>2, TypeCorrect, JobInvariant, PTL DEF Spec

\* What the ledger shows of a job, and what is left of it.
LEMMA LedgerLeft ==
  ASSUME TypeOK, NEW j \in Jobs
  PROVE  /\ Ledger!Left(j) = {r \in scope[j] : pipe[j][r] \notin Outcomes}
         /\ Recorded(pipe[j]) = Ledger!Nothing <=> \A r \in Reqs : pipe[j][r] \notin Outcomes
<1>1. scope[j] \subseteq Reqs
  BY DEF TypeOK
<1>2. \A r \in Reqs : Recorded(pipe[j])[r] = "none" <=> pipe[j][r] \notin Outcomes
  BY DEF Recorded, Outcomes
<1>3. Recorded(pipe[j]) = [r \in Reqs |-> Recorded(pipe[j])[r]]
  BY DEF Recorded
<1>4. QED
  BY <1>1, <1>2, <1>3 DEF Ledger!Left, Ledger!Nothing, Ledger!Reqs, Reqs

\* A step that leaves every job alone is a stutter of the ledger.
LEMMA LedgerQuiet ==
  ASSUME UNCHANGED <<status, scope, width>>, \A j \in Jobs : Recorded(pipe'[j]) = Recorded(pipe[j])
  PROVE  UNCHANGED Ledger!vars
<1>1. [j \in Jobs |-> Recorded(pipe'[j])] = [j \in Jobs |-> Recorded(pipe[j])]
  OBVIOUS
<1>2. [j \in Jobs |-> Recorded(pipe[j])]' = [j \in Jobs |-> Recorded(pipe[j])]
  BY <1>1 DEF Recorded
<1>3. QED
  BY <1>2 DEF Ledger!vars

\* A pipeline, a request or time is nothing in the ledger, or one outcome in its turn.
LEMMA EffectLedger ==
  ASSUME TypeOK, TypeOK', \A j \in Jobs : JobInv(j), \A j \in Jobs : LedgerInv(j),
         \A j \in Jobs : Stays(j) \/ Advances(j) \/ Records(j)
  PROVE  [Ledger!Next]_(Ledger!vars)
<1>1. /\ pipe \in [Owners -> [Reqs -> Stages]] /\ \A j \in Jobs : j \in Owners
      /\ status \in [Jobs -> Terminal \cup {"none", "running"}] /\ scope \in [Jobs -> SUBSET Reqs]
      /\ width \in [Jobs -> Widths \cup {0}]
      /\ status' \in [Jobs -> Terminal \cup {"none", "running"}] /\ scope' \in [Jobs -> SUBSET Reqs]
      /\ width' \in [Jobs -> Widths \cup {0}]
  BY DEF TypeOK, Owners
<1>2. ASSUME NEW k \in Jobs, Records(k) PROVE Ledger!Next
  <2>1. PICK r \in Reqs, outcome \in Outcomes : InTurn(k, r) /\ Record(k, r, outcome)
    BY <1>2 DEF Records
  <2>2. /\ phase[k] = "looping" /\ UNCHANGED <<status, scope, width>>
        /\ pipe' = [pipe EXCEPT ![k] = [pipe[k] EXCEPT ![r] = outcome]]
    BY <1>2, <2>1 DEF Records, Record
  <2>3. status[k] = "running"
    BY <2>2 DEF JobInv, TaskInv
  <2>4. /\ r \in scope[k] /\ pipe[k][r] \notin Outcomes
        /\ width[k] = 1 => \A q \in scope[k] : q < r => pipe[k][q] \in Outcomes
    BY <2>1, <2>2, TurnInOrder
  <2>5. r \in Ledger!Left(k)
    BY <2>4, LedgerLeft
  <2>6. width[k] = 1 => \A q \in Ledger!Left(k) : r <= q
    <3>1. ASSUME width[k] = 1, NEW q \in Ledger!Left(k) PROVE r <= q
      <4>1. q \in scope[k] /\ pipe[k][q] \notin Outcomes
        BY LedgerLeft
      <4>2. q \in Nat /\ r \in Nat
        BY <1>1, <4>1 DEF Reqs
      <4>3. QED
        BY <2>4, <3>1, <4>1, <4>2
    <3>2. QED
      BY <3>1
  <2>7. [j \in Jobs |-> Recorded(pipe[j])]' = [[j \in Jobs |-> Recorded(pipe[j])] EXCEPT ![k][r] = outcome]
    <3>1. \A j \in Jobs : j # k => Recorded(pipe'[j]) = Recorded(pipe[j])
      BY <1>1, <2>2
    <3>2. Recorded(pipe'[k]) = [Recorded(pipe[k]) EXCEPT ![r] = outcome]
      BY <1>1, <2>2 DEF Recorded
    <3>3. [j \in Jobs |-> Recorded(pipe'[j])] = [[j \in Jobs |-> Recorded(pipe[j])] EXCEPT ![k][r] = outcome]
      BY <3>1, <3>2
    <3>4. QED
      BY <3>3 DEF Recorded
  <2>8. UNCHANGED [j \in Jobs |-> IF width[j] = 1 THEN "one" ELSE "many"]
    BY <2>2
  <2>9. outcome \in {"ok", "failed", "skipped"}
    BY DEF Outcomes
  <2>10. Ledger!Record(k, r)
    BY <2>2, <2>3, <2>5, <2>6, <2>7, <2>8, <2>9 DEF Ledger!Record
  <2>11. QED
    BY <2>10 DEF Ledger!Next, Ledger!Reqs, Reqs
<1>3. CASE \A j \in Jobs : ~Records(j)
  <2>1. ASSUME NEW j \in Jobs
        PROVE  /\ Recorded(pipe'[j]) = Recorded(pipe[j])
               /\ status'[j] = status[j] /\ scope'[j] = scope[j] /\ width'[j] = width[j]
    <3>1. CASE Stays(j)
      BY <3>1 DEF Stays
    <3>2. CASE Advances(j)
      <4>1. PICK r \in Reqs, stage \in Stages \ Outcomes :
               InTurn(j, r) /\ pipe'[j] = [pipe[j] EXCEPT ![r] = stage]
        BY <3>2 DEF Advances
      <4>2. pipe[j][r] \notin Outcomes /\ pipe[j] \in [Reqs -> Stages]
        BY <1>1, <4>1 DEF InTurn, WaitingReqs, Busy, Alive, Outcomes
      <4>3. Recorded(pipe'[j]) = Recorded(pipe[j])
        BY <4>1, <4>2 DEF Recorded
      <4>4. QED
        BY <3>2, <4>3 DEF Advances
    <3>3. QED
      BY <1>3, <3>1, <3>2
  <2>2. UNCHANGED <<status, scope, width>>
    BY <1>1, <2>1
  <2>3. QED
    BY <2>1, <2>2, LedgerQuiet
<1>4. QED
  BY <1>2, <1>3

\* A turn of a job starts it, settles its pace, completes it or breaks it off.
LEMMA TurnLedger ==
  ASSUME TypeOK, NEW k \in Jobs, JobInv(k), LedgerInv(k), Turn(k)
  PROVE  [Ledger!Next]_(Ledger!vars)
<1> USE DEF Owners
<1>1. /\ pipe \in [Owners -> [Reqs -> Stages]] /\ width \in [Jobs -> Widths \cup {0}]
      /\ status \in [Jobs -> Terminal \cup {"none", "running"}] /\ scope \in [Jobs -> SUBSET Reqs]
      /\ phase \in [Jobs -> {"none", "created", "clearing", "looping", "over", "lost"}]
      /\ k \in Owners
  BY DEF TypeOK
<1> DEFINE results == [j \in Jobs |-> Recorded(pipe[j])]
           pace == [j \in Jobs |-> IF width[j] = 1 THEN "one" ELSE "many"]
<1>2. ASSUME NEW work, pipe' = [pipe EXCEPT ![k] = work], Recorded(work) = Recorded(pipe[k]) PROVE UNCHANGED results
  <2>1. \A j \in Jobs : Recorded(pipe'[j]) = Recorded(pipe[j])
    BY <1>1, <1>2
  <2>2. QED
    BY <2>1 DEF Recorded
<1>3. phase[k] = "looping" => width[k] \in Nat \ {0} /\ status[k] = "running"
  <2>1. \A x \in Widths \cup {0} : x \in Nat
    BY NumbersAssumption
  <2>2. QED
    BY <1>1, <2>1 DEF JobInv, TaskInv
<1>4. ASSUME NEW force \in BOOLEAN, NEW todo \in SUBSET Reqs, NEW retry \in BOOLEAN, Create(k, force, todo, retry)
      PROVE  Ledger!Start(k)
  <2> DEFINE work == [r \in Reqs |-> IF r \in todo THEN "waiting" ELSE "none"]
  <2>1. /\ status[k] = "none" /\ status' = [status EXCEPT ![k] = "running"]
        /\ todo # {} /\ scope' = [scope EXCEPT ![k] = todo] /\ UNCHANGED width
        /\ pipe' = [pipe EXCEPT ![k] = work]
    BY <1>4 DEF Create
  <2>2. pipe[k] = NoWork
    BY <2>1 DEF JobInv, TaskInv
  <2>3. Recorded(work) = Recorded(pipe[k])
    BY <2>2 DEF Recorded, NoWork, Outcomes
  <2>4. UNCHANGED results
    BY <1>2, <2>1, <2>3
  <2>5. UNCHANGED pace
    BY <2>1
  <2>6. QED
    BY <2>1, <2>4, <2>5 DEF Ledger!Start, Ledger!Reqs, Reqs
<1>5. CASE ClearScope(k)
  <2>1. UNCHANGED <<status, scope, width, pipe>>
    BY <1>5 DEF ClearScope
  <2>2. QED
    BY <2>1, LedgerQuiet
<1>6. ASSUME NEW w \in Widths, BeginLoop(k, w) PROVE Ledger!Choose(k)
  <2>1. /\ phase[k] \in {"created", "clearing"} /\ width' = [width EXCEPT ![k] = w]
        /\ UNCHANGED <<status, scope>>
    BY <1>1, <1>6 DEF BeginLoop, Ready
  <2>2. /\ status[k] = "running"
        /\ \A r \in Reqs : pipe[k][r] = IF r \in scope[k] THEN "waiting" ELSE "none"
    BY <1>1, <2>1 DEF JobInv, TaskInv
  <2>3. \A r \in Reqs : pipe[k][r] \notin Outcomes
    BY <2>2 DEF Outcomes
  <2>4. UNCHANGED results
    <3>1. CASE pipe' = pipe
      BY <3>1
    <3>2. CASE pipe' = [pipe EXCEPT ![k] = [r \in Reqs |-> IF r \in scope[k] THEN "dropped" ELSE "none"]]
      <4>1. Recorded([r \in Reqs |-> IF r \in scope[k] THEN "dropped" ELSE "none"]) = Recorded(pipe[k])
        BY <2>3 DEF Recorded, Outcomes
      <4>2. QED
        BY <1>2, <3>2, <4>1
    <3>3. QED
      BY <1>6, <3>1, <3>2 DEF BeginLoop
  <2>5. \E p \in {"one", "many"} : pace' = [pace EXCEPT ![k] = p]
    <3>1. pace' = [pace EXCEPT ![k] = IF w = 1 THEN "one" ELSE "many"]
      BY <1>1, <2>1
    <3>2. QED
      BY <3>1
  <2>6. results[k] = Ledger!Nothing
    BY <2>3, LedgerLeft
  <2>7. QED
    BY <2>1, <2>2, <2>4, <2>5, <2>6 DEF Ledger!Choose
<1>7. ASSUME Close(k, "completed"), WaitingReqs(k) = {}, BusyReqs(k) = {} PROVE Ledger!Complete(k)
  <2>1. /\ phase[k] = "looping" /\ status' = [status EXCEPT ![k] = "completed"]
        /\ UNCHANGED <<pipe, scope, width>>
    BY <1>7 DEF Close
  <2>2. ASSUME width[k] = 1, NEW r \in scope[k] PROVE pipe[k][r] \in Outcomes
    <3>1. r \in Reqs /\ pipe[k][r] \in Stages /\ pipe[k][r] \notin Busy /\ pipe[k][r] # "waiting"
      BY <1>1, <1>7 DEF BusyReqs, WaitingReqs
    <3>2. pipe[k][r] # "none" /\ pipe[k][r] # "dropped"
      BY <2>1, <2>2 DEF JobInv, TaskInv
    <3>3. QED
      BY <3>1, <3>2 DEF Stages
  <2>3. pace[k] = "one" => Ledger!Left(k) = {}
    BY <2>2, LedgerLeft
  <2>4. UNCHANGED <<results, pace>>
    BY <2>1
  <2>5. QED
    BY <1>3, <2>1, <2>3, <2>4 DEF Ledger!Complete
<1>8. ASSUME NEW s \in {"aborted", "crashed"}, status[k] = "running", width[k] = 1 \/ results[k] = Ledger!Nothing,
             status' = [status EXCEPT ![k] = s], UNCHANGED <<scope, width, results>>,
             NEW r \in scope[k], pipe[k][r] \notin Outcomes
      PROVE  Ledger!BreakOff(k)
  <2>1. pace[k] = "one" \/ results[k] = Ledger!Nothing
    BY <1>8
  <2>2. Ledger!Left(k) # {}
    BY <1>8, LedgerLeft
  <2>3. UNCHANGED pace
    BY <1>8
  <2>4. QED
    BY <1>8, <2>1, <2>2, <2>3 DEF Ledger!BreakOff
<1>9. CASE AbortSeen(k)
  <2>1. PICK r \in Reqs : pipe[k][r] = "waiting"
    BY <1>9 DEF AbortSeen, WaitingReqs
  <2>2. r \in scope[k] /\ pipe[k][r] \notin Outcomes
    BY <2>1 DEF LedgerInv, Outcomes
  <2>3. /\ phase[k] = "looping" /\ width[k] = 1 /\ status' = [status EXCEPT ![k] = "aborted"]
        /\ UNCHANGED <<pipe, scope, width>>
    BY <1>9 DEF AbortSeen, Close
  <2>4. UNCHANGED results
    BY <2>3
  <2>5. QED
    <3> HIDE DEF results
    <3>1. QED
      BY <1>3, <1>8, <2>2, <2>3, <2>4 DEF Ledger!Next
<1>12. ASSUME NEW work, Collapse(k, work), UNCHANGED <<scope, width>>, status[k] = "running",
              Recorded(work) = Recorded(pipe[k]), width[k] = 1 \/ results[k] = Ledger!Nothing,
              NEW r \in scope[k], pipe[k][r] \notin Outcomes
       PROVE  [Ledger!Next]_(Ledger!vars)
  <2>1. pipe' = [pipe EXCEPT ![k] = work] /\ (UNCHANGED status \/ status' = [status EXCEPT ![k] = "crashed"])
    BY <1>12, CollapseEffect
  <2>2. UNCHANGED results
    BY <1>2, <1>12, <2>1
  <2>3. CASE UNCHANGED status
    <3>1. \A j \in Jobs : Recorded(pipe'[j]) = Recorded(pipe[j])
      BY <1>1, <1>12, <2>1
    <3>2. QED
      BY <1>12, <2>3, <3>1, LedgerQuiet
  <2>4. CASE status' = [status EXCEPT ![k] = "crashed"]
    <3> HIDE DEF results
    <3>1. QED
      BY <1>8, <1>12, <2>2, <2>4 DEF Ledger!Next
  <2>5. QED
    BY <2>1, <2>3, <2>4
<1>13. CASE CrashEarly(k)
  <2>1. phase[k] \in {"created", "clearing"} /\ Collapse(k, pipe[k]) /\ UNCHANGED <<scope, width>>
    BY <1>13 DEF CrashEarly, Ready
  <2>2. status[k] = "running" /\ \A r \in Reqs : pipe[k][r] = IF r \in scope[k] THEN "waiting" ELSE "none"
    BY <2>1 DEF JobInv, TaskInv
  <2>3. \A r \in Reqs : pipe[k][r] \notin Outcomes
    BY <2>2 DEF Outcomes
  <2>4. results[k] = Ledger!Nothing
    BY <2>3, LedgerLeft
  <2>5. PICK r \in Reqs : r \in scope[k]
    BY <1>1, <2>2 DEF LedgerInv
  <2>6. QED
    <3> HIDE DEF results
    <3>1. QED
      BY <1>12, <2>1, <2>2, <2>3, <2>4, <2>5
<1>10. ASSUME NEW r \in Reqs, Crash(k, r), ~(width[k] > 1) PROVE [Ledger!Next]_(Ledger!vars)
  <2> DEFINE work == [pipe[k] EXCEPT ![r] = "dropped"]
  <2>1. pipe[k][r] = "picked" /\ Collapse(k, work) /\ UNCHANGED <<scope, width>>
    BY <1>10, Zenon DEF Crash
  <2>2. width[k] = 1 /\ status[k] = "running"
    <3>1. phase[k] = "looping"
      BY <2>1 DEF JobInv, TaskInv, BusyReqs, Busy
    <3>2. QED
      BY <1>3, <1>10, <3>1
  <2>3. Recorded(work) = Recorded(pipe[k])
    BY <1>1, <2>1 DEF Recorded, Outcomes
  <2>4. r \in scope[k] /\ pipe[k][r] \notin Outcomes
    BY <2>1 DEF LedgerInv, Outcomes
  <2>5. QED
    <3> HIDE DEF results, work
    <3>1. QED
      BY <1>12, <2>1, <2>2, <2>3, <2>4
<1>11. QED
  BY <1>4, <1>5, <1>6, <1>7, <1>9, <1>10, <1>13 DEF Turn, JobEnd, Ledger!Next

\* A kill leaves every job as it ended, forgets it, or sets it back to what the file
\* has of it, which skips nothing.
LEMMA KillLedger ==
  ASSUME TypeOK, Kill, \A j \in Jobs : JobInv(j) /\ LedgerInv(j)
  PROVE  Ledger!Restart
<1> USE DEF Owners
<1> DEFINE results == [j \in Jobs |-> Recorded(pipe[j])]
           pace == [j \in Jobs |-> IF width[j] = 1 THEN "one" ELSE "many"]
<1>1. ASSUME NEW j \in Jobs
      PROVE  Ledger!Forgotten(j) \/ Ledger!AsItEnded(j) \/ Ledger!SetBack(j)
  <2>1. /\ saved[j] \in JobEntry /\ scope[j] \subseteq Reqs
        /\ status[j] \in Terminal \cup {"none", "running"}
    BY DEF TypeOK
  <2>2. /\ status'[j] = Loaded(saved[j].status) /\ pipe'[j] = saved[j].work
        /\ scope'[j] = IF saved[j].status = "none" THEN {} ELSE scope[j]
        /\ width'[j] = IF saved[j].status = "none" THEN 0 ELSE width[j]
    BY DEF Kill
  <2>3. FileInv(j) /\ LedgerInv(j)
    BY DEF JobInv
  <2>4. Recorded(pipe'[j]) = saved[j].work
    BY <2>1, <2>2 DEF Recorded, JobEntry
  <2>5. results'[j] = saved[j].work /\ pace'[j] = IF width'[j] = 1 THEN "one" ELSE "many"
    BY <2>4 DEF Recorded
  <2>6. CASE saved[j].status = "none"
    <3>1. saved[j].work = Ledger!Nothing
      BY <2>3, <2>6 DEF FileInv, NoWork, Ledger!Nothing, Ledger!Reqs, Reqs
    <3>2. QED
      BY <2>2, <2>5, <2>6, <3>1 DEF Ledger!Forgotten, Loaded
  <2>7. CASE saved[j].status \in Terminal
    <3>1. status'[j] = status[j] /\ status[j] \notin {"none", "running"} /\ results'[j] = results[j]
      BY <2>2, <2>3, <2>5, <2>7 DEF FileInv, Loaded, Terminal
    <3>2. scope'[j] = scope[j] /\ pace'[j] = pace[j]
      BY <2>2, <2>5, <2>7 DEF Terminal
    <3>3. QED
      BY <3>1, <3>2 DEF Ledger!AsItEnded
  <2>8. CASE saved[j].status = "running"
    <3>1. status[j] # "none" /\ status'[j] = "interrupted"
      BY <2>2, <2>3, <2>8 DEF FileInv, Loaded
    <3>2. scope'[j] = scope[j] /\ pace'[j] = pace[j]
      BY <2>2, <2>5, <2>8
    <3>3. \A r \in Ledger!Reqs : results'[j][r] \in {results[j][r], "none"}
      BY <2>1, <2>3, <2>5 DEF FileInv, JobEntry, Recorded, Ledger!Reqs, Reqs
    <3>4. pace[j] = "one" =>
             \A q, r \in scope[j] : q < r /\ results'[j][r] # "none" => results'[j][q] # "none"
      BY <2>3, <2>5 DEF LedgerInv
    <3>5. QED
      BY <3>1, <3>2, <3>3, <3>4 DEF Ledger!SetBack
  <2>9. QED
    BY <2>1, <2>6, <2>7, <2>8 DEF JobEntry
<1>2. DOMAIN status' = Jobs /\ DOMAIN scope' = Jobs /\ DOMAIN pace' = Jobs /\ DOMAIN results' = Jobs
  BY DEF Kill
<1>3. QED
  <2> HIDE DEF results, pace
  <2>1. QED
    BY <1>1, <1>2 DEF Ledger!Restart, results, pace

\* The jobs implement JobLedger, for every scope, width, cap and number of kills and
\* of failed writes: outcomes once, in order when one by one, an end that says what
\* is left, and a restart that sets back or forgets but never changes or skips.
THEOREM ImplementsJobLedger == Spec => LedgerSpec
<1>1. Init => Ledger!Init
  <2> SUFFICES ASSUME Init PROVE Ledger!Init
    OBVIOUS
  <2>1. [j \in Jobs |-> Recorded(pipe[j])] = [j \in Jobs |-> Ledger!Nothing]
    BY DEF Init, Recorded, NoWork, Outcomes, Owners, Ledger!Nothing, Ledger!Reqs, Reqs
  <2>2. [j \in Jobs |-> IF width[j] = 1 THEN "one" ELSE "many"] = [j \in Jobs |-> "many"]
    BY DEF Init
  <2>3. QED
    BY <2>1, <2>2 DEF Init, Ledger!Init
<1>2. TypeOK /\ TypeOK' /\ (\A j \in Jobs : JobInv(j)) /\ (\A j \in Jobs : LedgerInv(j)) /\ [Next]_vars
        => [Ledger!Next]_(Ledger!vars)
  <2> SUFFICES ASSUME TypeOK, TypeOK', \A j \in Jobs : JobInv(j), \A j \in Jobs : LedgerInv(j), [Next]_vars
               PROVE  [Ledger!Next]_(Ledger!vars)
    OBVIOUS
  <2>1. CASE Kill
    BY <2>1, KillLedger DEF Ledger!Next
  <2>2. CASE \E k \in Jobs : Turn(k)
    BY <2>2, TurnLedger
  <2>3. CASE ~Kill /\ ~(\E k \in Jobs : Turn(k))
    BY <2>3, StepEffect, EffectLedger
  <2>4. QED
    BY <2>1, <2>2, <2>3
<1>3. QED
  BY <1>1, <1>2, TypeCorrect, JobInvariant, LedgerInvariant, PTL DEF Spec, LedgerSpec, Ledger!Spec

-----------------------------------------------------------------------------
(* Why jobs settle: the safety part of JobsSettle.                           *)

\* A job that reports to be running has a task that can go on: it is about to clear
\* or to begin its list, or goes through it with room for a requirement.  Only a
\* retry whose loop crashed has none, which is what RetriesSettle finds
\* (tests.py:6325-6326).
HasTask(j) ==
    status[j] = "running" =>
        \/ phase[j] = "created"
        \/ phase[j] = "clearing" /\ forced[j]
        \/ phase[j] = "looping" /\ width[j] > 0
        \/ phase[j] = "lost" /\ retried[j] /\ BusyReqs(j) = {}
RunningHasTask == \A j \in Jobs : HasTask(j)

\* No request, job, abort or kill takes the task of a running job away.
THEOREM RunningHasTaskHolds == Spec => []RunningHasTask
<1>1. Init => RunningHasTask
  BY DEF RunningHasTask, Init, HasTask
<1>2. TypeOK /\ (\A j \in Jobs : JobInv(j)) /\ (\A j \in Jobs : JobInv(j))' /\ RunningHasTask /\ [Next]_vars
        => RunningHasTask'
  <2> SUFFICES ASSUME TypeOK, \A x \in Jobs : JobInv(x), \A x \in Jobs : JobInv(x)',
                      RunningHasTask, [Next]_vars, NEW j \in Jobs
               PROVE  HasTask(j)'
    BY DEF RunningHasTask
  <2>a. /\ status \in [Jobs -> Terminal \cup {"none", "running"}]
        /\ phase \in [Jobs -> {"none", "created", "clearing", "looping", "over", "lost"}]
        /\ forced \in [Jobs -> BOOLEAN] /\ width \in [Jobs -> Widths \cup {0}]
        /\ retried \in [Jobs -> BOOLEAN]
    BY DEF TypeOK
  <2>b. phase'[j] # "looping" => BusyReqs(j)' = {}
    BY DEF JobInv, TaskInv
  <2>c. ASSUME status'[j] = status[j], phase'[j] = phase[j], forced'[j] = forced[j],
               width'[j] = width[j], retried'[j] = retried[j]
        PROVE  HasTask(j)'
    BY <2>b, <2>c DEF HasTask, RunningHasTask
  <2>d. ASSUME UNCHANGED <<status, phase, forced, width, retried>> PROVE HasTask(j)'
    BY <2>c, <2>d
  <2> USE DEF jobVars, fileVars
  <2>1. ASSUME NEW o \in Owners, NEW r \in Reqs, PipelineStep(o, r) PROVE HasTask(j)'
    BY <2>1, <2>d DEF PipelineStep, Store, End, Finish, FinishEmpty, FailFast, FailHard, Raise, Conclude
  <2>2. ASSUME NEW a \in Callers, NEW r \in Reqs, Call(a, r) \/ Regenerate(a, r) PROVE HasTask(j)'
    BY <2>2, <2>d DEF Call, Regenerate
  <2>3. ASSUME NEW k \in Jobs, NEW force, NEW todo, NEW retry, Create(k, force, todo, retry) PROVE HasTask(j)'
    <3>1. CASE k = j
      BY <2>3, <2>a, <3>1 DEF Create, HasTask
    <3>2. CASE k # j
      BY <2>3, <2>a, <2>c, <3>2 DEF Create
    <3>3. QED
      BY <3>1, <3>2
  <2>4. ASSUME NEW k \in Jobs, NEW force, NEW todo, StartJob(k, force, todo) PROVE HasTask(j)'
    BY <2>3, <2>4, Zenon DEF StartJob
  <2>5. ASSUME NEW old \in Jobs, NEW k \in Jobs, Retry(old, k) PROVE HasTask(j)'
    <3>1. \E todo : Create(k, FALSE, todo, TRUE)
      BY <2>5, Zenon DEF Retry
    <3>2. QED
      BY <2>3, <3>1, Zenon
  <2>6. ASSUME NEW k \in Jobs, Abort(k) PROVE HasTask(j)'
    BY <2>6, <2>d DEF Abort
  <2>11. ASSUME NEW a \in Callers, NEW gone, CleanTool(a, gone) PROVE HasTask(j)'
    BY <2>11, <2>d DEF CleanTool
  <2>7. ASSUME NEW k \in Jobs, Proceed(k) PROVE HasTask(j)'
    <3>1. CASE ClearScope(k)
      <4>1. CASE k = j
        BY <2>a, <3>1, <4>1 DEF ClearScope, HasTask
      <4>2. CASE k # j
        BY <2>a, <2>c, <3>1, <4>2 DEF ClearScope
      <4>3. QED
        BY <4>1, <4>2
    <3>2. CASE AbortSeen(k) \/ JobEnd(k)
      <4>1. CASE k = j
        BY <2>a, <3>2, <4>1 DEF AbortSeen, JobEnd, Close, HasTask
      <4>2. CASE k # j
        BY <2>a, <2>c, <3>2, <4>2 DEF AbortSeen, JobEnd, Close
      <4>3. QED
        BY <4>1, <4>2
    <3>3. ASSUME NEW w \in Widths, BeginLoop(k, w) PROVE HasTask(j)'
      <4>1. w > 0
        BY NumbersAssumption
      <4>2. CASE k = j
        BY <2>a, <3>3, <4>1, <4>2 DEF BeginLoop, HasTask
      <4>3. CASE k # j
        BY <2>a, <2>c, <3>3, <4>3 DEF BeginLoop
      <4>4. QED
        BY <4>2, <4>3
    <3>4. ASSUME NEW r \in Reqs, Pick(k, r) \/ EnterFromJob(k, r) PROVE HasTask(j)'
      BY <2>d, <3>4 DEF Pick, EnterFromJob
    <3>7. ASSUME NEW work, Collapse(k, work), UNCHANGED <<width, retried>> PROVE HasTask(j)'
      <4>1. CASE k # j
        BY <2>a, <2>c, <3>7, <4>1 DEF Collapse
      <4>2. CASE k = j /\ retried[j]
        BY <2>a, <2>b, <3>7, <4>2 DEF Collapse, HasTask
      <4>3. CASE k = j /\ ~retried[j]
        BY <2>a, <3>7, <4>3 DEF Collapse, HasTask
      <4>4. QED
        BY <4>1, <4>2, <4>3
    <3>8. CASE CrashEarly(k)
      BY <3>7, <3>8 DEF CrashEarly
    <3>5. ASSUME NEW r \in Reqs, Crash(k, r) PROVE HasTask(j)'
      <4>1. CASE width[k] > 1
        BY <2>d, <3>5, <4>1 DEF Crash
      <4>2. CASE ~(width[k] > 1)
        <5>1. Collapse(k, [pipe[k] EXCEPT ![r] = "dropped"]) /\ UNCHANGED <<width, retried>>
          BY <3>5, <4>2, Zenon DEF Crash
        <5>2. QED
          BY <3>7, <5>1
      <4>3. QED
        BY <4>1, <4>2
    <3>6. QED
      BY <2>7, <3>1, <3>2, <3>3, <3>4, <3>5, <3>8 DEF Proceed
  <2>8. CASE Kill
    BY <2>8 DEF Kill, Loaded, HasTask
  <2>9. CASE Tick \/ UNCHANGED vars
    BY <2>9, <2>d DEF Tick, vars
  <2>10. QED
    BY <2>1, <2>2, <2>4, <2>5, <2>6, <2>7, <2>8, <2>9, <2>11, Zenon DEF Next
<1>3. QED
  BY <1>1, <1>2, TypeCorrect, JobInvariant, PTL DEF Spec

\* How many steps a requirement and a task still have before them, at most.
StepsOf(stage) ==
    CASE stage = "waiting" -> 4 [] stage = "picked" -> 3 [] stage = "running" -> 2
      [] stage = "storing" -> 1 [] OTHER -> 0
PhasesOf(task) ==
    CASE task = "created" -> 3 [] task = "clearing" -> 2 [] task = "looping" -> 1 [] OTHER -> 0

Descends(j) ==
    /\ \A r \in Reqs : StepsOf(pipe'[j][r]) <= StepsOf(pipe[j][r])
    /\ PhasesOf(phase'[j]) <= PhasesOf(phase[j])
Moves(j) ==
    \/ PhasesOf(phase'[j]) < PhasesOf(phase[j])
    \/ \E r \in Reqs : StepsOf(pipe'[j][r]) < StepsOf(pipe[j][r])

\* Whatever happens, a running job never has a requirement or a phase to do again,
\* and each step of its task or of one of its pipelines does away with one: it
\* settles after at most 4 * NumReqs + 3 steps of its own, a retry that crashed
\* apart (RunningHasTask).  No pipeline goes back into the queue of its job
\* (tests.py:7058-7126).
JobsDescend ==
    [][\A j \in Jobs : status[j] = "running" =>
          /\ Descends(j)
          /\ (Proceed(j) \/ \E r \in Reqs : PipelineStep(j, r)) => Moves(j)]_vars

\* One requirement that gets further is a move.
LEMMA OneFurther ==
  ASSUME TypeOK, NEW j \in Jobs, NEW r \in Reqs, NEW stage,
         pipe'[j] = [pipe[j] EXCEPT ![r] = stage], StepsOf(stage) < StepsOf(pipe[j][r]),
         phase'[j] = phase[j]
  PROVE  Descends(j) /\ Moves(j)
<1>1. pipe[j] \in [Reqs -> Stages]
  BY DEF TypeOK, Owners
<1>2. \A x : StepsOf(x) \in 0..4
  BY DEF StepsOf
<1>3. \A x : PhasesOf(x) \in 0..3
  BY DEF PhasesOf
<1>4. \A q \in Reqs : pipe'[j][q] = IF q = r THEN stage ELSE pipe[j][q]
  BY <1>1
<1>5. QED
  BY <1>2, <1>3, <1>4 DEF Descends, Moves

\* A step that leaves a job's list and its task alone does not set it back.
LEMMA NoneBack ==
  ASSUME NEW j \in Jobs, pipe'[j] = pipe[j], phase'[j] = phase[j]
  PROVE  Descends(j)
<1>1. \A x : StepsOf(x) \in 0..4
  BY DEF StepsOf
<1>2. \A x : PhasesOf(x) \in 0..3
  BY DEF PhasesOf
<1>3. QED
  BY <1>1, <1>2 DEF Descends

\* A pipeline that stores or ends gets further, and only in the list of its owner.
LEMMA PipelineDescends ==
  ASSUME TypeOK, NEW o \in Owners, NEW r \in Reqs, PipelineStep(o, r), NEW j \in Jobs
  PROVE  Descends(j) /\ (o = j => Moves(j))
<1> USE OwnersAssumption DEF Owners
<1>1. pipe \in [Owners -> [Reqs -> Stages]] /\ pipe[o][r] \in Alive
  BY DEF TypeOK, PipelineStep, Store, End, Finish, FinishEmpty, FailFast, FailHard, Raise, Alive
<1>2. CASE Store(o, r)
  <2>1. /\ pipe' = [pipe EXCEPT ![o][r] = "storing"] /\ UNCHANGED phase
        /\ pipe[o][r] = "running" /\ StepsOf("storing") < StepsOf("running")
    BY <1>2 DEF Store, jobVars, StepsOf
  <2>2. QED
    BY <1>1, <2>1, OneFurther, NoneBack
<1>3. CASE End(o, r)
  <2>1. PICK outcome \in Outcomes : Conclude(o, r, outcome)
    BY <1>3 DEF End, Finish, FinishEmpty, FailFast, FailHard, Raise, Outcomes
  <2>2. UNCHANGED phase /\ StepsOf(outcome) < StepsOf(pipe[o][r])
    BY <1>1, <2>1 DEF Conclude, StepsOf, Outcomes, Alive
  <2>3. CASE o \in Jobs
    <3>1. pipe' = [pipe EXCEPT ![o] = [pipe[o] EXCEPT ![r] = outcome]]
      BY <2>1, <2>3 DEF Conclude, Record
    <3>2. QED
      BY <1>1, <2>2, <3>1, OneFurther, NoneBack
  <2>4. CASE o \notin Jobs
    <3>1. pipe'[j] = pipe[j]
      BY <1>1, <2>1, <2>4 DEF Conclude
    <3>2. QED
      BY <2>2, <2>4, <3>1, NoneBack
  <2>5. QED
    BY <2>3, <2>4
<1>4. QED
  BY <1>2, <1>3 DEF PipelineStep

\* A step of a job's task gets its phase or one requirement further, and touches no
\* other job.
LEMMA ProceedDescends ==
  ASSUME TypeOK, NEW k \in Jobs, Proceed(k), NEW j \in Jobs
  PROVE  Descends(j) /\ (k = j => Moves(j))
<1> USE DEF Owners
<1>1. /\ pipe \in [Owners -> [Reqs -> Stages]]
      /\ phase \in [Jobs -> {"none", "created", "clearing", "looping", "over", "lost"}]
  BY DEF TypeOK
<1>a. \A x : StepsOf(x) \in 0..4
  BY DEF StepsOf
<1>b. \A x : PhasesOf(x) \in 0..3
  BY DEF PhasesOf
<1>c. ASSUME NEW task, phase' = [phase EXCEPT ![k] = task], PhasesOf(task) < PhasesOf(phase[k]),
             \A x \in Jobs : x # k => pipe'[x] = pipe[x],
             \A q \in Reqs : StepsOf(pipe'[k][q]) <= StepsOf(pipe[k][q])
      PROVE  Descends(j) /\ (k = j => Moves(j))
  <2>1. CASE k = j
    BY <1>1, <1>a, <1>b, <1>c, <2>1 DEF Descends, Moves
  <2>2. CASE k # j
    BY <1>1, <1>c, <2>2, NoneBack
  <2>3. QED
    BY <2>1, <2>2
<1>d. ASSUME NEW r \in Reqs, NEW stage, pipe' = [pipe EXCEPT ![k] = [pipe[k] EXCEPT ![r] = stage]],
             StepsOf(stage) < StepsOf(pipe[k][r]), UNCHANGED phase
      PROVE  Descends(j) /\ (k = j => Moves(j))
  BY <1>1, <1>d, OneFurther, NoneBack
<1>2. CASE ClearScope(k)
  <2>1. PhasesOf("clearing") < PhasesOf("created")
    BY DEF PhasesOf
  <2>2. \A q \in Reqs : StepsOf(pipe[k][q]) <= StepsOf(pipe[k][q])
    BY <1>a
  <2>3. QED
    BY <1>2, <1>c, <2>1, <2>2 DEF ClearScope
<1>3. CASE AbortSeen(k) \/ JobEnd(k)
  <2>1. PhasesOf("over") < PhasesOf("looping")
    BY DEF PhasesOf
  <2>2. \A q \in Reqs : StepsOf(pipe[k][q]) <= StepsOf(pipe[k][q])
    BY <1>a
  <2>3. QED
    BY <1>3, <1>c, <2>1, <2>2 DEF AbortSeen, JobEnd, Close
<1>4. ASSUME NEW w \in Widths, BeginLoop(k, w) PROVE Descends(j) /\ (k = j => Moves(j))
  <2>1. PhasesOf("looping") < PhasesOf("created") /\ PhasesOf("looping") < PhasesOf("clearing")
    BY DEF PhasesOf
  <2>2. \A q \in Reqs : StepsOf(pipe'[k][q]) <= StepsOf(pipe[k][q])
    <3>1. StepsOf("dropped") = 0 /\ StepsOf("none") = 0
      BY DEF StepsOf
    <3>2. pipe' = pipe \/ \A q \in Reqs : pipe'[k][q] \in {"dropped", "none"}
      BY <1>1, <1>4 DEF BeginLoop
    <3>3. QED
      BY <1>a, <3>1, <3>2
  <2>3. \A x \in Jobs : x # k => pipe'[x] = pipe[x]
    BY <1>1, <1>4 DEF BeginLoop
  <2>4. phase[k] \in {"created", "clearing"} /\ phase' = [phase EXCEPT ![k] = "looping"]
    BY <1>4 DEF BeginLoop, Ready
  <2>5. QED
    BY <1>c, <2>1, <2>2, <2>3, <2>4
<1>5. ASSUME NEW r \in Reqs, Pick(k, r) PROVE Descends(j) /\ (k = j => Moves(j))
  <2>1. pipe[k][r] = "waiting" /\ UNCHANGED phase
    BY <1>5 DEF Pick, WaitingReqs
  <2>2. StepsOf("picked") < StepsOf("waiting") /\ StepsOf("skipped") < StepsOf("waiting")
    BY DEF StepsOf
  <2>3. \E stage \in {"picked", "skipped"} : pipe' = [pipe EXCEPT ![k] = [pipe[k] EXCEPT ![r] = stage]]
    BY <1>1, <1>5 DEF Pick, Record
  <2>4. QED
    BY <1>d, <2>1, <2>2, <2>3
<1>6. ASSUME NEW r \in Reqs, EnterFromJob(k, r) PROVE Descends(j) /\ (k = j => Moves(j))
  <2>1. pipe[k][r] = "picked" /\ UNCHANGED phase
    BY <1>6 DEF EnterFromJob
  <2>2. \A stage \in {"running", "skipped", "failed"} : StepsOf(stage) < StepsOf("picked")
    BY DEF StepsOf
  <2>3. \E stage \in {"running", "skipped", "failed"} : pipe' = [pipe EXCEPT ![k] = [pipe[k] EXCEPT ![r] = stage]]
    BY <1>1, <1>6 DEF EnterFromJob, Enter, Record
  <2>4. QED
    BY <1>d, <2>1, <2>2, <2>3
<1>9. \A x \in {"lost", "over"} : PhasesOf(x) = 0
  BY DEF PhasesOf
<1>7. ASSUME NEW r \in Reqs, Crash(k, r) PROVE Descends(j) /\ (k = j => Moves(j))
  <2>1. pipe[k][r] = "picked" /\ StepsOf("dropped") < StepsOf("picked")
    BY <1>7 DEF Crash, StepsOf
  <2>2. /\ pipe' = [pipe EXCEPT ![k] = [pipe[k] EXCEPT ![r] = "dropped"]]
        /\ \/ UNCHANGED phase
           \/ phase' = [phase EXCEPT ![k] = "lost"] \/ phase' = [phase EXCEPT ![k] = "over"]
    <3>1. CASE width[k] > 1
      BY <1>7, <3>1 DEF Crash
    <3>2. CASE ~(width[k] > 1)
      <4>1. Collapse(k, [pipe[k] EXCEPT ![r] = "dropped"])
        BY <1>7, <3>2, Zenon DEF Crash
      <4>2. QED
        BY <4>1, CollapseEffect
    <3>3. QED
      BY <3>1, <3>2
  <2>3. CASE UNCHANGED phase
    BY <1>d, <2>1, <2>2, <2>3
  <2>4. CASE phase' = [phase EXCEPT ![k] = "lost"] \/ phase' = [phase EXCEPT ![k] = "over"]
    <3>2. \A q \in Reqs : StepsOf(pipe'[k][q]) <= StepsOf(pipe[k][q])
      BY <1>1, <1>a, <2>1, <2>2
    <3>3. StepsOf(pipe'[k][r]) < StepsOf(pipe[k][r])
      BY <1>1, <2>1, <2>2
    <3>4. CASE k = j
      BY <1>1, <1>9, <1>b, <2>4, <3>2, <3>3, <3>4 DEF Descends, Moves
    <3>5. CASE k # j
      BY <1>1, <2>2, <2>4, <3>5, NoneBack
    <3>6. QED
      BY <3>4, <3>5
  <2>5. QED
    BY <2>2, <2>3, <2>4
<1>10. CASE CrashEarly(k)
  <2>1. phase[k] \in {"created", "clearing"} /\ Collapse(k, pipe[k])
    BY <1>10 DEF CrashEarly, Ready
  <2>2. /\ \A x \in Jobs : pipe'[x] = pipe[x]
        /\ phase' = [phase EXCEPT ![k] = "lost"] \/ phase' = [phase EXCEPT ![k] = "over"]
    BY <1>1, <2>1, CollapseEffect
  <2>3. PhasesOf("created") > 0 /\ PhasesOf("clearing") > 0
    BY DEF PhasesOf
  <2>4. \A q \in Reqs : StepsOf(pipe'[k][q]) <= StepsOf(pipe[k][q])
    BY <1>a, <2>2
  <2>5. QED
    BY <1>9, <1>c, <2>1, <2>2, <2>3, <2>4
<1>8. QED
  BY <1>2, <1>3, <1>4, <1>5, <1>6, <1>7, <1>10 DEF Proceed

\* No interleaving of callers, jobs, aborts, time and kills sets a running job back.
THEOREM JobsDescendHolds == Spec => JobsDescend
<1>1. TypeOK /\ [Next]_vars
        => [\A j \in Jobs : status[j] = "running" =>
               /\ Descends(j)
               /\ (Proceed(j) \/ \E r \in Reqs : PipelineStep(j, r)) => Moves(j)]_vars
  <2> SUFFICES ASSUME TypeOK, Next, NEW j \in Jobs, status[j] = "running"
               PROVE  /\ Descends(j)
                      /\ (Proceed(j) \/ \E r \in Reqs : PipelineStep(j, r)) => Moves(j)
    OBVIOUS
  <2>a. /\ pipe \in [Owners -> [Reqs -> Stages]] /\ j \in Owners /\ saved \in [Jobs -> JobEntry]
        /\ phase \in [Jobs -> {"none", "created", "clearing", "looping", "over", "lost"}]
    BY DEF TypeOK, Owners
  <2>1. (Proceed(j) \/ \E r \in Reqs : PipelineStep(j, r)) => Moves(j)
    BY <2>a, PipelineDescends, ProceedDescends
  <2>2. ASSUME NEW k \in Jobs, NEW force, NEW todo, NEW retry, Create(k, force, todo, retry)
        PROVE  Descends(j)
    <3>1. k # j
      BY <2>2 DEF Create
    <3>2. QED
      BY <2>2, <2>a, <3>1, NoneBack DEF Create
  <2>3. ASSUME NEW a \in Callers, NEW r \in Reqs, Call(a, r) \/ Regenerate(a, r) PROVE Descends(j)
    <3>1. pipe'[j] = pipe[j] /\ UNCHANGED phase
      <4>1. UNCHANGED phase /\ (UNCHANGED pipe \/ pipe' = [pipe EXCEPT ![a][r] = "running"])
        BY <2>3 DEF Call, Regenerate, Enter, jobVars
      <4>2. j # a
        BY OwnersAssumption
      <4>3. QED
        BY <2>a, <4>1, <4>2
    <3>2. QED
      BY <3>1, NoneBack
  <2>4. ASSUME NEW k \in Jobs, NEW force, NEW todo, StartJob(k, force, todo) PROVE Descends(j)
    BY <2>2, <2>4, Zenon DEF StartJob
  <2>5. ASSUME NEW old \in Jobs, NEW k \in Jobs, Retry(old, k) PROVE Descends(j)
    <3>1. \E todo : Create(k, FALSE, todo, TRUE)
      BY <2>5, Zenon DEF Retry
    <3>2. QED
      BY <2>2, <3>1, Zenon
  <2>6. ASSUME NEW k \in Jobs, Abort(k) PROVE Descends(j)
    BY <2>6, NoneBack DEF Abort
  <2>11. ASSUME NEW a \in Callers, NEW gone, CleanTool(a, gone) PROVE Descends(j)
    BY <2>11, NoneBack DEF CleanTool, jobVars
  <2>7. ASSUME Kill PROVE Descends(j)
    <3>1. \A x : StepsOf(x) \in 0..4
      BY DEF StepsOf
    <3>2. \A x : PhasesOf(x) \in 0..3
      BY DEF PhasesOf
    <3>3. PhasesOf("none") = 0 /\ PhasesOf("over") = 0 /\ phase'[j] \in {"none", "over"}
      BY <2>7 DEF PhasesOf, Kill
    <3>4. \A x \in Outcomes \cup {"none"} : StepsOf(x) = 0
      BY DEF StepsOf, Outcomes
    <3>5. \A r \in Reqs : pipe'[j][r] \in Outcomes \cup {"none"}
      BY <2>7, <2>a DEF Kill, JobEntry
    <3>6. QED
      BY <3>1, <3>2, <3>3, <3>4, <3>5 DEF Descends
  <2>8. ASSUME Tick PROVE Descends(j)
    BY <2>8, NoneBack DEF Tick, jobVars
  <2>9. Descends(j)
    <3>1. ASSUME NEW o \in Owners, NEW r \in Reqs, PipelineStep(o, r) PROVE Descends(j)
      BY <3>1, PipelineDescends
    <3>2. ASSUME NEW k \in Jobs, Proceed(k) PROVE Descends(j)
      BY <3>2, ProceedDescends
    <3>3. QED
      BY <2>3, <2>4, <2>5, <2>6, <2>7, <2>8, <2>11, <3>1, <3>2, Zenon DEF Next
  <2>10. QED
    BY <2>1, <2>9
<1>2. QED
  BY <1>1, TypeCorrect, PTL DEF Spec, JobsDescend

=============================================================================
