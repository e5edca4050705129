--------------------------- MODULE GenerationJobs ---------------------------
(***************************************************************************)
(* Test generation: the pipeline of one requirement or of one of its       *)
(* acceptance criteria, the registry that keeps two pipelines of the same  *)
(* apart, and the background jobs that run it for many requirements        *)
(* (api/routers/tests.py).                                                 *)
(*                                                                         *)
(* generate_tests runs for minutes, from one LLM call to the next.  It is  *)
(* called by the endpoints directly (Callers) and by generate-all and      *)
(* retry jobs (Jobs), in one process.  The registry and the inventory      *)
(* GENERATED_TESTS are in memory; jobs and inventory are also written to   *)
(* files, from which they are read when the process starts again.  The     *)
(* tests of one acceptance criterion are a cell of the inventory.          *)
(***************************************************************************)
EXTENDS Naturals, FiniteSets

CONSTANTS
    Jobs,      \* ids of generate-all and retry jobs
    Callers,   \* direct requests to generate or regenerate
    NumReqs,   \* requirements of the project, in the order of its list
    ACs,       \* acceptance criteria of a requirement, by their place in its list
    Stocked,   \* requirements that have tests at first
    Scopes,    \* the sets of requirements a generate-all is asked for
    Widths,    \* the values of ARTA_GEN_CONCURRENCY or the provider's default
    MaxJobs,   \* ARTA_MAX_JOBS_PER_PROJECT
    MaxTests,  \* ARTA_MAX_TESTS_IN_MEMORY, in cells
    TTL,       \* _IN_FLIGHT_TTL; the age of an entry saturates here
    None,      \* no entry in the registry
    MaxKills,  \* bound: how often the process is killed
    MaxFailures \* bound: how many writes of the file of jobs fail or are cut short by a
                \* kill; with 0 those of the inventory do not fail either

ASSUME OwnersAssumption == Jobs \cap Callers = {} /\ None \notin Jobs \cup Callers
ASSUME NumbersAssumption ==
    /\ NumReqs \in Nat \ {0} /\ Widths \subseteq Nat \ {0} /\ Widths # {}
    /\ MaxJobs \in Nat \ {0} /\ TTL \in Nat \ {0} /\ MaxKills \in Nat
    /\ MaxTests \in Nat /\ MaxFailures \in Nat

Reqs == 1..NumReqs
ASSUME ScopesAssumption == Scopes \subseteq SUBSET Reqs /\ Stocked \subseteq Reqs

Owners == Jobs \cup Callers

\* What a pipeline works on: the whole requirement, or one acceptance criterion.
ASSUME PartsAssumption == ACs # {} /\ "*" \notin ACs
Parts == ACs \cup {"*"}
Cells == Reqs \X ACs
Of(r) == {r} \X ACs
Own(r, p) == IF p = "*" THEN Of(r) ELSE {<<r, p>>}

VARIABLES
    status,     \* _GENERATE_ALL_JOBS[j]["status"], "none" without a job
    phase,      \* where the background task of a job stands
    forced,     \* the force flag of the job's background task
    scope,      \* the requirements the job was given
    width,      \* its _concurrency, 0 until it is chosen
    retried,    \* whether the job is a retry
    abort,      \* its _abort_requested
    pipe,       \* where each owner's work on each requirement stands
    part,       \* and the part of it that its pipeline works on
    backup,     \* the cells in the pipeline's _tests_backup
    holder,     \* _IN_FLIGHT_GENERATIONS: the pipeline registered for (requirement, part)
    entryAge,   \* the age of that entry
    overran,    \* history: the parts with a pipeline older than its entry may get
    inventory,  \* the cells that have tests in GENERATED_TESTS
    sidecar,    \* the same in .arta/generated_tests.json
    saved,      \* .arta/generate_all_jobs.json
    failures,   \* history: how many writes of that file failed
    kills       \* history: how often the process was killed

fileVars == <<saved, failures>>
jobVars == <<status, phase, forced, scope, width, retried, abort, fileVars>>
registryVars == <<holder, entryAge, overran>>
testVars == <<part, backup, inventory, sidecar>>
vars == <<jobVars, pipe, registryVars, testVars, kills>>

Terminal == {"completed", "aborted", "crashed", "interrupted"}
Alive == {"running", "storing"}            \* inside generate_tests
Busy == Alive \cup {"picked"}              \* holding a place of the job's semaphore
Outcomes == {"ok", "failed", "skipped"}    \* recorded in the job's results or errors

\* "dropped": the requirement left the job without any record.
Stages == {"none", "waiting", "dropped"} \cup Busy \cup Outcomes
NoWork == [r \in Reqs |-> "none"]

\* What the file keeps of a job.
JobEntry == [status : Terminal \cup {"none", "running"}, work : [Reqs -> Outcomes \cup {"none"}]]

TypeOK ==
    /\ status \in [Jobs -> Terminal \cup {"none", "running"}]
    /\ phase \in [Jobs -> {"none", "created", "clearing", "looping", "over", "lost"}]
    /\ forced \in [Jobs -> BOOLEAN]
    /\ scope \in [Jobs -> SUBSET Reqs]
    /\ width \in [Jobs -> Widths \cup {0}]
    /\ retried \in [Jobs -> BOOLEAN]
    /\ abort \in [Jobs -> BOOLEAN]
    /\ pipe \in [Owners -> [Reqs -> Stages]]
    /\ part \in [Owners -> [Reqs -> Parts]]
    /\ backup \in [Owners -> [Reqs -> SUBSET Cells]]
    /\ holder \in [Reqs -> [Parts -> Owners \cup {None}]]
    /\ entryAge \in [Reqs -> [Parts -> 0..TTL]]
    /\ overran \in [Reqs -> SUBSET Parts]
    /\ inventory \subseteq Cells
    /\ sidecar \subseteq Cells
    /\ saved \in [Jobs -> JobEntry]
    /\ failures \in 0..MaxFailures
    /\ kills \in 0..MaxKills

NoEntry == [status |-> "none", work |-> NoWork]
AllTests == [o \in Owners |-> [r \in Reqs |-> "*"]]
NoBackup == [o \in Owners |-> [r \in Reqs |-> {}]]
NoEntries == [r \in Reqs |-> [p \in Parts |-> None]]
NoAges == [r \in Reqs |-> [p \in Parts |-> 0]]
NoneOverran == [r \in Reqs |-> {}]

Init ==
    /\ status = [j \in Jobs |-> "none"]
    /\ phase = [j \in Jobs |-> "none"]
    /\ forced = [j \in Jobs |-> FALSE]
    /\ scope = [j \in Jobs |-> {}]
    /\ width = [j \in Jobs |-> 0]
    /\ retried = [j \in Jobs |-> FALSE]
    /\ abort = [j \in Jobs |-> FALSE]
    /\ pipe = [o \in Owners |-> NoWork]
    /\ part = AllTests
    /\ backup = NoBackup
    /\ holder = NoEntries
    /\ entryAge = NoAges
    /\ overran = NoneOverran
    /\ inventory = Stocked \X ACs
    /\ sidecar = Stocked \X ACs
    /\ saved = [j \in Jobs |-> NoEntry]
    /\ failures = 0
    /\ kills = 0

\* _save_job_json: the job as it is after this step, in the file with the others.
\* Whatever the write raises is swallowed; the file is truncated first, and a torn
\* one is read as no jobs at all, by the next save too.
Recorded(work) == [r \in Reqs |-> IF work[r] \in Outcomes THEN work[r] ELSE "none"]
SaveJob(j, newStatus, work) ==
    \/ /\ saved' = [saved EXCEPT ![j] = [status |-> newStatus, work |-> Recorded(work)]]
       /\ UNCHANGED failures
    \/ /\ failures < MaxFailures
       /\ failures' = failures + 1
       /\ saved' = saved \/ saved' = [i \in Jobs |-> NoEntry]

\* _save_tests_json writes nothing when no test is left; a torn file reads as empty.
Save(tests) == sidecar' = IF tests = {} THEN sidecar ELSE tests
SaveFails(tests) == MaxFailures > 0 /\ tests # {} /\ sidecar' \in {sidecar, {}}

Pipelines(r, p) == {o \in Owners : pipe[o][r] \in Alive /\ part[o][r] = p}

-----------------------------------------------------------------------------
(* One pipeline: generate_tests.                                           *)

\* Mutant: whoever asks is let in.
InFlightIgnored(r, p) == FALSE

\* A registered pipeline keeps others off the same part until its entry is too old.
InFlight(r, p) == holder[r][p] # None /\ entryAge[r][p] < TTL

\* Entries that join the inventory.  Their ids number the criteria of one request,
\* so those of another criterion may have taken them: then an entry is left out.
Joined(tests, new, r) ==
    IF tests \cap Of(r) = {} THEN {tests \cup new} ELSE {tests \cup some : some \in SUBSET new}

\* From the registration to the first await; tests is the inventory by then.  Force
\* clears what the request is about.  If the requirement changed since the rest was
\* made (to the hash, a request for one criterion is a change) all of it is cleared
\* too, and takes the place of the first backup.
Enter(o, r, p, tests, force) ==
    LET own == IF force THEN tests \cap Own(r, p) ELSE {}
        left == tests \ own
    IN
    /\ ~InFlight(r, p)
    /\ holder' = [holder EXCEPT ![r][p] = o]
    /\ entryAge' = [entryAge EXCEPT ![r][p] = 0]
    /\ \/ inventory' = left /\ backup' = [backup EXCEPT ![o][r] = own]
       \/ /\ left \cap Of(r) # {}
          /\ inventory' = left \ Of(r)
          /\ backup' = [backup EXCEPT ![o][r] = left \cap Of(r)]
    /\ pipe' = [pipe EXCEPT ![o][r] = "running"]
    /\ part' = [part EXCEPT ![o][r] = p]
    /\ UNCHANGED <<overran, sidecar>>

\* The outcome goes to the job's results or errors, and the job is saved.
Record(o, r, outcome) ==
    LET work == [pipe[o] EXCEPT ![r] = outcome] IN
    /\ pipe' = [pipe EXCEPT ![o] = work]
    /\ SaveJob(o, status[o], work)

\* What a caller or a job keeps of a pipeline that ended.
Conclude(o, r, outcome) ==
    /\ IF o \in Jobs THEN Record(o, r, outcome)
                     ELSE pipe' = [pipe EXCEPT ![o][r] = "none"] /\ UNCHANGED fileVars
    /\ overran' = IF Pipelines(r, part[o][r]) \subseteq {o}
                  THEN [overran EXCEPT ![r] = @ \ {part[o][r]}] ELSE overran
    /\ backup' = [backup EXCEPT ![o][r] = {}]
    /\ part' = [part EXCEPT ![o][r] = "*"]
    /\ UNCHANGED <<status, phase, forced, scope, width, retried, abort, kills>>

\* _clear_in_flight removes the entry of the part, whoever it belongs to.
ClearInFlight(r, p) ==
    /\ holder' = [holder EXCEPT ![r][p] = None]
    /\ entryAge' = [entryAge EXCEPT ![r][p] = 0]

\* The rest is unchanged and made by more than one tool: it is returned as it is.
Cached(r, p, force) ==
    LET left == IF force THEN inventory \ Own(r, p) ELSE inventory IN
    /\ ~InFlight(r, p)
    /\ left \cap Of(r) # {}
    /\ ClearInFlight(r, p)
    /\ inventory' = left
    /\ UNCHANGED <<overran, part, backup, sidecar>>

\* Step 5: the tests are in the inventory.  The DB, the analytics layer and the
\* grounding gates follow before they are saved.
Store(o, r) ==
    /\ pipe[o][r] = "running"
    /\ pipe' = [pipe EXCEPT ![o][r] = "storing"]
    /\ inventory' \in Joined(inventory, Own(r, part[o][r]), r)
    /\ UNCHANGED <<jobVars, registryVars, part, backup, sidecar, kills>>

\* _enforce_generated_tests_cap: the oldest tests beyond the cap go, of whichever
\* requirement they are.
Capped(tests) ==
    {kept \in SUBSET tests : IF Cardinality(tests) <= MaxTests THEN kept = tests
                                                               ELSE Cardinality(kept) = MaxTests}

Finish(o, r) ==
    /\ pipe[o][r] = "storing"
    /\ ClearInFlight(r, part[o][r])
    /\ Conclude(o, r, "ok")
    /\ Save(inventory)
    /\ inventory' \in Capped(inventory)

\* Nothing was generated: the backup counts as the result, or there is a gap.
FinishEmpty(o, r) ==
    /\ pipe[o][r] = "running"
    /\ ClearInFlight(r, part[o][r])
    /\ Conclude(o, r, IF backup[o][r] # {} \/ inventory \cap Of(r) # {} THEN "ok" ELSE "failed")
    /\ \E tests \in Joined(inventory, backup[o][r], r) :
          Save(tests) /\ inventory' \in Capped(tests)

\* Risk scoring, dataset recipe, ATDD or one of the upstream gates gave up.
FailFast(o, r) ==
    /\ pipe[o][r] = "running"
    /\ ClearInFlight(r, part[o][r])
    /\ Conclude(o, r, "failed")
    /\ inventory' \in Joined(inventory, backup[o][r], r)
    /\ IF inventory' = inventory THEN UNCHANGED sidecar ELSE Save(inventory') \/ SaveFails(inventory')

\* No LLM client, or no script for a requirement without tests: nothing is restored.
FailHard(o, r) ==
    /\ pipe[o][r] = "running"
    /\ ClearInFlight(r, part[o][r])
    /\ Conclude(o, r, "failed")
    /\ UNCHANGED <<inventory, sidecar>>

\* An exception, which clears neither the registry nor the backup; it may be the one
\* of the save at the end.
Raise(o, r) ==
    /\ pipe[o][r] \in Alive
    /\ Conclude(o, r, "failed")
    /\ \/ UNCHANGED <<inventory, sidecar>>
       \/ /\ inventory' \in IF pipe[o][r] = "storing" THEN {inventory} ELSE Joined(inventory, backup[o][r], r)
          /\ SaveFails(inventory')
    /\ UNCHANGED <<holder, entryAge>>

End(o, r) == Finish(o, r) \/ FinishEmpty(o, r) \/ FailFast(o, r) \/ FailHard(o, r) \/ Raise(o, r)

\* A request to generate, refused with 409 if the same is in flight.  One for a
\* criterion that the requirement does not have is refused once it is registered.
Call(a, r) ==
    /\ pipe[a][r] = "none"
    /\ \E force \in BOOLEAN, p \in Parts :
          \/ Enter(a, r, p, inventory, force)
          \/ Cached(r, p, force) /\ UNCHANGED pipe
          \/ /\ p # "*" /\ ~InFlight(r, p)
             /\ holder' = [holder EXCEPT ![r][p] = a]
             /\ entryAge' = [entryAge EXCEPT ![r][p] = 0]
             /\ UNCHANGED <<pipe, overran, testVars>>
    /\ UNCHANGED <<jobVars, kills>>

\* The regenerate endpoint with force clears the tests itself, before it is refused.
Regenerate(a, r) ==
    /\ pipe[a][r] = "none"
    /\ \/ Enter(a, r, "*", inventory \ Of(r), FALSE)
       \/ /\ InFlight(r, "*")
          /\ inventory' = inventory \ Of(r)
          /\ UNCHANGED <<pipe, registryVars, part, backup, sidecar>>
    /\ UNCHANGED <<jobVars, kills>>

\* regenerate-by-tool with force first clears the tests that one tool has for all
\* its requirements (gone: the cells left without any), and then calls
\* generate_tests for one after the other, until one of the calls is refused.
CleanTool(a, gone) ==
    /\ \A r \in Reqs : pipe[a][r] = "none"
    /\ gone \subseteq inventory
    /\ inventory' = inventory \ gone
    /\ UNCHANGED <<jobVars, pipe, registryVars, part, backup, sidecar, kills>>

-----------------------------------------------------------------------------
(* The jobs: generate-all, retry, abort.                                    *)

Running == {j \in Jobs : status[j] = "running"}
BusyReqs(j) == {r \in Reqs : pipe[j][r] \in Busy}
WaitingReqs(j) == {r \in Reqs : pipe[j][r] = "waiting"}

\* A job is created and its background task scheduled; it is not saved yet.
Create(j, force, todo, retry) ==
    /\ status[j] = "none"
    /\ todo # {}
    /\ status' = [status EXCEPT ![j] = "running"]
    /\ phase' = [phase EXCEPT ![j] = "created"]
    /\ forced' = [forced EXCEPT ![j] = force]
    /\ scope' = [scope EXCEPT ![j] = todo]
    /\ retried' = [retried EXCEPT ![j] = retry]
    /\ pipe' = [pipe EXCEPT ![j] = [r \in Reqs |-> IF r \in todo THEN "waiting" ELSE "none"]]
    /\ UNCHANGED <<width, abort, fileVars, registryVars, testVars, kills>>

StartJob(j, force, todo) == Cardinality(Running) < MaxJobs /\ Create(j, force, todo, FALSE)

\* A retry of what failed, and of what has fewer tools than expected (some), or of
\* everything from one requirement on.  The cap is not asked.
Retry(old, j) ==
    /\ status[old] \in Terminal
    /\ LET failed == {r \in Reqs : pipe[old][r] = "failed"}
           ok == {r \in Reqs : pipe[old][r] = "ok"}
       IN \E todo \in {failed \cup some : some \in SUBSET ok} \cup {r..NumReqs : r \in Reqs} :
             Create(j, FALSE, todo, TRUE)

\* The flag is looked at by the background task only.
Abort(j) ==
    /\ status[j] = "running"
    /\ abort' = [abort EXCEPT ![j] = TRUE]
    /\ UNCHANGED <<status, phase, forced, scope, width, retried, fileVars, pipe, registryVars, testVars, kills>>

\* A forced job first clears its whole scope; the old rows and scripts go to the
\* version history and to backup files before the next step.
ClearScope(j) ==
    /\ phase[j] = "created" /\ forced[j]
    /\ phase' = [phase EXCEPT ![j] = "clearing"]
    /\ inventory' = inventory \ (scope[j] \X ACs)
    /\ UNCHANGED <<status, forced, scope, width, retried, abort, fileVars, pipe, registryVars, part, backup,
                   sidecar, kills>>

\* What a job has done before it chooses its width: a forced one saved what is left.
Ready(j) ==
    /\ IF forced[j] THEN phase[j] = "clearing" /\ (Save(inventory) \/ SaveFails(inventory))
                    ELSE phase[j] = "created" /\ UNCHANGED sidecar
    /\ UNCHANGED <<part, backup, inventory>>

\* The loop over the requirements, or one coroutine for each: these ask for the
\* abort flag when they start, not when they get their place.
BeginLoop(j, w) ==
    /\ Ready(j)
    /\ phase' = [phase EXCEPT ![j] = "looping"]
    /\ width' = [width EXCEPT ![j] = w]
    /\ pipe' = IF w > 1 /\ abort[j]
               THEN [pipe EXCEPT ![j] = [r \in Reqs |-> IF r \in scope[j] THEN "dropped" ELSE "none"]]
               ELSE pipe
    /\ UNCHANGED <<status, forced, scope, retried, abort, fileVars, registryVars, kills>>

\* Mutant: any requirement that waits gets the place.
PickAny(j, r) ==
    /\ phase[j] = "looping"
    /\ r \in WaitingReqs(j)
    /\ Cardinality(BusyReqs(j)) < width[j]
    /\ width[j] = 1 => ~abort[j]
    /\ \/ pipe' = [pipe EXCEPT ![j][r] = "picked"] /\ UNCHANGED fileVars
       \/ Record(j, r, "skipped")
    /\ UNCHANGED <<status, phase, forced, scope, width, retried, abort, registryVars, testVars, kills>>

\* The next requirement gets a place, in the order of the list; one without
\* acceptance criteria is skipped.  With its place it waits for the rate limit.
Pick(j, r) ==
    /\ phase[j] = "looping"
    /\ r \in WaitingReqs(j) /\ \A q \in WaitingReqs(j) : r <= q
    /\ Cardinality(BusyReqs(j)) < width[j]
    /\ width[j] = 1 => ~abort[j]
    /\ \/ pipe' = [pipe EXCEPT ![j][r] = "picked"] /\ UNCHANGED fileVars
       \/ Record(j, r, "skipped")
    /\ UNCHANGED <<status, phase, forced, scope, width, retried, abort, registryVars, testVars, kills>>

\* The job calls generate_tests.  Up to date or in flight elsewhere is a skip; a
\* requirement that is gone or unfit is an error.
EnterFromJob(j, r) ==
    /\ pipe[j][r] = "picked"
    /\ \/ Enter(j, r, "*", inventory, forced[j]) /\ UNCHANGED fileVars
       \/ Cached(r, "*", forced[j]) /\ Record(j, r, "skipped")
       \/ InFlight(r, "*") /\ Record(j, r, "skipped") /\ UNCHANGED <<registryVars, testVars>>
       \/ Record(j, r, "failed") /\ UNCHANGED <<registryVars, testVars>>
    /\ UNCHANGED <<status, phase, forced, scope, width, retried, abort, kills>>

\* A task ends with an exception: its callback marks the job, but that of a retry
\* only logs.
Collapse(j, work) ==
    /\ pipe' = [pipe EXCEPT ![j] = work]
    /\ forced' = [forced EXCEPT ![j] = FALSE]
    /\ IF retried[j] THEN phase' = [phase EXCEPT ![j] = "lost"] /\ UNCHANGED <<status, fileVars>>
       ELSE /\ phase' = [phase EXCEPT ![j] = "over"]
            /\ status' = [status EXCEPT ![j] = "crashed"]
            /\ SaveJob(j, "crashed", work)

\* ARTA_GEN_CONCURRENCY is not a number.
CrashEarly(j) ==
    /\ Ready(j)
    /\ Collapse(j, pipe[j])
    /\ UNCHANGED <<scope, width, retried, abort, registryVars, kills>>

\* An exception outside the part that records errors (an acceptance criterion that
\* is not as expected): one of several coroutines just ends, the loop ends the task.
Crash(j, r) ==
    /\ pipe[j][r] = "picked"
    /\ LET work == [pipe[j] EXCEPT ![r] = "dropped"] IN
       IF width[j] > 1 THEN pipe' = [pipe EXCEPT ![j] = work] /\ UNCHANGED <<forced, phase, status, fileVars>>
                       ELSE Collapse(j, work)
    /\ UNCHANGED <<scope, width, retried, abort, registryVars, testVars, kills>>

\* Mutant: the loop is left without a status.
CloseSilently(j, newStatus) ==
    /\ phase[j] = "looping"
    /\ phase' = [phase EXCEPT ![j] = "over"]
    /\ UNCHANGED <<status, forced, scope, width, retried, abort, fileVars, pipe, registryVars, testVars, kills>>

Close(j, newStatus) ==
    /\ phase[j] = "looping"
    /\ phase' = [phase EXCEPT ![j] = "over"]
    /\ status' = [status EXCEPT ![j] = newStatus]
    /\ SaveJob(j, newStatus, pipe[j])
    /\ forced' = [forced EXCEPT ![j] = FALSE]
    /\ UNCHANGED <<scope, width, retried, abort, pipe, registryVars, testVars, kills>>

\* The loop notices the flag between two requirements.
AbortSeen(j) ==
    /\ width[j] = 1 /\ abort[j] /\ BusyReqs(j) = {} /\ WaitingReqs(j) # {}
    /\ Close(j, "aborted")

\* Mutant: the job ends when every requirement has its place.
JobEndEarly(j) == WaitingReqs(j) = {} /\ Close(j, "completed")

JobEnd(j) == WaitingReqs(j) = {} /\ BusyReqs(j) = {} /\ Close(j, "completed")

-----------------------------------------------------------------------------
\* A job that was running when the process ended is marked when it is loaded.
Loaded(old) == IF old = "running" THEN "interrupted" ELSE old

\* The process is killed and starts again from its files.
Kill ==
    /\ kills < MaxKills
    /\ kills' = kills + 1
    /\ status' = [j \in Jobs |-> Loaded(saved[j].status)]
    /\ saved' = [j \in Jobs |-> [saved[j] EXCEPT !.status = Loaded(@)]]
    /\ pipe' = [o \in Owners |-> IF o \in Jobs THEN saved[o].work ELSE NoWork]
    /\ phase' = [j \in Jobs |-> IF saved[j].status = "none" THEN "none" ELSE "over"]
    /\ inventory' = sidecar
    /\ holder' = NoEntries
    /\ entryAge' = NoAges
    /\ overran' = NoneOverran
    /\ part' = AllTests
    /\ backup' = NoBackup
    /\ forced' = [j \in Jobs |-> FALSE]
    /\ scope' = [j \in Jobs |-> IF saved[j].status = "none" THEN {} ELSE scope[j]]
    /\ width' = [j \in Jobs |-> IF saved[j].status = "none" THEN 0 ELSE width[j]]
    /\ retried' = [j \in Jobs |-> FALSE]
    /\ abort' = [j \in Jobs |-> FALSE]
    /\ UNCHANGED <<sidecar, failures>>

\* Mutant: the age does not stop at the bound.
OlderUncapped(age) == age + 1

Older(age) == IF age < TTL THEN age + 1 ELSE age

\* Time passes; an entry that becomes too old no longer protects its pipeline.
Tick ==
    /\ \E r \in Reqs, p \in Parts : InFlight(r, p)
    /\ entryAge' = [r \in Reqs |-> [p \in Parts |->
                       IF holder[r][p] = None THEN 0 ELSE Older(entryAge[r][p])]]
    /\ overran' = [r \in Reqs |-> overran[r] \cup
                       {p \in Parts : holder[r][p] # None /\ entryAge'[r][p] >= TTL /\ Pipelines(r, p) # {}}]
    /\ UNCHANGED <<jobVars, pipe, holder, testVars, kills>>

-----------------------------------------------------------------------------
PipelineStep(o, r) == Store(o, r) \/ End(o, r)
Proceed(j) ==
    \/ ClearScope(j) \/ CrashEarly(j) \/ AbortSeen(j) \/ JobEnd(j)
    \/ \E w \in Widths : BeginLoop(j, w)
    \/ \E r \in Reqs : Pick(j, r) \/ EnterFromJob(j, r) \/ Crash(j, r)

Next ==
    \/ \E o \in Owners, r \in Reqs : PipelineStep(o, r)
    \/ \E a \in Callers, r \in Reqs : Call(a, r) \/ Regenerate(a, r)
    \/ \E a \in Callers, gone \in SUBSET inventory : CleanTool(a, gone)
    \/ \E j \in Jobs, force \in BOOLEAN, todo \in Scopes : StartJob(j, force, todo)
    \/ \E old, j \in Jobs : Retry(old, j)
    \/ \E j \in Jobs : Abort(j) \/ Proceed(j)
    \/ Kill
    \/ Tick

Spec == Init /\ [][Next]_vars

\* The event loop resumes every coroutine, and an LLM call ends: all have timeouts.
FairSpec ==
    /\ Spec
    /\ \A j \in Jobs : WF_vars(Proceed(j))
    /\ \A o \in Owners, r \in Reqs : WF_vars(PipelineStep(o, r))

-----------------------------------------------------------------------------
(* Properties.                                                              *)

\* Two pipelines of the same part of a requirement run at the same time only if one
\* of them outlived its entry (tests.py:2283-2290 "Dedup concurrent generations for
\* the same (requirement_id, ac_id) tuple").  Exceptions, which leave entries behind,
\* and pipelines that remove the entry of their successor do not break it earlier.
\* A pipeline of one criterion and one of the whole requirement may run together.
DuplicateNeedsOverrun ==
    \A r \in Reqs, p \in Parts : Cardinality(Pipelines(r, p)) > 1 => p \in overran[r]

\* A job that reports completion has nothing under way, and if it went through its
\* list one by one it has an outcome for each requirement of it, also when it was
\* aborted in the last one or read back from the file (tests.py:7123-7126).
CompletedAccountsForScope ==
    \A j \in Jobs : status[j] = "completed" =>
        \A r \in scope[j] : pipe[j][r] \in Outcomes \/ (width[j] > 1 /\ pipe[j][r] \notin Busy)

\* What a poller is promised (JobLedger): outcomes are recorded once, in the order
\* of the list when the job works one by one, which a retry from one requirement
\* onward relies on (tests.py:6279-6283); "aborted" and "crashed" leave something to
\* retry.  A kill leaves a job as it ended, sets it back to an earlier point of its
\* list as "interrupted", or forgets it, whichever the file has after writes that
\* failed or were cut short (tests_helpers.py:118-143).
Ledger == INSTANCE JobLedger WITH
    pace <- [j \in Jobs |-> IF width[j] = 1 THEN "one" ELSE "many"],
    results <- [j \in Jobs |-> Recorded(pipe[j])]
LedgerSpec == Ledger!Spec

\* Every job ends, whatever is aborted, raised, refused or taken over on its way,
\* unless it is a retry whose task crashed (tests.py:6021-6023 "mark job failed").
JobsSettle == \A j \in Jobs : status[j] = "running" ~> (status[j] # "running" \/ phase[j] = "lost")

\* "an early failure NEVER reduces coverage below what existed"
\* (tests.py:2472-2473, also 2399-2400).  The code violates it: a pipeline without
\* a client or a script, or with an exception, does not restore its backup.
CoverageKept ==
    [][\A o \in Owners, r \in Reqs :
          (pipe[o][r] \in Alive /\ pipe'[o][r] \notin Alive /\ backup[o][r] # {} /\ kills' = kills)
              => inventory' \cap Of(r) # {}]_vars

\* "without this a crash inside the retry path is swallowed and the job sits in
\* "running" forever" (tests.py:6325-6326).  The code violates it: with the
\* supervision added there it still does, and it keeps its place under the cap.
RetriesSettle == \A j \in Jobs : status[j] = "running" ~> status[j] # "running"

\* "Per-AC scope (body.ac_id set) clears ONLY that AC's tests" (tests.py:2391).  The
\* code violates it: the narrowed requirement has another hash, so the tests of all
\* its criteria are cleared as out of date.
PerACClearsOnlyIt ==
    [][\A a \in Callers, r \in Reqs :
          (pipe[a][r] = "none" /\ pipe'[a][r] = "running" /\ part'[a][r] # "*")
              => inventory \ inventory' \subseteq Own(r, part'[a][r])]_vars

\* "Persist a generate-all job result to disk (survives server restarts)"
\* (tests_helpers.py:119).  The code violates it: a write that fails or is cut short
\* loses results, those of every other job with it.
ResultsSurviveRestart ==
    [][\A j \in Jobs : status[j] \in Terminal =>
          status'[j] = status[j] /\ Recorded(pipe'[j]) = Recorded(pipe[j])]_vars
=============================================================================
