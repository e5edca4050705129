----------------------------- MODULE RegenQueue -----------------------------
(***************************************************************************)
(* The regeneration queue (api/services/regen_consumer.py): a directory of *)
(* marker files, one name per test or requirement, that many producers     *)
(* write and two drains empty, the background loop and an endpoint.        *)
(*                                                                         *)
(* Both drains are coroutines of one process, so they interleave at the    *)
(* call to the LLM; a drain holds the lock (flock) of its marker there,    *)
(* which keeps other drains away and no producer: write_text overwrites    *)
(* the file in place.  The process may be killed at any time; the files    *)
(* survive it.  A move inside the queue's tree is a rename and succeeds.   *)
(***************************************************************************)
EXTENDS Naturals, FiniteSets

CONSTANTS
    Tests,         \* names of test markers, which are also the tests
    Upstream,      \* names of upstream markers, one per requirement
    TestsOf,       \* the tests of each requirement
    Unfit,         \* tests with an unsupported tool
    Bare,          \* tests whose entry has no Gherkin at first
    Rank,          \* the order sorted() gives the names
    Drains,        \* the background loop and the calls of the endpoint
    Loop,          \* the background loop
    MaxPerCycle,   \* MAX_PER_CYCLE
    WrittenKinds,  \* the kinds of marker the producers write
    MaxWrites,     \* bound: how often producers write a marker
    MaxKills       \* bound: how often the process is killed

Names == Tests \cup Upstream

ASSUME NamesAssumption ==
    /\ Tests \cap Upstream = {} /\ IsFiniteSet(Names) /\ Unfit \subseteq Tests /\ Bare \subseteq Tests
    /\ TestsOf \in [Upstream -> SUBSET Tests]
    /\ Rank \in [Names -> Nat]
    /\ \A m, n \in Names : Rank[m] = Rank[n] => m = n
ASSUME DrainsAssumption == Loop \in Drains /\ MaxPerCycle \in Nat \ {0}
ASSUME BoundsAssumption == MaxWrites \in Nat /\ MaxKills \in Nat

\* What a marker asks for: "script" and "gherkin" are regenerated, "gated" is
\* operator_review or sut_regression, "broken" cannot be parsed.  No producer asks
\* for another artifact_kind ("requirement" would be gated, any other orphaned).
TestKinds == {"script", "gated", "adversarial", "broken"}
UpstreamKinds == {"gherkin", "broken"}
Kinds == TestKinds \cup UpstreamKinds
KindsOf(n) == IF n \in Tests THEN TestKinds ELSE UpstreamKinds
Regenerated == {"script", "gherkin"}

ASSUME KindsAssumption == WrittenKinds \subseteq Kinds

Marker == [kind : Kinds, no : Nat]          \* no: the write that produced it
NoMarker == [kind |-> "none", no |-> 0]
Dirs == {"orphans", "gated_no_regen", "gated_adversarial"}
NoName == "no name"
Idle == [name |-> NoName, kind |-> "none", gherkin |-> 0]

ASSUME NoNameAssumption == NoName \notin Names

VARIABLES
    queue,     \* the marker file of each name in .arta/regen_queue
    filed,     \* the same for its sub-directories without time stamps in the names
    applied,   \* applied/: all markers retired there, by name
    todo,      \* the rest of the list each drain took when it started
    work,      \* the marker whose regeneration a drain awaits, as it was read
    paused,    \* ARTA_REGEN_CONSUMER_PAUSE or the .paused file
    known,     \* the tests that have an entry in GENERATED_TESTS
    gherkin,   \* version of the Gherkin in that entry, 0 without one
    saved,     \* the same in generated_tests.json
    script,    \* version of the Gherkin that the script on disk was built from
    newest,    \* history: the last write of each name
    writes,    \* history: how many writes there were
    kills      \* history: how often the process was killed

files == <<queue, filed, applied>>
drains == <<todo, work>>
tests == <<known, gherkin, saved, script>>
history == <<newest, writes>>
vars == <<files, drains, paused, tests, history, kills>>

TypeOK ==
    /\ queue \in [Names -> Marker \cup {NoMarker}]
    /\ filed \in [Dirs -> [Names -> Marker \cup {NoMarker}]]
    /\ applied \in [Names -> SUBSET Marker]
    /\ todo \in [Drains -> SUBSET Names]
    /\ work \in [Drains -> [name : Names, kind : Regenerated, gherkin : Nat] \cup {Idle}]
    /\ paused \in BOOLEAN
    /\ known \subseteq Tests
    /\ gherkin \in [Tests -> Nat]
    /\ saved \in [Tests -> Nat]
    /\ script \in [Tests -> Nat]
    /\ newest \in [Names -> Nat]
    /\ writes \in Nat
    /\ kills \in 0..MaxKills

Init ==
    /\ queue = [n \in Names |-> NoMarker]
    /\ filed = [dir \in Dirs |-> [n \in Names |-> NoMarker]]
    /\ applied = [n \in Names |-> {}]
    /\ todo = [d \in Drains |-> {}]
    /\ work = [d \in Drains |-> Idle]
    /\ paused = FALSE
    /\ known \in SUBSET Tests
    /\ gherkin = [t \in Tests |-> IF t \in Bare THEN 0 ELSE 1]
    /\ saved = gherkin
    /\ script = gherkin
    /\ newest = [n \in Names |-> 0]
    /\ writes = 0
    /\ kills = 0

Waiting == {n \in Names : queue[n] # NoMarker}

\* One write to each of the names, overwriting what is there.
Write(names, kind) ==
    /\ queue' = [n \in Names |->
                   IF n \in names THEN [kind |-> kind, no |-> writes + 1] ELSE queue[n]]
    /\ newest' = [n \in Names |-> IF n \in names THEN writes + 1 ELSE newest[n]]
    /\ writes' = writes + 1

-----------------------------------------------------------------------------
(* The producers: run triage, healing approvals, requirement changes, the   *)
(* generation gates; and the tests they are about.                          *)

Produce(n, kind) ==
    /\ writes < MaxWrites
    /\ kind \in KindsOf(n) \cap WrittenKinds
    /\ Write({n}, kind)
    /\ UNCHANGED <<filed, applied, drains, paused, tests, kills>>

\* on_circuit_recovered: a marker for each failed test that has none waiting.
CircuitRecovered(failed) ==
    /\ writes < MaxWrites
    /\ failed \ Waiting # {}
    /\ Write(failed \ Waiting, "script")
    /\ UNCHANGED <<filed, applied, drains, paused, tests, kills>>

\* A test is generated, with its script, and the inventory saved.
Catalogue(t) ==
    /\ t \notin known
    /\ known' = known \cup {t}
    /\ script' = [script EXCEPT ![t] = gherkin[t]]
    /\ saved' = gherkin
    /\ UNCHANGED <<files, drains, paused, gherkin, history, kills>>

\* A test is pruned from the inventory, which is saved.
Prune(t) ==
    /\ t \in known
    /\ known' = known \ {t}
    /\ saved' = gherkin
    /\ UNCHANGED <<files, drains, paused, gherkin, script, history, kills>>

-----------------------------------------------------------------------------
(* _drain_queue_once and _regen_one up to the await.                        *)

\* Mutant: one name too few.
BatchShort == {n \in Waiting : Cardinality({m \in Waiting : Rank[m] < Rank[n]}) + 1 < MaxPerCycle}

\* The first MaxPerCycle names of the queue.
Batch == {n \in Waiting : Cardinality({m \in Waiting : Rank[m] < Rank[n]}) < MaxPerCycle}

StartDrain(d) ==
    /\ todo[d] = {} /\ work[d] = Idle
    /\ ~paused
    /\ Waiting # {}
    /\ todo' = [todo EXCEPT ![d] = Batch]
    /\ UNCHANGED <<files, work, paused, tests, history, kills>>

IsNext(d, n) ==
    /\ work[d] = Idle
    /\ n \in todo[d]
    /\ \A m \in todo[d] : Rank[n] <= Rank[m]

Locked(n) == \E d \in Drains : work[d].name = n
\* Mutant: the lock is not tried.
MayTakeUnlocked(d, n) == IsNext(d, n) /\ queue[n] # NoMarker
MayTake(d, n) == IsNext(d, n) /\ queue[n] # NoMarker /\ ~Locked(n)
Done(d, n) == todo' = [todo EXCEPT ![d] = @ \ {n}]

\* The file is gone, or another drain holds its lock.
Skip(d, n) ==
    /\ IsNext(d, n)
    /\ queue[n] = NoMarker \/ Locked(n)
    /\ Done(d, n)
    /\ UNCHANGED <<files, work, paused, tests, history, kills>>

\* shutil.move to a directory, over a marker of that name that is there.
Move(n, dir) ==
    /\ filed' = [filed EXCEPT ![dir][n] = queue[n]]
    /\ queue' = [queue EXCEPT ![n] = NoMarker]
    /\ UNCHANGED applied

Gate(d, n) ==
    /\ MayTake(d, n)
    /\ \/ queue[n].kind = "gated" /\ Move(n, "gated_no_regen")
       \/ queue[n].kind = "adversarial" /\ Move(n, "gated_adversarial")
    /\ Done(d, n)
    /\ UNCHANGED <<work, paused, tests, history, kills>>

\* Unreadable, or about a test or requirement nobody knows.
Orphan(d, n) ==
    /\ MayTake(d, n)
    /\ \/ queue[n].kind \in {"broken", "gherkin"}
       \/ queue[n].kind = "script" /\ n \notin known
    /\ Move(n, "orphans")
    /\ Done(d, n)
    /\ UNCHANGED <<work, paused, tests, history, kills>>

\* An entry that cannot be regenerated is consumed, but its marker stays.
CanRegenerate(n) == n \in Upstream \/ (n \in known \ Unfit /\ gherkin[n] > 0)
Leave(d, n) ==
    /\ MayTake(d, n)
    /\ queue[n].kind = "script" /\ n \in known /\ ~CanRegenerate(n)
    /\ Done(d, n)
    /\ UNCHANGED <<files, work, paused, tests, history, kills>>

\* No LLM client: the marker waits for the next cycle.
Defer(d, n) ==
    /\ MayTake(d, n)
    /\ queue[n].kind \in Regenerated /\ CanRegenerate(n)
    /\ Done(d, n)
    /\ UNCHANGED <<files, work, paused, tests, history, kills>>

Begin(d, n) ==
    /\ MayTake(d, n)
    /\ queue[n].kind \in Regenerated /\ CanRegenerate(n)
    /\ work' = [work EXCEPT ![d] = [name |-> n, kind |-> queue[n].kind,
                                    gherkin |-> IF n \in Tests THEN gherkin[n] ELSE 0]]
    /\ Done(d, n)
    /\ UNCHANGED <<files, paused, tests, history, kills>>

-----------------------------------------------------------------------------
(* After the await.                                                         *)

Working(d, kind) == work[d].name # NoName /\ work[d].kind = kind
\* Mutant: the marker is forgotten, what it asked for is not.
FinishPartly(d) == work' = [work EXCEPT ![d].name = NoName]
Finish(d) == work' = [work EXCEPT ![d] = Idle]

\* The generator raised or answered nothing, or the script could not be written.
Fail(d) ==
    /\ work[d] # Idle
    /\ Finish(d)
    /\ UNCHANGED <<files, todo, paused, tests, history, kills>>

\* Whatever is in the marker's file by now goes to applied.
Retire(q, n) ==
    /\ applied' = [applied EXCEPT ![n] = @ \cup ({q[n]} \ {NoMarker})]
    /\ queue' = [q EXCEPT ![n] = NoMarker]

Regenerate(d) ==
    /\ Working(d, "script")
    /\ script' = [script EXCEPT ![work[d].name] = work[d].gherkin]
    /\ saved' = gherkin
    /\ Retire(queue, work[d].name)
    /\ Finish(d)
    /\ UNCHANGED <<filed, todo, paused, known, gherkin, history, kills>>

\* The entries of a requirement, each of which has a script.
Entries(n) == TestsOf[n] \cap known

\* The new Gherkin, numbered above all earlier ones, goes into every entry, and a
\* marker for its script into the queue; the inventory is not saved.
Heal(d) ==
    /\ Working(d, "gherkin")
    /\ gherkin' = [t \in Tests |->
                     IF t \in Entries(work[d].name) THEN writes + 2 ELSE gherkin[t]]
    /\ Retire([n \in Names |-> IF n \in Entries(work[d].name)
                               THEN [kind |-> "script", no |-> writes + 1] ELSE queue[n]],
              work[d].name)
    /\ newest' = [n \in Names |-> IF n \in Entries(work[d].name) THEN writes + 1 ELSE newest[n]]
    /\ writes' = writes + 1
    /\ Finish(d)
    /\ UNCHANGED <<filed, todo, paused, known, saved, script, kills>>

\* The new Gherkin is no better: the operator gets the marker.
StillBlocked(d) ==
    /\ Working(d, "gherkin")
    /\ Move(work[d].name, "gated_no_regen")
    /\ Finish(d)
    /\ UNCHANGED <<todo, paused, tests, history, kills>>

-----------------------------------------------------------------------------
(* The operator, and the end of the process.                                *)

TogglePause ==
    /\ paused' = ~paused
    /\ UNCHANGED <<files, drains, tests, history, kills>>

\* The orphans that backfill_orphans takes under a limit.
Orphans == {n \in Names : filed["orphans"][n] # NoMarker}
FirstOrphans(limit) == {n \in Orphans : Cardinality({m \in Orphans : Rank[m] < Rank[n]}) < limit}

\* Mutant: a marker that is waiting is overwritten.
BackfillOverwrites(limit) ==
    /\ Orphans # {}
    /\ queue' = [n \in Names |-> IF n \in FirstOrphans(limit) THEN filed["orphans"][n] ELSE queue[n]]
    /\ filed' = [filed EXCEPT !["orphans"] =
                   [n \in Names |-> IF n \in FirstOrphans(limit) THEN NoMarker ELSE @[n]]]
    /\ UNCHANGED <<applied, drains, paused, tests, history, kills>>

\* Orphans go back to the queue unless a marker of that name waits there.
Backfill(limit) ==
    LET moved == {n \in FirstOrphans(limit) : queue[n] = NoMarker} IN
    /\ moved # {}
    /\ queue' = [n \in Names |-> IF n \in moved THEN filed["orphans"][n] ELSE queue[n]]
    /\ filed' = [filed EXCEPT !["orphans"] =
                   [n \in Names |-> IF n \in moved THEN NoMarker ELSE @[n]]]
    /\ UNCHANGED <<applied, drains, paused, tests, history, kills>>

\* Killed before the marker is moved: the script, or some of the markers that
\* a healed requirement queues, may have been written.
CutShort(d) ==
    \/ /\ Working(d, "script")
       /\ script' = [script EXCEPT ![work[d].name] = work[d].gherkin]
       /\ UNCHANGED <<queue, history>>
    \/ /\ Working(d, "gherkin")
       /\ \E written \in SUBSET Entries(work[d].name) : Write(written, "script")
       /\ UNCHANGED script

\* The process is killed and started again: the inventory is read from its file.
Kill ==
    /\ kills < MaxKills
    /\ \/ UNCHANGED <<queue, history, script>>
       \/ \E d \in Drains : CutShort(d)
    /\ gherkin' = saved
    /\ todo' = [d \in Drains |-> {}]
    /\ work' = [d \in Drains |-> Idle]
    /\ kills' = kills + 1
    /\ UNCHANGED <<filed, applied, paused, known, saved>>

-----------------------------------------------------------------------------
Take(d, n) == Skip(d, n) \/ Gate(d, n) \/ Orphan(d, n) \/ Leave(d, n) \/ Defer(d, n) \/ Begin(d, n)
Proceed(d) == (\E n \in Names : Take(d, n)) \/ Fail(d) \/ Regenerate(d) \/ Heal(d) \/ StillBlocked(d)

Next ==
    \/ \E n \in Names, kind \in Kinds : Produce(n, kind)
    \/ \E failed \in SUBSET known \ {{}} : CircuitRecovered(failed)
    \/ \E t \in Tests : Catalogue(t) \/ Prune(t)
    \/ \E d \in Drains : StartDrain(d) \/ Proceed(d)
    \/ TogglePause
    \/ \E limit \in 1..Cardinality(Names) : Backfill(limit)
    \/ Kill

Spec == Init /\ [][Next]_vars

\* The loop runs every CYCLE_SECS and a pause ends; the event loop resumes a drain
\* and an LLM call ends (timeouts).  The LLM is back again and again, and does not
\* fail for the same marker forever.  Operators do not backfill forever.
Settle(d, n) == work[d].name = n /\ (Regenerate(d) \/ Heal(d) \/ StillBlocked(d))
FairSpec ==
    /\ Spec
    /\ SF_vars(StartDrain(Loop))
    /\ WF_vars(paused /\ TogglePause)
    /\ \A d \in Drains : WF_vars(Proceed(d))
    /\ \A n \in Names :
          /\ SF_vars(\E d \in Drains : Begin(d, n))
          /\ SF_vars(\E d \in Drains : Settle(d, n))
    /\ <>[][\A limit \in 1..Cardinality(Names) : ~Backfill(limit)]_vars

-----------------------------------------------------------------------------
(* Properties.                                                              *)

\* Two drains never work on markers of the same name, and the file of a marker
\* that is worked on stays in the queue until its drain is done with it: the
\* lock of regen_consumer.py:724-730 is the only thing between the loop and the
\* endpoint.
OneDrainPerMarker ==
    \A d \in Drains : work[d] # Idle =>
        /\ work[d].name \in Waiting
        /\ \A e \in Drains : work[e].name = work[d].name => e = d

\* The last marker written for a test is where MarkerCustody allows it to be, under
\* moves over existing files, backfills, overwriting producers and kills
\* (regen_consumer.py:850-858 and the moves of _regen_one).
Settled(t) == filed["gated_no_regen"][t].no = newest[t] \/ filed["gated_adversarial"][t].no = newest[t]
              \/ \E marker \in applied[t] : marker.no = newest[t]
Place(t) ==
    IF newest[t] = 0 THEN "nowhere"
    ELSE IF queue[t].no = newest[t] THEN "waiting"
    ELSE IF filed["orphans"][t].no = newest[t] THEN "orphaned"
    ELSE IF Settled(t) THEN "settled" ELSE "lost"
Custody == INSTANCE MarkerCustody WITH
    reports <- [t \in Tests |-> newest[t]], place <- [t \in Tests |-> Place(t)]
CustodySpec == Custody!Spec

\* No marker that a drain could act on waits forever, as long as fewer than
\* MAX_PER_CYCLE markers wait for entries that cannot be regenerated: the purpose
\* of the consumer (main.py:945-949).
Actionable(n) ==
    /\ n \in Waiting
    /\ queue[n].kind = "script" => (n \notin known \/ CanRegenerate(n))
ActionableIsHandled == \A n \in Names : []<>~Actionable(n)

\* A script older than the Gherkin of its entry has a marker waiting
\* (regen_consumer.py:660: "Queue downstream script regen so the now-aligned
\* scripts get rebuilt").  The code violates it: a drain that read the old Gherkin
\* retires the new marker.
HealedScriptsRebuilt == \A t \in known : script[t] < gherkin[t] => t \in Waiting
=============================================================================
