------------------------- MODULE RegenQueue_proofs -------------------------
(***************************************************************************)
(* Proofs about RegenQueue, for any tests, requirements and drains, any    *)
(* order of the names and any number of writes and kills: the lock, the    *)
(* refinement of MarkerCustody, and how a rebuild can be lost.             *)
(***************************************************************************)
EXTENDS RegenQueue, TLAPS

\* A write makes a marker.
LEMMA MarkerMade ==
    ASSUME NEW kind \in {"script", "gherkin", "gated", "adversarial", "broken"}, NEW no \in Nat
    PROVE  [kind |-> kind, no |-> no] \in Marker
BY DEF Marker, Kinds, TestKinds, UpstreamKinds

\* What a drain may be working on.
Works == [name : Names, kind : Regenerated, gherkin : Nat] \cup {Idle}

\* A drain that works has taken a marker of a known name.
LEMMA WorkMade ==
    ASSUME NEW work0 \in Works, work0 # Idle
    PROVE  work0.name \in Names /\ work0.name # NoName /\ work0.kind \in Regenerated
           /\ work0.gherkin \in Nat
BY NoNameAssumption DEF Works, Regenerated

\* Idle is the only work without a name.
LEMMA IdleWork == Idle \in Works /\ Idle.name = NoName /\ Idle.kind = "none"
BY DEF Works, Idle

\* Type correctness: no producer, drain, operator or kill takes a variable out of
\* its type.
THEOREM TypeCorrect == Spec => []TypeOK
<1> USE NamesAssumption, DrainsAssumption, BoundsAssumption
<1>1. Init => TypeOK
  <2> SUFFICES ASSUME Init PROVE TypeOK
    OBVIOUS
  <2> USE DEF Init
  <2>1. queue \in [Names -> Marker \cup {NoMarker}] /\ applied \in [Names -> SUBSET Marker]
    OBVIOUS
  <2>2. filed \in [Dirs -> [Names -> Marker \cup {NoMarker}]]
    OBVIOUS
  <2>3. work \in [Drains -> Works] /\ todo \in [Drains -> SUBSET Names]
    BY DEF Works
  <2>4. known \subseteq Tests /\ gherkin \in [Tests -> Nat]
    OBVIOUS
  <2>5. newest \in [Names -> Nat] /\ writes \in Nat /\ kills \in 0..MaxKills
    OBVIOUS
  <2>6. paused \in BOOLEAN
    OBVIOUS
  <2>7. QED
    BY <2>1, <2>2, <2>3, <2>4, <2>5, <2>6 DEF TypeOK, Works
<1>2. TypeOK /\ [Next]_vars => TypeOK'
  <2> SUFFICES ASSUME TypeOK, [Next]_vars PROVE TypeOK'
    OBVIOUS
  <2>a. /\ queue \in [Names -> Marker \cup {NoMarker}]
        /\ filed \in [Dirs -> [Names -> Marker \cup {NoMarker}]]
        /\ applied \in [Names -> SUBSET Marker]
        /\ todo \in [Drains -> SUBSET Names]
        /\ work \in [Drains -> Works]
        /\ paused \in BOOLEAN
        /\ known \subseteq Tests
        /\ gherkin \in [Tests -> Nat] /\ saved \in [Tests -> Nat] /\ script \in [Tests -> Nat]
        /\ newest \in [Names -> Nat] /\ writes \in Nat
        /\ kills \in 0..MaxKills
    BY DEF TypeOK, Works
  <2>b. SUFFICES /\ queue' \in [Names -> Marker \cup {NoMarker}]
                 /\ filed' \in [Dirs -> [Names -> Marker \cup {NoMarker}]]
                 /\ applied' \in [Names -> SUBSET Marker]
                 /\ todo' \in [Drains -> SUBSET Names]
                 /\ work' \in [Drains -> Works]
                 /\ paused' \in BOOLEAN
                 /\ known' \subseteq Tests
                 /\ gherkin' \in [Tests -> Nat] /\ saved' \in [Tests -> Nat] /\ script' \in [Tests -> Nat]
                 /\ newest' \in [Names -> Nat] /\ writes' \in Nat
                 /\ kills' \in 0..MaxKills
    BY DEF TypeOK, Works
  <2> DEFINE Typed ==
                 /\ queue' \in [Names -> Marker \cup {NoMarker}]
                 /\ filed' \in [Dirs -> [Names -> Marker \cup {NoMarker}]]
                 /\ applied' \in [Names -> SUBSET Marker]
                 /\ todo' \in [Drains -> SUBSET Names]
                 /\ work' \in [Drains -> Works]
                 /\ paused' \in BOOLEAN
                 /\ known' \subseteq Tests
                 /\ gherkin' \in [Tests -> Nat] /\ saved' \in [Tests -> Nat] /\ script' \in [Tests -> Nat]
                 /\ newest' \in [Names -> Nat] /\ writes' \in Nat
                 /\ kills' \in 0..MaxKills
  <2> USE <2>a, IdleWork DEF files, drains, tests, history
  <2>1. ASSUME NEW n \in Names, NEW kind \in Kinds, Produce(n, kind) PROVE Typed
    <3>1. [kind |-> kind, no |-> writes + 1] \in Marker
      BY DEF Marker
    <3>2. QED
      BY <2>1, <3>1 DEF Produce, Write
  <2>2. ASSUME NEW failed \in SUBSET known \ {{}}, CircuitRecovered(failed) PROVE Typed
    <3>1. [kind |-> "script", no |-> writes + 1] \in Marker
      BY MarkerMade
    <3>2. QED
      BY <2>2, <3>1 DEF CircuitRecovered, Write
  <2>3. ASSUME NEW t \in Tests, Catalogue(t) \/ Prune(t) PROVE Typed
    BY <2>3 DEF Catalogue, Prune
  <2>4. ASSUME NEW d \in Drains, StartDrain(d) PROVE Typed
    BY <2>4 DEF StartDrain, Batch, Waiting
  <2>5. ASSUME NEW d \in Drains, NEW n \in Names, Take(d, n) PROVE Typed
    <3>1. todo' \in [Drains -> SUBSET Names]
      BY <2>5 DEF Take, Skip, Gate, Orphan, Leave, Defer, Begin, Done
    <3>2. CASE \/ Skip(d, n) \/ Leave(d, n) \/ Defer(d, n)
      BY <3>1, <3>2 DEF Skip, Leave, Defer
    <3>3. CASE Gate(d, n) \/ Orphan(d, n)
      <4>1. PICK dir \in Dirs : Move(n, dir)
        BY <3>3 DEF Gate, Orphan, Dirs
      <4>2. QED
        BY <3>1, <3>3, <4>1 DEF Gate, Orphan, Move
    <3>4. CASE Begin(d, n)
      <4>1. [name |-> n, kind |-> queue[n].kind, gherkin |-> IF n \in Tests THEN gherkin[n] ELSE 0] \in Works
        BY <3>4 DEF Begin, Works
      <4>2. QED
        BY <3>1, <3>4, <4>1 DEF Begin
    <3>5. QED
      BY <2>5, <3>2, <3>3, <3>4 DEF Take
  <2>6. ASSUME NEW d \in Drains, Fail(d) \/ Regenerate(d) \/ Heal(d) \/ StillBlocked(d) PROVE Typed
    <3>1. work' \in [Drains -> Works]
      BY <2>6 DEF Fail, Regenerate, Heal, StillBlocked, Finish
    <3>2. CASE Fail(d)
      BY <3>1, <3>2 DEF Fail
    <3>3. CASE Regenerate(d)
      <4>1. work[d].gherkin \in Nat
        BY <3>3, WorkMade DEF Regenerate, Working
      <4>2. script' \in [Tests -> Nat]
        BY <4>1, <3>3 DEF Regenerate
      <4>3. queue' \in [Names -> Marker \cup {NoMarker}] /\ applied' \in [Names -> SUBSET Marker]
        BY <3>3, WorkMade DEF Regenerate, Retire, Working
      <4>4. QED
        BY <3>1, <3>3, <4>2, <4>3 DEF Regenerate
    <3>4. CASE Heal(d)
      <4>1. [kind |-> "script", no |-> writes + 1] \in Marker
        BY MarkerMade
      <4> DEFINE q == [n \in Names |-> IF n \in Entries(work[d].name)
                               THEN [kind |-> "script", no |-> writes + 1] ELSE queue[n]]
      <4>2. q \in [Names -> Marker \cup {NoMarker}]
        BY <4>1
      <4>3. Retire(q, work[d].name)
        BY <3>4 DEF Heal
      <4> HIDE DEF q
      <4>4. queue' \in [Names -> Marker \cup {NoMarker}] /\ applied' \in [Names -> SUBSET Marker]
        BY <3>4, <4>2, <4>3, WorkMade DEF Heal, Retire, Working
      <4>5. newest' \in [Names -> Nat] /\ writes' \in Nat /\ gherkin' \in [Tests -> Nat]
        BY <3>4 DEF Heal
      <4>6. QED
        BY <3>1, <3>4, <4>4, <4>5 DEF Heal
    <3>5. CASE StillBlocked(d)
      <4>1. "gated_no_regen" \in Dirs
        BY DEF Dirs
      <4>2. work[d].name \in Names
        BY <3>5, WorkMade DEF StillBlocked, Working
      <4>3. filed' \in [Dirs -> [Names -> Marker \cup {NoMarker}]]
        BY <3>5, <4>1, <4>2 DEF StillBlocked, Move
      <4>4. queue' \in [Names -> Marker \cup {NoMarker}] /\ applied' = applied
        BY <3>5 DEF StillBlocked, Move
      <4>5. QED
        BY <3>1, <3>5, <4>3, <4>4 DEF StillBlocked
    <3>6. QED
      BY <2>6, <3>2, <3>3, <3>4, <3>5
  <2>7. CASE TogglePause
    BY <2>7 DEF TogglePause
  <2>8. ASSUME NEW limit \in 1..Cardinality(Names), Backfill(limit) PROVE Typed
    <3>1. "orphans" \in Dirs
      BY DEF Dirs
    <3>2. queue' \in [Names -> Marker \cup {NoMarker}]
      BY <2>8, <3>1 DEF Backfill
    <3>3. filed' \in [Dirs -> [Names -> Marker \cup {NoMarker}]]
      BY <2>8, <3>1 DEF Backfill
    <3>4. QED
      BY <2>8, <3>2, <3>3 DEF Backfill
  <2>9. CASE Kill
    <3>1. [kind |-> "script", no |-> writes + 1] \in Marker
      BY MarkerMade
    <3>2. CASE UNCHANGED <<queue, history, script>>
      BY <2>9, <3>2 DEF Kill
    <3>3. ASSUME NEW d \in Drains, CutShort(d) PROVE Typed
      <4>1. work[d] # Idle
        BY <3>3 DEF CutShort, Working
      <4>2. work[d].gherkin \in Nat
        BY <4>1, WorkMade
      <4>3. queue' \in [Names -> Marker \cup {NoMarker}]
        BY <3>3, <3>1 DEF CutShort, Write
      <4>4. newest' \in [Names -> Nat] /\ writes' \in Nat /\ script' \in [Tests -> Nat]
        BY <3>3, <4>2 DEF CutShort, Write
      <4>5. QED
        BY <2>9, <4>3, <4>4 DEF Kill
    <3>4. QED
      BY <2>9, <3>2, <3>3 DEF Kill
  <2>10. CASE UNCHANGED vars
    BY <2>10 DEF vars
  <2>11. QED
    BY <2>1, <2>2, <2>3, <2>4, <2>5, <2>6, <2>7, <2>8, <2>9, <2>10 DEF Next, Proceed
<1>3. QED
  BY <1>1, <1>2, PTL DEF Spec

-----------------------------------------------------------------------------
(* One drain per marker.                                                    *)

\* A drain that settles its own marker leaves those of the other drains alone.
LEMMA LockSettle ==
    ASSUME TypeOK, OneDrainPerMarker, NEW d \in Drains, work[d] # Idle,
           work' = [work EXCEPT ![d] = Idle],
           \A n \in Names \ {work[d].name} : queue[n] # NoMarker => queue'[n] # NoMarker
    PROVE  OneDrainPerMarker'
<1> SUFFICES ASSUME NEW e \in Drains, work'[e] # Idle
             PROVE  /\ work'[e].name \in Names /\ queue'[work'[e].name] # NoMarker
                    /\ \A f \in Drains : work'[f].name = work'[e].name => f = e
  BY DEF OneDrainPerMarker, Waiting
<1>1. work \in [Drains -> Works]
  BY DEF TypeOK, Works
<1>2. e # d /\ work'[e] = work[e]
  BY <1>1
<1>3. /\ work[e].name \in Names /\ queue[work[e].name] # NoMarker
      /\ \A f \in Drains : work[f].name = work[e].name => f = e
  BY <1>2 DEF OneDrainPerMarker, Waiting
<1>4. work[e].name # work[d].name
  BY <1>2, <1>3
<1>5. work[e].name # NoName
  BY <1>3, NoNameAssumption
<1>6. \A f \in Drains : f # d => work'[f] = work[f]
  BY <1>1
<1>7. work'[d].name = NoName
  BY <1>1, IdleWork
<1>8. QED
  BY <1>2, <1>3, <1>4, <1>5, <1>6, <1>7

\* A step that takes no marker away from a working drain keeps the locks.
LEMMA LockKept ==
    ASSUME OneDrainPerMarker, UNCHANGED work,
           \A n \in Names : Locked(n) /\ queue[n] # NoMarker => queue'[n] # NoMarker
    PROVE  OneDrainPerMarker'
BY DEF OneDrainPerMarker, Waiting, Locked

\* No step makes two drains work on one name or takes away the file of a marker
\* that a drain works on.
THEOREM OneDrainPerMarkerCorrect == Spec => []OneDrainPerMarker
<1>1. Init => OneDrainPerMarker
  BY DEF Init, OneDrainPerMarker
<1>2. TypeOK /\ OneDrainPerMarker /\ [Next]_vars => OneDrainPerMarker'
  <2> SUFFICES ASSUME TypeOK, OneDrainPerMarker, [Next]_vars PROVE OneDrainPerMarker'
    OBVIOUS
  <2>a. /\ queue \in [Names -> Marker \cup {NoMarker}]
        /\ filed \in [Dirs -> [Names -> Marker \cup {NoMarker}]]
        /\ work \in [Drains -> Works] /\ writes \in Nat
    BY DEF TypeOK, Works
  <2>b. \A kind \in Kinds : [kind |-> kind, no |-> writes + 1] # NoMarker
    BY DEF NoMarker, Kinds, TestKinds, UpstreamKinds
  <2>c. \A kind \in {"script"} : [kind |-> kind, no |-> writes + 1] # NoMarker
    BY <2>b DEF Kinds, TestKinds, UpstreamKinds
  <2> USE DEF files, drains, tests, history
  <2>1. ASSUME NEW n \in Names, NEW kind \in Kinds, Produce(n, kind) PROVE OneDrainPerMarker'
    BY <2>1, <2>b, LockKept DEF Produce, Write
  <2>2. ASSUME NEW failed \in SUBSET known \ {{}}, CircuitRecovered(failed) PROVE OneDrainPerMarker'
    BY <2>2, <2>c, LockKept DEF CircuitRecovered, Write
  <2>3. ASSUME NEW t \in Tests, Catalogue(t) \/ Prune(t) PROVE OneDrainPerMarker'
    BY <2>3, LockKept DEF Catalogue, Prune
  <2>4. ASSUME NEW d \in Drains, StartDrain(d) PROVE OneDrainPerMarker'
    BY <2>4, LockKept DEF StartDrain
  <2>5. ASSUME NEW d \in Drains, NEW n \in Names, Take(d, n) PROVE OneDrainPerMarker'
    <3>1. CASE Skip(d, n) \/ Leave(d, n) \/ Defer(d, n)
      BY <3>1, LockKept DEF Skip, Leave, Defer
    <3>2. CASE Gate(d, n) \/ Orphan(d, n)
      <4>1. PICK dir : Move(n, dir)
        BY <3>2 DEF Gate, Orphan
      <4>2. ~Locked(n) /\ UNCHANGED work
        BY <3>2 DEF Gate, Orphan, MayTake
      <4>3. QED
        BY <2>a, <4>1, <4>2, LockKept DEF Move
    <3>3. CASE Begin(d, n)
      <4>1. queue[n] # NoMarker /\ ~Locked(n) /\ work[d] = Idle /\ UNCHANGED queue
        BY <3>3 DEF Begin, MayTake, IsNext
      <4>2. \A e \in Drains : work[e].name # n
        BY <4>1 DEF Locked
      <4>3. work'[d].name = n /\ \A e \in Drains \ {d} : work'[e] = work[e]
        BY <2>a, <3>3 DEF Begin
      <4>4. QED
        BY <4>1, <4>2, <4>3 DEF OneDrainPerMarker, Waiting
    <3>4. QED
      BY <2>5, <3>1, <3>2, <3>3 DEF Take
  <2>6. ASSUME NEW d \in Drains, Fail(d) \/ Regenerate(d) \/ Heal(d) \/ StillBlocked(d)
        PROVE  OneDrainPerMarker'
    <3>1. work[d] # Idle
      BY <2>6, IdleWork DEF Fail, Regenerate, Heal, StillBlocked, Working
    <3>2. work' = [work EXCEPT ![d] = Idle]
      BY <2>6 DEF Fail, Regenerate, Heal, StillBlocked, Finish
    <3>3. \A n \in Names \ {work[d].name} : queue[n] # NoMarker => queue'[n] # NoMarker
      <4>1. CASE Fail(d)
        BY <4>1 DEF Fail
      <4>2. CASE Regenerate(d)
        BY <2>a, <4>2 DEF Regenerate, Retire
      <4>3. CASE Heal(d)
        BY <2>a, <2>c, <4>3 DEF Heal, Retire
      <4>4. CASE StillBlocked(d)
        BY <2>a, <4>4 DEF StillBlocked, Move
      <4>5. QED
        BY <2>6, <4>1, <4>2, <4>3, <4>4
    <3>4. QED
      BY <3>1, <3>2, <3>3, LockSettle
  <2>7. CASE TogglePause
    BY <2>7, LockKept DEF TogglePause
  <2>8. ASSUME NEW limit \in 1..Cardinality(Names), Backfill(limit) PROVE OneDrainPerMarker'
    BY <2>8, LockKept DEF Backfill
  <2>9. CASE Kill
    BY <2>9 DEF Kill, OneDrainPerMarker
  <2>10. CASE UNCHANGED vars
    BY <2>10, LockKept DEF vars
  <2>11. QED
    BY <2>1, <2>2, <2>3, <2>4, <2>5, <2>6, <2>7, <2>8, <2>9, <2>10 DEF Next, Proceed
<1>3. QED
  BY <1>1, <1>2, TypeCorrect, PTL DEF Spec

-----------------------------------------------------------------------------
(* The custody of the last report about a test.                             *)

\* Markers ask for what their name allows, and drains work on what was asked.
KindsFit ==
    /\ \A n \in Names : queue[n] # NoMarker => queue[n].kind \in KindsOf(n)
    /\ \A n \in Names : filed["orphans"][n] # NoMarker => filed["orphans"][n].kind \in KindsOf(n)
    /\ \A d \in Drains : work[d] # Idle => (work[d].kind = "gherkin" <=> work[d].name \in Upstream)

\* What Custody needs to be inductive: no marker of a test is newer than the last
\* one or lies in two places that matter; and what comes back from the orphans is
\* of a kind that cannot be filed over the last one again.
OrphanKinds == {"script", "broken"}
Numbered(marker, t) == marker # NoMarker => marker.no > 0 /\ marker.no <= newest[t]
CustodyOf(t) ==
    /\ newest[t] <= writes
    /\ Numbered(queue[t], t)
    /\ \A dir \in Dirs : Numbered(filed[dir][t], t)
    /\ \A marker \in applied[t] : Numbered(marker, t)
    /\ queue[t] # NoMarker /\ queue[t].no < newest[t] => queue[t].kind \in OrphanKinds
    /\ filed["orphans"][t] # NoMarker =>
          /\ filed["orphans"][t].kind \in OrphanKinds
          /\ filed["orphans"][t].no = newest[t] => queue[t] = NoMarker
    /\ Place(t) # "lost"

CustodyInv == KindsFit /\ \A t \in Tests : CustodyOf(t)

\* What a step does to the markers of a test.
Untouched(t) ==
    /\ queue'[t] = queue[t] /\ newest'[t] = newest[t]
    /\ \A dir \in Dirs : filed'[dir][t] = filed[dir][t]
    /\ applied'[t] = applied[t]
Reported(t) ==
    /\ newest'[t] = writes + 1 /\ writes' = writes + 1
    /\ queue'[t] # NoMarker /\ queue'[t].no = writes + 1
    /\ \A dir \in Dirs : filed'[dir][t] = filed[dir][t]
    /\ applied'[t] = applied[t]
SetAside(t, dir) ==
    /\ queue[t] # NoMarker /\ queue'[t] = NoMarker /\ newest'[t] = newest[t]
    /\ filed'[dir][t] = queue[t]
    /\ \A other \in Dirs \ {dir} : filed'[other][t] = filed[other][t]
    /\ applied'[t] = applied[t]
    /\ dir = "orphans" <=> queue[t].kind \in OrphanKinds
Retired(t) ==
    /\ queue'[t] = NoMarker /\ newest'[t] = newest[t]
    /\ \A dir \in Dirs : filed'[dir][t] = filed[dir][t]
    /\ applied'[t] = applied[t] \cup ({queue[t]} \ {NoMarker})
Returned(t) ==
    /\ queue[t] = NoMarker /\ filed["orphans"][t] # NoMarker
    /\ queue'[t] = filed["orphans"][t] /\ newest'[t] = newest[t]
    /\ filed'["orphans"][t] = NoMarker
    /\ \A other \in Dirs \ {"orphans"} : filed'[other][t] = filed[other][t]
    /\ applied'[t] = applied[t]

\* Numbers are numbers, and the number of no marker is zero.
LEMMA Numbers ==
    ASSUME TypeOK, NEW t \in Tests
    PROVE  /\ queue[t].no \in Nat /\ newest[t] \in Nat /\ writes \in Nat
           /\ \A dir \in Dirs : filed[dir][t].no \in Nat
           /\ \A marker \in applied[t] : marker.no \in Nat /\ marker # NoMarker
           /\ NoMarker.no = 0
<1>1. NoMarker.no = 0 /\ NoMarker \notin Marker /\ \A marker \in Marker : marker.no \in Nat
  BY DEF NoMarker, Marker, Kinds, TestKinds, UpstreamKinds
<1>2. t \in Names
  BY DEF Names
<1>3. QED
  BY <1>1, <1>2 DEF TypeOK

\* A step that does not touch a test leaves its custody alone.
LEMMA UntouchedStep ==
    ASSUME TypeOK, NEW t \in Tests, CustodyOf(t), Untouched(t), writes' \in Nat, writes' >= writes
    PROVE  CustodyOf(t)' /\ Place(t)' = Place(t)
<1>1. "orphans" \in Dirs /\ "gated_no_regen" \in Dirs /\ "gated_adversarial" \in Dirs
  BY DEF Dirs
<1>2. Place(t)' = Place(t)
  BY <1>1 DEF Untouched, Place, Settled
<1>3. QED
  BY <1>1, <1>2, Numbers DEF Untouched, CustodyOf, Numbered

\* A new report waits in the queue.
LEMMA ReportedStep ==
    ASSUME TypeOK, NEW t \in Tests, CustodyOf(t), Reported(t)
    PROVE  CustodyOf(t)' /\ Place(t)' = "waiting" /\ newest'[t] > newest[t]
<1>1. "orphans" \in Dirs
  BY DEF Dirs
<1>2. Place(t)' = "waiting" /\ newest'[t] > newest[t]
  BY Numbers DEF Reported, Place, CustodyOf
<1>3. QED
  BY <1>1, <1>2, Numbers DEF Reported, CustodyOf, Numbered

\* A report that is filed was the last one and is so still, or the last one stays
\* where it was.
LEMMA SetAsideStep ==
    ASSUME TypeOK, NEW t \in Tests, CustodyOf(t), NEW dir \in Dirs, SetAside(t, dir),
           writes' \in Nat, writes' >= writes
    PROVE  /\ CustodyOf(t)'
           /\ Place(t)' = Place(t) \/ (Place(t) = "waiting" /\ Place(t)' \in {"settled", "orphaned"})
<1>1. Dirs = {"orphans", "gated_no_regen", "gated_adversarial"}
  BY DEF Dirs
<1>2. queue[t].no > 0 /\ queue[t].no <= newest[t] /\ newest'[t] > 0
  BY Numbers DEF SetAside, CustodyOf, Numbered
<1>3. CASE queue[t].no = newest[t]
  <2>1. Place(t) = "waiting"
    BY <1>2, <1>3, Numbers DEF Place, SetAside
  <2>2. Place(t)' \in {"settled", "orphaned"}
    BY <1>1, <1>2, <1>3, Numbers DEF Place, SetAside, Settled
  <2>3. QED
    BY <1>1, <1>2, <1>3, <2>1, <2>2, Numbers DEF SetAside, CustodyOf, Numbered
<1>4. CASE queue[t].no < newest[t]
  <2>1. dir = "orphans" /\ queue[t].kind \in OrphanKinds
    BY <1>4 DEF SetAside, CustodyOf
  <2>2. filed["orphans"][t].no # newest[t]
    BY <1>1, <1>2, Numbers DEF SetAside, CustodyOf
  <2>3. Place(t) = "settled" /\ Place(t)' = "settled"
    BY <1>1, <1>2, <1>4, <2>1, <2>2, Numbers DEF Place, SetAside, Settled, CustodyOf
  <2>4. QED
    BY <1>1, <1>2, <1>4, <2>1, <2>3, Numbers DEF SetAside, CustodyOf, Numbered
<1>5. QED
  BY <1>2, <1>3, <1>4, Numbers

\* The same for a report that is retired to applied.
LEMMA RetiredStep ==
    ASSUME TypeOK, NEW t \in Tests, CustodyOf(t), Retired(t), writes' \in Nat, writes' >= writes
    PROVE  /\ CustodyOf(t)'
           /\ Place(t)' = Place(t) \/ (Place(t) = "waiting" /\ Place(t)' \in {"settled", "orphaned"})
<1>1. "orphans" \in Dirs /\ "gated_no_regen" \in Dirs /\ "gated_adversarial" \in Dirs
  BY DEF Dirs
<1>2. Place(t)' = Place(t) \/ (Place(t) = "waiting" /\ Place(t)' \in {"settled", "orphaned"})
  <2>1. CASE newest[t] = 0
    BY <2>1 DEF Place, Retired
  <2>2. CASE newest[t] # 0 /\ queue[t].no = newest[t]
    <3>1. Place(t) = "waiting" /\ queue[t] # NoMarker
      BY <2>2, Numbers DEF Place
    <3>2. Settled(t)'
      BY <2>2, <3>1 DEF Settled, Retired
    <3>3. QED
      BY <2>2, <3>1, <3>2, Numbers DEF Place, Retired
  <2>3. CASE newest[t] # 0 /\ queue[t].no # newest[t]
    <3>1. queue'[t].no # newest'[t]
      BY <2>3, Numbers DEF Retired
    <3>2. Settled(t)' = Settled(t)
      BY <1>1, <2>3 DEF Settled, Retired
    <3>3. QED
      BY <1>1, <2>3, <3>1, <3>2 DEF Place, Retired
  <2>4. QED
    BY <2>1, <2>2, <2>3
<1>3. Place(t)' # "lost"
  BY <1>2 DEF CustodyOf
<1>4. QED
  BY <1>1, <1>2, <1>3, Numbers DEF Retired, CustodyOf, Numbered

\* An orphan that goes back to the queue waits again, if it was the last report.
LEMMA ReturnedStep ==
    ASSUME TypeOK, NEW t \in Tests, CustodyOf(t), Returned(t), writes' \in Nat, writes' >= writes
    PROVE  /\ CustodyOf(t)'
           /\ Place(t)' = Place(t) \/ (Place(t) = "orphaned" /\ Place(t)' = "waiting")
<1>1. Dirs = {"orphans", "gated_no_regen", "gated_adversarial"}
  BY DEF Dirs
<1>2. Place(t)' = Place(t) \/ (Place(t) = "orphaned" /\ Place(t)' = "waiting")
  BY <1>1, Numbers DEF Place, Returned, Settled
<1>3. Place(t)' # "lost"
  BY <1>2 DEF CustodyOf
<1>4. QED
  BY <1>1, <1>2, <1>3, Numbers DEF Returned, CustodyOf, Numbered

\* What a step does to the markers of all tests.
ReportSome == \E reported \in SUBSET Tests :
                  \A t \in Tests : IF t \in reported THEN Reported(t) ELSE Untouched(t)
SettleOne == \E s \in Tests : /\ Retired(s) \/ \E dir \in Dirs : SetAside(s, dir)
                              /\ \A t \in Tests \ {s} : Untouched(t)
ReturnSome == \A t \in Tests : Returned(t) \/ Untouched(t)

\* Moving a marker sets the marker of at most one test aside.
LEMMA MoveEffect ==
    ASSUME TypeOK, NEW n \in Names, NEW dir \in Dirs, Move(n, dir), UNCHANGED newest,
           queue[n] # NoMarker, n \in Tests => (dir = "orphans" <=> queue[n].kind \in OrphanKinds)
    PROVE  SettleOne \/ ReturnSome
<1>1. \A t \in Tests \ {n} : Untouched(t)
  BY DEF TypeOK, Move, Untouched, Names
<1>2. CASE n \in Tests
  <2>1. SetAside(n, dir)
    BY <1>2 DEF TypeOK, Move, SetAside, Names
  <2>2. QED
    BY <1>1, <1>2, <2>1 DEF SettleOne
<1>3. CASE n \notin Tests
  BY <1>1, <1>3 DEF ReturnSome
<1>4. QED
  BY <1>2, <1>3

\* Every step of the system has one of these effects, and keeps the kinds.
LEMMA Effects ==
    ASSUME TypeOK, KindsFit, [Next]_vars
    PROVE  /\ KindsFit' /\ writes' \in Nat /\ writes' >= writes
           /\ ReportSome \/ SettleOne \/ ReturnSome
<1> DEFINE Goal == /\ KindsFit' /\ writes' \in Nat /\ writes' >= writes
                   /\ ReportSome \/ SettleOne \/ ReturnSome
<1>a. /\ queue \in [Names -> Marker \cup {NoMarker}]
      /\ filed \in [Dirs -> [Names -> Marker \cup {NoMarker}]]
      /\ work \in [Drains -> Works] /\ writes \in Nat /\ newest \in [Names -> Nat]
      /\ applied \in [Names -> SUBSET Marker] /\ known \subseteq Tests
  BY DEF TypeOK, Works
<1>b. Tests \subseteq Names /\ Tests \cap Upstream = {} /\ Names = Tests \cup Upstream
  BY NamesAssumption DEF Names
<1>c. \A kind \in Kinds : [kind |-> kind, no |-> writes + 1] # NoMarker
  BY DEF NoMarker, Kinds, TestKinds, UpstreamKinds
<1>d. "script" \in Kinds /\ \A n \in Tests : "script" \in KindsOf(n)
  BY DEF Kinds, TestKinds, KindsOf
<1>e. (\A t \in Tests : Untouched(t)) => ReturnSome
  BY DEF ReturnSome
<1>f. UNCHANGED <<queue, filed, applied, newest>> => ReturnSome
  BY <1>e DEF Untouched
<1>g. UNCHANGED <<queue, filed, work>> => KindsFit'
  BY DEF KindsFit
<1>h. ASSUME NEW names \in SUBSET Names, NEW kind \in Kinds, Write(names, kind), UNCHANGED <<filed, applied>>
      PROVE  ReportSome /\ writes' \in Nat /\ writes' >= writes
  <2>1. \A t \in Tests : IF t \in names \cap Tests THEN Reported(t) ELSE Untouched(t)
    BY <1>a, <1>b, <1>c, <1>h DEF Write, Reported, Untouched
  <2>2. ReportSome
    BY <2>1 DEF ReportSome
  <2>3. QED
    BY <1>a, <1>h, <2>2 DEF Write
<1> USE DEF files, drains, tests, history
<1>1. ASSUME NEW n \in Names, NEW kind \in Kinds, Produce(n, kind) PROVE Goal
  <2>1. KindsFit'
    BY <1>1, <1>a DEF Produce, Write, KindsFit
  <2>2. QED
    BY <1>1, <1>h, <2>1 DEF Produce
<1>2. ASSUME NEW failed \in SUBSET known \ {{}}, CircuitRecovered(failed) PROVE Goal
  <2>1. KindsFit'
    BY <1>2, <1>a, <1>d DEF CircuitRecovered, Write, KindsFit
  <2>2. failed \ Waiting \in SUBSET Names
    BY <1>a, <1>b
  <2>3. QED
    BY <1>2, <1>h, <1>d, <2>1, <2>2 DEF CircuitRecovered
<1>3. ASSUME NEW t \in Tests, Catalogue(t) \/ Prune(t) PROVE Goal
  BY <1>3, <1>a, <1>f, <1>g DEF Catalogue, Prune
<1>4. ASSUME NEW d \in Drains, StartDrain(d) PROVE Goal
  BY <1>4, <1>a, <1>f, <1>g DEF StartDrain
<1>5. ASSUME NEW d \in Drains, NEW n \in Names, Take(d, n) PROVE Goal
  <2>1. CASE Skip(d, n) \/ Leave(d, n) \/ Defer(d, n)
    BY <2>1, <1>a, <1>f, <1>g DEF Skip, Leave, Defer
  <2>2. CASE Gate(d, n) \/ Orphan(d, n)
    <3>1. PICK dir \in Dirs : /\ Move(n, dir)
                              /\ dir = "orphans" <=> Orphan(d, n)
                              /\ dir # "orphans" => queue[n].kind \in {"gated", "adversarial"}
                              /\ dir = "orphans" => queue[n].kind \in {"broken", "gherkin", "script"}
      BY <2>2 DEF Gate, Orphan, Dirs
    <3>2. queue[n] # NoMarker /\ UNCHANGED <<work, newest, writes>>
      BY <2>2 DEF Gate, Orphan, MayTake
    <3>3. n \in Tests => queue[n].kind # "gherkin"
      BY <3>2 DEF KindsFit, KindsOf, TestKinds
    <3>4. n \in Tests => (dir = "orphans" <=> queue[n].kind \in OrphanKinds)
      BY <3>1, <3>3 DEF OrphanKinds
    <3>5. KindsFit'
      BY <1>a, <3>1, <3>2 DEF KindsFit, Move
    <3>6. QED
      BY <1>a, <3>1, <3>2, <3>4, <3>5, MoveEffect
  <2>3. CASE Begin(d, n)
    <3>1. UNCHANGED <<queue, filed, applied, newest, writes>> /\ queue[n] # NoMarker
      BY <2>3 DEF Begin, MayTake
    <3>2. queue[n].kind = "gherkin" <=> n \in Upstream
      BY <1>b, <2>3, <3>1 DEF KindsFit, KindsOf, TestKinds, UpstreamKinds, Begin, Regenerated
    <3>3. KindsFit'
      BY <1>a, <2>3, <3>1, <3>2 DEF KindsFit, Begin
    <3>4. QED
      BY <1>a, <1>f, <3>1, <3>3
  <2>4. QED
    BY <1>5, <2>1, <2>2, <2>3 DEF Take
<1>6. ASSUME NEW d \in Drains, Fail(d) \/ Regenerate(d) \/ Heal(d) \/ StillBlocked(d) PROVE Goal
  <2>1. \A e \in Drains : work'[e] # Idle => work'[e] = work[e]
    BY <1>6, <1>a DEF Fail, Regenerate, Heal, StillBlocked, Finish
  <2>2. CASE Fail(d)
    <3>1. KindsFit'
      BY <2>1, <2>2 DEF KindsFit, Fail
    <3>2. QED
      BY <1>a, <1>f, <2>2, <3>1 DEF Fail
  <2>3. CASE Regenerate(d)
    <3>1. KindsFit'
      BY <1>a, <2>1, <2>3 DEF KindsFit, Regenerate, Retire
    <3>2. work[d].name \in Tests
      BY <1>a, <1>b, <2>3, WorkMade, IdleWork DEF KindsFit, Regenerate, Working
    <3>3. Retired(work[d].name) /\ \A t \in Tests \ {work[d].name} : Untouched(t)
      BY <1>a, <1>b, <2>3, <3>2 DEF Regenerate, Retire, Retired, Untouched
    <3>4. QED
      BY <1>a, <2>3, <3>1, <3>2, <3>3 DEF SettleOne, Regenerate
  <2>4. CASE Heal(d)
    <3>1. work[d].name \in Upstream
      BY <1>a, <2>4, WorkMade, IdleWork DEF KindsFit, Heal, Working
    <3>2. Entries(work[d].name) \in SUBSET Tests
      BY <1>a DEF Entries
    <3>3. \A n \in Names : queue'[n] = IF n = work[d].name THEN NoMarker
                                      ELSE IF n \in Entries(work[d].name)
                                           THEN [kind |-> "script", no |-> writes + 1] ELSE queue[n]
      BY <1>a, <2>4 DEF Heal, Retire
    <3>4. KindsFit'
      <4>1. filed' = filed
        BY <2>4 DEF Heal
      <4>2. QED
        BY <1>a, <1>d, <2>1, <3>2, <3>3, <4>1 DEF KindsFit
    <3>5. \A n \in Tests : applied'[n] = applied[n]
      BY <1>a, <1>b, <2>4, <3>1 DEF Heal, Retire
    <3>6. \A t \in Tests : IF t \in Entries(work[d].name) THEN Reported(t) ELSE Untouched(t)
      BY <1>a, <1>b, <1>c, <1>d, <2>4, <3>1, <3>3, <3>5 DEF Heal, Reported, Untouched
    <3>7. ReportSome
      BY <3>2, <3>6 DEF ReportSome
    <3>8. writes' = writes + 1
      BY <2>4 DEF Heal
    <3>9. QED
      BY <1>a, <3>4, <3>7, <3>8
  <2>5. CASE StillBlocked(d)
    <3>1. work[d].name \in Upstream /\ "gated_no_regen" \in Dirs
      BY <1>a, <2>5, WorkMade, IdleWork DEF KindsFit, StillBlocked, Working, Dirs
    <3>2. /\ \A n \in Names : queue'[n] = queue[n] \/ queue'[n] = NoMarker
          /\ filed'["orphans"] = filed["orphans"] /\ UNCHANGED <<newest, writes>>
      BY <1>a, <2>5, <3>1 DEF StillBlocked, Move, Dirs
    <3>3. KindsFit'
      BY <2>1, <3>2 DEF KindsFit
    <3>4. \A t \in Tests : Untouched(t)
      BY <1>a, <1>b, <2>5, <3>1 DEF StillBlocked, Move, Untouched
    <3>5. QED
      BY <1>a, <1>e, <3>2, <3>3, <3>4
  <2>6. QED
    BY <1>6, <2>2, <2>3, <2>4, <2>5
<1>7. CASE TogglePause
  BY <1>7, <1>a, <1>f, <1>g DEF TogglePause
<1>8. ASSUME NEW limit \in 1..Cardinality(Names), Backfill(limit) PROVE Goal
  <2>1. "orphans" \in Dirs
    BY DEF Dirs
  <2>2. /\ \A n \in Names : \/ UNCHANGED <<queue[n], filed["orphans"][n]>>
                           \/ /\ queue[n] = NoMarker /\ filed["orphans"][n] # NoMarker
                              /\ queue'[n] = filed["orphans"][n]
                              /\ filed'["orphans"][n] = NoMarker
        /\ \A dir \in Dirs \ {"orphans"}, n \in Names : filed'[dir][n] = filed[dir][n]
        /\ UNCHANGED <<applied, newest, writes, work>>
    BY <1>8, <1>a, <2>1 DEF Backfill, FirstOrphans, Orphans
  <2>3. KindsFit'
    BY <2>2 DEF KindsFit
  <2>4. ReturnSome
    BY <1>b, <2>1, <2>2 DEF ReturnSome, Returned, Untouched
  <2>5. QED
    BY <1>a, <2>2, <2>3, <2>4
<1>9. CASE Kill
  <2>1. KindsFit'
    BY <1>a, <1>d, <1>9 DEF KindsFit, Kill, CutShort, Write, Entries
  <2>2. CASE UNCHANGED <<queue, history, script>>
    BY <1>a, <1>f, <1>9, <2>1, <2>2 DEF Kill
  <2>3. ASSUME NEW d \in Drains, CutShort(d) PROVE Goal
    <3>1. CASE UNCHANGED <<queue, history>>
      BY <1>a, <1>f, <1>9, <2>1, <3>1 DEF Kill
    <3>2. CASE \E written \in SUBSET Entries(work[d].name) : Write(written, "script")
      BY <1>a, <1>b, <1>d, <1>h, <1>9, <2>1, <3>2 DEF Kill, Entries
    <3>3. QED
      BY <2>3, <3>1, <3>2 DEF CutShort
  <2>4. QED
    BY <1>9, <2>2, <2>3 DEF Kill
<1>10. CASE UNCHANGED vars
  BY <1>10, <1>a, <1>f, <1>g DEF vars
<1>11. QED
  BY <1>1, <1>2, <1>3, <1>4, <1>5, <1>6, <1>7, <1>8, <1>9, <1>10 DEF Next, Proceed

\* CustodyInv is inductive.
LEMMA CustodyInductive == Spec => []CustodyInv
<1>1. Init => CustodyInv
  <2> SUFFICES ASSUME Init PROVE CustodyInv
    OBVIOUS
  <2>1. NoMarker.no = 0 /\ Tests \subseteq Names /\ "orphans" \in Dirs
    BY DEF NoMarker, Names, Dirs
  <2>2. KindsFit
    BY <2>1 DEF Init, KindsFit
  <2>3. ASSUME NEW t \in Tests PROVE CustodyOf(t)
    BY <2>1 DEF Init, CustodyOf, Numbered, Place
  <2>4. QED
    BY <2>2, <2>3 DEF CustodyInv
<1>2. TypeOK /\ CustodyInv /\ [Next]_vars => CustodyInv'
  <2> SUFFICES ASSUME TypeOK, CustodyInv, [Next]_vars PROVE CustodyInv'
    OBVIOUS
  <2>1. /\ KindsFit' /\ writes' \in Nat /\ writes' >= writes
        /\ ReportSome \/ SettleOne \/ ReturnSome
    BY Effects DEF CustodyInv
  <2>2. \A t \in Tests : \/ Untouched(t) \/ Reported(t) \/ Retired(t) \/ Returned(t)
                         \/ \E dir \in Dirs : SetAside(t, dir)
    BY <2>1 DEF ReportSome, SettleOne, ReturnSome
  <2>3. ASSUME NEW t \in Tests PROVE CustodyOf(t)'
    <3>1. CustodyOf(t)
      BY DEF CustodyInv
    <3>2. QED
      BY <2>1, <2>2, <3>1, UntouchedStep, ReportedStep, RetiredStep, ReturnedStep, SetAsideStep
  <2>4. QED
    BY <2>1, <2>3 DEF CustodyInv
<1>3. QED
  BY <1>1, <1>2, TypeCorrect, PTL DEF Spec

\* The queue implements MarkerCustody: the last report about a test waits, is an
\* orphan or is settled; only an orphan goes back; a new report takes its place.
THEOREM ImplementsCustody == Spec => CustodySpec
<1>1. Init => Custody!Init
  <2>1. Tests \subseteq Names
    BY DEF Names
  <2>2. QED
    BY <2>1 DEF Init, Custody!Init, Place
<1>2. TypeOK /\ CustodyInv /\ [Next]_vars => [Custody!Next]_(Custody!vars)
  <2> SUFFICES ASSUME TypeOK, CustodyInv, [Next]_vars PROVE [Custody!Next]_(Custody!vars)
    OBVIOUS
  <2>1. /\ writes' \in Nat /\ writes' >= writes
        /\ ReportSome \/ SettleOne \/ ReturnSome
    BY Effects DEF CustodyInv
  <2>2. \A t \in Tests : CustodyOf(t)
    BY DEF CustodyInv
  <2>3. ASSUME NEW t \in Tests, Untouched(t) PROVE Place(t)' = Place(t) /\ newest'[t] = newest[t]
    BY <2>1, <2>2, <2>3, UntouchedStep DEF Untouched
  <2>4. CASE ReportSome
    <3>1. PICK reported \in SUBSET Tests :
              \A t \in Tests : IF t \in reported THEN Reported(t) ELSE Untouched(t)
      BY <2>4 DEF ReportSome
    <3>2. \A t \in reported : newest'[t] > newest[t] /\ Place(t)' = "waiting"
      BY <2>2, <3>1, ReportedStep
    <3>3. \A t \in Tests \ reported : newest'[t] = newest[t] /\ Place(t)' = Place(t)
      BY <2>3, <3>1
    <3>4. Custody!Report
      BY <3>2, <3>3 DEF Custody!Report
    <3>5. QED
      BY <3>4 DEF Custody!Next
  <2>5. CASE SettleOne
    <3>1. PICK s \in Tests : /\ Retired(s) \/ \E dir \in Dirs : SetAside(s, dir)
                             /\ \A t \in Tests \ {s} : Untouched(t)
      BY <2>5 DEF SettleOne
    <3>2. /\ Place(s)' = Place(s) \/ (Place(s) = "waiting" /\ Place(s)' \in {"settled", "orphaned"})
          /\ newest'[s] = newest[s]
      BY <2>1, <2>2, <3>1, RetiredStep, SetAsideStep DEF Retired, SetAside
    <3>3. \A t \in Tests \ {s} : newest'[t] = newest[t] /\ Place(t)' = Place(t)
      BY <2>3, <3>1
    <3>4. CASE Place(s)' = Place(s)
      BY <3>2, <3>3, <3>4 DEF Custody!vars
    <3>5. CASE Place(s) = "waiting" /\ Place(s)' \in {"settled", "orphaned"}
      BY <3>2, <3>3, <3>5 DEF Custody!Next, Custody!Settle
    <3>6. QED
      BY <3>2, <3>4, <3>5
  <2>6. CASE ReturnSome
    <3>1. \A t \in Tests : /\ newest'[t] = newest[t]
                           /\ Place(t)' = Place(t) \/ (Place(t) = "orphaned" /\ Place(t)' = "waiting")
      BY <2>1, <2>2, <2>3, <2>6, ReturnedStep DEF ReturnSome, Returned
    <3> DEFINE back == {t \in Tests : Place(t)' # Place(t)}
    <3>2. back \subseteq {t \in Tests : Place(t) = "orphaned"}
      BY <3>1
    <3>3. \A t \in Tests : Place(t)' = IF t \in back THEN "waiting" ELSE Place(t)
      BY <3>1
    <3>4. back \in SUBSET {t \in Tests : [u \in Tests |-> Place(u)][t] = "orphaned"}
      BY <3>2
    <3>5. [t \in Tests |-> Place(t)]'
            = [t \in Tests |-> IF t \in back THEN "waiting" ELSE [u \in Tests |-> Place(u)][t]]
      BY <3>3
    <3>6. [t \in Tests |-> newest[t]]' = [t \in Tests |-> newest[t]]
      BY <3>1
    <3> HIDE DEF back
    <3>7. Custody!SendBack
      BY <3>4, <3>5, <3>6 DEF Custody!SendBack
    <3>8. QED
      BY <3>7 DEF Custody!Next
  <2>7. QED
    BY <2>1, <2>4, <2>5, <2>6
<1>3. QED
  BY <1>1, <1>2, TypeCorrect, CustodyInductive, PTL DEF Spec, CustodySpec, Custody!Spec

-----------------------------------------------------------------------------
(* What is left of HealedScriptsRebuilt, which the code violates.           *)

\* The script of a test is built from the Gherkin of its entry, or its marker waits.
Covered(t) == t \in known /\ script[t] < gherkin[t] => t \in Waiting

\* A test whose healed Gherkin waits for its script (regen_consumer.py:660) stops
\* waiting without it in two ways only: a producer has overwritten the marker with
\* one that asks for something else, or a drain retires it with a script that it began from older
\* Gherkin (regen_consumer.py:850-858).  No other step, no backfill, prune, crash
\* or restart, loses a rebuild.
RebuildKept ==
    [][\A t \in Tests : Covered(t) /\ ~Covered(t)' =>
          \/ queue[t].kind \in TestKinds \ {"script"}
          \/ \E d \in Drains :
                Regenerate(d) /\ work[d].name = t /\ work[d].gherkin < gherkin[t]]_vars

\* Newer Gherkin has a higher number, so the inventory's file holds no newer one
\* than the entries do.
TextInv == \A t \in Tests : saved[t] <= gherkin[t] /\ gherkin[t] <= writes + 1

\* No step saves Gherkin that is not in an entry or numbers new Gherkin below old.
LEMMA TextStep == TypeOK /\ TextInv /\ [Next]_vars => TextInv'
<1> SUFFICES ASSUME TypeOK, TextInv, [Next]_vars PROVE TextInv'
  OBVIOUS
<1>a. gherkin \in [Tests -> Nat] /\ saved \in [Tests -> Nat] /\ writes \in Nat
  BY DEF TypeOK
<1>b. ASSUME saved' = saved \/ saved' = gherkin, gherkin' = gherkin \/ gherkin' = saved,
             gherkin' = saved => saved' = saved, writes' = writes \/ writes' = writes + 1
      PROVE  TextInv'
  BY <1>a, <1>b DEF TextInv
<1> USE DEF files, drains, tests, history
<1>1. ASSUME NEW n \in Names, NEW kind \in Kinds, Produce(n, kind) PROVE TextInv'
  BY <1>1, <1>b DEF Produce, Write
<1>2. ASSUME NEW failed \in SUBSET known \ {{}}, CircuitRecovered(failed) PROVE TextInv'
  BY <1>2, <1>b DEF CircuitRecovered, Write
<1>3. ASSUME NEW t \in Tests, Catalogue(t) \/ Prune(t) PROVE TextInv'
  BY <1>3, <1>a DEF Catalogue, Prune, TextInv
<1>4. ASSUME NEW d \in Drains, StartDrain(d) PROVE TextInv'
  BY <1>4, <1>b DEF StartDrain
<1>5. ASSUME NEW d \in Drains, NEW n \in Names, Take(d, n) PROVE TextInv'
  BY <1>5, <1>b DEF Take, Skip, Gate, Orphan, Leave, Defer, Begin
<1>6. ASSUME NEW d \in Drains, Fail(d) \/ StillBlocked(d) PROVE TextInv'
  BY <1>6, <1>b DEF Fail, StillBlocked
<1>7. ASSUME NEW d \in Drains, Regenerate(d) PROVE TextInv'
  BY <1>7, <1>a DEF Regenerate, TextInv
<1>8. ASSUME NEW d \in Drains, Heal(d) PROVE TextInv'
  BY <1>8, <1>a DEF Heal, TextInv
<1>9. CASE TogglePause
  BY <1>9, <1>b DEF TogglePause
<1>10. ASSUME NEW limit \in 1..Cardinality(Names), Backfill(limit) PROVE TextInv'
  BY <1>10, <1>b DEF Backfill
<1>11. CASE Kill
  <2>1. gherkin' = saved /\ saved' = saved /\ (writes' = writes \/ writes' = writes + 1)
    BY <1>11 DEF Kill, CutShort, Write
  <2>2. QED
    BY <1>b, <2>1
<1>12. CASE UNCHANGED vars
  BY <1>12, <1>b DEF vars
<1>13. QED
  BY <1>1, <1>2, <1>3, <1>4, <1>5, <1>6, <1>7, <1>8, <1>9, <1>10, <1>11, <1>12 DEF Next, Proceed

\* TextInv is inductive.
LEMMA TextInductive == Spec => []TextInv
<1>1. Init => TextInv
  BY DEF Init, TextInv
<1>2. QED
  BY <1>1, TextStep, TypeCorrect, PTL DEF Spec

\* A step after which a covered test is known only if it was, with a script that is
\* no older, Gherkin that is no newer and its marker still there, keeps it covered.
LEMMA CoverKept ==
    ASSUME TypeOK, TypeOK', NEW t \in Tests, Covered(t), t \in known' => t \in known,
           script'[t] >= script[t] /\ gherkin'[t] <= gherkin[t],
           queue[t] # NoMarker => queue'[t] # NoMarker
    PROVE  Covered(t)'
<1>1. /\ script[t] \in Nat /\ gherkin[t] \in Nat /\ script'[t] \in Nat /\ gherkin'[t] \in Nat
      /\ t \in Names
  BY DEF TypeOK, Names
<1>2. QED
  BY <1>1 DEF Covered, Waiting

\* RebuildKept, for every test, number of drains and number of kills: neither the
\* lock (OneDrainPerMarker) nor the restart can be blamed for a script that stays old.
THEOREM RebuildKeptHolds == Spec => RebuildKept
<1> DEFINE Excused(t) == \/ queue[t].kind \in TestKinds \ {"script"}
                         \/ \E d \in Drains :
                               Regenerate(d) /\ work[d].name = t /\ work[d].gherkin < gherkin[t]
<1>1. TypeOK /\ TypeOK' /\ CustodyInv /\ OneDrainPerMarker /\ TextInv /\ [Next]_vars
        => [\A t \in Tests : Covered(t) /\ ~Covered(t)' => Excused(t)]_vars
  <2> SUFFICES ASSUME TypeOK, TypeOK', CustodyInv, OneDrainPerMarker, TextInv, [Next]_vars,
                      NEW t \in Tests, Covered(t)
               PROVE  Covered(t)' \/ Excused(t)
    OBVIOUS
  <2>a. /\ queue \in [Names -> Marker \cup {NoMarker}]
        /\ work \in [Drains -> Works] /\ writes \in Nat /\ known \subseteq Tests
        /\ gherkin \in [Tests -> Nat] /\ saved \in [Tests -> Nat] /\ script \in [Tests -> Nat]
    BY DEF TypeOK, Works
  <2>b. t \in Names /\ t \notin Upstream
    BY NamesAssumption DEF Names
  <2>c. [kind |-> "script", no |-> writes + 1] # NoMarker
    BY DEF NoMarker
  <2>d. \A kind \in Kinds : [kind |-> kind, no |-> writes + 1] # NoMarker
    BY DEF NoMarker, Kinds, TestKinds, UpstreamKinds
  <2>e. KindsFit
    BY DEF CustodyInv
  <2>f. ASSUME UNCHANGED tests, queue[t] # NoMarker => queue'[t] # NoMarker PROVE Covered(t)'
    BY <2>f, <2>a, CoverKept DEF tests
  <2> USE DEF files, drains, history
  <2>1. ASSUME NEW n \in Names, NEW kind \in Kinds, Produce(n, kind) PROVE Covered(t)'
    BY <2>1, <2>b, <2>d, <2>f DEF Produce, Write
  <2>2. ASSUME NEW failed \in SUBSET known \ {{}}, CircuitRecovered(failed) PROVE Covered(t)'
    BY <2>2, <2>b, <2>c, <2>f DEF CircuitRecovered, Write
  <2>3. ASSUME NEW s \in Tests, Catalogue(s) PROVE Covered(t)'
    <3>1. CASE s = t
      BY <2>3, <3>1, <2>a DEF Catalogue, Covered
    <3>2. CASE s # t
      BY <2>3, <3>2, <2>a DEF Catalogue, Covered, Waiting
    <3>3. QED
      BY <3>1, <3>2
  <2>4. ASSUME NEW s \in Tests, Prune(s) PROVE Covered(t)'
    BY <2>4 DEF Prune, Covered, Waiting
  <2>5. ASSUME NEW d \in Drains, StartDrain(d) PROVE Covered(t)'
    BY <2>5, <2>f DEF StartDrain
  <2>6. ASSUME NEW d \in Drains, NEW n \in Names, Take(d, n) PROVE Covered(t)' \/ Excused(t)
    <3>1. CASE Skip(d, n) \/ Leave(d, n) \/ Defer(d, n) \/ Begin(d, n)
      BY <2>f, <3>1 DEF Skip, Leave, Defer, Begin
    <3>2. CASE Gate(d, n) \/ Orphan(d, n)
      <4>1. UNCHANGED tests /\ queue' = [queue EXCEPT ![n] = NoMarker]
        BY <3>2 DEF Gate, Orphan, Move
      <4>2. CASE n # t
        BY <2>f, <4>1, <4>2
      <4>3. CASE n = t /\ queue[n].kind # "script"
        <5>1. queue[n] # NoMarker
          BY <3>2 DEF Gate, Orphan, MayTake
        <5>2. QED
          BY <4>3, <5>1, <2>e DEF KindsFit, KindsOf
      <4>4. CASE n \notin known /\ n = t
        BY <4>1, <4>4 DEF Covered, tests
      <4>5. QED
        BY <3>2, <4>2, <4>3, <4>4 DEF Gate, Orphan
    <3>3. QED
      BY <2>6, <3>1, <3>2 DEF Take
  <2>7. ASSUME NEW d \in Drains, Fail(d) PROVE Covered(t)'
    BY <2>7, <2>f DEF Fail
  <2>8. ASSUME NEW d \in Drains, Regenerate(d) PROVE Covered(t)' \/ Excused(t)
    <3>1. /\ script' = [script EXCEPT ![work[d].name] = work[d].gherkin]
          /\ UNCHANGED <<known, gherkin>>
          /\ queue' = [queue EXCEPT ![work[d].name] = NoMarker]
          /\ work[d].gherkin \in Nat
      BY <2>8, <2>a, WorkMade, IdleWork DEF Regenerate, Retire, Finish, Working
    <3>2. CASE work[d].name # t
      BY <3>1, <3>2 DEF Covered, Waiting
    <3>3. CASE work[d].name = t /\ work[d].gherkin < gherkin[t]
      BY <2>8, <3>3
    <3>4. CASE work[d].name = t /\ work[d].gherkin >= gherkin[t]
      <4>1. script'[t] = work[d].gherkin /\ gherkin'[t] = gherkin[t]
        BY <3>1, <3>4, <2>a
      <4>2. QED
        BY <3>1, <3>4, <4>1, <2>a DEF Covered
    <3>5. QED
      BY <3>1, <3>2, <3>3, <3>4, <2>a
  <2>9. ASSUME NEW d \in Drains, Heal(d) PROVE Covered(t)'
    <3>1. work[d].name \in Upstream
      BY <2>a, <2>e, <2>9, WorkMade, IdleWork DEF KindsFit, Heal, Working
    <3>2. CASE t \in Entries(work[d].name)
      <4>1. queue'[t] # NoMarker
        BY <2>9, <2>a, <2>b, <2>c, <3>1, <3>2 DEF Heal, Retire
      <4>2. QED
        BY <4>1, <2>b DEF Covered, Waiting
    <3>3. CASE t \notin Entries(work[d].name)
      <4>1. gherkin'[t] = gherkin[t] /\ queue'[t] = queue[t] /\ UNCHANGED <<known, script>>
        BY <2>9, <2>a, <2>b, <3>1, <3>3 DEF Heal, Retire
      <4>2. QED
        BY <4>1, <2>b DEF Covered, Waiting
    <3>4. QED
      BY <3>2, <3>3
  <2>10. ASSUME NEW d \in Drains, StillBlocked(d) PROVE Covered(t)'
    <3>1. work[d].name \in Upstream
      BY <2>a, <2>e, <2>10, WorkMade, IdleWork DEF KindsFit, StillBlocked, Working
    <3>2. QED
      BY <2>10, <2>a, <2>b, <2>f, <3>1 DEF StillBlocked, Move
  <2>11. CASE TogglePause
    BY <2>11, <2>f DEF TogglePause
  <2>12. ASSUME NEW limit \in 1..Cardinality(Names), Backfill(limit) PROVE Covered(t)'
    BY <2>12, <2>b, <2>f DEF Backfill
  <2>13. CASE Kill
    <3>1. gherkin' = saved /\ UNCHANGED known /\ gherkin'[t] <= gherkin[t]
      BY <2>13, <2>a DEF Kill, TextInv
    <3>2. CASE UNCHANGED <<queue, history, script>>
      BY <3>1, <3>2, <2>a, CoverKept
    <3>3. ASSUME NEW d \in Drains, CutShort(d) PROVE Covered(t)'
      <4>1. CASE /\ Working(d, "script") /\ UNCHANGED queue
                 /\ script' = [script EXCEPT ![work[d].name] = work[d].gherkin]
        <5>1. work[d] # Idle
          BY <4>1, IdleWork DEF Working
        <5>2. CASE work[d].name = t
          BY <4>1, <5>1, <5>2, <2>b DEF OneDrainPerMarker, Covered, Waiting
        <5>3. CASE work[d].name # t
          BY <3>1, <4>1, <5>3, <2>a, CoverKept
        <5>4. QED
          BY <5>2, <5>3
      <4>2. CASE /\ \E written \in SUBSET Entries(work[d].name) : Write(written, "script")
                 /\ UNCHANGED script
        <5>1. queue[t] # NoMarker => queue'[t] # NoMarker
          BY <4>2, <2>b, <2>c DEF Write
        <5>2. QED
          BY <3>1, <4>2, <5>1, <2>a, CoverKept
      <4>3. QED
        BY <3>3, <4>1, <4>2 DEF CutShort
    <3>4. QED
      BY <2>13, <3>2, <3>3 DEF Kill
  <2>14. CASE UNCHANGED vars
    BY <2>14, <2>f DEF vars, tests
  <2> HIDE DEF Excused
  <2>15. QED
    BY <2>1, <2>2, <2>3, <2>4, <2>5, <2>6, <2>7, <2>8, <2>9, <2>10, <2>11, <2>12, <2>13, <2>14
       DEF Next, Proceed
<1>2. QED
  BY <1>1, TypeCorrect, CustodyInductive, OneDrainPerMarkerCorrect, TextInductive, PTL
     DEF Spec, RebuildKept

=============================================================================
