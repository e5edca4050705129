------------------------ MODULE CircuitBreaker_proofs ------------------------
(***************************************************************************)
(* Proofs about CircuitBreaker, for any set of providers and calls, any    *)
(* semaphore size and any threshold, window and cooldown.                  *)
(***************************************************************************)
EXTENDS CircuitBreaker, FiniteSetTheorems, SequenceTheorems, TLAPS

(***************************************************************************)
(* The window of failures.                                                 *)
(***************************************************************************)

\* Pruning returns a suffix: a newest failure inside the window survives it
\* (_prune_old_failures, lines 71-74).
LEMMA PruneKeepsNewest ==
    ASSUME NEW ages \in Seq(0..AgeCap), Len(ages) > 0, ages[Len(ages)] = 0
    PROVE  /\ Prune(ages) \in Seq(0..AgeCap)
           /\ Len(Prune(ages)) \in 1..Len(ages)
           /\ Prune(ages)[Len(Prune(ages))] = 0
<1> DEFINE n == Len(ages)
           expired == {i \in DOMAIN ages : ages[i] > WindowSecs}
           k == Cardinality(expired)
<1>1. /\ n \in Nat \ {0}
      /\ DOMAIN ages = 1..n
      /\ \A i \in 1..n : ages[i] \in 0..AgeCap
  <2>1. Len(ages) \in Nat /\ DOMAIN ages = 1..Len(ages)
    BY LenProperties
  <2>2. \A i \in 1..Len(ages) : ages[i] \in 0..AgeCap
    BY ElementOfSeq
  <2>3. QED
    BY <2>1, <2>2
<1>2. expired \in SUBSET (1..(n-1))
  BY <1>1, TimingAssumption
<1>3. IsFiniteSet(1..(n-1)) /\ Cardinality(1..(n-1)) = n - 1
  <2>1. 1 \in Int /\ n - 1 \in Int /\ (1 > n - 1 => n - 1 = 0) /\ (n - 1) - 1 + 1 = n - 1
    BY <1>1
  <2> HIDE DEF n
  <2>2. /\ IsFiniteSet(1..(n-1))
        /\ Cardinality(1..(n-1)) = IF 1 > n - 1 THEN 0 ELSE (n - 1) - 1 + 1
    BY <2>1, FS_Interval
  <2>3. QED
    BY <2>1, <2>2
<1>4. IsFiniteSet(expired) /\ k <= n - 1
  <2> HIDE DEF expired, n
  <2>1. IsFiniteSet(expired) /\ Cardinality(expired) <= Cardinality(1..(n-1))
    BY <1>2, <1>3, FS_Subset
  <2>2. QED
    BY <1>3, <2>1
<1>5. k \in Nat
  <2> HIDE DEF expired
  <2>1. QED
    BY <1>4, FS_CardinalityType
<1>6. Prune(ages) = SubSeq(ages, k + 1, n)
  BY DEF Prune
<1> HIDE DEF k, n
<1>7. /\ k + 1 \in Int /\ n \in Int
      /\ \A i \in (k+1)..n : ages[i] \in 0..AgeCap
  BY <1>1, <1>4, <1>5
<1>8. /\ Prune(ages) \in Seq(0..AgeCap)
      /\ Len(Prune(ages)) = n - k
      /\ \A i \in 1..(n - k) : Prune(ages)[i] = ages[k + i]
  BY <1>1, <1>4, <1>5, <1>6, <1>7, SubSeqProperties, Z3
<1>9. n - k \in 1..n /\ k + (n - k) = n
  BY <1>1, <1>4, <1>5
<1>10. Prune(ages)[n - k] = ages[n]
  BY <1>8, <1>9
<1>11. ages[n] = 0
  BY DEF n
<1>12. QED
  BY <1>8, <1>9, <1>10, <1>11 DEF n

\* Recording a failure leaves a non-empty window whose newest entry is that
\* failure (lines 122-124).
LEMMA WithFailureProperties ==
    ASSUME NEW ages \in Seq(0..AgeCap)
    PROVE  /\ WithFailure(ages) \in Seq(0..AgeCap)
           /\ Len(WithFailure(ages)) \in Nat \ {0}
           /\ WithFailure(ages)[Len(WithFailure(ages))] = 0
<1> DEFINE longer == Append(ages, 0)
           kept == Prune(longer)
<1>1. /\ longer \in Seq(0..AgeCap)
      /\ Len(longer) = Len(ages) + 1
      /\ longer[Len(ages) + 1] = 0
  BY AppendProperties, TimingAssumption
<1>2. Len(longer) > 0 /\ longer[Len(longer)] = 0 /\ Len(longer) \in Nat
  BY <1>1, LenProperties
<1> HIDE DEF longer
<1>3. /\ kept \in Seq(0..AgeCap)
      /\ Len(kept) \in 1..Len(longer)
      /\ kept[Len(kept)] = 0
  BY <1>1, <1>2, PruneKeepsNewest
<1> HIDE DEF kept
<1>4. WithFailure(ages) = IF Len(kept) > FailThreshold THEN Tail(kept) ELSE kept
  BY DEF WithFailure, kept, longer
<1>5. CASE ~(Len(kept) > FailThreshold)
  BY <1>2, <1>3, <1>4, <1>5
<1>6. CASE Len(kept) > FailThreshold
  <2>1. kept # <<>> /\ Len(kept) - 1 \in Nat \ {0}
    BY <1>2, <1>3, <1>6, TimingAssumption, EmptySeq
  <2>2. /\ Tail(kept) \in Seq(0..AgeCap)
        /\ Len(Tail(kept)) = Len(kept) - 1
        /\ \A i \in 1..Len(Tail(kept)) : Tail(kept)[i] = kept[i + 1]
    BY <1>3, <2>1, HeadTailProperties
  <2>3. Tail(kept)[Len(kept) - 1] = kept[Len(kept)]
    BY <2>1, <2>2, <1>2, <1>3
  <2>4. QED
    BY <1>3, <1>4, <1>6, <2>1, <2>2, <2>3
<1>7. QED
  BY <1>5, <1>6

-----------------------------------------------------------------------------
(***************************************************************************)
(* Type correctness.                                                       *)
(***************************************************************************)

\* Every reachable state of the breakers, the calls and the semaphore has its
\* type; in particular the semaphore's counter never goes below zero.
THEOREM TypeCorrect == Spec => []TypeOK
<1> USE CapAssumption, ProviderAssumption, TimingAssumption
<1>1. Init => TypeOK
  BY DEF Init, TypeOK, BreakerStates, Resting, Pending
<1>2. TypeOK /\ [Next]_vars => TypeOK'
  <2> SUFFICES ASSUME TypeOK, [Next]_vars
               PROVE  TypeOK'
    OBVIOUS
  <2> USE DEF TypeOK, BreakerStates, Resting, Pending
  <2>1. CASE Tick
    <3>1. ASSUME NEW p \in Providers
          PROVE  [i \in DOMAIN failureAges[p] |-> Older(failureAges[p][i])] \in Seq(0..AgeCap)
      <4>1. failureAges[p] \in Seq(0..AgeCap)
        OBVIOUS
      <4>2. /\ Len(failureAges[p]) \in Nat
            /\ DOMAIN failureAges[p] = 1..Len(failureAges[p])
        BY <4>1, LenProperties
      <4>3. \A i \in 1..Len(failureAges[p]) : Older(failureAges[p][i]) \in 0..AgeCap
        BY <4>1, <4>2, ElementOfSeq DEF Older
      <4>4. QED
        BY <4>2, <4>3
    <3>2. \A p \in Providers : Older(openedAge[p]) \in 0..AgeCap
      BY DEF Older
    <3>3. QED
      BY <2>1, <3>1, <3>2 DEF Tick, callVars, semVars
  <2>2. ASSUME NEW c \in Calls, Reject(c)
        PROVE  TypeOK'
    BY <2>2 DEF Reject, breakerVars, semVars
  <2>3. ASSUME NEW c \in Calls, Admit(c)
        PROVE  TypeOK'
    <3> DEFINE p == ProviderOf[c]
    <3>1. p \in Providers
      OBVIOUS
    <3>2. StateOnEntry(p) \in {"CLOSED", "HALF_OPEN"}
      BY <2>3, <3>1 DEF Admit, StateOnEntry
    <3> HIDE DEF p
    <3>3. /\ state' \in [Providers -> BreakerStates]
          /\ admittedIn' \in [Calls -> {"CLOSED", "HALF_OPEN"}]
          /\ UNCHANGED <<failureAges, openedAge>>
      BY <2>3, <3>1, <3>2 DEF Admit, p
    <3>4. /\ pc' \in [Calls -> Resting \cup Pending]
          /\ permits' \in Nat
          /\ waiters' \in Seq(Calls)
      <4>1. \/ /\ permits > 0 /\ permits' = permits - 1
               /\ pc' = [pc EXCEPT ![c] = "inflight"]
               /\ UNCHANGED waiters
            \/ /\ waiters' = Append(waiters, c)
               /\ pc' = [pc EXCEPT ![c] = "waiting"]
               /\ UNCHANGED permits
        BY <2>3 DEF Admit
      <4>2. Append(waiters, c) \in Seq(Calls)
        BY AppendProperties
      <4>3. permits' \in Nat
        BY <4>1
      <4>4. pc' \in [Calls -> Resting \cup Pending]
        BY <4>1
      <4>5. QED
        BY <4>1, <4>2, <4>3, <4>4
    <3>5. QED
      BY <3>3, <3>4
  <2>4. ASSUME NEW c \in Calls, Acquire(c)
        PROVE  TypeOK'
    BY <2>4 DEF Acquire, breakerVars
  <2>5. ASSUME NEW c \in Calls, Succeed(c)
        PROVE  TypeOK'
    <3>1. ProviderOf[c] \in Providers /\ <<>> \in Seq(0..AgeCap)
      OBVIOUS
    <3>2. state' \in [Providers -> BreakerStates] /\ failureAges' \in [Providers -> Seq(0..AgeCap)]
      BY <2>5, <3>1 DEF Succeed
    <3>3. QED
      BY <2>5, <3>2 DEF Succeed, Release
  <2>6. ASSUME NEW c \in Calls, Fail(c)
        PROVE  TypeOK'
    <3>1. WithFailure(failureAges[ProviderOf[c]]) \in Seq(0..AgeCap)
      BY WithFailureProperties
    <3> DEFINE p == ProviderOf[c]
               recent == WithFailure(failureAges[p])
    <3>2. /\ Release(c) /\ UNCHANGED admittedIn
          /\ failureAges' = [failureAges EXCEPT ![p] = recent]
          /\ \/ /\ state' = [state EXCEPT ![p] = "OPEN"]
                /\ openedAge' = [openedAge EXCEPT ![p] = 0]
             \/ UNCHANGED <<state, openedAge>>
      BY <2>6 DEF Fail
    <3> HIDE DEF recent
    <3>3. state' \in [Providers -> BreakerStates]
      BY <3>2
    <3>4. 0 \in 0..AgeCap
      OBVIOUS
    <3>5. openedAge' \in [Providers -> 0..AgeCap]
      BY <3>2, <3>4
    <3>6. failureAges' \in [Providers -> Seq(0..AgeCap)]
      BY <3>1, <3>2 DEF recent
    <3>7. QED
      BY <3>2, <3>3, <3>5, <3>6 DEF Release
  <2>7. ASSUME NEW c \in Calls, CancelInFlight(c)
        PROVE  TypeOK'
    BY <2>7 DEF CancelInFlight, Release, breakerVars
  <2>8. ASSUME NEW c \in Calls, CancelWaiting(c)
        PROVE  TypeOK'
    <3>1. PICK i \in DOMAIN waiters :
            waiters' = SubSeq(waiters, 1, i - 1) \o SubSeq(waiters, i + 1, Len(waiters))
      BY <2>8 DEF CancelWaiting
    <3>2. SubSeq(waiters, 1, i - 1) \in Seq(Calls) /\ SubSeq(waiters, i + 1, Len(waiters)) \in Seq(Calls)
      OBVIOUS
    <3>3. waiters' \in Seq(Calls)
      BY <3>1, <3>2, ConcatProperties
    <3>4. QED
      BY <2>8, <3>3 DEF CancelWaiting, breakerVars
  <2>9. CASE UNCHANGED vars
    BY <2>9 DEF vars
  <2>10. QED
    BY <2>1, <2>2, <2>3, <2>4, <2>5, <2>6, <2>7, <2>8, <2>9 DEF Next
<1>3. QED
  BY <1>1, <1>2, PTL DEF Spec

-----------------------------------------------------------------------------
(***************************************************************************)
(* The semaphore's queue.                                                  *)
(***************************************************************************)

Queued(w, c) == \E i \in DOMAIN w : w[i] = c
NoDuplicates(w) == \A i, j \in DOMAIN w : w[i] = w[j] => i = j

\* Joining the queue adds exactly the newcomer.
LEMMA JoinQueue ==
    ASSUME NEW S, NEW w \in Seq(S), NEW x \in S, NoDuplicates(w), ~Queued(w, x)
    PROVE  /\ NoDuplicates(Append(w, x))
           /\ \A c : Queued(Append(w, x), c) <=> Queued(w, c) \/ c = x
<1>1. /\ Len(w) \in Nat
      /\ DOMAIN w = 1..Len(w)
      /\ DOMAIN Append(w, x) = 1..(Len(w) + 1)
      /\ \A i \in 1..Len(w) : Append(w, x)[i] = w[i]
      /\ Append(w, x)[Len(w) + 1] = x
  BY AppendProperties, LenProperties
<1> DEFINE a == Append(w, x)
<1> HIDE DEF a
<1>2. \A i \in DOMAIN a : i \in DOMAIN w \/ i = Len(w) + 1
  BY <1>1 DEF a
<1>3. NoDuplicates(a)
  BY <1>1, <1>2 DEF a, NoDuplicates, Queued
<1>4. \A c : Queued(a, c) <=> Queued(w, c) \/ c = x
  BY <1>1, <1>2 DEF a, Queued
<1>5. QED
  BY <1>3, <1>4 DEF a

\* Waking the head of the queue removes exactly it.
LEMMA WakeHead ==
    ASSUME NEW S, NEW w \in Seq(S), w # <<>>, NoDuplicates(w)
    PROVE  /\ NoDuplicates(Tail(w))
           /\ \A c : Queued(Tail(w), c) <=> Queued(w, c) /\ c # Head(w)
<1> DEFINE t == Tail(w)
<1>1. /\ Len(w) \in Nat \ {0}
      /\ DOMAIN w = 1..Len(w)
      /\ Head(w) = w[1]
      /\ DOMAIN t = 1..(Len(w) - 1)
      /\ \A i \in 1..(Len(w) - 1) : t[i] = w[i + 1]
  BY EmptySeq, HeadTailProperties, LenProperties
<1> HIDE DEF t
<1>2. \A i \in DOMAIN t : i + 1 \in DOMAIN w /\ i + 1 # 1
  BY <1>1
<1>3. \A i \in DOMAIN w : i # 1 => i - 1 \in DOMAIN t /\ t[i - 1] = w[i]
  BY <1>1
<1>4. NoDuplicates(t)
  BY <1>1, <1>2 DEF NoDuplicates
<1>5. ASSUME NEW c
      PROVE  Queued(t, c) <=> Queued(w, c) /\ c # Head(w)
  <2>1. ASSUME Queued(t, c)
        PROVE  Queued(w, c) /\ c # Head(w)
    BY <2>1, <1>1, <1>2 DEF Queued, NoDuplicates
  <2>2. ASSUME Queued(w, c), c # Head(w)
        PROVE  Queued(t, c)
    BY <2>2, <1>1, <1>3 DEF Queued
  <2>3. QED
    BY <2>1, <2>2
<1>6. QED
  BY <1>4, <1>5 DEF t

\* A contiguous piece of a sequence.
LEMMA Slice ==
    ASSUME NEW S, NEW w \in Seq(S), NEW a \in 1..(Len(w) + 1), NEW b \in (a - 1)..Len(w)
    PROVE  /\ SubSeq(w, a, b) \in Seq(S)
           /\ Len(SubSeq(w, a, b)) = b - a + 1
           /\ \A i \in 1..(b - a + 1) : SubSeq(w, a, b)[i] = w[a + i - 1]
<1>1. a \in Int /\ b \in Int /\ \A i \in a..b : w[i] \in S
  BY LenProperties, ElementOfSeq
<1>2. /\ SubSeq(w, a, b) \in Seq(S)
      /\ Len(SubSeq(w, a, b)) = IF a <= b THEN b - a + 1 ELSE 0
      /\ \A i \in 1..(b - a + 1) : SubSeq(w, a, b)[i] = w[a + i - 1]
  BY <1>1, SubSeqProperties, Z3
<1>3. QED
  BY <1>2, LenProperties

\* What is left of a queue without its k-th element.
LEMMA LeftQueue ==
    ASSUME NEW S, NEW w \in Seq(S), NEW k \in DOMAIN w,
           NEW r, r = SubSeq(w, 1, k - 1) \o SubSeq(w, k + 1, Len(w))
    PROVE  /\ DOMAIN r = 1..(Len(w) - 1)
           /\ \A i \in 1..(Len(w) - 1) : i < k => r[i] = w[i]
           /\ \A i \in 1..(Len(w) - 1) : i >= k => r[i] = w[i + 1]
<1> DEFINE n == Len(w)
           before == SubSeq(w, 1, k - 1)
           after == SubSeq(w, k + 1, n)
<1>1. n \in Nat /\ DOMAIN w = 1..n /\ k \in 1..n
  BY LenProperties
<1>2. /\ before \in Seq(S) /\ Len(before) = k - 1
      /\ \A i \in 1..(k - 1) : before[i] = w[i]
  BY <1>1, Slice
<1>3. /\ after \in Seq(S) /\ Len(after) = n - k
      /\ \A i \in 1..(n - k) : after[i] = w[k + i]
  <2>1. k + 1 \in 1..(n + 1) /\ n \in (k + 1 - 1)..n
    BY <1>1
  <2>2. /\ after \in Seq(S) /\ Len(after) = n - (k + 1) + 1
        /\ \A i \in 1..(n - (k + 1) + 1) : after[i] = w[k + 1 + i - 1]
    BY <2>1, Slice
  <2> HIDE DEF after, n
  <2>3. n - (k + 1) + 1 = n - k /\ \A i \in 1..(n - k) : k + 1 + i - 1 = k + i
    BY <1>1
  <2>4. QED
    BY <2>2, <2>3
<1> HIDE DEF before, after
<1>4. /\ r \in Seq(S) /\ Len(r) = n - 1
      /\ \A i \in 1..(n - 1) : r[i] = IF i <= k - 1 THEN before[i] ELSE after[i - (k - 1)]
  <2>1. r = before \o after
    BY DEF before, after, n
  <2> HIDE DEF n
  <2>2. /\ r \in Seq(S)
        /\ Len(r) = Len(before) + Len(after)
        /\ \A i \in 1..(Len(before) + Len(after)) :
              r[i] = IF i <= Len(before) THEN before[i] ELSE after[i - Len(before)]
    <3>1. before \in Seq(S) /\ after \in Seq(S)
      BY <1>2, <1>3
    <3>2. /\ before \o after \in Seq(S)
          /\ Len(before \o after) = Len(before) + Len(after)
          /\ \A i \in 1..(Len(before) + Len(after)) :
                (before \o after)[i] = IF i <= Len(before) THEN before[i] ELSE after[i - Len(before)]
      BY <3>1, ConcatProperties, Zenon
    <3>3. QED
      BY <2>1, <3>2, Zenon
  <2>3. Len(before) + Len(after) = n - 1
    BY <1>1, <1>2, <1>3
  <2>4. QED
    BY <1>2, <2>2, <2>3
<1> HIDE DEF n
<1>5. DOMAIN r = 1..(n - 1)
  BY <1>1, <1>4
<1>6. /\ \A i \in 1..(n - 1) : i < k => r[i] = w[i]
      /\ \A i \in 1..(n - 1) : i >= k => r[i] = w[i + 1]
  <2>1. ASSUME NEW i \in 1..(n - 1), i < k
        PROVE  r[i] = w[i]
    <3>1. i <= k - 1 /\ i \in 1..(k - 1)
      BY <2>1, <1>1
    <3>2. QED
      BY <3>1, <2>1, <1>2, <1>4
  <2>2. ASSUME NEW i \in 1..(n - 1), i >= k
        PROVE  r[i] = w[i + 1]
    <3>1. ~(i <= k - 1) /\ i - (k - 1) \in 1..(n - k) /\ k + (i - (k - 1)) = i + 1
      BY <2>2, <1>1
    <3>2. QED
      BY <3>1, <2>2, <1>3, <1>4
  <2>3. QED
    BY <2>1, <2>2
<1>7. QED
  BY <1>5, <1>6 DEF n

\* A cancelled waiter leaves from the middle of the queue, and only it leaves.
LEMMA LeaveQueue ==
    ASSUME NEW S, NEW w \in Seq(S), NEW k \in DOMAIN w, NoDuplicates(w),
           NEW r, r = SubSeq(w, 1, k - 1) \o SubSeq(w, k + 1, Len(w))
    PROVE  /\ NoDuplicates(r)
           /\ \A c : Queued(r, c) <=> Queued(w, c) /\ c # w[k]
<1> DEFINE n == Len(w)
<1>1. n \in Nat /\ DOMAIN w = 1..n /\ k \in 1..n
  BY LenProperties
<1>5. DOMAIN r = 1..(n - 1)
  BY LeftQueue
<1>6. /\ \A i \in 1..(n - 1) : i < k => r[i] = w[i]
      /\ \A i \in 1..(n - 1) : i >= k => r[i] = w[i + 1]
  BY LeftQueue
<1> HIDE DEF n
\* The position in w of the i-th element of r.
<1> DEFINE from(i) == IF i < k THEN i ELSE i + 1
<1>7. \A i \in DOMAIN r : from(i) \in DOMAIN w /\ from(i) # k /\ r[i] = w[from(i)]
  <2> SUFFICES ASSUME NEW i \in DOMAIN r
               PROVE  from(i) \in DOMAIN w /\ from(i) # k /\ r[i] = w[from(i)]
    OBVIOUS
  <2>1. i \in 1..(n - 1) /\ n \in Nat /\ k \in 1..n
    BY <1>1, <1>5
  <2>2. CASE i < k
    <3>1. from(i) = i /\ i \in 1..n /\ i # k
      BY <2>1, <2>2
    <3> HIDE DEF from
    <3>2. QED
      BY <3>1, <2>1, <2>2, <1>1, <1>6
  <2>3. CASE i >= k
    <3>1. from(i) = i + 1 /\ i + 1 \in 1..n /\ i + 1 # k
      BY <2>1, <2>3
    <3> HIDE DEF from
    <3>2. QED
      BY <3>1, <2>1, <2>3, <1>1, <1>6
  <2>4. i < k \/ i >= k
    BY <2>1
  <2>5. QED
    BY <2>2, <2>3, <2>4, Zenon
<1>8. NoDuplicates(r)
  <2> SUFFICES ASSUME NEW i \in DOMAIN r, NEW j \in DOMAIN r, r[i] = r[j]
               PROVE  i = j
    BY DEF NoDuplicates
  <2>1. w[from(i)] = w[from(j)] /\ from(i) \in DOMAIN w /\ from(j) \in DOMAIN w
    BY <1>7
  <2> HIDE DEF from
  <2>2. from(i) = from(j)
    BY <2>1 DEF NoDuplicates
  <2>3. QED
    BY <2>2, <1>1, <1>5 DEF from
<1>9. ASSUME NEW c
      PROVE  Queued(r, c) <=> Queued(w, c) /\ c # w[k]
  <2>1. ASSUME NEW i \in DOMAIN r, r[i] = c
        PROVE  Queued(w, c) /\ c # w[k]
    <3>1. from(i) \in DOMAIN w /\ from(i) # k /\ c = w[from(i)]
      BY <2>1, <1>7
    <3> HIDE DEF from
    <3>2. QED
      BY <3>1 DEF Queued, NoDuplicates
  <2>2. ASSUME NEW i \in DOMAIN w, w[i] = c, c # w[k]
        PROVE  Queued(r, c)
    <3>1. CASE i < k
      <4>1. i \in DOMAIN r /\ r[i] = c
        BY <2>2, <3>1, <1>1, <1>5, <1>6
      <4>2. QED
        BY <4>1 DEF Queued
    <3>2. CASE i > k
      <4>1. i - 1 \in 1..(n - 1) /\ i - 1 >= k /\ (i - 1) + 1 = i
        BY <3>2, <1>1
      <4>2. i - 1 \in DOMAIN r /\ r[i - 1] = c
        BY <2>2, <4>1, <1>5, <1>6
      <4>3. QED
        BY <4>2 DEF Queued
    <3>3. QED
      BY <2>2, <3>1, <3>2, <1>1
  <2>3. QED
    BY <2>1, <2>2 DEF Queued
<1>10. QED
  BY <1>8, <1>9

\* The queue of the semaphore holds exactly the waiting calls, each once.
THEOREM QueueCorrect == Spec => []QueueMatchesWaiters
<1> DEFINE Matches == /\ \A c \in Calls : pc[c] = "waiting" <=> Queued(waiters, c)
                      /\ NoDuplicates(waiters)
<1>1. Matches <=> QueueMatchesWaiters
  BY DEF QueueMatchesWaiters, Queued, NoDuplicates
<1>2. Init => Matches
  BY EmptySeq DEF Init, Queued, NoDuplicates
<1>3. TypeOK /\ Matches /\ [Next]_vars => Matches'
  <2> SUFFICES ASSUME TypeOK, Matches, [Next]_vars
               PROVE  Matches'
    OBVIOUS
  <2>1. pc \in [Calls -> Resting \cup Pending] /\ waiters \in Seq(Calls)
    BY DEF TypeOK
  <2>2. CASE Tick \/ UNCHANGED vars
    BY <2>2 DEF Tick, vars, callVars, semVars
  <2>3. ASSUME NEW c \in Calls,
               UNCHANGED waiters, pc[c] # "waiting",
               \E new \in {"idle", "rejected", "inflight"} : pc' = [pc EXCEPT ![c] = new]
        PROVE  Matches'
    BY <2>3, <2>1
  <2>4. ASSUME NEW c \in Calls,
               Reject(c) \/ Succeed(c) \/ Fail(c) \/ CancelInFlight(c)
        PROVE  Matches'
    <3>1. CASE Reject(c)
      <4>1. /\ UNCHANGED waiters /\ pc[c] # "waiting"
            /\ pc' = [pc EXCEPT ![c] = "rejected"]
        BY <3>1 DEF Reject, semVars, Resting
      <4>2. QED
        BY <4>1, <2>3
    <3>2. CASE Succeed(c) \/ Fail(c) \/ CancelInFlight(c)
      <4>1. /\ UNCHANGED waiters /\ pc[c] # "waiting"
            /\ pc' = [pc EXCEPT ![c] = "idle"]
        BY <3>2 DEF Succeed, Fail, CancelInFlight, Release
      <4>2. QED
        BY <4>1, <2>3
    <3>3. QED
      BY <2>4, <3>1, <3>2
  <2>5. ASSUME NEW c \in Calls, Admit(c)
        PROVE  Matches'
    <3>1. pc[c] # "waiting"
      BY <2>5 DEF Admit, Resting
    <3>2. \/ UNCHANGED waiters /\ pc' = [pc EXCEPT ![c] = "inflight"]
          \/ waiters' = Append(waiters, c) /\ pc' = [pc EXCEPT ![c] = "waiting"]
      BY <2>5 DEF Admit
    <3>3. CASE UNCHANGED waiters /\ pc' = [pc EXCEPT ![c] = "inflight"]
      BY <3>1, <3>3, <2>3
    <3>4. CASE waiters' = Append(waiters, c) /\ pc' = [pc EXCEPT ![c] = "waiting"]
      <4>1. ~Queued(waiters, c) /\ NoDuplicates(waiters)
        BY <3>1
      <4>2. /\ NoDuplicates(waiters')
            /\ \A d : Queued(waiters', d) <=> Queued(waiters, d) \/ d = c
        BY <2>1, <3>4, <4>1, JoinQueue
      <4>3. QED
        BY <2>1, <3>4, <4>2
    <3>5. QED
      BY <3>2, <3>3, <3>4
  <2>6. ASSUME NEW c \in Calls, Acquire(c)
        PROVE  Matches'
    <3>1. /\ waiters # <<>> /\ c = Head(waiters) /\ waiters' = Tail(waiters)
          /\ pc' = [pc EXCEPT ![c] = "inflight"]
      BY <2>6 DEF Acquire
    <3>2. /\ NoDuplicates(waiters')
          /\ \A d : Queued(waiters', d) <=> Queued(waiters, d) /\ d # c
      BY <2>1, <3>1, WakeHead
    <3>3. QED
      BY <2>1, <3>1, <3>2
  <2>7. ASSUME NEW c \in Calls, CancelWaiting(c)
        PROVE  Matches'
    <3>1. PICK i \in DOMAIN waiters :
            /\ waiters[i] = c
            /\ waiters' = SubSeq(waiters, 1, i - 1) \o SubSeq(waiters, i + 1, Len(waiters))
      BY <2>7 DEF CancelWaiting
    <3>2. /\ NoDuplicates(waiters')
          /\ \A d : Queued(waiters', d) <=> Queued(waiters, d) /\ d # waiters[i]
      <4> DEFINE rest == SubSeq(waiters, 1, i - 1) \o SubSeq(waiters, i + 1, Len(waiters))
      <4>1. NoDuplicates(waiters)
        OBVIOUS
      <4>2. /\ NoDuplicates(rest)
            /\ \A d : Queued(rest, d) <=> Queued(waiters, d) /\ d # waiters[i]
        BY <2>1, <4>1, LeaveQueue
      <4> HIDE DEF rest
      <4>3. waiters' = rest
        BY <3>1 DEF rest
      <4>4. QED
        BY <4>2, <4>3
    <3>3. pc' = [pc EXCEPT ![c] = "idle"]
      BY <2>7 DEF CancelWaiting
    <3>4. QED
      BY <2>1, <3>1, <3>2, <3>3
  <2>8. QED
    BY <2>2, <2>4, <2>5, <2>6, <2>7 DEF Next
<1>4. QED
  <2>1. Spec => []TypeOK
    BY TypeCorrect
  <2>2. QED
    BY <1>1, <1>2, <1>3, <2>1, PTL DEF Spec

-----------------------------------------------------------------------------
(***************************************************************************)
(* The permits.                                                            *)
(***************************************************************************)

\* Free permits and calls in flight always add up to Cap.  The queue's
\* correctness is what makes it inductive: without it the head of the queue
\* might already be in flight and would take a second permit.
THEOREM PermitsCorrect == Spec => []PermitsConserved
<1> USE CapAssumption, CallsAssumption
<1>1. Init => PermitsConserved
  <2> SUFFICES ASSUME Init
               PROVE  PermitsConserved
    OBVIOUS
  <2>1. InFlight = {}
    BY DEF Init, InFlight
  <2>2. QED
    BY <2>1, FS_EmptySet DEF Init, PermitsConserved
<1>2. TypeOK /\ QueueMatchesWaiters /\ PermitsConserved /\ [Next]_vars => PermitsConserved'
  <2> SUFFICES ASSUME TypeOK, QueueMatchesWaiters, PermitsConserved, [Next]_vars
               PROVE  PermitsConserved'
    OBVIOUS
  <2>1. /\ pc \in [Calls -> Resting \cup Pending]
        /\ permits \in Nat
        /\ waiters \in Seq(Calls)
        /\ permits + Cardinality(InFlight) = Cap
    BY DEF TypeOK, PermitsConserved
  <2>2. IsFiniteSet(InFlight) /\ Cardinality(InFlight) \in Nat
    <3>1. InFlight \in SUBSET Calls
      BY DEF InFlight
    <3>2. IsFiniteSet(InFlight)
      BY <3>1, FS_Subset
    <3>3. QED
      BY <3>2, FS_CardinalityType
  \* A step that moves no call into or out of flight and keeps the permits.
  <2>3. ASSUME InFlight' = InFlight, permits' = permits
        PROVE  PermitsConserved'
    BY <2>1, <2>3 DEF PermitsConserved
  \* A call that was not in flight takes a permit.
  <2>4. ASSUME NEW c \in Calls, pc[c] # "inflight", permits > 0,
               permits' = permits - 1, pc' = [pc EXCEPT ![c] = "inflight"]
        PROVE  PermitsConserved'
    <3>1. InFlight' = InFlight \cup {c} /\ c \notin InFlight
      BY <2>1, <2>4 DEF InFlight
    <3>2. Cardinality(InFlight \cup {c}) = Cardinality(InFlight) + 1
      BY <2>2, <3>1, FS_AddElement
    <3>3. QED
      BY <2>1, <2>2, <2>4, <3>1, <3>2 DEF PermitsConserved
  \* A call in flight gives its permit back.
  <2>5. ASSUME NEW c \in Calls, Release(c)
        PROVE  PermitsConserved'
    <3>1. /\ pc[c] = "inflight" /\ permits' = permits + 1
          /\ pc' = [pc EXCEPT ![c] = "idle"]
      BY <2>5 DEF Release
    <3>2. InFlight' = InFlight \ {c} /\ c \in InFlight
      BY <2>1, <3>1 DEF InFlight
    <3>3. Cardinality(InFlight \ {c}) = Cardinality(InFlight) - 1
      BY <2>2, <3>2, FS_RemoveElement
    <3>4. QED
      BY <2>1, <2>2, <3>1, <3>2, <3>3 DEF PermitsConserved
  \* A call comes or goes without ever having been in flight.
  <2>6. ASSUME NEW c \in Calls, pc[c] # "inflight", permits' = permits,
               \E new \in {"idle", "rejected", "waiting"} : pc' = [pc EXCEPT ![c] = new]
        PROVE  PermitsConserved'
    <3>1. InFlight' = InFlight
      BY <2>1, <2>6 DEF InFlight
    <3>2. QED
      BY <3>1, <2>3, <2>6
  <2>7. CASE Tick \/ UNCHANGED vars
    <3>1. pc' = pc /\ permits' = permits
      BY <2>7 DEF Tick, vars, callVars, semVars
    <3>2. InFlight' = InFlight
      BY <3>1 DEF InFlight
    <3>3. QED
      BY <3>1, <3>2, <2>3
  <2>8. ASSUME NEW c \in Calls, Reject(c) \/ CancelWaiting(c)
        PROVE  PermitsConserved'
    <3>1. /\ pc[c] # "inflight" /\ permits' = permits
          /\ \/ pc' = [pc EXCEPT ![c] = "rejected"]
             \/ pc' = [pc EXCEPT ![c] = "idle"]
      BY <2>8 DEF Reject, CancelWaiting, Resting, semVars
    <3>2. QED
      BY <3>1, <2>6
  <2>9. ASSUME NEW c \in Calls, Admit(c)
        PROVE  PermitsConserved'
    <3>1. /\ pc[c] # "inflight"
          /\ \/ permits > 0 /\ permits' = permits - 1 /\ pc' = [pc EXCEPT ![c] = "inflight"]
             \/ permits' = permits /\ pc' = [pc EXCEPT ![c] = "waiting"]
      BY <2>9 DEF Admit, Resting
    <3>2. QED
      BY <3>1, <2>4, <2>6
  <2>10. ASSUME NEW c \in Calls, Acquire(c)
        PROVE  PermitsConserved'
    <3>1. /\ waiters # <<>> /\ c = Head(waiters) /\ permits > 0
          /\ permits' = permits - 1 /\ pc' = [pc EXCEPT ![c] = "inflight"]
      BY <2>10 DEF Acquire
    <3>2. 1 \in DOMAIN waiters /\ waiters[1] = c
      BY <2>1, <3>1
    <3>3. pc[c] = "waiting"
      BY <3>2 DEF QueueMatchesWaiters
    <3>4. QED
      BY <3>1, <3>3, <2>4
  <2>11. ASSUME NEW c \in Calls, Succeed(c) \/ Fail(c) \/ CancelInFlight(c)
        PROVE  PermitsConserved'
    BY <2>5, <2>11 DEF Succeed, Fail, CancelInFlight
  <2>12. QED
    BY <2>7, <2>8, <2>9, <2>10, <2>11 DEF Next
<1>3. QED
  BY <1>1, <1>2, TypeCorrect, QueueCorrect, PTL DEF Spec

-----------------------------------------------------------------------------
(***************************************************************************)
(* The breaker's state machine.                                            *)
(***************************************************************************)

\* What ties one breaker's state to its window and its cooldown.
BreakerOK(p) ==
    /\ state[p] = "CLOSED" => Len(failureAges[p]) < FailThreshold
    /\ state[p] = "OPEN" /\ Len(failureAges[p]) >= FailThreshold =>
          openedAge[p] = failureAges[p][Len(failureAges[p])]
    /\ state[p] = "HALF_OPEN" => openedAge[p] >= CooldownSecs

BreakersOK == \A p \in Providers : BreakerOK(p)

\* The invariant that relates state, window and cooldown of every breaker holds
\* in every reachable state.
THEOREM BreakersCorrect == Spec => []BreakersOK
<1> USE ProviderAssumption, TimingAssumption
<1>1. Init => BreakersOK
  <2> SUFFICES ASSUME Init, NEW p \in Providers
               PROVE  BreakerOK(p)
    BY DEF BreakersOK
  <2>1. Len(<<>>) = 0
    OBVIOUS
  <2>2. QED
    BY <2>1 DEF Init, BreakerOK
<1>2. TypeOK /\ BreakersOK /\ [Next]_vars => BreakersOK'
  <2> SUFFICES ASSUME TypeOK, BreakersOK, [Next]_vars, NEW p \in Providers
               PROVE  BreakerOK(p)'
    BY DEF BreakersOK
  <2>1. /\ BreakerOK(p)
        /\ failureAges \in [Providers -> Seq(0..AgeCap)]
        /\ failureAges[p] \in Seq(0..AgeCap)
        /\ openedAge \in [Providers -> 0..AgeCap]
        /\ state \in [Providers -> BreakerStates]
    BY DEF TypeOK, BreakersOK
  <2>2. ASSUME state'[p] = state[p], failureAges'[p] = failureAges[p], openedAge'[p] = openedAge[p]
        PROVE  BreakerOK(p)'
    BY <2>1, <2>2 DEF BreakerOK
  <2>3. CASE Tick
    <3> DEFINE ages == failureAges[p]
               n == Len(failureAges[p])
               older == [i \in DOMAIN failureAges[p] |-> Older(failureAges[p][i])]
    <3>1. /\ state'[p] = state[p]
          /\ failureAges'[p] = older
          /\ openedAge'[p] = Older(openedAge[p])
      BY <2>3 DEF Tick
    <3>2. /\ n \in Nat /\ DOMAIN ages = 1..n
      BY <2>1, LenProperties
    <3>3. /\ Len(older) = n
          /\ \A i \in 1..n : older[i] = Older(ages[i])
      BY <3>2
    <3>4. Older(openedAge[p]) >= openedAge[p]
      BY <2>1 DEF Older
    <3> HIDE DEF older
    <3>5. CASE state[p] = "OPEN" /\ n >= FailThreshold
      <4>1. n \in 1..n /\ openedAge[p] = ages[n]
        BY <3>2, <3>5, <2>1 DEF BreakerOK
      <4>2. openedAge'[p] = older[n]
        BY <3>1, <3>3, <4>1
      <4>3. QED
        BY <3>1, <3>3, <3>5, <4>2 DEF BreakerOK
    <3>6. CASE ~(state[p] = "OPEN" /\ n >= FailThreshold)
      <4>1. Older(openedAge[p]) \in Nat /\ openedAge[p] \in Nat
        BY <2>1 DEF Older
      <4>2. state[p] = "HALF_OPEN" => Older(openedAge[p]) >= CooldownSecs
        BY <2>1, <3>4, <4>1 DEF BreakerOK
      <4>3. QED
        BY <2>1, <3>1, <3>3, <3>6, <4>2 DEF BreakerOK
    <3>7. QED
      BY <3>5, <3>6
  <2>4. ASSUME NEW c \in Calls, Admit(c)
        PROVE  BreakerOK(p)'
    <3>1. /\ UNCHANGED <<failureAges, openedAge>>
          /\ state'[p] = IF p = ProviderOf[c] THEN StateOnEntry(p) ELSE state[p]
      BY <2>1, <2>4 DEF Admit
    <3>2. CASE state'[p] = state[p]
      BY <2>2, <3>1, <3>2
    <3>3. CASE state'[p] # state[p]
      <4>1. state'[p] = "HALF_OPEN" /\ openedAge[p] >= CooldownSecs
        BY <3>1, <3>3 DEF StateOnEntry
      <4>2. QED
        BY <3>1, <4>1 DEF BreakerOK
    <3>4. QED
      BY <3>2, <3>3
  <2>5. ASSUME NEW c \in Calls, Succeed(c)
        PROVE  BreakerOK(p)'
    <3>1. CASE p = ProviderOf[c] /\ state[p] = "HALF_OPEN"
      <4>1. state'[p] = "CLOSED" /\ failureAges'[p] = <<>>
        BY <2>1, <2>5, <3>1 DEF Succeed
      <4>2. Len(<<>>) = 0
        OBVIOUS
      <4>3. QED
        BY <4>1, <4>2 DEF BreakerOK
    <3>2. CASE ~(p = ProviderOf[c] /\ state[p] = "HALF_OPEN")
      <4>1. state'[p] = state[p] /\ failureAges'[p] = failureAges[p] /\ openedAge'[p] = openedAge[p]
        BY <2>1, <2>5, <3>2 DEF Succeed
      <4>2. QED
        BY <2>2, <4>1
    <3>3. QED
      BY <3>1, <3>2
  <2>6. ASSUME NEW c \in Calls, Fail(c)
        PROVE  BreakerOK(p)'
    <3> DEFINE q == ProviderOf[c]
               recent == WithFailure(failureAges[q])
               opens == state[q] = "HALF_OPEN" \/ Len(recent) >= FailThreshold
    <3>1. q \in Providers /\ failureAges[q] \in Seq(0..AgeCap)
      BY <2>1
    <3>2. recent \in Seq(0..AgeCap) /\ Len(recent) \in Nat \ {0} /\ recent[Len(recent)] = 0
      BY <3>1, WithFailureProperties
    <3>3. /\ failureAges' = [failureAges EXCEPT ![q] = recent]
          /\ opens => /\ state' = [state EXCEPT ![q] = "OPEN"]
                      /\ openedAge' = [openedAge EXCEPT ![q] = 0]
          /\ ~opens => UNCHANGED <<state, openedAge>>
      BY <2>6 DEF Fail
    <3> HIDE DEF recent
    <3>4. CASE p # q
      <4>1. state'[p] = state[p] /\ failureAges'[p] = failureAges[p] /\ openedAge'[p] = openedAge[p]
        BY <2>1, <3>1, <3>3, <3>4
      <4>2. QED
        BY <2>2, <4>1
    <3>5. CASE p = q /\ opens
      <4>1. state'[p] = "OPEN" /\ openedAge'[p] = 0 /\ failureAges'[p] = recent
        BY <2>1, <3>1, <3>3, <3>5
      <4>2. QED
        BY <3>2, <4>1 DEF BreakerOK
    <3>6. CASE p = q /\ ~opens
      <4>1. /\ state'[p] = state[p] /\ openedAge'[p] = openedAge[p] /\ failureAges'[p] = recent
            /\ Len(recent) < FailThreshold /\ state[p] # "HALF_OPEN"
        BY <2>1, <3>1, <3>2, <3>3, <3>6
      <4>2. QED
        BY <3>2, <4>1 DEF BreakerOK
    <3>7. QED
      BY <3>4, <3>5, <3>6
  <2>7. CASE (\E c \in Calls : Reject(c) \/ Acquire(c) \/ CancelInFlight(c) \/ CancelWaiting(c))
             \/ UNCHANGED vars
    <3>1. UNCHANGED breakerVars
      BY <2>7 DEF Reject, Acquire, CancelInFlight, CancelWaiting, vars, breakerVars
    <3>2. QED
      BY <2>2, <3>1 DEF breakerVars
  <2>8. QED
    BY <2>3, <2>4, <2>5, <2>6, <2>7 DEF Next
<1>3. QED
  BY <1>1, <1>2, TypeCorrect, PTL DEF Spec

\* While a breaker admits its calls, the failures that still count are fewer than
\* the threshold: a failure that lets the window reach it opens the breaker at once.
THEOREM ClosedBelowThresholdHolds == Spec => []ClosedBelowThreshold
<1>1. BreakersOK => ClosedBelowThreshold
  BY DEF BreakersOK, BreakerOK, ClosedBelowThreshold
<1>2. QED
  BY <1>1, BreakersCorrect, PTL

\* An open breaker counts its cooldown from the newest failure of a burst, late
\* failures of calls admitted earlier included.
THEOREM CooldownTracksBurstHolds == Spec => []CooldownTracksBurst
<1>1. BreakersOK => CooldownTracksBurst
  BY DEF BreakersOK, BreakerOK, CooldownTracksBurst
<1>2. QED
  BY <1>1, BreakersCorrect, PTL

\* A half-open breaker has waited out its cooldown, whatever results of earlier
\* calls came in since it opened.
THEOREM HalfOpenCooledDownHolds == Spec => []HalfOpenCooledDown
<1>1. BreakersOK => HalfOpenCooledDown
  BY DEF BreakersOK, BreakerOK, HalfOpenCooledDown
<1>2. QED
  BY <1>1, BreakersCorrect, PTL

-----------------------------------------------------------------------------
(***************************************************************************)
(* Refinement.                                                             *)
(***************************************************************************)

\* The breakers implement BreakerProtocol: admission maps to a probe or a
\* stutter, a failure to an opening or a stutter, a success to a closing or a
\* stutter, time to time, and the semaphore's steps are invisible.
THEOREM ImplementsProtocol == Spec => ProtocolSpec
<1> USE ProviderAssumption
<1>1. Init => Protocol!Init
  BY DEF Init, Protocol!Init
<1>2. TypeOK /\ [Next]_vars => [Protocol!Next]_(Protocol!vars)
  <2> SUFFICES ASSUME TypeOK, [Next]_vars
               PROVE  [Protocol!Next]_(Protocol!vars)
    OBVIOUS
  <2>1. /\ openedAge \in [Providers -> 0..AgeCap]
        /\ state \in [Providers -> BreakerStates]
    BY DEF TypeOK
  <2>2. CASE Tick
    <3>1. Protocol!Pass
      BY <2>2 DEF Tick, Protocol!Pass, Older
    <3>2. QED
      BY <3>1 DEF Protocol!Next
  <2>3. ASSUME NEW c \in Calls, Admit(c)
        PROVE  [Protocol!Next]_(Protocol!vars)
    <3> DEFINE p == ProviderOf[c]
    <3>1. /\ p \in Providers
          /\ state' = [state EXCEPT ![p] = StateOnEntry(p)]
          /\ UNCHANGED openedAge
      BY <2>3 DEF Admit
    <3> HIDE DEF p
    <3>2. CASE state[p] = "OPEN" /\ openedAge[p] >= CooldownSecs
      <4>1. Protocol!Probe(p)
        BY <3>1, <3>2 DEF Protocol!Probe, StateOnEntry
      <4>2. QED
        BY <3>1, <4>1 DEF Protocol!Next
    <3>3. CASE ~(state[p] = "OPEN" /\ openedAge[p] >= CooldownSecs)
      <4>1. UNCHANGED <<state, openedAge>>
        BY <2>1, <3>1, <3>3 DEF StateOnEntry
      <4>2. QED
        BY <4>1 DEF Protocol!vars
    <3>4. QED
      BY <3>2, <3>3
  <2>4. ASSUME NEW c \in Calls, Succeed(c)
        PROVE  [Protocol!Next]_(Protocol!vars)
    <3> DEFINE p == ProviderOf[c]
    <3>1. CASE state[p] = "HALF_OPEN"
      <4>1. p \in Providers /\ Protocol!Close(p)
        BY <2>4, <3>1 DEF Succeed, Protocol!Close
      <4>2. QED
        BY <4>1 DEF Protocol!Next
    <3>2. CASE state[p] # "HALF_OPEN"
      BY <2>4, <3>2 DEF Succeed, Protocol!vars
    <3>3. QED
      BY <3>1, <3>2
  <2>5. ASSUME NEW c \in Calls, Fail(c)
        PROVE  [Protocol!Next]_(Protocol!vars)
    <3> DEFINE p == ProviderOf[c]
    <3>1. \/ /\ state' = [state EXCEPT ![p] = "OPEN"]
             /\ openedAge' = [openedAge EXCEPT ![p] = 0]
          \/ UNCHANGED <<state, openedAge>>
      BY <2>5 DEF Fail
    <3>2. p \in Providers
      OBVIOUS
    <3> HIDE DEF p
    <3>3. QED
      BY <3>1, <3>2 DEF Protocol!Open, Protocol!Next, Protocol!vars
  <2>6. CASE (\E c \in Calls : Reject(c) \/ Acquire(c) \/ CancelInFlight(c) \/ CancelWaiting(c))
             \/ UNCHANGED vars
    BY <2>6 DEF Reject, Acquire, CancelInFlight, CancelWaiting, vars, breakerVars, Protocol!vars
  <2>7. QED
    BY <2>2, <2>3, <2>4, <2>5, <2>6 DEF Next
<1>3. QED
  BY <1>1, <1>2, TypeCorrect, PTL DEF Spec, ProtocolSpec, Protocol!Spec

\* Only a call of the same provider that comes back moves a breaker to CLOSED or
\* OPEN.
THEOREM Independence == Spec => BreakersIndependent
<1> USE ProviderAssumption
<1> DEFINE Independent ==
      \A p \in Providers :
         (state'[p] # state[p] /\ state'[p] \in {"CLOSED", "OPEN"}) =>
            \E c \in Calls : ProviderOf[c] = p /\ pc[c] = "inflight" /\ pc'[c] = "idle"
<1>1. TypeOK /\ [Next]_vars => [Independent]_vars
  <2> SUFFICES ASSUME TypeOK, Next, NEW p \in Providers,
                      state'[p] # state[p], state'[p] \in {"CLOSED", "OPEN"}
               PROVE  \E c \in Calls : ProviderOf[c] = p /\ pc[c] = "inflight" /\ pc'[c] = "idle"
    OBVIOUS
  <2>1. /\ state \in [Providers -> BreakerStates]
        /\ pc \in [Calls -> Resting \cup Pending]
    BY DEF TypeOK
  <2>2. ASSUME NEW c \in Calls, Succeed(c) \/ Fail(c)
        PROVE  ProviderOf[c] = p /\ pc[c] = "inflight" /\ pc'[c] = "idle"
    <3>1. pc[c] = "inflight" /\ pc' = [pc EXCEPT ![c] = "idle"]
      BY <2>2 DEF Succeed, Fail, Release
    <3>2. \/ UNCHANGED state
          \/ \E s \in BreakerStates : state' = [state EXCEPT ![ProviderOf[c]] = s]
      BY <2>2 DEF Succeed, Fail, BreakerStates
    <3>3. QED
      BY <2>1, <3>1, <3>2
  <2>3. ASSUME NEW c \in Calls, Admit(c)
        PROVE  FALSE
    <3>1. state' = [state EXCEPT ![ProviderOf[c]] = StateOnEntry(ProviderOf[c])]
      BY <2>3 DEF Admit
    <3>2. ProviderOf[c] = p /\ StateOnEntry(p) # state[p]
      BY <2>1, <3>1
    <3>3. state'[p] = "HALF_OPEN"
      BY <2>1, <3>1, <3>2 DEF StateOnEntry
    <3>4. QED
      BY <3>3
  <2>4. ASSUME Tick \/ \E c \in Calls : Reject(c) \/ Acquire(c) \/ CancelInFlight(c) \/ CancelWaiting(c)
        PROVE  FALSE
    BY <2>4 DEF Tick, Reject, Acquire, CancelInFlight, CancelWaiting, breakerVars
  <2>5. QED
    BY <2>2, <2>3, <2>4 DEF Next
<1>2. QED
  BY <1>1, TypeCorrect, PTL DEF Spec, BreakersIndependent

-----------------------------------------------------------------------------
(***************************************************************************)
(* What the liveness properties rest on: the steps nothing may make.       *)
(***************************************************************************)

\* Whoever waits for a permit does not wait behind a newcomer: until a queued call
\* gets its permit or is cancelled it keeps its place or moves towards the head,
\* and permits are only given to the head (lines 101-104; the semaphore serves all
\* providers in one line).  AdmittedCallsEnd rests on it.
NobodyOvertakes ==
    [][\A i \in DOMAIN waiters :
          \/ pc'[waiters[i]] = "idle"
          \/ pc'[waiters[i]] = "inflight" /\ i = 1
          \/ /\ pc'[waiters[i]] = "waiting"
             /\ \E k \in 1..i : k \in DOMAIN waiters' /\ waiters'[k] = waiters[i]]_vars

PendingOf(p) == {c \in Calls : ProviderOf[c] = p /\ pc[c] \in Pending}

\* While a breaker stays OPEN its pending calls only become fewer, and its cooldown
\* starts again only when one of them has come back: late failures cannot put the
\* probe off for ever (lines 95-99, 130-132).  OpenIsEventuallyProbed rests on it.
OpenRunsOut ==
    [][\A p \in Providers : state[p] = "OPEN" /\ state'[p] = "OPEN" =>
          /\ PendingOf(p)' \subseteq PendingOf(p)
          /\ openedAge'[p] < openedAge[p] => PendingOf(p)' # PendingOf(p)]_vars

\* The docstring promises one trial call (line 9) and the code bounds trials only by
\* the semaphore they share with everything else (lines 35-54, 104): at most Cap.
TrialsWithinCap ==
    \A p \in Providers :
        Cardinality({c \in InFlight : ProviderOf[c] = p /\ admittedIn[c] = "HALF_OPEN"}) <= Cap

\* What a step leaves of a queue: everybody, all but the head, or all but one
\* place; those behind it move up.
LEMMA PlacesKept ==
    ASSUME NEW S, NEW w \in Seq(S), NEW i \in DOMAIN w
    PROVE  /\ \A x \in S : i \in DOMAIN Append(w, x) /\ Append(w, x)[i] = w[i]
           /\ i # 1 => i - 1 \in 1..i /\ i - 1 \in DOMAIN Tail(w) /\ Tail(w)[i - 1] = w[i]
<1>1. Len(w) \in Nat /\ DOMAIN w = 1..Len(w) /\ i \in 1..Len(w)
  BY LenProperties
<1>2. ASSUME NEW x \in S
      PROVE  i \in DOMAIN Append(w, x) /\ Append(w, x)[i] = w[i]
  <2>1. /\ DOMAIN Append(w, x) = 1..(Len(w) + 1)
        /\ \A k \in 1..Len(w) : Append(w, x)[k] = w[k]
    BY <1>1, AppendProperties
  <2>2. QED
    BY <2>1, <1>1
<1>3. ASSUME i # 1
      PROVE  i - 1 \in 1..i /\ i - 1 \in DOMAIN Tail(w) /\ Tail(w)[i - 1] = w[i]
  <2>1. w # <<>>
    BY <1>1, EmptySeq
  <2>2. /\ DOMAIN Tail(w) = 1..(Len(w) - 1)
        /\ \A k \in 1..(Len(w) - 1) : Tail(w)[k] = w[k + 1]
    BY <1>1, <2>1, HeadTailProperties, LenProperties
  <2>3. i - 1 \in 1..(Len(w) - 1) /\ (i - 1) + 1 = i /\ i - 1 \in 1..i
    BY <1>1, <1>3
  <2>4. QED
    BY <2>2, <2>3
<1>4. QED
  BY <1>2, <1>3

Without(w, k) == SubSeq(w, 1, k - 1) \o SubSeq(w, k + 1, Len(w))

\* A cancelled waiter leaves: those before it keep their place, those behind it
\* move up by one.
LEMMA PlacesAfterLeaving ==
    ASSUME NEW S, NEW w \in Seq(S), NEW k \in DOMAIN w, NEW i \in DOMAIN w, i # k
    PROVE  \E j \in 1..i : j \in DOMAIN Without(w, k) /\ Without(w, k)[j] = w[i]
<1> DEFINE n == Len(w)
           r == Without(w, k)
<1>1. n \in Nat /\ DOMAIN w = 1..n /\ k \in 1..n /\ i \in 1..n
  BY LenProperties
<1>2. /\ DOMAIN r = 1..(n - 1)
      /\ \A j \in 1..(n - 1) : j < k => r[j] = w[j]
      /\ \A j \in 1..(n - 1) : j >= k => r[j] = w[j + 1]
  BY LeftQueue DEF Without
<1> HIDE DEF r
<1>3. CASE i < k
  <2>1. i \in 1..(n - 1) /\ i \in 1..i
    BY <1>1, <1>3
  <2>2. i \in DOMAIN r /\ r[i] = w[i]
    BY <2>1, <1>2, <1>3
  <2>3. QED
    BY <2>1, <2>2 DEF r
<1>4. CASE i > k
  <2>1. i - 1 \in 1..(n - 1) /\ i - 1 \in 1..i /\ i - 1 >= k /\ (i - 1) + 1 = i
    BY <1>1, <1>4
  <2>2. i - 1 \in DOMAIN r /\ r[i - 1] = w[i]
    BY <2>1, <1>2
  <2>3. QED
    BY <2>1, <2>2 DEF r
<1>5. i < k \/ i > k
  BY <1>1
<1>6. QED
  BY <1>3, <1>4, <1>5 DEF r

\* Nobody overtakes, whatever mixture of admissions, results and cancellations.
THEOREM NobodyOvertakesHolds == Spec => NobodyOvertakes
<1> DEFINE Advances(i) ==
      \/ pc'[waiters[i]] = "idle"
      \/ pc'[waiters[i]] = "inflight" /\ i = 1
      \/ /\ pc'[waiters[i]] = "waiting"
         /\ \E k \in 1..i : k \in DOMAIN waiters' /\ waiters'[k] = waiters[i]
<1>1. TypeOK /\ QueueMatchesWaiters /\ [Next]_vars => [\A i \in DOMAIN waiters : Advances(i)]_vars
  <2> SUFFICES ASSUME TypeOK, QueueMatchesWaiters, Next, NEW i \in DOMAIN waiters
               PROVE  Advances(i)
    OBVIOUS
  <2> DEFINE d == waiters[i]
  <2>1. /\ waiters \in Seq(Calls)
        /\ pc \in [Calls -> Resting \cup Pending]
    BY DEF TypeOK
  <2>2. Len(waiters) \in Nat /\ DOMAIN waiters = 1..Len(waiters) /\ i \in 1..Len(waiters) /\ i \in 1..i
    BY <2>1, LenProperties
  <2>3. d \in Calls /\ pc[d] = "waiting"
    BY <2>1, <2>2, ElementOfSeq DEF QueueMatchesWaiters
  <2>4. ASSUME waiters' = waiters, pc'[d] = "waiting"
        PROVE  Advances(i)
    BY <2>2, <2>4
  <2> HIDE DEF d
  <2>5. ASSUME NEW c \in Calls, pc[c] # "waiting", waiters' = waiters,
               \E new \in {"idle", "rejected", "inflight", "waiting"} : pc' = [pc EXCEPT ![c] = new]
        PROVE  Advances(i)
    BY <2>1, <2>3, <2>4, <2>5
  <2>6. CASE Tick
    BY <2>3, <2>4, <2>6 DEF Tick, callVars, semVars
  <2>7. ASSUME NEW c \in Calls, Reject(c)
        PROVE  Advances(i)
    BY <2>5, <2>7 DEF Reject, semVars, Resting
  <2>8. ASSUME NEW c \in Calls, Succeed(c) \/ Fail(c) \/ CancelInFlight(c)
        PROVE  Advances(i)
    <3>1. pc[c] = "inflight" /\ waiters' = waiters /\ pc' = [pc EXCEPT ![c] = "idle"]
      BY <2>8 DEF Succeed, Fail, CancelInFlight, Release
    <3>2. QED
      BY <3>1, <2>5
  <2>9. ASSUME NEW c \in Calls, Admit(c)
        PROVE  Advances(i)
    <3>1. /\ pc[c] # "waiting"
          /\ \/ waiters' = waiters /\ pc' = [pc EXCEPT ![c] = "inflight"]
             \/ waiters' = Append(waiters, c) /\ pc' = [pc EXCEPT ![c] = "waiting"]
      BY <2>9 DEF Admit, Resting
    <3>2. CASE waiters' = Append(waiters, c) /\ pc' = [pc EXCEPT ![c] = "waiting"]
      <4>1. i \in DOMAIN waiters' /\ waiters'[i] = waiters[i]
        BY <2>1, <3>2, PlacesKept
      <4>2. pc'[d] = "waiting"
        BY <2>1, <2>3, <3>2
      <4>3. QED
        BY <2>2, <4>1, <4>2 DEF d
    <3>3. QED
      BY <3>1, <3>2, <2>5
  <2>10. ASSUME NEW c \in Calls, Acquire(c)
        PROVE  Advances(i)
    <3>1. /\ waiters # <<>> /\ c = Head(waiters) /\ waiters' = Tail(waiters)
          /\ pc' = [pc EXCEPT ![c] = "inflight"]
      BY <2>10 DEF Acquire
    <3>2. c = waiters[1] /\ 1 \in DOMAIN waiters
      BY <2>1, <2>2, <3>1, HeadTailProperties
    <3>3. CASE i = 1
      BY <2>1, <2>3, <3>1, <3>2, <3>3 DEF d
    <3>4. CASE i # 1
      <4>1. c # d
        BY <3>2, <3>4 DEF d, QueueMatchesWaiters
      <4>2. pc'[d] = "waiting"
        BY <2>1, <2>3, <3>1, <4>1
      <4>3. i - 1 \in 1..i /\ i - 1 \in DOMAIN waiters' /\ waiters'[i - 1] = waiters[i]
        BY <2>1, <3>1, <3>4, PlacesKept
      <4>4. QED
        BY <4>2, <4>3 DEF d
    <3>5. QED
      BY <3>3, <3>4
  <2>11. ASSUME NEW c \in Calls, CancelWaiting(c)
        PROVE  Advances(i)
    <3>1. PICK k \in DOMAIN waiters :
            /\ waiters[k] = c
            /\ waiters' = SubSeq(waiters, 1, k - 1) \o SubSeq(waiters, k + 1, Len(waiters))
      BY <2>11 DEF CancelWaiting
    <3>2. pc' = [pc EXCEPT ![c] = "idle"]
      BY <2>11 DEF CancelWaiting
    <3>3. CASE d = c
      BY <2>1, <2>3, <3>2, <3>3 DEF d
    <3>4. CASE d # c
      <4>1. i # k
        BY <3>1, <3>4 DEF d
      <4>2. pc'[d] = "waiting"
        BY <2>1, <2>3, <3>2, <3>4
      <4>3. \E j \in 1..i : j \in DOMAIN Without(waiters, k) /\ Without(waiters, k)[j] = waiters[i]
        BY <2>1, <4>1, PlacesAfterLeaving
      <4>4. waiters' = Without(waiters, k)
        BY <3>1 DEF Without
      <4>5. QED
        BY <4>2, <4>3, <4>4 DEF d
    <3>5. QED
      BY <3>3, <3>4
  <2>12. QED
    BY <2>6, <2>7, <2>8, <2>9, <2>10, <2>11 DEF Next
<1>2. QED
  BY <1>1, TypeCorrect, QueueCorrect, PTL DEF Spec, NobodyOvertakes

\* An open breaker runs out of what could restart its cooldown.
THEOREM OpenRunsOutHolds == Spec => OpenRunsOut
<1> USE ProviderAssumption
<1> DEFINE RunsOut(p) ==
      state[p] = "OPEN" /\ state'[p] = "OPEN" =>
          /\ PendingOf(p)' \subseteq PendingOf(p)
          /\ openedAge'[p] < openedAge[p] => PendingOf(p)' # PendingOf(p)
<1>1. TypeOK /\ QueueMatchesWaiters /\ [Next]_vars => [\A p \in Providers : RunsOut(p)]_vars
  <2> SUFFICES ASSUME TypeOK, QueueMatchesWaiters, Next, NEW p \in Providers,
                      state[p] = "OPEN", state'[p] = "OPEN"
               PROVE  /\ PendingOf(p)' \subseteq PendingOf(p)
                      /\ openedAge'[p] < openedAge[p] => PendingOf(p)' # PendingOf(p)
    OBVIOUS
  <2>1. /\ openedAge \in [Providers -> 0..AgeCap]
        /\ state \in [Providers -> BreakerStates]
        /\ pc \in [Calls -> Resting \cup Pending]
        /\ waiters \in Seq(Calls)
    BY DEF TypeOK
  <2>2. openedAge[p] \in 0..AgeCap /\ AgeCap \in Nat
    BY <2>1, TimingAssumption
  \* A call that was pending, or ends up resting, adds nothing.
  <2>3. ASSUME NEW c \in Calls,
               \E new \in Resting \cup Pending :
                  /\ pc' = [pc EXCEPT ![c] = new]
                  /\ new \in Resting \/ pc[c] \in Pending \/ ProviderOf[c] # p
        PROVE  PendingOf(p)' \subseteq PendingOf(p)
    BY <2>1, <2>3 DEF PendingOf, Resting, Pending
  <2>4. ASSUME openedAge'[p] >= openedAge[p], PendingOf(p)' \subseteq PendingOf(p)
        PROVE  /\ PendingOf(p)' \subseteq PendingOf(p)
               /\ openedAge'[p] < openedAge[p] => PendingOf(p)' # PendingOf(p)
    <3>1. CASE openedAge'[p] \in Nat
      BY <2>2, <2>4, <3>1
    <3>2. openedAge'[p] \in Nat
      <4>1. openedAge'[p] = 0 \/ openedAge'[p] = openedAge[p] \/ openedAge'[p] = Older(openedAge[p])
        BY <2>1 DEF Next, Tick, Reject, Admit, Acquire, Succeed, Fail, CancelInFlight,
                    CancelWaiting, breakerVars
      <4>2. QED
        BY <2>2, <4>1 DEF Older
    <3>3. QED
      BY <3>1, <3>2
  <2>5. CASE Tick
    <3>1. pc' = pc /\ openedAge'[p] = Older(openedAge[p])
      BY <2>5 DEF Tick, callVars
    <3>2. openedAge'[p] >= openedAge[p]
      BY <2>2, <3>1 DEF Older
    <3>3. PendingOf(p)' \subseteq PendingOf(p)
      BY <3>1 DEF PendingOf
    <3>4. QED
      BY <2>4, <3>2, <3>3
  <2>6. ASSUME NEW c \in Calls, Reject(c) \/ CancelWaiting(c) \/ CancelInFlight(c) \/ Succeed(c)
        PROVE  /\ PendingOf(p)' \subseteq PendingOf(p)
               /\ openedAge'[p] < openedAge[p] => PendingOf(p)' # PendingOf(p)
    <3>1. /\ openedAge' = openedAge
          /\ \E new \in Resting : pc' = [pc EXCEPT ![c] = new]
      BY <2>6 DEF Reject, CancelWaiting, CancelInFlight, Succeed, Release, breakerVars, Resting
    <3>2. PendingOf(p)' \subseteq PendingOf(p)
      BY <2>3, <3>1
    <3>3. openedAge'[p] >= openedAge[p]
      BY <2>2, <3>1
    <3>4. QED
      BY <2>4, <3>2, <3>3
  <2>7. ASSUME NEW c \in Calls, Admit(c)
        PROVE  /\ PendingOf(p)' \subseteq PendingOf(p)
               /\ openedAge'[p] < openedAge[p] => PendingOf(p)' # PendingOf(p)
    <3>1. /\ openedAge' = openedAge
          /\ state' = [state EXCEPT ![ProviderOf[c]] = StateOnEntry(ProviderOf[c])]
          /\ StateOnEntry(ProviderOf[c]) # "OPEN"
          /\ \E new \in Pending : pc' = [pc EXCEPT ![c] = new]
      BY <2>7 DEF Admit, Pending
    <3>2. ProviderOf[c] # p
      BY <2>1, <3>1
    <3>3. PendingOf(p)' \subseteq PendingOf(p)
      BY <2>3, <3>1, <3>2
    <3>4. openedAge'[p] >= openedAge[p]
      BY <2>2, <3>1
    <3>5. QED
      BY <2>4, <3>3, <3>4
  <2>8. ASSUME NEW c \in Calls, Acquire(c)
        PROVE  /\ PendingOf(p)' \subseteq PendingOf(p)
               /\ openedAge'[p] < openedAge[p] => PendingOf(p)' # PendingOf(p)
    <3>1. /\ waiters # <<>> /\ c = Head(waiters)
          /\ pc' = [pc EXCEPT ![c] = "inflight"]
          /\ openedAge' = openedAge
      BY <2>8 DEF Acquire, breakerVars
    <3>2. 1 \in DOMAIN waiters /\ waiters[1] = c
      BY <2>1, <3>1
    <3>3. pc[c] \in Pending /\ "inflight" \in Pending
      BY <3>2 DEF QueueMatchesWaiters, Pending
    <3>4. PendingOf(p)' \subseteq PendingOf(p)
      BY <2>3, <3>1, <3>3
    <3>5. openedAge'[p] >= openedAge[p]
      BY <2>2, <3>1
    <3>6. QED
      BY <2>4, <3>4, <3>5
  <2>9. ASSUME NEW c \in Calls, Fail(c)
        PROVE  /\ PendingOf(p)' \subseteq PendingOf(p)
               /\ openedAge'[p] < openedAge[p] => PendingOf(p)' # PendingOf(p)
    <3>1. /\ pc[c] = "inflight" /\ pc' = [pc EXCEPT ![c] = "idle"]
          /\ openedAge' = openedAge \/ openedAge' = [openedAge EXCEPT ![ProviderOf[c]] = 0]
      BY <2>9 DEF Fail, Release
    <3>2. PendingOf(p)' \subseteq PendingOf(p)
      BY <2>3, <3>1 DEF Resting
    <3>3. CASE ProviderOf[c] = p
      <4>1. c \in PendingOf(p) /\ c \notin PendingOf(p)'
        BY <2>1, <3>1, <3>3 DEF PendingOf, Pending
      <4>2. QED
        BY <3>2, <4>1
    <3>4. CASE ProviderOf[c] # p
      <4>1. openedAge'[p] = openedAge[p]
        BY <2>1, <3>1, <3>4
      <4>2. openedAge'[p] >= openedAge[p]
        BY <2>2, <4>1
      <4>3. QED
        BY <2>4, <3>2, <4>2
    <3>5. QED
      BY <3>3, <3>4
  <2>10. QED
    BY <2>5, <2>6, <2>7, <2>8, <2>9 DEF Next
<1>2. QED
  BY <1>1, TypeCorrect, QueueCorrect, PTL DEF Spec, OpenRunsOut

\* The number of trials of a half-open breaker is bounded by the semaphore alone.
THEOREM TrialsWithinCapHolds == Spec => []TrialsWithinCap
<1>1. TypeOK /\ PermitsConserved => TrialsWithinCap
  <2> SUFFICES ASSUME TypeOK, PermitsConserved, NEW p \in Providers
               PROVE  Cardinality({c \in InFlight : ProviderOf[c] = p /\ admittedIn[c] = "HALF_OPEN"}) <= Cap
    BY DEF TrialsWithinCap
  <2> DEFINE trials == {c \in InFlight : ProviderOf[c] = p /\ admittedIn[c] = "HALF_OPEN"}
  <2>1. IsFiniteSet(InFlight)
    BY CallsAssumption, FS_Subset DEF InFlight
  <2>2. /\ IsFiniteSet(trials)
        /\ Cardinality(trials) <= Cardinality(InFlight)
    <3>1. trials \subseteq InFlight
      OBVIOUS
    <3>2. QED
      BY <2>1, <3>1, FS_Subset
  <2>3. Cardinality(trials) \in Nat /\ Cardinality(InFlight) \in Nat
    BY <2>1, <2>2, FS_CardinalityType
  <2> HIDE DEF trials
  <2>4. Cardinality(trials) <= Cap
    BY <2>2, <2>3, CapAssumption DEF TypeOK, PermitsConserved
  <2>5. QED
    BY <2>4 DEF trials
<1>2. QED
  BY <1>1, TypeCorrect, PermitsCorrect, PTL
=============================================================================
