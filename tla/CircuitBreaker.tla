--------------------------- MODULE CircuitBreaker ---------------------------
(***************************************************************************)
(* The per-provider LLM circuit breaker and the process-wide semaphore     *)
(* behind it (agents/circuit_breaker.py).                                  *)
(*                                                                         *)
(* breaker.call() takes `_lock` twice, but no body under that lock ever    *)
(* suspends, so each locked section is one atomic step of the event loop.  *)
(* The steps of a call are therefore: admission (lines 93-99), which ends  *)
(* in a rejection, a free permit or a place in the semaphore's queue; the  *)
(* wake-up of a queued call (104); and the end of the awaited provider     *)
(* call - success, exception or cancellation (111-162).                    *)
(*                                                                         *)
(* time.monotonic() is only ever used in differences, so the model keeps   *)
(* the AGE of a timestamp instead of the timestamp.  AgeCap saturates the  *)
(* ages: past the window and the cooldown an older age is not told apart.  *)
(***************************************************************************)
EXTENDS Naturals, Sequences, FiniteSets

CONSTANTS
    Providers,       \* names of the breakers in _BREAKERS
    Calls,           \* the tasks that call breaker.call()
    ProviderOf,      \* the breaker each task goes through
    Cap,             \* ARTA_LLM_MAX_CONCURRENCY, clamped to 1..32
    FailThreshold,   \* fail_threshold
    WindowSecs,      \* window_secs
    CooldownSecs,    \* cooldown_secs
    AgeCap           \* bound: ages saturate here

ASSUME CapAssumption == Cap \in Nat \ {0}
ASSUME ProviderAssumption == ProviderOf \in [Calls -> Providers]
ASSUME CallsAssumption == IsFiniteSet(Calls)
ASSUME TimingAssumption ==
    /\ FailThreshold \in Nat \ {0}
    /\ WindowSecs \in Nat
    /\ CooldownSecs \in Nat
    /\ AgeCap \in Nat
    /\ AgeCap > WindowSecs
    /\ AgeCap >= CooldownSecs

VARIABLES
    state,        \* _state of each breaker
    failureAges,  \* _failure_times of each breaker, oldest first
    openedAge,    \* now - _opened_at of each breaker
    pc,           \* where each task is in call()
    admittedIn,   \* history: the breaker's state when the task was admitted
    permits,      \* free permits of _LLM_SEMAPHORE
    waiters       \* the semaphore's FIFO queue

breakerVars == <<state, failureAges, openedAge>>
callVars == <<pc, admittedIn>>
semVars == <<permits, waiters>>
vars == <<state, failureAges, openedAge, pc, admittedIn, permits, waiters>>

BreakerStates == {"CLOSED", "OPEN", "HALF_OPEN"}
Resting == {"idle", "rejected"}
Pending == {"waiting", "inflight"}

InFlight == {c \in Calls : pc[c] = "inflight"}

TypeOK ==
    /\ state \in [Providers -> BreakerStates]
    /\ failureAges \in [Providers -> Seq(0..AgeCap)]
    /\ openedAge \in [Providers -> 0..AgeCap]
    /\ pc \in [Calls -> Resting \cup Pending]
    /\ admittedIn \in [Calls -> {"CLOSED", "HALF_OPEN"}]
    /\ permits \in Nat
    /\ waiters \in Seq(Calls)

Init ==
    /\ state = [p \in Providers |-> "CLOSED"]
    /\ failureAges = [p \in Providers |-> <<>>]
    /\ openedAge = [p \in Providers |-> 0]
    /\ pc = [c \in Calls |-> "idle"]
    /\ admittedIn = [c \in Calls |-> "CLOSED"]
    /\ permits = Cap
    /\ waiters = <<>>

-----------------------------------------------------------------------------
(* The breaker's bookkeeping.                                              *)

Older(age) == IF age < AgeCap THEN age + 1 ELSE AgeCap

\* _prune_old_failures: drop the expired prefix of a queue ordered oldest first.
Prune(ages) ==
    SubSeq(ages, Cardinality({i \in DOMAIN ages : ages[i] > WindowSecs}) + 1, Len(ages))

\* The window after one more failure.  Only whether it holds fail_threshold
\* failures is ever read, so the oldest one beyond that is forgotten.
WithFailure(ages) ==
    LET kept == Prune(Append(ages, 0))
    IN  IF Len(kept) > FailThreshold THEN Tail(kept) ELSE kept

\* Mutant: the elapsed time is compared one unit too early.
StateOnEntryEarly(p) ==
    IF state[p] = "OPEN" /\ openedAge[p] + 1 >= CooldownSecs THEN "HALF_OPEN" ELSE state[p]

\* Mutant: no probe before the window is empty - but only a failure prunes it.
StateOnEntryNeedsEmptyWindow(p) ==
    IF state[p] = "OPEN" /\ openedAge[p] >= CooldownSecs /\ failureAges[p] = <<>>
    THEN "HALF_OPEN" ELSE state[p]

\* _maybe_transition_to_half_open
StateOnEntry(p) ==
    IF state[p] = "OPEN" /\ openedAge[p] >= CooldownSecs THEN "HALF_OPEN" ELSE state[p]

\* Mutant: the permit is not given back.
ReleaseLost(c) ==
    /\ pc[c] = "inflight"
    /\ pc' = [pc EXCEPT ![c] = "idle"]
    /\ UNCHANGED semVars

\* asyncio.Semaphore.release after the permit of an in-flight call.
Release(c) ==
    /\ pc[c] = "inflight"
    /\ pc' = [pc EXCEPT ![c] = "idle"]
    /\ permits' = permits + 1
    /\ UNCHANGED waiters

-----------------------------------------------------------------------------
(* The steps of breaker.call().                                            *)

Reject(c) ==
    /\ pc[c] \in Resting
    /\ StateOnEntry(ProviderOf[c]) = "OPEN"
    /\ pc' = [pc EXCEPT ![c] = "rejected"]
    /\ UNCHANGED <<breakerVars, admittedIn, semVars>>

\* asyncio.Semaphore.acquire does not overtake: a free permit is taken at once
\* only when nobody is queued.
Admit(c) ==
    LET p == ProviderOf[c] IN
    /\ pc[c] \in Resting
    /\ StateOnEntry(p) # "OPEN"
    /\ state' = [state EXCEPT ![p] = StateOnEntry(p)]
    /\ admittedIn' = [admittedIn EXCEPT ![c] = StateOnEntry(p)]
    /\ \/ /\ permits > 0 /\ waiters = <<>>
          /\ permits' = permits - 1
          /\ pc' = [pc EXCEPT ![c] = "inflight"]
          /\ UNCHANGED waiters
       \/ /\ permits = 0 \/ waiters # <<>>
          /\ waiters' = Append(waiters, c)
          /\ pc' = [pc EXCEPT ![c] = "waiting"]
          /\ UNCHANGED permits
    /\ UNCHANGED <<failureAges, openedAge>>

\* Mutant: a woken call does not look whether a permit is free.
AcquireUnchecked(c) ==
    /\ waiters # <<>>
    /\ c = Head(waiters)
    /\ waiters' = Tail(waiters)
    /\ permits' = permits - 1
    /\ pc' = [pc EXCEPT ![c] = "inflight"]
    /\ UNCHANGED <<breakerVars, admittedIn>>

\* A queued call gets its permit and starts the provider call.  The breaker's
\* state is not looked at again.
Acquire(c) ==
    /\ waiters # <<>>
    /\ c = Head(waiters)
    /\ permits > 0
    /\ waiters' = Tail(waiters)
    /\ permits' = permits - 1
    /\ pc' = [pc EXCEPT ![c] = "inflight"]
    /\ UNCHANGED <<breakerVars, admittedIn>>

\* Mutant: closing keeps the old failures.
SucceedKeepsFailures(c) ==
    LET p == ProviderOf[c] IN
    /\ Release(c)
    /\ state' = [state EXCEPT ![p] = IF @ = "HALF_OPEN" THEN "CLOSED" ELSE @]
    /\ UNCHANGED <<failureAges, openedAge, admittedIn>>

\* Mutant: any success closes the breaker.
SucceedCloses(c) ==
    LET p == ProviderOf[c] IN
    /\ Release(c)
    /\ state' = [state EXCEPT ![p] = "CLOSED"]
    /\ failureAges' = [failureAges EXCEPT ![p] = <<>>]
    /\ UNCHANGED <<openedAge, admittedIn>>

\* Mutant: a successful trial closes every breaker that is being probed.
SucceedClosesAll(c) ==
    /\ Release(c)
    /\ state' = [p \in Providers |-> IF state[p] = "HALF_OPEN" THEN "CLOSED" ELSE state[p]]
    /\ failureAges' = [p \in Providers |->
                          IF state[p] = "HALF_OPEN" THEN <<>> ELSE failureAges[p]]
    /\ UNCHANGED <<openedAge, admittedIn>>

Succeed(c) ==
    LET p == ProviderOf[c] IN
    /\ Release(c)
    /\ IF state[p] = "HALF_OPEN"
       THEN /\ state' = [state EXCEPT ![p] = "CLOSED"]
            /\ failureAges' = [failureAges EXCEPT ![p] = <<>>]
       ELSE UNCHANGED <<state, failureAges>>
    /\ UNCHANGED <<openedAge, admittedIn>>

\* Mutant: the opening time is only stamped when the breaker was not OPEN yet.
FailStampsOnce(c) ==
    LET p == ProviderOf[c]
        recent == WithFailure(failureAges[p])
    IN
    /\ Release(c)
    /\ failureAges' = [failureAges EXCEPT ![p] = recent]
    /\ IF state[p] = "HALF_OPEN" \/ (state[p] = "CLOSED" /\ Len(recent) >= FailThreshold)
       THEN /\ state' = [state EXCEPT ![p] = "OPEN"]
            /\ openedAge' = [openedAge EXCEPT ![p] = 0]
       ELSE UNCHANGED <<state, openedAge>>
    /\ UNCHANGED admittedIn

Fail(c) ==
    LET p == ProviderOf[c]
        recent == WithFailure(failureAges[p])
    IN
    /\ Release(c)
    /\ failureAges' = [failureAges EXCEPT ![p] = recent]
    /\ IF state[p] = "HALF_OPEN" \/ Len(recent) >= FailThreshold
       THEN /\ state' = [state EXCEPT ![p] = "OPEN"]
            /\ openedAge' = [openedAge EXCEPT ![p] = 0]
       ELSE UNCHANGED <<state, openedAge>>
    /\ UNCHANGED admittedIn

\* CancelledError is not an Exception: only the `finally` runs.
CancelInFlight(c) ==
    /\ Release(c)
    /\ UNCHANGED <<breakerVars, admittedIn>>

\* Mutant: a cancelled waiter stays in the queue.
CancelWaitingStaysQueued(c) ==
    /\ pc[c] = "waiting"
    /\ pc' = [pc EXCEPT ![c] = "idle"]
    /\ UNCHANGED <<breakerVars, admittedIn, semVars>>

CancelWaiting(c) ==
    /\ pc[c] = "waiting"
    /\ pc' = [pc EXCEPT ![c] = "idle"]
    /\ \E i \in DOMAIN waiters :
          /\ waiters[i] = c
          /\ waiters' = SubSeq(waiters, 1, i - 1) \o SubSeq(waiters, i + 1, Len(waiters))
    /\ UNCHANGED <<breakerVars, admittedIn, permits>>

\* One unit of monotonic time passes.
Tick ==
    /\ failureAges' = [p \in Providers |->
                         [i \in DOMAIN failureAges[p] |-> Older(failureAges[p][i])]]
    /\ openedAge' = [p \in Providers |-> Older(openedAge[p])]
    /\ UNCHANGED <<state, callVars, semVars>>

Finish(c) == Succeed(c) \/ Fail(c)

Next ==
    \/ Tick
    \/ \E c \in Calls :
          \/ Reject(c) \/ Admit(c) \/ Acquire(c)
          \/ Succeed(c) \/ Fail(c)
          \/ CancelInFlight(c) \/ CancelWaiting(c)

Spec == Init /\ [][Next]_vars

\* Every provider client bounds its calls by a timeout, so an in-flight call
\* ends; the event loop runs a woken waiter; time passes.
Fairness ==
    /\ WF_vars(Tick)
    /\ \A c \in Calls : WF_vars(Acquire(c)) /\ WF_vars(Finish(c))

FairSpec == Spec /\ Fairness

\* The half-open transition is lazy: only a caller makes it.  The callers are
\* generation loops that keep asking, so each task calls again.
CallersFairness == \A c \in Calls : WF_vars(Reject(c) \/ Admit(c))

CallingSpec == FairSpec /\ CallersFairness

-----------------------------------------------------------------------------
(* Properties.                                                             *)

\* Every permit of the semaphore is either free or held by exactly one call in
\* flight, whatever mixture of success, failure and cancellation went before:
\* no path leaks a permit or releases one twice (lines 104 and 138-139), so at
\* most Cap provider calls run at once across all breakers.
PermitsConserved == permits + Cardinality(InFlight) = Cap

\* The semaphore's queue holds exactly the calls that wait, each once: a
\* cancelled waiter is not woken later and nobody waits without being queued.
QueueMatchesWaiters ==
    /\ \A c \in Calls : pc[c] = "waiting" <=> \E i \in DOMAIN waiters : waiters[i] = c
    /\ \A i, j \in DOMAIN waiters : waiters[i] = waiters[j] => i = j

\* A CLOSED breaker never holds a full window of failures: late failures of
\* calls admitted before it opened do not survive the trial that closes it
\* (line 145), so a recovered provider is not tripped again by old failures.
ClosedBelowThreshold ==
    \A p \in Providers : state[p] = "CLOSED" => Len(failureAges[p]) < FailThreshold

\* While OPEN with a full window, the cooldown counts from the newest failure:
\* a failure that arrives late, from a call admitted earlier, restarts it
\* (lines 130-132), so no probe is made within the cooldown of a burst.
CooldownTracksBurst ==
    \A p \in Providers :
        state[p] = "OPEN" /\ Len(failureAges[p]) >= FailThreshold =>
            openedAge[p] = failureAges[p][Len(failureAges[p])]

\* A breaker is only HALF_OPEN when its last opening is a whole cooldown ago,
\* however many late results arrived in between (lines 76-82).
HalfOpenCooledDown ==
    \A p \in Providers : state[p] = "HALF_OPEN" => openedAge[p] >= CooldownSecs

\* The breakers implement BreakerProtocol: nothing a call does, in any order with
\* the others, takes a breaker from OPEN to CLOSED without a probe or probes it
\* before a whole cooldown has passed (lines 76-82, 125-135, 143-145).
Protocol == INSTANCE BreakerProtocol WITH phase <- state, sinceOpened <- openedAge
ProtocolSpec == Protocol!Spec

\* A breaker only closes, or opens, because one of ITS OWN calls ended: calls of
\* one provider never move another provider's breaker (lines 169-177).
BreakersIndependent ==
    [][\A p \in Providers :
         (state'[p] # state[p] /\ state'[p] \in {"CLOSED", "OPEN"}) =>
            \E c \in Calls : ProviderOf[c] = p /\ pc[c] = "inflight" /\ pc'[c] = "idle"]_vars

\* Every call that was admitted ends: the semaphore starves nobody, although one
\* queue serves all providers (lines 101-104, 138-139).
AdmittedCallsEnd == \A c \in Calls : pc[c] \in Pending ~> pc[c] \in Resting

\* An OPEN breaker is eventually probed, although every late failure may restart
\* the cooldown: while OPEN nothing new is admitted, so late failures run out
\* (lines 76-82, 95-99, 130-132).
OpenIsEventuallyProbed ==
    \A p \in Providers : state[p] = "OPEN" ~> state[p] = "HALF_OPEN"

\* The module's docstring, line 9: "HALF_OPEN - cooldown elapsed; allow one trial
\* call to probe recovery".
OneTrialCall ==
    \A p \in Providers :
        state[p] = "HALF_OPEN" =>
            Cardinality({c \in InFlight : ProviderOf[c] = p /\ admittedIn[c] = "HALF_OPEN"}) <= 1
=============================================================================
