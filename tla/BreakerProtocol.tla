-------------------------- MODULE BreakerProtocol --------------------------
(***************************************************************************)
(* What a circuit breaker promises its users, without calls, failures or   *)
(* a semaphore (the state machine of agents/circuit_breaker.py, lines 6-9):*)
(* a breaker that opened stays open for a whole cooldown, then it can only *)
(* be probed, and only a probing breaker can close.                        *)
(***************************************************************************)
EXTENDS Naturals

CONSTANTS Providers, CooldownSecs, AgeCap

VARIABLES phase, sinceOpened

vars == <<phase, sinceOpened>>

Init ==
    /\ phase = [p \in Providers |-> "CLOSED"]
    /\ sinceOpened = [p \in Providers |-> 0]

\* A failure opens the breaker, or extends an opening.
Open(p) ==
    /\ phase' = [phase EXCEPT ![p] = "OPEN"]
    /\ sinceOpened' = [sinceOpened EXCEPT ![p] = 0]

Probe(p) ==
    /\ phase[p] = "OPEN"
    /\ sinceOpened[p] >= CooldownSecs
    /\ phase' = [phase EXCEPT ![p] = "HALF_OPEN"]
    /\ UNCHANGED sinceOpened

Close(p) ==
    /\ phase[p] = "HALF_OPEN"
    /\ phase' = [phase EXCEPT ![p] = "CLOSED"]
    /\ UNCHANGED sinceOpened

Pass ==
    /\ sinceOpened' = [p \in Providers |->
                         IF sinceOpened[p] < AgeCap THEN sinceOpened[p] + 1 ELSE AgeCap]
    /\ UNCHANGED phase

Next ==
    \/ Pass
    \/ \E p \in Providers : Open(p) \/ Probe(p) \/ Close(p)

Spec == Init /\ [][Next]_vars
=============================================================================
