----------------------------- MODULE JobLedger -----------------------------
(***************************************************************************)
(* What a generate-all or retry job promises whoever polls it, without     *)
(* pipelines, registry, files or coroutines: it is given a scope once; an  *)
(* outcome is recorded at most once for each requirement, only while the   *)
(* job runs, and never revised.  A job that works one by one records in    *)
(* the order of the list, says completed only with an outcome for all of   *)
(* its scope, and aborted or crashed only with something left to retry; of *)
(* many at a time some may end without an outcome.  A restart leaves a job *)
(* as it ended, or forgets it, or says that it was interrupted and sets it *)
(* back to an earlier point: it may lose outcomes, but it never changes    *)
(* one, nor skips one in the list.                                         *)
(***************************************************************************)
EXTENDS Naturals

CONSTANTS Jobs, NumReqs

VARIABLES
    status,    \* "none" without a job
    scope,     \* the requirements it was given
    pace,      \* "one" by one, or "many" at a time
    results    \* the outcome of each requirement, or "none"

vars == <<status, scope, pace, results>>

Reqs == 1..NumReqs
Nothing == [r \in Reqs |-> "none"]
Left(j) == {r \in scope[j] : results[j][r] = "none"}

Init ==
    /\ status = [j \in Jobs |-> "none"]
    /\ scope = [j \in Jobs |-> {}]
    /\ pace = [j \in Jobs |-> "many"]
    /\ results = [j \in Jobs |-> Nothing]

Start(j) ==
    /\ status[j] = "none"
    /\ status' = [status EXCEPT ![j] = "running"]
    /\ \E todo \in SUBSET Reqs : todo # {} /\ scope' = [scope EXCEPT ![j] = todo]
    /\ UNCHANGED <<pace, results>>

\* How many at a time is settled before the first outcome.
Choose(j) ==
    /\ status[j] = "running" /\ results[j] = Nothing
    /\ \E p \in {"one", "many"} : pace' = [pace EXCEPT ![j] = p]
    /\ UNCHANGED <<status, scope, results>>

Record(j, r) ==
    /\ status[j] = "running" /\ r \in Left(j)
    /\ pace[j] = "one" => \A q \in Left(j) : r <= q
    /\ \E outcome \in {"ok", "failed", "skipped"} :
          results' = [results EXCEPT ![j][r] = outcome]
    /\ UNCHANGED <<status, scope, pace>>

Complete(j) ==
    /\ status[j] = "running"
    /\ pace[j] = "one" => Left(j) = {}
    /\ status' = [status EXCEPT ![j] = "completed"]
    /\ UNCHANGED <<scope, pace, results>>

BreakOff(j) ==
    /\ status[j] = "running"
    /\ pace[j] = "one" \/ results[j] = Nothing
    /\ Left(j) # {}
    /\ \E s \in {"aborted", "crashed"} : status' = [status EXCEPT ![j] = s]
    /\ UNCHANGED <<scope, pace, results>>

\* What a restart may tell of a job: nothing, what it told before if it had ended,
\* or that it was interrupted, at that point or an earlier one.
Forgotten(j) ==
    status'[j] = "none" /\ scope'[j] = {} /\ pace'[j] = "many" /\ results'[j] = Nothing

AsItEnded(j) ==
    /\ status[j] \notin {"none", "running"} /\ status'[j] = status[j]
    /\ scope'[j] = scope[j] /\ pace'[j] = pace[j] /\ results'[j] = results[j]

SetBack(j) ==
    /\ status[j] # "none" /\ status'[j] = "interrupted"
    /\ scope'[j] = scope[j] /\ pace'[j] = pace[j]
    /\ \A r \in Reqs : results'[j][r] \in {results[j][r], "none"}
    /\ pace[j] = "one" =>
          \A q, r \in scope[j] : q < r /\ results'[j][r] # "none" => results'[j][q] # "none"

Restart ==
    /\ \A j \in Jobs : Forgotten(j) \/ AsItEnded(j) \/ SetBack(j)
    /\ DOMAIN status' = Jobs /\ DOMAIN scope' = Jobs /\ DOMAIN pace' = Jobs /\ DOMAIN results' = Jobs

Next ==
    \/ \E j \in Jobs : Start(j) \/ Choose(j) \/ Complete(j) \/ BreakOff(j)
    \/ \E j \in Jobs, r \in Reqs : Record(j, r)
    \/ Restart

Spec == Init /\ [][Next]_vars
=============================================================================
