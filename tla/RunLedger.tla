----------------------------- MODULE RunLedger -----------------------------
(***************************************************************************)
(* What the test_runs table promises about a run, whoever writes it: the   *)
(* executor, the orphan sweeper or a restart.  Until the executor records  *)
(* an outcome the row may be marked failed at any time, and a running      *)
(* executor may revive it; a recorded outcome is never revised, and only   *)
(* the executor of the run can record one.                                 *)
(***************************************************************************)
CONSTANT Runs

VARIABLES
    status,    \* test_runs.status, "none" without a row
    recorded   \* the outcome the run's own executor recorded, or "none"

vars == <<status, recorded>>

Outcomes == {"completed", "failed"}
Pending == {"none", "queued", "running"}

Init ==
    /\ status = [r \in Runs |-> "none"]
    /\ recorded = [r \in Runs |-> "none"]

Register(r) ==
    /\ status[r] = "none"
    /\ recorded[r] = "none"
    /\ \E s \in {"queued", "running"} : status' = [status EXCEPT ![r] = s]
    /\ UNCHANGED recorded

Start(r) ==
    /\ recorded[r] = "none"
    /\ status[r] # "none"
    /\ status' = [status EXCEPT ![r] = "running"]
    /\ UNCHANGED recorded

Record(r) ==
    /\ recorded[r] = "none"
    /\ \E o \in Outcomes :
          /\ status' = [status EXCEPT ![r] = o]
          /\ recorded' = [recorded EXCEPT ![r] = o]

\* Any set of unfinished rows may be given up at once.
GiveUp ==
    /\ \E lost \in SUBSET {r \in Runs : status[r] \in {"queued", "running"}} :
          status' = [r \in Runs |-> IF r \in lost THEN "failed" ELSE status[r]]
    /\ UNCHANGED recorded

Next == GiveUp \/ \E r \in Runs : Register(r) \/ Start(r) \/ Record(r)

Spec == Init /\ [][Next]_vars
=============================================================================
