--------------------------- MODULE MarkerCustody ---------------------------
(***************************************************************************)
(* What the regeneration queue promises whoever reports a failing test: the*)
(* last report about a test is never lost.  It waits in the queue until a  *)
(* drain settles it, or sets it aside as an orphan, from where it can be   *)
(* sent back to the queue; a settled report does not come back.            *)
(***************************************************************************)
EXTENDS Naturals

CONSTANT Tests

VARIABLES
    reports,   \* the number of the last report of each test, 0 without one
    place      \* where that report is

vars == <<reports, place>>

Init ==
    /\ reports = [t \in Tests |-> 0]
    /\ place = [t \in Tests |-> "nowhere"]

\* Reports about some tests, in place of earlier ones.
Report ==
    \E reported \in SUBSET Tests :
        /\ \A t \in reported : reports'[t] > reports[t]
        /\ reports' = [t \in Tests |-> IF t \in reported THEN reports'[t] ELSE reports[t]]
        /\ place' = [t \in Tests |-> IF t \in reported THEN "waiting" ELSE place[t]]

Settle(t) ==
    /\ place[t] = "waiting"
    /\ \E outcome \in {"settled", "orphaned"} : place' = [place EXCEPT ![t] = outcome]
    /\ UNCHANGED reports

SendBack ==
    /\ \E back \in SUBSET {t \in Tests : place[t] = "orphaned"} :
          place' = [t \in Tests |-> IF t \in back THEN "waiting" ELSE place[t]]
    /\ UNCHANGED reports

Next == Report \/ SendBack \/ \E t \in Tests : Settle(t)

Spec == Init /\ [][Next]_vars
=============================================================================
