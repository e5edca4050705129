---------------------------- MODULE MCQualityGate ----------------------------
(* Small instances of QualityGate: a test with one row and another with        *)
(* nineteen, so that one failure is just within the per-tool rate.             *)
EXTENDS QualityGate, TLC

CONSTANTS p, t, b1, b2

OneTool == [x \in {p, t} |-> "newman"]

Count(passed, other, n) == [s \in Statuses |-> IF s = "PASS" THEN passed ELSE IF s = other THEN n ELSE 0]

\* All pass; one test failed; it was blocked; it passed and failed, beside a triaged
\* failure of the other.
SomeReports ==
    {(p :> Count(1, "FAIL", 0) @@ t :> Count(19, "FAIL", 0))} \cup
    {(p :> Count(0, s, 1) @@ t :> Count(19, "FAIL", 0)) : s \in {"FAIL", "BLOCKED"}} \cup
    {(p :> Count(1, "FAIL", 1) @@ t :> Count(18, "GENBUG", 1))}

Symmetry == Permutations(Builds)
=============================================================================
