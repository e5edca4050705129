--------------------------- MODULE MCRunLifecycle ---------------------------
(* Small instances of RunLifecycle: one run whose second result row the        *)
(* database refuses, and one whose rows are all fine.                          *)
EXTENDS RunLifecycle, TLC

CONSTANTS r1, r2

MixedRows == [r \in Runs |-> IF r = r1 THEN {2} ELSE {}]
=============================================================================
