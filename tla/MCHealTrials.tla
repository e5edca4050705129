----------------------------- MODULE MCHealTrials -----------------------------
(* Small instances of HealTrials: two proposals for two places of the file, or  *)
(* for the same one.                                                            *)
EXTENDS HealTrials, TLC

CONSTANTS p1, p2, a, b

Symmetry == Permutations(Proposals)
Apart == [p \in Proposals |-> IF p = p1 THEN a ELSE b]
Rivals == [p \in Proposals |-> a]
=============================================================================
