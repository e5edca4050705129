---------------------------- MODULE MCRegenQueue ----------------------------
(* Small instances of RegenQueue: one or two tests of one requirement.        *)
EXTENDS RegenQueue, TLC

CONSTANTS t1, t2, u1

AllTests == [u \in Upstream |-> Tests]
ByName == [n \in Names |-> CASE n = t1 -> 1 [] n = t2 -> 2 [] n = u1 -> 3]
=============================================================================
