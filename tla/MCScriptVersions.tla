--------------------------- MODULE MCScriptVersions ---------------------------
(* Small instances of ScriptVersions: two tests of a requirement, which share  *)
(* their script file, and one or two clients.                                  *)
EXTENDS ScriptVersions, TLC

CONSTANTS f1, c1, c2

SharedFile == [t \in Tests |-> f1]

\* The properties are about untangled tests, and a test stays tangled: states in which
\* one is are checked but not continued.
Untangled == tangled = {}

Symmetry == Permutations(Clients)
=============================================================================
