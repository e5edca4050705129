--------------------------- MODULE MCGenerationJobs ---------------------------
(* Small instances of GenerationJobs.                                        *)
EXTENDS GenerationJobs, TLC

CONSTANTS j1, j2, a1, c1, c2

JobSymmetry == Permutations({j1, j2})
=============================================================================
