---------------------------- MODULE MCJobPipeline ----------------------------
(* JobPipeline on small instances.                                           *)
EXTENDS JobPipeline, TLC

CONSTANTS j1, j2, w1, w2

TwoJobs    == {j1, j2}
TwoWorkers == {w1, w2}
Symmetry   == Permutations(Jobs) \union Permutations(Workers)

AllFaults == {"upload", "drop", "transcribe", "disk"}
NoFaults  == {}

\* An upload that fails goes the way of a refused one, and adds only states.
LaterFaults == AllFaults \ {"upload"}
=============================================================================
