------------------------- MODULE MCProjectLifecycle -------------------------
(* The processes and runs of the checked instances: two of each where they     *)
(* contend, one of each where a single command is followed to its retry.       *)
EXTENDS ProjectLifecycle

CONSTANTS p1, p2, r1, r2

TwoProcesses == {p1, p2}
OneProcess   == {p1}

TwoRuns == {r1, r2}
OneRun  == {r1}
=============================================================================
