---------------------------- MODULE MCDurableRun ----------------------------
(* A run of three transitions that visits a node of each capability. *)
EXTENDS DurableRun

CONSTANTS ok, ko

MCOutcomes == {ok, ko}
MCKind == [v \in 0 .. 2 |-> CASE v = 0 -> "safe" [] v = 1 -> "write" [] v = 2 -> "publish"]
=============================================================================
