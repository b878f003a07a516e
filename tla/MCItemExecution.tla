--------------------------- MODULE MCItemExecution ---------------------------
(* Three trees are the fewest that tell the reviewed change, a change of nothing and a *)
(* change made behind the run's back apart.                                            *)
EXTENDS ItemExecution
CONSTANTS base, edited, other, none

MCTrees == {base, edited, other}
=============================================================================
