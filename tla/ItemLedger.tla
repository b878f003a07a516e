----------------------------- MODULE ItemLedger -----------------------------
(***************************************************************************)
(* What a write run promises about its commits: a chain in which every     *)
(* commit is the child of the one before it and holds exactly a tree that  *)
(* was approved, differs from its parent and was approved for that place.  *)
(***************************************************************************)
EXTENDS Integers, Sequences

CONSTANTS Trees, BaseTree, None

VARIABLES
    closed,    \* the commits of the completed items
    approved   \* the tree approved for the next one, or None

Head0 == IF closed = <<>> THEN <<>> ELSE closed[Len(closed)]
Held  == IF Head0 = <<>> THEN BaseTree ELSE Head0[Len(Head0)]

Init == closed = <<>> /\ approved = None

\* An approval is final: it is not exchanged for another one.
Approve ==
    /\ approved = None
    /\ approved' \in Trees \ {Held}
    /\ UNCHANGED closed

Close ==
    /\ approved # None
    /\ closed' = Append(closed, Append(Head0, approved))
    /\ approved' = None

Next == Approve \/ Close

Spec == Init /\ [][Next]_<<closed, approved>>
=============================================================================
