---------------------------- MODULE DecisionLog ----------------------------
(***************************************************************************)
(* What the durable runtime promises of one run, whatever crashes: the     *)
(* results of its nodes form a log that only grows at its end.  A result   *)
(* is decided first and then committed; once decided it is neither         *)
(* replaced nor dropped, and no other result takes its place.              *)
(***************************************************************************)
EXTENDS Integers, Sequences

CONSTANTS
    Outcomes,    \* what a node may return
    NoOutcome,   \* nothing decided
    Last         \* number of transitions that take the run to END

VARIABLES log, decided

Init == log = <<>> /\ decided = NoOutcome

Decide ==
    /\ Len(log) < Last
    /\ decided = NoOutcome
    /\ decided' \in Outcomes
    /\ UNCHANGED log

Commit ==
    /\ decided # NoOutcome
    /\ log' = Append(log, decided)
    /\ decided' = NoOutcome

Next == Decide \/ Commit

Spec == Init /\ [][Next]_<<log, decided>>
=============================================================================
