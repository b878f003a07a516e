--------------------------- MODULE WorkSelection ---------------------------
(***************************************************************************)
(* The frozen work plan of a run and the choice of the next ready item:    *)
(* WorkPlan and projected_snapshot (write/multi_item.py) over              *)
(* SpecKitAdapter.next_ready_item (adapters/speckit/adapter.py).           *)
(*                                                                         *)
(* A plan has the scope's incomplete items in source order and, for each,  *)
(* the dependencies incomplete at the source; one outside the scope stays  *)
(* incomplete for the whole run.                                           *)
(***************************************************************************)
EXTENDS GraphState

CONSTANTS
    Outside,   \* incomplete items of other scopes
    Plans      \* the plans a run may start with

Dependencies == Items \cup Outside

PlanItems(p) == {p.order[k] : k \in DOMAIN p.order}

\* Mutant: source order alone decides.
DependenciesIgnored(p, i, done) == i \in Items

\* No unfinished dependency in the projected snapshot.
DependenciesDone(p, i, done) == p.deps[i] \subseteq done

Ready(p, k, done) == p.order[k] \notin done /\ DependenciesDone(p, p.order[k], done)

\* next_ready_item: the first incomplete item whose dependencies are all
\* complete; empty when the scope is complete or blocked.
NextReady(p, done) ==
    {p.order[k] : k \in {k \in DOMAIN p.order :
        Ready(p, k, done) /\ \A j \in 1 .. k - 1 : ~Ready(p, j, done)}}

\* Mutant: what the items wait for counts as work of the run.
RemainingWithBlockers(p, done) ==
    {d \in Dependencies : d \in PlanItems(p) \/ \E i \in PlanItems(p) : d \in p.deps[i]} \ done

\* The items still to be done (work.available_items).
Remaining(p, done) == PlanItems(p) \ done

ASSUME PlansAssumption ==
    \A p \in Plans :
        /\ p \in [order : Seq(Items), deps : [Items -> SUBSET Dependencies]]
        /\ \A j, k \in DOMAIN p.order : p.order[j] = p.order[k] => j = k
        \* a durable run is created only for a READY selection
        /\ NextReady(p, {}) # {}
=============================================================================
