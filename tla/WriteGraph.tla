---------------------------- MODULE WriteGraph -----------------------------
(***************************************************************************)
(* One write run in memory: the engine walks the canonical graph with the  *)
(* nodes WriteSliceRunner injects, from START to END.  One action per      *)
(* node; each runs the node and applies its result (GraphEngine.step).     *)
(*                                                                         *)
(* Beside the GraphState, four history variables remember facts about the  *)
(* world the state only claims:                                            *)
(*   passed    which judgements the bytes now in the workspace have passed *)
(*   approved  what a human approved: an item's write, or "PUBLISH"        *)
(*   delivery  the completed items the delivery reviewer last passed       *)
(*   published CREATE_PR left a pull request open, its answer lost or not  *)
(***************************************************************************)
EXTENDS WriteNodes

VARIABLES plan, state, passed, approved, delivery, published

history == <<passed, approved, delivery, published>>
vars == <<plan, state, passed, approved, delivery, published>>

Init ==
    /\ plan \in Plans
    /\ state = InitialState
    /\ passed = {}
    /\ approved = {}
    /\ delivery = <<>>
    /\ published = FALSE

-----------------------------------------------------------------------------
At(node) == state.node = node

\* GraphEngine.step: the node under the cursor returned r.
Step(r) == ApplyResult(state, r, state') /\ UNCHANGED plan

\* A node that says nothing of the world.
Route(node) ==
    /\ At(node)
    /\ \E r \in Results(plan, state) : Step(r)
    /\ UNCHANGED history

\* New bytes have passed nothing.
Written(r) == IF Succeeded(r) THEN {} ELSE passed

Judged(judgement, ok) == IF ok THEN passed \cup {judgement} ELSE passed \ {judgement}

-----------------------------------------------------------------------------
Start            == Route("START")
DiscoverProject  == Route("DISCOVER_PROJECT")
Preflight        == Route("PREFLIGHT")
SelectWork       == Route("SELECT_WORK")
Explore          == Route("EXPLORE")
BuildTaskPackage == Route("BUILD_TASK_PACKAGE")
AssessRisk       == Route("ASSESS_RISK")
ClassifyFailure  == Route("CLASSIFY_FAILURE")
CloseTask        == Route("CLOSE_TASK")
MoreWork         == Route("MORE_WORK")
Finalize         == Route("FINALIZE")

Write(node) ==
    /\ At(node)
    /\ \E r \in Results(plan, state) : Step(r) /\ passed' = Written(r)
    /\ UNCHANGED <<approved, delivery, published>>

Implement        == Write("IMPLEMENT")
ProgrammerRepair == Write("PROGRAMMER_REPAIR")
Debugger         == Write("DEBUGGER")

Validate ==
    /\ At("VALIDATE")
    /\ \E r \in Results(plan, state) :
          /\ Step(r)
          /\ passed' = Judged("VALIDATION", Succeeded(r) /\ r.patch.validation = "PASS")
    /\ UNCHANGED <<approved, delivery, published>>

Review ==
    /\ At("REVIEW")
    /\ \E r \in Results(plan, state) :
          /\ Step(r)
          /\ passed' = Judged("REVIEW", Succeeded(r) /\ r.patch.review = "PASS")
    /\ UNCHANGED <<approved, delivery, published>>

HumanCheckpoint ==
    /\ At("HUMAN_CHECKPOINT")
    /\ \E r \in Results(plan, state) :
          /\ Step(r)
          /\ approved' = IF r.outcome # "APPROVED" THEN approved
                         ELSE approved \cup {IF state.pending = "IMPLEMENT" THEN state.item
                                                                           ELSE "PUBLISH"}
    /\ UNCHANGED <<passed, delivery, published>>

DeliveryReview ==
    /\ At("DELIVERY_REVIEW")
    /\ \E r \in Results(plan, state) :
          /\ Step(r)
          /\ delivery' = IF Succeeded(r) /\ r.patch.review = "PASS" THEN state.completed
                                                                     ELSE delivery
    /\ UNCHANGED <<passed, approved, published>>

\* A node that fails may have opened the pull request first, or lost the answer.
CreatePr ==
    /\ At("CREATE_PR")
    /\ \E r \in Results(plan, state) : Step(r) /\ published' \in {TRUE, Succeeded(r)}
    /\ UNCHANGED <<passed, approved, delivery>>

\* The runner's loop leaves at END.
Ended == state.node = "END" /\ UNCHANGED vars

Next ==
    \/ Start \/ DiscoverProject \/ Preflight \/ SelectWork \/ Explore
    \/ BuildTaskPackage \/ AssessRisk \/ HumanCheckpoint \/ Implement
    \/ Validate \/ Review \/ ClassifyFailure \/ ProgrammerRepair \/ Debugger
    \/ CloseTask \/ MoreWork \/ DeliveryReview \/ CreatePr \/ Finalize \/ Ended

Spec == Init /\ [][Next]_vars

\* The loop of WriteSliceRunner keeps stepping until END; a human, a provider
\* or a timeout answers every node in the end.
FairSpec == Spec /\ WF_vars(Next)

-----------------------------------------------------------------------------
ItemNodes == {"EXPLORE", "BUILD_TASK_PACKAGE", "ASSESS_RISK", "IMPLEMENT", "VALIDATE",
              "REVIEW", "CLASSIFY_FAILURE", "CLOSE_TASK"} \cup RepairNodes

\* Every variable has its type: in particular repair.count never exceeds
\* policy.max_repair_cycles, which GraphState's constructor would reject.
TypeOK ==
    /\ plan \in Plans
    /\ state \in State
    /\ passed \subseteq {"VALIDATION", "REVIEW"}
    /\ approved \subseteq Items \cup {"PUBLISH"}
    /\ delivery \in Seq(Items)
    /\ published \in BOOLEAN

\* apply_result never raises for a result a real node returns: its patch is
\* authorized (the scope lock of the previous item is gone when EXPLORE patches
\* scope), exactly one edge wins, and the transition respects the engine's limits.
EveryResultAccepted == \A r \in Results(plan, state) : Accepted(state, r)

\* CLOSE_TASK commits only bytes that passed validation and review after they
\* were last written, under the scope and package of the item being closed.
CommitGate ==
    state.node = "CLOSE_TASK" =>
        /\ passed = {"VALIDATION", "REVIEW"}
        /\ state.locked
        /\ state.item # NoItem
        /\ state.item = state.changes
        /\ state.item = state.package
        /\ state.item = state.explored

\* A scope of critical risk is locked for writing only after a human approved
\* the write of that very item.
CriticalGate ==
    state.locked /\ state.risk = "CRITICAL" => state.explored \in approved

\* A pull request is attempted, and opened, only for the completed items the
\* delivery reviewer passed and a human approved for publication.
PublishGate ==
    state.node = "CREATE_PR" \/ published =>
        /\ "PUBLISH" \in approved
        /\ delivery = state.completed
        /\ delivery # <<>>

\* What a repairable failure finds on the ledger is what the repair machinery
\* demands, so that neither CLASSIFY_FAILURE nor a repair node fails a run that
\* still has capacity with repair_failure_context_mismatch.
RepairLedgerAgrees ==
    /\ state.node = "CLASSIFY_FAILURE" /\ HasCapacity(state) => FailureContextAgrees(state)
    /\ state.node \in RepairNodes => RepairContextAgrees(state)

\* Items are completed once each, after all their dependencies, and no more of
\* them than the run's limit.
DependencyOrder ==
    /\ Len(state.completed) <= MaxItems
    /\ \A k \in DOMAIN state.completed :
          LET before == {state.completed[j] : j \in 1 .. k - 1}
          IN  state.completed[k] \notin before /\ plan.deps[state.completed[k]] \subseteq before

\* The status a run ends with is the truth: COMPLETED only when the whole plan was done
\* and its pull request is open, PAUSED exactly when the limit stopped it.  A pull request
\* whose node failed after opening it leaves a BLOCKED or FAILED run, never one that says
\* it was cancelled or may be continued with more items.
HonestOutcome ==
    state.node = "END" =>
        /\ state.status # "RUNNING"
        /\ state.status = "COMPLETED" => published
        /\ published => /\ Done(state) = PlanItems(plan)
                        /\ state.status \in {"COMPLETED", "BLOCKED", "FAILED"}
        /\ state.status = "PAUSED" <=> Len(state.completed) = MaxItems

\* The default of max_steps.
DefaultMaxSteps == 30

\* Every run reaches END: no cycle of repairs or items goes on for ever, and the
\* runner's bound of max_steps * max_work_items_per_run transitions is never what
\* ends a run.
Termination == <>(state.node = "END" /\ state.seq <= DefaultMaxSteps * MaxItems)
=============================================================================
