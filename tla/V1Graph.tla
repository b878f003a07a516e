------------------------------ MODULE V1Graph ------------------------------
(***************************************************************************)
(* The canonical v1 graph (core/v1_graph.py) with the edge conditions of   *)
(* core/edges.py.  Outgoing(s, r) is the set of edges of the node under    *)
(* the cursor whose condition matches the (patched) state s and the result *)
(* r; the engine then picks the one of the highest priority.               *)
(*                                                                         *)
(* An edge carries the id it has in the code without the node's prefix, so *)
(* that two edges leading to the same place still count as two.            *)
(***************************************************************************)
EXTENDS GraphState

\* A NodeResult: its status, the failure category of a FAILED one, the outcome
\* of a decided checkpoint and the patch, a function from the paths it writes
\* to their new values.
Result(status, category, outcome, patch) ==
    [status |-> status, category |-> category, outcome |-> outcome, patch |-> patch]

NoPatch == [path \in {} |-> NoItem]

Ok(patch)        == Result("SUCCEEDED", "NONE", "NONE", patch)
Failed(category) == Result("FAILED", category, "NONE", NoPatch)
Blocked          == Result("BLOCKED", "NONE", "NONE", NoPatch)
Undecided        == Result("CHECKPOINT_REQUIRED", "NONE", "NONE", NoPatch)
Decided(outcome) == Result("SUCCEEDED", "NONE", outcome, NoPatch)

-----------------------------------------------------------------------------
\* final "KEEP" leaves run.status alone; resume "NONE" is an edge that is no checkpoint.
Edge(id, to, priority, final, resume) ==
    [id |-> id, to |-> to, priority |-> priority, final |-> final, resume |-> resume]

Go(id, to)                 == Edge(id, to, 100, "KEEP", "NONE")
Checkpoint(id, resume)     == Edge(id, "HUMAN_CHECKPOINT", 100, "KEEP", resume)
Finish(id, final)          == Edge(id, "FINALIZE", 100, final, "NONE")
FinishFirst(id, final)     == Edge(id, "FINALIZE", 200, final, "NONE")
Terminal(id, final)        == Edge(id, "END", 100, final, "NONE")

When(condition, edge) == IF condition THEN {edge} ELSE {}

Succeeded(r)     == r.status = "SUCCEEDED"
Stopped(r)       == r.status \in {"BLOCKED", "CHECKPOINT_REQUIRED"}
FailedIn(r, categories) == r.status = "FAILED" /\ r.category \in categories

HasCapacity(s)   == s.count < MaxRepair
LimitReached(s)  == Len(s.completed) >= MaxItems

Repairable == {"IMPLEMENTATION", "DESIGN", "VALIDATION"}
Fatal      == FailureCategories \ Repairable
Operational == {"INFRASTRUCTURE", "ENVIRONMENT", "EXTERNAL_SERVICE"}

CancelledOrBlocked(r) ==
    When(r.status = "CANCELLED", Finish("cancelled", "CANCELLED"))
      \cup When(Stopped(r), Finish("blocked", "BLOCKED"))

CommonFailures(r) ==
    CancelledOrBlocked(r)
      \cup When(r.status \in {"FAILED", "TIMED_OUT"},
                Edge("failed", "FINALIZE", 10, "FAILED", "NONE"))

Straight(r, to) == When(Succeeded(r), Go("succeeded", to)) \cup CommonFailures(r)

-----------------------------------------------------------------------------
SelectWorkEdges(s, r) ==
    When(Succeeded(r) /\ s.item # NoItem, Go("found", "EXPLORE"))
      \cup When(Succeeded(r) /\ s.item = NoItem /\ s.completed = <<>>,
                Finish("noop", "COMPLETED"))
      \cup When(Succeeded(r) /\ s.item = NoItem /\ s.completed # <<>>,
                Go("delivery-complete", "DELIVERY_REVIEW"))
      \cup CommonFailures(r)

\* Mutant: critical risk goes straight to the write.
CriticalUnchecked(s, r) ==
    When(Succeeded(r) /\ s.risk # "NONE", Go("implement", "IMPLEMENT")) \cup CommonFailures(r)

AssessRiskEdges(s, r) ==
    When(Succeeded(r) /\ s.risk \in {"LOW", "MEDIUM", "HIGH"}, Go("implement", "IMPLEMENT"))
      \cup When(Succeeded(r) /\ s.risk = "CRITICAL", Checkpoint("critical", "IMPLEMENT"))
      \cup CommonFailures(r)

HumanCheckpointEdges(s, r) ==
    When(Succeeded(r) /\ r.outcome = "APPROVED" /\ s.pending = "IMPLEMENT",
         Go("IMPLEMENT", "IMPLEMENT"))
      \cup When(Succeeded(r) /\ r.outcome = "APPROVED" /\ s.pending = "CREATE_PR",
                Go("CREATE_PR", "CREATE_PR"))
      \cup When(Succeeded(r) /\ r.outcome = "REJECTED", Finish("rejected", "BLOCKED"))
      \cup When(Succeeded(r) /\ r.outcome = "CANCELLED", Finish("decided-cancelled", "CANCELLED"))
      \cup CommonFailures(r)

\* VALIDATE and REVIEW share the routing of what is not a verdict.
JudgementFailures(r) ==
    When(FailedIn(r, Repairable), Go("repairable-failure", "CLASSIFY_FAILURE"))
      \cup When(FailedIn(r, Fatal), Finish("fatal-failure", "FAILED"))
      \cup When(r.status = "TIMED_OUT", Finish("timeout", "FAILED"))
      \cup CancelledOrBlocked(r)

ValidateEdges(s, r) ==
    When(Succeeded(r) /\ s.validation = "PASS", Go("pass", "REVIEW"))
      \cup When(Succeeded(r) /\ s.validation = "FAIL", Go("reported-fail", "CLASSIFY_FAILURE"))
      \cup JudgementFailures(r)

ReviewEdges(s, r) ==
    When(Succeeded(r) /\ s.review = "PASS" /\ s.safeClose, Go("pass-close", "CLOSE_TASK"))
      \cup When(Succeeded(r) /\ s.review = "FAIL", Go("fail", "CLASSIFY_FAILURE"))
      \cup When(Succeeded(r) /\ s.review = "PASS" /\ ~s.safeClose, Finish("unsafe", "FAILED"))
      \cup JudgementFailures(r)

ClassifyFailureEdges(s, r) ==
    When(Succeeded(r) /\ s.class = "PROGRAMMER" /\ HasCapacity(s),
         Go("programmer", "PROGRAMMER_REPAIR"))
      \cup When(Succeeded(r) /\ s.class = "DEBUGGER" /\ HasCapacity(s), Go("debugger", "DEBUGGER"))
      \cup When(Succeeded(r) /\ ~HasCapacity(s), FinishFirst("limit-exhausted", "FAILED"))
      \cup CommonFailures(r)

MoreWorkEdges(s, r) ==
    When(Succeeded(r) /\ LimitReached(s), FinishFirst("limit", "PAUSED"))
      \cup When(Succeeded(r) /\ ~LimitReached(s) /\ s.available # {}, Go("next", "SELECT_WORK"))
      \cup When(Succeeded(r) /\ ~LimitReached(s) /\ s.available = {}, Go("empty", "DELIVERY_REVIEW"))
      \cup CommonFailures(r)

\* Mutant: a passed delivery is published without the checkpoint.
DeliveryUnapproved(s, r) ==
    When(Succeeded(r) /\ s.review = "PASS", Go("checkpoint", "CREATE_PR"))
      \cup When(Succeeded(r) /\ s.review = "FAIL", Finish("failed-verdict", "FAILED"))
      \cup CommonFailures(r)

DeliveryReviewEdges(s, r) ==
    When(Succeeded(r) /\ s.review = "PASS" /\ s.safePr, Checkpoint("checkpoint", "CREATE_PR"))
      \cup When(Succeeded(r) /\ s.review = "FAIL", Finish("failed-verdict", "FAILED"))
      \cup When(Succeeded(r) /\ s.review = "PASS" /\ ~s.safePr, Finish("unsafe", "FAILED"))
      \cup CommonFailures(r)

\* Mutant: an operational failure of the remote keeps the status of the run.
OperationalFailureKept(r) ==
    When(Succeeded(r), Go("succeeded", "FINALIZE"))
      \cup When(FailedIn(r, Operational), Go("operational-failure", "FINALIZE"))
      \cup When(FailedIn(r, FailureCategories \ Operational), Finish("terminal-failure", "FAILED"))
      \cup CancelledOrBlocked(r)

CreatePrEdges(r) ==
    When(Succeeded(r), Go("succeeded", "FINALIZE"))
      \cup When(FailedIn(r, Operational), Finish("operational-failure", "BLOCKED"))
      \cup When(FailedIn(r, FailureCategories \ Operational), Finish("terminal-failure", "FAILED"))
      \cup When(r.status = "TIMED_OUT", Finish("timeout", "BLOCKED"))
      \cup CancelledOrBlocked(r)

\* Mutant: two edges of one priority for a finished run.
FinalizeAmbiguous(r) ==
    {Terminal("end", "KEEP")}
      \cup When(r.status # "CANCELLED", Terminal("blocked-end", "BLOCKED"))

FinalizeEdges(r) ==
    When(Succeeded(r), Terminal("end", "KEEP"))
      \cup When(r.status \in {"FAILED", "TIMED_OUT"}, Terminal("failed-end", "FAILED"))
      \cup When(r.status = "CANCELLED", Terminal("cancelled-end", "CANCELLED"))
      \cup When(Stopped(r), Terminal("blocked-end", "BLOCKED"))

\* Mutant: repaired bytes go to review without validation.
RepairUnvalidated ==
    [START |-> "DISCOVER_PROJECT", DISCOVER_PROJECT |-> "PREFLIGHT",
     PREFLIGHT |-> "SELECT_WORK", EXPLORE |-> "BUILD_TASK_PACKAGE",
     BUILD_TASK_PACKAGE |-> "ASSESS_RISK", IMPLEMENT |-> "VALIDATE",
     PROGRAMMER_REPAIR |-> "REVIEW", DEBUGGER |-> "REVIEW", CLOSE_TASK |-> "MORE_WORK"]

StraightTarget ==
    [START |-> "DISCOVER_PROJECT", DISCOVER_PROJECT |-> "PREFLIGHT",
     PREFLIGHT |-> "SELECT_WORK", EXPLORE |-> "BUILD_TASK_PACKAGE",
     BUILD_TASK_PACKAGE |-> "ASSESS_RISK", IMPLEMENT |-> "VALIDATE",
     PROGRAMMER_REPAIR |-> "VALIDATE", DEBUGGER |-> "VALIDATE", CLOSE_TASK |-> "MORE_WORK"]

Outgoing(s, r) ==
    CASE s.node \in DOMAIN StraightTarget -> Straight(r, StraightTarget[s.node])
      [] s.node = "SELECT_WORK"      -> SelectWorkEdges(s, r)
      [] s.node = "ASSESS_RISK"      -> AssessRiskEdges(s, r)
      [] s.node = "HUMAN_CHECKPOINT" -> HumanCheckpointEdges(s, r)
      [] s.node = "VALIDATE"         -> ValidateEdges(s, r)
      [] s.node = "REVIEW"           -> ReviewEdges(s, r)
      [] s.node = "CLASSIFY_FAILURE" -> ClassifyFailureEdges(s, r)
      [] s.node = "MORE_WORK"        -> MoreWorkEdges(s, r)
      [] s.node = "DELIVERY_REVIEW"  -> DeliveryReviewEdges(s, r)
      [] s.node = "CREATE_PR"        -> CreatePrEdges(r)
      [] s.node = "FINALIZE"         -> FinalizeEdges(r)
      [] OTHER                       -> {}

-----------------------------------------------------------------------------
\* The state paths a node may patch; the rest of the table in the code names
\* paths this model abstracts away (repository, project, baseline, ...).
AllowedPaths(node) ==
    CASE node = "SELECT_WORK"        -> {"item", "available"}
      [] node = "EXPLORE"            -> {"explored"}
      [] node = "BUILD_TASK_PACKAGE" -> {"package"}
      [] node = "ASSESS_RISK"        -> {"risk"}
      [] node \in {"IMPLEMENT"} \cup RepairNodes -> {"changes"}
      [] node = "VALIDATE"           -> {"validation", "failure"}
      [] node = "REVIEW"             -> {"review", "safeClose", "failure"}
      [] node = "CLASSIFY_FAILURE"   -> {"class", "history"}
      [] node = "CLOSE_TASK"         -> {"item", "completed", "available"}
      [] node = "MORE_WORK"          -> {"item", "available"}
      [] node = "DELIVERY_REVIEW"    -> {"review", "safePr"}
      [] OTHER                       -> {}
=============================================================================
