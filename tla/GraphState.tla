----------------------------- MODULE GraphState -----------------------------
(***************************************************************************)
(* The canonical immutable GraphState of one run (core/state.py) and the   *)
(* policy that bounds it (core/policy.py), with the data abstracted to     *)
(* what routing and the properties tell apart.                             *)
(*                                                                         *)
(* Texts, paths and digests the nodes store are replaced by the work item  *)
(* they belong to: explored stands for scope, requirements and acceptance  *)
(* criteria (all written by EXPLORE), package for the task package,        *)
(* changes for the reported changes.  NoItem is Python's None.             *)
(***************************************************************************)
EXTENDS Integers, Sequences

CONSTANTS
    Items,        \* identities of the work items of the source
    NoItem,       \* absence of an item
    MaxRepair,    \* policy.max_repair_cycles
    MaxItems      \* policy.max_work_items_per_run

ASSUME NoItemAssumption == NoItem \notin Items

ASSUME PolicyAssumption == MaxRepair \in Nat /\ MaxItems \in Nat \ {0}

-----------------------------------------------------------------------------
Nodes == {"START", "DISCOVER_PROJECT", "PREFLIGHT", "SELECT_WORK", "EXPLORE",
          "BUILD_TASK_PACKAGE", "ASSESS_RISK", "HUMAN_CHECKPOINT", "IMPLEMENT",
          "VALIDATE", "REVIEW", "CLASSIFY_FAILURE", "PROGRAMMER_REPAIR",
          "DEBUGGER", "CLOSE_TASK", "MORE_WORK", "DELIVERY_REVIEW", "CREATE_PR",
          "FINALIZE", "END"}

RepairNodes == {"PROGRAMMER_REPAIR", "DEBUGGER"}

FailureCategories == {"IMPLEMENTATION", "DESIGN", "VALIDATION", "POLICY",
                      "CONTRACT", "INFRASTRUCTURE", "ENVIRONMENT",
                      "EXTERNAL_SERVICE", "INTERNAL"}

RunStatuses == {"RUNNING", "COMPLETED", "PAUSED", "BLOCKED", "FAILED", "CANCELLED"}

RiskLevels == {"LOW", "MEDIUM", "HIGH", "CRITICAL"}

Verdicts == {"UNKNOWN", "PASS", "FAIL"}

Classifications == {"PROGRAMMER", "DEBUGGER"}

RepairRecords == [id : Nat, classification : Classifications]

ItemOrNone   == Items \cup {NoItem}
NodeOrNone   == Nodes \cup {"NONE"}
RiskOrNone   == RiskLevels \cup {"NONE"}
ClassOrNone  == Classifications \cup {"NONE"}
FailureOrNone == FailureCategories \cup {"NONE"}
Routes       == {"NONE", "FAST", "HIGH"}
RepairCounts == 0 .. MaxRepair

State ==
    [node       : Nodes,                        \* graph.current_node
     prev       : NodeOrNone,                   \* graph.previous_node
     seq        : Nat,                          \* graph.transition_seq
     pending    : NodeOrNone,                   \* graph.pending_resume_node
     status     : RunStatuses,                  \* run.status
     item       : ItemOrNone,                   \* work.item
     completed  : Seq(Items),                   \* work.completed_items
     available  : SUBSET Items,                 \* work.available_items
     explored   : ItemOrNone,                   \* scope, requirements, acceptance
     package    : ItemOrNone,                   \* task_package
     changes    : ItemOrNone,                   \* changes
     locked     : BOOLEAN,                      \* scope.locked
     risk       : RiskOrNone,                   \* risk.level
     route      : Routes,                       \* risk.programmer_route
     validation : Verdicts,                     \* validation.verdict
     review     : Verdicts,                     \* review.verdict
     safeClose  : BOOLEAN,                      \* review.safe_to_close
     safePr     : BOOLEAN,                      \* review.safe_to_create_pr
     failure    : FailureOrNone,                \* failure.category
     count      : RepairCounts,                 \* repair.count, at most repair.max_cycles
     class      : ClassOrNone,                  \* repair.classification
     history    : Seq(RepairRecords)]           \* repair.history

\* GraphState.initial: a policy-aligned snapshot at START.
InitialState ==
    [node |-> "START", prev |-> "NONE", seq |-> 0, pending |-> "NONE",
     status |-> "RUNNING", item |-> NoItem, completed |-> <<>>, available |-> {},
     explored |-> NoItem, package |-> NoItem, changes |-> NoItem, locked |-> FALSE,
     risk |-> "NONE", route |-> "NONE", validation |-> "UNKNOWN",
     review |-> "UNKNOWN", safeClose |-> FALSE, safePr |-> FALSE,
     failure |-> "NONE", count |-> 0, class |-> "NONE", history |-> <<>>]

\* The identities of the items completed so far.
Done(s) == {s.completed[k] : k \in DOMAIN s.completed}
=============================================================================
