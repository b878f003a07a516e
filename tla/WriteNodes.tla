---------------------------- MODULE WriteNodes -----------------------------
(***************************************************************************)
(* What each node of a write run may return for a state s under the plan p *)
(* (nodes/deterministic.py, nodes/write_slice.py, write/multi_item.py,     *)
(* write/delivery_review.py, write/publish.py).  The agents, providers,    *)
(* validation commands, git and the remote are nondeterministic: every     *)
(* result their code paths can produce is in the set.                      *)
(***************************************************************************)
EXTENDS GraphEngine, WorkSelection, FiniteSets

FailedWith(categories) == {Failed(c) : c \in categories}

\* nodes._agent_failure: drift and evidence errors block, a bad response is a
\* design failure, anything else is infrastructure.
AgentFailure == {Blocked} \cup FailedWith({"INFRASTRUCTURE", "DESIGN"})

StartResults == {Ok(NoPatch)}

DiscoverProjectResults == {Ok(NoPatch)}

\* The assessment is made again on resume and may then not be ready.
PreflightResults == {Ok(NoPatch), Blocked}

\* MultiItemSelectWorkNode.run over the projected snapshot.
SelectWorkResults(p, s) ==
    LET done == Done(s)
        left == Remaining(p, done)
    IN  IF left = {} THEN {Ok([item |-> NoItem, available |-> left])}
        ELSE IF NextReady(p, done) = {} THEN {Blocked}
        ELSE {Ok([item |-> i, available |-> left]) : i \in NextReady(p, done)}

ExploreResults(s)          == {Ok([explored |-> s.item])} \cup AgentFailure

BuildTaskPackageResults(s) == {Ok([package |-> s.item])} \cup AgentFailure

\* A requested human checkpoint makes the level CRITICAL.
AssessRiskResults == {Ok([risk |-> level]) : level \in RiskLevels} \cup AgentFailure

\* HumanCheckpointDispatchNode.run: blocked when the evidence is invalid or the
\* request expired, else the durable decision if there is one.
HumanCheckpointResults(s) ==
    IF s.pending \in {"IMPLEMENT", "CREATE_PR"}
      THEN {Blocked, Undecided} \cup
           {Decided(outcome) : outcome \in {"APPROVED", "REJECTED", "CANCELLED"}}
      ELSE {Blocked}

ImplementResults(s) ==
    {Ok([changes |-> s.item]), Failed("IMPLEMENTATION")} \cup AgentFailure

ValidateResults ==
    {Ok([validation |-> "PASS", failure |-> "NONE"]),
     Ok([validation |-> "FAIL", failure |-> "VALIDATION"]),
     Failed("INFRASTRUCTURE"), Blocked}

ReviewResults ==
    {Ok([review |-> "PASS", safeClose |-> TRUE,  failure |-> "NONE"]),
     Ok([review |-> "FAIL", safeClose |-> FALSE, failure |-> "VALIDATION"]),
     Blocked} \cup FailedWith({"CONTRACT", "INFRASTRUCTURE"})

\* The GraphState part of WriteExecution.prepare_failure_context: the verdicts
\* and the ledger must tell the story of one failed cycle.
FailureContextAgrees(s) ==
    /\ Len(s.history) = s.count
    /\ \/ /\ s.prev = "VALIDATE"
          /\ s.validation = "FAIL"
          /\ s.failure \in Repairable
       \/ s.prev = "REVIEW" /\ s.validation = "PASS" /\ s.review = "FAIL"

RepairRecord(s, c) == [id |-> s.count + 1, classification |-> c]

Classified(s, c) == Ok([class |-> c, history |-> Append(s.history, RepairRecord(s, c))])

\* ClassifyFailureNode.run: without capacity an empty success, else a record
\* whose id must be new.
ClassifyFailureResults(s) ==
    IF s.count >= MaxRepair THEN {Ok(NoPatch)}
    ELSE IF ~FailureContextAgrees(s) THEN {Failed("INFRASTRUCTURE")}
    ELSE AgentFailure \cup
         {Classified(s, c) : c \in
            {c \in Classifications :
               /\ s.failure \in {"IMPLEMENTATION", "DESIGN"} => c = "PROGRAMMER"
               /\ \A k \in DOMAIN s.history : s.history[k].id # s.count + 1}}

\* The GraphState part of WriteExecution.repair: the newest record is the one
\* this cycle was classified with.
RepairContextAgrees(s) ==
    /\ s.count >= 1
    /\ Len(s.history) = s.count
    /\ LET newest == s.history[s.count]
       IN  /\ newest.id = s.count
           /\ s.node = (IF newest.classification = "PROGRAMMER"
                          THEN "PROGRAMMER_REPAIR" ELSE "DEBUGGER")

\* RepairNode.run; the changes of earlier cycles are extended, not replaced.
RepairResults(s) ==
    {Failed("IMPLEMENTATION"), Blocked} \cup
    (IF RepairContextAgrees(s) THEN {Ok([changes |-> s.changes])} ELSE {})

\* CloseTaskNode.run after a verified commit; a commit whose verification is
\* lost raises instead of returning and the run is recovered later.
CloseTaskResults(s) ==
    {Ok([item |-> NoItem, completed |-> Append(s.completed, s.item),
         available |-> s.available \ {s.item}]),
     Failed("INFRASTRUCTURE"), Blocked}

MoreWorkResults == {Ok(NoPatch)}

DeliveryReviewResults ==
    {Ok([review |-> "PASS", safePr |-> TRUE]), Ok([review |-> "FAIL", safePr |-> FALSE]),
     Blocked} \cup FailedWith({"CONTRACT", "INFRASTRUCTURE"})

CreatePrResults ==
    {Ok(NoPatch), Blocked} \cup FailedWith({"EXTERNAL_SERVICE", "ENVIRONMENT", "CONTRACT"})

FinalizeResults == {Ok(NoPatch)}

\* DynamicItemNode runs no node whose item is no longer the one the projected
\* snapshot selects (MultiItemExecution.activate).
Activated(p, s) ==
    /\ s.item # NoItem
    /\ s.item \notin Done(s)
    /\ Cardinality(Done(s)) = Len(s.completed)
    /\ s.item \in NextReady(p, Done(s))

OfItem(p, s, results) == IF Activated(p, s) THEN results \cup {Blocked} ELSE {Blocked}

-----------------------------------------------------------------------------
\* The results the node under the cursor may return; END runs nothing.
Results(p, s) ==
    CASE s.node = "START"              -> StartResults
      [] s.node = "DISCOVER_PROJECT"   -> DiscoverProjectResults
      [] s.node = "PREFLIGHT"          -> PreflightResults
      [] s.node = "SELECT_WORK"        -> SelectWorkResults(p, s)
      [] s.node = "EXPLORE"            -> OfItem(p, s, ExploreResults(s))
      [] s.node = "BUILD_TASK_PACKAGE" -> OfItem(p, s, BuildTaskPackageResults(s))
      [] s.node = "ASSESS_RISK"        -> OfItem(p, s, AssessRiskResults)
      [] s.node = "HUMAN_CHECKPOINT"   -> HumanCheckpointResults(s)
      [] s.node = "IMPLEMENT"          -> OfItem(p, s, ImplementResults(s))
      [] s.node = "VALIDATE"           -> OfItem(p, s, ValidateResults)
      [] s.node = "REVIEW"             -> OfItem(p, s, ReviewResults)
      [] s.node = "CLASSIFY_FAILURE"   -> OfItem(p, s, ClassifyFailureResults(s))
      [] s.node \in RepairNodes        -> OfItem(p, s, RepairResults(s))
      [] s.node = "CLOSE_TASK"         -> OfItem(p, s, CloseTaskResults(s))
      [] s.node = "MORE_WORK"          -> MoreWorkResults
      [] s.node = "DELIVERY_REVIEW"    -> DeliveryReviewResults
      [] s.node = "CREATE_PR"          -> CreatePrResults
      [] s.node = "FINALIZE"           -> FinalizeResults
      [] OTHER                         -> {}
=============================================================================
