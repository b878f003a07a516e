------------------------- MODULE PublishCheckpoint -------------------------
(* The approval of a publication: the plan and the request a command of the run files  *)
(* (ensure_plan, PublishCheckpointController of write/publish.py), the decision an     *)
(* operator files through submit_checkpoint (write/runner.py), and the node that       *)
(* consumes it.  Requests and decisions are write-once (runtime/checkpoints.py).       *)
EXTENDS DeliveryReview

Outcomes == {"approved", "rejected", "cancelled"}

\* Mutant: only the beginning of the lifetime is checked.
NotBefore(time, request) == time >= request.created

\* A decision is made and, later, accepted only within the lifetime of its request.
InLifetime(time, request) == time >= request.created /\ time <= request.created + TTL

Expired(request) == clock > request.created + TTL

\* _validate_pr: the planned pull request, whoever opened it; its head is that of the branch
\* as long as there is one.
Exact(pr) == pr.exact /\ remote.branch # "other"

\* Mutant: the planned pull request is a conflict as well.
NoPullRequest == remote.prs = {}

\* _verify_pr_set: no open pull request from the branch, or exactly the planned one.
PullRequestsAdmit == remote.prs = {} \/ \E pr \in remote.prs : remote.prs = {pr} /\ Exact(pr)

BranchAdmits == remote.branch \in {None, "final"}

\* _delivery_authority and _verify_local: the delivery, still as it was reviewed.
AuthorityHolds ==
    /\ files.review # None /\ Restorable
    /\ files.review.verdict = "pass" /\ state.verdict = "PASS"
    /\ local.intact

\* decision_for_consumption: from the files alone, never the remote.
LocalDecision == IF files.plan # None /\ files.request # None THEN files.decision ELSE None

\* _load_decision
DecisionBinds == LocalDecision # None /\ InLifetime(files.decision.at, files.request)

-----------------------------------------------------------------------------
\* _publish_checkpoint_report, at the checkpoint after a transition or a resume: a
\* decision that is filed is consumed whatever the remote does ...
ConsumeDecision ==
    /\ DecisionBinds
    /\ Go("ask", "idle")
    /\ UNCHANGED <<journal, files, held, outside, effects>>

\* ... otherwise ensure_plan freezes the plan, with what the branch was at first, ...
PlanPublication ==
    /\ LocalDecision = None
    /\ AuthorityHolds /\ remote.planned /\ BranchAdmits
    /\ Go("ask", "planned")
    /\ PersistOnce("plan", IF files.plan = None THEN [before |-> remote.branch] ELSE files.plan)
    /\ UNCHANGED <<journal, held, outside, effects>>

\* ... and the request is materialized once, with its lifetime.
RequestApproval ==
    /\ PullRequestsAdmit
    /\ Go("planned", "requested")
    /\ PersistOnce("request", IF files.request = None THEN [created |-> clock]
                              ELSE files.request)
    /\ UNCHANGED <<journal, held, outside, effects>>

\* The caller is shown the request, or the node has to judge it.
AwaitApproval ==
    /\ pc = "requested"
    /\ IF files.decision = None /\ ~Expired(files.request)
         THEN Leave("approval required") /\ UNCHANGED state
         ELSE pc' = "idle" /\ UNCHANGED <<state, held, session, told>>
    /\ UNCHANGED <<journal, files, asks, outside, effects, bounded>>

\* The remote cannot be reached, or something is not as planned: the command returns
\* and the run waits where it is.
CannotAsk ==
    /\ pc \in {"ask", "planned"} /\ ~DecisionBinds
    /\ Leave("preparation blocked")
    /\ UNCHANGED <<state, journal, files, asks, outside, effects, bounded>>

-----------------------------------------------------------------------------
\* HumanCheckpointDispatchNode: the filed decision, and nothing but an expired request
\* leads here without one; what else goes wrong is also BLOCKED.
CheckpointNode ==
    /\ Records("checkpoint", IF DecisionBinds THEN files.decision.outcome ELSE "blocked")
    /\ UNCHANGED <<files, outside, effects>>

-----------------------------------------------------------------------------
\* submit_checkpoint.  A result that is recorded and not applied is applied first, and
\* then nothing can be pending.
SubmitReplays(o) ==
    /\ session = "nobody" /\ asks[o].phase = "ready"
    /\ ApplyRecorded
    /\ UNCHANGED <<files, pc, held, session, asks, outside, told, effects, bounded>>

\* _submit_request: materialized, undecided, and now is the time of the decision.
MayDecide ==
    /\ state.node = "HUMAN_CHECKPOINT" /\ journal \notin Results
    /\ LocalDecision = None /\ files.plan # None /\ files.request # None
    /\ InLifetime(clock, files.request)

Submit(o, outcome) ==
    /\ asks[o].phase = "ready"
    /\ OpenSession(o)
    /\ MayDecide
    /\ asks' = [asks EXCEPT ![o] =
                  [phase |-> "asks", decision |-> [outcome |-> outcome, at |-> clock]]]
    /\ UNCHANGED <<state, journal, files, pc, held, outside, told, effects, bounded>>

EndSubmission(o) ==
    /\ asks[o].phase = "asks"
    /\ asks' = [asks EXCEPT ![o] = [phase |-> "done", decision |-> None]]
    /\ session' = "nobody"
    /\ UNCHANGED <<state, journal, pc, held, outside, told, effects>>

\* write_decision_once, under the lock of the file itself.
FileDecision(o) ==
    /\ files.decision = None
    /\ files' = [files EXCEPT !.decision = asks[o].decision]

SubmissionEnds(o) ==
    /\ EndSubmission(o)
    /\ \/ FileDecision(o)
       \/ files.decision # None /\ UNCHANGED files
    /\ UNCHANGED bounded

\* The operator's process dies before or after the file is written.
SubmissionDies(o) ==
    /\ crashes < MaxCrashes /\ crashes' = crashes + 1
    /\ EndSubmission(o)
    /\ UNCHANGED files \/ FileDecision(o)
    /\ UNCHANGED meddles

AskForApproval ==
    ConsumeDecision \/ PlanPublication \/ RequestApproval \/ AwaitApproval \/ CannotAsk

AnswerRequest ==
    \E o \in Operators :
        \/ SubmitReplays(o)
        \/ \E outcome \in Outcomes : Submit(o, outcome)
        \/ SubmissionEnds(o) \/ SubmissionDies(o)
=============================================================================
