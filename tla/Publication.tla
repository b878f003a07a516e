---------------------------- MODULE Publication ----------------------------
(***************************************************************************)
(* The end of a write run: the delivery review, the approval, and the push *)
(* and draft pull request of CREATE_PR (PublishExecution.execute in        *)
(* write/publish.py), with the commands that run and resume it             *)
(* (write/runner.py) and the reconciliation of what an interrupted command *)
(* may have left on the remote (assess_interrupted_side_effect).           *)
(*                                                                         *)
(* Every call of the remote may fail, before it had its effect or after.   *)
(***************************************************************************)
EXTENDS PublishCheckpoint

\* approved_for_create
Approved == DecisionBinds /\ files.decision.outcome = "approved"

\* _load_plan_for_execution, approved_for_create, _verify_local, _verify_remote_identity
MayPublish == files.plan # None /\ AuthorityHolds /\ Approved /\ remote.planned

\* _validate_push, with the branch as it is now.
PushBinds == files.push # None /\ remote.branch = "final"

\* _validate_pr_receipt: the one open pull request is the planned one of the receipt.
PullRequestBinds ==
    /\ files.pr # None
    /\ \E pr \in remote.prs : remote.prs = {pr} /\ Exact(pr) /\ pr.id = files.pr

\* _verify_completed; verify_result_for_recovery asks the same.
PublishedAsFiled ==
    MayPublish /\ files.result # None /\ PushBinds /\ PullRequestBinds

-----------------------------------------------------------------------------
\* execute: the authorities are verified; a filed result is verified and returned.
EnterPublication ==
    /\ MayPublish /\ files.result = None
    /\ Go("publish", "branch")
    /\ UNCHANGED <<journal, files, held, outside, effects>>

ResultReturned ==
    /\ PublishedAsFiled
    /\ Records("publish", "ok")
    /\ UNCHANGED <<files, outside, effects>>

\* The branch is read before anything is pushed.
BranchRead ==
    /\ BranchAdmits
    /\ IF files.push # None THEN PushBinds /\ Go("branch", "find")
       ELSE Go("branch", IF remote.branch = None THEN "push" ELSE "verify-push")
    /\ UNCHANGED <<journal, files, held, outside, effects>>

\* git push without force: refused if somebody else was faster.
Pushes ==
    /\ BranchAdmits
    /\ remote' = [remote EXCEPT !.branch = "final"]
    /\ effects' = [effects EXCEPT !.pushed = @ + 1]

Push ==
    /\ Pushes
    /\ Go("push", "verify-push")
    /\ UNCHANGED <<journal, files, held, local, clock>>

\* The branch is read again, and the receipt says what was seen.
FilePush ==
    /\ remote.branch = "final"
    /\ Go("verify-push", "find")
    /\ PersistOnce("push", "final")
    /\ UNCHANGED <<journal, held, outside, effects>>

\* A receipt is validated; without one the planned pull request is adopted, or created.
PullRequestFiled ==
    /\ files.pr # None /\ PullRequestBinds
    /\ Go("find", "verify")
    /\ UNCHANGED <<journal, files, held, outside, effects>>

AdoptPullRequest ==
    /\ Go("find", "file-pr")
    /\ files.pr = None
    /\ \E pr \in remote.prs : remote.prs = {pr} /\ Exact(pr) /\ held' = pr.id
    /\ UNCHANGED <<journal, files, outside, effects>>

\* Mutant: an open pull request is not looked for.
FindsNothing == files.pr = None

FindsNone == files.pr = None /\ remote.prs = {}

NoPullRequestFound ==
    /\ FindsNone
    /\ Go("find", "create")
    /\ UNCHANGED <<journal, files, held, outside, effects>>

\* The remote opens a draft of the branch as it is when the request arrives.
Opens ==
    LET pr == [id |-> remote.opened, ours |-> TRUE, exact |-> TRUE]
    IN  /\ remote.branch # None
        /\ remote' = [remote EXCEPT !.opened = @ + 1, !.prs = @ \cup {pr}]
        /\ effects' = [effects EXCEPT !.created = @ + 1]

\* _validate_pr of what the remote answered.
CreatePullRequest ==
    /\ Opens
    /\ Go("create", "created")
    /\ held' = remote.opened
    /\ UNCHANGED <<journal, files, local, clock>>

CreatedAsPlanned ==
    /\ remote.branch = "final"
    /\ Go("created", "file-pr")
    /\ UNCHANGED <<journal, files, held, outside, effects>>

FilePullRequest ==
    /\ Go("file-pr", "verify")
    /\ PersistOnce("pr", held)
    /\ held' = None
    /\ UNCHANGED <<journal, outside, effects>>

\* Mutant: the result is filed before the receipt of the pull request.
FileResultEarly ==
    /\ pc \in {"find", "verify"}
    /\ Go(pc, "published")
    /\ PersistOnce("result", "final")
    /\ UNCHANGED <<journal, held, outside, effects>>

\* The workspace and the branch once more, then the result.
FileResult ==
    /\ local.intact /\ remote.branch = "final"
    /\ Go("verify", "published")
    /\ PersistOnce("result", "final")
    /\ UNCHANGED <<journal, held, outside, effects>>

ReturnPublished ==
    /\ Records("published", "ok")
    /\ UNCHANGED <<files, outside, effects>>

-----------------------------------------------------------------------------
GitSteps      == {"branch", "push", "verify-push", "verify"}
ProviderSteps == {"publish", "find", "create"}

\* CreatePullRequestNode: a conflict, git or a remote that fails end the run blocked,
\* an answer of the remote that breaks its contract ends it failed.
CallFails ==
    /\ \/ pc \in GitSteps \cup ProviderSteps /\ Records(pc, "blocked")
       \/ pc \in ProviderSteps /\ Records(pc, "failed")
       \/ pc = "created" /\ remote.branch # "final" /\ Records(pc, "blocked")
    /\ UNCHANGED <<files, outside, effects>>

\* The call failed, but only after the branch or the pull request was there.
AnswerLost ==
    /\ \/ pc = "push" /\ Pushes /\ Records(pc, "blocked")
       \/ pc = "create" /\ Opens /\ \E result \in {"blocked", "failed"} : Records(pc, result)
    /\ UNCHANGED <<files, local, clock>>

\* What is on the remote or here is not what the evidence says.
Unproven ==
    CASE pc = "publish"     -> ~MayPublish \/ (files.result # None /\ ~PublishedAsFiled)
      [] pc = "branch"      -> files.push # None /\ ~PushBinds
      [] pc = "verify-push" -> remote.branch # "final"
      [] pc = "find"        -> files.pr # None /\ ~PullRequestBinds
      [] pc = "verify"      -> ~local.intact \/ remote.branch # "final"
      [] OTHER              -> FALSE

EndsFailed ==
    /\ Unproven
    /\ Records(pc, "failed")
    /\ UNCHANGED <<files, outside, effects>>

\* An endpoint that changed in a way the node does not expect: the error leaves the
\* command in the middle of the node.
Escapes ==
    /\ pc = "publish" /\ ~remote.planned
    /\ Leave("raised")
    /\ UNCHANGED <<state, journal, files, asks, outside, effects, bounded>>

Publish ==
    \/ EnterPublication \/ ResultReturned \/ BranchRead \/ Push \/ FilePush
    \/ PullRequestFiled \/ AdoptPullRequest \/ NoPullRequestFound
    \/ CreatePullRequest \/ CreatedAsPlanned \/ FilePullRequest
    \/ FileResult \/ ReturnPublished

PublishFails == CallFails \/ AnswerLost \/ EndsFailed \/ Escapes

-----------------------------------------------------------------------------
\* _continue: the next node is started; before the delivery review what is filed of it
\* must be restorable.
StartNode ==
    /\ state.node # "DELIVERY_REVIEW" \/ Rehydrates
    /\ journal \in {"clean", "started"} /\ journal' = "started"
    /\ Go("idle", CASE state.node = "DELIVERY_REVIEW" -> "review"
                    [] state.node = "HUMAN_CHECKPOINT" -> "checkpoint"
                    [] state.node = "CREATE_PR" -> "publish"
                    [] OTHER -> "finalize")
    /\ UNCHANGED <<files, held, outside, effects>>

CannotStart ==
    /\ pc = "idle" /\ state.node = "DELIVERY_REVIEW" /\ ~Rehydrates
    /\ Leave("recovery required")
    /\ UNCHANGED <<state, journal, files, asks, outside, effects, bounded>>

FinalizeNode ==
    /\ Records("finalize", "ok")
    /\ UNCHANGED <<files, outside, effects>>

Commit ==
    /\ pc = "recorded"
    /\ ApplyRecorded
    /\ pc' = CASE state'.node = "END" -> "report"
               [] state'.node = "HUMAN_CHECKPOINT" -> "ask"
               [] OTHER -> "idle"
    /\ UNCHANGED <<files, held, session, asks, outside, told, effects, bounded>>

\* _report at END: a completed run is a draft pull request only with its whole chain of
\* evidence, verified here and not at the remote.
ChainHolds ==
    /\ AuthorityHolds /\ files.plan # None /\ Approved
    /\ files.push # None /\ files.pr # None /\ files.result # None

Report ==
    /\ pc = "report"
    /\ Leave(IF files.plan # None /\ ~AuthorityHolds THEN "recovery required"
             ELSE IF state.status # "completed" THEN state.status
             ELSE IF ChainHolds THEN "draft pull request" ELSE "recovery required")
    /\ UNCHANGED <<state, journal, files, asks, outside, effects, bounded>>

-----------------------------------------------------------------------------
\* WriteSliceRunner.resume
Resume ==
    /\ pc = "none"
    /\ OpenSession("run")
    /\ pc' = "resume" /\ told' = "nothing"
    /\ UNCHANGED <<state, journal, files, held, asks, outside, effects, bounded>>

\* A recorded result is applied; a publication it may stand for is verified first.
Replay ==
    /\ pc = "resume"
    /\ state.node \in {"CREATE_PR", "FINALIZE"} /\ files.result # None => PublishedAsFiled
    /\ ApplyRecorded
    /\ pc' = "rehydrate"
    /\ UNCHANGED <<files, held, session, asks, outside, told, effects, bounded>>

\* assess_interrupted_side_effect: everything the remote has of this publication is
\* what the evidence says, so execute may be run again.
SafeToRerun ==
    /\ MayPublish
    /\ BranchAdmits /\ PullRequestsAdmit
    /\ files.push # None => PushBinds
    /\ files.pr # None => PullRequestBinds
    /\ files.result # None => files.push # None /\ files.pr # None

Assess ==
    /\ journal \notin Results
    /\ state.node = "CREATE_PR" /\ journal = "started" => SafeToRerun
    /\ Go("resume", "rehydrate")
    /\ UNCHANGED <<journal, files, held, outside, effects>>

\* The delivery review is restored, and the run goes on where it was.
Rehydrate ==
    /\ Rehydrates
    /\ Go("rehydrate", CASE state.node = "END" -> "report"
                         [] state.node = "HUMAN_CHECKPOINT" -> "ask"
                         [] OTHER -> "idle")
    /\ UNCHANGED <<journal, files, held, outside, effects>>

\* Not verified, not safe, not restorable, or the remote does not answer.
RecoveryRequired ==
    /\ \/ pc = "resume" /\ journal \in Results /\ files.result # None
       \/ pc = "resume" /\ journal = "started" /\ state.node = "CREATE_PR"
       \/ pc = "rehydrate" /\ ~Rehydrates
    /\ Leave("recovery required")
    /\ UNCHANGED <<state, journal, files, asks, outside, effects, bounded>>

-----------------------------------------------------------------------------
Step == StartNode \/ FinalizeNode \/ Commit \/ ReviewDelivery \/ CheckpointNode \/ Publish

Resuming == Resume \/ Replay \/ Assess \/ Rehydrate \/ RecoveryRequired

Command == Step \/ PublishFails \/ CannotStart \/ Report \/ Resuming \/ AskForApproval

Next == Command \/ AnswerRequest \/ Environment

Spec == Init /\ [][Next]_vars

\* A process goes on, the run is resumed, a submission ends, and a remote that is asked
\* again and again answers.
FairSpec ==
    /\ Spec
    /\ WF_vars(Command) /\ WF_vars(\E o \in Operators : SubmissionEnds(o))
    /\ SF_vars(Assess) /\ SF_vars(Replay)

-----------------------------------------------------------------------------
Ours == {pr \in remote.prs : pr.ours}

(* "creates or adopts exactly one matching GitHub draft PR" (README): two open pull     *)
(* requests of one run never exist, wherever a command died, whichever answer was lost *)
(* and whatever others did on the remote (execute, assess_interrupted_side_effect).    *)
OnePullRequest == Cardinality(Ours) <= 1

(* Nothing reaches the remote unless the delivery passed its review and an operator    *)
(* approved the plan within the lifetime of the request.                               *)
PublishedAsApproved ==
    effects.pushed + effects.created > 0 =>
        /\ files.review = [mechanical |-> {}, verdict |-> "pass"]
        /\ state.verdict = "PASS"
        /\ files.plan # None /\ files.request # None /\ files.decision # None
        /\ files.decision.outcome = "approved"
        /\ files.decision.at \in files.request.created .. files.request.created + TTL

(* A command says DRAFT_PR_CREATED, and a run is completed after a passed review, only *)
(* with the receipts of the push and of a pull request that was opened, by the run or  *)
(* by somebody else.  When nobody else changed anything, the run opened exactly one,   *)
(* however many answers were lost, and it is still open as planned on the final head.  *)
PublicationProved ==
    state.status = "completed" \/ told = "draft pull request" \/ files.result # None =>
        /\ files.result # None /\ files.push # None /\ files.pr # None
        /\ files.pr < remote.opened
        /\ meddles = 0 =>
             effects.created = 1 /\ remote.branch = "final" /\ PullRequestBinds

(* The verdict the graph goes by is the one filed, after every crash and rerun of the  *)
(* review.  As long as nobody else changed anything, every later command restores what *)
(* is filed and finds that the state agrees, unless the mechanical gates had findings, *)
(* which no command restores (_restore_completed, _reconcile_state).                   *)
VerdictIsFiled ==
    /\ state.verdict = "PASS" => files.review # None /\ files.review.verdict = "pass"
    /\ state.verdict = "FAIL" => files.review # None /\ files.review.verdict = "fail"
    /\ files.review # None /\ meddles = 0 =>
         Restorable \/ files.review.mechanical # {}

(* The first decision stands, also against one submitted at the same time; the run     *)
(* leaves the checkpoint as it says, however late it is consumed, and without one only *)
(* when the request expired: no failure of the remote ends the wait                    *)
(* (test_remote_operational_failure_is_nonterminal_and_retryable).                     *)
DecisionStands ==
    [][/\ files.decision # None => files'.decision = files.decision
       /\ state.node = "HUMAN_CHECKPOINT" /\ state'.node # state.node =>
            IF files.decision # None THEN journal = files.decision.outcome
            ELSE journal = "blocked" /\ files.request # None /\ Expired(files.request)]_vars

(* An approved publication is reconciled and ends, whenever its process died and       *)
(* whichever call failed, unless somebody else changed the workspace or the remote.    *)
ApprovedConcludes == Approved ~> (state.node = "END" \/ meddles > 0)
=============================================================================
