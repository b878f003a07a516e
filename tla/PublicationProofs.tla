------------------------- MODULE PublicationProofs -------------------------
(* Publication: one pull request of the run, the verdict as filed, and nothing on the    *)
(* remote that was not reviewed and approved, for any number of operators, crashes and   *)
(* meddles, any lifetime of a request and any clock.                                     *)
EXTENDS Publication, FiniteSetTheorems, TLAPS

ReviewSteps == {"review", "guard", "reviewer", "file-review", "reviewed"}

PublishSteps == {"branch", "push", "verify-push", "find", "create", "created", "file-pr",
                 "verify", "published"}

ReviewFiles == {review \in [mechanical : {{}, {"gate_failed"}, {"flaw"}},
                            verdict : {"pass", "fail", "blocked"}] :
                  review.verdict = "pass" => review.mechanical = {}}

Decisions == [outcome : Outcomes, at : Nat]

PullRequests == [id : Nat, ours : BOOLEAN, exact : BOOLEAN]

\* The types the steps rely on; a request and a decision carry times of the clock.
FileInv ==
    /\ DOMAIN files = DOMAIN NoFiles
    /\ files.review \in ReviewFiles \cup {None}
    /\ files.request \in [created : Nat] \cup {None}
    /\ files.decision \in Decisions \cup {None}
    /\ clock \in Nat
    /\ effects \in [pushed : Nat, created : Nat]
    /\ remote \in [planned : BOOLEAN, branch : {None, "final", "other"},
                   prs : SUBSET PullRequests, opened : Nat]

\* One command at a time: of the run, or of the operator who is about to decide.
SessionInv ==
    /\ pc # "none" => session = "run"
    /\ asks \in [Operators -> [phase : {"ready", "asks", "done"},
                           decision : Decisions \cup {None}]]
    /\ \A o \in Operators :
         asks[o].phase = "asks" => session = o /\ asks[o].decision \in Decisions

\* The review belongs to its node, and its verdict is filed before it is recorded.
ReviewInv ==
    /\ {"node", "status", "verdict"} \subseteq DOMAIN state
    /\ pc \in ReviewSteps => state.node = "DELIVERY_REVIEW" /\ journal = "started"
    /\ pc \in {"file-review", "reviewed"} => held \in ReviewFiles
    /\ pc = "reviewed" => files.review = held
    /\ journal \in {"pass", "fail"} =>
         /\ state.node = "DELIVERY_REVIEW"
         /\ files.review # None /\ files.review.verdict = journal
    /\ state.verdict # "UNKNOWN" => state.node # "DELIVERY_REVIEW"
    /\ state.verdict = "PASS" => files.review # None /\ files.review.verdict = "pass"
    /\ state.verdict = "FAIL" => files.review # None /\ files.review.verdict = "fail"

\* Review and approval as the publication needs them; none of it is ever taken back.
Authorized ==
    /\ files.review # None /\ files.review.verdict = "pass" /\ state.verdict = "PASS"
    /\ files.plan # None /\ files.request # None /\ files.decision # None
    /\ files.decision.outcome = "approved"
    /\ InLifetime(files.decision.at, files.request)

PublishInv ==
    pc \in PublishSteps \/ effects.pushed > 0 \/ effects.created > 0 => Authorized

\* A pull request is only created while no pull request of the run is open.
PullRequestInv ==
    /\ \A p, q \in remote.prs : p.ours /\ q.ours => p = q
    /\ pc = "create" => \A p \in remote.prs : ~p.ours

IInv == FileInv /\ SessionInv /\ ReviewInv /\ PublishInv /\ PullRequestInv

-----------------------------------------------------------------------------
USE DeliveryAssumption

(* The review has not begun, and nobody has asked for anything.                          *)
LEMMA InitIInv == Init => IInv
<1> SUFFICES ASSUME Init PROVE IInv
  OBVIOUS
<1> USE DEF IInv, Init, NoFiles, NoRemote
<1>1. FileInv
  BY DEF FileInv
<1>2. SessionInv
  BY DEF SessionInv, Decisions
<1>3. ReviewInv
  BY DEF ReviewInv, ReviewSteps
<1>4. PublishInv
  BY DEF PublishInv, PublishSteps
<1>5. PullRequestInv
  BY DEF PullRequestInv
<1>6. QED
  BY <1>1, <1>2, <1>3, <1>4, <1>5

(* The process moves on, at most filing something that nothing else is filed in place of. *)
LEMMA MoveStep ==
    ASSUME IInv, UNCHANGED <<state, journal, session, asks, remote, clock, effects>>,
           pc # "none", pc' # "reviewed", pc' \in ReviewSteps => pc \in ReviewSteps,
           pc' = "file-review" => held' \in ReviewFiles,
           pc' \in PublishSteps => pc \in PublishSteps \/ Authorized,
           pc' = "create" => remote.prs = {},
           DOMAIN files' = DOMAIN files,
           files'.review = files.review, files'.decision = files.decision,
           files.plan # None => files'.plan = files.plan,
           files.request # None => files'.request = files.request,
           files'.request \in [created : Nat] \cup {None}
    PROVE  IInv'
<1> USE DEF IInv
<1>1. FileInv'
  BY DEF FileInv
<1>2. SessionInv'
  BY DEF SessionInv
<1>3. ReviewInv'
  BY DEF ReviewInv, ReviewSteps
<1>4. PublishInv'
  BY DEF PublishInv, Authorized, InLifetime
<1>5. PullRequestInv'
  BY DEF PullRequestInv
<1>6. QED
  BY <1>1, <1>2, <1>3, <1>4, <1>5

(* A node ends with a result; of a review it is the verdict that is filed.               *)
LEMMA RecordStep ==
    ASSUME IInv, UNCHANGED <<state, files, session, asks, remote, clock, effects>>,
           pc # "none", pc' = "recorded",
           journal' \in {"pass", "fail"} =>
             /\ state.node = "DELIVERY_REVIEW"
             /\ files.review # None /\ files.review.verdict = journal'
    PROVE  IInv'
<1> USE DEF IInv
<1>1. FileInv'
  BY DEF FileInv
<1>2. SessionInv'
  BY DEF SessionInv
<1>3. ReviewInv'
  BY DEF ReviewInv, ReviewSteps
<1>4. PublishInv'
  BY DEF PublishInv, Authorized, InLifetime, PublishSteps
<1>5. PullRequestInv'
  BY DEF PullRequestInv
<1>6. QED
  BY <1>1, <1>2, <1>3, <1>4, <1>5

(* The process is gone, and what it knew.                                                *)
LEMMA LeaveStep ==
    ASSUME IInv, UNCHANGED <<state, journal, files, asks, remote, clock, effects>>,
           pc # "none", pc' = "none"
    PROVE  IInv'
<1> USE DEF IInv
<1>1. FileInv'
  BY DEF FileInv
<1>2. SessionInv'
  BY DEF SessionInv
<1>3. ReviewInv'
  BY DEF ReviewInv, ReviewSteps
<1>4. PublishInv'
  BY DEF PublishInv, Authorized, InLifetime, PublishSteps
<1>5. PullRequestInv'
  BY DEF PullRequestInv
<1>6. QED
  BY <1>1, <1>2, <1>3, <1>4, <1>5

(* The recorded result is applied while nothing is under way in the process.             *)
LEMMA ApplyStep ==
    ASSUME IInv, ApplyRecorded, UNCHANGED <<files, session, asks, remote, clock, effects>>,
           pc' \notin ReviewSteps \cup PublishSteps,
           pc' # "none" => session = "run"
    PROVE  IInv'
<1> USE DEF IInv
<1>1. FileInv'
  BY DEF FileInv
<1>2. SessionInv'
  BY DEF SessionInv
<1>3. ReviewInv'
  BY DEF ReviewInv, ApplyRecorded, Results, Target, ReviewSteps
<1>4. PublishInv'
  BY DEF PublishInv, ReviewInv, ApplyRecorded, Results, Authorized, InLifetime
<1>5. PullRequestInv'
  BY DEF PullRequestInv, PublishSteps
<1>6. QED
  BY <1>1, <1>2, <1>3, <1>4, <1>5

-----------------------------------------------------------------------------
(* The delivery review files its verdict once, and then returns it.                      *)
LEMMA ReviewDeliveryStep == IInv /\ ReviewDelivery => IInv'
<1>1. ASSUME IInv, RestoreReview PROVE IInv'
  BY <1>1, RecordStep
     DEF RestoreReview, ResultOf, Records, Go, outside, bounded, IInv, FileInv, SessionInv,
         ReviewInv, PublishInv, ReviewSteps, ReviewFiles
<1>2. ASSUME IInv, Prepare PROVE IInv'
  <2>1. held' \in ReviewFiles \/ pc' # "file-review"
    BY <1>2 DEF Prepare, Findings, ReviewFiles, Go
  <2>2. QED
    BY <1>2, <2>1, MoveStep
       DEF Prepare, PersistOnce, Go, outside, bounded, IInv, FileInv, SessionInv, ReviewInv,
           PublishInv, ReviewSteps, PublishSteps, NoFiles
<1>3. ASSUME IInv, PrepareDisagrees PROVE IInv'
  BY <1>3, RecordStep
     DEF PrepareDisagrees, Records, Go, outside, bounded
<1>4. ASSUME IInv, Guard PROVE IInv'
  BY <1>4, MoveStep, RecordStep
     DEF Guard, Records, Go, outside, bounded, IInv, FileInv, SessionInv, ReviewInv, PublishInv,
         ReviewSteps, PublishSteps
<1>5. ASSUME IInv, ReviewerAnswers PROVE IInv'
  BY <1>5, MoveStep
     DEF ReviewerAnswers, ReviewFiles, Go, outside, bounded, IInv, FileInv, SessionInv,
         ReviewInv, PublishInv, ReviewSteps, PublishSteps
<1>6. ASSUME IInv, ReviewerFails PROVE IInv'
  BY <1>6, RecordStep
     DEF ReviewerFails, Records, Go, outside, bounded
<1>7. ASSUME IInv, FileReview PROVE IInv'
  <2> USE <1>7 DEF IInv
  <2>0. /\ pc = "file-review" /\ pc' = "reviewed" /\ files' = [files EXCEPT !.review = held]
        /\ held' = held
        /\ UNCHANGED <<state, journal, session, asks, remote, clock, effects>>
    BY DEF FileReview, PersistOnce, Go, outside
  <2>1. FileInv'
    BY <2>0 DEF FileInv, ReviewInv, ReviewFiles, NoFiles
  <2>2. SessionInv'
    BY <2>0 DEF SessionInv
  <2>3. ReviewInv'
    BY <2>0 DEF ReviewInv, ReviewSteps, FileInv, NoFiles
  <2>4. PublishInv'
    BY <2>0 DEF PublishInv, ReviewInv, ReviewSteps, PublishSteps, Authorized
  <2>5. PullRequestInv'
    BY <2>0 DEF PullRequestInv
  <2>6. QED
    BY <2>1, <2>2, <2>3, <2>4, <2>5
<1>8. ASSUME IInv, ReturnReview PROVE IInv'
  BY <1>8, RecordStep
     DEF ReturnReview, Records, Go, outside, bounded, IInv, FileInv, SessionInv, ReviewInv,
         PublishInv, ReviewSteps, ReviewFiles
<1>9. QED
  BY <1>1, <1>2, <1>3, <1>4, <1>5, <1>6, <1>7, <1>8 DEF ReviewDelivery

(* Plan and request are filed once; the caller is told what is missing.                  *)
LEMMA AskForApprovalStep == IInv /\ AskForApproval => IInv'
<1>1. ASSUME IInv, ConsumeDecision PROVE IInv'
  BY <1>1, MoveStep
     DEF ConsumeDecision, Go, outside, bounded, IInv, FileInv, SessionInv, ReviewInv,
         PublishInv, ReviewSteps, PublishSteps
<1>2. ASSUME IInv, PlanPublication PROVE IInv'
  BY <1>2, MoveStep
     DEF PlanPublication, PersistOnce, Go, outside, bounded, IInv, FileInv, SessionInv,
         ReviewInv, PublishInv, ReviewSteps, PublishSteps, NoFiles
<1>3. ASSUME IInv, RequestApproval PROVE IInv'
  BY <1>3, MoveStep
     DEF RequestApproval, PersistOnce, Go, outside, bounded, IInv, FileInv, SessionInv,
         ReviewInv, PublishInv, ReviewSteps, PublishSteps, NoFiles
<1>4. ASSUME IInv, AwaitApproval PROVE IInv'
  BY <1>4, MoveStep, LeaveStep
     DEF AwaitApproval, Leave, outside, bounded, IInv, FileInv, SessionInv, ReviewInv,
         PublishInv, ReviewSteps, PublishSteps
<1>5. ASSUME IInv, CannotAsk PROVE IInv'
  BY <1>5, LeaveStep
     DEF CannotAsk, Leave, outside, bounded
<1>6. QED
  BY <1>1, <1>2, <1>3, <1>4, <1>5 DEF AskForApproval

(* The branch is pushed by a process that is authorized.                                 *)
LEMMA PushesStep ==
    ASSUME IInv, Pushes, UNCHANGED <<state, files, session, asks, clock>>,
           pc = "push", pc' \in {"verify-push", "recorded"},
           journal' = journal \/ journal' \notin {"pass", "fail"}
    PROVE  IInv'
<1> USE DEF IInv, Pushes
<1>1. FileInv'
  BY DEF FileInv
<1>2. SessionInv'
  BY DEF SessionInv
<1>3. ReviewInv'
  BY DEF ReviewInv, ReviewSteps
<1>4. PublishInv'
  BY DEF PublishInv, Authorized, InLifetime, PublishSteps
<1>5. PullRequestInv'
  BY DEF FileInv, PullRequestInv
<1>6. QED
  BY <1>1, <1>2, <1>3, <1>4, <1>5

(* A pull request is opened where there was none of the run.                             *)
LEMMA OpensStep ==
    ASSUME IInv, Opens, UNCHANGED <<state, files, session, asks, clock>>,
           pc = "create", pc' \in {"created", "recorded"},
           journal' = journal \/ journal' \notin {"pass", "fail"}
    PROVE  IInv'
<1> USE DEF IInv
<1> DEFINE pr == [id |-> remote.opened, ours |-> TRUE, exact |-> TRUE]
<1>a. /\ remote' = [remote EXCEPT !.opened = @ + 1, !.prs = @ \cup {pr}]
      /\ effects' = [effects EXCEPT !.created = @ + 1]
  BY DEF Opens
<1>b. pr \in PullRequests
  BY DEF FileInv, PullRequests
<1> HIDE DEF pr
<1>1. FileInv'
  <2>1. remote.opened + 1 \in Nat /\ remote.prs \cup {pr} \in SUBSET PullRequests
    BY <1>b DEF FileInv
  <2>2. remote' \in [planned : BOOLEAN, branch : {None, "final", "other"},
                    prs : SUBSET PullRequests, opened : Nat]
    BY <1>a, <2>1 DEF FileInv
  <2>3. effects' \in [pushed : Nat, created : Nat]
    BY <1>a DEF FileInv
  <2>4. QED
    BY <2>2, <2>3 DEF FileInv
<1>2. SessionInv'
  BY DEF SessionInv
<1>3. ReviewInv'
  BY DEF ReviewInv, ReviewSteps
<1>4. PublishInv'
  BY <1>a, <1>b DEF FileInv, PublishInv, Authorized, InLifetime, PublishSteps
<1>5. PullRequestInv'
  BY <1>a, <1>b DEF FileInv, PullRequestInv
<1>6. QED
  BY <1>1, <1>2, <1>3, <1>4, <1>5

(* Nothing is published before the authorities were verified, nor created blindly.       *)
LEMMA PublishStep == IInv /\ Publish => IInv'
<1>1. ASSUME IInv, EnterPublication PROVE IInv'
  BY <1>1, MoveStep
     DEF EnterPublication, MayPublish, AuthorityHolds, Approved, DecisionBinds, LocalDecision,
         Authorized, Go, outside, bounded, IInv, FileInv, SessionInv, ReviewInv, PublishInv,
         ReviewSteps, PublishSteps
<1>2. ASSUME IInv, ResultReturned PROVE IInv'
  BY <1>2, RecordStep
     DEF ResultReturned, Records, Go, outside, bounded
<1>3. ASSUME IInv, BranchRead PROVE IInv'
  BY <1>3, MoveStep
     DEF BranchRead, Go, outside, bounded, IInv, FileInv, SessionInv, ReviewInv, PublishInv,
         ReviewSteps, PublishSteps
<1>4. ASSUME IInv, FilePush PROVE IInv'
  BY <1>4, MoveStep
     DEF FilePush, PersistOnce, Go, outside, bounded, IInv, FileInv, SessionInv, ReviewInv,
         PublishInv, ReviewSteps, PublishSteps, NoFiles
<1>5. ASSUME IInv, PullRequestFiled PROVE IInv'
  BY <1>5, MoveStep
     DEF PullRequestFiled, Go, outside, bounded, IInv, FileInv, SessionInv, ReviewInv,
         PublishInv, ReviewSteps, PublishSteps
<1>6. ASSUME IInv, AdoptPullRequest PROVE IInv'
  BY <1>6, MoveStep
     DEF AdoptPullRequest, Go, outside, bounded, IInv, FileInv, SessionInv, ReviewInv,
         PublishInv, ReviewSteps, PublishSteps
<1>7. ASSUME IInv, NoPullRequestFound PROVE IInv'
  BY <1>7, MoveStep
     DEF NoPullRequestFound, FindsNone, Go, outside, bounded, IInv, FileInv, SessionInv,
         ReviewInv, PublishInv, ReviewSteps, PublishSteps
<1>8. ASSUME IInv, CreatedAsPlanned PROVE IInv'
  BY <1>8, MoveStep
     DEF CreatedAsPlanned, Go, outside, bounded, IInv, FileInv, SessionInv, ReviewInv,
         PublishInv, ReviewSteps, PublishSteps
<1>9. ASSUME IInv, FilePullRequest PROVE IInv'
  BY <1>9, MoveStep
     DEF FilePullRequest, PersistOnce, Go, outside, bounded, IInv, FileInv, SessionInv,
         ReviewInv, PublishInv, ReviewSteps, PublishSteps, NoFiles
<1>10. ASSUME IInv, FileResult PROVE IInv'
  BY <1>10, MoveStep
     DEF FileResult, PersistOnce, Go, outside, bounded, IInv, FileInv, SessionInv, ReviewInv,
         PublishInv, ReviewSteps, PublishSteps, NoFiles
<1>11. ASSUME IInv, ReturnPublished PROVE IInv'
  BY <1>11, RecordStep
     DEF ReturnPublished, Records, Go, outside, bounded
<1>12. ASSUME IInv, Push PROVE IInv'
  BY <1>12, PushesStep
     DEF Push, Go, outside, bounded
<1>13. ASSUME IInv, CreatePullRequest PROVE IInv'
  BY <1>13, OpensStep
     DEF CreatePullRequest, Go, outside, bounded
<1>14. QED
  BY <1>1, <1>2, <1>3, <1>4, <1>5, <1>6, <1>7, <1>8, <1>9, <1>10, <1>11, <1>12, <1>13 DEF Publish

(* A call that failed may have had its effect; the node ends without a verdict.          *)
LEMMA PublishFailsStep == IInv /\ PublishFails => IInv'
<1>1. ASSUME IInv, CallFails PROVE IInv'
  BY <1>1, RecordStep
     DEF CallFails, Records, Go, outside, bounded, GitSteps, ProviderSteps
<1>2. ASSUME IInv, AnswerLost PROVE IInv'
  BY <1>2, PushesStep, OpensStep
     DEF AnswerLost, Records, Go, outside, bounded
<1>3. ASSUME IInv, EndsFailed PROVE IInv'
  BY <1>3, RecordStep
     DEF EndsFailed, Unproven, Records, Go, outside, bounded
<1>4. ASSUME IInv, Escapes PROVE IInv'
  BY <1>4, LeaveStep
     DEF Escapes, Leave, outside, bounded
<1>5. QED
  BY <1>1, <1>2, <1>3, <1>4 DEF PublishFails

-----------------------------------------------------------------------------
(* Every node starts with its own step, and what is replayed is what was recorded.       *)
LEMMA RunStep ==
    IInv /\ (\/ StartNode \/ FinalizeNode \/ CheckpointNode \/ Commit
             \/ CannotStart \/ Report \/ Resuming) => IInv'
<1>1. ASSUME IInv, StartNode PROVE IInv'
  <2> USE <1>1 DEF IInv, StartNode, Go, outside, bounded
  <2>1. FileInv'
    BY DEF FileInv
  <2>2. SessionInv'
    BY DEF SessionInv
  <2>3. ReviewInv'
    BY DEF ReviewInv, ReviewSteps
  <2>4. PublishInv'
    BY DEF PublishInv, Authorized, InLifetime, PublishSteps
  <2>5. PullRequestInv'
    BY DEF PullRequestInv
  <2>6. QED
    BY <2>1, <2>2, <2>3, <2>4, <2>5
<1>2. ASSUME IInv, CannotStart PROVE IInv'
  BY <1>2, LeaveStep
     DEF CannotStart, Leave, outside, bounded
<1>3. ASSUME IInv, FinalizeNode PROVE IInv'
  BY <1>3, RecordStep
     DEF FinalizeNode, Records, Go, outside, bounded
<1>4. ASSUME IInv, CheckpointNode PROVE IInv'
  BY <1>4, RecordStep
     DEF CheckpointNode, DecisionBinds, LocalDecision, Decisions, Outcomes, Records, Go,
         outside, bounded, IInv, FileInv
<1>5. ASSUME IInv, Commit PROVE IInv'
  BY <1>5, ApplyStep
     DEF Commit, outside, bounded, IInv, SessionInv, ReviewSteps, PublishSteps
<1>6. ASSUME IInv, Report PROVE IInv'
  BY <1>6, LeaveStep
     DEF Report, Leave, outside, bounded
<1>7. ASSUME IInv, Resume PROVE IInv'
  <2> USE <1>7 DEF IInv, Resume, OpenSession, outside, bounded
  <2>1. FileInv'
    BY DEF FileInv
  <2>2. SessionInv'
    BY DEF DeliveryAssumption, SessionInv
  <2>3. ReviewInv'
    BY DEF ReviewInv, ReviewSteps
  <2>4. PublishInv'
    BY DEF PublishInv, Authorized, InLifetime, PublishSteps
  <2>5. PullRequestInv'
    BY DEF PullRequestInv
  <2>6. QED
    BY <2>1, <2>2, <2>3, <2>4, <2>5
<1>8. ASSUME IInv, Replay PROVE IInv'
  BY <1>8, ApplyStep
     DEF Replay, outside, bounded, IInv, SessionInv, ReviewSteps, PublishSteps
<1>9. ASSUME IInv, Assess PROVE IInv'
  BY <1>9, MoveStep
     DEF Assess, Go, outside, bounded, IInv, FileInv, SessionInv, ReviewInv, PublishInv,
         ReviewSteps, PublishSteps
<1>10. ASSUME IInv, Rehydrate PROVE IInv'
  BY <1>10, MoveStep
     DEF Rehydrate, Go, outside, bounded, IInv, FileInv, SessionInv, ReviewInv, PublishInv,
         ReviewSteps, PublishSteps
<1>11. ASSUME IInv, RecoveryRequired PROVE IInv'
  BY <1>11, LeaveStep
     DEF RecoveryRequired, Leave, outside, bounded
<1>12. QED
  BY <1>1, <1>2, <1>3, <1>4, <1>5, <1>6, <1>7, <1>8, <1>9, <1>10, <1>11 DEF Resuming

(* An operator decides while the run has no process, once.                               *)
LEMMA AnswerStep == IInv /\ AnswerRequest => IInv'
<1>1. ASSUME IInv, NEW o \in Operators, SubmitReplays(o) PROVE IInv'
  BY <1>1, ApplyStep
     DEF SubmitReplays, outside, bounded, IInv, SessionInv, ReviewSteps, PublishSteps
<1>2. ASSUME IInv, NEW o \in Operators, NEW outcome \in Outcomes, Submit(o, outcome) PROVE IInv'
  <2> USE <1>2 DEF IInv, Submit, OpenSession, outside, bounded
  <2>1. FileInv'
    BY DEF FileInv
  <2>2. SessionInv'
    BY DEF SessionInv, FileInv, Decisions
  <2>3. ReviewInv'
    BY DEF ReviewInv, ReviewSteps
  <2>4. PublishInv'
    BY DEF PublishInv, Authorized, InLifetime, PublishSteps
  <2>5. PullRequestInv'
    BY DEF PullRequestInv
  <2>6. QED
    BY <2>1, <2>2, <2>3, <2>4, <2>5
<1>3. ASSUME IInv, NEW o \in Operators, SubmissionEnds(o) \/ SubmissionDies(o) PROVE IInv'
  <2> USE <1>3 DEF IInv, SubmissionEnds, SubmissionDies, EndSubmission, FileDecision, outside
  <2>1. FileInv'
    BY DEF FileInv, SessionInv, NoFiles
  <2>2. SessionInv'
    BY DEF SessionInv
  <2>3. ReviewInv'
    BY DEF ReviewInv, ReviewSteps, SessionInv, FileInv, NoFiles
  <2>4. PublishInv'
    BY DEF PublishInv, Authorized, InLifetime, PublishSteps, FileInv, NoFiles
  <2>5. PullRequestInv'
    BY DEF PullRequestInv
  <2>6. QED
    BY <2>1, <2>2, <2>3, <2>4, <2>5
<1>4. QED
  BY <1>1, <1>2, <1>3 DEF AnswerRequest

(* Crashes and meddling never add a pull request of the run.                             *)
LEMMA EnvironmentStep == IInv /\ Environment => IInv'
<1>1. ASSUME IInv, Crash PROVE IInv'
  BY <1>1, LeaveStep
     DEF Crash, Leave, outside, bounded
<1>2. ASSUME IInv, DriftLocally PROVE IInv'
  <2> USE <1>2 DEF IInv, DriftLocally, Meddle
  <2>1. FileInv'
    BY DEF FileInv
  <2>2. SessionInv'
    BY DEF SessionInv
  <2>3. ReviewInv'
    BY DEF ReviewInv, ReviewSteps
  <2>4. PublishInv'
    BY DEF PublishInv, Authorized, InLifetime, PublishSteps
  <2>5. PullRequestInv'
    BY DEF PullRequestInv
  <2>6. QED
    BY <2>1, <2>2, <2>3, <2>4, <2>5
<1>3. ASSUME IInv, MeddleWithBranch PROVE IInv'
  <2> USE <1>3 DEF IInv, MeddleWithBranch, Meddle
  <2>1. FileInv'
    BY DEF FileInv
  <2>2. SessionInv'
    BY DEF SessionInv
  <2>3. ReviewInv'
    BY DEF ReviewInv, ReviewSteps
  <2>4. PublishInv'
    BY DEF PublishInv, Authorized, InLifetime, PublishSteps
  <2>5. PullRequestInv'
    BY DEF PullRequestInv, FileInv
  <2>6. QED
    BY <2>1, <2>2, <2>3, <2>4, <2>5
<1>4. ASSUME IInv, MeddleWithPullRequests PROVE IInv'
  <2> USE <1>4 DEF IInv, MeddleWithPullRequests, Meddle
  <2>1. FileInv'
    <3> HIDE <1>4 DEF IInv, MeddleWithPullRequests, Meddle
    <3> DEFINE theirs(exact) == [id |-> remote.opened, ours |-> FALSE, exact |-> exact]
    <3>1. FileInv /\ remote.opened \in Nat /\ remote.prs \in SUBSET PullRequests
      BY <1>4 DEF IInv, FileInv
    <3>2. UNCHANGED <<files, clock, effects>>
      BY <1>4 DEF MeddleWithPullRequests, Meddle
    <3>3. ASSUME NEW prs \in SUBSET PullRequests, NEW opened \in Nat,
                 remote' = [remote EXCEPT !.opened = opened, !.prs = prs]
          PROVE  FileInv'
      BY <3>1, <3>2, <3>3 DEF FileInv
    <3>4. ASSUME NEW exact \in BOOLEAN,
                 remote' = [remote EXCEPT !.opened = @ + 1, !.prs = @ \cup {theirs(exact)}]
          PROVE  FileInv'
      <4>1. theirs(exact) \in PullRequests
        BY <3>1, <3>4 DEF PullRequests
      <4>2. remote' = [remote EXCEPT !.opened = remote.opened + 1,
                                     !.prs = remote.prs \cup {theirs(exact)}]
        BY <3>1, <3>4 DEF FileInv
      <4> HIDE DEF theirs
      <4>3. remote.opened + 1 \in Nat /\ remote.prs \cup {theirs(exact)} \in SUBSET PullRequests
        BY <3>1, <4>1
      <4>4. QED
        BY <3>3, <4>2, <4>3
    <3>5. ASSUME NEW p \in remote.prs,
                 \/ remote' = [remote EXCEPT !.prs = (@ \ {p}) \cup {[p EXCEPT !.exact = FALSE]}]
                 \/ remote' = [remote EXCEPT !.prs = @ \ {p}]
          PROVE  FileInv'
      <4>1. [p EXCEPT !.exact = FALSE] \in PullRequests
        BY <3>1, <3>5 DEF PullRequests
      <4>2. /\ remote.prs \ {p} \in SUBSET PullRequests
            /\ (remote.prs \ {p}) \cup {[p EXCEPT !.exact = FALSE]} \in SUBSET PullRequests
        BY <3>1, <4>1
      <4>3. QED
        BY <3>1, <3>2, <3>5, <4>2 DEF FileInv
    <3>6. QED
      BY <1>4, <3>4, <3>5 DEF MeddleWithPullRequests
  <2>2. SessionInv'
    BY DEF SessionInv
  <2>3. ReviewInv'
    BY DEF ReviewInv, ReviewSteps
  <2>4. PublishInv'
    BY DEF PublishInv, Authorized, InLifetime, PublishSteps
  <2>5. PullRequestInv'
    <3>1. remote \in [planned : BOOLEAN, branch : {None, "final", "other"},
                      prs : SUBSET PullRequests, opened : Nat]
      BY DEF FileInv
    <3> DEFINE theirs(exact) == [id |-> remote.opened, ours |-> FALSE, exact |-> exact]
    <3>2. ASSUME NEW exact \in BOOLEAN,
                 remote' = [remote EXCEPT !.opened = @ + 1, !.prs = @ \cup {theirs(exact)}]
          PROVE  PullRequestInv'
      <4>1. remote'.prs = remote.prs \cup {theirs(exact)} /\ ~theirs(exact).ours
        BY <3>1, <3>2
      <4> HIDE DEF theirs
      <4>2. QED
        BY <4>1 DEF PullRequestInv
    <3>3. CASE \E p \in remote.prs : remote' = [remote EXCEPT !.prs =
                  (@ \ {p}) \cup {[p EXCEPT !.exact = FALSE]}]
      <4>1. PICK p \in remote.prs : remote' = [remote EXCEPT !.prs =
                  (@ \ {p}) \cup {[p EXCEPT !.exact = FALSE]}]
        BY <3>3
      <4>2. PICK q : q.ours = p.ours /\ remote'.prs = (remote.prs \ {p}) \cup {q}
        <5> DEFINE q == [p EXCEPT !.exact = FALSE]
        <5>1. q.ours = p.ours
          BY <3>1 DEF PullRequests
        <5>2. remote'.prs = (remote.prs \ {p}) \cup {q}
          BY <3>1, <4>1
        <5>3. QED
          BY <5>1, <5>2
      <4>3. QED
        BY <4>2 DEF PullRequestInv
    <3>4. CASE \E p \in remote.prs : remote' = [remote EXCEPT !.prs = @ \ {p}]
      BY <3>1, <3>4 DEF PullRequestInv
    <3>5. QED
      BY <3>2, <3>3, <3>4
  <2>6. QED
    BY <2>1, <2>2, <2>3, <2>4, <2>5
<1>5. ASSUME IInv, Restore PROVE IInv'
  <2> USE <1>5 DEF IInv, Restore, bounded
  <2>1. FileInv'
    BY DEF FileInv
  <2>2. SessionInv'
    BY DEF SessionInv
  <2>3. ReviewInv'
    BY DEF ReviewInv, ReviewSteps
  <2>4. PublishInv'
    BY DEF PublishInv, Authorized, InLifetime, PublishSteps
  <2>5. PullRequestInv'
    BY DEF PullRequestInv, FileInv
  <2>6. QED
    BY <2>1, <2>2, <2>3, <2>4, <2>5
<1>6. ASSUME IInv, Tick PROVE IInv'
  <2> USE <1>6 DEF IInv, Tick, bounded
  <2>1. FileInv'
    BY DEF FileInv
  <2>2. SessionInv'
    BY DEF SessionInv
  <2>3. ReviewInv'
    BY DEF ReviewInv, ReviewSteps
  <2>4. PublishInv'
    BY DEF PublishInv, Authorized, InLifetime, PublishSteps
  <2>5. PullRequestInv'
    BY DEF PullRequestInv
  <2>6. QED
    BY <2>1, <2>2, <2>3, <2>4, <2>5
<1>7. QED
  BY <1>1, <1>2, <1>3, <1>4, <1>5, <1>6 DEF Environment

-----------------------------------------------------------------------------
(* IInv is inductive.                                                                    *)
LEMMA NextIInv == IInv /\ [Next]_vars => IInv'
<1>1. IInv /\ Command => IInv'
  BY ReviewDeliveryStep, AskForApprovalStep, PublishStep, PublishFailsStep, RunStep
     DEF Command, Step
<1>2. ASSUME IInv, UNCHANGED vars PROVE IInv'
  BY <1>2 DEF vars, IInv, FileInv, SessionInv, ReviewInv, PublishInv, Authorized, PullRequestInv
<1>3. QED
  BY <1>1, <1>2, AnswerStep, EnvironmentStep DEF Next

THEOREM Invariance == Spec => []IInv
<1>1. IInv /\ [Next]_vars => IInv'
  BY NextIInv
<1>2. QED
  BY <1>1, InitIInv, PTL DEF Spec

(* Two open pull requests of one run never exist (execute, assess_interrupted_side_effect). *)
THEOREM OneOpenPullRequest == Spec => []OnePullRequest
<1>1. ASSUME IInv PROVE OnePullRequest
  <2>1. CASE Ours = {}
    BY <2>1, FS_EmptySet DEF OnePullRequest
  <2>2. CASE Ours # {}
    <3>1. PICK p : p \in Ours
      BY <2>2
    <3>2. Ours = {p}
      BY <1>1, <3>1 DEF IInv, PullRequestInv, Ours
    <3>3. Cardinality(Ours) = 1
      BY <3>2, FS_Singleton
    <3>4. QED
      BY <3>3 DEF OnePullRequest
  <2>3. QED
    BY <2>1, <2>2
<1>2. QED
  BY <1>1, Invariance, PTL

(* Whatever was pushed or created had passed its review and was approved in time         *)
(* (approved_for_create, _delivery_authority).                                           *)
THEOREM PublicationsAreApproved == Spec => []PublishedAsApproved
<1>1. ASSUME IInv PROVE PublishedAsApproved
  <2>1. SUFFICES ASSUME effects.pushed + effects.created > 0 PROVE Authorized
    <3>1. ASSUME Authorized
          PROVE  /\ files.review = [mechanical |-> {}, verdict |-> "pass"]
                 /\ files.decision.at \in files.request.created .. files.request.created + TTL
      <4>1. /\ files.review \in ReviewFiles /\ files.review.verdict = "pass"
            /\ files.decision \in Decisions /\ files.request \in [created : Nat]
        BY <1>1, <3>1 DEF IInv, FileInv, Authorized
      <4>2. files.review.mechanical = {}
        BY <4>1 DEF ReviewFiles
      <4>3. files.review = [mechanical |-> {}, verdict |-> "pass"]
        BY <4>1, <4>2 DEF ReviewFiles
      <4>4. files.decision.at \in Nat /\ files.request.created \in Nat
        BY <4>1 DEF Decisions
      <4>5. files.decision.at \in files.request.created .. files.request.created + TTL
        BY <3>1, <4>4 DEF Authorized, InLifetime
      <4>6. QED
        BY <4>3, <4>5
    <3>2. QED
      BY <3>1 DEF Authorized, PublishedAsApproved
  <2>2. QED
    BY <1>1, <2>1 DEF IInv, FileInv, PublishInv
<1>2. QED
  BY <1>1, Invariance, PTL

-----------------------------------------------------------------------------
(* What the approval and the receipts rest on: where the process is and what can be      *)
(* recorded there, who decides when, and in which order receipts are filed.              *)
CheckpointSteps == {"ask", "planned", "requested", "checkpoint"}

\* Every step of the process belongs to a node, and so does every recorded result.
NodeInv ==
    /\ state.node \in {"DELIVERY_REVIEW", "HUMAN_CHECKPOINT", "CREATE_PR", "FINALIZE", "END"}
    /\ state.status \in {"running", "blocked", "failed", "cancelled", "completed"}
    /\ pc \in CheckpointSteps => state.node = "HUMAN_CHECKPOINT"
    /\ pc \in PublishSteps \cup {"publish"} => state.node = "CREATE_PR"
    /\ pc = "finalize" => state.node = "FINALIZE"
    /\ pc = "idle" => state.node # "END"
    /\ journal \in Results /\ state.node = "DELIVERY_REVIEW" =>
         journal \in {"pass", "fail", "blocked", "failed"}
    /\ journal \in Results /\ state.node = "HUMAN_CHECKPOINT" =>
         journal \in Outcomes \cup {"blocked"}
    /\ journal \in Results /\ state.node = "CREATE_PR" => journal \in {"ok", "blocked", "failed"}
    /\ state.node = "END" => journal \notin Results

\* The request has run out and nobody decided, which is the other way to leave the checkpoint.
Lapsed == files.request # None /\ Expired(files.request)

\* A decision is of a request, in its lifetime, and nothing is decided while a result waits.
ApprovalInv ==
    /\ files.decision # None =>
         /\ files.plan # None /\ files.request # None
         /\ InLifetime(files.decision.at, files.request)
    /\ \A o \in Operators : asks[o].phase = "asks" =>
         /\ journal \notin Results
         /\ files.plan # None /\ files.request # None
         /\ InLifetime(asks[o].decision.at, files.request)
    /\ pc = "requested" => files.request # None
    /\ pc = "checkpoint" \/ (pc = "idle" /\ state.node = "HUMAN_CHECKPOINT") =>
         files.decision # None \/ Lapsed
    /\ state.node = "HUMAN_CHECKPOINT" /\ journal \in Results =>
         IF files.decision # None THEN journal = files.decision.outcome
         ELSE journal = "blocked" /\ Lapsed

\* Pull requests are numbered.
RemoteInv == \A pr \in remote.prs : pr.id < remote.opened

\* A receipt is filed after the ones before it, and of a pull request that was opened.
ReceiptInv ==
    /\ pc \in {"created", "file-pr"} => held \in Nat /\ held < remote.opened
    /\ pc \in {"find", "create", "created", "file-pr", "verify", "published"} => files.push # None
    /\ pc \in {"verify", "published"} => files.pr # None
    /\ pc = "published" => files.result # None
    /\ files.pr # None => files.pr \in Nat /\ files.pr < remote.opened
    /\ files.result # None => files.push # None /\ files.pr # None
    /\ state.node = "CREATE_PR" /\ journal = "ok" => files.result # None
    /\ state.node = "FINALIZE" /\ state.status = "running" => files.result # None
    /\ state.status = "completed" \/ told = "draft pull request" => files.result # None

(* A step stays in its node until its result is applied.                                 *)
LEMMA NodesStep ==
    ASSUME IInv, NodeInv, [Next]_vars
    PROVE  NodeInv'
<1> USE DEF NodeInv, Go, Records, Leave, PersistOnce, OpenSession, InLifetime, Expired, Exact,
        outside, bounded, CheckpointSteps, PublishSteps, Results
<1>1. ASSUME ReviewDelivery PROVE NodeInv'
  BY <1>1 DEF ReviewDelivery, RestoreReview, Prepare, PrepareDisagrees, Guard, ReviewerAnswers,
       ReviewerFails, FileReview, ReturnReview, ResultOf, ReviewFiles, IInv, FileInv, ReviewInv,
       ReviewSteps
<1>2. ASSUME AskForApproval PROVE NodeInv'
  BY <1>2 DEF AskForApproval, ConsumeDecision, PlanPublication, RequestApproval, AwaitApproval,
       CannotAsk
<1>3. ASSUME Publish PROVE NodeInv'
  BY <1>3 DEF Publish, EnterPublication, ResultReturned, BranchRead, Push, FilePush,
       PullRequestFiled, AdoptPullRequest, NoPullRequestFound, CreatePullRequest,
       CreatedAsPlanned, FilePullRequest, FileResult, ReturnPublished
<1>4. ASSUME PublishFails PROVE NodeInv'
  BY <1>4 DEF PublishFails, CallFails, AnswerLost, EndsFailed, Escapes, Unproven, GitSteps,
       ProviderSteps
<1>5. ASSUME StartNode \/ FinalizeNode \/ CheckpointNode \/ CannotStart \/ Report PROVE NodeInv'
  BY <1>5 DEF StartNode, FinalizeNode, CheckpointNode, CannotStart, Report, DecisionBinds,
       LocalDecision, Decisions, IInv, FileInv
<1>6. ASSUME Commit \/ Replay \/ (\E o \in Operators : SubmitReplays(o)) PROVE NodeInv'
  BY <1>6 DEF Commit, Replay, SubmitReplays, ApplyRecorded, Target, StatusOf, Outcomes, IInv,
       SessionInv
<1>7. ASSUME Resume \/ Assess \/ Rehydrate \/ RecoveryRequired PROVE NodeInv'
  BY <1>7 DEF Resume, Assess, Rehydrate, RecoveryRequired
<1>8. ASSUME NEW o \in Operators,
             (\E outcome \in Outcomes : Submit(o, outcome)) \/ SubmissionEnds(o)
               \/ SubmissionDies(o)
      PROVE  NodeInv'
  BY <1>8 DEF Submit, SubmissionEnds, SubmissionDies, EndSubmission
<1>9. ASSUME Environment PROVE NodeInv'
  BY <1>9 DEF Environment, Crash, Meddle, DriftLocally, MeddleWithBranch,
       MeddleWithPullRequests, Restore, Tick
<1>10. ASSUME UNCHANGED vars PROVE NodeInv'
  BY <1>10 DEF vars
<1>11. QED
  BY <1>1, <1>2, <1>3, <1>4, <1>5, <1>6, <1>7, <1>8, <1>9, <1>10
     DEF Next, Command, Step, Resuming, AnswerRequest

(* While a command of the run goes on, no operator is about to decide.                   *)
LEMMA NobodyDecides ==
    ASSUME SessionInv, pc # "none"
    PROVE  \A o \in Operators : asks[o].phase # "asks"
BY DEF SessionInv, DeliveryAssumption

(* A command that is not at the checkpoint has nothing to do with the approval.           *)
LEMMA ElsewhereStep ==
    ASSUME IInv, NodeInv, ApprovalInv, pc # "none", UNCHANGED <<state, asks, clock>>,
           files'.decision = files.decision, files'.plan = files.plan,
           files'.request = files.request,
           pc' \notin {"requested", "checkpoint", "idle"},
           journal' = journal \/ state.node # "HUMAN_CHECKPOINT"
    PROVE  ApprovalInv'
<1>1. \A o \in Operators : asks'[o].phase # "asks"
  BY NobodyDecides DEF IInv
<1>2. files'.decision # None =>
        /\ files'.plan # None /\ files'.request # None
        /\ InLifetime(files'.decision.at, files'.request)
  BY DEF ApprovalInv, InLifetime
<1>3. state'.node = "HUMAN_CHECKPOINT" /\ journal' \in Results =>
        IF files'.decision # None THEN journal' = files'.decision.outcome
        ELSE journal' = "blocked" /\ files'.request # None /\ clock' > files'.request.created + TTL
  BY DEF ApprovalInv, Lapsed, Expired
<1>4. QED
  BY <1>1, <1>2, <1>3 DEF ApprovalInv, Lapsed, Expired, InLifetime

(* The delivery review writes its own two files, and nothing but its node's result.       *)
LEMMA ReviewWrites ==
    ASSUME IInv, ReviewDelivery
    PROVE  /\ UNCHANGED <<state, asks, told, outside, effects>>
           /\ state.node = "DELIVERY_REVIEW" /\ pc \in ReviewSteps
           /\ pc' \in ReviewSteps \cup {"recorded"} /\ pc' \notin PublishSteps
           /\ files'.plan = files.plan /\ files'.request = files.request
           /\ files'.decision = files.decision /\ files'.push = files.push
           /\ files'.pr = files.pr /\ files'.result = files.result
<1> USE DEF Go, Records, PersistOnce
<1>1. /\ UNCHANGED <<state, asks, told, outside, effects>> /\ pc \in ReviewSteps
      /\ pc' \in ReviewSteps \cup {"recorded"}
  BY DEF ReviewDelivery, RestoreReview, Prepare, PrepareDisagrees, Guard, ReviewerAnswers,
         ReviewerFails, FileReview, ReturnReview, ReviewSteps
<1>2. {"plan", "request", "decision", "push", "pr", "result"} \subseteq DOMAIN files
  BY DEF IInv, FileInv, NoFiles
<1>3. \A name \in {"plan", "request", "decision", "push", "pr", "result"} :
        files'[name] = files[name]
  <2>1. CASE Prepare
    BY <1>2, <2>1 DEF Prepare
  <2>2. CASE FileReview
    BY <1>2, <2>2 DEF FileReview
  <2>3. CASE ~Prepare /\ ~FileReview
    <3>1. UNCHANGED files
      BY <2>3 DEF ReviewDelivery, RestoreReview, PrepareDisagrees, Guard, ReviewerAnswers,
           ReviewerFails, ReturnReview
    <3>2. QED
      BY <3>1
  <2>4. QED
    BY <2>1, <2>2, <2>3
<1>4. state.node = "DELIVERY_REVIEW"
  BY <1>1 DEF IInv, ReviewInv
<1>5. pc' \notin PublishSteps
  BY <1>1 DEF ReviewSteps, PublishSteps
<1>6. QED
  BY <1>1, <1>3, <1>4, <1>5

(* A decision is filed once, in its time, and the checkpoint is left by what it says.     *)
LEMMA ApprovalStep ==
    ASSUME IInv, NodeInv, ApprovalInv, [Next]_vars
    PROVE  ApprovalInv'
<1> USE DEF ApprovalInv, Go, Records, Leave, PersistOnce, OpenSession, InLifetime, Expired, Exact,
        outside, bounded, Lapsed
<1>1. ASSUME ReviewDelivery PROVE ApprovalInv'
  <2> HIDE DEF ApprovalInv
  <2>1. /\ pc # "none" /\ UNCHANGED <<state, asks, clock>>
        /\ files'.decision = files.decision /\ files'.plan = files.plan
        /\ files'.request = files.request
        /\ pc' \notin {"requested", "checkpoint", "idle"}
        /\ journal' = journal \/ state.node # "HUMAN_CHECKPOINT"
    BY <1>1, ReviewWrites DEF outside, ReviewSteps
  <2>2. QED
    BY <2>1, ElsewhereStep
<1>2. ASSUME AskForApproval PROVE ApprovalInv'
  <2>1. ASSUME ConsumeDecision PROVE ApprovalInv'
    BY <2>1 DEF ConsumeDecision, DecisionBinds, LocalDecision
  <2>2. ASSUME PlanPublication PROVE ApprovalInv'
    BY <2>2 DEF PlanPublication, IInv, FileInv, NoFiles
  <2>3. ASSUME RequestApproval PROVE ApprovalInv'
    BY <2>3 DEF RequestApproval, IInv, FileInv, NoFiles
  <2>4. ASSUME AwaitApproval PROVE ApprovalInv'
    BY <2>4 DEF AwaitApproval
  <2>5. ASSUME CannotAsk PROVE ApprovalInv'
    BY <2>5 DEF CannotAsk
  <2>6. QED
    BY <1>2, <2>1, <2>2, <2>3, <2>4, <2>5 DEF AskForApproval
<1>3. ASSUME Publish PROVE ApprovalInv'
  <2> USE <1>3 DEF NodeInv, PublishSteps
  <2>1. /\ pc # "none" /\ pc' \notin {"requested", "checkpoint", "idle"}
        /\ state.node = "CREATE_PR"
        /\ UNCHANGED <<state, asks, clock>>
    BY DEF Publish, EnterPublication, ResultReturned, BranchRead, Push, Pushes, FilePush,
         PullRequestFiled, AdoptPullRequest, NoPullRequestFound, CreatePullRequest, Opens,
         CreatedAsPlanned, FilePullRequest, FileResult, ReturnPublished
  <2>2. PICK new : \/ files' = files \/ files' = [files EXCEPT !.push = new]
                   \/ files' = [files EXCEPT !.pr = new] \/ files' = [files EXCEPT !.result = new]
    BY DEF Publish, EnterPublication, ResultReturned, BranchRead, Push, Pushes, FilePush,
         PullRequestFiled, AdoptPullRequest, NoPullRequestFound, CreatePullRequest, Opens,
         CreatedAsPlanned, FilePullRequest, FileResult, ReturnPublished
  <2>3. /\ files'.decision = files.decision /\ files'.plan = files.plan
        /\ files'.request = files.request
    BY <2>2 DEF IInv, FileInv, NoFiles
  <2>4. QED
    BY <2>1, <2>3, ElsewhereStep
<1>4. ASSUME PublishFails PROVE ApprovalInv'
  <2>1. /\ pc # "none" /\ pc' \notin {"requested", "checkpoint", "idle"}
        /\ state.node = "CREATE_PR"
        /\ UNCHANGED <<state, files, asks, clock>>
    BY <1>4 DEF PublishFails, CallFails, AnswerLost, Pushes, Opens, EndsFailed, Escapes,
         Unproven, GitSteps, ProviderSteps, NodeInv, PublishSteps
  <2>2. QED
    BY <2>1, ElsewhereStep
<1>5. ASSUME StartNode \/ FinalizeNode \/ CheckpointNode \/ CannotStart \/ Report PROVE ApprovalInv'
  <2>0. ASSUME pc # "none" PROVE \A o \in Operators : asks[o].phase # "asks"
    BY <2>0, NobodyDecides DEF IInv
  <2>1. ASSUME StartNode PROVE ApprovalInv'
    BY <2>0, <2>1 DEF StartNode, NodeInv, Results
  <2>2. ASSUME CheckpointNode PROVE ApprovalInv'
    BY <2>0, <2>2 DEF CheckpointNode, DecisionBinds, LocalDecision
  <2>3. ASSUME FinalizeNode PROVE ApprovalInv'
    BY <2>3, ElsewhereStep DEF FinalizeNode, NodeInv
  <2>4. ASSUME CannotStart \/ Report PROVE ApprovalInv'
    BY <2>4, ElsewhereStep DEF CannotStart, Report
  <2>5. QED
    BY <1>5, <2>1, <2>2, <2>3, <2>4
<1>6. ASSUME Commit \/ Replay \/ (\E o \in Operators : SubmitReplays(o)) PROVE ApprovalInv'
  BY <1>6 DEF Commit, Replay, SubmitReplays, ApplyRecorded, Target, StatusOf, Results, Outcomes,
       NodeInv,
     IInv, SessionInv
<1>7. ASSUME Resume \/ Assess \/ Rehydrate \/ RecoveryRequired PROVE ApprovalInv'
  BY <1>7 DEF Resume, Assess, Rehydrate, RecoveryRequired
<1>8. ASSUME NEW o \in Operators,
             (\E outcome \in Outcomes : Submit(o, outcome)) \/ SubmissionEnds(o)
               \/ SubmissionDies(o)
      PROVE  ApprovalInv'
  <2>1. ASSUME NEW outcome \in Outcomes, Submit(o, outcome) PROVE ApprovalInv'
    BY <2>1 DEF Submit, MayDecide, LocalDecision, IInv, SessionInv
  <2>2. ASSUME SubmissionEnds(o) \/ SubmissionDies(o), UNCHANGED files PROVE ApprovalInv'
    BY <2>2 DEF SubmissionEnds, SubmissionDies, EndSubmission, IInv, SessionInv
  <2>3. ASSUME SubmissionEnds(o) \/ SubmissionDies(o), FileDecision(o) PROVE ApprovalInv'
    BY <2>3 DEF SubmissionEnds, SubmissionDies, EndSubmission, FileDecision, IInv, FileInv,
       SessionInv, NoFiles
  <2>4. QED
    BY <1>8, <2>1, <2>2, <2>3 DEF SubmissionEnds, SubmissionDies
<1>9. ASSUME Environment PROVE ApprovalInv'
  <2>1. ASSUME Crash \/ Tick PROVE ApprovalInv'
    BY <2>1 DEF Crash, Tick, IInv, FileInv
  <2>2. ASSUME DriftLocally \/ MeddleWithBranch \/ MeddleWithPullRequests \/ Restore
        PROVE  ApprovalInv'
    BY <2>2 DEF Meddle, DriftLocally, MeddleWithBranch, MeddleWithPullRequests, Restore, IInv,
       FileInv
  <2>3. QED
    BY <1>9, <2>1, <2>2 DEF Environment
<1>10. ASSUME UNCHANGED vars PROVE ApprovalInv'
  BY <1>10 DEF vars
<1>11. QED
  BY <1>1, <1>2, <1>3, <1>4, <1>5, <1>6, <1>7, <1>8, <1>9, <1>10
     DEF Next, Command, Step, Resuming, AnswerRequest

(* A step that leaves receipts, remote and history alone.                                *)
LEMMA KeepsReceipts ==
    ASSUME ReceiptInv, UNCHANGED <<state, remote, effects>>,
           files'.push = files.push, files'.pr = files.pr, files'.result = files.result,
           pc' \notin PublishSteps \/ (pc' = pc /\ held' = held),
           told' # "draft pull request" \/ told' = told,
           journal' = journal \/ state.node # "CREATE_PR" \/ journal' # "ok"
    PROVE  ReceiptInv'
BY DEF ReceiptInv, PublishSteps

(* The numbers of the remote only grow.                                                  *)
LEMMA Grows ==
    ASSUME NEW n \in Nat, NEW m \in Nat, n <= m, NEW i, i \in Nat /\ i < n
    PROVE  i \in Nat /\ i < m
OBVIOUS

(* The remote changes, and the process learns no more than what was opened for it.       *)
LEMMA RemoteMoves ==
    ASSUME ReceiptInv, UNCHANGED <<state, files, told>>,
           remote.opened \in Nat, remote'.opened \in Nat, remote.opened <= remote'.opened,
           \/ pc' = "recorded"
           \/ pc' = pc /\ held' = held
           \/ pc' = "created" /\ files.push # None /\ held' \in Nat /\ held' < remote'.opened,
           journal' = journal \/ journal' # "ok"
    PROVE  ReceiptInv'
<1>1. files'.pr # None => files'.pr \in Nat /\ files'.pr < remote'.opened
  BY Grows DEF ReceiptInv
<1>2. pc' \in {"created", "file-pr"} => held' \in Nat /\ held' < remote'.opened
  BY Grows DEF ReceiptInv
<1>3. QED
  BY <1>1, <1>2 DEF ReceiptInv

(* A pull request is opened under the next number.                                        *)
LEMMA Opened ==
    ASSUME FileInv, RemoteInv, Opens
    PROVE  /\ remote.opened \in Nat /\ remote'.opened \in Nat
           /\ remote.opened < remote'.opened /\ remote.opened <= remote'.opened
           /\ RemoteInv'
<1> DEFINE new == [id |-> remote.opened, ours |-> TRUE, exact |-> TRUE]
<1>1. /\ remote.opened \in Nat
      /\ \A pr \in remote.prs : pr.id \in Nat /\ pr.id < remote.opened
  BY DEF FileInv, PullRequests, RemoteInv
<1>2. remote'.opened = remote.opened + 1 /\ remote'.prs = remote.prs \cup {new}
  BY DEF Opens, FileInv
<1>3. new.id = remote.opened
  OBVIOUS
<1> HIDE DEF new
<1>4. /\ remote'.opened \in Nat
      /\ remote.opened < remote'.opened /\ remote.opened <= remote'.opened
  BY <1>1, <1>2
<1>5. \A pr \in remote'.prs : pr.id < remote'.opened
  BY <1>1, <1>2, <1>3
<1>6. QED
  BY <1>1, <1>4, <1>5 DEF RemoteInv

(* Whoever opens a pull request, the remote numbers it.                                   *)
LEMMA RemoteStep ==
    ASSUME FileInv, RemoteInv, [Next]_vars
    PROVE  RemoteInv'
<1>0. ASSUME remote'.prs = remote.prs, remote'.opened = remote.opened
      PROVE  RemoteInv'
  BY <1>0 DEF RemoteInv
<1>1. ASSUME UNCHANGED <<remote, effects>> PROVE RemoteInv'
  BY <1>0, <1>1
<1>2. ASSUME Pushes PROVE RemoteInv'
  BY <1>0, <1>2 DEF Pushes, FileInv
<1>3. ASSUME ReviewDelivery PROVE RemoteInv'
  BY <1>1, <1>3 DEF ReviewDelivery, RestoreReview, Prepare, PrepareDisagrees, Guard,
       ReviewerAnswers, ReviewerFails, FileReview, ReturnReview, outside
<1>4. ASSUME AskForApproval PROVE RemoteInv'
  BY <1>1, <1>4 DEF AskForApproval, ConsumeDecision, PlanPublication, RequestApproval,
       AwaitApproval, CannotAsk, outside
<1>5. ASSUME Publish PROVE RemoteInv'
  BY <1>1, <1>2, <1>5, Opened DEF Publish, EnterPublication, ResultReturned, BranchRead, Push,
       FilePush, PullRequestFiled, AdoptPullRequest, NoPullRequestFound, CreatePullRequest,
       CreatedAsPlanned, FilePullRequest, FileResult, ReturnPublished, outside
<1>6. ASSUME PublishFails PROVE RemoteInv'
  BY <1>1, <1>2, <1>6, Opened DEF PublishFails, CallFails, AnswerLost, EndsFailed, Escapes,
       outside
<1>7. ASSUME \/ StartNode \/ FinalizeNode \/ CheckpointNode \/ CannotStart \/ Report \/ Commit
             \/ Resuming
      PROVE  RemoteInv'
  BY <1>1, <1>7 DEF StartNode, FinalizeNode, CheckpointNode, CannotStart, Report, Commit,
       Resuming, Resume, Replay, Assess, Rehydrate, RecoveryRequired, outside
<1>8. ASSUME AnswerRequest PROVE RemoteInv'
  BY <1>1, <1>8 DEF AnswerRequest, SubmitReplays, Submit, SubmissionEnds, SubmissionDies,
       EndSubmission, outside
<1>9. ASSUME Crash \/ DriftLocally \/ Tick PROVE RemoteInv'
  BY <1>1, <1>9 DEF Crash, DriftLocally, Meddle, Tick, outside
<1>10. ASSUME MeddleWithBranch \/ Restore PROVE RemoteInv'
  BY <1>0, <1>10 DEF MeddleWithBranch, Meddle, Restore, FileInv
<1>11. ASSUME MeddleWithPullRequests PROVE RemoteInv'
  <2>0. /\ remote.opened \in Nat
        /\ \A pr \in remote.prs : pr \in PullRequests /\ pr.id \in Nat
        /\ remote \in [planned : BOOLEAN, branch : {None, "final", "other"},
                       prs : SUBSET PullRequests, opened : Nat]
    BY DEF FileInv, PullRequests
  <2> DEFINE theirs(exact) == [id |-> remote.opened, ours |-> FALSE, exact |-> exact]
  <2>1. ASSUME NEW exact \in BOOLEAN,
               remote' = [remote EXCEPT !.opened = @ + 1, !.prs = @ \cup {theirs(exact)}]
        PROVE  RemoteInv'
    <3>1. remote'.opened = remote.opened + 1 /\ remote'.prs = remote.prs \cup {theirs(exact)}
      BY <2>0, <2>1
    <3>2. theirs(exact).id = remote.opened
      OBVIOUS
    <3> HIDE DEF theirs
    <3>3. \A pr \in remote'.prs : pr.id < remote'.opened
      BY <2>0, <3>1, <3>2 DEF RemoteInv
    <3>4. QED
      BY <3>3 DEF RemoteInv
  <2>2. CASE \E p \in remote.prs : remote' = [remote EXCEPT !.prs =
                (@ \ {p}) \cup {[p EXCEPT !.exact = FALSE]}]
    <3>1. PICK p \in remote.prs : remote' = [remote EXCEPT !.prs =
                (@ \ {p}) \cup {[p EXCEPT !.exact = FALSE]}]
      BY <2>2
    <3> DEFINE q == [p EXCEPT !.exact = FALSE]
    <3>2. q.id = p.id
      BY <2>0 DEF PullRequests
    <3>3. remote'.opened = remote.opened /\ remote'.prs = (remote.prs \ {p}) \cup {q}
      BY <2>0, <3>1
    <3> HIDE DEF q
    <3>4. QED
      BY <2>0, <3>2, <3>3 DEF RemoteInv
  <2>3. CASE \E p \in remote.prs : remote' = [remote EXCEPT !.prs = @ \ {p}]
    <3>1. remote'.opened = remote.opened /\ remote'.prs \subseteq remote.prs
      BY <2>0, <2>3
    <3>2. QED
      BY <2>0, <3>1 DEF RemoteInv
  <2>4. QED
    BY <1>11, <2>1, <2>2, <2>3 DEF MeddleWithPullRequests
<1>12. ASSUME UNCHANGED vars PROVE RemoteInv'
  BY <1>1, <1>12 DEF vars
<1>13. QED
  BY <1>3, <1>4, <1>5, <1>6, <1>7, <1>8, <1>9, <1>10, <1>11, <1>12
     DEF Next, Command, Step, Environment

(* Others only add to the numbers.                                                       *)
LEMMA Numbered ==
    ASSUME FileInv, MeddleWithPullRequests
    PROVE  remote'.opened \in Nat /\ remote.opened <= remote'.opened
<1>1. remote.opened \in Nat
  BY DEF FileInv
<1>2. remote'.opened = remote.opened \/ remote'.opened = remote.opened + 1
  BY DEF MeddleWithPullRequests, FileInv
<1>3. QED
  BY <1>1, <1>2

(* Every receipt is filed by the step that has what it says.                              *)
LEMMA ReceiptStep ==
    ASSUME IInv, NodeInv, ApprovalInv, RemoteInv, ReceiptInv, [Next]_vars
    PROVE  ReceiptInv'
<1> USE DEF ReceiptInv, Go, Records, Leave, PersistOnce, OpenSession, InLifetime, Expired, Exact,
        outside, bounded
<1>1. ASSUME ReviewDelivery PROVE ReceiptInv'
  <2> HIDE DEF ReceiptInv
  <2>1. /\ UNCHANGED <<state, remote, effects, told>> /\ pc' \notin PublishSteps
        /\ journal' = journal \/ state.node # "CREATE_PR"
        /\ files'.push = files.push /\ files'.pr = files.pr /\ files'.result = files.result
    BY <1>1, ReviewWrites DEF outside
  <2>2. QED
    BY <2>1, KeepsReceipts
<1>2. ASSUME AskForApproval PROVE ReceiptInv'
  <2>1. ASSUME ConsumeDecision PROVE ReceiptInv'
    BY <2>1 DEF ConsumeDecision, DecisionBinds, LocalDecision
  <2>2. ASSUME PlanPublication PROVE ReceiptInv'
    BY <2>2 DEF PlanPublication, IInv, FileInv, NoFiles
  <2>3. ASSUME RequestApproval PROVE ReceiptInv'
    BY <2>3 DEF RequestApproval, IInv, FileInv, NoFiles
  <2>4. ASSUME AwaitApproval PROVE ReceiptInv'
    BY <2>4 DEF AwaitApproval
  <2>5. ASSUME CannotAsk PROVE ReceiptInv'
    BY <2>5 DEF CannotAsk
  <2>6. QED
    BY <1>2, <2>1, <2>2, <2>3, <2>4, <2>5 DEF AskForApproval
<1>3. ASSUME Publish PROVE ReceiptInv'
  <2> USE DEF NodeInv, PublishSteps, IInv, FileInv, NoFiles
  <2>1. ASSUME EnterPublication \/ ResultReturned \/ BranchRead PROVE ReceiptInv'
    BY <2>1 DEF EnterPublication, ResultReturned, PublishedAsFiled, BranchRead
  <2>2. ASSUME Push PROVE ReceiptInv'
    BY <2>2 DEF Push, Pushes
  <2>3. ASSUME FilePush PROVE ReceiptInv'
    BY <2>3 DEF FilePush
  <2>4. ASSUME PullRequestFiled \/ NoPullRequestFound PROVE ReceiptInv'
    BY <2>4 DEF PullRequestFiled, NoPullRequestFound
  <2>5. ASSUME AdoptPullRequest PROVE ReceiptInv'
    <3>1. PICK pr \in remote.prs : Exact(pr) /\ held' = pr.id
      BY <2>5 DEF AdoptPullRequest
    <3>2. pr.id \in Nat /\ pr.id < remote.opened
      BY <3>1 DEF RemoteInv, PullRequests
    <3>3. QED
      BY <2>5, <3>1, <3>2 DEF AdoptPullRequest
  <2>6. ASSUME CreatePullRequest PROVE ReceiptInv'
    <3>1. /\ Opens /\ pc' = "created" /\ held' = remote.opened /\ files.push # None
          /\ UNCHANGED <<state, files, told, journal>>
      BY <2>6 DEF CreatePullRequest
    <3>2. /\ remote.opened \in Nat /\ remote'.opened \in Nat
          /\ remote.opened < remote'.opened /\ remote.opened <= remote'.opened
      BY <3>1, Opened
    <3> HIDE DEF ReceiptInv, IInv, FileInv, NodeInv
    <3>3. QED
      BY <3>1, <3>2, RemoteMoves
  <2>7. ASSUME CreatedAsPlanned PROVE ReceiptInv'
    BY <2>7 DEF CreatedAsPlanned
  <2>8. ASSUME FilePullRequest PROVE ReceiptInv'
    BY <2>8 DEF FilePullRequest
  <2>9. ASSUME FileResult PROVE ReceiptInv'
    BY <2>9 DEF FileResult
  <2>10. ASSUME ReturnPublished PROVE ReceiptInv'
    BY <2>10 DEF ReturnPublished
  <2>11. QED
    BY <1>3, <2>1, <2>2, <2>3, <2>4, <2>5, <2>6, <2>7, <2>8, <2>9, <2>10 DEF Publish
<1>4. ASSUME PublishFails PROVE ReceiptInv'
  <2>1. ASSUME CallFails \/ EndsFailed \/ Escapes PROVE ReceiptInv'
    BY <2>1, KeepsReceipts DEF CallFails, EndsFailed, Escapes, PublishSteps
  <2>2. ASSUME AnswerLost PROVE ReceiptInv'
    <3>1. ASSUME pc = "push" PROVE ReceiptInv'
      BY <2>2, <3>1 DEF AnswerLost, Pushes, PublishSteps, IInv, FileInv
    <3>2. ASSUME pc = "create" PROVE ReceiptInv'
      <4>1. /\ Opens /\ pc' = "recorded" /\ UNCHANGED <<state, files, told>> /\ journal' # "ok"
        BY <2>2, <3>2 DEF AnswerLost
      <4>2. /\ remote.opened \in Nat /\ remote'.opened \in Nat
            /\ remote.opened <= remote'.opened
        BY <4>1, Opened DEF IInv
      <4> HIDE DEF ReceiptInv
      <4>3. QED
        BY <4>1, <4>2, RemoteMoves
    <3>3. QED
      BY <2>2, <3>1, <3>2 DEF AnswerLost
  <2>3. QED
    BY <1>4, <2>1, <2>2 DEF PublishFails
<1>5. ASSUME StartNode \/ FinalizeNode \/ CheckpointNode \/ CannotStart \/ Report PROVE ReceiptInv'
  <2>1. ASSUME StartNode PROVE ReceiptInv'
    BY <2>1, KeepsReceipts DEF StartNode, PublishSteps
  <2>2. ASSUME CheckpointNode \/ FinalizeNode PROVE ReceiptInv'
    BY <2>2, KeepsReceipts DEF CheckpointNode, FinalizeNode, NodeInv, PublishSteps,
         CheckpointSteps
  <2>3. ASSUME CannotStart PROVE ReceiptInv'
    BY <2>3, KeepsReceipts DEF CannotStart, PublishSteps
  <2>4. ASSUME Report PROVE ReceiptInv'
    BY <2>4 DEF Report, ChainHolds, NodeInv, PublishSteps
  <2>5. QED
    BY <1>5, <2>1, <2>2, <2>3, <2>4
<1>6. ASSUME ApplyRecorded, UNCHANGED <<files, remote, effects, told>>,
             pc' \notin PublishSteps
      PROVE  ReceiptInv'
  <2>1. /\ journal \in Results /\ journal' = "clean"
        /\ state'.node = Target(journal)
        /\ state'.status = IF state.node = "FINALIZE" /\ state.status = "running"
                            THEN "completed" ELSE StatusOf(journal)
    BY <1>6 DEF ApplyRecorded
  <2>2. state'.node = "FINALIZE" /\ state'.status = "running" => files.result # None
    BY <2>1 DEF Target, StatusOf, Results, Outcomes, NodeInv
  <2>3. state'.status = "completed" => files.result # None
    BY <2>1 DEF StatusOf
  <2>4. QED
    BY <1>6, <2>1, <2>2, <2>3 DEF PublishSteps
<1>7. ASSUME Resume \/ Assess \/ Rehydrate \/ RecoveryRequired PROVE ReceiptInv'
  BY <1>7 DEF Resume, Assess, Rehydrate, RecoveryRequired
<1>8. ASSUME NEW o \in Operators,
             (\E outcome \in Outcomes : Submit(o, outcome)) \/ SubmissionEnds(o)
               \/ SubmissionDies(o)
      PROVE  ReceiptInv'
  <2>1. UNCHANGED <<state, journal, pc, held, remote, effects, told>>
    BY <1>8 DEF Submit, SubmissionEnds, SubmissionDies, EndSubmission
  <2>2. UNCHANGED files \/ files' = [files EXCEPT !.decision = asks[o].decision]
    BY <1>8 DEF Submit, SubmissionEnds, SubmissionDies, FileDecision
  <2> HIDE DEF ReceiptInv
  <2>3. files'.push = files.push /\ files'.pr = files.pr /\ files'.result = files.result
    <3>1. {"push", "pr", "result"} \subseteq DOMAIN files
      BY DEF IInv, FileInv, NoFiles
    <3>2. QED
      BY <2>2, <3>1
  <2>4. /\ UNCHANGED <<state, remote, effects>>
        /\ pc' = pc /\ held' = held /\ told' = told /\ journal' = journal
    BY <2>1
  <2>5. QED
    BY <2>3, <2>4, KeepsReceipts
<1>9. ASSUME Environment PROVE ReceiptInv'
  <2>1. ASSUME Crash PROVE ReceiptInv'
    BY <2>1, KeepsReceipts DEF Crash, PublishSteps
  <2>2. ASSUME DriftLocally \/ MeddleWithBranch \/ Restore \/ Tick PROVE ReceiptInv'
    BY <2>2 DEF DriftLocally, MeddleWithBranch, Meddle, Restore, Tick, IInv, FileInv
  <2>3. ASSUME MeddleWithPullRequests PROVE ReceiptInv'
    <3>0. remote.opened \in Nat
      BY DEF IInv, FileInv
    <3>2. remote'.opened \in Nat /\ remote.opened <= remote'.opened
      BY <2>3, Numbered DEF IInv
    <3>3. UNCHANGED <<state, journal, files, pc, held, told, effects>>
      BY <2>3 DEF MeddleWithPullRequests, Meddle
    <3> HIDE DEF ReceiptInv
    <3>4. QED
      BY <3>0, <3>2, <3>3, RemoteMoves
  <2>4. QED
    BY <1>9, <2>1, <2>2, <2>3 DEF Environment
<1>10. ASSUME UNCHANGED vars PROVE ReceiptInv'
  BY <1>10 DEF vars
<1>11. ASSUME Commit \/ Replay \/ (\E o \in Operators : SubmitReplays(o)) PROVE ReceiptInv'
  BY <1>6, <1>11 DEF Commit, Replay, SubmitReplays, PublishSteps, IInv, SessionInv
<1>12. QED
  BY <1>1, <1>2, <1>3, <1>4, <1>5, <1>6, <1>7, <1>8, <1>9, <1>10, <1>11
     DEF Next, Command, Step, Resuming, AnswerRequest

-----------------------------------------------------------------------------
(* What a run finds again as long as nobody else changed anything: the remote it left,    *)
(* and the gates and the state its review file was written with.                          *)
Planned == [id |-> 0, ours |-> TRUE, exact |-> TRUE]

\* The remote has what the run brought there: at most one pull request, on the final head.
UndisturbedInv ==
    /\ meddles \in Nat
    /\ local \in [intact : BOOLEAN, flawed : BOOLEAN]
    /\ meddles = 0 =>
         /\ local.intact /\ remote.branch # "other"
         /\ \/ effects.created = 0 /\ remote.opened = 0 /\ remote.prs = {}
            \/ /\ effects.created = 1 /\ remote.opened = 1 /\ remote.prs = {Planned}
               /\ remote.branch = "final" /\ pc # "create"

\* The review is written once, by the node, with what the gates find, and is what is recorded.
AgreedInv ==
    /\ pc \in {"guard", "reviewer", "file-review"} => files.review = None
    /\ state.node = "FINALIZE" /\ journal \in Results => journal = "ok"
    /\ meddles = 0 =>
         /\ PrepareAgrees
         /\ pc \in {"guard", "reviewer"} => Findings = {}
         /\ pc = "file-review" => held.mechanical = Findings
         /\ files.review # None => files.review.mechanical = Findings
         /\ files.review # None /\ Findings = {} =>
              /\ ReviewAgrees
              /\ state.node = "DELIVERY_REVIEW" /\ journal \in Results =>
                   journal = files.review.verdict

(* A step inside the run that leaves the workspace and the remote alone.                  *)
LEMMA InsideStep ==
    ASSUME UndisturbedInv, UNCHANGED <<local, remote, effects, meddles>>,
           pc' = "create" => remote.prs = {}
    PROVE  UndisturbedInv'
BY DEF UndisturbedInv

(* Only the run pushes and opens, and it opens where there was none.                      *)
LEMMA UndisturbedStep ==
    ASSUME FileInv, UndisturbedInv, [Next]_vars
    PROVE  UndisturbedInv'
<1> USE DEF Go, Records, Leave, OpenSession, outside, bounded
<1>1. ASSUME ReviewDelivery PROVE UndisturbedInv'
  BY <1>1, InsideStep DEF ReviewDelivery, RestoreReview, Prepare, PrepareDisagrees, Guard,
       ReviewerAnswers, ReviewerFails, FileReview, ReturnReview
<1>2. ASSUME AskForApproval PROVE UndisturbedInv'
  BY <1>2, InsideStep DEF AskForApproval, ConsumeDecision, PlanPublication, RequestApproval,
       AwaitApproval, CannotAsk
<1>3. ASSUME Pushes, UNCHANGED <<local, meddles>>, pc' # "create" PROVE UndisturbedInv'
  BY <1>3 DEF Pushes, FileInv, UndisturbedInv
<1>4. ASSUME Opens, UNCHANGED <<local, meddles>>, pc = "create", pc' # "create"
      PROVE  UndisturbedInv'
  <2>1. /\ remote.branch # None /\ remote'.opened = remote.opened + 1
        /\ remote'.branch = remote.branch /\ effects'.created = effects.created + 1
        /\ remote'.prs = remote.prs \cup {[id |-> remote.opened, ours |-> TRUE, exact |-> TRUE]}
        /\ remote.branch \in {None, "final", "other"}
    BY <1>4 DEF Opens, FileInv
  <2>2. ASSUME meddles = 0
        PROVE  /\ remote'.opened = 1 /\ effects'.created = 1 /\ remote'.branch = "final"
               /\ remote'.prs = {Planned}
    BY <1>4, <2>1, <2>2 DEF UndisturbedInv, Planned
  <2>3. QED
    BY <1>4, <2>2 DEF UndisturbedInv
<1>5. ASSUME Publish PROVE UndisturbedInv'
  <2>1. CASE Push
    BY <1>3, <2>1 DEF Push
  <2>2. CASE CreatePullRequest
    BY <1>4, <2>2 DEF CreatePullRequest
  <2>3. CASE ~Push /\ ~CreatePullRequest
    BY <1>5, <2>3, InsideStep DEF Publish, EnterPublication, ResultReturned, BranchRead, FilePush,
         PullRequestFiled, AdoptPullRequest, NoPullRequestFound, FindsNone, CreatedAsPlanned,
         FilePullRequest, FileResult, ReturnPublished
  <2>4. QED
    BY <2>1, <2>2, <2>3
<1>6. ASSUME PublishFails PROVE UndisturbedInv'
  <2>1. CASE AnswerLost
    BY <1>3, <1>4, <2>1 DEF AnswerLost
  <2>2. CASE ~AnswerLost
    BY <1>6, <2>2, InsideStep DEF PublishFails, CallFails, EndsFailed, Escapes
  <2>3. QED
    BY <2>1, <2>2
<1>7. ASSUME \/ StartNode \/ FinalizeNode \/ CheckpointNode \/ CannotStart \/ Report \/ Commit
             \/ Resuming
      PROVE  UndisturbedInv'
  BY <1>7, InsideStep DEF StartNode, FinalizeNode, CheckpointNode, CannotStart, Report, Commit,
       Resuming, Resume, Replay, Assess, Rehydrate, RecoveryRequired
<1>8. ASSUME AnswerRequest PROVE UndisturbedInv'
  <2>1. UNCHANGED <<local, remote, effects, meddles, pc>>
    BY <1>8 DEF AnswerRequest, SubmitReplays, Submit, SubmissionEnds, SubmissionDies,
         EndSubmission
  <2>2. QED
    BY <2>1 DEF UndisturbedInv
<1>9. ASSUME Crash \/ Tick PROVE UndisturbedInv'
  BY <1>9 DEF Crash, Tick, UndisturbedInv
<1>10. ASSUME DriftLocally \/ MeddleWithBranch \/ MeddleWithPullRequests PROVE UndisturbedInv'
  <2>1. meddles' \in Nat /\ meddles' # 0
    <3>1. Meddle
      BY <1>10 DEF DriftLocally, MeddleWithBranch, MeddleWithPullRequests
    <3>2. QED
      BY <3>1 DEF Meddle, UndisturbedInv
  <2>2. local' \in [intact : BOOLEAN, flawed : BOOLEAN]
    BY <1>10 DEF UndisturbedInv, DriftLocally, MeddleWithBranch, MeddleWithPullRequests
  <2>3. QED
    BY <2>1, <2>2 DEF UndisturbedInv
<1>11. ASSUME Restore PROVE UndisturbedInv'
  BY <1>11 DEF Restore, FileInv, UndisturbedInv
<1>12. ASSUME UNCHANGED vars PROVE UndisturbedInv'
  BY <1>12 DEF vars, UndisturbedInv
<1>13. QED
  BY <1>1, <1>2, <1>5, <1>6, <1>7, <1>8, <1>9, <1>10, <1>11, <1>12
     DEF Next, Command, Step, Environment

(* Nothing the agreement of review, gates and state rests on is touched.                  *)
LEMMA KeepsAgreement ==
    ASSUME AgreedInv, UNCHANGED <<state, local, meddles>>,
           files'.review = files.review, files'.mechanical = files.mechanical,
           pc' \notin {"guard", "reviewer", "file-review"},
           \/ journal' = journal \/ journal' \notin Results
           \/ state.node \notin {"DELIVERY_REVIEW", "FINALIZE"}
           \/ state.node = "FINALIZE" /\ journal' = "ok"
    PROVE  AgreedInv'
BY DEF AgreedInv, PrepareAgrees, Findings, ReviewAgrees

(* The review is filed with what the gates found, and its verdict is what is applied.     *)
LEMMA AgreedStep ==
    ASSUME IInv, NodeInv, UndisturbedInv, AgreedInv, [Next]_vars
    PROVE  AgreedInv'
<1> USE DEF Go, Records, Leave, PersistOnce, OpenSession, outside, bounded
<1>0. {"mechanical", "review", "plan", "request", "decision", "push", "pr", "result"}
        \subseteq DOMAIN files
  BY DEF IInv, FileInv, NoFiles
<1>1. ASSUME ReviewDelivery PROVE AgreedInv'
  <2> USE DEF AgreedInv, PrepareAgrees, Findings, ReviewAgrees, IInv, ReviewInv, ReviewSteps
  <2>0. state.node = "DELIVERY_REVIEW" /\ state.verdict = "UNKNOWN" /\ UNCHANGED <<state, local, meddles>>
    BY <1>1, ReviewWrites DEF ReviewDelivery, RestoreReview, Prepare, PrepareDisagrees, Guard,
         ReviewerAnswers, ReviewerFails, FileReview, ReturnReview
  <2>1. ASSUME RestoreReview PROVE AgreedInv'
    BY <2>0, <2>1 DEF RestoreReview, Restorable, ResultOf
  <2>2. ASSUME Prepare PROVE AgreedInv'
    BY <1>0, <2>0, <2>2 DEF Prepare, Results
  <2>3. ASSUME PrepareDisagrees PROVE AgreedInv'
    BY <2>0, <2>3 DEF PrepareDisagrees
  <2>4. ASSUME Guard PROVE AgreedInv'
    BY <2>0, <2>4 DEF Guard, Results
  <2>5. ASSUME ReviewerAnswers PROVE AgreedInv'
    BY <2>0, <2>5 DEF ReviewerAnswers, Results
  <2>6. ASSUME ReviewerFails PROVE AgreedInv'
    BY <2>0, <2>6 DEF ReviewerFails
  <2>7. ASSUME FileReview PROVE AgreedInv'
    BY <1>0, <2>0, <2>7 DEF FileReview, Results
  <2>8. ASSUME ReturnReview PROVE AgreedInv'
    BY <2>0, <2>8 DEF ReturnReview
  <2>9. QED
    BY <1>1, <2>1, <2>2, <2>3, <2>4, <2>5, <2>6, <2>7, <2>8 DEF ReviewDelivery
<1>2. ASSUME AskForApproval PROVE AgreedInv'
  <2>1. /\ UNCHANGED <<state, journal, local, meddles>>
        /\ pc' \notin {"guard", "reviewer", "file-review"}
    BY <1>2 DEF AskForApproval, ConsumeDecision, PlanPublication, RequestApproval, AwaitApproval,
         CannotAsk
  <2>2. files'.review = files.review /\ files'.mechanical = files.mechanical
    BY <1>0, <1>2 DEF AskForApproval, ConsumeDecision, PlanPublication, RequestApproval,
         AwaitApproval, CannotAsk
  <2>3. QED
    BY <2>1, <2>2, KeepsAgreement
<1>3. ASSUME Publish PROVE AgreedInv'
  <2>1. /\ UNCHANGED <<state, local, meddles>> /\ state.node = "CREATE_PR"
        /\ pc' \notin {"guard", "reviewer", "file-review"}
    BY <1>3 DEF Publish, EnterPublication, ResultReturned, BranchRead, Push, FilePush,
         PullRequestFiled, AdoptPullRequest, NoPullRequestFound, CreatePullRequest,
         CreatedAsPlanned, FilePullRequest, FileResult, ReturnPublished, NodeInv, PublishSteps
  <2>2. files'.review = files.review /\ files'.mechanical = files.mechanical
    BY <1>0, <1>3 DEF Publish, EnterPublication, ResultReturned, BranchRead, Push, FilePush,
         PullRequestFiled, AdoptPullRequest, NoPullRequestFound, CreatePullRequest,
         CreatedAsPlanned, FilePullRequest, FileResult, ReturnPublished
  <2>3. QED
    BY <2>1, <2>2, KeepsAgreement
<1>4. ASSUME PublishFails PROVE AgreedInv'
  <2>1. /\ UNCHANGED <<state, files, local, meddles>> /\ state.node = "CREATE_PR"
        /\ pc' \notin {"guard", "reviewer", "file-review"}
    BY <1>4 DEF PublishFails, CallFails, AnswerLost, EndsFailed, Escapes, Unproven, GitSteps,
         ProviderSteps, NodeInv, PublishSteps
  <2>2. QED
    BY <2>1, KeepsAgreement
<1>5. ASSUME StartNode \/ FinalizeNode \/ CheckpointNode \/ CannotStart \/ Report PROVE AgreedInv'
  <2>1. ASSUME StartNode PROVE AgreedInv'
    BY <2>1, KeepsAgreement DEF StartNode, Results
  <2>2. ASSUME FinalizeNode PROVE AgreedInv'
    BY <2>2, KeepsAgreement DEF FinalizeNode, NodeInv
  <2>3. ASSUME CheckpointNode PROVE AgreedInv'
    BY <2>3, KeepsAgreement DEF CheckpointNode, NodeInv, CheckpointSteps
  <2>4. ASSUME CannotStart \/ Report PROVE AgreedInv'
    BY <2>4, KeepsAgreement DEF CannotStart, Report
  <2>5. QED
    BY <1>5, <2>1, <2>2, <2>3, <2>4
<1>6. ASSUME ApplyRecorded, UNCHANGED <<files, local, meddles>>,
             pc' \notin {"guard", "reviewer", "file-review"}
      PROVE  AgreedInv'
  <2>1. /\ journal \in Results /\ journal' \notin Results
        /\ state'.node = Target(journal)
        /\ state'.status = IF state.node = "FINALIZE" /\ state.status = "running"
                            THEN "completed" ELSE StatusOf(journal)
        /\ state'.verdict = CASE journal = "pass" -> "PASS"
                              [] journal = "fail" -> "FAIL"
                              [] OTHER -> state.verdict
    BY <1>6 DEF ApplyRecorded, Results
  <2>2. Findings' = Findings /\ PrepareAgrees' = PrepareAgrees
    BY <1>6 DEF Findings, PrepareAgrees
  <2>3. ASSUME files.review # None, ReviewAgrees, files.review.verdict \in {"pass", "fail", "blocked"},
               state.node = "DELIVERY_REVIEW" => journal = files.review.verdict
        PROVE  ReviewAgrees'
    <3>1. CASE state.node = "DELIVERY_REVIEW"
      BY <1>6, <2>1, <2>3, <3>1 DEF ReviewAgrees, Target, StatusOf, IInv, ReviewInv
    <3>2. CASE state.node # "DELIVERY_REVIEW"
      <4>1. journal \notin {"pass", "fail"} /\ state'.verdict = state.verdict
        BY <2>1, <3>2 DEF IInv, ReviewInv
      <4>2. /\ state.node = "FINALIZE" => journal = "ok" /\ state'.node = "END"
            /\ state.node # "END" /\ state'.node \in {"CREATE_PR", "FINALIZE", "END"}
        BY <2>1, <4>1 DEF AgreedInv, NodeInv, Target
      <4>3. QED
        BY <1>6, <2>1, <2>3, <3>2, <4>1, <4>2 DEF ReviewAgrees, StatusOf
    <3>3. QED
      BY <3>1, <3>2
  <2>4. files.review # None => files.review.verdict \in {"pass", "fail", "blocked"}
    BY DEF IInv, FileInv, ReviewFiles
  <2>5. QED
    BY <1>6, <2>1, <2>2, <2>3, <2>4 DEF AgreedInv
<1>7. ASSUME Commit \/ Replay \/ (\E o \in Operators : SubmitReplays(o)) PROVE AgreedInv'
  BY <1>6, <1>7 DEF Commit, Replay, SubmitReplays, IInv, SessionInv
<1>8. ASSUME Resume \/ Assess \/ Rehydrate \/ RecoveryRequired PROVE AgreedInv'
  BY <1>8, KeepsAgreement DEF Resume, Assess, Rehydrate, RecoveryRequired
<1>9. ASSUME NEW o \in Operators,
             (\E outcome \in Outcomes : Submit(o, outcome)) \/ SubmissionEnds(o)
               \/ SubmissionDies(o)
      PROVE  AgreedInv'
  <2>1. UNCHANGED <<state, journal, pc, held, local, meddles>>
    BY <1>9 DEF Submit, SubmissionEnds, SubmissionDies, EndSubmission
  <2>2. files'.review = files.review /\ files'.mechanical = files.mechanical
    BY <1>0, <1>9 DEF Submit, SubmissionEnds, SubmissionDies, FileDecision
  <2>3. QED
    BY <2>1, <2>2 DEF AgreedInv, PrepareAgrees, Findings, ReviewAgrees
<1>10. ASSUME Environment PROVE AgreedInv'
  <2>1. ASSUME Crash PROVE AgreedInv'
    BY <2>1, KeepsAgreement DEF Crash
  <2>2. ASSUME Tick PROVE AgreedInv'
    BY <2>2 DEF Tick, AgreedInv, PrepareAgrees, Findings, ReviewAgrees
  <2>3. ASSUME DriftLocally \/ MeddleWithBranch \/ MeddleWithPullRequests PROVE AgreedInv'
    <3>1. Meddle
      BY <2>3 DEF DriftLocally, MeddleWithBranch, MeddleWithPullRequests
    <3>2. meddles' # 0 /\ UNCHANGED <<state, journal, files, pc>>
      BY <3>1 DEF Meddle, UndisturbedInv
    <3>3. QED
      BY <3>2 DEF AgreedInv
  <2>4. ASSUME Restore PROVE AgreedInv'
    <3>1. UNCHANGED <<state, journal, files, pc, held, meddles>>
      BY <2>4 DEF Restore
    <3>2. meddles = 0 => local'.intact = local.intact /\ local'.flawed = local.flawed
      BY <2>4 DEF Restore, UndisturbedInv
    <3>3. QED
      BY <3>1, <3>2 DEF AgreedInv, PrepareAgrees, Findings, ReviewAgrees
  <2>5. QED
    BY <1>10, <2>1, <2>2, <2>3, <2>4 DEF Environment
<1>11. ASSUME UNCHANGED vars PROVE AgreedInv'
  BY <1>11 DEF vars, AgreedInv, PrepareAgrees, Findings, ReviewAgrees
<1>12. QED
  BY <1>1, <1>2, <1>3, <1>4, <1>5, <1>7, <1>8, <1>9, <1>10, <1>11
     DEF Next, Command, Step, Resuming, AnswerRequest

-----------------------------------------------------------------------------
(* Nothing is filed, recorded or open.                                                   *)
LEMMA InitEvidence ==
    Init => NodeInv /\ ApprovalInv /\ RemoteInv /\ ReceiptInv /\ UndisturbedInv /\ AgreedInv
<1>1. Init => NodeInv /\ ApprovalInv /\ RemoteInv /\ ReceiptInv
  BY DEF Init, NoFiles, NoRemote, NodeInv, ApprovalInv, RemoteInv, ReceiptInv, CheckpointSteps,
         PublishSteps, Results
<1>2. Init => UndisturbedInv
  BY DEF Init, NoRemote, UndisturbedInv
<1>3. Init => AgreedInv
  BY DEF Init, NoFiles, AgreedInv, PrepareAgrees, Results
<1>4. QED
  BY <1>1, <1>2, <1>3

EInv ==
    /\ IInv /\ NodeInv /\ ApprovalInv /\ RemoteInv /\ ReceiptInv
    /\ UndisturbedInv /\ AgreedInv

(* EInv is inductive.                                                                    *)
THEOREM EvidenceInvariance == Spec => []EInv
<1>1. Init => EInv
  BY InitIInv, InitEvidence DEF EInv
<1>2. EInv /\ [Next]_vars => EInv'
  BY NextIInv, NodesStep, ApprovalStep, RemoteStep, ReceiptStep, UndisturbedStep, AgreedStep
     DEF EInv, IInv
<1>3. QED
  BY <1>1, <1>2, PTL DEF Spec

(* A run reports its draft pull request, and is completed, only with every receipt; if   *)
(* nobody else changed anything it opened just the one that is there                     *)
(* (PublishExecution.execute, _report).                                                  *)
THEOREM PublicationsAreProved == Spec => []PublicationProved
<1>1. ASSUME EInv PROVE PublicationProved
  <2>1. ASSUME state.status = "completed" \/ told = "draft pull request" \/ files.result # None
        PROVE  /\ files.result # None /\ files.push # None /\ files.pr # None
               /\ files.pr \in Nat /\ files.pr < remote.opened
    BY <1>1, <2>1 DEF EInv, ReceiptInv
  <2>2. ASSUME files.pr # None, files.pr \in Nat, files.pr < remote.opened, meddles = 0
        PROVE  effects.created = 1 /\ remote.branch = "final" /\ PullRequestBinds
    <3>1. /\ effects.created = 1 /\ remote.opened = 1 /\ remote.prs = {Planned}
          /\ remote.branch = "final"
      BY <1>1, <2>2 DEF EInv, UndisturbedInv
    <3>2. files.pr = 0
      BY <2>2, <3>1
    <3>3. QED
      BY <2>2, <3>1, <3>2 DEF PullRequestBinds, Exact, Planned
  <2>3. QED
    BY <2>1, <2>2 DEF PublicationProved
<1>2. QED
  BY <1>1, EvidenceInvariance, PTL

(* The verdict of the graph is the one of the review file, and without anybody else's    *)
(* changes every later command restores it (_restore_completed, _reconcile_state).       *)
THEOREM VerdictsAreFiled == Spec => []VerdictIsFiled
<1>1. ASSUME EInv PROVE VerdictIsFiled
  <2>1. /\ state.verdict = "PASS" => files.review # None /\ files.review.verdict = "pass"
        /\ state.verdict = "FAIL" => files.review # None /\ files.review.verdict = "fail"
    BY <1>1 DEF EInv, IInv, ReviewInv
  <2>2. ASSUME files.review # None, meddles = 0, files.review.mechanical = {} PROVE Restorable
    BY <1>1, <2>2 DEF EInv, AgreedInv, Restorable
  <2>3. QED
    BY <2>1, <2>2 DEF VerdictIsFiled
<1>2. QED
  BY <1>1, EvidenceInvariance, PTL

(* The first decision stands, and the checkpoint is left as it says, or because the      *)
(* request ran out before anybody decided (write_decision_once, submit_checkpoint).      *)
THEOREM DecisionsStand == Spec => DecisionStands
<1> DEFINE Stands ==
      /\ files.decision # None => files'.decision = files.decision
      /\ state.node = "HUMAN_CHECKPOINT" /\ state'.node # state.node =>
            IF files.decision # None THEN journal = files.decision.outcome
            ELSE journal = "blocked" /\ files.request # None /\ Expired(files.request)
<1> DEFINE Kept ==
      /\ state' = state \/ journal \in Results
      /\ files.decision # None => files'.decision = files.decision
<1>1. ASSUME EInv, [Next]_vars PROVE Kept
  <2> USE DEF EInv, IInv, FileInv, NoFiles, Go, Records, Leave, PersistOnce, OpenSession, outside,
          bounded
  <2>1. ASSUME ReviewDelivery PROVE Kept
    BY <1>1, <2>1 DEF ReviewDelivery, RestoreReview, Prepare, PrepareDisagrees, Guard,
         ReviewerAnswers, ReviewerFails, FileReview, ReturnReview
  <2>2. ASSUME AskForApproval PROVE Kept
    BY <1>1, <2>2 DEF AskForApproval, ConsumeDecision, PlanPublication, RequestApproval,
         AwaitApproval, CannotAsk
  <2>3. ASSUME Publish PROVE Kept
    BY <1>1, <2>3 DEF Publish, EnterPublication, ResultReturned, BranchRead, Push, Pushes,
         FilePush,
         PullRequestFiled, AdoptPullRequest, NoPullRequestFound, CreatePullRequest, Opens,
         CreatedAsPlanned, FilePullRequest, FileResult, ReturnPublished
  <2>4. ASSUME PublishFails PROVE Kept
    BY <2>4 DEF PublishFails, CallFails, AnswerLost, EndsFailed, Escapes
  <2>5. ASSUME StartNode \/ FinalizeNode \/ CheckpointNode \/ CannotStart \/ Report PROVE Kept
    BY <2>5 DEF StartNode, FinalizeNode, CheckpointNode, CannotStart, Report
  <2>6. ASSUME Commit \/ Replay \/ (\E o \in Operators : SubmitReplays(o)) PROVE Kept
    BY <2>6 DEF Commit, Replay, SubmitReplays, ApplyRecorded
  <2>7. ASSUME Resume \/ Assess \/ Rehydrate \/ RecoveryRequired PROVE Kept
    BY <2>7 DEF Resume, Assess, Rehydrate, RecoveryRequired
  <2>8. ASSUME NEW o \in Operators,
               (\E outcome \in Outcomes : Submit(o, outcome)) \/ SubmissionEnds(o)
                 \/ SubmissionDies(o)
        PROVE  Kept
    BY <2>8 DEF Submit, SubmissionEnds, SubmissionDies, EndSubmission, FileDecision
  <2>9. ASSUME Environment PROVE Kept
    BY <2>9 DEF Environment, Crash, Meddle, DriftLocally, MeddleWithBranch,
         MeddleWithPullRequests, Restore, Tick
  <2>10. ASSUME UNCHANGED vars PROVE Kept
    BY <2>10 DEF vars
  <2>11. QED
    BY <1>1, <2>1, <2>2, <2>3, <2>4, <2>5, <2>6, <2>7, <2>8, <2>9, <2>10
       DEF Next, Command, Step, Resuming, AnswerRequest
<1>2. ASSUME EInv, [Next]_vars PROVE Stands
  BY <1>1, <1>2 DEF EInv, ApprovalInv, Lapsed
<1>3. EInv /\ [Next]_vars => [Stands]_vars
  BY <1>2
<1>4. QED
  BY <1>3, EvidenceInvariance, PTL DEF Spec, DecisionStands
=============================================================================
