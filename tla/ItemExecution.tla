--------------------------- MODULE ItemExecution ---------------------------
(***************************************************************************)
(* The items of one write run, from the analysis of an item to its commit: *)
(* WriteExecution (write/workspace.py) writes immutable evidence files     *)
(* around every effect in the external worktree, and a new process         *)
(* rebuilds the execution from them (rehydrate, activate and               *)
(* verify_completed_item) or refuses to go on.                             *)
(*                                                                         *)
(* The process may die before or after any durable write.  Meanwhile       *)
(* somebody else may edit the worktree, commit on the scope branch, or     *)
(* move the target repository.  The journal is DurableRun's subject: here  *)
(* a node is started, and its recorded result is the transition.           *)
(***************************************************************************)
EXTENDS Integers, Sequences

CONSTANTS
    Trees,        \* what a worktree may hold; equal trees have equal digests
    BaseTree,     \* the tree of the pinned target baseline
    None,
    Items,        \* how many items the work plan has
    MaxItems,     \* max_work_items_per_run
    MaxRepair,    \* max_repair_cycles
    MaxCrashes,   \* bound: how often the process dies
    MaxDrift      \* bound: how often somebody else interferes

ASSUME TreeAssumption == BaseTree \in Trees /\ None \notin Trees
ASSUME BoundAssumption ==
    Items \in Nat \ {0} /\ MaxItems \in Nat \ {0} /\ MaxRepair \in Nat /\ MaxCrashes \in Nat /\ MaxDrift \in Nat

VARIABLES
    state,     \* GraphState: cursor, current item, verdicts, names of evidence, commits
    started,   \* the journal's last record is NODE_STARTED
    files,     \* the evidence files: <<item, cycle, kind>> -> content or None
    repo,      \* the worktree and the scope branch it has checked out
    pinned,    \* the target repository and the work source are as frozen
    pc,        \* where the process is inside a node; "down" when there is none
    mem,       \* the WriteExecution of the current item (volatile)
    refused,   \* the last resume was refused
    calls,     \* history: how often the change provider was asked, by item and cycle
    made,      \* history: commits the run itself made, by item
    crashes,
    drifts

vars == <<state, started, files, repo, pinned, pc, mem, refused, calls, made, crashes, drifts>>

history == <<calls, made>>
bounded == <<crashes, drifts>>
outside == <<repo, pinned>>

Cycles    == 0 .. MaxRepair
ItemRange == 1 .. Items

Kinds == {"proposal", "applied", "manifest", "validation", "mechanical", "review-context",
          "review", "context", "inputs", "witness", "commit"}

\* A commit is the chain of trees it was built from, the baseline the empty chain.
TreeOf(commit) == IF commit = <<>> THEN BaseTree ELSE commit[Len(commit)]

Parent(commit) == SubSeq(commit, 1, Len(commit) - 1)

\* multi_item: the base of an item is the commit of the one completed before it.
Base == IF state.completed = <<>> THEN <<>> ELSE state.completed[Len(state.completed)]

Nodes == {"EXPLORE", "IMPLEMENT", "VALIDATE", "REVIEW", "CLASSIFY_FAILURE", "REPAIR",
          "CLOSE_TASK", "FINALIZE"}

\* Mutants: an interrupted commit, an interrupted author, is run again.
RerunsClose  == {"IMPLEMENT", "REPAIR"}
RerunsAuthor == {"CLOSE_TASK"}

SideEffectNodes == {"IMPLEMENT", "REPAIR", "CLOSE_TASK"}

\* The findings of a review; reviewers find "semantic".
MechanicalFindings == {"baseline_drift", "manifest_mismatch", "no_effective_changes"}
Findings           == MechanicalFindings \cup {"semantic"}

\* What a file of each kind may hold, which is never None.
Evidence(kind) ==
    CASE kind = "validation" -> [tree : Trees, passed : BOOLEAN]
      [] kind = "mechanical" -> [tree : Trees, findings : SUBSET MechanicalFindings]
      [] kind = "review"     -> [tree : Trees, mechanical : SUBSET MechanicalFindings,
                                 semantic : {"pass", "fail", "blocked", None}]
      [] kind = "context"    -> [tree : Trees, source : {"VALIDATE", "REVIEW"},
                                 findings : SUBSET Findings]
      [] kind = "witness"    -> [base : Seq(Trees), sha : Seq(Trees) \cup {None}, tree : Trees,
                                 cycle : Cycles]
      [] kind \in {"inputs", "commit"} -> Seq(Trees)
      [] OTHER               -> Trees

ASSUME NoneAssumption == \A kind \in Kinds : None \notin Evidence(kind)

\* GraphState when an item has just been selected.
FreshItem(k, commits) ==
    [node |-> "EXPLORE", prev |-> "SELECT_WORK", item |-> k, count |-> 0,
     manifests |-> <<>>, validation |-> "UNKNOWN", review |-> "UNKNOWN", findings |-> {},
     completed |-> commits]

NoMem == [active |-> FALSE, manifest |-> None, cycle |-> 0, validated |-> FALSE,
          reviewed |-> FALSE, findings |-> {}, proposal |-> None, base |-> <<>>,
          semantic |-> None, sha |-> None, result |-> None]

-----------------------------------------------------------------------------
At(cycle, kind)     == files[state.item, cycle, kind]
Exists(cycle, kind) == At(cycle, kind) # None

\* write_evidence: a file that exists is never written again.
Write(cycle, kind, content) ==
    /\ ~Exists(cycle, kind)
    /\ files' = [files EXCEPT ![<<state.item, cycle, kind>>] = content]

\* Written once; a rerun must find what it would write.
WriteOrAgree(cycle, kind, content) ==
    \/ Write(cycle, kind, content)
    \/ At(cycle, kind) = content /\ UNCHANGED files

\* capture_manifest then comparison (verify_current_manifest): the worktree still
\* is at the item's base and holds what the manifest says.
ManifestHolds(tree) == repo.head = Base /\ repo.tree = tree

\* git worktree add, and git commit of what the worktree holds.
AddWorktree(commit) == [exists |-> TRUE, head |-> commit, tree |-> TreeOf(commit)]
CommitTree          == [repo EXCEPT !.head = Append(@, repo.tree)]

CleanAt(commit) == repo.exists /\ repo.head = commit /\ repo.tree = TreeOf(commit)

\* The restored review file of a cycle agrees with its mechanical part, and a semantic
\* verdict with the frozen context it was given (_restore_review_evidence).
Restorable(cycle, tree) ==
    /\ At(cycle, "review").tree = tree
    /\ Exists(cycle, "mechanical")
    /\ At(cycle, "mechanical") = [tree |-> tree, findings |-> At(cycle, "review").mechanical]
    /\ At(cycle, "review").mechanical = {} =>
         /\ state.validation = "PASS" /\ state.count = cycle /\ pinned
         /\ At(cycle, "validation") = [tree |-> tree, passed |-> TRUE]
         /\ At(cycle, "review-context") = tree

\* _restore_validation_evidence
ValidationRestorable(cycle, tree) ==
    Exists(cycle, "validation") /\ At(cycle, "validation").tree = tree

ReviewFindings(review) ==
    IF review.mechanical # {} THEN review.mechanical
    ELSE IF review.semantic = "fail" THEN {"semantic"} ELSE {}

ReviewPassed(review) == review.mechanical = {} /\ review.semantic = "pass"

-----------------------------------------------------------------------------
\* MultiItemExecution.verify_completed_item: the files of item k prove its commit,
\* the child of the commit of the item before.
VerifyCompletedItem(k, base) ==
    LET witness == files[k, 0, "witness"]
    IN  /\ files[k, 0, "inputs"] = base
        /\ witness # None
        /\ witness.base = base /\ witness.sha # None
        /\ LET File(kind) == files[k, witness.cycle, kind]
           IN  /\ File("manifest") = witness.tree
               /\ File("applied") # None /\ File("applied") = File("proposal")
               /\ File("validation") = [tree |-> witness.tree, passed |-> TRUE]
               /\ File("mechanical") = [tree |-> witness.tree, findings |-> {}]
               /\ File("review-context") = witness.tree
               /\ File("review") =
                    [tree |-> witness.tree, mechanical |-> {}, semantic |-> "pass"]
        /\ files[k, 0, "commit"] = witness.sha
        /\ witness.sha # <<>>
        /\ Parent(witness.sha) = base
        /\ TreeOf(witness.sha) = witness.tree

CompletedLineage ==
    \A k \in DOMAIN state.completed :
        /\ VerifyCompletedItem(k, IF k = 1 THEN <<>> ELSE state.completed[k - 1])
        /\ files[k, 0, "witness"].sha = state.completed[k]

\* verify_run_boundary, before the read-only nodes of an item.
RunBoundary == pinned /\ (state.completed # <<>> => CleanAt(Base))

\* multi_item: the evidence of an item is kept in the item's directory, of a run that is
\* limited to one item in the run's own.
EvidenceRoot == IF MaxItems = 1 THEN "run" ELSE "item"

\* cli/status.py: once an item is completed, the items with the witness of a commit in
\* their directory must be the completed ones.
Witnessed == {k \in ItemRange : EvidenceRoot = "item" /\ files[k, 0, "witness"] # None}

StatusAnswers ==
    state.completed # <<>> =>
        /\ \A k \in Witnessed : files[k, 0, "witness"].sha # None
        /\ Witnessed = DOMAIN state.completed

-----------------------------------------------------------------------------
\* WriteExecution.rehydrate at the persisted cursor.
Manifest == state.manifests[Len(state.manifests)]
LastCycle == Len(state.manifests) - 1

LineageAgrees ==
    /\ LastCycle <= state.count
    /\ \A c \in 0 .. LastCycle :
         /\ At(c, "proposal") # None /\ At(c, "applied") = At(c, "proposal")
         /\ At(c, "manifest") = state.manifests[c + 1]

JudgementIsCurrent == state.node \notin {"REPAIR", "VALIDATE"}

ValidationAgrees ==
    Exists(LastCycle, "validation") /\ state.validation # "UNKNOWN" /\ JudgementIsCurrent =>
        /\ ValidationRestorable(LastCycle, Manifest)
        /\ state.validation = (IF At(LastCycle, "validation").passed THEN "PASS" ELSE "FAIL")

\* Mutant: a review file ahead of the state is never excused.
ReviewAgreesAlways ==
    Exists(LastCycle, "review") /\ JudgementIsCurrent =>
        LET review == At(LastCycle, "review")
        IN  /\ state.review = (IF ReviewPassed(review) THEN "PASS" ELSE "FAIL")
            /\ state.findings = ReviewFindings(review)

ReviewAgrees ==
    Exists(LastCycle, "review") /\ JudgementIsCurrent =>
        /\ Restorable(LastCycle, Manifest)
        /\ \/ state.node = "REVIEW" /\ state.review = "UNKNOWN"
           \/ LET review == At(LastCycle, "review")
              IN  /\ state.review = (IF ReviewPassed(review) THEN "PASS" ELSE "FAIL")
                  /\ state.findings = ReviewFindings(review)

Rehydrates ==
    state.manifests # <<>> =>
        /\ LineageAgrees
        /\ Exists(0, "witness") \/ ManifestHolds(Manifest)
        /\ ValidationAgrees /\ ReviewAgrees

\* What rehydrate leaves in the execution.
Rehydrated ==
    IF state.manifests = <<>> THEN [NoMem EXCEPT !.active = TRUE]
    ELSE LET judged == JudgementIsCurrent /\ Exists(LastCycle, "review")
         IN  [NoMem EXCEPT !.active = TRUE, !.manifest = Manifest, !.cycle = LastCycle,
                !.validated = /\ JudgementIsCurrent /\ Exists(LastCycle, "validation")
                              /\ At(LastCycle, "validation").passed,
                !.reviewed = judged /\ ReviewPassed(At(LastCycle, "review")),
                !.findings = IF judged THEN ReviewFindings(At(LastCycle, "review")) ELSE {}]

\* MultiItemExecution.activate(rehydrating): after the first item the worktree must be
\* clean at the item's base, whatever the cursor is.
Activates ==
    /\ Exists(0, "inputs") => At(0, "inputs") = Base
    /\ state.completed # <<>> => CleanAt(Base)

-----------------------------------------------------------------------------
Init ==
    /\ state = FreshItem(1, <<>>)
    /\ started = FALSE
    /\ files = [key \in ItemRange \X Cycles \X Kinds |-> None]
    /\ repo = [exists |-> FALSE, head |-> <<>>, tree |-> BaseTree]
    /\ pinned = TRUE
    /\ pc = "idle"
    /\ mem = NoMem
    /\ refused = FALSE
    /\ calls = [key \in ItemRange \X Cycles |-> 0]
    /\ made = [k \in ItemRange |-> 0]
    /\ crashes = 0
    /\ drifts = 0

\* A step inside a node: the process moves on, the run's state does not.
Inside(from, to) ==
    /\ pc = from
    /\ pc' = to
    /\ UNCHANGED <<state, started, refused, bounded>>

\* The node returns a result; it counts once it is recorded.
Returns(from, result) ==
    /\ Inside(from, "return")
    /\ mem' = [mem EXCEPT !.result = result]

\* A failed or blocked result: the graph goes to FINALIZE.
Stops(from) == Returns(from, "stop") /\ UNCHANGED <<files, outside, history>>

StartNode(node, to) ==
    /\ pc = "idle" /\ state.node = node
    /\ started' = TRUE
    /\ pc' = to
    /\ UNCHANGED <<state, files, outside, mem, refused, history, bounded>>

-----------------------------------------------------------------------------
\* EXPLORE to ASSESS_RISK: the item is activated and analysed read-only.
Explore ==
    /\ Inside("EXPLORE", "return")
    /\ ~mem.active
    /\ pinned
    /\ state.completed # <<>> => CleanAt(Base)
    /\ state.completed = <<>> => ~repo.exists
    /\ CompletedLineage
    /\ WriteOrAgree(0, "inputs", Base)
    /\ mem' = [NoMem EXCEPT !.active = TRUE, !.result = "done"]
    /\ UNCHANGED <<outside, history>>

ExploreAgain ==
    mem.active /\ pinned /\ Returns("EXPLORE", "done") /\ UNCHANGED <<files, outside, history>>

\* WriteExecution.implement: the worktree is created from the base or is still clean
\* at it; then the provider is asked.
OpenWorkspace ==
    /\ Inside("IMPLEMENT", "propose")
    /\ pinned
    /\ repo.exists => CleanAt(Base)
    /\ repo' = AddWorktree(Base)
    /\ calls' = [calls EXCEPT ![<<state.item, 0>>] = @ + 1]
    /\ mem' = [mem EXCEPT !.base = Base, !.manifest = None]
    /\ UNCHANGED <<files, pinned, made>>

\* What the provider may leave the worktree at: untouched.
Untouched ==
    IF state.node = "IMPLEMENT" THEN CleanAt(mem.base) ELSE ManifestHolds(mem.manifest)

Cycle == IF state.node = "IMPLEMENT" THEN 0 ELSE state.count

\* The proposal is evidence before anything of it is applied.
Propose ==
    /\ Inside("propose", "apply")
    /\ pinned /\ Untouched
    /\ \E tree \in Trees :
         /\ Write(Cycle, "proposal", tree)
         /\ mem' = [mem EXCEPT !.proposal = tree]
    /\ UNCHANGED <<outside, history>>

\* apply_changeset refuses files that changed since the proposal; a change elsewhere
\* in the worktree is not noticed and becomes part of what is captured.
Apply ==
    /\ Inside("apply", "applied")
    /\ \E tree \in Trees :
         /\ Untouched => tree = mem.proposal
         /\ repo' = [repo EXCEPT !.tree = tree]
    /\ UNCHANGED <<files, pinned, mem, history>>

RecordApplied ==
    /\ Inside("applied", "capture")
    /\ Write(Cycle, "applied", mem.proposal)
    /\ UNCHANGED <<outside, mem, history>>

\* capture_manifest describes what the worktree holds now.
CaptureManifest ==
    /\ Inside("capture", "return")
    /\ repo.head = Base
    /\ Write(Cycle, "manifest", repo.tree)
    /\ mem' = [mem EXCEPT !.manifest = repo.tree, !.cycle = Cycle, !.validated = FALSE,
                          !.reviewed = FALSE, !.findings = {}, !.result = "done"]
    /\ UNCHANGED <<outside, history>>

-----------------------------------------------------------------------------
\* Mutant: the evidence is kept per item, not per cycle.
RestoreFirstValidation ==
    /\ Inside("VALIDATE", "return")
    /\ ValidationRestorable(0, At(0, "manifest"))
    /\ LET passed == At(0, "validation").passed
       IN  mem' = [mem EXCEPT !.validated = passed, !.result = IF passed THEN "pass" ELSE "fail"]
    /\ UNCHANGED <<files, outside, history>>

\* WriteExecution.validate: evidence of the cycle is used again, never redone.
RestoreValidation ==
    /\ Inside("VALIDATE", "return")
    /\ ValidationRestorable(state.count, mem.manifest)
    /\ LET passed == At(state.count, "validation").passed
       IN  mem' = [mem EXCEPT !.validated = passed, !.result = IF passed THEN "pass" ELSE "fail"]
    /\ UNCHANGED <<files, outside, history>>

RunChecks ==
    /\ Inside("VALIDATE", "return")
    /\ mem.manifest # None
    /\ \E passed \in BOOLEAN :
         /\ Write(state.count, "validation", [tree |-> mem.manifest, passed |-> passed])
         /\ mem' = [mem EXCEPT !.validated = passed, !.result = IF passed THEN "pass" ELSE "fail"]
    /\ UNCHANGED <<outside, history>>

-----------------------------------------------------------------------------
\* WriteExecution.review with finished evidence.
RestoreReview ==
    /\ Inside("REVIEW", "return")
    /\ Exists(state.count, "review")
    /\ Restorable(state.count, mem.manifest)
    /\ At(state.count, "review").mechanical = {} => ManifestHolds(mem.manifest)
    /\ LET review == At(state.count, "review")
       IN  mem' = [mem EXCEPT !.reviewed = ReviewPassed(review),
                              !.findings = ReviewFindings(review),
                              !.result = IF review.semantic = "blocked" THEN "stop"
                                         ELSE IF ReviewPassed(review) THEN "pass" ELSE "fail"]
    /\ UNCHANGED <<files, outside, history>>

\* Mutant: a change of nothing is reviewed.
MechanicalWithoutEffect ==
    {f \in MechanicalFindings :
       \/ f = "baseline_drift" /\ ~pinned
       \/ f = "manifest_mismatch" /\ ~ManifestHolds(mem.manifest)}

Mechanical ==
    {f \in MechanicalFindings :
       \/ f = "baseline_drift" /\ ~pinned
       \/ f = "manifest_mismatch" /\ ~ManifestHolds(mem.manifest)
       \/ f = "no_effective_changes" /\ mem.manifest = TreeOf(Base)}

\* The mechanical part, frozen before a reviewer is asked.
ReviewMechanically ==
    /\ Inside("REVIEW", IF Mechanical = {} THEN "review-context" ELSE "judge")
    /\ ~Exists(state.count, "review")
    /\ WriteOrAgree(state.count, "mechanical",
                    [tree |-> mem.manifest, findings |-> Mechanical])
    /\ mem' = [mem EXCEPT !.findings = Mechanical, !.semantic = None]
    /\ UNCHANGED <<outside, history>>

FreezeContext ==
    /\ Inside("review-context", "semantic")
    /\ pinned /\ ManifestHolds(mem.manifest)
    /\ WriteOrAgree(state.count, "review-context", mem.manifest)
    /\ UNCHANGED <<outside, mem, history>>

\* The reviewer runs under the workspace and drift guards of AgentExecution._invoke.
ReviewSemantically ==
    /\ Inside("semantic", "judge")
    /\ pinned /\ ManifestHolds(mem.manifest)
    /\ \E verdict \in {"pass", "fail", "blocked"} : mem' = [mem EXCEPT !.semantic = verdict]
    /\ UNCHANGED <<files, outside, history>>

\* The combined review file, then the result.
WriteReview ==
    LET review == [tree |-> mem.manifest, mechanical |-> mem.findings,
                   semantic |-> mem.semantic]
    IN  /\ Write(state.count, "review", review)
        /\ Inside("judge", "return")
        /\ mem' = [mem EXCEPT !.reviewed = ReviewPassed(review),
                              !.findings = ReviewFindings(review),
                              !.result = IF review.semantic = "blocked" THEN "stop"
                                         ELSE IF ReviewPassed(review) THEN "pass" ELSE "fail"]
        /\ UNCHANGED <<outside, history>>

-----------------------------------------------------------------------------
\* prepare_failure_context: the failed verdict of the state is the one of the files.
FailureIsEvident ==
    LET cycle == state.count
    IN  /\ ValidationRestorable(cycle, mem.manifest)
        /\ \/ /\ state.prev = "VALIDATE" /\ state.validation = "FAIL"
              /\ ~At(cycle, "validation").passed
           \/ /\ state.prev = "REVIEW" /\ state.validation = "PASS" /\ state.review = "FAIL"
              /\ At(cycle, "validation").passed
              /\ Exists(cycle, "review") /\ Restorable(cycle, mem.manifest)
              /\ ~ReviewPassed(At(cycle, "review"))
              /\ state.findings = ReviewFindings(At(cycle, "review"))

ClassifyFailure ==
    /\ Returns("CLASSIFY_FAILURE", "done")
    /\ state.count < MaxRepair
    /\ pinned /\ ManifestHolds(mem.manifest) /\ FailureIsEvident
    /\ WriteOrAgree(state.count + 1, "context",
                    [tree |-> mem.manifest, source |-> state.prev, findings |-> state.findings])
    /\ UNCHANGED <<outside, history>>

\* WriteExecution.repair up to the provider.
PrepareRepair ==
    /\ Inside("REPAIR", "propose")
    /\ Exists(state.count, "context")
    /\ pinned /\ ManifestHolds(mem.manifest)
    /\ calls' = [calls EXCEPT ![<<state.item, state.count>>] = @ + 1]
    /\ UNCHANGED <<files, outside, mem, made>>

-----------------------------------------------------------------------------
\* WriteExecution.commit: nothing changed since the review that authorized it.
CheckCommit ==
    /\ Inside("CLOSE_TASK", "git-commit")
    /\ mem.reviewed /\ pinned
    /\ mem.manifest # TreeOf(Base) /\ ManifestHolds(mem.manifest)
    /\ mem' = [mem EXCEPT !.base = repo.head]
    /\ UNCHANGED <<files, outside, history>>

\* git commits what the worktree holds of the reviewed paths on whatever the branch is at
\* (an edit elsewhere shows as an edit after the commit); GitAdapter may raise although
\* the branch moved, and the branch may then not even be resolved.
GitCommit ==
    /\ pc = "git-commit"
    /\ repo.tree # TreeOf(repo.head)
    /\ repo' = CommitTree
    /\ made' = [made EXCEPT ![state.item] = @ + 1]
    /\ \E raised \in BOOLEAN, sha \in {repo'.head, None} :
         /\ ~raised => sha = repo'.head
         /\ mem' = [mem EXCEPT !.sha = sha]
         /\ Inside("git-commit", IF raised THEN "uncertain" ELSE "witness")
    /\ UNCHANGED <<files, pinned, calls>>

\* Staging fails, or git commits nothing and the branch is seen where it was: a normal
\* failure.  It is uncertain when the branch has moved or cannot be resolved.
GitCommitFails ==
    \/ Stops("git-commit")
    \/ /\ Inside("git-commit", "uncertain")
       /\ \E sha \in {repo.head, None} \ {mem.base} : mem' = [mem EXCEPT !.sha = sha]
       /\ UNCHANGED <<files, outside, history>>

\* PostCommitRecoveryRequired leaves the run with its node started.
Leave == pc' = "down" /\ mem' = NoMem

WriteWitness ==
    /\ pc \in {"witness", "uncertain"}
    /\ Write(0, "witness", [base |-> mem.base, sha |-> mem.sha, tree |-> mem.manifest,
                            cycle |-> mem.cycle])
    /\ IF pc = "witness" THEN pc' = "verify" /\ UNCHANGED mem ELSE Leave
    /\ UNCHANGED <<state, started, refused, outside, history, bounded>>

\* Mutant: the commit is believed.
BelieveCommit(sha) == TRUE

\* The commit has the base as its only parent and holds what was reviewed.
Committed(sha) ==
    /\ sha # <<>> /\ Parent(sha) = Base /\ TreeOf(sha) = mem.manifest
    /\ CleanAt(sha)

VerifyCommit ==
    /\ Returns("verify", "done")
    /\ Committed(mem.sha) /\ pinned
    /\ Write(0, "commit", mem.sha)
    /\ UNCHANGED <<outside, history>>

\* Mutant: what goes wrong after the commit is a failed result like any other.
FailAfterCommit == \E step \in {"witness", "uncertain", "verify"} : Stops(step)

PostCommitRecoveryRequired ==
    /\ pc \in {"witness", "uncertain", "verify"}
    /\ Leave
    /\ UNCHANGED <<state, started, files, outside, refused, history, bounded>>

\* Everything else a node may raise ends in a failed or blocked result: drift, a guard
\* of the steps above that does not hold, a provider, a command, git or the disk.
Failing == {"EXPLORE", "IMPLEMENT", "VALIDATE", "REVIEW", "CLASSIFY_FAILURE", "REPAIR",
            "CLOSE_TASK", "propose", "apply", "applied", "capture", "review-context",
            "semantic", "judge"}

Fail == \E step \in Failing : Stops(step)

-----------------------------------------------------------------------------
Moved(node) == [state EXCEPT !.node = node, !.prev = state.node]

\* MORE_WORK: the limit pauses the run, and otherwise the plan has another item or not.
AnotherItem(commits) == Len(commits) < MaxItems /\ state.item < Items

\* The transition the canonical graph takes on the result of the node.
Advanced ==
    IF mem.result = "stop" THEN Moved("FINALIZE") ELSE
    CASE state.node = "EXPLORE"           -> Moved("IMPLEMENT")
      [] state.node \in {"IMPLEMENT", "REPAIR"} ->
           [Moved("VALIDATE") EXCEPT !.manifests = Append(@, mem.manifest)]
      [] state.node = "VALIDATE" /\ mem.result = "pass" ->
           [Moved("REVIEW") EXCEPT !.validation = "PASS"]
      [] state.node = "VALIDATE" /\ mem.result # "pass" ->
           [Moved("CLASSIFY_FAILURE") EXCEPT !.validation = "FAIL"]
      [] state.node = "REVIEW" /\ mem.result = "pass" ->
           [Moved("CLOSE_TASK") EXCEPT !.review = "PASS", !.findings = {}]
      [] state.node = "REVIEW" /\ mem.result # "pass" ->
           [Moved("CLASSIFY_FAILURE") EXCEPT !.review = "FAIL", !.findings = mem.findings]
      [] state.node = "CLASSIFY_FAILURE"  -> [Moved("REPAIR") EXCEPT !.count = @ + 1]
      [] state.node = "CLOSE_TASK"        ->
           LET commits == Append(state.completed, mem.sha)
           IN  IF AnotherItem(commits) THEN FreshItem(state.item + 1, commits)
               ELSE [Moved("FINALIZE") EXCEPT !.completed = commits]

\* The result is recorded and its transition committed.
Record ==
    /\ pc = "return"
    /\ state' = Advanced
    /\ started' = FALSE
    /\ pc' = "idle"
    /\ mem' = IF state'.item = state.item THEN [mem EXCEPT !.result = None] ELSE NoMem
    /\ UNCHANGED <<files, outside, refused, history, bounded>>

-----------------------------------------------------------------------------
\* A side effect nobody reconciles.
Interrupted == started /\ state.node \in SideEffectNodes

\* WriteSliceRunner.resume.
MayResume ==
    /\ ~Interrupted
    /\ CompletedLineage
    /\ state.node = "EXPLORE" => RunBoundary
    /\ state.node # "FINALIZE" => Activates /\ Rehydrates

Resume ==
    /\ pc = "down" /\ MayResume
    /\ pc' = "idle" /\ started' = FALSE /\ refused' = FALSE
    /\ mem' = IF state.node = "FINALIZE" THEN NoMem ELSE Rehydrated
    /\ IF state.node = "FINALIZE" THEN UNCHANGED files ELSE WriteOrAgree(0, "inputs", Base)
    /\ UNCHANGED <<state, outside, history, bounded>>

Refuse ==
    /\ pc = "down" /\ ~MayResume
    /\ refused' = TRUE
    /\ UNCHANGED <<state, started, files, outside, pc, mem, history, bounded>>

Crash ==
    /\ crashes < MaxCrashes /\ pc # "down"
    /\ crashes' = crashes + 1
    /\ Leave
    /\ UNCHANGED <<state, started, files, outside, refused, history, drifts>>

\* Somebody else edits the worktree, commits on or rewinds its branch, or moves the target.
EditWorkspace ==
    /\ repo.exists
    /\ \E tree \in Trees \ {repo.tree} : repo' = [repo EXCEPT !.tree = tree]
    /\ UNCHANGED pinned

MoveBranch ==
    /\ repo.exists
    /\ \/ repo.tree # TreeOf(repo.head) /\ repo' = CommitTree
       \/ repo.head # <<>> /\ repo' = [repo EXCEPT !.head = Parent(@)]
    /\ UNCHANGED pinned

MoveTarget == pinned' = ~pinned /\ UNCHANGED repo

Drift ==
    /\ drifts < MaxDrift
    /\ drifts' = drifts + 1
    /\ EditWorkspace \/ MoveBranch \/ MoveTarget
    /\ UNCHANGED <<state, started, files, pc, mem, refused, history, crashes>>

Finished ==
    state.node = "FINALIZE" /\ pc = "idle" /\ UNCHANGED vars

Enter == \E node \in Nodes \ {"FINALIZE"} : StartNode(node, node)

Author == OpenWorkspace \/ PrepareRepair \/ Propose \/ Apply \/ RecordApplied \/ CaptureManifest

Judge ==
    \/ RestoreValidation \/ RunChecks \/ ClassifyFailure
    \/ RestoreReview \/ ReviewMechanically \/ FreezeContext \/ ReviewSemantically \/ WriteReview

Close ==
    \/ CheckCommit \/ GitCommit \/ GitCommitFails \/ WriteWitness \/ VerifyCommit
    \/ PostCommitRecoveryRequired

Work == Enter \/ Explore \/ ExploreAgain \/ Author \/ Judge \/ Close \/ Fail \/ Record

Next == Work \/ Resume \/ Refuse \/ Crash \/ Drift \/ Finished

Spec == Init /\ [][Next]_vars

-----------------------------------------------------------------------------
(***************************************************************************)
(* Properties                                                              *)
(***************************************************************************)
\* Where a process can be in the code of its node.
Steps == Nodes \cup Failing \cup
         {"idle", "down", "return", "git-commit", "witness", "uncertain", "verify"}

\* Whatever crashes and interferes, the files of the completed items always prove the
\* chain of commits the state names: the lineage verification that every resume and
\* every further item start with never fails (multi_item.py:329).
CompletedItemsVerify == CompletedLineage

\* The run commits an item once: neither a lost answer of git nor a crash between the
\* commit, its witness and its verification leads to a second commit (workspace.py:700).
CommitsOnce == \A k \in ItemRange : made[k] <= 1

\* A change provider is asked once per item and cycle: an interrupted author is never
\* run again on a worktree that may hold part of its work.
AuthorsOnce == \A key \in ItemRange \X Cycles : calls[key] <= 1

\* The state is never ahead of its evidence: the manifest of every cycle it names, and
\* the verdicts it goes on with, are in the files, about the manifest that is newest.
EvidenceBacksState ==
    /\ \A c \in 0 .. LastCycle : At(c, "manifest") = state.manifests[c + 1]
    /\ state.node \in {"REVIEW", "CLOSE_TASK"} =>
         At(LastCycle, "validation") = [tree |-> Manifest, passed |-> TRUE]
    /\ state.node = "CLOSE_TASK" =>
         At(LastCycle, "review") = [tree |-> Manifest, mechanical |-> {}, semantic |-> "pass"]
    /\ state.node = "REPAIR" => At(state.count, "context").tree = Manifest

\* The status command answers about every state of a run, its failed and blocked ends
\* included, unless the commit of a later item is under way or was interrupted: the items
\* the state names are those whose commits have a witness (cli/status.py:187).  Of a run
\* that is limited to one item it finds no witness at all, where the item's evidence is in
\* the directory of the run (multi_item.py:203), and calls the evidence invalid.
StatusAnswersAtRest ==
    \/ state.node = "CLOSE_TASK" /\ started
    \/ StatusAnswers <=> MaxItems > 1 \/ state.completed = <<>>

AfterImplement == state.manifests # <<>>

\* Resuming is refused only for a reason: somebody interfered, a side effect was
\* interrupted, the item is not the first and already changed the worktree, or a review
\* of a repaired item was interrupted.
RefusedForCause ==
    refused =>
        \/ drifts > 0
        \/ Interrupted
        \/ state.item > 1 /\ AfterImplement
        \/ state.node = "REVIEW" /\ started /\ state.count > 0

\* README.md:191: a new runner "can reconstruct committed safe transitions from immutable
\* operation evidence".  A run that died between two nodes is resumed.
CommittedTransitionsResume == refused => drifts > 0 \/ started

\* recovery.py:200: an "interrupted node capability is safe to invoke again" when it is
\* read-only.  A run whose review was interrupted is resumed.
InterruptedReviewResumes ==
    refused => drifts > 0 \/ state.node # "REVIEW"

\* The tree whose passed review is on disk for the item that is not closed yet.
Approved ==
    LET passed == {c \in Cycles : Exists(c, "review") /\ ReviewPassed(At(c, "review"))}
    IN  IF Len(state.completed) = state.item \/ passed = {} THEN None
        ELSE At(CHOOSE c \in passed : TRUE, "review").tree

Ledger == INSTANCE ItemLedger WITH closed <- state.completed, approved <- Approved

\* The run keeps the promise of ItemLedger: what it records as completed is a chain of
\* commits of finally approved, effective trees, through repairs, crashes and drift.
ImplementsItemLedger == Ledger!Spec
=============================================================================
