# A TLA+ model of agent-graph-engine

`agentgraph` drives coding agents through a fixed graph: it selects a work item
of a task list, has it explored, packaged, risk-assessed, implemented,
validated, reviewed, repaired and committed, goes on to the next item, and in
the end has the whole delivery reviewed and a draft pull request opened. Every
transition is journaled so that a run survives the death of its process, and
one lock per project keeps two commands from writing at once.

This directory holds the specification of that machine: TLA+ modules that
follow the source function by function, TLC configurations that check them on
small instances, and TLAPS proofs for instances of every size. `PROJECT.json`
relates every definition to its source lines, and lists the components, runs,
hazards, findings and theorems.

    tlc -workers 2 -config MCWriteGraph.cfg MCWriteGraph.tla
    tlapm WriteGraphProofs.tla

Paths below are relative to `src/agentgraph/`.

## The system

| Component | State it keeps | Operations | What makes it correct |
|---|---|---|---|
| Graph engine (`core/`) | none: `GraphState` is an immutable value | `apply_result`, `step`, `run` | one edge wins for every result; a patch touches only what its node owns; a new item starts fresh |
| Nodes (`nodes/`, `write/`) | evidence files of a run | one `run` per node | a commit is judged, a critical write and a publication are approved |
| Work selection (`write/multi_item.py`, `adapters/speckit/`) | the frozen work plan | `next_ready_item`, `activate` | dependencies first, each item once |
| Durable session (`runtime/coordinator.py`, `recovery.py`) | `state.json`, `journal.jsonl`, `final.json` | `step`, `assess_recovery`, `recover`, `_finalize` | a result is never lost or replaced, a side effect never repeated |
| Run lifecycle (`runtime/coordinator.py`, `locking.py`) | the advisory lock, `lock.json`, `active-run.json`, the staging and run directories | `start_run`, `recover_incomplete_run_initialization`, `open_session` | one writer, one unfinished run per project |
| Runner (`write/runner.py`) | none of its own | `run`, `resume`, `submit_checkpoint` | it continues only from a safe boundary and reaches END |
| Item execution (`write/workspace.py`, `analysis.py`) | workspace, evidence of each repair cycle, commit witness | `implement`, `validate`, `review`, `repair`, `commit`, `rehydrate` | evidence and state agree after every crash |
| Checkpoints (`runtime/checkpoints.py`, `write/checkpoints.py`) | write-once requests and decisions | `ensure_request`, `submit`, `decision` | one decision, made before expiry, bound to what was asked |
| Publication (`write/publish.py`, `remote.py`) | plan, push, PR and result receipts | `ensure_plan`, `execute`, `assess_interrupted_side_effect` | at most one pull request |
| Delivery review (`write/delivery_review.py`) | attempts and evidence | `review`, `rehydrate_if_complete` | the verdict covers the commits that are published |
| Registry (`runtime/project_registry.py`) | the index and project records | `register`, `find_by_root`, `get` | one id per root, every indexed project whole |
| Process runner (`infra/process.py`) | a child process | `run`, `cancel` | one outcome, child always reaped |

Configuration, codec, text parsing of the task list, git and the Codex provider have
no protocol of their own; see "Not modelled".

The parts interact by calls. The runner builds an engine whose nodes share the
run's controllers, wraps it in a coordinator, and steps a session until END or a
checkpoint. The session is the only writer of state and journal; the nodes write
evidence files beside it. What is hard is the order of things that no call
shows: a process that dies between two files, a resume that finds one ahead of
the other, two commands on one project, a verdict or a lock of one item
surviving into the next, four places that count repairs.

## The modules

    GraphState -- V1Graph -- GraphEngine --+-- WriteNodes -- WriteGraph -- MCWriteGraph
         \------ WorkSelection ------------/                      \
                               GraphEngineProofs ------- WriteGraphProofs

    DecisionLog <== DurableRun --+-- MCDurableRun
                                 \-- DurableRunProofs

    ItemLedger <== ItemExecution --+-- MCItemExecution
                                   \-- ItemExecutionProofs

    DeliveryState -- DeliveryReview -- PublishCheckpoint -- Publication --+-- MCPublication
                                                                         \-- PublicationProofs

    ProjectLifecycle --+-- MCProjectLifecycle       (ProjectRegistry and ProcessRunner
                       \-- ProjectLifecycleProofs    likewise, with MC... and ...Proofs)

(`--` extends, `<==` implements.)

The modules cut one run along its time. `WriteGraph` has all of it in memory, with
every node one step. `DurableRun` is any one step of it as its durable writes.
`ItemExecution` opens the nodes from IMPLEMENT to CLOSE_TASK, and `Publication` those
from DELIVERY_REVIEW to FINALIZE; in these two the journal is reduced to what `DurableRun` shows of it: a node is
started, its result is recorded, and a recorded result is applied sooner or later.
`ProjectLifecycle` is what several runs do to each other, and the registry and the
process runner stand below all of them.

**GraphState, V1Graph, GraphEngine** are functions without variables.
`GraphState` has the record of the fields routing reads. Texts, paths and
digests are replaced by the item they belong to, so that "the package of another
item" can be said: `explored` stands for scope, requirements and acceptance
criteria, `package` for the task package, `changes` for the reported changes.
`V1Graph` has the edges of every node with their conditions, priorities, final
statuses and resume nodes, and the patch paths of every node. `GraphEngine` has
`apply_result`: authorize the patch, apply it, pick the sole edge of the highest
priority, reset, count, lock and move. An error the code raises is a formula that
is FALSE.

**WorkSelection** has the frozen plan and `next_ready_item` over the projected
snapshot. **WriteNodes** gives, for every node, the set of results its code can
return in a state; the agents, commands, git and the remote choose among them.
**WriteGraph** is the run: one action per node, which runs the node and applies
its result. `plan` and `state` are the program's; four history variables know
what the state only claims: which judgements the bytes in the workspace have
passed since they were last written (`passed`), what a human approved
(`approved`), which completed items the delivery reviewer passed (`delivery`),
and whether a pull request is open (`published`). CREATE_PR sets the last one also when it
fails after opening one: with a lost answer or a verification that no longer holds.

The model is of runs with the delivery review and a remote provider configured.
Without them the runner stops at DELIVERY_REVIEW or at the publish checkpoint,
which is a prefix of a modelled run.

**DurableRun** is one run as its files: `journal`, `torn` (its last line is
incomplete), `disk` (`state.json`), `receipt` (`final.json`), `active`; and the
process that writes them: `pc` and the volatile `loaded` and `outcome`. A graph
state is the sequence of results applied so far, which is its own version and
digest: `apply_result` is deterministic, as recovery itself assumes. There is
one action per durable write of `step` and `_finalize`, `Assessment` is
`RecoveryManager.assess` branch by branch, and a `Crash` may come between any two
of them, `TearByCrash` and `TearByError` inside an append. `effects` counts the
side effects each node has had. `Client` says who resumes: the library
(`RuntimeSession.recover`) or `WriteSliceRunner.resume`, which differ at END.
**DecisionLog** is what all of it promises: a log of results that grows at its
end, each decided once and then committed. `ImplementsDecisionLog` is the
refinement.

**ProjectLifecycle** is several processes and runs around one project: the
advisory lock, the lease, the active run, and where each run is. One action per
file a command writes; `Crash` drops the advisory lock and leaves everything
else; `Fail` is a write that raises, and the lock is released on the way out.

**ItemExecution** is the work on the items between three kinds of state: `repo` (the
external worktree and its scope branch), `files` (the evidence of each item and
cycle, written once) and `state` (GraphState as the journal has it). `mem` is the
`WriteExecution` in memory, which dies with the process and which
`rehydrate`, `activate` and `verify_completed_item` build again, or refuse. There is
one action per durable write and per effect in the worktree; `Crash` may come
between any two. A tree stands for its digest, a commit for the chain of trees under
it, so that "the wrong base", "not what was reviewed" and "somebody else's commit"
can all be said. `MaxItems` is the limit of the run; it decides between another item and
FINALIZE (`AnotherItem`) and where the evidence of an item is kept (`EvidenceRoot`).
`EditWorkspace`, `MoveBranch` and `MoveTarget` are what others do.
The semantic review is switched on; EXPLORE stands for the read-only nodes up to the
approval, the transition after CLOSE_TASK contains MORE_WORK and SELECT_WORK, and the
attempt directories of the agents are left out. `calls` and `made` count the
questions to a change provider and the commits. **ItemLedger** is what it promises: a
chain of commits, one per item, each of a tree whose review passed.

**DeliveryState, DeliveryReview, PublishCheckpoint, Publication** are one machine in
four layers: the variables with the environment; the mechanical and semantic review
with the filed verdict; plan, request, decision and the node that consumes it; push,
pull request, receipts and the reconciliation of an interrupted CREATE_PR. `remote`
is not ours: every call may fail before or after it had its effect, and others push,
delete the branch, also push the very final head, and open, edit or close pull requests,
also one that is exactly as planned, which the run then adopts. A filed review is restored
only without mechanical findings, since the list read from the file is never equal to the
tuple of the gates (`Restorable`). `local` is the target and
the workspace together. What the code derives from frozen inputs again each time
(manifest, review context) is not kept as a file; the host evidence of a review
attempt belongs to the reviewer's answer; the clock is monotonic here. A failure of
the remote inside CREATE_PR ends the run BLOCKED, by design of the code;
`submit_checkpoint` applies a recorded result of CREATE_PR without
`verify_result_for_recovery`, which `resume` asks first (`SubmitReplays`).

**ProcessRunner** is one call of `ProcessRunner.run`: the thread that starts, waits,
signals and reaps, its child, the canceller, and the clock as two facts, `late` (the
deadline has passed) and `patience` (the grace period lasts). An exception may be
raised at every step. Two places are unprotected: between `Popen` and the `try`, and
inside the handler itself. The properties exclude exactly these. Calls share
nothing, so one is enough.

**ProjectRegistry** has several callers around the index and the project files:
`register` under the registry's lock, `find_by_root` and `get` without it. A call
that raises and a process that dies have the same effect, which is that the lock is
dropped and what was written stays: `Ends`. Replacing a file is one step, the lock is
the blocking one of POSIX, and time stamps are left out.

## The runs

| Run | Distinct states | Shows |
|---|---|---|
| `write_graph` | 187 994 | the gates, the isolation of items, the outcome and the end of a run |
| `durable_run` | 333 822 | crash safety and conclusion of one run, and that it implements `DecisionLog` |
| `durable_torn` | violated | finding 2: a torn tail is out of reach of its repair |
| `durable_resumed` | violated | finding 3: `resume` leaves a finished run without receipt |
| `lifecycle` | 188 659 | one writer, one unfinished run, ownership; a dead writer's lease is cleared |
| `lifecycle_staging` | violated | finding 1: an interrupted initialization cannot be retried |
| `item_execution` | 1 635 729 | evidence, state and commits agree after every crash and drift; implements `ItemLedger` |
| `item_review_resume` | violated | finding 4: the review of a repaired item cannot be interrupted |
| `item_second_resume` | violated | finding 5: only the first item can be resumed once it has written |
| `publication` | 408 303 | one pull request, of what was approved and proved; an approved publication concludes |
| `project_registry` | 32 544 | one identity per root, whole projects, true answers, calls that end |
| `process_runner` | 845 | the child is reaped, the outcome is the true one, the call returns |

Bounds.

- `write_graph`: `MaxRepair = 2` is the largest limit the program accepts
  (`write/runner.py`, `write/models.py`), and with it a repair follows a repair.
  `MaxItems = 3` with plans of one, two and three items has runs below, at and
  without the limit; the plans list a chain in and against its order and an item that
  waits for another scope.
- `durable_run`: three transitions visit a node that is safe to rerun, one that is
  not, and one with a reconciler; three interruptions let recovery itself be
  interrupted twice, torn lines included.
- `lifecycle`: two processes and two runs are the fewest that contend; three crashes
  leave a lease, a staging and an unowned run at once. `MaxCrashes` bounds crashes and
  raised errors together.
- `item_execution`: two items are the fewest with a base that is not the baseline,
  one repair gives every item a first and a later cycle, and three trees tell the
  reviewed change, no change and somebody else's change apart. The second crash
  interrupts the resume after the first. `MaxItems = 2` lets the second item follow and
  keeps the evidence in the items' directories; with the limit of one item the same
  properties hold as well (96 319 states), `StatusAnswersAtRest` in its other half, and
  `item_review_resume` is checked with it.
- `publication`: with three crashes push, pull request and receipt can each be
  interrupted once; one meddling is enough to spoil any state, since what it does is
  chosen from all there is. It holds with two crashes and two meddlings as well
  (1 598 689 states).
- `project_registry`: two callers, two roots and three ids, of which the generator
  may repeat any; nothing is counted, so calls and crashes are unbounded.
- `process_runner`: two exceptions, the second inside the treatment of the first.

All bounds are in the guards of the actions they count and nowhere else.

Fairness. `WriteGraph` is weakly fair in the whole step: the runner's loop keeps
stepping, and a human, a provider or a timeout answers in the end. `DurableRun` is
weakly fair in what a living process does and in an operator who resumes a run that
is down; never in a crash. `ProjectLifecycle` is weakly fair in the living
commands and strongly fair in the resumes of each run, by whichever process: two
processes may keep each other from the lock for ever, so `StaleLeaseCleared` speaks of
the time when all but one leave the project alone, and not of a turn nobody promises.
`Publication` is weakly fair in every living command and strongly fair in the resumes,
since another command may hold the session each time; there also a remote that is asked
again and again answers. `ProjectRegistry` is weakly fair in a call that does not wait
for the lock, which goes on or ends, and strongly fair in the lock, which `flock` gives
to every waiter. `ProcessRunner` is weakly fair in the thread, in time and in the death
of a killed child. `ItemExecution` states safety only.

`RunConcludes` says that a run reaches its receipt or waits at what only a human can
settle: an interrupted side effect or a torn line.
`ApprovedConcludes` excepts a target, a workspace or a remote that somebody moved.
`CHECK_DEADLOCK FALSE` stands in the `DurableRun` configurations with torn lines,
where the run really stops, and in `ProcessRunner.cfg`, where the call returns.

## Findings

1. *An interrupted initialization cannot be retried* (`lifecycle_staging`).
   `recover_incomplete_run_initialization` takes the lock without recovery mode,
   so the lease of the process that died in `start_run` refuses it; a session in
   recovery mode refuses a run that is not promoted. README.md:159-160 promises
   the retry.
2. *A torn journal cannot be repaired after a crash* (`durable_torn`).
   `open_session` loads the journal before the session exists, and
   `repair_truncated_journal` needs the session. Only a session that survives its
   own failed append can call it.
3. *A resumed run at END keeps the project* (`durable_resumed`).
   `WriteSliceRunner.resume` only reports a completed run, so that one which died
   before `final.json` never gets it and `start_run` refuses every later run. The
   library's `recover` does finish it, as
   `test_terminal_receipt_fault_is_idempotently_completed` shows.
4. *An interrupted review of a repaired item cannot be resumed*
   (`item_review_resume`). `rehydrate` excuses a review file that is ahead of the state
   only while the state's verdict is UNKNOWN (`workspace.py:978`); after a repair it is
   still the FAIL of the earlier cycle. `recovery.py:200` calls such a node safe to
   invoke again.
5. *Later items cannot be resumed after IMPLEMENT* (`item_second_resume`). `activate`
   verifies the earlier commits on a worktree that has to be clean
   (`multi_item.py:211`), and the item's own uncommitted writes are in it.
   README.md:190-192 promises that committed transitions are reconstructed.

`RefusedForCause` closes the last two from the other side: apart from them, from
interference and from interrupted side effects, no resume is ever refused.

Three more disagreements were met in modelling and are part of the models. They have no
violated run; the properties name them, so that they stay true of the code.

- *`status` of a run limited to one item* (the runner's default). The evidence of its
  item is in the directory of the run (`multi_item.py:203`), and `_completed_commits`
  looks under `items/` only (`cli/status.py:167`). Once the item is completed `status`
  answers `run_evidence_invalid`, for ever. `StatusAnswersAtRest` says so, and
  `StatusIsSound` proves it.
- *A delivery review with mechanical findings is never restored.* `_restore_completed`
  compares the list read back from JSON with the tuple of `_prepare`
  (`delivery_review.py:443`), so that every later resume of the run answers
  RECOVERY_REQUIRED with `delivery_review_evidence_mismatch`. `VerdictIsFiled` excepts such
  a review.
- *A child may be left running* by an exception between `Popen` and the `try` or inside
  the exception handler, while the docstring of the class promises to "always reap started
  children" (`infra/process.py:114`). `ChildReaped` excepts these two places.

## What is proved

`ProjectLifecycleProofs`: for any set of processes and runs and any number of
crashes, the type invariant, the three safety invariants and the two action
properties of `ProjectLifecycle`. The inductive invariant adds to the checked
ones that the holder of the advisory lock is the only process inside a command,
that a command's run is where the command left it (staging before promotion, no
other unfinished run then), and that an unfinished run that is at END or open is
the owner or nobody is. "One unfinished run" is not inductive without them: a
start looks at the runs two steps before it promotes its own.

`WriteGraphProofs`, over the lemmas of `GraphEngineProofs`: for any set of
items, any plans (well-formed as `PlansAssumption` says), any limits, the type
invariant and the three gates of `WriteGraph`. `GraphEngineProofs` reduces the
engine to three facts a step is used through: what a patch may change (`Keeps`),
where the edges of a node lead and under which conditions (`...Leads`), and what
the engine itself changes (`Follows`). The inductive invariant says of each node
of an item whose scope, package and changes the state holds and whether the
scope is locked (`StageInv`), what has been judged (`JudgedInv`), and what stands
between the last commit and the pull request (`DeliveryInv`). `CommitGate` is not
inductive alone: that REVIEW can only be reached with a passed validation, and
that a repair leads back before it, is `JudgedInv`. One lemma per action proves
the five parts.

A second invariant stands on the first and gives the other four properties of
`WriteGraph`. Its parts are the ledger (`LedgerInv`: the history has one record per
repair, numbered in order, and a failure that is being classified is the newest
verdict), the order (`OrderInv`: what is left of the plan is known while an item is
under way, and nothing is left once the delivery is reviewed), the outcome
(`OutcomeInv`: the status stays RUNNING up to FINALIZE, and past it only for what was
published; what was published by a node that failed is BLOCKED or FAILED), and the risk of a write that waits for approval. Its basis is a lemma per
node (`...Turns`) that every result has exactly one matching edge and which one: this is
`EveryResultAccepted` itself, and every step then follows a known edge. The facts behind
it come from far off: EXPLORE may patch the scope because the lock of the item before it
is gone (`StageInv`), the write of an approved item has its risk assessed (`RiskInv`),
and SELECT_WORK never finds a run without anything to do, which would end COMPLETED with
nothing published, because a run starts with ready work (`PlansAssumption`).

A third one counts (`StepsInv`): a run has taken no more transitions than lead to its
node. `Ceiling` gives every node a lead within its item, every repair four transitions
and every completed item `PerItem`, and each step raises it by one at least
(`StepRises`). So a run takes at most `4 + MaxItems * (10 + 4 * MaxRepair)` transitions
(`TransitionsAreBounded`); TLC reaches that number, so no smaller one would do. The
runner has a bound of its own, `max_steps * max_items` (`write/runner.py:724`). Its default
of 30 steps an item is wide enough for up to four repairs (`StepLimitUnreached`), and the
configuration admits none to two (`config/loader.py:271`); it also admits a `max_steps`
from 1 on (`config/loader.py:290`), and one below `14 + 4 * MaxRepair` may end a run early. `EveryStepCounts` and `RunsAreNeverStuck` add that each
step is one of these transitions and that there always is one: with the fairness of
`Termination` these are all it needs.

`ItemExecutionProofs`: for any number of items, repairs, crashes and drifts, no change
provider is asked twice for a cycle (`AuthorsOnce`) and no item is committed twice
(`CommitsOnce`). A counter alone is not inductive: it may only be raised where it is
still zero. `StepInv` ties the process's step to the node and to its started record,
`CycleInv` the node to the cycle it may enter, and then `AuthorInv` and `CommitInv` say
that a counter is one only when the node has been started, which a resume refuses, or
left for good.

The other invariants of `ItemExecution` and its refinement of `ItemLedger` rest on a
second inductive invariant over the evidence files (`EInv`): files are typed and only
grow, the chain of commits from the base is what the completed items' files say, a
recorded verdict is the one of the file of the newest cycle, a review that passed is only
ever of that cycle, and at each step the process knows which files it has just read or
written. From it follow `CompletedItemsVerify`, `EvidenceBacksState`,
`StatusAnswersAtRest`, for either place of the evidence, and, action by action, that only the commit of an item is a step of
`ItemLedger`. `NoneAssumption` says that a missing file is told from every content.
What the ledger amounts to is proved from its steps: every commit is the child of the one
before it and changes something (`EffectiveCommits`), and no step takes a completed item
or replaces its commit (`CommitsKept`).

`RefusedForCause` needs a third one (`RInv`). Beside the files it follows the worktree:
as long as nobody interferes, a node that has not touched it finds it clean at the base of
the item or at the newest manifest (`TrackInv`), and the verdicts in the state are those
of the files of its cycle, where only REVIEW files a review and everything that review was
made from is still there (`AgreedInv`, `FiledInv`). Then every check of `MayResume` holds
in a run that is down without a cause (`ResumesWithoutCause`). A review that a
resume takes up again may have a file ahead of the state: that the two agree is carried on
from the resume that found it so (the last part of `UntouchedInv`).

`DurableRunProofs`: for any number of transitions, interruptions and torn lines, of every
kind of node, the two invariants of `DurableRun` and its refinement of `DecisionLog`. The
invariant has four parts beside the types. `JournalInv` says which records `state.json`
can be met by: the newest record of the protocol is of the state's transition or of the
one before it, and what it records is what the state holds. `ProcessInv` says what every
step of the process knows of the files and of its volatile state, `ReceiptInv` that a
receipt is of the newest record, `EffectInv` that a side effect that cannot be repeated
has been had only where its start is journaled. Of all actions only `RecordResult`
decides, `Swap` and `Reapply` commit, and every other one stutters in `DecisionLog`.
`RunsAreBlockedForCause` is what `RunConcludes` needs of the safety part: recovery
answers BLOCKED only at an interrupted side effect (or a torn line), the swap finds the
state the session loaded, and a receipt that is there is the one to be written.

`PublicationProofs`: for any operators, lifetimes and bounds, at most one open pull
request of ours, and publications only with an approval given in time. The argument is that pull requests are created only
behind a look at the remote that found none of ours, in the one process that holds the
session (`SessionInv`), and that nothing a publishing step needs is ever taken back
(`PublishInv`): evidence is written once.

Its second layer follows the session through the graph: every step of the process and
every recorded result belongs to a node, a decision is filed once and nothing is decided
while a result waits to be applied, and receipts are filed in order and of a pull request
that was opened. This gives the action property `DecisionStands`.

Its third layer is about a run nobody interferes with. The remote then holds what the run
brought there, which is nothing or one pull request as planned on the final head, however
many answers were lost (`UndisturbedInv`); and the review file has what the gates find
each time, and is what is recorded (`AgreedInv`). With the receipts this gives
`PublicationProved` and `VerdictIsFiled`. What somebody else opened may be adopted, so
without this layer a receipt only proves that the pull request was opened by someone. The
assumption of these proofs is that None is told from receipts, requests and reviews.

`ProcessRunnerProofs`: for any number of exceptions, type correctness, that a returned
call has reaped its child, and that the outcome it reports is what happened. The
invariant says at every step of the thread which signals were sent and what may be
known of the child.
The wait without limit is only for a child that has exited or was sent SIGKILL
(`NothingIsAwaitedInVain`), and a call that was cancelled or is late has a measure that
every step of its thread lowers (`CallsWindUp`).

`ProjectRegistryProofs`: for any callers, roots and ids, the type invariant and the
three safety invariants. What the holder of the lock has read of the index stays true
until it replaces it; a writer without the lock would break exactly this.
`LockIsHeldInside`: the lock is held only by a call that is past acquiring it and has
not returned, so that who waits waits for a call that can go on.

The proofs rest on the named assumptions of the modules and nothing else. TLC
evaluates the assumptions, and checks the properties themselves on the instances above.

Every safety invariant and every action property of a passing run has a theorem. Only
model-checked are the liveness properties: conclusions from fairness need ENABLED, which
this prover does not do. For `Termination`, `Returns`, `CallsEnd` and `RunConcludes` the
safety facts such a conclusion rests on are proved (a bound or a measure, no wait for
what cannot come, no refusal without a cause); the other liveness properties stay with
TLC as a whole.

## Not modelled

- Runs without delivery review or without a remote provider: prefixes of modelled runs.
- Shadow integration: a read-only dry run over the same graph, no state of its own.
- Configuration, the execution profile and argument handling: they check strings and
  bound numbers once; the bounds are the models' constants.
- The request and the decision of a critical item: they use the store of
  `runtime/checkpoints.py` in the way `PublishCheckpoint` shows for the publication, and
  appear in `WriteNodes` by their result only.
- The read-only views of the command line, apart from what `status` requires of the
  commit evidence. The model takes that at one moment, while the program reads several
  files one after the other.
- Canonical JSON, digests and links: a digest is the thing it is of, an atomic
  replacement is one step.
- Parsing of the task list, of agent answers and of git's output: text processing. What
  the answers may be is a choice, and what git establishes or changes is in the
  environment of `ItemExecution` and `Publication`.
- The evidence of the read-only agents before IMPLEMENT, and how their answers are
  reconciled with schemas: the nodes may be run again without an effect.
- The Codex provider: an external program.

## Plan

Done, in this order because it is the order of importance: the graph and its
gates; crash safety of one run; the lifecycle of the runs of a project; the items with
their evidence; the publication with its approval; registry and process runner; the proofs
listed above.

Next, the checkpoint of a critical item beside `PublishCheckpoint`.
