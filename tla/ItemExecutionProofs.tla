------------------------ MODULE ItemExecutionProofs ------------------------
(* ItemExecution, for any number of items, cycles, crashes and interferences: no author  *)
(* is asked twice for one cycle and no item is committed twice (IInv); the evidence in   *)
(* the files proves what the state says and what was committed (EInv), and with it the   *)
(* run implements ItemLedger; and a resume is refused only for a cause (RInv).           *)
EXTENDS ItemExecution, TLAPS

AuthorNodes == {"IMPLEMENT", "REPAIR"}

\* Every step of the code belongs to a node, and a node that runs is journaled as started.
StepInv ==
    /\ {"node", "prev", "item", "count"} \subseteq DOMAIN state
    /\ "result" \in DOMAIN mem
    /\ state.node \in Nodes /\ pc \in Steps
    /\ pc = "idle" => ~started
    /\ pc \notin {"idle", "down"} => started /\ state.node # "FINALIZE"
    /\ pc \in Nodes => pc = state.node
    /\ pc \in {"propose", "apply", "applied", "capture"} => state.node \in AuthorNodes
    /\ pc \in {"review-context", "semantic", "judge"} => state.node = "REVIEW"
    /\ pc \in {"git-commit", "witness", "uncertain", "verify"} => state.node = "CLOSE_TASK"

\* The item and its cycle; a classified failure leads to a repair that is left.
CycleInv ==
    /\ state.item \in ItemRange /\ state.count \in Cycles
    /\ state.node \in {"EXPLORE", "IMPLEMENT"} => state.count = 0
    /\ pc = "return" /\ state.node = "CLASSIFY_FAILURE" /\ mem.result # "stop" =>
         state.count < MaxRepair

\* The author of a node that was not entered, or was left between nodes, was not asked.
AuthorInv ==
    /\ calls \in [ItemRange \X Cycles -> {0, 1}]
    /\ \A k \in ItemRange, c \in Cycles :
         k > state.item \/ (k = state.item /\ c > state.count) => calls[<<k, c>>] = 0
    /\ state.node = "EXPLORE" => calls[<<state.item, 0>>] = 0
    /\ state.node \in AuthorNodes /\ (pc \in {"idle"} \cup AuthorNodes \/ ~started) =>
         calls[<<state.item, state.count>>] = 0

\* Between its commit and the recorded result an item is at a step after the commit, or
\* the process is gone and the commit is an interrupted side effect.
CommitInv ==
    /\ made \in [ItemRange -> {0, 1}]
    /\ \A k \in ItemRange : k > state.item => made[k] = 0
    /\ made[state.item] = 1 =>
         \/ state.node = "FINALIZE"
         \/ /\ state.node = "CLOSE_TASK" /\ started
            /\ pc \in {"down", "witness", "uncertain", "verify", "return"}

IInv == StepInv /\ CycleInv /\ AuthorInv /\ CommitInv

-----------------------------------------------------------------------------
USE TreeAssumption, BoundAssumption

(* The run starts with its first item, of which nobody has asked or committed anything.  *)
LEMMA InitIInv == Init => IInv
<1> SUFFICES ASSUME Init PROVE IInv
  OBVIOUS
<1> USE DEF Init, FreshItem, NoMem, ItemRange, Cycles
<1>1. StepInv
  BY DEF StepInv, Nodes, Steps, Failing
<1>2. CycleInv
  BY DEF CycleInv
<1>3. AuthorInv
  BY DEF AuthorInv, AuthorNodes
<1>4. CommitInv
  BY DEF CommitInv
<1>5. QED
  BY <1>1, <1>2, <1>3, <1>4 DEF IInv

(* A step inside a node that asks nobody and commits nothing.                            *)
LEMMA QuietStep ==
    ASSUME IInv, state' = state, started' = started, calls' = calls, made' = made,
           pc \notin {"idle", "down"}, pc' \in Steps \ {"idle"},
           pc' \notin Nodes,
           "result" \in DOMAIN mem',
           pc' \in {"propose", "apply", "applied", "capture"} => state.node \in AuthorNodes,
           pc' \in {"review-context", "semantic", "judge"} => state.node = "REVIEW",
           pc' \in {"git-commit", "witness", "uncertain", "verify"} =>
             state.node = "CLOSE_TASK",
           made[state.item] = 1 => pc' \in {"down", "witness", "uncertain", "verify", "return"},
           pc' = "return" /\ state.node = "CLASSIFY_FAILURE" /\ mem'.result # "stop" =>
             state.count < MaxRepair
    PROVE  IInv'
<1>1. StepInv'
  BY DEF IInv, StepInv
<1>2. CycleInv'
  BY DEF IInv, CycleInv
<1>3. AuthorInv'
  BY DEF IInv, AuthorInv, StepInv, AuthorNodes, Nodes
<1>4. CommitInv'
  BY DEF IInv, CommitInv
<1>5. QED
  BY <1>1, <1>2, <1>3, <1>4 DEF IInv

(* Nothing the invariant speaks of changes.                                              *)
LEMMA StillStep ==
    ASSUME IInv, state' = state, started' = started, calls' = calls, made' = made,
           pc' = pc, mem' = mem
    PROVE  IInv'
BY DEF IInv, StepInv, CycleInv, AuthorInv, CommitInv

(* What is recorded is a result of the node at the cursor, and the run moves on.         *)
LEMMA RecordStep == IInv /\ Record => IInv'
<1> SUFFICES ASSUME IInv, Record PROVE IInv'
  OBVIOUS
<1> USE DEF IInv, StepInv, CycleInv
<1>1. /\ state' = Advanced /\ started' = FALSE /\ pc' = "idle" /\ pc = "return" /\ started
      /\ calls' = calls /\ made' = made
      /\ "result" \in DOMAIN mem'
  BY DEF Record, history, NoMem
<1> DEFINE Keeps(node) ==
             /\ {"node", "prev", "item", "count"} \subseteq DOMAIN state'
             /\ state'.node = node
             /\ state'.item = state.item /\ state'.count = state.count
           Onward ==
             \/ \E node \in Nodes \ {"EXPLORE", "IMPLEMENT", "REPAIR", "CLOSE_TASK"} : Keeps(node)
             \/ state.node = "EXPLORE" /\ Keeps("IMPLEMENT")
             \/ state.node = "REVIEW" /\ Keeps("CLOSE_TASK")
             \/ /\ {"node", "prev", "item", "count"} \subseteq DOMAIN state'
                /\ state.count < MaxRepair
                /\ state'.node = "REPAIR"
                /\ state'.item = state.item /\ state'.count = state.count + 1
             \/ /\ {"node", "prev", "item", "count"} \subseteq DOMAIN state'
                /\ state.item < Items
                /\ state'.node = "EXPLORE"
                /\ state'.item = state.item + 1 /\ state'.count = 0
<1> DEFINE Closed == state.node = "CLOSE_TASK" /\ state'.item = state.item =>
                        state'.node = "FINALIZE"
<1> HIDE DEF Keeps, Onward, Closed
<1>2. Onward /\ Closed
  <2> USE DEF Keeps, Onward, Closed, Moved, Nodes
  <2>1. CASE mem.result = "stop"
    BY <2>1, <1>1 DEF Advanced
  <2>2. CASE mem.result # "stop" /\ state.node = "EXPLORE"
    BY <2>2, <1>1 DEF Advanced
  <2>3. CASE mem.result # "stop" /\ state.node \in AuthorNodes
    <3>1. state' = [Moved("VALIDATE") EXCEPT !.manifests = Append(@, mem.manifest)]
      <4> HIDE DEF Moved
      <4>1. QED
        BY <2>3, <1>1 DEF Advanced, AuthorNodes
    <3>2. QED
      BY <2>3, <3>1 DEF AuthorNodes
  <2>4. CASE mem.result # "stop" /\ state.node = "VALIDATE"
    BY <2>4, <1>1 DEF Advanced
  <2>5. CASE mem.result # "stop" /\ state.node = "REVIEW"
    BY <2>5, <1>1 DEF Advanced
  <2>6. CASE mem.result # "stop" /\ state.node = "CLASSIFY_FAILURE"
    BY <2>6, <1>1 DEF Advanced
  <2>7. CASE mem.result # "stop" /\ state.node = "CLOSE_TASK"
    <3> DEFINE commits == Append(state.completed, mem.sha)
    <3>1. state' = IF AnotherItem(commits) THEN FreshItem(state.item + 1, commits)
                   ELSE [Moved("FINALIZE") EXCEPT !.completed = commits]
      <4> HIDE DEF Moved, FreshItem, commits
      <4>1. QED
        BY <2>7, <1>1 DEF Advanced, commits
    <3> HIDE DEF commits
    <3>2. CASE AnotherItem(commits)
      <4>1. state' = FreshItem(state.item + 1, commits)
        BY <3>1, <3>2, Zenon
      <4>2. QED
        BY <2>7, <3>2, <4>1 DEF FreshItem, ItemRange, AnotherItem
    <3>3. CASE ~AnotherItem(commits)
      <4>1. state' = [Moved("FINALIZE") EXCEPT !.completed = commits]
        <5> HIDE DEF Moved
        <5>1. QED
          BY <3>1, <3>3, Zenon
      <4>2. QED
        BY <2>7, <4>1
    <3>4. QED
      BY <3>2, <3>3
  <2>8. state.node \in {"EXPLORE", "VALIDATE", "REVIEW", "CLASSIFY_FAILURE", "CLOSE_TASK"}
                        \cup AuthorNodes
    BY <1>1 DEF AuthorNodes
  <2>9. QED
    <3> HIDE DEF Onward, Closed, Keeps, Moved, Nodes, IInv, StepInv, CycleInv
    <3>1. QED
      BY <2>1, <2>2, <2>3, <2>4, <2>5, <2>6, <2>7, <2>8, Zenon
<1> USE DEF Keeps, Onward, Closed
<1>3. StepInv'
  BY <1>1, <1>2 DEF Nodes, Steps
<1>4. CycleInv'
  BY <1>1, <1>2 DEF ItemRange, Cycles
<1>5. AuthorInv'
  BY <1>1, <1>2 DEF AuthorInv, AuthorNodes, ItemRange, Cycles
<1>6. CommitInv'
  BY <1>1, <1>2 DEF CommitInv, ItemRange
<1>7. QED
  BY <1>3, <1>4, <1>5, <1>6

(* A provider is asked at a node that was just entered, and the process then holds that  *)
(* it was asked.                                                                         *)
LEMMA AuthorStep ==
    ASSUME IInv, state.node \in AuthorNodes, pc = state.node, pc' = "propose",
           state' = state, started' = started, made' = made, "result" \in DOMAIN mem',
           calls' = [calls EXCEPT ![<<state.item, state.count>>] = @ + 1]
    PROVE  IInv'
<1> USE DEF IInv, StepInv, CycleInv
<1>1. StepInv' /\ CycleInv'
  BY DEF AuthorNodes, Steps, Failing, Nodes
<1>2. calls[<<state.item, state.count>>] = 0
  BY DEF AuthorInv, AuthorNodes
<1>3. AuthorInv'
  BY <1>2 DEF AuthorInv, AuthorNodes, ItemRange, Cycles
<1>4. CommitInv'
  BY DEF CommitInv, AuthorNodes
<1>5. QED
  BY <1>1, <1>3, <1>4

(* git commits at a step that no process reaches twice.                                  *)
LEMMA GitCommitStep == IInv /\ GitCommit => IInv'
<1> SUFFICES ASSUME IInv, GitCommit PROVE IInv'
  OBVIOUS
<1> USE DEF IInv, StepInv, CycleInv
<1>1. /\ pc = "git-commit" /\ pc' \in {"uncertain", "witness"} /\ "result" \in DOMAIN mem'
      /\ state' = state /\ started' = started /\ calls' = calls
      /\ made' = [made EXCEPT ![state.item] = @ + 1]
  BY DEF GitCommit, Inside, bounded
<1>2. StepInv' /\ CycleInv'
  BY <1>1 DEF Steps, Nodes
<1>3. AuthorInv'
  BY <1>1 DEF AuthorInv, AuthorNodes
<1>4. made[state.item] = 0
  BY <1>1 DEF CommitInv
<1>5. CommitInv'
  BY <1>1, <1>4 DEF CommitInv, ItemRange
<1>6. QED
  BY <1>2, <1>3, <1>5

(* Starting a node: it runs at its cursor, and its author has not been asked.            *)
LEMMA EnterStep == IInv /\ Enter => IInv'
<1> SUFFICES ASSUME IInv, Enter PROVE IInv'
  OBVIOUS
<1> USE DEF IInv, StepInv, CycleInv
<1>1. /\ pc = "idle" /\ pc' = state.node /\ state.node # "FINALIZE" /\ started'
      /\ state' = state /\ calls' = calls /\ made' = made /\ mem' = mem /\ ~started
  BY DEF Enter, StartNode, history
<1>2. StepInv' /\ CycleInv'
  BY <1>1 DEF Nodes, Steps
<1>3. AuthorInv'
  BY <1>1 DEF AuthorInv, AuthorNodes
<1>4. CommitInv'
  BY <1>1 DEF CommitInv
<1>5. QED
  BY <1>2, <1>3, <1>4

(* Only a run that nothing interrupted goes on: an author, and a commit, never.          *)
LEMMA ResumeStep == IInv /\ Resume => IInv'
<1> SUFFICES ASSUME IInv, Resume PROVE IInv'
  OBVIOUS
<1> USE DEF IInv, StepInv, CycleInv
<1>1. /\ pc = "down" /\ pc' = "idle" /\ started' = FALSE
      /\ state' = state /\ calls' = calls /\ made' = made
  BY DEF Resume, history
<1>2. ~(started /\ state.node \in {"IMPLEMENT", "REPAIR", "CLOSE_TASK"})
  BY DEF Resume, MayResume, Interrupted, SideEffectNodes
<1>3. "result" \in DOMAIN mem'
  <2> HIDE DEF IInv, StepInv, CycleInv
  <2>1. mem' = NoMem \/ mem' = Rehydrated
    BY DEF Resume
  <2>2. DOMAIN Rehydrated = DOMAIN NoMem
    BY DEF Rehydrated
  <2>3. "result" \in DOMAIN NoMem
    BY DEF NoMem
  <2>4. QED
    BY <2>1, <2>2, <2>3
<1>4. StepInv' /\ CycleInv'
  BY <1>1, <1>3 DEF Nodes, Steps
<1>5. AuthorInv'
  BY <1>1, <1>2 DEF AuthorInv, AuthorNodes
<1>6. CommitInv'
  BY <1>1, <1>2 DEF CommitInv
<1>7. QED
  BY <1>4, <1>5, <1>6

(* The process is lost; whether its node was started is in the journal.                  *)
LEMMA CrashStep == IInv /\ Crash => IInv'
<1> SUFFICES ASSUME IInv, Crash PROVE IInv'
  OBVIOUS
<1> USE DEF IInv, StepInv, CycleInv
<1>1. /\ pc # "down" /\ pc' = "down" /\ mem' = NoMem
      /\ state' = state /\ started' = started /\ calls' = calls /\ made' = made
  BY DEF Crash, Leave, history
<1>2. StepInv' /\ CycleInv'
  BY <1>1 DEF Nodes, Steps, NoMem
<1>3. AuthorInv'
  BY <1>1 DEF AuthorInv, AuthorNodes
<1>4. CommitInv'
  BY <1>1 DEF CommitInv, Nodes
<1>5. QED
  BY <1>2, <1>3, <1>4

-----------------------------------------------------------------------------
(* The steps of the work itself, one after the other.                                    *)
LEMMA AnalysisSteps == IInv /\ (Explore \/ ExploreAgain) => IInv'
<1>1. ASSUME IInv, Explore PROVE IInv'
  <2> USE <1>1
  <2>1. /\ pc = "EXPLORE" /\ pc' = "return" /\ state' = state /\ started' = started
        /\ calls' = calls /\ made' = made /\ "result" \in DOMAIN mem'
    BY DEF Explore, Inside, history, NoMem
  <2>2. state.node = "EXPLORE"
    BY <2>1 DEF IInv, StepInv, Nodes
  <2>3. QED
    BY <2>1, <2>2, QuietStep DEF Steps, Nodes
<1>2. ASSUME IInv, ExploreAgain PROVE IInv'
  <2> USE <1>2
  <2>1. /\ pc = "EXPLORE" /\ pc' = "return" /\ state' = state /\ started' = started
        /\ calls' = calls /\ made' = made /\ "result" \in DOMAIN mem'
    BY DEF ExploreAgain, Returns, Inside, history, IInv, StepInv
  <2>2. state.node = "EXPLORE"
    BY <2>1 DEF IInv, StepInv, Nodes
  <2>3. QED
    BY <2>1, <2>2, QuietStep DEF Steps, Nodes
<1>3. QED
  BY <1>1, <1>2

(* The author: asked at a node just entered; what follows asks nobody.                   *)
LEMMA AuthorSteps == IInv /\ Author => IInv'
<1>1. ASSUME IInv, OpenWorkspace PROVE IInv'
  <2> USE <1>1
  <2>1. /\ pc = "IMPLEMENT" /\ pc' = "propose" /\ state' = state /\ started' = started
        /\ made' = made /\ "result" \in DOMAIN mem'
        /\ calls' = [calls EXCEPT ![<<state.item, 0>>] = @ + 1]
    BY DEF OpenWorkspace, Inside, IInv, StepInv
  <2>2. state.node = "IMPLEMENT" /\ state.count = 0
    BY <2>1 DEF IInv, StepInv, CycleInv, Nodes
  <2>3. QED
    BY <2>1, <2>2, AuthorStep DEF AuthorNodes
<1>2. ASSUME IInv, PrepareRepair PROVE IInv'
  <2> USE <1>2
  <2>1. /\ pc = "REPAIR" /\ pc' = "propose" /\ state' = state /\ started' = started
        /\ made' = made /\ "result" \in DOMAIN mem'
        /\ calls' = [calls EXCEPT ![<<state.item, state.count>>] = @ + 1]
    BY DEF PrepareRepair, Inside, IInv, StepInv
  <2>2. state.node = "REPAIR"
    BY <2>1 DEF IInv, StepInv, Nodes
  <2>3. QED
    BY <2>1, <2>2, AuthorStep DEF AuthorNodes
<1>3. ASSUME IInv, Propose PROVE IInv'
  <2> USE <1>3
  <2>1. /\ pc = "propose" /\ pc' = "apply"
        /\ state' = state /\ started' = started
        /\ calls' = calls /\ made' = made /\ "result" \in DOMAIN mem'
    BY DEF Propose, Inside, history, IInv, StepInv
  <2>2. state.node \in AuthorNodes /\ made[state.item] # 1
    BY <2>1 DEF IInv, StepInv, CommitInv, AuthorNodes, Nodes
  <2>3. QED
    BY <2>1, <2>2, QuietStep DEF Steps, Failing, Nodes, AuthorNodes
<1>4. ASSUME IInv, Apply PROVE IInv'
  <2> USE <1>4
  <2>1. /\ pc = "apply" /\ pc' = "applied"
        /\ state' = state /\ started' = started
        /\ calls' = calls /\ made' = made /\ "result" \in DOMAIN mem'
    BY DEF Apply, Inside, history, IInv, StepInv
  <2>2. state.node \in AuthorNodes /\ made[state.item] # 1
    BY <2>1 DEF IInv, StepInv, CommitInv, AuthorNodes, Nodes
  <2>3. QED
    BY <2>1, <2>2, QuietStep DEF Steps, Failing, Nodes, AuthorNodes
<1>5. ASSUME IInv, RecordApplied PROVE IInv'
  <2> USE <1>5
  <2>1. /\ pc = "applied" /\ pc' = "capture"
        /\ state' = state /\ started' = started
        /\ calls' = calls /\ made' = made /\ "result" \in DOMAIN mem'
    BY DEF RecordApplied, Inside, history, IInv, StepInv
  <2>2. state.node \in AuthorNodes /\ made[state.item] # 1
    BY <2>1 DEF IInv, StepInv, CommitInv, AuthorNodes, Nodes
  <2>3. QED
    BY <2>1, <2>2, QuietStep DEF Steps, Failing, Nodes, AuthorNodes
<1>6. ASSUME IInv, CaptureManifest PROVE IInv'
  <2> USE <1>6
  <2>1. /\ pc = "capture" /\ pc' = "return"
        /\ state' = state /\ started' = started
        /\ calls' = calls /\ made' = made /\ "result" \in DOMAIN mem'
    BY DEF CaptureManifest, Inside, history, IInv, StepInv
  <2>2. state.node \in AuthorNodes /\ made[state.item] # 1
    BY <2>1 DEF IInv, StepInv, CommitInv, AuthorNodes, Nodes
  <2>3. QED
    BY <2>1, <2>2, QuietStep DEF Steps, Failing, Nodes, AuthorNodes
<1>7. QED
  BY <1>1, <1>2, <1>3, <1>4, <1>5, <1>6 DEF Author

(* Checks and reviews change files only, and only a repairable failure goes on.          *)
LEMMA JudgeSteps == IInv /\ Judge => IInv'
<1>1. ASSUME IInv, RestoreValidation PROVE IInv'
  <2> USE <1>1
  <2>1. /\ pc = "VALIDATE" /\ pc' = "return"
        /\ state' = state /\ started' = started
        /\ calls' = calls /\ made' = made /\ "result" \in DOMAIN mem'
    BY DEF RestoreValidation, Inside, history, IInv, StepInv
  <2>2. state.node = "VALIDATE"
    BY <2>1 DEF IInv, StepInv, CommitInv, AuthorNodes, Nodes
  <2>3. QED
    BY <2>1, <2>2, QuietStep DEF Steps, Failing, Nodes, AuthorNodes
<1>2. ASSUME IInv, RunChecks PROVE IInv'
  <2> USE <1>2
  <2>1. /\ pc = "VALIDATE" /\ pc' = "return"
        /\ state' = state /\ started' = started
        /\ calls' = calls /\ made' = made /\ "result" \in DOMAIN mem'
    BY DEF RunChecks, Inside, history, IInv, StepInv
  <2>2. state.node = "VALIDATE"
    BY <2>1 DEF IInv, StepInv, CommitInv, AuthorNodes, Nodes
  <2>3. QED
    BY <2>1, <2>2, QuietStep DEF Steps, Failing, Nodes, AuthorNodes
<1>3. ASSUME IInv, ClassifyFailure PROVE IInv'
  <2> USE <1>3
  <2>1. /\ pc = "CLASSIFY_FAILURE" /\ pc' = "return"
        /\ state' = state /\ started' = started
        /\ calls' = calls /\ made' = made /\ "result" \in DOMAIN mem'
    BY DEF ClassifyFailure, Returns, Inside, history, IInv, StepInv
  <2>2. state.node = "CLASSIFY_FAILURE" /\ state.count < MaxRepair
    BY <2>1 DEF ClassifyFailure, IInv, StepInv, CommitInv, AuthorNodes, Nodes
  <2>3. QED
    BY <2>1, <2>2, QuietStep DEF Steps, Failing, Nodes, AuthorNodes
<1>4. ASSUME IInv, RestoreReview PROVE IInv'
  <2> USE <1>4
  <2>1. /\ pc = "REVIEW" /\ pc' = "return"
        /\ state' = state /\ started' = started
        /\ calls' = calls /\ made' = made /\ "result" \in DOMAIN mem'
    BY DEF RestoreReview, Inside, history, IInv, StepInv
  <2>2. state.node = "REVIEW" /\ made[state.item] # 1
    BY <2>1 DEF IInv, StepInv, CommitInv, AuthorNodes, Nodes
  <2>3. QED
    BY <2>1, <2>2, QuietStep DEF Steps, Failing, Nodes, AuthorNodes
<1>5. ASSUME IInv, ReviewMechanically PROVE IInv'
  <2> USE <1>5
  <2>1. /\ pc = "REVIEW" /\ pc' \in {"review-context", "judge"}
        /\ state' = state /\ started' = started
        /\ calls' = calls /\ made' = made /\ "result" \in DOMAIN mem'
    BY DEF ReviewMechanically, Inside, history, IInv, StepInv
  <2>2. state.node = "REVIEW" /\ made[state.item] # 1
    BY <2>1 DEF IInv, StepInv, CommitInv, AuthorNodes, Nodes
  <2>3. QED
    BY <2>1, <2>2, QuietStep DEF Steps, Failing, Nodes, AuthorNodes
<1>6. ASSUME IInv, FreezeContext PROVE IInv'
  <2> USE <1>6
  <2>1. /\ pc = "review-context" /\ pc' = "semantic"
        /\ state' = state /\ started' = started
        /\ calls' = calls /\ made' = made /\ "result" \in DOMAIN mem'
    BY DEF FreezeContext, Inside, history, IInv, StepInv
  <2>2. state.node = "REVIEW" /\ made[state.item] # 1
    BY <2>1 DEF IInv, StepInv, CommitInv, AuthorNodes, Nodes
  <2>3. QED
    BY <2>1, <2>2, QuietStep DEF Steps, Failing, Nodes, AuthorNodes
<1>7. ASSUME IInv, ReviewSemantically PROVE IInv'
  <2> USE <1>7
  <2>1. /\ pc = "semantic" /\ pc' = "judge"
        /\ state' = state /\ started' = started
        /\ calls' = calls /\ made' = made /\ "result" \in DOMAIN mem'
    BY DEF ReviewSemantically, Inside, history, IInv, StepInv
  <2>2. state.node = "REVIEW" /\ made[state.item] # 1
    BY <2>1 DEF IInv, StepInv, CommitInv, AuthorNodes, Nodes
  <2>3. QED
    BY <2>1, <2>2, QuietStep DEF Steps, Failing, Nodes, AuthorNodes
<1>8. ASSUME IInv, WriteReview PROVE IInv'
  <2> USE <1>8
  <2>1. /\ pc = "judge" /\ pc' = "return"
        /\ state' = state /\ started' = started
        /\ calls' = calls /\ made' = made /\ "result" \in DOMAIN mem'
    BY DEF WriteReview, Inside, history, IInv, StepInv
  <2>2. state.node = "REVIEW" /\ made[state.item] # 1
    BY <2>1 DEF IInv, StepInv, CommitInv, AuthorNodes, Nodes
  <2>3. QED
    BY <2>1, <2>2, QuietStep DEF Steps, Failing, Nodes, AuthorNodes
<1>9. QED
  BY <1>1, <1>2, <1>3, <1>4, <1>5, <1>6, <1>7, <1>8 DEF Judge

(* Closing: after git was asked the item is closed, or nobody runs the node again.       *)
LEMMA CloseSteps == IInv /\ Close => IInv'
<1>1. ASSUME IInv, CheckCommit PROVE IInv'
  <2> USE <1>1
  <2>1. /\ pc = "CLOSE_TASK" /\ pc' = "git-commit"
        /\ state' = state /\ started' = started
        /\ calls' = calls /\ made' = made /\ "result" \in DOMAIN mem'
    BY DEF CheckCommit, Inside, history, IInv, StepInv
  <2>2. state.node = "CLOSE_TASK" /\ made[state.item] # 1
    BY <2>1 DEF IInv, StepInv, CommitInv, AuthorNodes, Nodes
  <2>3. QED
    BY <2>1, <2>2, QuietStep DEF Steps, Failing, Nodes, AuthorNodes
<1>2. ASSUME IInv, GitCommitFails PROVE IInv'
  <2> USE <1>2
  <2>1. /\ pc = "git-commit" /\ pc' \in {"return", "uncertain"}
        /\ state' = state /\ started' = started
        /\ calls' = calls /\ made' = made /\ "result" \in DOMAIN mem'
    BY DEF GitCommitFails, Stops, Returns, Inside, history, IInv, StepInv
  <2>2. state.node = "CLOSE_TASK" /\ made[state.item] # 1
    BY <2>1 DEF IInv, StepInv, CommitInv, AuthorNodes, Nodes
  <2>3. QED
    BY <2>1, <2>2, QuietStep DEF Steps, Failing, Nodes, AuthorNodes
<1>3. ASSUME IInv, WriteWitness PROVE IInv'
  <2> USE <1>3
  <2>1. /\ pc \in {"witness", "uncertain", "verify"} /\ pc' \in {"verify", "down"}
        /\ state' = state /\ started' = started
        /\ calls' = calls /\ made' = made /\ "result" \in DOMAIN mem'
    BY DEF WriteWitness, Leave, NoMem, history, IInv, StepInv
  <2>2. state.node = "CLOSE_TASK"
    BY <2>1 DEF IInv, StepInv, CommitInv, AuthorNodes, Nodes
  <2>3. QED
    BY <2>1, <2>2, QuietStep DEF Steps, Failing, Nodes, AuthorNodes
<1>4. ASSUME IInv, VerifyCommit PROVE IInv'
  <2> USE <1>4
  <2>1. /\ pc = "verify" /\ pc' = "return"
        /\ state' = state /\ started' = started
        /\ calls' = calls /\ made' = made /\ "result" \in DOMAIN mem'
    BY DEF VerifyCommit, Returns, Inside, history, IInv, StepInv
  <2>2. state.node = "CLOSE_TASK"
    BY <2>1 DEF IInv, StepInv, CommitInv, AuthorNodes, Nodes
  <2>3. QED
    BY <2>1, <2>2, QuietStep DEF Steps, Failing, Nodes, AuthorNodes
<1>5. ASSUME IInv, PostCommitRecoveryRequired PROVE IInv'
  <2> USE <1>5
  <2>1. /\ pc \in {"witness", "uncertain", "verify"} /\ pc' = "down"
        /\ state' = state /\ started' = started
        /\ calls' = calls /\ made' = made /\ "result" \in DOMAIN mem'
    BY DEF PostCommitRecoveryRequired, Leave, NoMem, history, IInv, StepInv
  <2>2. state.node = "CLOSE_TASK"
    BY <2>1 DEF IInv, StepInv, CommitInv, AuthorNodes, Nodes
  <2>3. QED
    BY <2>1, <2>2, QuietStep DEF Steps, Failing, Nodes, AuthorNodes
<1>6. QED
  BY <1>1, <1>2, <1>3, <1>4, <1>5, GitCommitStep DEF Close

(* A failed or blocked result of a step before git was asked.                            *)
LEMMA FailStep == IInv /\ Fail => IInv'
<1> SUFFICES ASSUME IInv, NEW step \in Failing, Stops(step) PROVE IInv'
  BY DEF Fail
<1>1. /\ pc = step /\ pc' = "return" /\ state' = state /\ started' = started
      /\ calls' = calls /\ made' = made /\ "result" \in DOMAIN mem' /\ mem'.result = "stop"
  BY DEF Stops, Returns, Inside, history, IInv, StepInv
<1>2. made[state.item] # 1
  BY <1>1 DEF IInv, CommitInv, StepInv, Failing
<1>3. QED
  BY <1>1, <1>2, QuietStep DEF Failing, Steps, Nodes

-----------------------------------------------------------------------------
(* IInv is inductive.                                                                    *)
LEMMA NextIInv == IInv /\ [Next]_vars => IInv'
<1>1. IInv /\ Work => IInv'
  BY EnterStep, AnalysisSteps, AuthorSteps, JudgeSteps, CloseSteps, FailStep, RecordStep
     DEF Work
<1>2. IInv /\ Refuse => IInv'
  BY StillStep DEF Refuse, history
<1>3. IInv /\ Drift => IInv'
  BY StillStep DEF Drift, history
<1>4. IInv /\ UNCHANGED vars => IInv'
  BY StillStep DEF vars
<1>5. QED
  BY <1>1, <1>2, <1>3, <1>4, ResumeStep, CrashStep DEF Next, Finished

(* The strengthening of the two properties below holds in every state.                   *)
THEOREM Invariance == Spec => []IInv
<1>1. Init => IInv
  BY InitIInv
<1>2. IInv /\ [Next]_vars => IInv'
  BY NextIInv
<1>3. QED
  BY <1>1, <1>2, PTL DEF Spec

(* A change provider is asked at most once per item and repair cycle, whatever crashes   *)
(* and interferes (WriteExecution.implement and repair).                                 *)
THEOREM AuthorsAreAskedOnce == Spec => []AuthorsOnce
<1>1. IInv => AuthorsOnce
  BY DEF IInv, AuthorInv, AuthorsOnce
<1>2. QED
  BY <1>1, Invariance, PTL

(* A run commits an item at most once (WriteExecution.commit).                           *)
THEOREM ItemsAreCommittedOnce == Spec => []CommitsOnce
<1>1. IInv => CommitsOnce
  BY DEF IInv, CommitInv, CommitsOnce
<1>2. QED
  BY <1>1, Invariance, PTL

-----------------------------------------------------------------------------
(* The evidence: what is in the files of an item at every node, and what a process knows *)
(* of them at every step.                                                                *)
Commits == Seq(Trees)

StateInv ==
    /\ {"manifests", "findings", "completed"} \subseteq DOMAIN state
    /\ state.manifests \in Seq(Trees) /\ state.completed \in Seq(Commits)
    /\ state.findings \subseteq Findings

\* A file holds what its kind may hold, and the items to come have none.
FilesInv ==
    /\ DOMAIN files = ItemRange \X Cycles \X Kinds
    /\ \A k \in ItemRange, c \in Cycles, kind \in Kinds :
         /\ files[k, c, kind] \in Evidence(kind) \cup {None}
         /\ k > state.item => files[k, c, kind] = None

RepoInv ==
    {"exists", "head", "tree"} = DOMAIN repo /\ repo.head \in Commits /\ repo.tree \in Trees

MemInv ==
    /\ DOMAIN mem = DOMAIN NoMem
    /\ mem.findings \subseteq Findings
    /\ mem.semantic \in {"pass", "fail", "blocked", None}
    /\ mem.sha \in Commits \cup {None}

ShapeInv == StateInv /\ FilesInv /\ RepoInv /\ MemInv

JudgedNodes == {"VALIDATE", "REVIEW", "CLASSIFY_FAILURE", "CLOSE_TASK"}

\* The author's evidence of a cycle: what was proposed was applied.
Authored(c) == At(c, "proposal") \in Trees /\ At(c, "applied") = At(c, "proposal")

Validated(c, tree) == At(c, "validation") = [tree |-> tree, passed |-> TRUE]

MechanicallyPassed(c, tree) == At(c, "mechanical") = [tree |-> tree, findings |-> {}]

Reviewed(c, tree) ==
    /\ MechanicallyPassed(c, tree)
    /\ At(c, "review-context") = tree
    /\ At(c, "review") = [tree |-> tree, mechanical |-> {}, semantic |-> "pass"]

Contextual(c, tree) == At(c, "context") # None /\ At(c, "context").tree = tree

\* Every cycle the state names has its author's evidence and its manifest.
LineageInv ==
    /\ state.node \in {"EXPLORE", "IMPLEMENT"} => state.manifests = <<>>
    /\ state.node \in JudgedNodes => Len(state.manifests) = state.count + 1
    /\ state.node = "REPAIR" => Len(state.manifests) = state.count /\ state.count > 0
    /\ Len(state.manifests) <= state.count + 1
    /\ \A c \in 0 .. LastCycle : Authored(c) /\ At(c, "manifest") = state.manifests[c + 1]

\* The verdicts the state goes on with are in the files of the newest cycle.
VerdictInv ==
    /\ state.node \notin {"EXPLORE", "FINALIZE"} => At(0, "inputs") = Base
    /\ state.node \in {"REVIEW", "CLOSE_TASK"} => Validated(state.count, Manifest)
    /\ state.node = "CLOSE_TASK" => Reviewed(state.count, Manifest)
    /\ state.node = "REPAIR" => Contextual(state.count, Manifest)

\* Completed items prove their commits, and at most one item is under way.
CompletedInv ==
    /\ \/ Len(state.completed) = state.item - 1
       \/ state.node = "FINALIZE" /\ Len(state.completed) = state.item
    /\ CompletedLineage

\* Beside the completed items only the one being closed has a witness.
WitnessInv ==
    Exists(0, "witness") =>
      \/ Len(state.completed) = state.item
      \/ /\ state.node = "CLOSE_TASK" /\ started
         /\ pc \in {"verify", "return", "down"}
         /\ pc = "return" => mem.result # "stop"

\* An active item has its inputs; a process between two nodes knows the newest manifest.
ActiveInv == state.node # "FINALIZE" /\ mem.active => At(0, "inputs") = Base

KnownInv ==
    state.node \in JudgedNodes /\ pc # "down" =>
      mem.manifest = Manifest /\ mem.cycle = state.count

\* What the process knows of the item's files at each of its steps.
AuthorMem ==
    /\ pc = "return" /\ state.node = "EXPLORE" /\ mem.result # "stop" => mem.active
    /\ pc \in {"apply", "applied"} =>
         mem.proposal \in Trees /\ At(Cycle, "proposal") = mem.proposal
    /\ pc = "capture" => Authored(Cycle)
    /\ pc = "return" /\ state.node \in AuthorNodes /\ mem.result # "stop" =>
         /\ Authored(Cycle) /\ mem.manifest \in Trees /\ At(Cycle, "manifest") = mem.manifest
         /\ mem.cycle = Cycle

JudgeMem ==
    /\ pc = "return" /\ state.node = "VALIDATE" /\ mem.result = "pass" =>
         Validated(state.count, Manifest)
    /\ pc \in {"review-context", "semantic", "judge"} =>
         mem.findings \subseteq MechanicalFindings
    /\ pc \in {"review-context", "semantic"} => mem.findings = {}
    /\ pc \in {"review-context", "semantic", "judge"} /\ mem.findings = {} =>
         MechanicallyPassed(state.count, Manifest) /\ Manifest # TreeOf(Base)
    /\ pc = "semantic" \/ (pc = "judge" /\ mem.findings = {}) =>
         At(state.count, "review-context") = Manifest
    /\ pc = "return" /\ state.node = "REVIEW" /\ mem.result = "pass" =>
         Reviewed(state.count, Manifest)
    /\ pc = "return" /\ state.node = "REVIEW" /\ mem.result \notin {"pass", "stop"} =>
         At(state.count, "review") # None /\ ~ReviewPassed(At(state.count, "review"))
    /\ pc = "return" /\ state.node = "CLASSIFY_FAILURE" /\ mem.result # "stop" =>
         Contextual(state.count + 1, Manifest)

CloseMem ==
    /\ pc \in {"git-commit", "witness", "uncertain", "verify"} => mem.base = Base
    /\ pc \in {"witness", "verify"} => mem.sha \in Commits
    /\ pc = "verify" \/ (pc = "return" /\ state.node = "CLOSE_TASK" /\ mem.result # "stop") =>
         At(0, "witness") = [base |-> Base, sha |-> mem.sha, tree |-> Manifest,
                             cycle |-> state.count]
    /\ pc = "return" /\ state.node = "CLOSE_TASK" /\ mem.result # "stop" =>
         /\ mem.sha \in Commits /\ mem.sha # <<>>
         /\ Parent(mem.sha) = Base /\ TreeOf(mem.sha) = Manifest
         /\ At(0, "commit") = mem.sha

\* A review that passed is of the newest cycle, and the run never goes back behind it.
PassedInv ==
    \A c \in Cycles : Exists(c, "review") /\ ReviewPassed(At(c, "review")) =>
      /\ c = LastCycle /\ At(c, "review").tree = Manifest
      /\ Len(state.completed) < state.item => Manifest # TreeOf(Base)
      /\ state.node \in {"REVIEW", "CLOSE_TASK", "FINALIZE"}

PInv == ShapeInv /\ LineageInv /\ VerdictInv /\ CompletedInv
EInv ==
    /\ PInv /\ WitnessInv /\ ActiveInv /\ KnownInv
    /\ AuthorMem /\ JudgeMem /\ CloseMem /\ PassedInv

-----------------------------------------------------------------------------

(* The files that the run goes by are none of them missing.                              *)
LEMMA Told ==
    /\ None \notin Trees /\ None \notin Commits
    /\ \A tree \in Trees :
         /\ [tree |-> tree, passed |-> TRUE] # None
         /\ [tree |-> tree, findings |-> {}] # None
         /\ [tree |-> tree, mechanical |-> {}, semantic |-> "pass"] # None
<1>1. None \notin Trees
  OBVIOUS
<1>2. None \notin Commits
  <2>1. Evidence("commit") = Commits
    BY DEF Evidence, Commits
  <2>2. QED
    BY <2>1, NoneAssumption DEF Kinds
<1>3. ASSUME NEW tree \in Trees PROVE [tree |-> tree, passed |-> TRUE] # None
  <2>1. Evidence("validation") = [tree : Trees, passed : BOOLEAN]
    BY DEF Evidence
  <2>2. [tree |-> tree, passed |-> TRUE] \in [tree : Trees, passed : BOOLEAN]
    OBVIOUS
  <2>3. QED
    BY <2>1, <2>2, NoneAssumption DEF Kinds
<1>4. ASSUME NEW tree \in Trees PROVE [tree |-> tree, findings |-> {}] # None
  <2>1. Evidence("mechanical") = [tree : Trees, findings : SUBSET MechanicalFindings]
    BY DEF Evidence
  <2>2. [tree |-> tree, findings |-> {}] \in [tree : Trees, findings : SUBSET MechanicalFindings]
    OBVIOUS
  <2>3. QED
    BY <2>1, <2>2, NoneAssumption DEF Kinds
<1>5. ASSUME NEW tree \in Trees
      PROVE  [tree |-> tree, mechanical |-> {}, semantic |-> "pass"] # None
  <2>1. Evidence("review") = [tree : Trees, mechanical : SUBSET MechanicalFindings,
                              semantic : {"pass", "fail", "blocked", None}]
    BY DEF Evidence
  <2>2. [tree |-> tree, mechanical |-> {}, semantic |-> "pass"]
          \in [tree : Trees, mechanical : SUBSET MechanicalFindings,
               semantic : {"pass", "fail", "blocked", None}]
    OBVIOUS
  <2>3. QED
    BY <2>1, <2>2, NoneAssumption DEF Kinds
<1>6. QED
  BY <1>1, <1>2, <1>3, <1>4, <1>5

(* What the state names is a tree and a commit.                                          *)
LEMMA Named ==
    ASSUME IInv, PInv
    PROVE  /\ Base \in Commits
           /\ Len(state.manifests) \in Nat /\ LastCycle \in -1 .. MaxRepair
           /\ 0 .. LastCycle \subseteq Cycles /\ 0 \in Cycles /\ state.count \in Cycles
           /\ state.manifests # <<>> => Manifest \in Trees
           /\ state.node \in JudgedNodes =>
                Manifest \in Trees /\ LastCycle = state.count /\ state.manifests # <<>>
           /\ state.node = "REPAIR" =>
                Manifest \in Trees /\ LastCycle = state.count - 1 /\ state.manifests # <<>>
<1>1. /\ state.item \in ItemRange /\ state.count \in Cycles
      /\ state.manifests \in Seq(Trees) /\ state.completed \in Seq(Commits)
  BY DEF IInv, CycleInv, PInv, ShapeInv, StateInv
<1>2. Base \in Commits
  BY <1>1 DEF Base, Commits
<1>3. /\ Len(state.manifests) \in Nat
      /\ state.manifests # <<>> => Len(state.manifests) > 0 /\ Manifest \in Trees
  BY <1>1 DEF Manifest
<1>4. /\ Len(state.manifests) <= state.count + 1
      /\ state.node \in JudgedNodes => Len(state.manifests) = state.count + 1
      /\ state.node = "REPAIR" => Len(state.manifests) = state.count /\ state.count > 0
  BY DEF PInv, LineageInv
<1>5. LastCycle = Len(state.manifests) - 1
  BY DEF LastCycle
<1>6. Len(<<>>) = 0
  OBVIOUS
<1>7. Cycles = 0 .. MaxRepair /\ MaxRepair \in Nat
  BY DEF Cycles
<1>8. 0 .. LastCycle \subseteq Cycles /\ 0 \in Cycles /\ LastCycle \in -1 .. MaxRepair
  BY <1>1, <1>3, <1>4, <1>5, <1>7
<1>9. QED
  BY <1>1, <1>2, <1>3, <1>4, <1>5, <1>6, <1>7, <1>8

(* The files only grow: what was written is kept, and not every file can be written by   *)
(* every step.                                                                           *)
Grown ==
    \A k \in ItemRange, c \in Cycles, kind \in Kinds :
      files[k, c, kind] # None => files'[k, c, kind] = files[k, c, kind]

KeepsReviews ==
    \A k \in ItemRange, c \in Cycles : files'[k, c, "review"] = files[k, c, "review"]

KeepsWitnesses ==
    \A k \in ItemRange : files'[k, 0, "witness"] = files[k, 0, "witness"]

(* The item under way and its first cycle index the files.                               *)
LEMMA Here ==
    ASSUME IInv
    PROVE  /\ state.item \in ItemRange /\ ~(state.item > state.item)
           /\ 0 \in Cycles /\ "review" \in Kinds /\ "witness" \in Kinds
BY DEF IInv, CycleInv, Kinds, Cycles, ItemRange

(* A write (write_evidence) adds one file or finds it there with the same content.       *)
LEMMA WriteStep ==
    ASSUME IInv, FilesInv, state' = state,
           NEW cycle \in Cycles, NEW kind \in Kinds, NEW content \in Evidence(kind),
           \/ /\ files[state.item, cycle, kind] = None
              /\ files' = [files EXCEPT ![<<state.item, cycle, kind>>] = content]
           \/ files[state.item, cycle, kind] = content /\ files' = files
    PROVE  /\ FilesInv' /\ Grown
           /\ files'[state.item, cycle, kind] = content /\ content # None
           /\ kind # "review" => KeepsReviews
           /\ kind # "witness" => KeepsWitnesses
<1>1. content # None
  BY NoneAssumption
<1>2. /\ state.item \in ItemRange /\ ~(state.item > state.item)
      /\ 0 \in Cycles /\ "review" \in Kinds /\ "witness" \in Kinds
  BY Here
<1>3. /\ DOMAIN files' = DOMAIN files
      /\ files'[state.item, cycle, kind] = content
      /\ \A k \in ItemRange, c \in Cycles, kd \in Kinds :
           <<k, c, kd>> # <<state.item, cycle, kind>> => files'[k, c, kd] = files[k, c, kd]
  BY <1>2 DEF FilesInv
<1>4. Grown
  BY <1>2, <1>3 DEF Grown
<1>5. FilesInv'
  <2>1. ASSUME NEW k \in ItemRange, NEW c \in Cycles, NEW kd \in Kinds
        PROVE  /\ files'[k, c, kd] \in Evidence(kd) \cup {None}
               /\ k > state'.item => files'[k, c, kd] = None
    <3>1. CASE <<k, c, kd>> = <<state.item, cycle, kind>>
      <4>1. k = state.item /\ c = cycle /\ kd = kind
        BY <3>1
      <4>2. ~(state.item > state.item)
        BY <1>2
      <4>3. QED
        BY <4>1, <4>2, <1>3
    <3>2. CASE <<k, c, kd>> # <<state.item, cycle, kind>>
      <4>1. files'[k, c, kd] = files[k, c, kd]
        BY <3>2, <1>3
      <4>2. /\ files[k, c, kd] \in Evidence(kd) \cup {None}
            /\ k > state.item => files[k, c, kd] = None
        BY DEF FilesInv
      <4>3. QED
        BY <4>1, <4>2
    <3>3. QED
      BY <3>1, <3>2
  <2>2. QED
    BY <1>3, <2>1 DEF FilesInv
<1>6. kind # "review" => KeepsReviews
  <2> SUFFICES ASSUME kind # "review", NEW k \in ItemRange, NEW c \in Cycles
               PROVE  files'[k, c, "review"] = files[k, c, "review"]
    BY DEF KeepsReviews
  <2>1. <<k, c, "review">> # <<state.item, cycle, kind>>
    OBVIOUS
  <2>2. QED
    BY <1>2, <1>3, <2>1
<1>7. kind # "witness" => KeepsWitnesses
  <2> SUFFICES ASSUME kind # "witness", NEW k \in ItemRange
               PROVE  files'[k, 0, "witness"] = files[k, 0, "witness"]
    BY DEF KeepsWitnesses
  <2>1. <<k, 0, "witness">> # <<state.item, cycle, kind>>
    OBVIOUS
  <2>2. QED
    BY <1>2, <1>3, <2>1
<1>8. QED
  BY <1>1, <1>3, <1>4, <1>5, <1>6, <1>7

(* A step that writes no evidence keeps all of it.                                       *)
LEMMA NoWrite ==
    ASSUME FilesInv, state' = state, files' = files
    PROVE  FilesInv' /\ Grown /\ KeepsReviews /\ KeepsWitnesses
BY DEF FilesInv, Grown, KeepsReviews, KeepsWitnesses

-----------------------------------------------------------------------------
(* The evidence a value of the witness, and of every other record, holds.                *)
LEMMA Witnesses ==
    /\ Evidence("witness") = [base : Commits, sha : Commits \cup {None}, tree : Trees,
                              cycle : Cycles]
    /\ Evidence("validation") = [tree : Trees, passed : BOOLEAN]
    /\ Evidence("mechanical") = [tree : Trees, findings : SUBSET MechanicalFindings]
    /\ Evidence("review") = [tree : Trees, mechanical : SUBSET MechanicalFindings,
                             semantic : {"pass", "fail", "blocked", None}]
    /\ Evidence("context") = [tree : Trees, source : {"VALIDATE", "REVIEW"},
                              findings : SUBSET Findings]
    /\ Evidence("inputs") = Commits /\ Evidence("commit") = Commits
    /\ \A kind \in {"proposal", "applied", "manifest", "review-context"} : Evidence(kind) = Trees
<1>1. /\ Evidence("proposal") = Trees /\ Evidence("applied") = Trees
      /\ Evidence("manifest") = Trees /\ Evidence("review-context") = Trees
  BY DEF Evidence
<1>2. QED
  BY <1>1 DEF Evidence, Commits

(* A completed item is one of the plan, and its base and its commit are commits.         *)
LEMMA CompletedRange ==
    ASSUME IInv, PInv, NEW k \in DOMAIN state.completed
    PROVE  /\ k \in ItemRange /\ k \in 1 .. Len(state.completed)
           /\ state.completed[k] \in Commits
           /\ (IF k = 1 THEN <<>> ELSE state.completed[k - 1]) \in Commits
<1>1. state.item \in ItemRange /\ state.completed \in Seq(Commits)
  BY DEF IInv, CycleInv, PInv, ShapeInv, StateInv
<1>2. Len(state.completed) <= state.item
  BY <1>1 DEF PInv, CompletedInv, ItemRange
<1>3. k \in ItemRange /\ k \in 1 .. Len(state.completed) /\ state.completed[k] \in Commits
  BY <1>1, <1>2 DEF ItemRange
<1>4. k # 1 => k - 1 \in 1 .. Len(state.completed)
  BY <1>3 DEF ItemRange
<1>5. <<>> \in Commits
  BY DEF Commits
<1>6. QED
  BY <1>1, <1>3, <1>4, <1>5

(* What proves a commit stays in the files.                                              *)
LEMMA KeepsProofs ==
    ASSUME IInv, PInv, state'.completed = state.completed, Grown
    PROVE  CompletedLineage'
<1> SUFFICES ASSUME NEW k \in DOMAIN state.completed
             PROVE  (/\ VerifyCompletedItem(k, IF k = 1 THEN <<>> ELSE state.completed[k - 1])
                     /\ files[k, 0, "witness"].sha = state.completed[k])'
  BY DEF CompletedLineage
<1> DEFINE base == IF k = 1 THEN <<>> ELSE state.completed[k - 1]
           w == files[k, 0, "witness"]
           told == {"manifest", "applied", "proposal", "validation", "mechanical",
                    "review-context", "review"}
<1>1. k \in ItemRange /\ base \in Commits /\ 0 \in Cycles
  BY CompletedRange, Here
<1>2. /\ VerifyCompletedItem(k, base) /\ w.sha = state.completed[k]
  BY DEF PInv, CompletedInv, CompletedLineage
<1>3. /\ files[k, 0, "inputs"] = base /\ w # None
      /\ w.base = base /\ w.sha # None
      /\ files[k, w.cycle, "manifest"] = w.tree
      /\ files[k, w.cycle, "applied"] # None
      /\ files[k, w.cycle, "applied"] = files[k, w.cycle, "proposal"]
      /\ files[k, w.cycle, "validation"] = [tree |-> w.tree, passed |-> TRUE]
      /\ files[k, w.cycle, "mechanical"] = [tree |-> w.tree, findings |-> {}]
      /\ files[k, w.cycle, "review-context"] = w.tree
      /\ files[k, w.cycle, "review"] =
           [tree |-> w.tree, mechanical |-> {}, semantic |-> "pass"]
      /\ files[k, 0, "commit"] = w.sha
      /\ w.sha # <<>> /\ Parent(w.sha) = base /\ TreeOf(w.sha) = w.tree
  BY <1>2 DEF VerifyCompletedItem
<1>4. w \in [base : Commits, sha : Commits \cup {None}, tree : Trees, cycle : Cycles]
  <2>1. w \in Evidence("witness") \cup {None}
    BY <1>1 DEF PInv, ShapeInv, FilesInv, Kinds
  <2>2. QED
    BY <2>1, <1>3, Witnesses
<1>5. w.tree \in Trees /\ w.cycle \in Cycles
  BY <1>4
<1>6. /\ files'[k, 0, "witness"] = w
      /\ files'[k, 0, "inputs"] = base /\ files'[k, 0, "commit"] = w.sha
  <2>1. {"witness", "inputs", "commit"} \subseteq Kinds
    BY DEF Kinds
  <2>2. base # None
    BY <1>1, Told
  <2>3. QED
    BY <1>1, <1>3, <2>1, <2>2 DEF Grown
<1>7. \A kind \in told : files'[k, w.cycle, kind] = files[k, w.cycle, kind]
  <2>1. told \subseteq Kinds
    BY DEF Kinds
  <2>2. \A kind \in told : files[k, w.cycle, kind] # None
    BY <1>3, <1>5, Told
  <2>3. QED
    BY <1>1, <1>5, <2>1, <2>2 DEF Grown
<1>8. /\ files'[k, w.cycle, "manifest"] = w.tree
      /\ files'[k, w.cycle, "applied"] # None
      /\ files'[k, w.cycle, "applied"] = files'[k, w.cycle, "proposal"]
      /\ files'[k, w.cycle, "validation"] = [tree |-> w.tree, passed |-> TRUE]
      /\ files'[k, w.cycle, "mechanical"] = [tree |-> w.tree, findings |-> {}]
      /\ files'[k, w.cycle, "review-context"] = w.tree
      /\ files'[k, w.cycle, "review"] =
           [tree |-> w.tree, mechanical |-> {}, semantic |-> "pass"]
  BY <1>3, <1>7
<1> HIDE DEF w
<1>9. QED
  BY <1>2, <1>3, <1>6, <1>8 DEF VerifyCompletedItem, Parent, TreeOf

(* While the state stands and files only grow, everything the state goes by stands.      *)
LEMMA KeepsState ==
    ASSUME IInv, PInv, state' = state, Grown
    PROVE  LineageInv' /\ VerdictInv' /\ CompletedInv'
<1> DEFINE Now(c, kind) == files[state.item, c, kind]
<1>1. \A c \in Cycles, kind \in Kinds :
        Now(c, kind) # None => files'[state'.item, c, kind] = Now(c, kind)
  BY Here DEF Grown
<1>2. /\ Base \in Commits /\ 0 .. LastCycle \subseteq Cycles /\ 0 \in Cycles
      /\ state.count \in Cycles
      /\ state.node \in JudgedNodes \cup {"REPAIR"} => Manifest \in Trees
  BY Named
<1>3. {"proposal", "applied", "manifest", "validation", "mechanical", "review-context",
       "review", "context", "inputs"} \subseteq Kinds
  BY DEF Kinds
<1>4. LastCycle' = LastCycle /\ Manifest' = Manifest /\ Base' = Base
  BY DEF LastCycle, Manifest, Base
<1>5. LineageInv'
  <2>1. ASSUME NEW c \in 0 .. LastCycle
        PROVE  /\ files'[state'.item, c, "proposal"] \in Trees
               /\ files'[state'.item, c, "applied"] = files'[state'.item, c, "proposal"]
               /\ files'[state'.item, c, "manifest"] = state'.manifests[c + 1]
    <3>1. /\ Now(c, "proposal") \in Trees /\ Now(c, "applied") = Now(c, "proposal")
          /\ Now(c, "manifest") = state.manifests[c + 1]
      BY DEF PInv, LineageInv, Authored, At
    <3>2. state.manifests[c + 1] \in Trees
      <4>1. state.manifests \in Seq(Trees) /\ LastCycle = Len(state.manifests) - 1
        BY DEF PInv, ShapeInv, StateInv, LastCycle
      <4>2. QED
        BY <4>1
    <3>3. None \notin Trees /\ c \in Cycles
      BY <1>2, Told
    <3>4. Now(c, "proposal") # None /\ Now(c, "applied") # None /\ Now(c, "manifest") # None
      BY <3>1, <3>2, <3>3
    <3> HIDE DEF Now
    <3>5. /\ files'[state'.item, c, "proposal"] = Now(c, "proposal")
          /\ files'[state'.item, c, "applied"] = Now(c, "applied")
          /\ files'[state'.item, c, "manifest"] = Now(c, "manifest")
      BY <1>1, <1>3, <3>3, <3>4
    <3>6. QED
      BY <3>1, <3>5
  <2>2. \A c \in 0 .. LastCycle' : Authored(c)' /\ At(c, "manifest")' = state'.manifests[c + 1]
    BY <1>4, <2>1 DEF Authored, At
  <2>3. QED
    BY <2>2 DEF PInv, LineageInv, LastCycle
<1>6. VerdictInv'
  <2>1. state.node \notin {"EXPLORE", "FINALIZE"} => files'[state'.item, 0, "inputs"] = Base
    <3>1. state.node \notin {"EXPLORE", "FINALIZE"} => Now(0, "inputs") = Base
      BY DEF PInv, VerdictInv, At
    <3> HIDE DEF Now
    <3>2. QED
      BY <1>1, <1>2, <1>3, <3>1, Told
  <2>2. state.node \in {"REVIEW", "CLOSE_TASK"} =>
          files'[state'.item, state.count, "validation"] = [tree |-> Manifest, passed |-> TRUE]
    <3>1. state.node \in {"REVIEW", "CLOSE_TASK"} =>
            Now(state.count, "validation") = [tree |-> Manifest, passed |-> TRUE]
      BY DEF PInv, VerdictInv, Validated, At
    <3> HIDE DEF Now
    <3>2. QED
      BY <1>1, <1>2, <1>3, <3>1, Told DEF JudgedNodes
  <2>3. state.node = "CLOSE_TASK" =>
          /\ files'[state'.item, state.count, "mechanical"] = [tree |-> Manifest, findings |-> {}]
          /\ files'[state'.item, state.count, "review-context"] = Manifest
          /\ files'[state'.item, state.count, "review"] =
               [tree |-> Manifest, mechanical |-> {}, semantic |-> "pass"]
    <3>1. state.node = "CLOSE_TASK" =>
            /\ Now(state.count, "mechanical") = [tree |-> Manifest, findings |-> {}]
            /\ Now(state.count, "review-context") = Manifest
            /\ Now(state.count, "review") =
                 [tree |-> Manifest, mechanical |-> {}, semantic |-> "pass"]
      BY DEF PInv, VerdictInv, Reviewed, MechanicallyPassed, At
    <3> HIDE DEF Now
    <3>2. QED
      BY <1>1, <1>2, <1>3, <3>1, Told DEF JudgedNodes
  <2>4. state.node = "REPAIR" =>
          /\ files'[state'.item, state.count, "context"] # None
          /\ files'[state'.item, state.count, "context"].tree = Manifest
    <3>1. state.node = "REPAIR" =>
            Now(state.count, "context") # None /\ Now(state.count, "context").tree = Manifest
      BY DEF PInv, VerdictInv, Contextual, At
    <3> HIDE DEF Now
    <3>2. QED
      BY <1>1, <1>2, <1>3, <3>1
  <2>5. QED
    BY <1>4, <2>1, <2>2, <2>3, <2>4
       DEF VerdictInv, Validated, Reviewed, MechanicallyPassed, Contextual, At
<1>7. CompletedInv'
  BY KeepsProofs DEF PInv, CompletedInv
<1>8. QED
  BY <1>5, <1>6, <1>7

-----------------------------------------------------------------------------
(* What stands after a step that leaves the state alone.                                 *)
LEMMA Stays ==
    ASSUME IInv, EInv, state' = state, FilesInv', Grown, RepoInv', MemInv'
    PROVE  PInv'
BY KeepsState DEF EInv, PInv, ShapeInv, StateInv

(* Passed reviews stay what they are while the state and the reviews do.                 *)
LEMMA PassedStays ==
    ASSUME IInv, EInv, state' = state, KeepsReviews
    PROVE  PassedInv'
<1>1. \A c \in Cycles : files'[state'.item, c, "review"] = files[state.item, c, "review"]
  BY Here DEF KeepsReviews
<1>2. LastCycle' = LastCycle /\ Manifest' = Manifest /\ Base' = Base
  BY DEF LastCycle, Manifest, Base
<1>3. PassedInv
  BY DEF EInv
<1>4. QED
  BY <1>1, <1>2, <1>3 DEF PassedInv, Exists, At, ReviewPassed, TreeOf

(* The inputs of an active item stay while the state stands and files only grow.         *)
LEMMA ActiveStays ==
    ASSUME IInv, EInv, state' = state, Grown, mem'.active => mem.active
    PROVE  ActiveInv'
<1> SUFFICES ASSUME state.node # "FINALIZE", mem'.active
             PROVE  files'[state'.item, 0, "inputs"] = Base'
  BY DEF ActiveInv, At
<1>1. files[state.item, 0, "inputs"] = Base
  BY DEF EInv, ActiveInv, At
<1>2. Base \in Commits /\ 0 \in Cycles /\ Base' = Base
  BY Named DEF EInv, Base
<1>3. QED
  BY <1>1, <1>2, Told, Here DEF Grown, Kinds

(* No step but the one that writes it changes the witness of the item under way.         *)
LEMMA WitnessStays ==
    ASSUME IInv, EInv, state' = state, KeepsWitnesses,
           \/ state.node # "CLOSE_TASK"
           \/ pc \notin {"verify", "return", "down"}
           \/ started' = started /\ pc' = "down"
           \/ started' = started /\ pc' = pc /\ mem' = mem
    PROVE  WitnessInv'
<1>1. files'[state'.item, 0, "witness"] = files[state.item, 0, "witness"]
  BY Here DEF KeepsWitnesses
<1>2. QED
  BY <1>1 DEF EInv, WitnessInv, Exists, At

(* Steps of the author, and of the analysis before it.                                   *)
LEMMA AuthorSide ==
    ASSUME IInv, EInv, state.node \in AuthorNodes \cup {"EXPLORE"}, state' = state,
           pc' \in {"propose", "apply", "applied", "capture", "return"},
           FilesInv', Grown, KeepsReviews, KeepsWitnesses, RepoInv', MemInv',
           ActiveInv', AuthorMem'
    PROVE  EInv'
<1>1. PInv' /\ PassedInv'
  BY Stays, PassedStays
<1>2. WitnessInv'
  BY WitnessStays DEF AuthorNodes
<1>3. KnownInv' /\ JudgeMem' /\ CloseMem'
  BY DEF KnownInv, JudgeMem, CloseMem, AuthorNodes, JudgedNodes
<1>4. QED
  BY <1>1, <1>2, <1>3 DEF EInv

(* Steps of the validation and the review.                                               *)
LEMMA JudgeSide ==
    ASSUME IInv, EInv, state.node \in {"VALIDATE", "REVIEW", "CLASSIFY_FAILURE"},
           state' = state, pc # "down",
           pc' \in {"review-context", "semantic", "judge", "return"},
           FilesInv', Grown, KeepsWitnesses, repo' = repo, MemInv',
           mem'.active => mem.active, mem'.manifest = mem.manifest, mem'.cycle = mem.cycle,
           JudgeMem', PassedInv'
    PROVE  EInv'
<1>1. PInv'
  <2>1. RepoInv'
    BY DEF RepoInv, EInv, PInv, ShapeInv
  <2>2. QED
    BY <2>1, Stays
<1>2. WitnessInv' /\ ActiveInv'
  BY WitnessStays, ActiveStays
<1>3. KnownInv'
  BY DEF KnownInv, EInv, JudgedNodes, Manifest
<1>4. AuthorMem' /\ CloseMem'
  BY DEF AuthorMem, CloseMem, AuthorNodes
<1>5. QED
  BY <1>1, <1>2, <1>3, <1>4 DEF EInv

(* Steps of the commit.                                                                  *)
LEMMA CloseSide ==
    ASSUME IInv, EInv, state.node = "CLOSE_TASK", state' = state, pc # "down",
           pc' \in {"git-commit", "witness", "uncertain", "verify", "return"},
           FilesInv', Grown, KeepsReviews, RepoInv', MemInv',
           mem'.active => mem.active, mem'.manifest = mem.manifest, mem'.cycle = mem.cycle,
           CloseMem', WitnessInv'
    PROVE  EInv'
<1>1. PInv' /\ PassedInv' /\ ActiveInv'
  BY Stays, PassedStays, ActiveStays
<1>2. KnownInv'
  BY DEF KnownInv, EInv, JudgedNodes, Manifest
<1>3. AuthorMem' /\ JudgeMem'
  BY DEF AuthorMem, JudgeMem, AuthorNodes
<1>4. QED
  BY <1>1, <1>2, <1>3 DEF EInv

(* The process is gone.                                                                  *)
LEMMA DownSide ==
    ASSUME IInv, EInv, state' = state, started' = started, pc' = "down", mem' = NoMem,
           FilesInv', Grown, KeepsReviews, repo' = repo, WitnessInv'
    PROVE  EInv'
<1>1. MemInv'
  BY DEF MemInv, NoMem
<1>2. RepoInv'
  BY DEF RepoInv, EInv, PInv, ShapeInv
<1>3. mem'.active => mem.active
  BY DEF NoMem
<1>4. PInv' /\ PassedInv' /\ ActiveInv'
  BY <1>1, <1>2, <1>3, Stays, PassedStays, ActiveStays
<1>5. KnownInv' /\ AuthorMem' /\ JudgeMem' /\ CloseMem'
  BY DEF KnownInv, AuthorMem, JudgeMem, CloseMem
<1>6. QED
  BY <1>4, <1>5 DEF EInv

(* A node returns a failed or blocked result.                                            *)
LEMMA StopSide ==
    ASSUME IInv, EInv, NEW step \in Steps, pc = step, step \notin {"idle", "down", "return"},
           Stops(step), WitnessInv'
    PROVE  EInv'
<1>1. /\ state' = state /\ files' = files /\ repo' = repo /\ pc' = "return"
      /\ mem' = [mem EXCEPT !.result = "stop"]
  BY DEF Stops, Returns, Inside, outside
<1>2. FilesInv' /\ Grown /\ KeepsReviews /\ RepoInv'
  BY <1>1, NoWrite DEF EInv, PInv, ShapeInv, RepoInv
<1>3. /\ MemInv' /\ mem'.result = "stop" /\ (mem'.active => mem.active)
      /\ mem'.manifest = mem.manifest /\ mem'.cycle = mem.cycle
  BY <1>1 DEF EInv, PInv, ShapeInv, MemInv, NoMem
<1>4. PInv' /\ PassedInv' /\ ActiveInv'
  BY <1>1, <1>2, <1>3, Stays, PassedStays, ActiveStays
<1>5. KnownInv'
  BY <1>1, <1>3 DEF KnownInv, EInv, Manifest
<1>6. AuthorMem' /\ JudgeMem' /\ CloseMem'
  BY <1>1, <1>3 DEF AuthorMem, JudgeMem, CloseMem
<1>7. QED
  BY <1>4, <1>5, <1>6 DEF EInv

-----------------------------------------------------------------------------
(* The analysis of an item freezes its inputs.                                           *)
LEMMA ExploreEvidence == IInv /\ EInv /\ (Explore \/ ExploreAgain) => EInv'
<1>1. ASSUME IInv, EInv, Explore PROVE EInv'
  <2>1. /\ pc = "EXPLORE" /\ pc' = "return" /\ state' = state /\ repo' = repo
        /\ mem' = [NoMem EXCEPT !.active = TRUE, !.result = "done"]
    BY <1>1 DEF Explore, Inside, outside
  <2>2. state.node = "EXPLORE"
    BY <1>1, <2>1 DEF IInv, StepInv, Nodes
  <2>3. \/ /\ files[state.item, 0, "inputs"] = None
           /\ files' = [files EXCEPT ![<<state.item, 0, "inputs">>] = Base]
        \/ files[state.item, 0, "inputs"] = Base /\ files' = files
    BY <1>1 DEF Explore, WriteOrAgree, Write, Exists, At
  <2>4. Base \in Evidence("inputs") /\ 0 \in Cycles /\ "inputs" \in Kinds /\ FilesInv
    BY <1>1, Named, Witnesses DEF EInv, PInv, ShapeInv, Kinds
  <2>5. /\ FilesInv' /\ Grown /\ KeepsReviews /\ KeepsWitnesses
        /\ files'[state.item, 0, "inputs"] = Base
    BY <1>1, <2>1, <2>3, <2>4, WriteStep
  <2>6. RepoInv'
    BY <1>1, <2>1 DEF EInv, PInv, ShapeInv, RepoInv
  <2>7. MemInv' /\ ActiveInv'
    BY <2>1, <2>5 DEF MemInv, NoMem, ActiveInv, At, Base
  <2>8. AuthorMem'
    BY <2>1, <2>2 DEF AuthorMem, NoMem, AuthorNodes
  <2>9. QED
    BY <1>1, <2>1, <2>2, <2>5, <2>6, <2>7, <2>8, AuthorSide
<1>2. ASSUME IInv, EInv, ExploreAgain PROVE EInv'
  <2>1. /\ pc = "EXPLORE" /\ pc' = "return" /\ state' = state /\ repo' = repo /\ files' = files
        /\ mem.active /\ mem' = [mem EXCEPT !.result = "done"]
    BY <1>2 DEF ExploreAgain, Returns, Inside, outside
  <2>2. state.node = "EXPLORE"
    BY <1>2, <2>1 DEF IInv, StepInv, Nodes
  <2>3. FilesInv' /\ Grown /\ KeepsReviews /\ KeepsWitnesses /\ RepoInv'
    BY <1>2, <2>1, NoWrite DEF EInv, PInv, ShapeInv, RepoInv
  <2>4. MemInv' /\ mem'.active
    BY <1>2, <2>1 DEF EInv, PInv, ShapeInv, MemInv, NoMem
  <2>5. ActiveInv'
    BY <1>2, <2>1, <2>3, ActiveStays
  <2>6. AuthorMem'
    BY <2>1, <2>2, <2>4 DEF AuthorMem, AuthorNodes
  <2>7. QED
    BY <1>2, <2>1, <2>2, <2>3, <2>4, <2>5, <2>6, AuthorSide
<1>3. QED
  BY <1>1, <1>2

(* What an author leaves: its proposal, what it applied, and the manifest of the cycle.  *)
LEMMA AuthorCycle ==
    ASSUME IInv, EInv, state.node \in AuthorNodes
    PROVE  Cycle \in Cycles /\ Cycle = state.count
BY DEF IInv, CycleInv, AuthorNodes, Cycle, Cycles

(* Every step of the author nodes keeps the evidence (WriteExecution.implement, repair). *)
LEMMA AuthorEvidence == IInv /\ EInv /\ Author => EInv'
<1>1. ASSUME IInv, EInv, OpenWorkspace PROVE EInv'
  <2>1. /\ pc = "IMPLEMENT" /\ pc' = "propose" /\ state' = state /\ files' = files
        /\ repo' = AddWorktree(Base)
        /\ mem' = [mem EXCEPT !.base = Base, !.manifest = None]
    BY <1>1 DEF OpenWorkspace, Inside
  <2>2. state.node = "IMPLEMENT"
    BY <1>1, <2>1 DEF IInv, StepInv, Nodes
  <2>3. FilesInv' /\ Grown /\ KeepsReviews /\ KeepsWitnesses
    BY <1>1, <2>1, NoWrite DEF EInv, PInv, ShapeInv
  <2>4. RepoInv'
    <3>1. Base \in Seq(Trees)
      BY <1>1, Named DEF EInv, Commits
    <3>2. TreeOf(Base) \in Trees
      BY <3>1 DEF TreeOf
    <3> HIDE DEF Base, TreeOf
    <3>3. QED
      BY <2>1, <3>1, <3>2 DEF RepoInv, AddWorktree, Commits
  <2>5. MemInv' /\ (mem'.active => mem.active)
    BY <1>1, <2>1 DEF EInv, PInv, ShapeInv, MemInv, NoMem
  <2>6. ActiveInv'
    BY <1>1, <2>1, <2>3, <2>5, ActiveStays
  <2>7. AuthorMem'
    BY <2>1 DEF AuthorMem
  <2>8. QED
    BY <1>1, <2>1, <2>2, <2>3, <2>4, <2>5, <2>6, <2>7, AuthorSide DEF AuthorNodes
<1>2. ASSUME IInv, EInv, PrepareRepair PROVE EInv'
  <2>1. /\ pc = "REPAIR" /\ pc' = "propose" /\ state' = state /\ files' = files
        /\ repo' = repo /\ mem' = mem
    BY <1>2 DEF PrepareRepair, Inside, outside
  <2>2. state.node = "REPAIR"
    BY <1>2, <2>1 DEF IInv, StepInv, Nodes
  <2>3. FilesInv' /\ Grown /\ KeepsReviews /\ KeepsWitnesses /\ RepoInv' /\ MemInv'
    BY <1>2, <2>1, NoWrite DEF EInv, PInv, ShapeInv, RepoInv, MemInv, NoMem
  <2>4. ActiveInv'
    BY <1>2, <2>1, <2>3, ActiveStays
  <2>5. AuthorMem'
    BY <2>1 DEF AuthorMem
  <2>6. QED
    BY <1>2, <2>1, <2>2, <2>3, <2>4, <2>5, AuthorSide DEF AuthorNodes
<1>3. ASSUME IInv, EInv, Propose PROVE EInv'
  <2>1. PICK tree \in Trees :
          /\ files[state.item, Cycle, "proposal"] = None
          /\ files' = [files EXCEPT ![<<state.item, Cycle, "proposal">>] = tree]
          /\ mem' = [mem EXCEPT !.proposal = tree]
    BY <1>3 DEF Propose, Write, Exists, At
  <2>2. pc = "propose" /\ pc' = "apply" /\ state' = state /\ repo' = repo
    BY <1>3 DEF Propose, Inside, outside
  <2>3. state.node \in AuthorNodes
    BY <1>3, <2>2 DEF IInv, StepInv
  <2>4. tree \in Evidence("proposal") /\ Cycle \in Cycles /\ "proposal" \in Kinds /\ FilesInv
    BY <1>3, <2>3, AuthorCycle, Witnesses DEF EInv, PInv, ShapeInv, Kinds
  <2>5. /\ FilesInv' /\ Grown /\ KeepsReviews /\ KeepsWitnesses
        /\ files'[state.item, Cycle, "proposal"] = tree
    BY <1>3, <2>1, <2>2, <2>4, WriteStep
  <2>6. MemInv' /\ mem'.proposal = tree /\ (mem'.active => mem.active)
    BY <1>3, <2>1 DEF EInv, PInv, ShapeInv, MemInv, NoMem
  <2>7. RepoInv' /\ ActiveInv'
    BY <1>3, <2>2, <2>5, <2>6, ActiveStays DEF EInv, PInv, ShapeInv, RepoInv
  <2>8. AuthorMem'
    BY <2>2, <2>5, <2>6 DEF AuthorMem, At, Cycle
  <2>9. QED
    BY <1>3, <2>2, <2>3, <2>5, <2>6, <2>7, <2>8, AuthorSide
<1>4. ASSUME IInv, EInv, Apply PROVE EInv'
  <2>1. PICK tree \in Trees : repo' = [repo EXCEPT !.tree = tree]
    BY <1>4 DEF Apply
  <2>2. pc = "apply" /\ pc' = "applied" /\ state' = state /\ files' = files /\ mem' = mem
    BY <1>4 DEF Apply, Inside
  <2>3. state.node \in AuthorNodes
    BY <1>4, <2>2 DEF IInv, StepInv
  <2>4. FilesInv' /\ Grown /\ KeepsReviews /\ KeepsWitnesses /\ RepoInv' /\ MemInv'
    BY <1>4, <2>1, <2>2, NoWrite DEF EInv, PInv, ShapeInv, RepoInv, MemInv, NoMem
  <2>5. ActiveInv'
    BY <1>4, <2>2, <2>4, ActiveStays
  <2>6. AuthorMem'
    BY <1>4, <2>2 DEF EInv, AuthorMem, At, Cycle
  <2>7. QED
    BY <1>4, <2>2, <2>3, <2>4, <2>5, <2>6, AuthorSide
<1>5. ASSUME IInv, EInv, RecordApplied PROVE EInv'
  <2>1. /\ pc = "applied" /\ pc' = "capture" /\ state' = state /\ repo' = repo /\ mem' = mem
        /\ files[state.item, Cycle, "applied"] = None
        /\ files' = [files EXCEPT ![<<state.item, Cycle, "applied">>] = mem.proposal]
    BY <1>5 DEF RecordApplied, Inside, outside, Write, Exists, At
  <2>2. state.node \in AuthorNodes
    BY <1>5, <2>1 DEF IInv, StepInv
  <2>3. mem.proposal \in Trees /\ files[state.item, Cycle, "proposal"] = mem.proposal
    BY <1>5, <2>1 DEF EInv, AuthorMem, At
  <2>4. /\ mem.proposal \in Evidence("applied") /\ Cycle \in Cycles
        /\ "applied" \in Kinds /\ "proposal" \in Kinds /\ FilesInv
    BY <1>5, <2>2, <2>3, AuthorCycle, Witnesses DEF EInv, PInv, ShapeInv, Kinds
  <2>5. /\ FilesInv' /\ Grown /\ KeepsReviews /\ KeepsWitnesses
        /\ files'[state.item, Cycle, "applied"] = mem.proposal
    BY <1>5, <2>1, <2>4, WriteStep
  <2>6. files'[state.item, Cycle, "proposal"] = mem.proposal
    BY <1>5, <2>3, <2>4, <2>5, Here, Told DEF Grown
  <2>7. RepoInv' /\ MemInv' /\ ActiveInv'
    BY <1>5, <2>1, <2>5, ActiveStays DEF EInv, PInv, ShapeInv, RepoInv, MemInv, NoMem
  <2>8. AuthorMem'
    BY <2>1, <2>3, <2>5, <2>6 DEF AuthorMem, Authored, At, Cycle
  <2>9. QED
    BY <1>5, <2>1, <2>2, <2>5, <2>7, <2>8, AuthorSide
<1>6. ASSUME IInv, EInv, CaptureManifest PROVE EInv'
  <2>1. /\ pc = "capture" /\ pc' = "return" /\ state' = state /\ repo' = repo
        /\ files[state.item, Cycle, "manifest"] = None
        /\ files' = [files EXCEPT ![<<state.item, Cycle, "manifest">>] = repo.tree]
        /\ mem' = [mem EXCEPT !.manifest = repo.tree, !.cycle = Cycle, !.validated = FALSE,
                              !.reviewed = FALSE, !.findings = {}, !.result = "done"]
    BY <1>6 DEF CaptureManifest, Inside, outside, Write, Exists, At
  <2>2. state.node \in AuthorNodes
    BY <1>6, <2>1 DEF IInv, StepInv
  <2>3. repo.tree \in Trees
    BY <1>6 DEF EInv, PInv, ShapeInv, RepoInv
  <2>4. /\ repo.tree \in Evidence("manifest") /\ Cycle \in Cycles
        /\ {"applied", "proposal", "manifest"} \subseteq Kinds /\ FilesInv
    BY <1>6, <2>2, <2>3, AuthorCycle, Witnesses DEF EInv, PInv, ShapeInv, Kinds
  <2>5. /\ FilesInv' /\ Grown /\ KeepsReviews /\ KeepsWitnesses
        /\ files'[state.item, Cycle, "manifest"] = repo.tree
    BY <1>6, <2>1, <2>4, WriteStep
  <2>6. /\ files[state.item, Cycle, "proposal"] \in Trees
        /\ files[state.item, Cycle, "applied"] = files[state.item, Cycle, "proposal"]
    BY <1>6, <2>1 DEF EInv, AuthorMem, Authored, At
  <2>7. /\ files'[state.item, Cycle, "proposal"] = files[state.item, Cycle, "proposal"]
        /\ files'[state.item, Cycle, "applied"] = files[state.item, Cycle, "applied"]
    BY <1>6, <2>4, <2>5, <2>6, Here, Told DEF Grown
  <2>8. /\ MemInv' /\ mem'.manifest = repo.tree /\ mem'.cycle = Cycle
        /\ (mem'.active => mem.active)
    BY <1>6, <2>1 DEF EInv, PInv, ShapeInv, MemInv, NoMem
  <2>9. RepoInv' /\ ActiveInv'
    BY <1>6, <2>1, <2>5, <2>8, ActiveStays DEF EInv, PInv, ShapeInv, RepoInv
  <2>10. AuthorMem'
    BY <2>1, <2>2, <2>3, <2>5, <2>6, <2>7, <2>8 DEF AuthorMem, Authored, At, Cycle, AuthorNodes
  <2>11. QED
    BY <1>6, <2>1, <2>2, <2>5, <2>8, <2>9, <2>10, AuthorSide
<1>7. QED
  BY <1>1, <1>2, <1>3, <1>4, <1>5, <1>6 DEF Author

-----------------------------------------------------------------------------
(* A validation that passed, and a review that passed, are told apart by what they hold. *)
LEMMA PassedValidation ==
    ASSUME NEW v \in [tree : Trees, passed : BOOLEAN], v.passed
    PROVE  v = [tree |-> v.tree, passed |-> TRUE]
OBVIOUS

(* A passed review of its type is the one that names no finding.                         *)
LEMMA PassedReview ==
    ASSUME NEW r \in [tree : Trees, mechanical : SUBSET MechanicalFindings,
                      semantic : {"pass", "fail", "blocked", None}],
           ReviewPassed(r)
    PROVE  r = [tree |-> r.tree, mechanical |-> {}, semantic |-> "pass"]
BY DEF ReviewPassed

(* What a process at a judged node holds.                                                *)
LEMMA JudgeCycle ==
    ASSUME IInv, EInv, state.node \in JudgedNodes, pc # "down"
    PROVE  /\ mem.manifest = Manifest /\ mem.cycle = state.count /\ Manifest \in Trees
           /\ state.count \in Cycles /\ LastCycle = state.count /\ 0 \in Cycles
           /\ Base \in Commits /\ FilesInv
BY Named DEF EInv, KnownInv, PInv, ShapeInv

(* The validation of a cycle is about its manifest.                                      *)
LEMMA ValidateEvidence == IInv /\ EInv /\ (RestoreValidation \/ RunChecks) => EInv'
<1>1. ASSUME IInv, EInv, RestoreValidation PROVE EInv'
  <2> DEFINE v == files[state.item, state.count, "validation"]
  <2>1. /\ pc = "VALIDATE" /\ pc' = "return" /\ state' = state /\ repo' = repo
        /\ files' = files /\ v # None /\ v.tree = mem.manifest
        /\ mem' = [mem EXCEPT !.validated = v.passed,
                              !.result = IF v.passed THEN "pass" ELSE "fail"]
    BY <1>1 DEF RestoreValidation, Inside, outside, ValidationRestorable, Exists, At
  <2>2. state.node = "VALIDATE"
    BY <1>1, <2>1 DEF IInv, StepInv, Nodes
  <2>3. /\ mem.manifest = Manifest /\ Manifest \in Trees /\ state.count \in Cycles
    BY <1>1, <2>1, <2>2, JudgeCycle DEF JudgedNodes
  <2>4. v \in [tree : Trees, passed : BOOLEAN]
    <3>1. v \in Evidence("validation") \cup {None}
      BY <1>1, <2>3, Here DEF EInv, PInv, ShapeInv, FilesInv, Kinds
    <3>2. QED
      BY <3>1, <2>1, Witnesses
  <2>5. v.passed => v = [tree |-> Manifest, passed |-> TRUE]
    BY <2>1, <2>3, <2>4, PassedValidation
  <2> HIDE DEF v
  <2>6. /\ MemInv' /\ (mem'.active => mem.active)
        /\ mem'.manifest = mem.manifest /\ mem'.cycle = mem.cycle
    BY <1>1, <2>1 DEF EInv, PInv, ShapeInv, MemInv, NoMem
  <2>7. mem'.result = "pass" => v.passed
    <3>1. mem'.result = IF v.passed THEN "pass" ELSE "fail"
      BY <1>1, <2>1 DEF EInv, PInv, ShapeInv, MemInv, NoMem
    <3>2. QED
      BY <3>1
  <2>8. JudgeMem'
    BY <2>1, <2>2, <2>5, <2>7 DEF JudgeMem, Validated, At, v, Manifest
  <2>9. FilesInv' /\ Grown /\ KeepsReviews /\ KeepsWitnesses
    BY <1>1, <2>1, NoWrite DEF EInv, PInv, ShapeInv
  <2>10. PassedInv'
    BY <1>1, <2>1, <2>9, PassedStays
  <2>11. QED
    BY <1>1, <2>1, <2>2, <2>6, <2>8, <2>9, <2>10, JudgeSide
<1>2. ASSUME IInv, EInv, RunChecks PROVE EInv'
  <2>1. PICK passed \in BOOLEAN :
          /\ files[state.item, state.count, "validation"] = None
          /\ files' = [files EXCEPT ![<<state.item, state.count, "validation">>] =
                                      [tree |-> mem.manifest, passed |-> passed]]
          /\ mem' = [mem EXCEPT !.validated = passed,
                                !.result = IF passed THEN "pass" ELSE "fail"]
    BY <1>2 DEF RunChecks, Write, Exists, At
  <2>2. pc = "VALIDATE" /\ pc' = "return" /\ state' = state /\ repo' = repo
    BY <1>2 DEF RunChecks, Inside, outside
  <2>3. state.node = "VALIDATE"
    BY <1>2, <2>2 DEF IInv, StepInv, Nodes
  <2>4. /\ mem.manifest = Manifest /\ Manifest \in Trees /\ state.count \in Cycles /\ FilesInv
    BY <1>2, <2>2, <2>3, JudgeCycle DEF JudgedNodes
  <2>5. /\ "validation" \in Kinds
        /\ [tree |-> mem.manifest, passed |-> passed] \in Evidence("validation")
    BY <2>4, Witnesses DEF Kinds
  <2>6. /\ FilesInv' /\ Grown /\ KeepsReviews /\ KeepsWitnesses
        /\ files'[state.item, state.count, "validation"] =
             [tree |-> mem.manifest, passed |-> passed]
    BY <1>2, <2>1, <2>2, <2>4, <2>5, WriteStep
  <2>7. /\ MemInv' /\ (mem'.active => mem.active)
        /\ mem'.manifest = mem.manifest /\ mem'.cycle = mem.cycle
    BY <1>2, <2>1 DEF EInv, PInv, ShapeInv, MemInv, NoMem
  <2>8. mem'.result = "pass" => passed = TRUE
    BY <1>2, <2>1 DEF EInv, PInv, ShapeInv, MemInv, NoMem
  <2>9. JudgeMem'
    BY <2>2, <2>3, <2>4, <2>6, <2>8 DEF JudgeMem, Validated, At, Manifest
  <2>10. PassedInv'
    BY <1>2, <2>2, <2>6, PassedStays
  <2>11. QED
    BY <1>2, <2>2, <2>3, <2>6, <2>7, <2>9, <2>10, JudgeSide
<1>3. QED
  BY <1>1, <1>2

(* The context of a repair is about the manifest that failed.                            *)
LEMMA ClassifyEvidence == IInv /\ EInv /\ ClassifyFailure => EInv'
<1> SUFFICES ASSUME IInv, EInv, ClassifyFailure PROVE EInv'
  OBVIOUS
<1> DEFINE context == [tree |-> mem.manifest, source |-> state.prev, findings |-> state.findings]
           next == state.count + 1
<1>1. /\ pc = "CLASSIFY_FAILURE" /\ pc' = "return" /\ state' = state /\ repo' = repo
      /\ mem' = [mem EXCEPT !.result = "done"] /\ state.count < MaxRepair
      /\ state.prev \in {"VALIDATE", "REVIEW"}
  BY DEF ClassifyFailure, Returns, Inside, outside, FailureIsEvident
<1>2. state.node = "CLASSIFY_FAILURE"
  BY <1>1 DEF IInv, StepInv, Nodes
<1>3. \/ /\ files[state.item, next, "context"] = None
         /\ files' = [files EXCEPT ![<<state.item, next, "context">>] = context]
      \/ files[state.item, next, "context"] = context /\ files' = files
  BY DEF ClassifyFailure, WriteOrAgree, Write, Exists, At
<1>4. /\ mem.manifest = Manifest /\ Manifest \in Trees /\ state.count \in Cycles /\ FilesInv
  BY <1>1, <1>2, JudgeCycle DEF JudgedNodes
<1>5. next \in Cycles
  BY <1>1, <1>4 DEF Cycles
<1>6. context \in Evidence("context") /\ "context" \in Kinds /\ context.tree = mem.manifest
  BY <1>1, <1>4, Witnesses DEF EInv, PInv, ShapeInv, StateInv, Kinds
<1> HIDE DEF context, next
<1>7. /\ FilesInv' /\ Grown /\ KeepsReviews /\ KeepsWitnesses /\ context # None
      /\ files'[state.item, next, "context"] = context
  BY <1>1, <1>3, <1>4, <1>5, <1>6, WriteStep
<1>8. /\ MemInv' /\ (mem'.active => mem.active)
      /\ mem'.manifest = mem.manifest /\ mem'.cycle = mem.cycle
  BY <1>1 DEF EInv, PInv, ShapeInv, MemInv, NoMem
<1>9. JudgeMem'
  BY <1>1, <1>2, <1>4, <1>6, <1>7 DEF JudgeMem, Contextual, At, Manifest, next
<1>10. PassedInv'
  BY <1>1, <1>7, PassedStays
<1>11. QED
  BY <1>1, <1>2, <1>7, <1>8, <1>9, <1>10, JudgeSide

-----------------------------------------------------------------------------
(* The review of a cycle; what a review finds is a finding.                              *)
Reviews == [tree : Trees, mechanical : SUBSET MechanicalFindings,
            semantic : {"pass", "fail", "blocked", None}]

(* A review names only findings there are.                                               *)
LEMMA FindingsOf == ASSUME NEW r \in Reviews PROVE ReviewFindings(r) \subseteq Findings
BY DEF Reviews, ReviewFindings, Findings

Verdict(r) ==
    IF r.semantic = "blocked" THEN "stop" ELSE IF ReviewPassed(r) THEN "pass" ELSE "fail"

(* The verdict of the REVIEW node is the one of the review (WriteExecution.review).      *)
LEMMA VerdictOf ==
    ASSUME NEW r \in Reviews
    PROVE  /\ Verdict(r) = "pass" => ReviewPassed(r)
           /\ Verdict(r) \notin {"pass", "stop"} => ~ReviewPassed(r)
BY DEF Verdict

(* Taking over a review changes the findings and the result of the process alone.        *)
LEMMA ReviewMem ==
    ASSUME EInv, NEW r \in Reviews, NEW passed,
           mem' = [mem EXCEPT !.reviewed = passed, !.findings = ReviewFindings(r),
                              !.result = Verdict(r)]
    PROVE  /\ MemInv' /\ (mem'.active => mem.active) /\ mem'.result = Verdict(r)
           /\ mem'.manifest = mem.manifest /\ mem'.cycle = mem.cycle
<1>1. ReviewFindings(r) \subseteq Findings
  BY FindingsOf
<1>2. QED
  BY <1>1 DEF EInv, PInv, ShapeInv, MemInv, NoMem

(* Restoring a review that is filed keeps the evidence (_restore_review_evidence).       *)
LEMMA RestoreEvidence == IInv /\ EInv /\ RestoreReview => EInv'
<1> SUFFICES ASSUME IInv, EInv, RestoreReview PROVE EInv'
  OBVIOUS
<1> DEFINE r == files[state.item, state.count, "review"]
           m == files[state.item, state.count, "mechanical"]
           x == files[state.item, state.count, "review-context"]
<1>1. /\ pc = "REVIEW" /\ pc' = "return" /\ state' = state /\ repo' = repo /\ files' = files
  BY DEF RestoreReview, Inside, outside
<1>2. /\ r # None /\ r.tree = mem.manifest
      /\ m = [tree |-> mem.manifest, findings |-> r.mechanical]
      /\ r.mechanical = {} => x = mem.manifest
  BY DEF RestoreReview, Exists, At, Restorable
<1>3. mem' = [mem EXCEPT !.reviewed = ReviewPassed(r), !.findings = ReviewFindings(r),
                         !.result = Verdict(r)]
  BY DEF RestoreReview, At, Verdict
<1>4. state.node = "REVIEW"
  BY <1>1 DEF IInv, StepInv, Nodes
<1>5. mem.manifest = Manifest /\ Manifest \in Trees /\ state.count \in Cycles
  BY <1>1, <1>4, JudgeCycle DEF JudgedNodes
<1>6. r \in Reviews
  <2>1. r \in Evidence("review") \cup {None}
    BY <1>5, Here DEF EInv, PInv, ShapeInv, FilesInv
  <2>2. QED
    BY <2>1, <1>2, Witnesses DEF Reviews
<1>7. ReviewPassed(r) => /\ r = [tree |-> Manifest, mechanical |-> {}, semantic |-> "pass"]
                         /\ m = [tree |-> Manifest, findings |-> {}] /\ x = Manifest
  <2>1. ReviewPassed(r) => r = [tree |-> r.tree, mechanical |-> {}, semantic |-> "pass"]
    BY <1>6, PassedReview DEF Reviews
  <2>2. ReviewPassed(r) => r.mechanical = {}
    BY DEF ReviewPassed
  <2> HIDE DEF r, m, x
  <2>3. r.tree = Manifest
    BY <1>2, <1>5
  <2>4. r.mechanical = {} => m = [tree |-> Manifest, findings |-> {}] /\ x = Manifest
    BY <1>2, <1>5
  <2>5. QED
    BY <2>1, <2>2, <2>3, <2>4
<1> HIDE DEF r, m, x
<1>8. /\ MemInv' /\ (mem'.active => mem.active) /\ mem'.result = Verdict(r)
      /\ mem'.manifest = mem.manifest /\ mem'.cycle = mem.cycle
  BY <1>3, <1>6, ReviewMem
<1>9. /\ Verdict(r) = "pass" => ReviewPassed(r)
      /\ Verdict(r) \notin {"pass", "stop"} => ~ReviewPassed(r)
  BY <1>6, VerdictOf
<1>10. FilesInv' /\ Grown /\ KeepsReviews /\ KeepsWitnesses
  BY <1>1, NoWrite DEF EInv, PInv, ShapeInv
<1>11. JudgeMem'
  <2>1. mem'.result = "pass" => Reviewed(state.count, Manifest)'
    BY <1>1, <1>7, <1>8, <1>9 DEF Reviewed, MechanicallyPassed, At, r, m, x, Manifest
  <2>2. mem'.result \notin {"pass", "stop"} =>
          At(state.count, "review")' # None /\ ~ReviewPassed(At(state.count, "review"))'
    BY <1>1, <1>2, <1>8, <1>9 DEF At, r, ReviewPassed
  <2>3. QED
    BY <1>1, <1>4, <2>1, <2>2 DEF JudgeMem
<1>12. PassedInv'
  BY <1>1, <1>10, PassedStays
<1>13. QED
  BY <1>1, <1>4, <1>8, <1>10, <1>11, <1>12, JudgeSide

(* The mechanical part is frozen; nothing to find means an effective, unchanged change.  *)
LEMMA MechanicalEvidence == IInv /\ EInv /\ ReviewMechanically => EInv'
<1> SUFFICES ASSUME IInv, EInv, ReviewMechanically PROVE EInv'
  OBVIOUS
<1> DEFINE found == Mechanical
           record == [tree |-> mem.manifest, findings |-> found]
<1>1. /\ pc = "REVIEW" /\ pc' = (IF found = {} THEN "review-context" ELSE "judge")
      /\ state' = state /\ repo' = repo
      /\ mem' = [mem EXCEPT !.findings = found, !.semantic = None]
  BY DEF ReviewMechanically, Inside, outside
<1>2. \/ /\ files[state.item, state.count, "mechanical"] = None
         /\ files' = [files EXCEPT ![<<state.item, state.count, "mechanical">>] = record]
      \/ files[state.item, state.count, "mechanical"] = record /\ files' = files
  BY DEF ReviewMechanically, WriteOrAgree, Write, Exists, At
<1>3. state.node = "REVIEW"
  BY <1>1 DEF IInv, StepInv, Nodes
<1>4. /\ mem.manifest = Manifest /\ Manifest \in Trees /\ state.count \in Cycles /\ FilesInv
  BY <1>1, <1>3, JudgeCycle DEF JudgedNodes
<1>5. found \subseteq MechanicalFindings
  BY DEF Mechanical
<1>6. found = {} => Manifest # TreeOf(Base)
  BY <1>4 DEF Mechanical, MechanicalFindings
<1> HIDE DEF found
<1>7. record \in Evidence("mechanical") /\ "mechanical" \in Kinds
  BY <1>4, <1>5, Witnesses DEF Kinds
<1> HIDE DEF record
<1>8. /\ FilesInv' /\ Grown /\ KeepsReviews /\ KeepsWitnesses
      /\ files'[state.item, state.count, "mechanical"] = record
  BY <1>1, <1>2, <1>4, <1>7, WriteStep
<1>9. found = {} => record = [tree |-> Manifest, findings |-> {}]
  BY <1>4 DEF record
<1>10. /\ MemInv' /\ (mem'.active => mem.active) /\ mem'.findings = found
       /\ mem'.manifest = mem.manifest /\ mem'.cycle = mem.cycle
  BY <1>1, <1>5 DEF EInv, PInv, ShapeInv, MemInv, NoMem, Findings
<1>11. pc' \in {"review-context", "judge"} /\ (pc' = "review-context" <=> found = {})
  BY <1>1
<1>12. JudgeMem'
  BY <1>1, <1>5, <1>6, <1>8, <1>9, <1>10, <1>11
     DEF JudgeMem, MechanicallyPassed, At, Manifest, TreeOf, Base
<1>13. PassedInv'
  BY <1>1, <1>8, PassedStays
<1>14. QED
  BY <1>1, <1>3, <1>8, <1>10, <1>11, <1>12, <1>13, JudgeSide

(* The context of the review is about the manifest, and so is the verdict.               *)
LEMMA ContextEvidence == IInv /\ EInv /\ (FreezeContext \/ ReviewSemantically) => EInv'
<1>1. ASSUME IInv, EInv, FreezeContext PROVE EInv'
  <2>1. /\ pc = "review-context" /\ pc' = "semantic" /\ state' = state /\ repo' = repo
        /\ mem' = mem
    BY <1>1 DEF FreezeContext, Inside, outside
  <2>2. \/ /\ files[state.item, state.count, "review-context"] = None
           /\ files' = [files EXCEPT ![<<state.item, state.count, "review-context">>] =
                          mem.manifest]
        \/ files[state.item, state.count, "review-context"] = mem.manifest /\ files' = files
    BY <1>1 DEF FreezeContext, WriteOrAgree, Write, Exists, At
  <2>3. state.node = "REVIEW"
    BY <1>1, <2>1 DEF IInv, StepInv
  <2>4. /\ mem.manifest = Manifest /\ Manifest \in Trees /\ state.count \in Cycles /\ FilesInv
    BY <1>1, <2>1, <2>3, JudgeCycle DEF JudgedNodes
  <2>5. /\ mem.findings = {} /\ Manifest # TreeOf(Base)
        /\ files[state.item, state.count, "mechanical"] = [tree |-> Manifest, findings |-> {}]
    BY <1>1, <2>1 DEF EInv, JudgeMem, MechanicallyPassed, At
  <2>6. /\ mem.manifest \in Evidence("review-context")
        /\ "review-context" \in Kinds /\ "mechanical" \in Kinds
    BY <2>4, Witnesses DEF Kinds
  <2>7. /\ FilesInv' /\ Grown /\ KeepsReviews /\ KeepsWitnesses
        /\ files'[state.item, state.count, "review-context"] = mem.manifest
    BY <1>1, <2>1, <2>2, <2>4, <2>6, WriteStep
  <2>8. files'[state.item, state.count, "mechanical"] = [tree |-> Manifest, findings |-> {}]
    <3>1. files[state.item, state.count, "mechanical"] # None
      BY <2>4, <2>5, Told
    <3>2. QED
      BY <1>1, <2>4, <2>5, <2>6, <2>7, <3>1, Here DEF Grown
  <2>9. MemInv' /\ PassedInv'
    BY <1>1, <2>1, <2>7, PassedStays DEF EInv, PInv, ShapeInv, MemInv, NoMem
  <2>10. mem.findings \subseteq MechanicalFindings
    BY <2>5
  <2>11. JudgeMem'
    BY <2>1, <2>4, <2>5, <2>7, <2>8, <2>10
       DEF JudgeMem, MechanicallyPassed, At, Manifest, TreeOf, Base
  <2>12. QED
    BY <1>1, <2>1, <2>3, <2>7, <2>9, <2>11, JudgeSide
<1>2. ASSUME IInv, EInv, ReviewSemantically PROVE EInv'
  <2>1. PICK verdict \in {"pass", "fail", "blocked"} : mem' = [mem EXCEPT !.semantic = verdict]
    BY <1>2 DEF ReviewSemantically
  <2>2. /\ pc = "semantic" /\ pc' = "judge" /\ state' = state /\ repo' = repo /\ files' = files
    BY <1>2 DEF ReviewSemantically, Inside, outside
  <2>3. state.node = "REVIEW"
    BY <1>2, <2>2 DEF IInv, StepInv
  <2>4. FilesInv' /\ Grown /\ KeepsReviews /\ KeepsWitnesses
    BY <1>2, <2>2, NoWrite DEF EInv, PInv, ShapeInv
  <2>5. /\ MemInv' /\ (mem'.active => mem.active) /\ mem'.findings = mem.findings
        /\ mem'.manifest = mem.manifest /\ mem'.cycle = mem.cycle
    BY <1>2, <2>1 DEF EInv, PInv, ShapeInv, MemInv, NoMem
  <2>6. JudgeMem'
    BY <1>2, <2>2, <2>5 DEF EInv, JudgeMem, MechanicallyPassed, At, Manifest, TreeOf, Base
  <2>7. PassedInv'
    BY <1>2, <2>2, <2>4, PassedStays
  <2>8. QED
    BY <1>2, <2>2, <2>3, <2>4, <2>5, <2>6, <2>7, JudgeSide
<1>3. QED
  BY <1>1, <1>2

(* The review file of the cycle: it passed only if nothing was found mechanically.       *)
LEMMA ReviewEvidence == IInv /\ EInv /\ WriteReview => EInv'
<1> SUFFICES ASSUME IInv, EInv, WriteReview PROVE EInv'
  OBVIOUS
<1> DEFINE r == [tree |-> mem.manifest, mechanical |-> mem.findings, semantic |-> mem.semantic]
<1>1. /\ pc = "judge" /\ pc' = "return" /\ state' = state /\ repo' = repo
      /\ files[state.item, state.count, "review"] = None
      /\ files' = [files EXCEPT ![<<state.item, state.count, "review">>] = r]
  BY DEF WriteReview, Inside, outside, Write, Exists, At
<1>2. mem' = [mem EXCEPT !.reviewed = ReviewPassed(r), !.findings = ReviewFindings(r),
                         !.result = Verdict(r)]
  BY DEF WriteReview, Verdict
<1>3. state.node = "REVIEW"
  BY <1>1 DEF IInv, StepInv
<1>4. /\ mem.manifest = Manifest /\ Manifest \in Trees /\ state.count \in Cycles
      /\ LastCycle = state.count /\ FilesInv
  BY <1>1, <1>3, JudgeCycle DEF JudgedNodes
<1>5. /\ mem.findings \subseteq MechanicalFindings
      /\ mem.semantic \in {"pass", "fail", "blocked", None}
      /\ mem.findings = {} =>
           /\ files[state.item, state.count, "mechanical"] = [tree |-> Manifest, findings |-> {}]
           /\ files[state.item, state.count, "review-context"] = Manifest
           /\ Manifest # TreeOf(Base)
  BY <1>1 DEF EInv, JudgeMem, MechanicallyPassed, At, PInv, ShapeInv, MemInv
<1>6. r \in Reviews /\ r.tree = Manifest /\ r.mechanical = mem.findings
  BY <1>4, <1>5 DEF Reviews
<1>7. ReviewPassed(r) => mem.findings = {}
                         /\ r = [tree |-> Manifest, mechanical |-> {}, semantic |-> "pass"]
  BY <1>4 DEF ReviewPassed
<1> HIDE DEF r
<1>8. r \in Evidence("review") /\ {"review", "mechanical", "review-context"} \subseteq Kinds
  BY <1>6, Witnesses DEF Kinds, Reviews
<1>9. /\ FilesInv' /\ Grown /\ KeepsWitnesses /\ r # None
      /\ files'[state.item, state.count, "review"] = r
  BY <1>1, <1>4, <1>8, WriteStep
<1>10. ReviewPassed(r) =>
         /\ files'[state.item, state.count, "mechanical"] = [tree |-> Manifest, findings |-> {}]
         /\ files'[state.item, state.count, "review-context"] = Manifest
  BY <1>4, <1>5, <1>7, <1>8, <1>9, Told, Here DEF Grown
<1>11. /\ MemInv' /\ (mem'.active => mem.active) /\ mem'.result = Verdict(r)
       /\ mem'.manifest = mem.manifest /\ mem'.cycle = mem.cycle
  BY <1>2, <1>6, ReviewMem
<1>12. /\ Verdict(r) = "pass" => ReviewPassed(r)
       /\ Verdict(r) \notin {"pass", "stop"} => ~ReviewPassed(r)
  BY <1>6, VerdictOf
<1>13. JudgeMem'
  <2>1. mem'.result = "pass" => Reviewed(state.count, Manifest)'
    BY <1>1, <1>7, <1>9, <1>10, <1>11, <1>12 DEF Reviewed, MechanicallyPassed, At, Manifest
  <2>2. mem'.result \notin {"pass", "stop"} =>
          At(state.count, "review")' # None /\ ~ReviewPassed(At(state.count, "review"))'
    BY <1>1, <1>9, <1>11, <1>12 DEF At, ReviewPassed
  <2>3. QED
    BY <1>1, <1>3, <2>1, <2>2 DEF JudgeMem
<1>14. PassedInv'
  <2> SUFFICES ASSUME NEW c \in Cycles, files'[state.item, c, "review"] # None,
                      ReviewPassed(files'[state.item, c, "review"])
               PROVE  /\ c = LastCycle /\ files'[state.item, c, "review"].tree = Manifest
                      /\ Len(state.completed) < state.item => Manifest # TreeOf(Base)
    BY <1>1, <1>3 DEF PassedInv, Exists, At, LastCycle, Manifest, Base, ReviewPassed, TreeOf
  <2>1. CASE c = state.count
    BY <2>1, <1>4, <1>5, <1>6, <1>7, <1>9
  <2>2. CASE c # state.count
    <3>1. files'[state.item, c, "review"] = files[state.item, c, "review"]
      BY <2>2, <1>1, <1>4, <1>8, Here DEF FilesInv
    <3>2. files[state.item, c, "review"] # None /\ ReviewPassed(files[state.item, c, "review"])
      BY <3>1 DEF ReviewPassed
    <3>3. PassedInv
      BY DEF EInv
    <3>4. /\ c = LastCycle /\ files[state.item, c, "review"].tree = Manifest
          /\ Len(state.completed) < state.item => Manifest # TreeOf(Base)
      BY <3>2, <3>3 DEF PassedInv, Exists, At
    <3>5. QED
      BY <3>1, <3>4
  <2>3. QED
    BY <2>1, <2>2
<1>15. QED
  BY <1>1, <1>3, <1>9, <1>11, <1>13, <1>14, JudgeSide

-----------------------------------------------------------------------------
(* Closing an item: its witness tells of the commit, and is verified before it counts.   *)
LEMMA CheckEvidence == IInv /\ EInv /\ CheckCommit => EInv'
<1> SUFFICES ASSUME IInv, EInv, CheckCommit PROVE EInv'
  OBVIOUS
<1>1. /\ pc = "CLOSE_TASK" /\ pc' = "git-commit" /\ state' = state /\ repo' = repo
      /\ files' = files /\ mem' = [mem EXCEPT !.base = repo.head] /\ repo.head = Base
  BY DEF CheckCommit, Inside, outside, ManifestHolds
<1>2. state.node = "CLOSE_TASK"
  BY <1>1 DEF IInv, StepInv, Nodes
<1>3. FilesInv' /\ Grown /\ KeepsReviews /\ KeepsWitnesses /\ RepoInv'
  BY <1>1, NoWrite DEF EInv, PInv, ShapeInv, RepoInv
<1>4. /\ MemInv' /\ (mem'.active => mem.active) /\ mem'.base = Base
      /\ mem'.manifest = mem.manifest /\ mem'.cycle = mem.cycle
  BY <1>1 DEF EInv, PInv, ShapeInv, MemInv, NoMem
<1>5. CloseMem'
  BY <1>1, <1>4 DEF CloseMem, Base
<1>6. WitnessInv'
  BY <1>1, <1>3, WitnessStays
<1>7. QED
  BY <1>1, <1>2, <1>3, <1>4, <1>5, <1>6, CloseSide

(* The commit keeps the evidence (WriteExecution.commit, git commit).                    *)
LEMMA CommitEvidence == IInv /\ EInv /\ GitCommit => EInv'
<1> SUFFICES ASSUME IInv, EInv, GitCommit PROVE EInv'
  OBVIOUS
<1>1. PICK raised \in BOOLEAN, sha \in {repo'.head, None} :
        /\ ~raised => sha = repo'.head
        /\ mem' = [mem EXCEPT !.sha = sha]
        /\ Inside("git-commit", IF raised THEN "uncertain" ELSE "witness")
  BY DEF GitCommit
<1>2. /\ pc = "git-commit" /\ pc' \in {"uncertain", "witness"} /\ state' = state
      /\ files' = files /\ repo' = [repo EXCEPT !.head = Append(@, repo.tree)]
      /\ pc' = "witness" => sha = repo'.head
  BY <1>1 DEF GitCommit, Inside, CommitTree
<1>3. state.node = "CLOSE_TASK"
  BY <1>2 DEF IInv, StepInv
<1>4. RepoInv' /\ repo'.head \in Commits
  <2>1. /\ repo.head \in Seq(Trees) /\ repo.tree \in Trees
        /\ DOMAIN repo = {"exists", "head", "tree"}
    BY DEF EInv, PInv, ShapeInv, RepoInv, Commits
  <2>2. Append(repo.head, repo.tree) \in Seq(Trees)
    BY <2>1
  <2>3. QED
    BY <1>2, <2>1, <2>2 DEF RepoInv, Commits
<1>5. FilesInv' /\ Grown /\ KeepsReviews /\ KeepsWitnesses
  BY <1>2, NoWrite DEF EInv, PInv, ShapeInv
<1>6. /\ MemInv' /\ (mem'.active => mem.active) /\ mem'.base = mem.base /\ mem'.sha = sha
      /\ mem'.manifest = mem.manifest /\ mem'.cycle = mem.cycle
  BY <1>1, <1>4 DEF EInv, PInv, ShapeInv, MemInv, NoMem
<1>7. CloseMem'
  BY <1>2, <1>4, <1>6 DEF EInv, CloseMem, Base
<1>8. WitnessInv'
  BY <1>2, <1>5, WitnessStays
<1>9. QED
  BY <1>2, <1>3, <1>4, <1>5, <1>6, <1>7, <1>8, CloseSide

(* A commit whose answer is lost keeps the evidence (WriteExecution.commit).             *)
LEMMA CommitFailsEvidence == IInv /\ EInv /\ GitCommitFails => EInv'
<1> SUFFICES ASSUME IInv, EInv, GitCommitFails PROVE EInv'
  OBVIOUS
<1>1. ASSUME Stops("git-commit") PROVE EInv'
  <2>1. pc = "git-commit" /\ state' = state /\ files' = files
    BY <1>1 DEF Stops, Returns, Inside
  <2>2. KeepsWitnesses
    BY <2>1 DEF KeepsWitnesses
  <2>3. WitnessInv'
    BY <2>1, <2>2, WitnessStays
  <2>4. QED
    BY <1>1, <2>1, <2>3, StopSide DEF Steps
<1>2. ASSUME ~Stops("git-commit") PROVE EInv'
  <2>1. PICK sha \in {repo.head, None} : mem' = [mem EXCEPT !.sha = sha]
    BY <1>2 DEF GitCommitFails
  <2>2. /\ pc = "git-commit" /\ pc' = "uncertain" /\ state' = state /\ repo' = repo
        /\ files' = files
    BY <1>2 DEF GitCommitFails, Inside, outside
  <2>3. state.node = "CLOSE_TASK"
    BY <2>2 DEF IInv, StepInv
  <2>4. FilesInv' /\ Grown /\ KeepsReviews /\ KeepsWitnesses /\ RepoInv'
    BY <2>2, NoWrite DEF EInv, PInv, ShapeInv, RepoInv
  <2>5. /\ MemInv' /\ (mem'.active => mem.active) /\ mem'.base = mem.base
        /\ mem'.manifest = mem.manifest /\ mem'.cycle = mem.cycle
    BY <2>1 DEF EInv, PInv, ShapeInv, MemInv, NoMem, RepoInv
  <2>6. CloseMem'
    BY <2>2, <2>5 DEF EInv, CloseMem, Base
  <2>7. WitnessInv'
    BY <2>2, <2>4, WitnessStays
  <2>8. QED
    BY <2>2, <2>3, <2>4, <2>5, <2>6, <2>7, CloseSide
<1>3. QED
  BY <1>1, <1>2

(* The witness names the base, the tree and the commit (_write_commit_witness).          *)
LEMMA WitnessEvidence == IInv /\ EInv /\ WriteWitness => EInv'
<1> SUFFICES ASSUME IInv, EInv, WriteWitness PROVE EInv'
  OBVIOUS
<1> DEFINE w == [base |-> mem.base, sha |-> mem.sha, tree |-> mem.manifest, cycle |-> mem.cycle]
<1>1. /\ pc \in {"witness", "uncertain"} /\ state' = state /\ started' = started /\ repo' = repo
      /\ files[state.item, 0, "witness"] = None
      /\ files' = [files EXCEPT ![<<state.item, 0, "witness">>] = w]
  BY DEF WriteWitness, outside, Write, Exists, At
<1>2. /\ pc = "witness" => pc' = "verify" /\ mem' = mem
      /\ pc = "uncertain" => pc' = "down" /\ mem' = NoMem
  BY DEF WriteWitness, Leave
<1>3. state.node = "CLOSE_TASK" /\ started
  BY <1>1 DEF IInv, StepInv
<1>4. /\ mem.manifest = Manifest /\ Manifest \in Trees /\ state.count \in Cycles
      /\ mem.cycle = state.count /\ Base \in Commits /\ 0 \in Cycles /\ FilesInv
  BY <1>1, <1>3, JudgeCycle DEF JudgedNodes
<1>5. mem.base = Base /\ mem.sha \in Commits \cup {None}
  BY <1>1 DEF EInv, CloseMem, PInv, ShapeInv, MemInv
<1>6. w = [base |-> Base, sha |-> mem.sha, tree |-> Manifest, cycle |-> state.count]
  BY <1>4, <1>5
<1>7. w \in Evidence("witness") /\ "witness" \in Kinds
  BY <1>4, <1>5, Witnesses DEF Kinds
<1> HIDE DEF w
<1>8. FilesInv' /\ Grown /\ KeepsReviews /\ files'[state.item, 0, "witness"] = w
  BY <1>1, <1>4, <1>7, WriteStep
<1>9. WitnessInv'
  BY <1>1, <1>2, <1>3 DEF WitnessInv
<1>10. CASE pc = "witness"
  <2>1. MemInv' /\ RepoInv'
    BY <1>1, <1>2, <1>10 DEF EInv, PInv, ShapeInv, MemInv, NoMem, RepoInv
  <2>2. CloseMem'
    BY <1>1, <1>2, <1>3, <1>6, <1>8, <1>10 DEF EInv, CloseMem, Base, At, Manifest
  <2>3. QED
    BY <1>1, <1>2, <1>3, <1>8, <1>9, <1>10, <2>1, <2>2, CloseSide
<1>11. CASE pc = "uncertain"
  BY <1>1, <1>2, <1>8, <1>9, <1>11, DownSide
<1>12. QED
  BY <1>1, <1>10, <1>11

(* A verified commit is the child of the base with the manifest as tree.                 *)
LEMMA VerifyEvidence == IInv /\ EInv /\ VerifyCommit => EInv'
<1> SUFFICES ASSUME IInv, EInv, VerifyCommit PROVE EInv'
  OBVIOUS
<1>1. /\ pc = "verify" /\ pc' = "return" /\ state' = state /\ started' = started /\ repo' = repo
      /\ mem' = [mem EXCEPT !.result = "done"]
      /\ mem.sha # <<>> /\ Parent(mem.sha) = Base /\ TreeOf(mem.sha) = mem.manifest
  BY DEF VerifyCommit, Returns, Inside, outside, Write, Exists, At, Committed
<1>2. state.node = "CLOSE_TASK" /\ started
  BY <1>1 DEF IInv, StepInv
<1>3. /\ mem.manifest = Manifest /\ Manifest \in Trees /\ state.count \in Cycles
      /\ mem.cycle = state.count /\ Base \in Commits /\ 0 \in Cycles /\ FilesInv
  BY <1>1, <1>2, JudgeCycle DEF JudgedNodes
<1>4. /\ mem.sha \in Commits
      /\ files[state.item, 0, "witness"] =
           [base |-> Base, sha |-> mem.sha, tree |-> Manifest, cycle |-> state.count]
  BY <1>1 DEF EInv, CloseMem, At
<1>5. mem.sha \in Evidence("commit") /\ "witness" \in Kinds /\ "commit" \in Kinds
  BY <1>4, Witnesses DEF Kinds
<1>0. /\ state' = state /\ files[state.item, 0, "commit"] = None
      /\ files' = [files EXCEPT ![<<state.item, 0, "commit">>] = mem.sha]
  BY DEF VerifyCommit, Returns, Inside, Write, Exists, At
<1>6. /\ FilesInv' /\ Grown /\ KeepsReviews /\ KeepsWitnesses
      /\ files'[state.item, 0, "commit"] = mem.sha
  <2>1. "commit" # "review" /\ "commit" # "witness"
    OBVIOUS
  <2>2. /\ FilesInv /\ 0 \in Cycles /\ state' = state
        /\ \/ /\ files[state.item, 0, "commit"] = None
              /\ files' = [files EXCEPT ![<<state.item, 0, "commit">>] = mem.sha]
           \/ files[state.item, 0, "commit"] = mem.sha /\ files' = files
    BY <1>0, <1>3
  <2>3. mem.sha \in Evidence("commit") /\ "commit" \in Kinds
    BY <1>5
  <2>4. QED
    BY <2>1, <2>2, <2>3, WriteStep
<1>7. files'[state.item, 0, "witness"] = files[state.item, 0, "witness"]
  BY <1>6, Here DEF KeepsWitnesses
<1>8. /\ MemInv' /\ RepoInv' /\ (mem'.active => mem.active) /\ mem'.sha = mem.sha
      /\ mem'.manifest = mem.manifest /\ mem'.cycle = mem.cycle /\ mem'.result = "done"
  BY <1>1 DEF EInv, PInv, ShapeInv, MemInv, NoMem, RepoInv
<1>9. CloseMem'
  BY <1>1, <1>3, <1>4, <1>6, <1>7, <1>8 DEF CloseMem, At, Base, Manifest, Parent, TreeOf
<1>10. WitnessInv'
  BY <1>1, <1>2, <1>8 DEF WitnessInv
<1>11. QED
  BY <1>1, <1>2, <1>6, <1>8, <1>9, <1>10, CloseSide

(* Every step of CLOSE_TASK keeps the evidence (WriteExecution.commit).                  *)
LEMMA CloseEvidence == IInv /\ EInv /\ Close => EInv'
<1>1. ASSUME IInv, EInv, PostCommitRecoveryRequired PROVE EInv'
  <2>1. /\ pc \in {"witness", "uncertain", "verify"} /\ pc' = "down" /\ mem' = NoMem
        /\ state' = state /\ started' = started /\ files' = files /\ repo' = repo
    BY <1>1 DEF PostCommitRecoveryRequired, Leave, outside
  <2>2. FilesInv' /\ Grown /\ KeepsReviews /\ KeepsWitnesses
    BY <1>1, <2>1, NoWrite DEF EInv, PInv, ShapeInv
  <2>3. WitnessInv'
    BY <1>1, <2>1, <2>2, WitnessStays
  <2>4. QED
    BY <1>1, <2>1, <2>2, <2>3, DownSide
<1>2. QED
  BY <1>1, CheckEvidence, CommitEvidence, CommitFailsEvidence, WitnessEvidence, VerifyEvidence
     DEF Close

(* Whatever fails, or whoever interferes, the evidence stands.                           *)
LEMMA FailEvidence == IInv /\ EInv /\ Fail => EInv'
<1> SUFFICES ASSUME IInv, EInv, NEW step \in Failing, Stops(step) PROVE EInv'
  BY DEF Fail
<1>1. pc = step /\ state' = state /\ files' = files
  BY DEF Stops, Returns, Inside
<1>2. step \in Steps /\ step \notin {"idle", "down", "return", "verify"}
  BY DEF Steps, Failing
<1>3. KeepsWitnesses
  BY <1>1 DEF KeepsWitnesses
<1>4. WitnessInv'
  BY <1>1, <1>2, <1>3, WitnessStays
<1>5. QED
  BY <1>1, <1>2, <1>4, StopSide

(* A crash loses what the process knew and nothing that is in the files.                 *)
LEMMA CrashEvidence == IInv /\ EInv /\ Crash => EInv'
<1> SUFFICES ASSUME IInv, EInv, Crash PROVE EInv'
  OBVIOUS
<1>1. /\ pc' = "down" /\ mem' = NoMem /\ state' = state /\ started' = started
      /\ files' = files /\ repo' = repo
  BY DEF Crash, Leave, outside
<1>2. FilesInv' /\ Grown /\ KeepsReviews /\ KeepsWitnesses
  BY <1>1, NoWrite DEF EInv, PInv, ShapeInv
<1>3. WitnessInv'
  BY <1>1, <1>2, WitnessStays
<1>4. QED
  BY <1>1, <1>2, <1>3, DownSide

(* Nothing the evidence is about changes.                                                *)
LEMMA StillEvidence ==
    ASSUME IInv, EInv, state' = state, files' = files, mem' = mem, RepoInv',
           \/ started' = started /\ pc' = pc
           \/ pc = "idle" /\ pc' \in Nodes
    PROVE  EInv'
<1>1. FilesInv' /\ Grown /\ KeepsReviews /\ KeepsWitnesses /\ MemInv'
  BY NoWrite DEF EInv, PInv, ShapeInv, MemInv, NoMem
<1>2. PInv' /\ PassedInv' /\ ActiveInv' /\ WitnessInv'
  BY <1>1, Stays, PassedStays, ActiveStays, WitnessStays
<1>3. KnownInv'
  BY DEF EInv, KnownInv, Manifest
<1>4. AuthorMem' /\ JudgeMem' /\ CloseMem'
  <2>1. CASE pc' = pc
    <3>1. AuthorMem'
      BY <2>1 DEF EInv, AuthorMem, Authored, At, Cycle
    <3>2. JudgeMem'
      BY <2>1 DEF EInv, JudgeMem, Validated, Reviewed, MechanicallyPassed, Contextual,
                  ReviewPassed, At, Manifest, Base, TreeOf
    <3>3. CloseMem'
      BY <2>1 DEF EInv, CloseMem, At, Manifest, Base, Parent, TreeOf
    <3>4. QED
      BY <3>1, <3>2, <3>3
  <2>2. CASE pc' \in Nodes
    BY <2>2 DEF AuthorMem, JudgeMem, CloseMem, Nodes
  <2>3. QED
    BY <2>1, <2>2
<1>5. QED
  BY <1>2, <1>3, <1>4 DEF EInv

(* Entering a node keeps the evidence (RuntimeSession.step).                             *)
LEMMA EnterEvidence == IInv /\ EInv /\ Enter => EInv'
<1> SUFFICES ASSUME IInv, EInv, Enter PROVE EInv'
  OBVIOUS
<1>1. /\ pc = "idle" /\ pc' \in Nodes /\ state' = state /\ files' = files /\ mem' = mem
      /\ repo' = repo
  BY DEF Enter, StartNode, outside
<1>2. RepoInv'
  BY <1>1 DEF EInv, PInv, ShapeInv, RepoInv
<1>3. QED
  BY <1>1, <1>2, StillEvidence

(* What others do to the repository, and a refusal, leave the evidence alone.            *)
LEMMA DriftEvidence == IInv /\ EInv /\ (Drift \/ Refuse \/ UNCHANGED vars) => EInv'
<1> SUFFICES ASSUME IInv, EInv, Drift \/ Refuse \/ UNCHANGED vars PROVE EInv'
  OBVIOUS
<1>1. /\ state' = state /\ files' = files /\ mem' = mem /\ started' = started /\ pc' = pc
  BY DEF Drift, Refuse, vars
<1>2. RepoInv'
  <2>1. /\ repo.head \in Seq(Trees) /\ repo.tree \in Trees
        /\ DOMAIN repo = {"exists", "head", "tree"}
    BY DEF EInv, PInv, ShapeInv, RepoInv, Commits
  <2>2. Append(repo.head, repo.tree) \in Seq(Trees)
    BY <2>1
  <2>3. repo.head # <<>> => SubSeq(repo.head, 1, Len(repo.head) - 1) \in Seq(Trees)
    BY <2>1
  <2>4. CASE Drift
    <3>1. CASE EditWorkspace
      BY <3>1, <2>1 DEF EditWorkspace, RepoInv, Commits
    <3>2. CASE MoveBranch
      BY <3>2, <2>1, <2>2, <2>3 DEF MoveBranch, CommitTree, Parent, RepoInv, Commits
    <3>3. CASE MoveTarget
      BY <3>3, <2>1 DEF MoveTarget, RepoInv, Commits
    <3>4. QED
      BY <2>4, <3>1, <3>2, <3>3 DEF Drift
  <2>5. CASE Refuse \/ UNCHANGED vars
    BY <2>5, <2>1 DEF Refuse, vars, outside, RepoInv, Commits
  <2>6. QED
    BY <2>4, <2>5
<1>3. QED
  BY <1>1, <1>2, StillEvidence

-----------------------------------------------------------------------------
(* A resumed process knows what the files of the item tell it.                           *)
LEMMA RehydratedMem ==
    ASSUME IInv, EInv
    PROVE  /\ DOMAIN Rehydrated = DOMAIN NoMem
           /\ Rehydrated.findings \subseteq Findings
           /\ Rehydrated.semantic = None /\ Rehydrated.sha = None
           /\ state.node \in JudgedNodes =>
                Rehydrated.manifest = Manifest /\ Rehydrated.cycle = state.count
<1> DEFINE r == At(LastCycle, "review")
           judged == JudgementIsCurrent /\ Exists(LastCycle, "review")
<1>1. CASE state.manifests = <<>>
  <2>1. state.node \notin JudgedNodes
    BY <1>1, Named DEF EInv
  <2>2. Rehydrated = [NoMem EXCEPT !.active = TRUE]
    BY <1>1 DEF Rehydrated
  <2>3. QED
    BY <2>1, <2>2 DEF NoMem
<1>2. CASE state.manifests # <<>>
  <2>1. LastCycle \in Cycles
    <3>1. /\ Len(state.manifests) \in Nat /\ LastCycle \in -1 .. MaxRepair
          /\ LastCycle = Len(state.manifests) - 1
      BY Named DEF EInv, LastCycle
    <3>2. Len(state.manifests) > 0
      BY <1>2 DEF EInv, PInv, ShapeInv, StateInv
    <3>3. QED
      BY <3>1, <3>2 DEF Cycles
  <2>2. Exists(LastCycle, "review") => ReviewFindings(r) \subseteq Findings
    <3>1. r \in Evidence("review") \cup {None}
      BY <2>1, Here DEF EInv, PInv, ShapeInv, FilesInv, At
    <3>2. r # None => r \in Reviews
      BY <3>1, Witnesses DEF Reviews
    <3>3. QED
      BY <3>2, FindingsOf DEF Exists
  <2>3. state.node \in JudgedNodes => LastCycle = state.count
    BY Named DEF EInv
  <2>4. PICK validated, reviewed, findings :
          /\ Rehydrated = [NoMem EXCEPT !.active = TRUE, !.manifest = Manifest,
                             !.cycle = LastCycle, !.validated = validated,
                             !.reviewed = reviewed, !.findings = findings]
          /\ findings = IF judged THEN ReviewFindings(r) ELSE {}
    BY <1>2, Zenon DEF Rehydrated
  <2>5. findings \subseteq Findings
    BY <2>2, <2>4
  <2> HIDE DEF r, judged
  <2>6. QED
    BY <2>3, <2>4, <2>5 DEF NoMem
<1>3. QED
  BY <1>1, <1>2

(* A resumed process knows again what is in the files (WriteExecution.rehydrate).        *)
LEMMA ResumeEvidence == IInv /\ EInv /\ Resume => EInv'
<1> SUFFICES ASSUME IInv, EInv, Resume PROVE EInv'
  OBVIOUS
<1>1. /\ pc = "down" /\ pc' = "idle" /\ started' = FALSE /\ state' = state /\ repo' = repo
      /\ ~Interrupted
  BY DEF Resume, outside, MayResume
<1>2. \/ state.node = "FINALIZE" /\ mem' = NoMem /\ files' = files
      \/ /\ mem' = Rehydrated
         /\ \/ /\ files[state.item, 0, "inputs"] = None
               /\ files' = [files EXCEPT ![<<state.item, 0, "inputs">>] = Base]
            \/ files[state.item, 0, "inputs"] = Base /\ files' = files
  BY DEF Resume, WriteOrAgree, Write, Exists, At
<1>3. Base \in Evidence("inputs") /\ 0 \in Cycles /\ "inputs" \in Kinds /\ FilesInv
  BY Named, Witnesses DEF EInv, PInv, ShapeInv, Kinds
<1>4. /\ FilesInv' /\ Grown /\ KeepsReviews /\ KeepsWitnesses
      /\ state.node # "FINALIZE" => files'[state.item, 0, "inputs"] = Base
  <2>1. CASE state.node = "FINALIZE" /\ files' = files
    BY <1>1, <1>3, <2>1, NoWrite
  <2>2. CASE ~(state.node = "FINALIZE" /\ files' = files)
    BY <1>1, <1>2, <1>3, <2>2, WriteStep
  <2>3. QED
    BY <2>1, <2>2
<1>5. RepoInv'
  BY <1>1 DEF EInv, PInv, ShapeInv, RepoInv
<1>6. /\ MemInv'
      /\ state.node \in JudgedNodes => mem'.manifest = Manifest /\ mem'.cycle = state.count
  <2>1. CASE state.node = "FINALIZE" /\ mem' = NoMem
    BY <2>1 DEF MemInv, NoMem, JudgedNodes
  <2>2. CASE mem' = Rehydrated
    BY <2>2, RehydratedMem DEF MemInv
  <2>3. QED
    BY <1>2, <2>1, <2>2
<1>7. PInv' /\ PassedInv'
  BY <1>1, <1>4, <1>5, <1>6, Stays, PassedStays
<1>8. ActiveInv' /\ KnownInv'
  BY <1>1, <1>4, <1>6 DEF ActiveInv, KnownInv, At, Base, Manifest
<1>9. WitnessInv'
  <2>1. files'[state'.item, 0, "witness"] = files[state.item, 0, "witness"]
    BY <1>1, <1>4, Here DEF KeepsWitnesses
  <2>2. ~(state.node = "CLOSE_TASK" /\ started)
    BY <1>1 DEF Interrupted, SideEffectNodes
  <2>3. QED
    BY <1>1, <2>1, <2>2 DEF EInv, WitnessInv, Exists, At
<1>10. AuthorMem' /\ JudgeMem' /\ CloseMem'
  BY <1>1 DEF AuthorMem, JudgeMem, CloseMem
<1>11. QED
  BY <1>7, <1>8, <1>9, <1>10 DEF EInv

-----------------------------------------------------------------------------
(* What is recorded, and what a process knows when it has been.                          *)
LEMMA RecordFrame ==
    ASSUME IInv, EInv, Record
    PROVE  /\ pc = "return" /\ state' = Advanced /\ started' = FALSE /\ pc' = "idle"
           /\ files' = files /\ state.node # "FINALIZE"
           /\ RepoInv' /\ MemInv'
           /\ mem' = (IF state'.item = state.item THEN [mem EXCEPT !.result = None] ELSE NoMem)
           /\ state'.item = state.item =>
                /\ mem'.active => mem.active
                /\ mem'.manifest = mem.manifest /\ mem'.cycle = mem.cycle
           /\ state'.item # state.item => ~mem'.active
           /\ AuthorMem' /\ JudgeMem' /\ CloseMem'
<1>1. /\ pc = "return" /\ state' = Advanced /\ started' = FALSE /\ pc' = "idle"
      /\ files' = files /\ repo' = repo
      /\ mem' = (IF state'.item = state.item THEN [mem EXCEPT !.result = None] ELSE NoMem)
  BY DEF Record, outside
<1>2. state.node # "FINALIZE"
  BY <1>1 DEF IInv, StepInv
<1>3. RepoInv'
  BY <1>1 DEF EInv, PInv, ShapeInv, RepoInv
<1>4. CASE state'.item = state.item
  <2>1. mem' = [mem EXCEPT !.result = None]
    BY <1>1, <1>4
  <2>2. /\ MemInv' /\ (mem'.active => mem.active)
        /\ mem'.manifest = mem.manifest /\ mem'.cycle = mem.cycle
    BY <2>1 DEF EInv, PInv, ShapeInv, MemInv, NoMem
  <2>3. AuthorMem' /\ JudgeMem' /\ CloseMem'
    BY <1>1 DEF AuthorMem, JudgeMem, CloseMem
  <2>4. QED
    BY <1>1, <1>2, <1>3, <1>4, <2>2, <2>3
<1>5. CASE state'.item # state.item
  <2>1. mem' = NoMem
    BY <1>1, <1>5
  <2>2. MemInv' /\ ~mem'.active
    BY <2>1 DEF MemInv, NoMem
  <2>3. AuthorMem' /\ JudgeMem' /\ CloseMem'
    BY <1>1 DEF AuthorMem, JudgeMem, CloseMem
  <2>4. QED
    BY <1>1, <1>2, <1>3, <1>5, <2>2, <2>3
<1>6. QED
  BY <1>4, <1>5

(* A transition that stays with the item and names no further manifest.                  *)
LEMMA MovesOn ==
    ASSUME IInv, EInv, Record,
           {"manifests", "findings", "completed"} \subseteq DOMAIN state',
           state'.item = state.item, state'.manifests = state.manifests,
           state'.completed = state.completed, state'.findings \subseteq Findings,
           state.node # "CLOSE_TASK" \/ mem.result = "stop",
           state'.node \notin {"EXPLORE", "VALIDATE"},
           state'.node = "IMPLEMENT" => state.node = "EXPLORE",
           state'.node = "REPAIR" => state.node = "CLASSIFY_FAILURE"
                                     /\ state'.count = state.count + 1,
           state'.node \in JudgedNodes => state.node \in JudgedNodes,
           state'.node # "REPAIR" => state'.count = state.count,
           VerdictInv',
           \/ state'.node \in {"REVIEW", "CLOSE_TASK", "FINALIZE"}
           \/ \A c \in Cycles : ~(Exists(c, "review") /\ ReviewPassed(At(c, "review")))
    PROVE  EInv'
<1>1. /\ pc = "return" /\ started' = FALSE /\ pc' = "idle" /\ files' = files
      /\ RepoInv' /\ MemInv' /\ AuthorMem' /\ JudgeMem' /\ CloseMem'
      /\ mem'.active => mem.active
      /\ mem'.manifest = mem.manifest /\ mem'.cycle = mem.cycle /\ state.node # "FINALIZE"
  BY RecordFrame
<1>2. StateInv'
  BY DEF EInv, PInv, ShapeInv, StateInv
<1>3. FilesInv'
  BY <1>1 DEF EInv, PInv, ShapeInv, FilesInv
<1>4. LastCycle' = LastCycle /\ Manifest' = Manifest /\ Base' = Base
  BY DEF LastCycle, Manifest, Base
<1>5. LineageInv'
  <2>1. /\ state.count \in Nat /\ Len(state.manifests) \in Nat
        /\ state.node \in {"EXPLORE", "IMPLEMENT"} => state.manifests = <<>>
        /\ state.node \in JudgedNodes => Len(state.manifests) = state.count + 1
        /\ Len(state.manifests) <= state.count + 1
    BY Named DEF EInv, PInv, LineageInv, Cycles
  <2>2. /\ state'.node \in {"EXPLORE", "IMPLEMENT"} => state'.manifests = <<>>
        /\ state'.node \in JudgedNodes => Len(state'.manifests) = state'.count + 1
        /\ state'.node = "REPAIR" => Len(state'.manifests) = state'.count /\ state'.count > 0
        /\ Len(state'.manifests) <= state'.count + 1
    BY <2>1 DEF JudgedNodes
  <2>3. \A c \in 0 .. LastCycle :
          /\ files[state.item, c, "proposal"] \in Trees
          /\ files[state.item, c, "applied"] = files[state.item, c, "proposal"]
          /\ files[state.item, c, "manifest"] = state.manifests[c + 1]
    BY DEF EInv, PInv, LineageInv, Authored, At
  <2>4. LastCycle' = LastCycle /\ files' = files /\ state'.item = state.item
          /\ state'.manifests = state.manifests
    BY <1>1, <1>4
  <2>5. \A c \in 0 .. LastCycle' : (Authored(c) /\ At(c, "manifest") = state.manifests[c + 1])'
    BY <2>3, <2>4 DEF Authored, At
  <2>6. QED
    BY <2>2, <2>5 DEF LineageInv
<1>6. CompletedInv'
  <2>1. Len(state.completed) = state.item - 1
    BY <1>1 DEF EInv, PInv, CompletedInv
  <2>2. Grown
    BY <1>1 DEF Grown
  <2>3. QED
    BY <2>1, <2>2, KeepsProofs DEF EInv, CompletedInv
<1>7. WitnessInv'
  BY <1>1 DEF EInv, WitnessInv, Exists, At
<1>8. ActiveInv'
  BY <1>1, <1>4 DEF EInv, ActiveInv, At
<1>9. KnownInv'
  <2>1. state'.node \in JudgedNodes => state'.count = state.count
    BY DEF JudgedNodes
  <2>2. QED
    BY <1>1, <1>4, <2>1 DEF EInv, KnownInv
<1>10. PassedInv'
  <2>1. PassedInv
    BY DEF EInv
  <2>2. QED
    BY <1>1, <1>4, <2>1 DEF PassedInv, Exists, At, ReviewPassed, TreeOf
<1>11. QED
  BY <1>1, <1>2, <1>3, <1>5, <1>6, <1>7, <1>8, <1>9, <1>10 DEF EInv, PInv, ShapeInv

(* Away from REVIEW and what follows it no review of the item has passed.                *)
LEMMA NoPassedReview ==
    ASSUME EInv, state.node \notin {"REVIEW", "CLOSE_TASK", "FINALIZE"}
    PROVE  \A c \in Cycles : ~(Exists(c, "review") /\ ReviewPassed(At(c, "review")))
BY DEF EInv, PassedInv

(* The record of a node, by the node and its result.                                     *)
LEMMA RecordStop ==
    ASSUME IInv, EInv, Record, mem.result = "stop"
    PROVE  EInv'
<1>1. state' = [state EXCEPT !.node = "FINALIZE", !.prev = state.node]
  BY RecordFrame DEF Advanced, Moved
<1>2. /\ {"manifests", "findings", "completed", "node", "count", "item"} \subseteq DOMAIN state
      /\ state.findings \subseteq Findings
  BY DEF EInv, PInv, ShapeInv, StateInv, IInv, StepInv
<1>3. VerdictInv'
  BY <1>1, <1>2 DEF VerdictInv
<1>4. QED
  BY <1>1, <1>2, <1>3, MovesOn DEF JudgedNodes

(* The recorded result of EXPLORE keeps the evidence.                                    *)
LEMMA RecordExplore ==
    ASSUME IInv, EInv, Record, mem.result # "stop", state.node = "EXPLORE"
    PROVE  EInv'
<1>1. state' = [state EXCEPT !.node = "IMPLEMENT", !.prev = state.node]
  BY RecordFrame DEF Advanced, Moved
<1>2. /\ {"manifests", "findings", "completed", "node", "count", "item"} \subseteq DOMAIN state
      /\ state.findings \subseteq Findings
  BY DEF EInv, PInv, ShapeInv, StateInv, IInv, StepInv
<1>3. /\ state'.node = "IMPLEMENT" /\ state'.item = state.item /\ state'.count = state.count
      /\ state'.manifests = state.manifests /\ state'.completed = state.completed
      /\ state'.findings = state.findings
      /\ {"manifests", "findings", "completed"} \subseteq DOMAIN state'
  BY <1>1, <1>2
<1>4. files[state.item, 0, "inputs"] = Base
  BY RecordFrame DEF EInv, AuthorMem, ActiveInv, At
<1>5. VerdictInv'
  BY <1>3, <1>4, RecordFrame DEF VerdictInv, At, Base
<1>6. QED
  BY <1>2, <1>3, <1>5, MovesOn, NoPassedReview DEF JudgedNodes

(* The recorded result of VALIDATE keeps the evidence.                                   *)
LEMMA RecordValidate ==
    ASSUME IInv, EInv, Record, mem.result # "stop", state.node = "VALIDATE"
    PROVE  EInv'
<1>1. \/ /\ mem.result = "pass"
         /\ state' = [[state EXCEPT !.node = "REVIEW", !.prev = state.node]
                        EXCEPT !.validation = "PASS"]
      \/ state' = [[state EXCEPT !.node = "CLASSIFY_FAILURE", !.prev = state.node]
                     EXCEPT !.validation = "FAIL"]
  BY RecordFrame DEF Advanced, Moved
<1>2. /\ {"manifests", "findings", "completed", "node", "count", "item"} \subseteq DOMAIN state
      /\ state.findings \subseteq Findings
  BY DEF EInv, PInv, ShapeInv, StateInv, IInv, StepInv
<1>3. /\ (state'.node = "REVIEW" /\ mem.result = "pass") \/ state'.node = "CLASSIFY_FAILURE"
      /\ state'.item = state.item /\ state'.count = state.count
      /\ state'.manifests = state.manifests /\ state'.completed = state.completed
      /\ state'.findings = state.findings
      /\ {"manifests", "findings", "completed"} \subseteq DOMAIN state'
  BY <1>1, <1>2
<1>4. /\ files[state.item, 0, "inputs"] = Base
      /\ mem.result = "pass" =>
           files[state.item, state.count, "validation"] = [tree |-> Manifest, passed |-> TRUE]
  BY RecordFrame DEF EInv, PInv, VerdictInv, JudgeMem, Validated, At
<1>5. VerdictInv'
  BY <1>3, <1>4, RecordFrame DEF VerdictInv, Validated, At, Base, Manifest
<1>6. QED
  BY <1>2, <1>3, <1>5, MovesOn, NoPassedReview DEF JudgedNodes

(* The recorded result of REVIEW keeps the evidence.                                     *)
LEMMA RecordReview ==
    ASSUME IInv, EInv, Record, mem.result # "stop", state.node = "REVIEW"
    PROVE  EInv'
<1>1. \/ /\ mem.result = "pass"
         /\ state' = [[state EXCEPT !.node = "CLOSE_TASK", !.prev = state.node]
                        EXCEPT !.review = "PASS", !.findings = {}]
      \/ /\ mem.result # "pass"
         /\ state' = [[state EXCEPT !.node = "CLASSIFY_FAILURE", !.prev = state.node]
                        EXCEPT !.review = "FAIL", !.findings = mem.findings]
  BY RecordFrame DEF Advanced, Moved
<1>2. /\ {"manifests", "findings", "completed", "node", "count", "item"} \subseteq DOMAIN state
      /\ mem.findings \subseteq Findings
  BY DEF EInv, PInv, ShapeInv, StateInv, IInv, StepInv, MemInv
<1>3. /\ \/ state'.node = "CLOSE_TASK" /\ mem.result = "pass"
         \/ state'.node = "CLASSIFY_FAILURE" /\ mem.result # "pass"
      /\ state'.item = state.item /\ state'.count = state.count
      /\ state'.manifests = state.manifests /\ state'.completed = state.completed
      /\ state'.findings \subseteq Findings
      /\ {"manifests", "findings", "completed"} \subseteq DOMAIN state'
  BY <1>1, <1>2
<1>4. /\ files[state.item, 0, "inputs"] = Base
      /\ files[state.item, state.count, "validation"] = [tree |-> Manifest, passed |-> TRUE]
      /\ mem.result = "pass" =>
           /\ files[state.item, state.count, "mechanical"] = [tree |-> Manifest, findings |-> {}]
           /\ files[state.item, state.count, "review-context"] = Manifest
           /\ files[state.item, state.count, "review"] =
                [tree |-> Manifest, mechanical |-> {}, semantic |-> "pass"]
  BY RecordFrame
     DEF EInv, PInv, VerdictInv, JudgeMem, Validated, Reviewed, MechanicallyPassed, At
<1>5. VerdictInv'
  BY <1>3, <1>4, RecordFrame
     DEF VerdictInv, Validated, Reviewed, MechanicallyPassed, At, Base, Manifest
<1>6. mem.result # "pass" =>
        \A c \in Cycles : ~(Exists(c, "review") /\ ReviewPassed(At(c, "review")))
  <2>1. mem.result # "pass" => ~ReviewPassed(At(state.count, "review"))
    BY RecordFrame DEF EInv, JudgeMem
  <2>2. LastCycle = state.count
    BY Named DEF EInv, JudgedNodes
  <2>3. PassedInv
    BY DEF EInv
  <2>4. QED
    BY <2>1, <2>2, <2>3 DEF PassedInv
<1>7. QED
  BY <1>2, <1>3, <1>5, <1>6, MovesOn DEF JudgedNodes

(* The recorded result of CLASSIFY_FAILURE keeps the evidence.                           *)
LEMMA RecordClassify ==
    ASSUME IInv, EInv, Record, mem.result # "stop", state.node = "CLASSIFY_FAILURE"
    PROVE  EInv'
<1>1. state' = [[state EXCEPT !.node = "REPAIR", !.prev = state.node]
                  EXCEPT !.count = state.count + 1]
  BY RecordFrame DEF Advanced, Moved
<1>2. /\ {"manifests", "findings", "completed", "node", "count", "item"} \subseteq DOMAIN state
      /\ state.findings \subseteq Findings
  BY DEF EInv, PInv, ShapeInv, StateInv, IInv, StepInv
<1>3. /\ state'.node = "REPAIR" /\ state'.item = state.item /\ state'.count = state.count + 1
      /\ state'.manifests = state.manifests /\ state'.completed = state.completed
      /\ state'.findings = state.findings
      /\ {"manifests", "findings", "completed"} \subseteq DOMAIN state'
  BY <1>1, <1>2
<1>4. /\ files[state.item, 0, "inputs"] = Base
      /\ files[state.item, state.count + 1, "context"] # None
      /\ files[state.item, state.count + 1, "context"].tree = Manifest
  BY RecordFrame DEF EInv, PInv, VerdictInv, JudgeMem, Contextual, At
<1>5. VerdictInv'
  BY <1>3, <1>4, RecordFrame DEF VerdictInv, Contextual, At, Base, Manifest
<1>6. QED
  BY <1>2, <1>3, <1>5, MovesOn, NoPassedReview DEF JudgedNodes

(* What Append returns.                                                                  *)
LEMMA Appended ==
    ASSUME NEW S, NEW s \in Seq(S), NEW e \in S
    PROVE  /\ Append(s, e) \in Seq(S) /\ Len(Append(s, e)) = Len(s) + 1
           /\ Append(s, e)[Len(s) + 1] = e
           /\ \A i \in 1 .. Len(s) : Append(s, e)[i] = s[i]
OBVIOUS

(* An author's manifest is the newest one from then on.                                  *)
LEMMA RecordAuthor ==
    ASSUME IInv, EInv, Record, mem.result # "stop", state.node \in AuthorNodes
    PROVE  EInv'
<1>1. state' = [[state EXCEPT !.node = "VALIDATE", !.prev = state.node]
                  EXCEPT !.manifests = Append(state.manifests, mem.manifest)]
  BY RecordFrame DEF Advanced, Moved, AuthorNodes
<1>2. /\ {"manifests", "findings", "completed", "node", "count", "item"} \subseteq DOMAIN state
      /\ state.findings \subseteq Findings /\ state.manifests \in Seq(Trees)
      /\ state.completed \in Seq(Commits)
  BY DEF EInv, PInv, ShapeInv, StateInv, IInv, StepInv
<1> DEFINE longer == Append(state.manifests, mem.manifest)
<1>3. /\ state'.node = "VALIDATE" /\ state'.item = state.item /\ state'.count = state.count
      /\ state'.manifests = longer /\ state'.completed = state.completed
      /\ state'.findings = state.findings
      /\ {"manifests", "findings", "completed"} \subseteq DOMAIN state'
  BY <1>1, <1>2
<1>4. /\ pc = "return" /\ started' = FALSE /\ pc' = "idle" /\ files' = files
      /\ RepoInv' /\ MemInv' /\ AuthorMem' /\ JudgeMem' /\ CloseMem'
      /\ mem'.active => mem.active
      /\ mem'.manifest = mem.manifest /\ mem'.cycle = mem.cycle
  BY <1>3, RecordFrame
<1>5. /\ mem.manifest \in Trees /\ mem.cycle = state.count
      /\ files[state.item, state.count, "proposal"] \in Trees
      /\ files[state.item, state.count, "applied"] = files[state.item, state.count, "proposal"]
      /\ files[state.item, state.count, "manifest"] = mem.manifest
  BY <1>4, AuthorCycle DEF EInv, AuthorMem, Authored, At
<1>6. Len(state.manifests) = state.count /\ state.count \in Nat
  BY DEF EInv, PInv, LineageInv, AuthorNodes, IInv, CycleInv, Cycles
<1>7. /\ longer \in Seq(Trees) /\ Len(longer) = state.count + 1
      /\ longer[state.count + 1] = mem.manifest
      /\ \A c \in 0 .. state.count - 1 : longer[c + 1] = state.manifests[c + 1]
  <2>1. /\ longer \in Seq(Trees) /\ Len(longer) = Len(state.manifests) + 1
        /\ longer[Len(state.manifests) + 1] = mem.manifest
        /\ \A i \in 1 .. Len(state.manifests) : longer[i] = state.manifests[i]
    <3>1. state.manifests \in Seq(Trees) /\ mem.manifest \in Trees
      BY <1>2, <1>5
    <3>2. QED
      BY <3>1, Appended
  <2> HIDE DEF longer
  <2>2. ASSUME NEW c \in 0 .. state.count - 1 PROVE longer[c + 1] = state.manifests[c + 1]
    <3>1. c + 1 \in 1 .. Len(state.manifests)
      BY <1>6
    <3>2. QED
      BY <2>1, <3>1
  <2>3. QED
    BY <1>6, <2>1, <2>2
<1> HIDE DEF longer
<1>8. LastCycle' = state.count /\ Manifest' = mem.manifest /\ Base' = Base
      /\ LastCycle = state.count - 1
  BY <1>3, <1>6, <1>7 DEF LastCycle, Manifest, Base
<1>9. StateInv' /\ FilesInv'
  BY <1>2, <1>3, <1>4, <1>7 DEF EInv, PInv, ShapeInv, StateInv, FilesInv
<1>10. LineageInv'
  <2>1. \A c \in 0 .. state.count - 1 :
          /\ files[state.item, c, "proposal"] \in Trees
          /\ files[state.item, c, "applied"] = files[state.item, c, "proposal"]
          /\ files[state.item, c, "manifest"] = state.manifests[c + 1]
    BY <1>8 DEF EInv, PInv, LineageInv, Authored, At
  <2>2. \A c \in 0 .. state.count :
          /\ files[state.item, c, "proposal"] \in Trees
          /\ files[state.item, c, "applied"] = files[state.item, c, "proposal"]
          /\ files[state.item, c, "manifest"] = longer[c + 1]
    <3>1. \A c \in 0 .. state.count : c \in 0 .. state.count - 1 \/ c = state.count
      BY <1>6
    <3>2. QED
      BY <1>5, <1>7, <2>1, <3>1
  <2>3. Len(state'.manifests) = state'.count + 1
    BY <1>3, <1>7
  <2>4. \A c \in 0 .. LastCycle' : Authored(c)' /\ At(c, "manifest")' = state'.manifests[c + 1]
    BY <1>3, <1>4, <1>8, <2>2 DEF Authored, At
  <2>5. /\ state'.node = "VALIDATE" /\ state'.count \in Nat
        /\ Len(state'.manifests) <= state'.count + 1
    BY <1>3, <1>6, <2>3
  <2>6. QED
    BY <2>3, <2>4, <2>5 DEF LineageInv, JudgedNodes
<1>11. VerdictInv'
  BY <1>3, <1>4, <1>8 DEF EInv, PInv, VerdictInv, At, AuthorNodes
<1>12. CompletedInv'
  <2>1. Len(state.completed) = state.item - 1
    BY DEF EInv, PInv, CompletedInv, AuthorNodes
  <2>2. Grown
    BY <1>4 DEF Grown
  <2>3. QED
    BY <1>3, <2>1, <2>2, KeepsProofs DEF EInv, CompletedInv
<1>13. WitnessInv' /\ ActiveInv' /\ KnownInv'
  BY <1>3, <1>4, <1>5, <1>8
     DEF EInv, WitnessInv, ActiveInv, KnownInv, Exists, At, AuthorNodes
<1>14. PassedInv'
  <2>1. \A c \in Cycles : ~(Exists(c, "review") /\ ReviewPassed(At(c, "review")))
    BY NoPassedReview DEF AuthorNodes
  <2>2. QED
    BY <1>3, <1>4, <2>1 DEF PassedInv, Exists, At, ReviewPassed
<1>15. QED
  BY <1>4, <1>9, <1>10, <1>11, <1>12, <1>13, <1>14 DEF EInv, PInv, ShapeInv

(* A closed item proves its commit, the child of the one before it.                      *)
LEMMA Closes ==
    ASSUME IInv, EInv, pc = "return", state.node = "CLOSE_TASK", mem.result # "stop"
    PROVE  /\ VerifyCompletedItem(state.item, Base)
           /\ files[state.item, 0, "witness"].sha = mem.sha /\ mem.sha \in Commits
           /\ Len(state.completed) = state.item - 1
<1> DEFINE w == files[state.item, 0, "witness"]
           c == state.count
<1>1. /\ Manifest \in Trees /\ LastCycle = c /\ c \in Nat /\ Base \in Commits
      /\ Len(state.manifests) = c + 1
  BY Named DEF EInv, PInv, LineageInv, JudgedNodes, Cycles
<1>2. w = [base |-> Base, sha |-> mem.sha, tree |-> Manifest, cycle |-> c]
  BY DEF EInv, CloseMem, At
<1>3. /\ mem.sha \in Commits /\ mem.sha # <<>>
      /\ Parent(mem.sha) = Base /\ TreeOf(mem.sha) = Manifest
      /\ files[state.item, 0, "commit"] = mem.sha
  BY DEF EInv, CloseMem, At
<1>4. w # None
  <2>1. w \in Evidence("witness")
    BY <1>1, <1>2, <1>3, Witnesses, Named DEF EInv
  <2>2. QED
    BY <2>1, NoneAssumption DEF Kinds
<1>5. /\ w.base = Base /\ w.sha = mem.sha /\ w.tree = Manifest /\ w.cycle = c
  <2> HIDE DEF w, c
  <2>1. QED
    BY <1>2
<1>6. /\ files[state.item, 0, "inputs"] = Base
      /\ files[state.item, c, "validation"] = [tree |-> Manifest, passed |-> TRUE]
      /\ files[state.item, c, "mechanical"] = [tree |-> Manifest, findings |-> {}]
      /\ files[state.item, c, "review-context"] = Manifest
      /\ files[state.item, c, "review"] =
           [tree |-> Manifest, mechanical |-> {}, semantic |-> "pass"]
  BY DEF EInv, PInv, VerdictInv, Validated, Reviewed, MechanicallyPassed, At
<1>7. /\ files[state.item, c, "proposal"] \in Trees
      /\ files[state.item, c, "applied"] = files[state.item, c, "proposal"]
      /\ files[state.item, c, "manifest"] = Manifest
  <2>1. c \in 0 .. LastCycle
    BY <1>1
  <2>2. Manifest = state.manifests[c + 1]
    BY <1>1 DEF Manifest
  <2>3. QED
    BY <2>1, <2>2 DEF EInv, PInv, LineageInv, Authored, At
<1>8. files[state.item, c, "applied"] # None
  BY <1>7, Told
<1>9. mem.sha # None
  BY <1>3, Told
<1>10. Len(state.completed) = state.item - 1
  BY DEF EInv, PInv, CompletedInv
<1> HIDE DEF w, c
<1>11. VerifyCompletedItem(state.item, Base)
  BY <1>3, <1>4, <1>5, <1>6, <1>7, <1>8, <1>9 DEF VerifyCompletedItem, w, c
<1>12. QED
  BY <1>3, <1>5, <1>10, <1>11 DEF w

\* The state after an item was closed, before the cursor moves to the next one.
LEMMA ClosedLineage ==
    ASSUME IInv, EInv, pc = "return", state.node = "CLOSE_TASK", mem.result # "stop",
           files' = files, state'.completed = Append(state.completed, mem.sha)
    PROVE  /\ state'.completed \in Seq(Commits) /\ Len(state'.completed) = state.item
           /\ CompletedLineage'
<1> DEFINE more == Append(state.completed, mem.sha)
<1>0. /\ VerifyCompletedItem(state.item, Base)
      /\ files[state.item, 0, "witness"].sha = mem.sha
  BY Closes
<1>1. mem.sha \in Commits /\ Len(state.completed) = state.item - 1
  BY Closes
<1>2. state.completed \in Seq(Commits) /\ state.item \in 1 .. Items
  BY DEF EInv, PInv, ShapeInv, StateInv, IInv, CycleInv, ItemRange
<1>3. /\ more \in Seq(Commits) /\ Len(more) = Len(state.completed) + 1
      /\ more[Len(state.completed) + 1] = mem.sha
      /\ \A i \in 1 .. Len(state.completed) : more[i] = state.completed[i]
  <2>1. state.completed \in Seq(Commits) /\ mem.sha \in Commits
    BY <1>1, <1>2
  <2>2. QED
    BY <2>1, Appended
<1> HIDE DEF more
<1>4. Len(more) = state.item /\ more[state.item] = mem.sha
  BY <1>1, <1>2, <1>3
<1>5. ASSUME NEW k \in 1 .. state.item
      PROVE  /\ VerifyCompletedItem(k, IF k = 1 THEN <<>> ELSE more[k - 1])
             /\ files[k, 0, "witness"].sha = more[k]
  <2>1. CASE k = state.item
    <3>1. (IF k = 1 THEN <<>> ELSE more[k - 1]) = Base
      <4>1. CASE k = 1
        <5>1. state.completed = <<>>
          BY <1>1, <1>2, <2>1, <4>1
        <5>2. QED
          BY <4>1, <5>1 DEF Base
      <4>2. CASE k # 1
        <5>1. /\ k - 1 \in 1 .. Len(state.completed) /\ k - 1 = Len(state.completed)
              /\ state.completed # <<>>
          BY <1>1, <1>2, <2>1, <4>2
        <5>2. Base = state.completed[k - 1]
          BY <5>1 DEF Base
        <5>3. QED
          BY <1>3, <4>2, <5>1, <5>2
      <4>3. QED
        BY <4>1, <4>2
    <3>2. QED
      BY <1>0, <1>4, <2>1, <3>1
  <2>2. CASE k # state.item
    <3>1. k \in DOMAIN state.completed /\ k \in 1 .. Len(state.completed)
      BY <1>1, <1>2, <2>2
    <3>2. /\ VerifyCompletedItem(k, IF k = 1 THEN <<>> ELSE state.completed[k - 1])
          /\ files[k, 0, "witness"].sha = state.completed[k]
      BY <3>1 DEF EInv, PInv, CompletedInv, CompletedLineage
    <3>3. k # 1 => k - 1 \in 1 .. Len(state.completed)
      BY <3>1, <1>1, <1>2
    <3>4. (IF k = 1 THEN <<>> ELSE more[k - 1])
            = (IF k = 1 THEN <<>> ELSE state.completed[k - 1])
      BY <1>3, <3>3
    <3>5. QED
      BY <1>3, <3>1, <3>2, <3>4
  <2>3. QED
    BY <2>1, <2>2
<1>6. DOMAIN more = 1 .. state.item
  BY <1>3, <1>4
<1>7. state'.completed = more
  BY DEF more
<1>8. CompletedLineage'
  <2> SUFFICES ASSUME NEW k \in 1 .. state.item
               PROVE  (/\ VerifyCompletedItem(k, IF k = 1 THEN <<>> ELSE state.completed[k - 1])
                       /\ files[k, 0, "witness"].sha = state.completed[k])'
    BY <1>6, <1>7 DEF CompletedLineage
  <2>1. QED
    BY <1>5, <1>7 DEF VerifyCompletedItem, Parent, TreeOf
<1>9. QED
  BY <1>3, <1>4, <1>7, <1>8

(* The recorded result of CLOSE_TASK adds a completed item that proves its commit.       *)
LEMMA RecordClose ==
    ASSUME IInv, EInv, Record, mem.result # "stop", state.node = "CLOSE_TASK"
    PROVE  EInv'
<1> DEFINE more == Append(state.completed, mem.sha)
<1>1. state' = IF AnotherItem(more) THEN FreshItem(state.item + 1, more)
               ELSE [[state EXCEPT !.node = "FINALIZE", !.prev = state.node]
                       EXCEPT !.completed = more]
  BY RecordFrame, Zenon DEF Advanced, Moved
<1>2. /\ {"manifests", "findings", "completed", "node", "count", "item"} \subseteq DOMAIN state
      /\ state.findings \subseteq Findings /\ state.manifests \in Seq(Trees)
      /\ state.item \in 1 .. Items /\ FilesInv /\ state.count \in Cycles
  BY DEF EInv, PInv, ShapeInv, StateInv, IInv, StepInv, CycleInv, ItemRange
<1>3. /\ pc = "return" /\ started' = FALSE /\ pc' = "idle" /\ files' = files
      /\ RepoInv' /\ MemInv' /\ AuthorMem' /\ JudgeMem' /\ CloseMem'
      /\ state'.item = state.item => (mem'.active => mem.active)
      /\ state'.item # state.item => ~mem'.active
  BY RecordFrame
<1>4. state'.completed = more =>
        /\ state'.completed \in Seq(Commits) /\ Len(state'.completed) = state.item
        /\ CompletedLineage'
  BY <1>3, ClosedLineage
<1> HIDE DEF more
<1>5. CASE AnotherItem(more)
  <2>1. state' = FreshItem(state.item + 1, more)
    BY <1>1, <1>5, Zenon
  <2>2. /\ state'.node = "EXPLORE" /\ state'.item = state.item + 1 /\ state'.count = 0
        /\ state'.manifests = <<>> /\ state'.completed = more /\ state'.findings = {}
        /\ {"manifests", "findings", "completed"} \subseteq DOMAIN state'
    BY <2>1 DEF FreshItem
  <2>3. StateInv'
    <3>1. <<>> \in Seq(Trees)
      OBVIOUS
    <3>2. QED
      BY <1>4, <2>2, <3>1 DEF StateInv
  <2>4. \A c \in Cycles, kind \in Kinds : files[state'.item, c, kind] = None
    <3>1. state'.item \in ItemRange /\ state'.item > state.item
      BY <1>2, <1>5, <2>2 DEF ItemRange, AnotherItem
    <3>2. QED
      BY <1>2, <3>1 DEF FilesInv
  <2>5. FilesInv'
    <3>1. \A k \in ItemRange : k > state'.item => k > state.item
      BY <1>2, <2>2 DEF ItemRange
    <3>2. QED
      BY <1>2, <1>3, <3>1 DEF FilesInv
  <2>6. LineageInv'
    <3>1. LastCycle' = -1 /\ Len(state'.manifests) = 0
      BY <2>2 DEF LastCycle
    <3>2. QED
      BY <2>2, <3>1 DEF LineageInv, JudgedNodes
  <2>7. VerdictInv'
    BY <2>2 DEF VerdictInv
  <2>8. CompletedInv'
    BY <1>2, <1>4, <2>2 DEF CompletedInv
  <2>9. WitnessInv' /\ PassedInv'
    BY <1>3, <2>4, Here DEF WitnessInv, PassedInv, Exists, At
  <2>10. state'.item # state.item
    BY <1>2, <2>2
  <2>11. ActiveInv' /\ KnownInv'
    BY <1>3, <2>2, <2>10 DEF ActiveInv, KnownInv, JudgedNodes
  <2>12. QED
    BY <1>3, <2>3, <2>5, <2>6, <2>7, <2>8, <2>9, <2>11 DEF EInv, PInv, ShapeInv
<1>6. CASE ~AnotherItem(more)
  <2>1. state' = [[state EXCEPT !.node = "FINALIZE", !.prev = state.node]
                    EXCEPT !.completed = more]
    BY <1>1, <1>6, Zenon
  <2>2. /\ state'.node = "FINALIZE" /\ state'.item = state.item /\ state'.count = state.count
        /\ state'.manifests = state.manifests /\ state'.completed = more
        /\ state'.findings = state.findings
        /\ {"manifests", "findings", "completed"} \subseteq DOMAIN state'
    BY <1>2, <2>1
  <2>3. StateInv' /\ FilesInv'
    BY <1>2, <1>3, <1>4, <2>2 DEF StateInv, FilesInv
  <2>4. LastCycle' = LastCycle /\ Manifest' = Manifest
    BY <2>2 DEF LastCycle, Manifest
  <2>5. LineageInv'
    <3>1. \A c \in 0 .. LastCycle :
            /\ files[state.item, c, "proposal"] \in Trees
            /\ files[state.item, c, "applied"] = files[state.item, c, "proposal"]
            /\ files[state.item, c, "manifest"] = state.manifests[c + 1]
      BY DEF EInv, PInv, LineageInv, Authored, At
    <3>2. \A c \in 0 .. LastCycle' : Authored(c)' /\ At(c, "manifest")' = state'.manifests[c + 1]
      BY <1>3, <2>2, <2>4, <3>1 DEF Authored, At
    <3>3. Len(state'.manifests) <= state'.count + 1
      BY <2>2 DEF EInv, PInv, LineageInv
    <3>4. QED
      BY <2>2, <3>2, <3>3 DEF LineageInv, JudgedNodes
  <2>6. VerdictInv'
    BY <2>2 DEF VerdictInv
  <2>7. CompletedInv' /\ WitnessInv'
    BY <1>4, <2>2 DEF CompletedInv, WitnessInv
  <2>8. ActiveInv' /\ KnownInv'
    BY <2>2 DEF ActiveInv, KnownInv, JudgedNodes
  <2>9. PassedInv'
    <3>1. PassedInv
      BY DEF EInv
    <3>2. ~(Len(state'.completed) < state'.item)
      BY <1>2, <1>4, <2>2
    <3>3. QED
      BY <1>3, <2>2, <2>4, <3>1, <3>2 DEF PassedInv, Exists, At, ReviewPassed
  <2>10. QED
    BY <1>3, <2>3, <2>5, <2>6, <2>7, <2>8, <2>9 DEF EInv, PInv, ShapeInv
<1>7. QED
  BY <1>5, <1>6

(* Every recorded result keeps the evidence (RuntimeSession.step).                       *)
LEMMA RecordEvidence == IInv /\ EInv /\ Record => EInv'
<1> SUFFICES ASSUME IInv, EInv, Record PROVE EInv'
  OBVIOUS
<1>1. state.node \in {"EXPLORE", "VALIDATE", "REVIEW", "CLASSIFY_FAILURE", "CLOSE_TASK"}
                       \cup AuthorNodes
  BY RecordFrame DEF IInv, StepInv, Nodes, AuthorNodes
<1>2. QED
  BY <1>1, RecordStop, RecordExplore, RecordValidate, RecordReview, RecordClassify,
     RecordAuthor, RecordClose

-----------------------------------------------------------------------------
(* EInv is inductive.                                                                    *)
LEMMA InitEInv == Init => EInv
<1> SUFFICES ASSUME Init PROVE EInv
  OBVIOUS
<1>1. /\ state = FreshItem(1, <<>>) /\ pc = "idle" /\ mem = NoMem
      /\ files = [key \in ItemRange \X Cycles \X Kinds |-> None]
      /\ repo = [exists |-> FALSE, head |-> <<>>, tree |-> BaseTree]
  BY DEF Init
<1>2. /\ state.node = "EXPLORE" /\ state.item = 1 /\ state.count = 0 /\ state.manifests = <<>>
      /\ state.completed = <<>> /\ state.findings = {}
      /\ {"manifests", "findings", "completed"} \subseteq DOMAIN state
  BY <1>1 DEF FreshItem
<1>3. <<>> \in Seq(Trees) /\ <<>> \in Seq(Commits) /\ Len(<<>>) = 0
  OBVIOUS
<1>4. StateInv
  BY <1>2, <1>3 DEF StateInv
<1>5. \A k \in ItemRange, c \in Cycles, kind \in Kinds : files[k, c, kind] = None
  BY <1>1
<1>6. FilesInv
  BY <1>1, <1>5 DEF FilesInv
<1>7. RepoInv
  BY <1>1, <1>3 DEF RepoInv, Commits
<1>8. MemInv
  BY <1>1 DEF MemInv, NoMem
<1>9. LineageInv
  <2>1. LastCycle = -1
    BY <1>2, <1>3 DEF LastCycle
  <2>2. QED
    BY <1>2, <1>3, <2>1 DEF LineageInv, JudgedNodes
<1>10. VerdictInv
  BY <1>2 DEF VerdictInv
<1>11. CompletedInv
  BY <1>2, <1>3 DEF CompletedInv, CompletedLineage
<1>12. WitnessInv /\ PassedInv
  <2>1. 1 \in ItemRange /\ 0 \in Cycles /\ "witness" \in Kinds /\ "review" \in Kinds
    BY DEF ItemRange, Cycles, Kinds
  <2>2. \A c \in Cycles, kind \in Kinds : ~Exists(c, kind)
    BY <1>2, <1>5, <2>1 DEF Exists, At
  <2>3. QED
    BY <2>1, <2>2 DEF WitnessInv, PassedInv
<1>13. ActiveInv /\ KnownInv /\ AuthorMem /\ JudgeMem /\ CloseMem
  BY <1>1, <1>2 DEF ActiveInv, KnownInv, AuthorMem, JudgeMem, CloseMem, JudgedNodes, NoMem
<1>14. QED
  BY <1>4, <1>6, <1>7, <1>8, <1>9, <1>10, <1>11, <1>12, <1>13 DEF EInv, PInv, ShapeInv

(* Every step keeps the evidence.                                                        *)
LEMMA NextEInv == IInv /\ EInv /\ [Next]_vars => EInv'
<1>1. IInv /\ EInv /\ Judge => EInv'
  BY ValidateEvidence, ClassifyEvidence, RestoreEvidence, MechanicalEvidence, ContextEvidence,
     ReviewEvidence DEF Judge
<1>2. IInv /\ EInv /\ Work => EInv'
  BY <1>1, EnterEvidence, ExploreEvidence, AuthorEvidence, CloseEvidence, FailEvidence,
     RecordEvidence DEF Work
<1>3. QED
  BY <1>2, ResumeEvidence, CrashEvidence, DriftEvidence DEF Next, Finished

(* The evidence invariant holds in every state.                                          *)
THEOREM EvidenceInvariance == Spec => []EInv
<1>1. Init => EInv
  BY InitEInv
<1>2. IInv /\ EInv /\ [Next]_vars => EInv'
  BY NextEInv
<1>3. QED
  BY <1>1, <1>2, Invariance, PTL DEF Spec

(* The commits a run names as completed are always proved by the files of their items    *)
(* (multi_item.py: verify_lineage, which every resume and every further item start       *)
(* with).                                                                                *)
THEOREM CompletedItemsAreProved == Spec => []CompletedItemsVerify
<1>1. EInv => CompletedItemsVerify
  BY DEF EInv, PInv, CompletedInv, CompletedItemsVerify
<1>2. QED
  BY <1>1, EvidenceInvariance, PTL

(* The state is never ahead of its evidence: the manifests it names and the verdicts it  *)
(* goes on with are in the files, and about the newest manifest (WriteExecution).        *)
THEOREM StateIsBacked == Spec => []EvidenceBacksState
<1>1. ASSUME IInv, EInv PROVE EvidenceBacksState
  <2>1. state.node \in JudgedNodes => LastCycle = state.count
    BY <1>1, Named DEF EInv
  <2>2. \A c \in 0 .. LastCycle : At(c, "manifest") = state.manifests[c + 1]
    BY <1>1 DEF EInv, PInv, LineageInv
  <2>3. VerdictInv
    BY <1>1 DEF EInv, PInv
  <2>4. QED
    BY <2>1, <2>2, <2>3
       DEF EvidenceBacksState, VerdictInv, Validated, Reviewed, Contextual, JudgedNodes
<1>2. QED
  BY <1>1, Invariance, EvidenceInvariance, PTL

(* The status command finds the evidence of a run sound unless the commit of a later     *)
(* item is under way or was interrupted; in a run limited to one item it looks in the    *)
(* wrong place and, once the item is completed, never does (cli/status.py).              *)
THEOREM StatusIsSound == Spec => []StatusAnswersAtRest
<1>1. ASSUME IInv, EInv, ~(state.node = "CLOSE_TASK" /\ started)
      PROVE  StatusAnswers <=> MaxItems > 1 \/ state.completed = <<>>
  <2> USE <1>1
  <2>1. /\ state.completed \in Seq(Commits) /\ state.item \in 1 .. Items
        /\ Len(state.completed) = state.item - 1 \/ Len(state.completed) = state.item
        /\ DOMAIN state.completed = 1 .. Len(state.completed)
    BY DEF EInv, PInv, ShapeInv, StateInv, CompletedInv, IInv, CycleInv, ItemRange
  <2>2. ASSUME NEW k \in DOMAIN state.completed
        PROVE  /\ k \in ItemRange /\ files[k, 0, "witness"] # None
               /\ files[k, 0, "witness"].sha # None
    <3>1. k \in ItemRange
      BY CompletedRange DEF EInv
    <3>2. VerifyCompletedItem(k, IF k = 1 THEN <<>> ELSE state.completed[k - 1])
      BY DEF EInv, PInv, CompletedInv, CompletedLineage
    <3>3. QED
      BY <3>1, <3>2 DEF VerifyCompletedItem
  <2>3. ASSUME NEW k \in ItemRange, files[k, 0, "witness"] # None
        PROVE  k \in DOMAIN state.completed
    <3>1. ~(k > state.item)
      BY <2>3, Here DEF EInv, PInv, ShapeInv, FilesInv
    <3>2. k = state.item => Len(state.completed) = state.item
      BY <2>3 DEF EInv, WitnessInv, Exists, At
    <3>3. QED
      BY <2>1, <3>1, <3>2 DEF ItemRange
  <2>4. CASE MaxItems > 1
    <3>1. EvidenceRoot = "item"
      BY <2>4 DEF EvidenceRoot
    <3>2. QED
      BY <2>2, <2>3, <2>4, <3>1 DEF StatusAnswers, Witnessed
  <2>5. CASE MaxItems = 1
    <3>1. Witnessed = {}
      BY <2>5 DEF EvidenceRoot, Witnessed
    <3>2. state.completed # <<>> => 1 \in DOMAIN state.completed
      BY <2>1
    <3>3. QED
      BY <2>5, <3>1, <3>2 DEF StatusAnswers
  <2>6. QED
    BY <2>4, <2>5, BoundAssumption
<1>2. IInv /\ EInv => StatusAnswersAtRest
  BY <1>1 DEF StatusAnswersAtRest
<1>3. QED
  BY <1>2, Invariance, EvidenceInvariance, PTL

-----------------------------------------------------------------------------
(* The run implements ItemLedger.  Only the review file approves a tree, and only the    *)
(* record of a closed item closes it.                                                    *)
LEMMA OtherKind ==
    ASSUME EInv, NEW k, NEW c, NEW kind, NEW content, kind # "review",
           files' = files \/ files' = [files EXCEPT ![<<k, c, kind>>] = content]
    PROVE  KeepsReviews
<1>1. DOMAIN files = ItemRange \X Cycles \X Kinds
  BY DEF EInv, PInv, ShapeInv, FilesInv
<1>2. "review" \in Kinds
  BY DEF Kinds
<1>3. QED
  BY <1>1, <1>2 DEF KeepsReviews

(* Only a written review and a recorded result can change what is approved.              *)
LEMMA OnlyReviewsApprove ==
    EInv /\ [Next]_vars => (state' = state /\ KeepsReviews) \/ WriteReview \/ Record
<1> SUFFICES ASSUME EInv, [Next]_vars, ~WriteReview, ~Record
             PROVE  state' = state /\ KeepsReviews
  OBVIOUS
<1> USE DEF Inside, Returns, outside, Write, WriteOrAgree
<1>1. CASE Explore
  BY <1>1, OtherKind DEF Explore
<1>2. CASE Propose
  BY <1>2, OtherKind DEF Propose
<1>3. CASE RecordApplied
  BY <1>3, OtherKind DEF RecordApplied
<1>4. CASE CaptureManifest
  BY <1>4, OtherKind DEF CaptureManifest
<1>5. CASE RunChecks
  BY <1>5, OtherKind DEF RunChecks
<1>6. CASE ReviewMechanically
  BY <1>6, OtherKind DEF ReviewMechanically
<1>7. CASE FreezeContext
  BY <1>7, OtherKind DEF FreezeContext
<1>8. CASE ClassifyFailure
  BY <1>8, OtherKind DEF ClassifyFailure
<1>9. CASE WriteWitness
  BY <1>9, OtherKind DEF WriteWitness
<1>10. CASE VerifyCommit
  BY <1>10, OtherKind DEF VerifyCommit
<1>11. CASE Resume
  BY <1>11, OtherKind DEF Resume
<1>12. CASE \/ Enter \/ ExploreAgain \/ OpenWorkspace \/ PrepareRepair \/ Apply
            \/ RestoreValidation \/ RestoreReview \/ ReviewSemantically
  <2>1. state' = state /\ files' = files
    BY <1>12 DEF Enter, StartNode, ExploreAgain, OpenWorkspace, PrepareRepair, Apply,
                 RestoreValidation, RestoreReview, ReviewSemantically
  <2>2. QED
    BY <2>1 DEF KeepsReviews
<1>13. CASE \/ CheckCommit \/ GitCommit \/ GitCommitFails \/ PostCommitRecoveryRequired
            \/ Fail \/ Refuse \/ Crash \/ Drift \/ UNCHANGED vars
  <2>1. state' = state /\ files' = files
    BY <1>13 DEF CheckCommit, GitCommit, GitCommitFails, PostCommitRecoveryRequired, Leave,
                 Fail, Stops, Refuse, Crash, Drift, vars
  <2>2. QED
    BY <2>1 DEF KeepsReviews
<1>14. QED
  BY <1>1, <1>2, <1>3, <1>4, <1>5, <1>6, <1>7, <1>8, <1>9, <1>10, <1>11, <1>12, <1>13
     DEF Next, Work, Author, Judge, Close, Finished

PassedCycles == {c \in Cycles : Exists(c, "review") /\ ReviewPassed(At(c, "review"))}

(* The approved tree is the newest manifest, which differs from the base.                *)
ApprovedInv ==
    /\ Len(state.completed) = state.item \/ PassedCycles = {} => Approved = None
    /\ Len(state.completed) # state.item /\ PassedCycles # {} =>
         Approved = Manifest /\ Manifest \in Trees \ {TreeOf(Base)}

(* What is approved is the newest manifest, and it differs from the base.                *)
LEMMA ApprovedTree == IInv /\ EInv => ApprovedInv
<1> SUFFICES ASSUME IInv, EInv PROVE ApprovedInv
  OBVIOUS
<1>1. Len(state.completed) = state.item \/ PassedCycles = {} => Approved = None
  BY DEF Approved, PassedCycles
<1>2. ASSUME Len(state.completed) # state.item, PassedCycles # {}
      PROVE  Approved = Manifest /\ Manifest \in Trees \ {TreeOf(Base)}
  <2>1. Approved = At(CHOOSE c \in PassedCycles : TRUE, "review").tree
    BY <1>2, Zenon DEF Approved, PassedCycles
  <2>2. PICK c \in PassedCycles : c = (CHOOSE d \in PassedCycles : TRUE)
    BY <1>2, ZenonT(20)
  <2>3. Len(state.completed) < state.item
    <3>1. /\ state.item \in Nat /\ Len(state.completed) \in Nat
          /\ Len(state.completed) = state.item - 1 \/ Len(state.completed) = state.item
      BY DEF EInv, PInv, CompletedInv, ShapeInv, StateInv, IInv, CycleInv, ItemRange
    <3>2. QED
      BY <1>2, <3>1
  <2>4. /\ c = LastCycle /\ At(c, "review").tree = Manifest /\ Manifest # TreeOf(Base)
    BY <2>3 DEF EInv, PassedInv, PassedCycles
  <2>5. Manifest \in Trees
    <3>1. c \in Cycles
      BY DEF PassedCycles
    <3>2. LastCycle \in 0 .. MaxRepair
      BY <2>4, <3>1 DEF Cycles
    <3>3. state.manifests # <<>>
      BY <3>2 DEF LastCycle
    <3>4. QED
      BY <3>3, Named DEF EInv
  <2>6. QED
    BY <2>1, <2>2, <2>4, <2>5
<1>3. QED
  BY <1>1, <1>2 DEF ApprovedInv

(* An approval stays while the state and the reviews do.                                 *)
LEMMA ApprovalStays ==
    ASSUME IInv, EInv, ApprovedInv, ApprovedInv', state' = state, KeepsReviews
    PROVE  Approved' = Approved
<1>1. \A c \in Cycles : files'[state'.item, c, "review"] = files[state.item, c, "review"]
  BY Here DEF KeepsReviews
<1>2. PassedCycles' = PassedCycles
  BY <1>1 DEF PassedCycles, Exists, At, ReviewPassed
<1>3. Manifest' = Manifest
  BY DEF Manifest
<1>4. QED
  BY <1>2, <1>3 DEF ApprovedInv

(* A review file approves its tree, once, if it passed.                                  *)
LEMMA ReviewApproves ==
    ASSUME IInv, EInv, ApprovedInv, ApprovedInv', WriteReview
    PROVE  \/ Approved' = Approved
           \/ Approved = None /\ Approved' \in Trees \ {TreeOf(Base)}
<1>1. /\ pc = "judge" /\ state' = state
      /\ files[state.item, state.count, "review"] = None
      /\ \A c \in Cycles : c # state.count =>
           files'[state.item, c, "review"] = files[state.item, c, "review"]
  <2>1. PICK r :
          /\ pc = "judge" /\ state' = state
          /\ files[state.item, state.count, "review"] = None
          /\ files' = [files EXCEPT ![<<state.item, state.count, "review">>] = r]
    BY DEF WriteReview, Inside, Write, Exists, At
  <2>2. DOMAIN files = ItemRange \X Cycles \X Kinds
    BY DEF EInv, PInv, ShapeInv, FilesInv
  <2>3. QED
    BY <2>1, <2>2, Here
<1>2. state.node = "REVIEW"
  BY <1>1 DEF IInv, StepInv
<1>3. LastCycle = state.count
  BY <1>2, Named DEF EInv, JudgedNodes
<1>4. PassedCycles = {}
  BY <1>1, <1>3 DEF EInv, PassedInv, PassedCycles, Exists, At
<1>5. Approved = None
  BY <1>4 DEF ApprovedInv
<1>6. Approved' = None \/ (Approved' = Manifest' /\ Manifest' \in Trees \ {TreeOf(Base)'})
  BY DEF ApprovedInv
<1>7. Manifest' = Manifest /\ TreeOf(Base)' = TreeOf(Base)
  BY <1>1 DEF Manifest, TreeOf, Base
<1>8. QED
  BY <1>5, <1>6, <1>7

\* The record of a closed item.
ClosesItem == state.node = "CLOSE_TASK" /\ mem.result # "stop"

(* A recorded result that closes no item keeps the completed items and the reviews.      *)
LEMMA RecordedItem ==
    ASSUME IInv, EInv, Record, ~ClosesItem
    PROVE  /\ state'.completed = state.completed /\ state'.item = state.item
           /\ PassedCycles' = PassedCycles
           /\ state.node \notin AuthorNodes => state'.manifests = state.manifests
<1>1. state.node \in {"EXPLORE", "VALIDATE", "REVIEW", "CLASSIFY_FAILURE", "CLOSE_TASK"}
                       \cup AuthorNodes
  BY RecordFrame DEF IInv, StepInv, Nodes, AuthorNodes
<1>2. {"node", "prev", "item", "count", "manifests", "findings", "completed"}
        \subseteq DOMAIN state
  BY DEF EInv, PInv, ShapeInv, StateInv, IInv, StepInv
<1>3. /\ state'.completed = state.completed /\ state'.item = state.item
      /\ state.node \notin AuthorNodes => state'.manifests = state.manifests
  <2>1. CASE mem.result = "stop"
    BY <2>1, <1>2, RecordFrame DEF Advanced, Moved
  <2>2. CASE mem.result # "stop" /\ state.node = "EXPLORE"
    BY <2>2, <1>2, RecordFrame DEF Advanced, Moved
  <2>3. CASE mem.result # "stop" /\ state.node \in AuthorNodes
    <3>1. state' = [[state EXCEPT !.node = "VALIDATE", !.prev = state.node]
                      EXCEPT !.manifests = Append(state.manifests, mem.manifest)]
      BY <2>3, RecordFrame DEF Advanced, Moved, AuthorNodes
    <3>2. QED
      BY <2>3, <3>1, <1>2
  <2>4. CASE mem.result # "stop" /\ state.node \in {"VALIDATE", "REVIEW"}
    BY <2>4, <1>2, RecordFrame DEF Advanced, Moved
  <2>5. CASE mem.result # "stop" /\ state.node = "CLASSIFY_FAILURE"
    BY <2>5, <1>2, RecordFrame DEF Advanced, Moved
  <2>6. QED
    BY <1>1, <2>1, <2>2, <2>3, <2>4, <2>5 DEF ClosesItem
<1>4. files' = files
  BY RecordFrame
<1>5. QED
  BY <1>3, <1>4 DEF PassedCycles, Exists, At, ReviewPassed

(* A recorded result that closes no item is a stutter of the ledger.                     *)
LEMMA RecordApproval ==
    ASSUME IInv, EInv, ApprovedInv, ApprovedInv', Record, ~ClosesItem
    PROVE  Approved' = Approved /\ state'.completed = state.completed
<1>1. /\ state'.completed = state.completed /\ state'.item = state.item
      /\ PassedCycles' = PassedCycles
      /\ state.node \notin AuthorNodes => state'.manifests = state.manifests
  BY RecordedItem
<1>2. CASE PassedCycles = {}
  BY <1>1, <1>2 DEF ApprovedInv
<1>3. CASE PassedCycles # {}
  <2>1. state.node \notin AuthorNodes
    BY <1>3, NoPassedReview DEF PassedCycles, AuthorNodes
  <2>2. Manifest' = Manifest
    BY <1>1, <2>1 DEF Manifest
  <2>3. QED
    BY <1>1, <2>2 DEF ApprovedInv
<1>4. QED
  BY <1>2, <1>3

(* A sequence is its front and its last element.                                         *)
LEMMA LastOf ==
    ASSUME NEW S, NEW s \in Seq(S), s # <<>>
    PROVE  s = Append(SubSeq(s, 1, Len(s) - 1), s[Len(s)])
OBVIOUS

(* A recorded close is the commit of the approved tree on the ledger.                    *)
LEMMA CloseClosed ==
    ASSUME IInv, EInv, ApprovedInv, ApprovedInv', Record, ClosesItem
    PROVE  /\ Approved # None /\ Approved' = None
           /\ state'.completed = Append(state.completed, Append(Base, Approved))
<1> DEFINE more == Append(state.completed, mem.sha)
<1>1. /\ pc = "return" /\ files' = files
      /\ state' = IF AnotherItem(more) THEN FreshItem(state.item + 1, more)
                  ELSE [[state EXCEPT !.node = "FINALIZE", !.prev = state.node]
                          EXCEPT !.completed = more]
  BY RecordFrame, Zenon DEF ClosesItem, Advanced, Moved
<1>2. {"node", "prev", "item", "completed"} \subseteq DOMAIN state
  BY DEF EInv, PInv, ShapeInv, StateInv, IInv, StepInv
<1>3. /\ mem.sha \in Seq(Trees) /\ mem.sha # <<>>
      /\ Parent(mem.sha) = Base /\ TreeOf(mem.sha) = Manifest
  BY <1>1 DEF EInv, CloseMem, ClosesItem, Commits
<1>4. mem.sha = Append(Base, Manifest)
  <2>1. mem.sha = Append(SubSeq(mem.sha, 1, Len(mem.sha) - 1), mem.sha[Len(mem.sha)])
    BY <1>3, LastOf
  <2>2. SubSeq(mem.sha, 1, Len(mem.sha) - 1) = Base /\ mem.sha[Len(mem.sha)] = Manifest
    BY <1>3 DEF Parent, TreeOf
  <2>3. QED
    BY <2>1, <2>2
<1>5. Len(state.completed) = state.item - 1 /\ state.item \in 1 .. Items
  BY <1>1, Closes DEF ClosesItem, IInv, CycleInv, ItemRange
<1>6. PassedCycles # {}
  <2>1. state.count \in Cycles /\ Manifest \in Trees
    BY Named DEF EInv, ClosesItem, JudgedNodes
  <2>2. At(state.count, "review") = [tree |-> Manifest, mechanical |-> {}, semantic |-> "pass"]
    BY DEF EInv, PInv, VerdictInv, Reviewed, ClosesItem
  <2>3. Exists(state.count, "review") /\ ReviewPassed(At(state.count, "review"))
    BY <2>1, <2>2, Told DEF Exists, ReviewPassed
  <2>4. QED
    BY <2>1, <2>3 DEF PassedCycles
<1>7. Approved = Manifest /\ Manifest \in Trees
  BY <1>5, <1>6 DEF ApprovedInv
<1>8. state'.completed = more
  <2> HIDE DEF more
  <2>1. CASE AnotherItem(more)
    BY <2>1, <1>1 DEF FreshItem
  <2>2. CASE ~AnotherItem(more)
    BY <2>2, <1>1, <1>2
  <2>3. QED
    BY <2>1, <2>2
<1>9. Len(state'.completed) = state.item
  BY <1>1, <1>8, ClosedLineage DEF ClosesItem
<1>10. Approved' = None
  <2> HIDE DEF more
  <2>1. CASE AnotherItem(more)
    <3>1. state'.item = state.item + 1
      BY <2>1, <1>1 DEF FreshItem
    <3>2. \A c \in Cycles : files[state'.item, c, "review"] = None
      <4>1. state'.item \in ItemRange /\ state'.item > state.item
        BY <1>5, <2>1, <3>1 DEF ItemRange, AnotherItem
      <4>2. QED
        BY <4>1, Here DEF EInv, PInv, ShapeInv, FilesInv
    <3>3. PassedCycles' = {}
      BY <1>1, <3>2 DEF PassedCycles, Exists, At
    <3>4. QED
      BY <3>3 DEF ApprovedInv
  <2>2. CASE ~AnotherItem(more)
    <3>1. state'.item = state.item
      BY <2>2, <1>1, <1>2
    <3>2. QED
      BY <1>9, <3>1 DEF ApprovedInv
  <2>3. QED
    BY <2>1, <2>2
<1>11. QED
  BY <1>4, <1>7, <1>8, <1>10, Told

(* Every step of the run is a step of the ledger or none; the run starts as the ledger.  *)
LEMMA LedgerStep ==
    ASSUME IInv, EInv, ApprovedInv, ApprovedInv', [Next]_vars
    PROVE  [Ledger!Next]_<<state.completed, Approved>>
<1>1. Ledger!Head0 = Base /\ Ledger!Held = TreeOf(Base)
  BY DEF Ledger!Head0, Ledger!Held, Base, TreeOf
<1>2. CASE state' = state /\ KeepsReviews
  <2>1. Approved' = Approved
    BY <1>2, ApprovalStays
  <2>2. QED
    BY <1>2, <2>1
<1>3. CASE WriteReview
  <2>1. state'.completed = state.completed
    BY <1>3 DEF WriteReview, Inside
  <2>2. \/ Approved' = Approved
        \/ Approved = None /\ Approved' \in Trees \ {TreeOf(Base)}
    BY <1>3, ReviewApproves
  <2>3. QED
    BY <1>1, <2>1, <2>2 DEF Ledger!Next, Ledger!Approve
<1>4. CASE Record /\ ~ClosesItem
  BY <1>4, RecordApproval
<1>5. CASE Record /\ ClosesItem
  BY <1>1, <1>5, CloseClosed DEF Ledger!Next, Ledger!Close
<1>6. QED
  BY <1>2, <1>3, <1>4, <1>5, OnlyReviewsApprove

(* A fresh run maps to a fresh ledger.                                                   *)
LEMMA LedgerInit == Init => Ledger!Init
<1> SUFFICES ASSUME Init PROVE Ledger!Init
  OBVIOUS
<1>1. /\ state.completed = <<>> /\ state.item = 1
      /\ files = [key \in ItemRange \X Cycles \X Kinds |-> None]
  BY DEF Init, FreshItem
<1>2. 1 \in ItemRange /\ "review" \in Kinds
  BY DEF ItemRange, Kinds
<1>3. PassedCycles = {}
  BY <1>1, <1>2 DEF PassedCycles, Exists, At
<1>4. Approved = None
  BY <1>3 DEF Approved, PassedCycles
<1>5. QED
  BY <1>1, <1>4 DEF Ledger!Init

(* The run implements ItemLedger: what it records as completed is a chain of commits of  *)
(* finally approved, effective trees (WriteExecution and MultiItemExecution).            *)
THEOREM RunImplementsItemLedger == Spec => ImplementsItemLedger
<1>1. IInv /\ EInv /\ ApprovedInv /\ ApprovedInv' /\ [Next]_vars
        => [Ledger!Next]_<<state.completed, Approved>>
  BY LedgerStep
<1>2. IInv /\ EInv => ApprovedInv
  BY ApprovedTree
<1>3. Init => Ledger!Init
  BY LedgerInit
<1>4. QED
  BY <1>1, <1>2, <1>3, Invariance, EvidenceInvariance, PTL
     DEF Spec, ImplementsItemLedger, Ledger!Spec

-----------------------------------------------------------------------------
(* What a resume goes by: the verdicts of the state are the ones of the files, and as    *)
(* long as nobody interferes the worktree is what the state says.                        *)
FailedChecks == At(state.count, "validation") = [tree |-> Manifest, passed |-> FALSE]

FailedReview ==
    /\ state.review = "FAIL" /\ Validated(state.count, Manifest)
    /\ Exists(state.count, "review") /\ ~ReviewPassed(At(state.count, "review"))
    /\ state.findings = ReviewFindings(At(state.count, "review"))

\* The verdicts of the state are the ones of the files.
AgreedInv ==
    /\ {"validation", "review"} \subseteq DOMAIN state
    /\ state.node \in {"REVIEW", "CLOSE_TASK"} => state.validation = "PASS"
    /\ state.node = "CLASSIFY_FAILURE" =>
         \/ state.prev = "VALIDATE" /\ state.validation = "FAIL" /\ FailedChecks
         \/ state.prev = "REVIEW" /\ state.validation = "PASS" /\ FailedReview
    /\ state.node = "CLOSE_TASK" => state.review = "PASS" /\ state.findings = {}
    /\ state.node \in {"EXPLORE", "IMPLEMENT", "VALIDATE", "REVIEW"} /\ state.count = 0 =>
         state.review = "UNKNOWN"

\* The review of the newest cycle is about its manifest, and agrees with the evidence it
\* was made from.
ReviewFiled ==
    LET review == At(state.count, "review")
    IN  /\ review.tree = Manifest
        /\ At(state.count, "mechanical") = [tree |-> Manifest, findings |-> review.mechanical]
        /\ review.mechanical = {} =>
             Validated(state.count, Manifest) /\ At(state.count, "review-context") = Manifest

\* Only REVIEW files a review.
FiledInv ==
    /\ \A c \in Cycles : Exists(c, "review") =>
         \/ c < state.count
         \/ /\ c = state.count
            /\ \/ state.node \in {"REVIEW", "CLOSE_TASK", "FINALIZE"}
               \/ state.node = "CLASSIFY_FAILURE" /\ state.prev = "REVIEW"
    /\ state.node \in {"REVIEW", "CLASSIFY_FAILURE"} /\ Exists(state.count, "review") =>
         ReviewFiled

\* What a process that judges knows of the verdicts in the files.
KnownVerdicts ==
    /\ pc = "return" /\ state.node = "VALIDATE" /\ mem.result \notin {"pass", "stop"} =>
         FailedChecks
    /\ pc \in {"review-context", "semantic", "judge"} =>
         At(state.count, "mechanical") = [tree |-> Manifest, findings |-> mem.findings]
    /\ pc = "return" /\ state.node = "REVIEW" /\ mem.result # "stop" =>
         mem.findings = ReviewFindings(At(state.count, "review"))

\* A node with a side effect that was not entered, or was left between nodes.
AtRest == pc \in {"idle"} \cup Nodes \/ ~started

BaseClean == state.completed # <<>> => CleanAt(Base)

\* A node that has not touched the worktree finds it clean at the base of the item, or
\* at the newest manifest.
TrackInv ==
    /\ state.node = "EXPLORE" \/ (state.node = "IMPLEMENT" /\ AtRest) => BaseClean
    /\ (\/ state.node \in {"VALIDATE", "REVIEW", "CLASSIFY_FAILURE"}
        \/ state.node \in {"REPAIR", "CLOSE_TASK"} /\ AtRest)
       => repo.head = Base /\ repo.tree = Manifest
    /\ pc = "return" /\ state.node \in AuthorNodes /\ mem.result # "stop" =>
         repo.head = Base /\ repo.tree = mem.manifest
    /\ pc = "return" /\ state.node = "CLOSE_TASK" /\ mem.result # "stop" => CleanAt(mem.sha)

UntouchedInv ==
    /\ drifts \in Nat
    /\ drifts = 0 =>
         /\ pinned /\ TrackInv
         /\ state.node = "REVIEW" /\ ~started => ReviewAgrees

Cause ==
    \/ Interrupted
    \/ state.item > 1 /\ AfterImplement
    \/ state.node = "REVIEW" /\ started /\ state.count > 0

RefusalInv == refused => pc = "down" /\ (drifts > 0 \/ Cause)

InputsInv == state.node = "EXPLORE" => At(0, "inputs") \in {None, Base}

RInv ==
    AgreedInv /\ FiledInv /\ KnownVerdicts /\ UntouchedInv /\ RefusalInv /\ InputsInv

-----------------------------------------------------------------------------
(* What is written is evidence, and not None.                                            *)
LEMMA Written ==
    ASSUME NEW tree \in Trees
    PROVE  /\ tree # None
           /\ \A passed \in BOOLEAN : [tree |-> tree, passed |-> passed] # None
           /\ \A found \in SUBSET MechanicalFindings : [tree |-> tree, findings |-> found] # None
<1>1. ASSUME NEW passed \in BOOLEAN PROVE [tree |-> tree, passed |-> passed] # None
  <2>1. [tree |-> tree, passed |-> passed] \in Evidence("validation")
    BY Witnesses
  <2>2. QED
    BY <2>1, NoneAssumption DEF Kinds
<1>2. ASSUME NEW found \in SUBSET MechanicalFindings
      PROVE  [tree |-> tree, findings |-> found] # None
  <2>1. [tree |-> tree, findings |-> found] \in Evidence("mechanical")
    BY Witnesses
  <2>2. QED
    BY <2>1, NoneAssumption DEF Kinds
<1>3. QED
  BY <1>1, <1>2, Told

(* A file of the item that is there stays as it is.                                      *)
LEMMA Kept ==
    ASSUME IInv, Grown, NEW c \in Cycles, NEW kind \in Kinds, files[state.item, c, kind] # None
    PROVE  files'[state.item, c, kind] = files[state.item, c, kind]
BY Here DEF Grown

(* A write changes one file of the item, which was missing.                              *)
LEMMA OneFile ==
    ASSUME IInv, EInv, NEW cycle \in Nat, NEW kind \in Kinds, NEW content,
           \/ /\ files[state.item, cycle, kind] = None
              /\ files' = [files EXCEPT ![<<state.item, cycle, kind>>] = content]
           \/ files' = files
    PROVE  /\ Grown
           /\ kind # "review" => KeepsReviews
           /\ \A c \in Cycles, kd \in Kinds :
                kd # kind => files'[state.item, c, kd] = files[state.item, c, kd]
<1>1. DOMAIN files = ItemRange \X Cycles \X Kinds
  BY DEF EInv, PInv, ShapeInv, FilesInv
<1>2. \A k \in ItemRange, c \in Cycles, kd \in Kinds :
        <<k, c, kd>> # <<state.item, cycle, kind>> => files'[k, c, kd] = files[k, c, kd]
  BY <1>1
<1>3. Grown
  <2> SUFFICES ASSUME NEW k \in ItemRange, NEW c \in Cycles, NEW kd \in Kinds,
                      files[k, c, kd] # None
               PROVE  files'[k, c, kd] = files[k, c, kd]
    BY DEF Grown
  <2>1. CASE <<k, c, kd>> = <<state.item, cycle, kind>>
    <3>1. files[state.item, cycle, kind] # None
      BY <2>1
    <3>2. QED
      BY <3>1
  <2>2. QED
    BY <2>1, <1>2
<1>4. QED
  BY <1>2, <1>3, Here DEF KeepsReviews

(* The cycles a step writes evidence for.                                                *)
LEMMA CyclesInNat ==
    ASSUME IInv
    PROVE  /\ state.count \in Nat /\ state.count + 1 \in Nat /\ Cycle \in Nat
           /\ {"inputs", "proposal", "applied", "manifest", "validation", "context",
               "mechanical", "review-context", "witness", "commit", "review"} \subseteq Kinds
BY DEF IInv, CycleInv, Cycles, Cycle, Kinds

(* The verdicts stay in the files while the state stands and files only grow.            *)
LEMMA AgreedStays ==
    ASSUME IInv, EInv, AgreedInv, state' = state, Grown
    PROVE  AgreedInv'
<1>1. CASE state.node # "CLASSIFY_FAILURE"
  BY <1>1 DEF AgreedInv
<1>2. CASE state.node = "CLASSIFY_FAILURE"
  <2>1. /\ Manifest \in Trees /\ state.count \in Cycles
        /\ "validation" \in Kinds /\ "review" \in Kinds
    BY <1>2, Named DEF EInv, JudgedNodes, Kinds
  <2>2. /\ [tree |-> Manifest, passed |-> FALSE] # None
        /\ [tree |-> Manifest, passed |-> TRUE] # None
    BY <2>1, Written
  <2>3. FailedChecks => FailedChecks'
    <3>1. SUFFICES ASSUME FailedChecks PROVE FailedChecks'
      OBVIOUS
    <3>2. files[state.item, state.count, "validation"] = [tree |-> Manifest, passed |-> FALSE]
      BY <3>1 DEF FailedChecks, At
    <3>3. files'[state.item, state.count, "validation"] =
            files[state.item, state.count, "validation"]
      BY <2>1, <2>2, <3>2, Kept
    <3>4. QED
      BY <3>2, <3>3 DEF FailedChecks, At, Manifest
  <2>4. FailedReview => FailedReview'
    <3>1. SUFFICES ASSUME FailedReview PROVE FailedReview'
      OBVIOUS
    <3>2. /\ files[state.item, state.count, "validation"] = [tree |-> Manifest, passed |-> TRUE]
          /\ files[state.item, state.count, "review"] # None
      BY <3>1 DEF FailedReview, Validated, Exists, At
    <3>3. /\ files'[state.item, state.count, "validation"] =
               files[state.item, state.count, "validation"]
          /\ files'[state.item, state.count, "review"] =
               files[state.item, state.count, "review"]
      BY <2>1, <2>2, <3>2, Kept
    <3>4. QED
      BY <3>1, <3>2, <3>3 DEF FailedReview, Validated, Exists, At, Manifest, ReviewPassed,
                              ReviewFindings
  <2>5. QED
    BY <1>2, <2>3, <2>4 DEF AgreedInv
<1>3. QED
  BY <1>1, <1>2

(* A review of the item is one of its type.                                              *)
LEMMA ReviewType ==
    ASSUME IInv, EInv, NEW c \in Cycles, files[state.item, c, "review"] # None
    PROVE  files[state.item, c, "review"] \in Reviews
<1>1. files[state.item, c, "review"] \in Evidence("review") \cup {None}
  BY Here DEF EInv, PInv, ShapeInv, FilesInv
<1>2. QED
  BY <1>1, Witnesses DEF Reviews

(* What a review was made from stays with it.                                            *)
LEMMA FiledStays ==
    ASSUME IInv, EInv, FiledInv, state' = state, Grown, KeepsReviews
    PROVE  FiledInv'
<1> DEFINE r == files[state.item, state.count, "review"]
<1>1. \A c \in Cycles : files'[state.item, c, "review"] = files[state.item, c, "review"]
  BY Here DEF KeepsReviews
<1>2. state.count \in Cycles
  BY Named DEF EInv
<1>3. \A c \in Cycles : files'[state'.item, c, "review"] # None =>
         \/ c < state'.count
         \/ /\ c = state'.count
            /\ \/ state'.node \in {"REVIEW", "CLOSE_TASK", "FINALIZE"}
               \/ state'.node = "CLASSIFY_FAILURE" /\ state'.prev = "REVIEW"
  BY <1>1 DEF FiledInv, Exists, At
<1>4. ASSUME state.node \in {"REVIEW", "CLASSIFY_FAILURE"}, r # None
      PROVE  ReviewFiled'
  <2>1. /\ r.tree = Manifest
        /\ files[state.item, state.count, "mechanical"] =
             [tree |-> Manifest, findings |-> r.mechanical]
        /\ r.mechanical = {} =>
             /\ files[state.item, state.count, "validation"] =
                  [tree |-> Manifest, passed |-> TRUE]
             /\ files[state.item, state.count, "review-context"] = Manifest
    BY <1>4 DEF FiledInv, ReviewFiled, Exists, At, Validated
  <2>2. Manifest \in Trees
    BY <1>4, Named DEF EInv, JudgedNodes
  <2>3. r.mechanical \in SUBSET MechanicalFindings
    BY <1>2, <1>4, ReviewType DEF Reviews
  <2>4. {"mechanical", "validation", "review-context"} \subseteq Kinds
    BY DEF Kinds
  <2> HIDE DEF r
  <2>5. files'[state.item, state.count, "mechanical"] =
          [tree |-> Manifest, findings |-> r.mechanical]
    BY <1>2, <2>1, <2>2, <2>3, <2>4, Written, Kept
  <2>6. r.mechanical = {} =>
             /\ files'[state.item, state.count, "validation"] =
                  [tree |-> Manifest, passed |-> TRUE]
             /\ files'[state.item, state.count, "review-context"] = Manifest
    BY <1>2, <2>1, <2>2, <2>4, Written, Kept
  <2>7. files'[state.item, state.count, "review"] = r
    BY <1>1, <1>2 DEF r
  <2>8. QED
    BY <2>1, <2>5, <2>6, <2>7 DEF ReviewFiled, At, Manifest, Validated
<1>5. files'[state'.item, state'.count, "review"] = r
  BY <1>1, <1>2
<1> HIDE DEF r
<1>6. QED
  BY <1>3, <1>4, <1>5 DEF FiledInv, Exists, At, r

(* The worktree stays what it is while a node works that has no side effect.             *)
LEMMA TrackQuiet ==
    ASSUME TrackInv, state' = state, repo' = repo, state.node \notin SideEffectNodes
    PROVE  TrackInv'
BY DEF TrackInv, SideEffectNodes, AuthorNodes, BaseClean, CleanAt, Base, TreeOf, Manifest

(* The worktree stays what it is outside the nodes.                                      *)
LEMMA TrackStays ==
    ASSUME TrackInv, state' = state, repo' = repo, AtRest' => AtRest, pc' # "return"
    PROVE  TrackInv'
BY DEF TrackInv, BaseClean, CleanAt, Base, TreeOf, Manifest

(* While a side effect is under way nothing is said of the worktree, until it is over.   *)
LEMMA TrackBusy ==
    ASSUME IInv, state' = state, state.node \in SideEffectNodes, started',
           pc' \notin {"idle"} \cup Nodes,
           pc' = "return" /\ mem'.result # "stop" =>
             /\ state.node \in AuthorNodes => repo'.head = Base /\ repo'.tree = mem'.manifest
             /\ state.node = "CLOSE_TASK" =>
                  /\ repo'.exists /\ repo'.head = mem'.sha
                  /\ repo'.tree = (IF mem'.sha = <<>> THEN BaseTree
                                   ELSE mem'.sha[Len(mem'.sha)])
    PROVE  TrackInv'
BY DEF TrackInv, AtRest, SideEffectNodes, AuthorNodes, CleanAt, Base, TreeOf

(* A step within a node.                                                                 *)
LEMMA WorkingSide ==
    ASSUME IInv, EInv, RInv, state' = state, started' = started,
           pc \notin {"idle", "down"}, refused' = refused,
           drifts' = drifts, pinned' = pinned,
           Grown, FiledInv', KnownVerdicts',
           state.node = "EXPLORE" =>
             files' = files \/ files'[state.item, 0, "inputs"] = Base,
           drifts = 0 => TrackInv'
    PROVE  RInv'
<1>1. AgreedInv'
  BY AgreedStays DEF RInv
<1>2. started
  BY DEF IInv, StepInv
<1>3. UntouchedInv'
  BY <1>2 DEF RInv, UntouchedInv
<1>4. RefusalInv'
  BY DEF RInv, RefusalInv
<1>5. InputsInv'
  BY DEF RInv, InputsInv, At, Base
<1>6. QED
  BY <1>1, <1>3, <1>4, <1>5 DEF RInv

-----------------------------------------------------------------------------
(* A node whose process returns a failed or blocked result.                              *)
LEMMA FailRefusal == IInv /\ EInv /\ RInv /\ Fail => RInv'
<1> SUFFICES ASSUME IInv, EInv, RInv, Fail PROVE RInv'
  OBVIOUS
<1>1. PICK step \in Failing : Stops(step)
  BY DEF Fail
<1>2. /\ pc = step /\ pc' = "return" /\ state' = state /\ files' = files /\ repo' = repo
      /\ started' = started /\ refused' = refused /\ drifts' = drifts /\ pinned' = pinned
      /\ mem' = [mem EXCEPT !.result = "stop"]
  BY <1>1 DEF Stops, Returns, Inside, outside, bounded
<1>3. mem'.result = "stop" /\ pc \notin {"idle", "down"}
  BY <1>2 DEF EInv, PInv, ShapeInv, MemInv, NoMem, Failing
<1>4. Grown /\ FiledInv' /\ KnownVerdicts'
  <2>1. Grown /\ KeepsReviews
    BY <1>2 DEF Grown, KeepsReviews
  <2>2. KnownVerdicts'
    BY <1>2, <1>3 DEF KnownVerdicts
  <2>3. QED
    BY <1>2, <2>1, <2>2, FiledStays DEF RInv
<1>5. drifts = 0 => TrackInv'
  <2>1. CASE state.node \in SideEffectNodes
    BY <1>2, <1>3, <2>1, TrackBusy DEF IInv, StepInv, Nodes
  <2>2. CASE state.node \notin SideEffectNodes
    BY <1>2, <2>2, TrackQuiet DEF RInv, UntouchedInv
  <2>3. QED
    BY <2>1, <2>2
<1>6. QED
  BY <1>2, <1>3, <1>4, <1>5, WorkingSide

(* The analysis of an item leaves its worktree alone.                                    *)
LEMMA ExploreRefusal == IInv /\ EInv /\ RInv /\ (Explore \/ ExploreAgain) => RInv'
<1> SUFFICES ASSUME IInv, EInv, RInv, Explore \/ ExploreAgain PROVE RInv'
  OBVIOUS
<1>1. /\ pc = "EXPLORE" /\ pc' = "return" /\ state' = state /\ repo' = repo
      /\ started' = started /\ refused' = refused /\ drifts' = drifts /\ pinned' = pinned
  BY DEF Explore, ExploreAgain, Returns, Inside, outside, bounded
<1>2. state.node = "EXPLORE"
  BY <1>1 DEF IInv, StepInv, Nodes
<1>3. \/ files' = files
      \/ /\ files[state.item, 0, "inputs"] = None
         /\ files' = [files EXCEPT ![<<state.item, 0, "inputs">>] = Base]
  BY DEF Explore, ExploreAgain, WriteOrAgree, Write, Exists, At
<1>4. Grown /\ KeepsReviews
  BY <1>3, OneFile DEF Kinds
<1>5. files' = files \/ files'[state.item, 0, "inputs"] = Base
  BY <1>3, Here DEF EInv, PInv, ShapeInv, FilesInv, Kinds
<1>6. FiledInv' /\ KnownVerdicts'
  BY <1>1, <1>2, <1>4, FiledStays DEF RInv, KnownVerdicts
<1>7. drifts = 0 => TrackInv'
  BY <1>1, <1>2, TrackQuiet DEF RInv, UntouchedInv, SideEffectNodes
<1>8. QED
  BY <1>1, <1>4, <1>5, <1>6, <1>7, WorkingSide

(* An author ends with the worktree at the manifest it captured.                         *)
LEMMA AuthorRefusal == IInv /\ EInv /\ RInv /\ Author => RInv'
<1> SUFFICES ASSUME IInv, EInv, RInv, Author PROVE RInv'
  OBVIOUS
<1>1. /\ pc \in {"IMPLEMENT", "REPAIR", "propose", "apply", "applied", "capture"}
      /\ pc' \in {"propose", "apply", "applied", "capture", "return"}
      /\ state' = state /\ started' = started /\ refused' = refused
      /\ drifts' = drifts /\ pinned' = pinned
  BY DEF Author, OpenWorkspace, PrepareRepair, Propose, Apply, RecordApplied,
         CaptureManifest, Inside, outside, bounded
<1>2. state.node \in AuthorNodes /\ started
  BY <1>1 DEF IInv, StepInv, Nodes, AuthorNodes
<1>3. Grown /\ KeepsReviews
  <2>1. CASE OpenWorkspace \/ PrepareRepair \/ Apply
    BY <2>1 DEF OpenWorkspace, PrepareRepair, Apply, Grown, KeepsReviews
  <2>2. CASE Propose
    <3>1. PICK tree : /\ files[state.item, Cycle, "proposal"] = None
                      /\ files' = [files EXCEPT ![<<state.item, Cycle, "proposal">>] = tree]
      BY <2>2 DEF Propose, Write, Exists, At
    <3>2. QED
      BY <3>1, OneFile, CyclesInNat
  <2>3. CASE RecordApplied
    <3>1. /\ files[state.item, Cycle, "applied"] = None
          /\ files' = [files EXCEPT ![<<state.item, Cycle, "applied">>] = mem.proposal]
      BY <2>3 DEF RecordApplied, Write, Exists, At
    <3>2. Cycle \in Nat /\ "applied" \in Kinds
      BY CyclesInNat
    <3>3. "applied" # "review"
      OBVIOUS
    <3>4. QED
      BY <3>1, <3>2, <3>3, OneFile
  <2>4. CASE CaptureManifest
    <3>1. /\ files[state.item, Cycle, "manifest"] = None
          /\ files' = [files EXCEPT ![<<state.item, Cycle, "manifest">>] = repo.tree]
      BY <2>4 DEF CaptureManifest, Write, Exists, At
    <3>2. Cycle \in Nat /\ "manifest" \in Kinds
      BY CyclesInNat
    <3>3. "manifest" # "review"
      OBVIOUS
    <3>4. QED
      BY <3>1, <3>2, <3>3, OneFile
  <2>5. QED
    BY <2>1, <2>2, <2>3, <2>4 DEF Author
<1>4. FiledInv' /\ KnownVerdicts'
  BY <1>1, <1>2, <1>3, FiledStays DEF RInv, KnownVerdicts, AuthorNodes
<1>5. pc' = "return" => repo'.head = Base /\ repo'.tree = mem'.manifest
  <2> SUFFICES ASSUME pc' = "return" PROVE repo'.head = Base /\ repo'.tree = mem'.manifest
    OBVIOUS
  <2>1. CaptureManifest
    BY DEF Author, OpenWorkspace, PrepareRepair, Propose, Apply, RecordApplied, Inside
  <2>2. /\ repo.head = Base /\ repo' = repo
        /\ mem' = [mem EXCEPT !.manifest = repo.tree, !.cycle = Cycle, !.validated = FALSE,
                              !.reviewed = FALSE, !.findings = {}, !.result = "done"]
    BY <2>1 DEF CaptureManifest, outside
  <2>3. QED
    BY <2>2 DEF EInv, PInv, ShapeInv, MemInv, NoMem
<1>6. TrackInv'
  <2>1. pc' \notin {"idle"} \cup Nodes /\ started' /\ state.node \in SideEffectNodes
    BY <1>1, <1>2 DEF Nodes, AuthorNodes, SideEffectNodes
  <2>2. QED
    BY <1>1, <1>2, <1>5, <2>1, TrackBusy DEF AuthorNodes
<1>7. QED
  BY <1>1, <1>2, <1>3, <1>4, <1>6, WorkingSide DEF AuthorNodes

(* What the validation said of the manifest is what it filed.                            *)
LEMMA ValidateRefusal == IInv /\ EInv /\ RInv /\ (RestoreValidation \/ RunChecks) => RInv'
<1> SUFFICES ASSUME IInv, EInv, RInv, RestoreValidation \/ RunChecks PROVE RInv'
  OBVIOUS
<1> DEFINE v == files'[state.item, state.count, "validation"]
<1>1. /\ pc = "VALIDATE" /\ pc' = "return" /\ state' = state /\ repo' = repo
      /\ started' = started /\ refused' = refused /\ drifts' = drifts /\ pinned' = pinned
  BY DEF RestoreValidation, RunChecks, Inside, outside, bounded
<1>2. state.node = "VALIDATE"
  BY <1>1 DEF IInv, StepInv, Nodes
<1>3. /\ mem.manifest = Manifest /\ Manifest \in Trees /\ state.count \in Cycles
  BY <1>1, <1>2, JudgeCycle DEF JudgedNodes
<1>4. /\ Grown /\ KeepsReviews
      /\ v \in [tree : Trees, passed : BOOLEAN] /\ v.tree = Manifest
      /\ mem'.result = IF v.passed THEN "pass" ELSE "fail"
  <2>1. CASE RestoreValidation
    <3>1. /\ files' = files /\ v # None /\ v.tree = mem.manifest
          /\ mem' = [mem EXCEPT !.validated = v.passed,
                                !.result = IF v.passed THEN "pass" ELSE "fail"]
      BY <2>1 DEF RestoreValidation, ValidationRestorable, Exists, At
    <3>2. v \in Evidence("validation") \cup {None}
      BY <1>3, <3>1, Here DEF EInv, PInv, ShapeInv, FilesInv, Kinds
    <3>3. v \in [tree : Trees, passed : BOOLEAN]
      BY <3>1, <3>2, Witnesses
    <3> HIDE DEF v
    <3>4. mem'.result = IF v.passed THEN "pass" ELSE "fail"
      BY <3>1 DEF EInv, PInv, ShapeInv, MemInv, NoMem
    <3>5. Grown /\ KeepsReviews
      BY <3>1 DEF Grown, KeepsReviews
    <3>6. QED
      BY <1>3, <3>1, <3>3, <3>4, <3>5
  <2>2. CASE RunChecks
    <3>1. PICK passed \in BOOLEAN :
            /\ files[state.item, state.count, "validation"] = None
            /\ files' = [files EXCEPT ![<<state.item, state.count, "validation">>] =
                                        [tree |-> mem.manifest, passed |-> passed]]
            /\ mem' = [mem EXCEPT !.validated = passed,
                                  !.result = IF passed THEN "pass" ELSE "fail"]
      BY <2>2 DEF RunChecks, Write, Exists, At
    <3>2. v = [tree |-> mem.manifest, passed |-> passed]
      BY <1>3, <3>1, Here DEF EInv, PInv, ShapeInv, FilesInv, Kinds
    <3>3. Grown /\ KeepsReviews
      <4>1. state.count \in Nat /\ "validation" \in Kinds
        BY CyclesInNat
      <4>2. "validation" # "review"
        OBVIOUS
      <4>3. QED
        BY <3>1, <4>1, <4>2, OneFile
    <3>4. mem'.result = IF passed THEN "pass" ELSE "fail"
      BY <3>1 DEF EInv, PInv, ShapeInv, MemInv, NoMem
    <3> HIDE DEF v
    <3>5. QED
      BY <1>3, <3>2, <3>3, <3>4
  <2>3. QED
    BY <2>1, <2>2
<1>5. mem'.result # "pass" => v = [tree |-> Manifest, passed |-> FALSE]
  <2> HIDE DEF v
  <2>1. QED
    BY <1>4
<1>6. FiledInv' /\ KnownVerdicts'
  BY <1>1, <1>2, <1>4, <1>5, FiledStays DEF RInv, KnownVerdicts, FailedChecks, At, Manifest
<1>7. drifts = 0 => TrackInv'
  BY <1>1, <1>2, TrackQuiet DEF RInv, UntouchedInv, SideEffectNodes
<1>8. QED
  BY <1>1, <1>2, <1>4, <1>6, <1>7, WorkingSide

(* Classifying a failure judges nothing.                                                 *)
LEMMA ClassifyRefusal == IInv /\ EInv /\ RInv /\ ClassifyFailure => RInv'
<1> SUFFICES ASSUME IInv, EInv, RInv, ClassifyFailure PROVE RInv'
  OBVIOUS
<1>1. /\ pc = "CLASSIFY_FAILURE" /\ pc' = "return" /\ state' = state /\ repo' = repo
      /\ started' = started /\ refused' = refused /\ drifts' = drifts /\ pinned' = pinned
  BY DEF ClassifyFailure, Returns, Inside, outside, bounded
<1>2. state.node = "CLASSIFY_FAILURE"
  BY <1>1 DEF IInv, StepInv, Nodes
<1>3. PICK next, content :
        /\ next \in Nat
        /\ \/ files' = files
           \/ /\ files[state.item, next, "context"] = None
              /\ files' = [files EXCEPT ![<<state.item, next, "context">>] = content]
  BY CyclesInNat DEF ClassifyFailure, WriteOrAgree, Write, Exists, At
<1>4. Grown /\ KeepsReviews
  BY <1>3, OneFile DEF Kinds
<1>5. FiledInv' /\ KnownVerdicts'
  BY <1>1, <1>2, <1>4, FiledStays DEF RInv, KnownVerdicts
<1>6. drifts = 0 => TrackInv'
  BY <1>1, <1>2, TrackQuiet DEF RInv, UntouchedInv, SideEffectNodes
<1>7. QED
  BY <1>1, <1>2, <1>4, <1>5, <1>6, WorkingSide

-----------------------------------------------------------------------------
(* Restoring a review takes over the findings that are filed.                            *)
LEMMA RestoreRefusal == IInv /\ EInv /\ RInv /\ RestoreReview => RInv'
<1> SUFFICES ASSUME IInv, EInv, RInv, RestoreReview PROVE RInv'
  OBVIOUS
<1> DEFINE r == files[state.item, state.count, "review"]
<1>1. /\ pc = "REVIEW" /\ pc' = "return" /\ state' = state /\ repo' = repo /\ files' = files
      /\ started' = started /\ refused' = refused /\ drifts' = drifts /\ pinned' = pinned
      /\ r # None
      /\ mem' = [mem EXCEPT !.reviewed = ReviewPassed(r), !.findings = ReviewFindings(r),
                            !.result = Verdict(r)]
  BY DEF RestoreReview, Inside, outside, bounded, Exists, At, Verdict
<1>2. state.node = "REVIEW"
  BY <1>1 DEF IInv, StepInv, Nodes
<1>3. mem'.findings = ReviewFindings(r)
  <2> HIDE DEF r
  <2>1. QED
    BY <1>1 DEF EInv, PInv, ShapeInv, MemInv, NoMem
<1>4. Grown /\ KeepsReviews
  BY <1>1 DEF Grown, KeepsReviews
<1>5. FiledInv'
  BY <1>1, <1>4, FiledStays DEF RInv
<1>6. KnownVerdicts'
  BY <1>1, <1>2, <1>3 DEF KnownVerdicts, At, ReviewFindings
<1>7. drifts = 0 => TrackInv'
  BY <1>1, <1>2, TrackQuiet DEF RInv, UntouchedInv, SideEffectNodes
<1>8. QED
  BY <1>1, <1>2, <1>4, <1>5, <1>6, <1>7, WorkingSide

(* What the mechanical part found is what it froze.                                      *)
LEMMA MechanicalRefusal == IInv /\ EInv /\ RInv /\ ReviewMechanically => RInv'
<1> SUFFICES ASSUME IInv, EInv, RInv, ReviewMechanically PROVE RInv'
  OBVIOUS
<1> DEFINE found == Mechanical
           record == [tree |-> mem.manifest, findings |-> found]
<1>1. /\ pc = "REVIEW" /\ pc' \in {"review-context", "judge"} /\ state' = state /\ repo' = repo
      /\ started' = started /\ refused' = refused /\ drifts' = drifts /\ pinned' = pinned
      /\ mem' = [mem EXCEPT !.findings = found, !.semantic = None]
      /\ \/ /\ files[state.item, state.count, "mechanical"] = None
            /\ files' = [files EXCEPT ![<<state.item, state.count, "mechanical">>] = record]
         \/ files[state.item, state.count, "mechanical"] = record /\ files' = files
  BY DEF ReviewMechanically, Inside, outside, bounded, WriteOrAgree, Write, Exists, At
<1> HIDE DEF found
<1>2. state.node = "REVIEW"
  BY <1>1 DEF IInv, StepInv, Nodes
<1>3. mem.manifest = Manifest /\ state.count \in Cycles
  BY <1>1, <1>2, JudgeCycle DEF JudgedNodes
<1>4. Grown /\ KeepsReviews
  <2> HIDE DEF record
  <2>1. QED
    BY <1>1, OneFile, CyclesInNat DEF Kinds
<1>5. files'[state.item, state.count, "mechanical"] = record
  BY <1>1, <1>3, Here DEF EInv, PInv, ShapeInv, FilesInv, Kinds
<1>6. mem'.findings = found
  BY <1>1 DEF EInv, PInv, ShapeInv, MemInv, NoMem
<1>7. FiledInv'
  BY <1>1, <1>4, FiledStays DEF RInv
<1>8. KnownVerdicts'
  BY <1>1, <1>3, <1>5, <1>6 DEF KnownVerdicts, At, Manifest
<1>9. drifts = 0 => TrackInv'
  BY <1>1, <1>2, TrackQuiet DEF RInv, UntouchedInv, SideEffectNodes
<1>10. QED
  BY <1>1, <1>2, <1>4, <1>7, <1>8, <1>9, WorkingSide

(* The context and the reviewer leave what was found alone.                              *)
LEMMA ContextRefusal == IInv /\ EInv /\ RInv /\ (FreezeContext \/ ReviewSemantically) => RInv'
<1> SUFFICES ASSUME IInv, EInv, RInv, FreezeContext \/ ReviewSemantically PROVE RInv'
  OBVIOUS
<1>1. /\ pc \in {"review-context", "semantic"} /\ pc' \in {"semantic", "judge"}
      /\ state' = state /\ repo' = repo
      /\ started' = started /\ refused' = refused /\ drifts' = drifts /\ pinned' = pinned
      /\ \/ files' = files
         \/ /\ files[state.item, state.count, "review-context"] = None
            /\ files' = [files EXCEPT
                           ![<<state.item, state.count, "review-context">>] = mem.manifest]
  BY DEF FreezeContext, ReviewSemantically, Inside, outside, bounded, WriteOrAgree, Write,
         Exists, At
<1>2. mem' = mem \/ \E verdict : mem' = [mem EXCEPT !.semantic = verdict]
  BY DEF FreezeContext, ReviewSemantically
<1>3. mem'.findings = mem.findings
  BY <1>2 DEF EInv, PInv, ShapeInv, MemInv, NoMem
<1>4. state.node = "REVIEW" /\ state.count \in Cycles
  BY <1>1, Named DEF IInv, StepInv, EInv
<1>5. /\ Grown /\ KeepsReviews
      /\ \A c \in Cycles, kd \in Kinds : kd # "review-context" =>
           files'[state.item, c, kd] = files[state.item, c, kd]
  <2>1. state.count \in Nat /\ "review-context" \in Kinds
    BY CyclesInNat
  <2>2. CASE files' = files
    BY <2>2 DEF Grown, KeepsReviews
  <2>3. CASE files' # files
    <3>1. /\ files[state.item, state.count, "review-context"] = None
          /\ files' = [files EXCEPT
                         ![<<state.item, state.count, "review-context">>] = mem.manifest]
      BY <1>1, <2>3
    <3>2. QED
      BY <2>1, <3>1, OneFile
  <2>4. QED
    BY <2>2, <2>3
<1>6. files'[state.item, state.count, "mechanical"] = files[state.item, state.count, "mechanical"]
  BY <1>4, <1>5 DEF Kinds
<1>7. FiledInv'
  BY <1>1, <1>5, FiledStays DEF RInv
<1>8. KnownVerdicts'
  BY <1>1, <1>3, <1>6 DEF RInv, KnownVerdicts, At, Manifest
<1>9. drifts = 0 => TrackInv'
  BY <1>1, <1>4, TrackQuiet DEF RInv, UntouchedInv, SideEffectNodes
<1>10. QED
  BY <1>1, <1>4, <1>5, <1>7, <1>8, <1>9, WorkingSide

(* The review that is filed is about the manifest and agrees with its mechanical part.   *)
LEMMA ReviewRefusal == IInv /\ EInv /\ RInv /\ WriteReview => RInv'
<1> SUFFICES ASSUME IInv, EInv, RInv, WriteReview PROVE RInv'
  OBVIOUS
<1> DEFINE r == [tree |-> mem.manifest, mechanical |-> mem.findings, semantic |-> mem.semantic]
<1>1. /\ pc = "judge" /\ pc' = "return" /\ state' = state /\ repo' = repo
      /\ started' = started /\ refused' = refused /\ drifts' = drifts /\ pinned' = pinned
      /\ files[state.item, state.count, "review"] = None
      /\ files' = [files EXCEPT ![<<state.item, state.count, "review">>] = r]
      /\ mem' = [mem EXCEPT !.reviewed = ReviewPassed(r), !.findings = ReviewFindings(r),
                            !.result = Verdict(r)]
  BY DEF WriteReview, Inside, outside, bounded, Write, Exists, At, Verdict
<1>2. state.node = "REVIEW"
  BY <1>1 DEF IInv, StepInv
<1>3. mem.manifest = Manifest /\ state.count \in Cycles
  BY <1>1, <1>2, JudgeCycle DEF JudgedNodes
<1>4. /\ Grown
      /\ \A c \in Cycles, kd \in Kinds :
           kd # "review" => files'[state.item, c, kd] = files[state.item, c, kd]
  <2> HIDE DEF r
  <2>1. QED
    BY <1>1, OneFile, CyclesInNat
<1>5. /\ files'[state.item, state.count, "review"] = r
      /\ \A c \in Cycles : c # state.count =>
           files'[state.item, c, "review"] = files[state.item, c, "review"]
  <2> HIDE DEF r
  <2>1. QED
    BY <1>1, <1>3, Here DEF EInv, PInv, ShapeInv, FilesInv
<1>6. mem'.findings = ReviewFindings(r)
  <2> HIDE DEF r
  <2>1. QED
    BY <1>1 DEF EInv, PInv, ShapeInv, MemInv, NoMem
<1>7. /\ files[state.item, state.count, "mechanical"] =
           [tree |-> Manifest, findings |-> mem.findings]
      /\ mem.findings = {} => files[state.item, state.count, "review-context"] = Manifest
      /\ files[state.item, state.count, "validation"] = [tree |-> Manifest, passed |-> TRUE]
  BY <1>1, <1>2 DEF RInv, KnownVerdicts, EInv, JudgeMem, PInv, VerdictInv, Validated, At
<1>8. r.tree = Manifest /\ r.mechanical = mem.findings
  BY <1>3
<1> HIDE DEF r
<1>9. /\ files'[state.item, state.count, "mechanical"] =
           [tree |-> Manifest, findings |-> r.mechanical]
      /\ r.mechanical = {} => files'[state.item, state.count, "review-context"] = Manifest
      /\ files'[state.item, state.count, "validation"] = [tree |-> Manifest, passed |-> TRUE]
  <2>1. {"mechanical", "review-context", "validation"} \subseteq Kinds \ {"review"}
    BY DEF Kinds
  <2>2. QED
    BY <1>3, <1>4, <1>7, <1>8, <2>1
<1>10. FiledInv'
  <2>1. ReviewFiled'
    BY <1>1, <1>5, <1>8, <1>9 DEF ReviewFiled, At, Manifest, Validated
  <2>2. \A c \in Cycles : files'[state'.item, c, "review"] # None =>
           \/ c < state'.count
           \/ c = state'.count /\ state'.node \in {"REVIEW", "CLOSE_TASK", "FINALIZE"}
    BY <1>1, <1>2, <1>5 DEF RInv, FiledInv, Exists, At
  <2>3. QED
    BY <2>1, <2>2 DEF FiledInv, Exists, At
<1>11. KnownVerdicts'
  BY <1>1, <1>2, <1>5, <1>6 DEF KnownVerdicts, At, ReviewFindings
<1>12. drifts = 0 => TrackInv'
  BY <1>1, <1>2, TrackQuiet DEF RInv, UntouchedInv, SideEffectNodes
<1>13. QED
  BY <1>1, <1>2, <1>4, <1>10, <1>11, <1>12, WorkingSide

(* A commit that is verified leaves the worktree clean at it.                            *)
LEMMA CloseRefusal ==
    ASSUME IInv, EInv, RInv, Close, pc' # "down"
    PROVE  RInv'
<1>1. /\ pc \in {"CLOSE_TASK", "git-commit", "witness", "uncertain", "verify"}
      /\ pc' \in {"git-commit", "witness", "uncertain", "verify", "return"}
      /\ state' = state /\ started' = started /\ refused' = refused
      /\ drifts' = drifts /\ pinned' = pinned
  <2>1. CASE CheckCommit \/ GitCommit
    BY <2>1 DEF CheckCommit, GitCommit, Inside, outside, bounded
  <2>2. CASE GitCommitFails
    BY <2>2 DEF GitCommitFails, Stops, Returns, Inside, outside, bounded
  <2>3. CASE WriteWitness
    BY <2>3 DEF WriteWitness, Leave, outside, bounded
  <2>4. CASE VerifyCommit
    BY <2>4 DEF VerifyCommit, Returns, Inside, outside, bounded
  <2>5. CASE PostCommitRecoveryRequired
    BY <2>5 DEF PostCommitRecoveryRequired, Leave
  <2>6. QED
    BY <2>1, <2>2, <2>3, <2>4, <2>5 DEF Close
<1>2. state.node = "CLOSE_TASK" /\ started
  BY <1>1 DEF IInv, StepInv, Nodes
<1>3. Grown /\ KeepsReviews
  <2>1. CASE CheckCommit \/ GitCommit \/ GitCommitFails
    <3>1. files' = files
      BY <2>1 DEF CheckCommit, GitCommit, GitCommitFails, Stops
    <3>2. QED
      BY <3>1 DEF Grown, KeepsReviews
  <2>2. CASE WriteWitness
    <3>1. PICK content :
            /\ files[state.item, 0, "witness"] = None
            /\ files' = [files EXCEPT ![<<state.item, 0, "witness">>] = content]
      BY <2>2 DEF WriteWitness, Write, Exists, At
    <3>2. QED
      BY <3>1, OneFile DEF Kinds
  <2>3. CASE VerifyCommit
    <3>1. /\ files[state.item, 0, "commit"] = None
          /\ files' = [files EXCEPT ![<<state.item, 0, "commit">>] = mem.sha]
      BY <2>3 DEF VerifyCommit, Write, Exists, At
    <3>2. QED
      BY <3>1, OneFile DEF Kinds
  <2>4. CASE PostCommitRecoveryRequired
    BY <2>4 DEF PostCommitRecoveryRequired, Leave
  <2>5. QED
    BY <2>1, <2>2, <2>3, <2>4 DEF Close
<1>4. FiledInv' /\ KnownVerdicts'
  BY <1>1, <1>2, <1>3, FiledStays DEF RInv, KnownVerdicts
<1>5. pc' = "return" /\ mem'.result # "stop" =>
        /\ repo'.exists /\ repo'.head = mem'.sha
        /\ repo'.tree = (IF mem'.sha = <<>> THEN BaseTree ELSE mem'.sha[Len(mem'.sha)])
  <2> SUFFICES ASSUME pc' = "return", mem'.result # "stop"
               PROVE  /\ repo'.exists /\ repo'.head = mem'.sha
                      /\ repo'.tree = (IF mem'.sha = <<>> THEN BaseTree
                                       ELSE mem'.sha[Len(mem'.sha)])
    OBVIOUS
  <2>1. VerifyCommit
    <3>1. ~(CheckCommit \/ GitCommit \/ WriteWitness \/ PostCommitRecoveryRequired)
      BY DEF CheckCommit, GitCommit, WriteWitness, PostCommitRecoveryRequired, Leave, Inside
    <3>2. ~GitCommitFails
      BY DEF GitCommitFails, Stops, Returns, Inside, EInv, PInv, ShapeInv, MemInv, NoMem
    <3>3. QED
      BY <3>1, <3>2 DEF Close
  <2>2. /\ repo' = repo /\ mem' = [mem EXCEPT !.result = "done"]
        /\ repo.exists /\ repo.head = mem.sha
        /\ repo.tree = (IF mem.sha = <<>> THEN BaseTree ELSE mem.sha[Len(mem.sha)])
    BY <2>1 DEF VerifyCommit, Returns, Committed, CleanAt, TreeOf, outside
  <2>3. mem'.sha = mem.sha
    BY <2>2 DEF EInv, PInv, ShapeInv, MemInv, NoMem
  <2>4. QED
    BY <2>2, <2>3
<1>6. TrackInv'
  <2>1. pc' \notin {"idle"} \cup Nodes /\ started' /\ state.node \in SideEffectNodes
    BY <1>1, <1>2 DEF Nodes, SideEffectNodes
  <2>2. QED
    BY <1>1, <1>2, <1>5, <2>1, TrackBusy DEF AuthorNodes
<1>7. QED
  BY <1>1, <1>2, <1>3, <1>4, <1>6, WorkingSide

-----------------------------------------------------------------------------
(* Whether a resumed review agrees is a matter of the state and the files.               *)
LEMMA AgreesStays ==
    ASSUME ReviewAgrees, state' = state, files' = files, pinned' = pinned
    PROVE  ReviewAgrees'
BY DEF ReviewAgrees, Restorable, LastCycle, Manifest, JudgementIsCurrent, Exists, At,
       ReviewPassed, ReviewFindings

(* The process enters a node, or is gone.                                                *)
LEMMA OutsideSide ==
    ASSUME IInv, EInv, RInv, state' = state, repo' = repo, pinned' = pinned, drifts' = drifts,
           pc # "down", refused' = refused, Grown, KeepsReviews, AtRest' => AtRest,
           pc' \notin {"return", "review-context", "semantic", "judge"},
           started' \/ (started' = started /\ files' = files),
           state.node = "EXPLORE" => files' = files
    PROVE  RInv'
<1>1. AgreedInv' /\ FiledInv' /\ KnownVerdicts'
  BY AgreedStays, FiledStays DEF RInv, KnownVerdicts
<1>2. drifts = 0 => TrackInv'
  BY TrackStays DEF RInv, UntouchedInv
<1>3. UntouchedInv'
  BY <1>2, AgreesStays DEF RInv, UntouchedInv
<1>4. RefusalInv' /\ InputsInv'
  BY DEF RInv, RefusalInv, InputsInv, At, Base
<1>5. QED
  BY <1>1, <1>3, <1>4 DEF RInv

(* A node is entered with the worktree as the state has it.                              *)
LEMMA EnterRefusal == IInv /\ EInv /\ RInv /\ Enter => RInv'
<1> SUFFICES ASSUME IInv, EInv, RInv, Enter PROVE RInv'
  OBVIOUS
<1>1. /\ pc = "idle" /\ pc' \in Nodes /\ state' = state /\ files' = files /\ repo' = repo
      /\ pinned' = pinned /\ drifts' = drifts /\ refused' = refused /\ started' = TRUE
  BY DEF Enter, StartNode, outside, bounded
<1>2. Grown /\ KeepsReviews /\ AtRest
  BY <1>1 DEF Grown, KeepsReviews, AtRest
<1>3. QED
  BY <1>1, <1>2, OutsideSide DEF Nodes

(* A process that dies, or gives up after a commit, leaves the node started.             *)
LEMMA DownRefusal ==
    IInv /\ EInv /\ RInv /\ (Crash \/ (Close /\ pc' = "down")) => RInv'
<1> SUFFICES ASSUME IInv, EInv, RInv, Crash \/ (Close /\ pc' = "down") PROVE RInv'
  OBVIOUS
<1>1. /\ pc # "down" /\ pc' = "down" /\ state' = state /\ repo' = repo /\ pinned' = pinned
      /\ drifts' = drifts /\ refused' = refused /\ started' = started
      /\ \/ files' = files
         \/ /\ pc \in {"witness", "uncertain"} /\ files[state.item, 0, "witness"] = None
            /\ \E content : files' = [files EXCEPT ![<<state.item, 0, "witness">>] = content]
  <2>1. CASE Crash
    BY <2>1 DEF Crash, Leave, outside
  <2>2. CASE PostCommitRecoveryRequired
    BY <2>2 DEF PostCommitRecoveryRequired, Leave, outside, bounded
  <2>3. CASE WriteWitness /\ pc' = "down"
    <3>1. pc \in {"witness", "uncertain"}
      BY <2>3 DEF WriteWitness
    <3>2. /\ state' = state /\ started' = started /\ refused' = refused
          /\ repo' = repo /\ pinned' = pinned /\ drifts' = drifts
      BY <2>3 DEF WriteWitness, outside, bounded
    <3>3. /\ files[state.item, 0, "witness"] = None
          /\ \E content : files' = [files EXCEPT ![<<state.item, 0, "witness">>] = content]
      BY <2>3 DEF WriteWitness, Write, Exists, At
    <3>4. QED
      BY <2>3, <3>1, <3>2, <3>3
  <2>4. ~(CheckCommit /\ pc' = "down") /\ ~(GitCommit /\ pc' = "down")
    BY DEF CheckCommit, GitCommit, Inside
  <2>5. ~(GitCommitFails /\ pc' = "down") /\ ~(VerifyCommit /\ pc' = "down")
    BY DEF GitCommitFails, VerifyCommit, Stops, Returns, Inside
  <2>6. QED
    BY <2>1, <2>2, <2>3, <2>4, <2>5 DEF Close
<1>2. pc \in {"witness", "uncertain"} => started /\ state.node = "CLOSE_TASK"
  BY DEF IInv, StepInv
<1>3. Grown /\ KeepsReviews
  <2>1. CASE files' = files
    BY <2>1 DEF Grown, KeepsReviews
  <2>2. CASE files' # files
    <3>1. PICK content :
            /\ files[state.item, 0, "witness"] = None
            /\ files' = [files EXCEPT ![<<state.item, 0, "witness">>] = content]
      BY <1>1, <2>2
    <3>2. QED
      BY <3>1, OneFile DEF Kinds
  <2>3. QED
    BY <2>1, <2>2
<1>4. AtRest' => AtRest
  BY <1>1 DEF AtRest, Nodes
<1>5. QED
  BY <1>1, <1>2, <1>3, <1>4, OutsideSide

(* Whoever interferes is a cause, and nothing but the worktree or the target moves.      *)
LEMMA DriftRefusal == IInv /\ EInv /\ RInv /\ Drift => RInv'
<1> SUFFICES ASSUME IInv, EInv, RInv, Drift PROVE RInv'
  OBVIOUS
<1>1. /\ drifts' = drifts + 1 /\ state' = state /\ started' = started /\ files' = files
      /\ pc' = pc /\ mem' = mem /\ refused' = refused
  BY DEF Drift
<1>2. Grown /\ KeepsReviews
  BY <1>1 DEF Grown, KeepsReviews
<1>3. AgreedInv' /\ FiledInv'
  BY <1>1, <1>2, AgreedStays, FiledStays DEF RInv
<1>4. KnownVerdicts'
  BY <1>1 DEF RInv, KnownVerdicts, FailedChecks, At, Manifest, ReviewFindings
<1>5. UntouchedInv' /\ drifts' > 0
  BY <1>1 DEF RInv, UntouchedInv
<1>6. RefusalInv' /\ InputsInv'
  BY <1>1, <1>5 DEF RInv, RefusalInv, InputsInv, At, Base
<1>7. QED
  BY <1>3, <1>4, <1>5, <1>6 DEF RInv

(* Nothing happens.                                                                      *)
LEMMA StutterRefusal == RInv /\ UNCHANGED vars => RInv'
<1> SUFFICES ASSUME RInv, UNCHANGED vars PROVE RInv'
  OBVIOUS
<1>1. /\ state' = state /\ started' = started /\ files' = files /\ repo' = repo
      /\ pinned' = pinned /\ pc' = pc /\ mem' = mem /\ refused' = refused /\ drifts' = drifts
  BY DEF vars
<1>2. AgreedInv'
  BY <1>1 DEF RInv, AgreedInv, FailedChecks, FailedReview, Validated, Exists, At, Manifest,
              ReviewPassed, ReviewFindings
<1>3. FiledInv'
  BY <1>1 DEF RInv, FiledInv, ReviewFiled, Validated, Exists, At, Manifest
<1>4. KnownVerdicts'
  BY <1>1 DEF RInv, KnownVerdicts, FailedChecks, At, Manifest, ReviewFindings
<1>5. TrackInv => TrackInv'
  BY <1>1 DEF TrackInv, AtRest, BaseClean, CleanAt, Base, TreeOf, Manifest
<1>6. UntouchedInv'
  BY <1>1, <1>5, AgreesStays DEF RInv, UntouchedInv
<1>7. RefusalInv' /\ InputsInv'
  BY <1>1 DEF RInv, RefusalInv, Cause, Interrupted, AfterImplement, InputsInv, At, Base
<1>8. QED
  BY <1>2, <1>3, <1>4, <1>6, <1>7 DEF RInv

-----------------------------------------------------------------------------
(* The verdicts a judged state goes on with agree with the files (WriteExecution         *)
(* .rehydrate).                                                                          *)
LEMMA VerdictsAgree ==
    ASSUME IInv, EInv, RInv, pinned, state.node \in JudgedNodes \cup {"REPAIR"},
           state.node = "REVIEW" => ~started \/ state.count = 0,
           state.node = "REVIEW" /\ ~started => ReviewAgrees
    PROVE  ValidationAgrees /\ ReviewAgrees
<1> DEFINE r == files[state.item, state.count, "review"]
           v == files[state.item, state.count, "validation"]
           m == files[state.item, state.count, "mechanical"]
           x == files[state.item, state.count, "review-context"]
<1>1. CASE state.node \in {"REPAIR", "VALIDATE"}
  BY <1>1 DEF ValidationAgrees, ReviewAgrees, JudgementIsCurrent
<1>2. CASE state.node \in {"REVIEW", "CLASSIFY_FAILURE", "CLOSE_TASK"}
  <2>1. LastCycle = state.count /\ Manifest \in Trees /\ state.count \in Cycles
    BY <1>2, Named DEF EInv, JudgedNodes
  <2>2. \/ v = [tree |-> Manifest, passed |-> TRUE] /\ state.validation = "PASS"
        \/ /\ state.node = "CLASSIFY_FAILURE" /\ state.prev = "VALIDATE"
           /\ v = [tree |-> Manifest, passed |-> FALSE] /\ state.validation = "FAIL"
    BY <1>2 DEF RInv, AgreedInv, FailedChecks, FailedReview, EInv, PInv, VerdictInv,
                Validated, At
  <2>3. ValidationAgrees
    <3>1. /\ v.tree = Manifest
          /\ state.validation = (IF v.passed THEN "PASS" ELSE "FAIL")
      <4> HIDE DEF v
      <4>1. CASE v = [tree |-> Manifest, passed |-> TRUE] /\ state.validation = "PASS"
        BY <4>1
      <4>2. CASE v = [tree |-> Manifest, passed |-> FALSE] /\ state.validation = "FAIL"
        BY <4>2
      <4>3. QED
        BY <2>2, <4>1, <4>2
    <3>2. v # None
      BY <2>1, <2>2, Written
    <3>3. QED
      BY <2>1, <3>1, <3>2 DEF ValidationAgrees, ValidationRestorable, Exists, At
  <2>4. ReviewAgrees
    <3>1. CASE state.node = "REVIEW" /\ ~started
      BY <3>1
    <3>2. SUFFICES ASSUME r # None, ~(state.node = "REVIEW" /\ ~started) PROVE ReviewAgrees
      BY <2>1, <3>1 DEF ReviewAgrees, Exists, At
    <3>3. /\ r.tree = Manifest /\ m = [tree |-> Manifest, findings |-> r.mechanical]
          /\ r.mechanical = {} =>
               v = [tree |-> Manifest, passed |-> TRUE] /\ x = Manifest
      <4>1. CASE state.node \in {"REVIEW", "CLASSIFY_FAILURE"}
        BY <3>2, <4>1 DEF RInv, FiledInv, ReviewFiled, Validated, Exists, At
      <4>2. CASE state.node = "CLOSE_TASK"
        <5>1. /\ r = [tree |-> Manifest, mechanical |-> {}, semantic |-> "pass"]
              /\ m = [tree |-> Manifest, findings |-> {}] /\ x = Manifest
              /\ v = [tree |-> Manifest, passed |-> TRUE]
          BY <4>2 DEF EInv, PInv, VerdictInv, Reviewed, MechanicallyPassed, Validated, At
        <5> HIDE DEF r, m, x, v
        <5>2. r.tree = Manifest /\ r.mechanical = {}
          BY <5>1
        <5>3. QED
          BY <5>1, <5>2
      <4>3. QED
        BY <1>2, <4>1, <4>2
    <3>4. state.node = "CLASSIFY_FAILURE" => state.prev = "REVIEW" /\ FailedReview
      <4>1. state.node = "CLASSIFY_FAILURE" => state.prev = "REVIEW"
        <5>1. ~(state.count < state.count)
          BY <2>1 DEF Cycles
        <5>2. QED
          BY <2>1, <3>2, <5>1 DEF RInv, FiledInv, Exists, At
      <4>2. QED
        BY <4>1 DEF RInv, AgreedInv
    <3>5. state.validation = "PASS"
      BY <2>2, <3>4
    <3>6. \/ state.node = "REVIEW" /\ state.review = "UNKNOWN"
          \/ /\ state.review = (IF ReviewPassed(r) THEN "PASS" ELSE "FAIL")
             /\ state.findings = ReviewFindings(r)
      <4>1. CASE state.node = "REVIEW"
        BY <3>2, <4>1 DEF RInv, AgreedInv
      <4>2. CASE state.node = "CLASSIFY_FAILURE"
        BY <3>4, <4>2 DEF FailedReview, At
      <4>3. CASE state.node = "CLOSE_TASK"
        <5>1. r = [tree |-> Manifest, mechanical |-> {}, semantic |-> "pass"]
          BY <4>3 DEF EInv, PInv, VerdictInv, Reviewed, At
        <5>2. r.mechanical = {} /\ r.semantic = "pass"
          <6> HIDE DEF r
          <6>1. QED
            BY <5>1
        <5>3. ReviewPassed(r) /\ ReviewFindings(r) = {}
          BY <5>2 DEF ReviewPassed, ReviewFindings
        <5>4. QED
          BY <4>3, <5>3 DEF RInv, AgreedInv
      <4>4. QED
        BY <1>2, <4>1, <4>2, <4>3
    <3>7. m # None
      <4>1. r.mechanical \in SUBSET MechanicalFindings
        BY <2>1, <3>2, ReviewType DEF Reviews
      <4> HIDE DEF r, m
      <4>2. QED
        BY <2>1, <3>3, <4>1, Written
    <3>8. QED
      BY <2>1, <3>3, <3>5, <3>6, <3>7 DEF ReviewAgrees, Restorable, Exists, At
  <2>5. QED
    BY <2>3, <2>4
<1>3. QED
  BY <1>1, <1>2 DEF JudgedNodes

(* Without a cause a run that is down may go on (WriteSliceRunner.resume).               *)
LEMMA ResumesWithoutCause ==
    ASSUME IInv, EInv, RInv, pc = "down", drifts = 0, ~Cause
    PROVE  MayResume
<1>1. /\ pinned /\ TrackInv /\ ~Interrupted
      /\ state.node = "REVIEW" /\ ~started => ReviewAgrees
  BY DEF RInv, UntouchedInv, Cause
<1>2. state.node \in SideEffectNodes => AtRest
  BY <1>1 DEF Interrupted, AtRest
<1>3. /\ state.node \in {"EXPLORE", "IMPLEMENT"} => state.manifests = <<>>
      /\ state.node \in JudgedNodes \cup {"REPAIR"} => state.manifests # <<>>
      /\ state.node \in Nodes
  BY Named DEF EInv, PInv, LineageInv, IInv, StepInv
<1>4. state.manifests # <<>> /\ state.node # "FINALIZE" => state.completed = <<>>
  <2> SUFFICES ASSUME state.manifests # <<>>, state.node # "FINALIZE"
               PROVE  state.completed = <<>>
    OBVIOUS
  <2>1. ~(state.item > 1) /\ state.item \in ItemRange
    BY DEF Cause, AfterImplement, IInv, CycleInv
  <2>2. Len(state.completed) = state.item - 1 /\ state.completed \in Seq(Commits)
    BY DEF EInv, PInv, CompletedInv, ShapeInv, StateInv
  <2>3. Len(state.completed) = 0
    BY <2>1, <2>2 DEF ItemRange
  <2>4. QED
    BY <2>2, <2>3
<1>5. state.node # "FINALIZE" => (state.completed # <<>> => CleanAt(Base))
  <2>1. CASE state.node \in {"EXPLORE", "IMPLEMENT"}
    BY <1>1, <1>2, <2>1 DEF TrackInv, BaseClean, SideEffectNodes
  <2>2. CASE state.node \in JudgedNodes \cup {"REPAIR"}
    BY <1>3, <1>4, <2>2
  <2>3. QED
    BY <1>3, <2>1, <2>2 DEF Nodes, JudgedNodes
<1>6. state.node = "EXPLORE" => RunBoundary
  BY <1>1, <1>5 DEF RunBoundary
<1>7. state.node # "FINALIZE" => Activates
  BY <1>5 DEF Activates, RInv, InputsInv, EInv, PInv, VerdictInv, Exists
<1>8. state.node # "FINALIZE" => Rehydrates
  <2> SUFFICES ASSUME state.node # "FINALIZE", state.manifests # <<>> PROVE Rehydrates
    BY DEF Rehydrates
  <2>1. state.node \in JudgedNodes \cup {"REPAIR"}
    BY <1>3 DEF Nodes, JudgedNodes
  <2>2. LineageAgrees
    <3>1. LastCycle <= state.count
      BY <2>1, Named DEF EInv, Cycles
    <3>2. \A c \in 0 .. LastCycle : At(c, "proposal") # None
      BY Told DEF EInv, PInv, LineageInv, Authored
    <3>3. QED
      BY <3>1, <3>2 DEF LineageAgrees, EInv, PInv, LineageInv, Authored
  <2>3. ManifestHolds(Manifest)
    BY <1>1, <1>2, <2>1 DEF TrackInv, ManifestHolds, JudgedNodes, SideEffectNodes
  <2>4. state.node = "REVIEW" => ~started \/ state.count = 0
    BY Named DEF Cause, EInv, Cycles
  <2>5. ValidationAgrees /\ ReviewAgrees
    BY <1>1, <2>1, <2>4, VerdictsAgree
  <2>6. QED
    BY <2>2, <2>3, <2>5 DEF Rehydrates
<1>9. QED
  BY <1>1, <1>6, <1>7, <1>8 DEF MayResume, EInv, PInv, CompletedInv

(* A resume is refused for a cause.                                                      *)
LEMMA RefuseRefusal == IInv /\ EInv /\ RInv /\ Refuse => RInv'
<1> SUFFICES ASSUME IInv, EInv, RInv, Refuse PROVE RInv'
  OBVIOUS
<1>1. /\ pc = "down" /\ ~MayResume /\ state' = state /\ started' = started /\ files' = files
      /\ repo' = repo /\ pinned' = pinned /\ pc' = pc /\ mem' = mem /\ drifts' = drifts
  BY DEF Refuse, outside, bounded
<1>2. Grown /\ KeepsReviews
  BY <1>1 DEF Grown, KeepsReviews
<1>3. AgreedInv' /\ FiledInv' /\ KnownVerdicts'
  BY <1>1, <1>2, AgreedStays, FiledStays DEF RInv, KnownVerdicts
<1>4. TrackInv => TrackInv'
  BY <1>1, TrackStays DEF AtRest
<1>5. UntouchedInv'
  BY <1>1, <1>4, AgreesStays DEF RInv, UntouchedInv
<1>6. drifts > 0 \/ Cause
  <2>1. drifts \in Nat
    BY DEF RInv, UntouchedInv
  <2>2. QED
    BY <1>1, <2>1, ResumesWithoutCause
<1>7. RefusalInv' /\ InputsInv'
  <2>1. Cause' = Cause
    BY <1>1 DEF Cause, Interrupted, AfterImplement
  <2>2. QED
    BY <1>1, <1>6, <2>1 DEF RInv, RefusalInv, InputsInv, At, Base
<1>8. QED
  BY <1>3, <1>5, <1>7 DEF RInv

(* A resumed run starts from evidence that agrees with its state.                        *)
LEMMA ResumeRefusal == IInv /\ EInv /\ RInv /\ Resume => RInv'
<1> SUFFICES ASSUME IInv, EInv, RInv, Resume PROVE RInv'
  OBVIOUS
<1>1. /\ pc = "down" /\ pc' = "idle" /\ MayResume /\ state' = state /\ ~started' /\ ~refused'
      /\ repo' = repo /\ pinned' = pinned /\ drifts' = drifts
      /\ \/ files' = files
         \/ /\ files[state.item, 0, "inputs"] = None
            /\ files' = [files EXCEPT ![<<state.item, 0, "inputs">>] = Base]
  BY DEF Resume, outside, bounded, WriteOrAgree, Write, Exists, At
<1>2. Grown /\ KeepsReviews
  BY <1>1, OneFile DEF Kinds
<1>3. AgreedInv' /\ FiledInv' /\ KnownVerdicts'
  BY <1>1, <1>2, AgreedStays, FiledStays DEF RInv, KnownVerdicts
<1>4. TrackInv => TrackInv'
  <2>1. ~Interrupted
    BY <1>1 DEF MayResume
  <2>2. CASE state.node \in SideEffectNodes
    BY <1>1, <2>1, <2>2, TrackStays DEF Interrupted, AtRest
  <2>3. CASE state.node \notin SideEffectNodes
    BY <1>1, <2>3, TrackQuiet
  <2>4. QED
    BY <2>2, <2>3
<1>5. state.node = "REVIEW" => ReviewAgrees'
  <2> SUFFICES ASSUME state.node = "REVIEW" PROVE ReviewAgrees'
    OBVIOUS
  <2>1. state.manifests # <<>>
    BY Named DEF EInv, JudgedNodes
  <2>2. ReviewAgrees
    BY <1>1, <2>1 DEF MayResume, Rehydrates
  <2>3. files[state.item, 0, "inputs"] # None
    BY Named, Told DEF EInv, PInv, VerdictInv, At
  <2>4. QED
    BY <1>1, <2>2, <2>3, AgreesStays
<1>6. UntouchedInv'
  BY <1>1, <1>4, <1>5 DEF RInv, UntouchedInv
<1>7. RefusalInv'
  BY <1>1 DEF RefusalInv
<1>8. InputsInv'
  <2>1. files'[state.item, 0, "inputs"] \in {files[state.item, 0, "inputs"], Base}
    BY <1>1, Here DEF EInv, PInv, ShapeInv, FilesInv, Kinds
  <2>2. QED
    BY <1>1, <2>1 DEF RInv, InputsInv, At, Base
<1>9. QED
  BY <1>3, <1>6, <1>7, <1>8 DEF RInv

-----------------------------------------------------------------------------
(* What a record leaves alone, and what is left to show of it.                           *)
LEMMA RecordSide ==
    ASSUME IInv, EInv, RInv, Record, AgreedInv', FiledInv', InputsInv',
           drifts = 0 =>
             /\ state'.node \in {"EXPLORE", "IMPLEMENT"} => BaseClean'
             /\ state'.node \in JudgedNodes \cup {"REPAIR"} =>
                  repo'.head = Base' /\ repo'.tree = Manifest'
             /\ state'.node = "REVIEW" => ReviewAgrees'
    PROVE  RInv'
<1>1. /\ pc = "return" /\ pc' = "idle" /\ refused' = refused /\ drifts' = drifts
      /\ pinned' = pinned
  BY DEF Record, outside, bounded
<1>2. KnownVerdicts'
  BY <1>1 DEF KnownVerdicts
<1>3. drifts = 0 => TrackInv'
  BY <1>1 DEF TrackInv, JudgedNodes
<1>4. UntouchedInv'
  BY <1>1, <1>3 DEF RInv, UntouchedInv
<1>5. RefusalInv'
  BY <1>1 DEF RInv, RefusalInv
<1>6. QED
  BY <1>2, <1>4, <1>5 DEF RInv

(* The fields of the state, and the outside of a record.                                 *)
LEMMA RecordFields ==
    ASSUME IInv, EInv, RInv, Record
    PROVE  /\ {"node", "prev", "item", "count", "manifests", "validation", "review", "findings",
               "completed"} \subseteq DOMAIN state
           /\ pc = "return" /\ state' = Advanced /\ files' = files /\ repo' = repo
           /\ started /\ state.count \in Nat /\ state.node \in Nodes \ {"FINALIZE"}
BY RecordFrame
   DEF Record, outside, EInv, PInv, ShapeInv, StateInv, IInv, StepInv, CycleInv, Cycles,
       RInv, AgreedInv

(* The worktree of a transition that stays at the manifest.                              *)
LEMMA TrackMoves ==
    ASSUME RInv, repo' = repo, drifts = 0, state'.manifests = state.manifests,
           state'.completed = state.completed
    PROVE  /\ BaseClean => BaseClean'
           /\ state.node \in {"VALIDATE", "REVIEW", "CLASSIFY_FAILURE"} =>
                repo'.head = Base' /\ repo'.tree = Manifest'
           /\ state.node = "EXPLORE" => BaseClean
<1>1. Base' = Base /\ Manifest' = Manifest
  BY DEF Base, Manifest
<1>2. TrackInv
  BY DEF RInv, UntouchedInv
<1>3. BaseClean => BaseClean'
  BY <1>1 DEF BaseClean, CleanAt, TreeOf
<1>4. QED
  BY <1>1, <1>2, <1>3 DEF TrackInv

(* A failed or blocked result ends the run.                                              *)
LEMMA StopRefusal ==
    ASSUME IInv, EInv, RInv, Record, mem.result = "stop"
    PROVE  RInv'
<1>1. state' = [state EXCEPT !.node = "FINALIZE", !.prev = state.node] /\ files' = files
  BY RecordFields DEF Advanced, Moved
<1>2. /\ state'.node = "FINALIZE" /\ state'.item = state.item /\ state'.count = state.count
      /\ {"validation", "review"} \subseteq DOMAIN state'
  BY <1>1, RecordFields
<1>3. AgreedInv' /\ InputsInv'
  BY <1>2 DEF AgreedInv, InputsInv
<1>4. FiledInv'
  BY <1>1, <1>2 DEF RInv, FiledInv, Exists, At
<1>5. QED
  BY <1>2, <1>3, <1>4, RecordSide DEF JudgedNodes

(* An analysed item is implemented on the base it was analysed at.                       *)
LEMMA ExploredRefusal ==
    ASSUME IInv, EInv, RInv, Record, mem.result # "stop", state.node = "EXPLORE"
    PROVE  RInv'
<1>1. state' = [state EXCEPT !.node = "IMPLEMENT", !.prev = state.node] /\ files' = files
  BY RecordFields DEF Advanced, Moved
<1>2. /\ state'.node = "IMPLEMENT" /\ state'.item = state.item /\ state'.count = state.count
      /\ state'.review = state.review /\ {"validation", "review"} \subseteq DOMAIN state'
      /\ state'.manifests = state.manifests /\ state'.completed = state.completed
  BY <1>1, RecordFields
<1>3. AgreedInv' /\ InputsInv'
  BY <1>2 DEF RInv, AgreedInv, InputsInv
<1>4. FiledInv'
  BY <1>1, <1>2 DEF RInv, FiledInv, Exists, At
<1>5. drifts = 0 => BaseClean'
  BY <1>2, RecordFields, TrackMoves
<1>6. QED
  BY <1>2, <1>3, <1>4, <1>5, RecordSide DEF JudgedNodes

(* What an author captured is what is validated.                                         *)
LEMMA AuthoredRefusal ==
    ASSUME IInv, EInv, RInv, Record, mem.result # "stop", state.node \in AuthorNodes
    PROVE  RInv'
<1> DEFINE longer == Append(state.manifests, mem.manifest)
<1>1. /\ state' = [[state EXCEPT !.node = "VALIDATE", !.prev = state.node]
                     EXCEPT !.manifests = longer]
      /\ files' = files /\ repo' = repo /\ pc = "return"
  BY RecordFields DEF Advanced, Moved, AuthorNodes
<1>2. longer[Len(longer)] = mem.manifest
  <2>1. state.manifests \in Seq(Trees) /\ mem.manifest \in Trees
    BY <1>1 DEF EInv, PInv, ShapeInv, StateInv, AuthorMem
  <2>2. QED
    BY <2>1, Appended
<1> HIDE DEF longer
<1>3. /\ state'.node = "VALIDATE" /\ state'.item = state.item /\ state'.count = state.count
      /\ state'.review = state.review /\ {"validation", "review"} \subseteq DOMAIN state'
      /\ state'.manifests = longer /\ state'.completed = state.completed
  BY <1>1, RecordFields
<1>4. Manifest' = mem.manifest /\ Base' = Base
  BY <1>2, <1>3 DEF Manifest, Base
<1>5. state.node = "REPAIR" => state.count # 0
  BY Named DEF EInv, PInv, LineageInv
<1>6. AgreedInv' /\ InputsInv'
  BY <1>3, <1>5 DEF RInv, AgreedInv, InputsInv, AuthorNodes
<1>7. FiledInv'
  BY <1>1, <1>3 DEF RInv, FiledInv, Exists, At, AuthorNodes
<1>8. drifts = 0 => repo'.head = Base' /\ repo'.tree = Manifest'
  BY <1>1, <1>4 DEF RInv, UntouchedInv, TrackInv
<1>9. QED
  BY <1>3, <1>6, <1>7, <1>8, RecordSide

(* A validated manifest has no review yet, a failed one the evidence of its failure.     *)
LEMMA ValidatedRefusal ==
    ASSUME IInv, EInv, RInv, Record, mem.result # "stop", state.node = "VALIDATE"
    PROVE  RInv'
<1>1. \/ /\ mem.result = "pass"
         /\ state' = [[state EXCEPT !.node = "REVIEW", !.prev = state.node]
                        EXCEPT !.validation = "PASS"]
      \/ /\ mem.result # "pass"
         /\ state' = [[state EXCEPT !.node = "CLASSIFY_FAILURE", !.prev = state.node]
                        EXCEPT !.validation = "FAIL"]
  BY RecordFields DEF Advanced, Moved
<1>2. files' = files /\ repo' = repo /\ pc = "return"
  BY RecordFields
<1>3. /\ \/ state'.node = "REVIEW" /\ state'.validation = "PASS"
         \/ /\ state'.node = "CLASSIFY_FAILURE" /\ state'.prev = "VALIDATE"
            /\ state'.validation = "FAIL" /\ mem.result # "pass"
      /\ state'.item = state.item /\ state'.count = state.count
      /\ state'.review = state.review /\ {"validation", "review"} \subseteq DOMAIN state'
      /\ state'.manifests = state.manifests /\ state'.completed = state.completed
  BY <1>1, RecordFields
<1>4. Manifest' = Manifest /\ LastCycle' = LastCycle
  BY <1>3 DEF Manifest, LastCycle
<1>5. /\ LastCycle = state.count /\ state.count \in Cycles /\ ~(state.count < state.count)
  BY Named DEF EInv, JudgedNodes, Cycles
<1>6. \A c \in Cycles : files[state.item, c, "review"] # None => c < state.count
  BY DEF RInv, FiledInv, Exists, At
<1>7. FiledInv'
  BY <1>2, <1>3, <1>5, <1>6 DEF FiledInv, Exists, At
<1>8. mem.result # "pass" => FailedChecks'
  BY <1>2, <1>3, <1>4 DEF RInv, KnownVerdicts, FailedChecks, At
<1>9. AgreedInv' /\ InputsInv'
  BY <1>3, <1>8 DEF RInv, AgreedInv, InputsInv
<1>10. ReviewAgrees'
  <2>1. ~(files'[state'.item, LastCycle', "review"] # None)
    BY <1>2, <1>3, <1>4, <1>5, <1>6
  <2>2. QED
    BY <2>1 DEF ReviewAgrees, Exists, At
<1>11. drifts = 0 => repo'.head = Base' /\ repo'.tree = Manifest'
  BY <1>2, <1>3, TrackMoves
<1>12. QED
  BY <1>3, <1>7, <1>9, <1>10, <1>11, RecordSide

(* A reviewed manifest goes on with the verdict that is filed.                           *)
LEMMA ReviewedRefusal ==
    ASSUME IInv, EInv, RInv, Record, mem.result # "stop", state.node = "REVIEW"
    PROVE  RInv'
<1>1. \/ /\ mem.result = "pass"
         /\ state' = [[state EXCEPT !.node = "CLOSE_TASK", !.prev = state.node]
                        EXCEPT !.review = "PASS", !.findings = {}]
      \/ /\ mem.result # "pass"
         /\ state' = [[state EXCEPT !.node = "CLASSIFY_FAILURE", !.prev = state.node]
                        EXCEPT !.review = "FAIL", !.findings = mem.findings]
  BY RecordFields DEF Advanced, Moved
<1>2. files' = files /\ repo' = repo /\ pc = "return"
  BY RecordFields
<1>3. /\ \/ state'.node = "CLOSE_TASK" /\ state'.review = "PASS" /\ state'.findings = {}
         \/ /\ state'.node = "CLASSIFY_FAILURE" /\ state'.prev = "REVIEW"
            /\ state'.review = "FAIL" /\ state'.findings = mem.findings /\ mem.result # "pass"
      /\ state'.item = state.item /\ state'.count = state.count
      /\ state'.validation = state.validation
      /\ {"validation", "review"} \subseteq DOMAIN state'
      /\ state'.manifests = state.manifests /\ state'.completed = state.completed
  BY <1>1, RecordFields
<1>4. Manifest' = Manifest
  BY <1>3 DEF Manifest
<1>5. mem.result # "pass" => FailedReview' \/ state'.node # "CLASSIFY_FAILURE"
  <2>1. /\ Validated(state.count, Manifest)
        /\ mem.findings = ReviewFindings(At(state.count, "review"))
        /\ mem.result # "pass" =>
             At(state.count, "review") # None /\ ~ReviewPassed(At(state.count, "review"))
    BY <1>2 DEF EInv, PInv, VerdictInv, JudgeMem, RInv, KnownVerdicts
  <2>2. QED
    BY <1>2, <1>3, <1>4, <2>1
       DEF FailedReview, Validated, Exists, At, ReviewPassed, ReviewFindings
<1>6. AgreedInv' /\ InputsInv'
  BY <1>3, <1>5 DEF RInv, AgreedInv, InputsInv
<1>7. FiledInv'
  <2>1. \A c \in Cycles : files[state.item, c, "review"] # None =>
          c < state.count \/ c = state.count
    BY DEF RInv, FiledInv, Exists, At
  <2>2. files[state.item, state.count, "review"] # None => ReviewFiled
    BY DEF RInv, FiledInv, Exists, At
  <2>3. ReviewFiled => ReviewFiled'
    BY <1>2, <1>3, <1>4 DEF ReviewFiled, Validated, At
  <2>4. QED
    BY <1>2, <1>3, <2>1, <2>2, <2>3 DEF FiledInv, Exists, At
<1>8. drifts = 0 => repo'.head = Base' /\ repo'.tree = Manifest'
  BY <1>2, <1>3, TrackMoves
<1>9. QED
  BY <1>3, <1>6, <1>7, <1>8, RecordSide

(* A classified failure is repaired from the manifest that failed, in the next cycle.    *)
LEMMA ClassifiedRefusal ==
    ASSUME IInv, EInv, RInv, Record, mem.result # "stop", state.node = "CLASSIFY_FAILURE"
    PROVE  RInv'
<1>1. state' = [[state EXCEPT !.node = "REPAIR", !.prev = state.node]
                  EXCEPT !.count = state.count + 1]
  BY RecordFields DEF Advanced, Moved
<1>2. /\ state'.node = "REPAIR" /\ state'.item = state.item /\ state'.count = state.count + 1
      /\ {"validation", "review"} \subseteq DOMAIN state'
      /\ state'.manifests = state.manifests /\ state'.completed = state.completed
      /\ files' = files /\ repo' = repo /\ state.count \in Nat
  BY <1>1, RecordFields
<1>3. AgreedInv' /\ InputsInv'
  BY <1>2 DEF AgreedInv, InputsInv
<1>4. FiledInv'
  <2>1. \A c \in Cycles : files[state.item, c, "review"] # None =>
          c < state.count \/ c = state.count
    BY DEF RInv, FiledInv, Exists, At
  <2>2. \A c \in Cycles : c < state.count \/ c = state.count => c < state.count + 1
    BY <1>2 DEF Cycles
  <2>3. QED
    BY <1>2, <2>1, <2>2 DEF FiledInv, Exists, At
<1>5. drifts = 0 => repo'.head = Base' /\ repo'.tree = Manifest'
  BY <1>2, TrackMoves
<1>6. QED
  BY <1>2, <1>3, <1>4, <1>5, RecordSide

(* A closed item leaves the worktree clean at its commit, and the next one no evidence.  *)
LEMMA ClosedRefusal ==
    ASSUME IInv, EInv, RInv, Record, mem.result # "stop", state.node = "CLOSE_TASK"
    PROVE  RInv'
<1> DEFINE more == Append(state.completed, mem.sha)
<1>1. state' = IF AnotherItem(more) THEN FreshItem(state.item + 1, more)
               ELSE [[state EXCEPT !.node = "FINALIZE", !.prev = state.node]
                       EXCEPT !.completed = more]
  BY RecordFields, Zenon DEF Advanced, Moved
<1>2. files' = files /\ repo' = repo /\ pc = "return" /\ state.item \in 1 .. Items /\ FilesInv
  BY RecordFields DEF IInv, CycleInv, ItemRange, EInv, PInv, ShapeInv
<1>3. more[Len(more)] = mem.sha
  <2>1. state.completed \in Seq(Commits) /\ mem.sha \in Commits
    BY <1>2 DEF EInv, PInv, ShapeInv, StateInv, CloseMem
  <2>2. QED
    BY <2>1, Appended
<1> HIDE DEF more
<1>4. CASE AnotherItem(more)
  <2>1. state' = FreshItem(state.item + 1, more)
    BY <1>1, <1>4, Zenon
  <2>2. /\ state'.node = "EXPLORE" /\ state'.item = state.item + 1 /\ state'.count = 0
        /\ state'.review = "UNKNOWN" /\ state'.completed = more
        /\ {"validation", "review"} \subseteq DOMAIN state'
    BY <2>1 DEF FreshItem
  <2>3. \A c \in Cycles, kind \in Kinds : files[state'.item, c, kind] = None
    <3>1. state'.item \in ItemRange /\ state'.item > state.item
      BY <1>2, <1>4, <2>2 DEF ItemRange, AnotherItem
    <3>2. QED
      BY <1>2, <3>1 DEF FilesInv
  <2>4. AgreedInv'
    BY <2>2 DEF AgreedInv
  <2>5. FiledInv' /\ InputsInv'
    <3>1. "review" \in Kinds /\ "inputs" \in Kinds /\ 0 \in Cycles
      BY DEF Kinds, Cycles
    <3>2. QED
      BY <1>2, <2>2, <2>3, <3>1 DEF FiledInv, InputsInv, Exists, At
  <2>6. drifts = 0 => BaseClean'
    <3>1. state'.completed # <<>> => Base' = mem.sha
      BY <1>3, <2>2 DEF Base
    <3>2. drifts = 0 => CleanAt(mem.sha)
      BY <1>2 DEF RInv, UntouchedInv, TrackInv
    <3>3. QED
      BY <1>2, <3>1, <3>2 DEF BaseClean, CleanAt, TreeOf
  <2>7. QED
    BY <2>2, <2>4, <2>5, <2>6, RecordSide DEF JudgedNodes
<1>5. CASE ~AnotherItem(more)
  <2>1. state' = [[state EXCEPT !.node = "FINALIZE", !.prev = state.node]
                    EXCEPT !.completed = more]
    BY <1>1, <1>5, Zenon
  <2>2. /\ state'.node = "FINALIZE" /\ state'.item = state.item /\ state'.count = state.count
        /\ {"validation", "review"} \subseteq DOMAIN state'
    BY <2>1, RecordFields
  <2>3. AgreedInv' /\ InputsInv'
    BY <2>2 DEF AgreedInv, InputsInv
  <2>4. FiledInv'
    BY <1>2, <2>2 DEF RInv, FiledInv, Exists, At
  <2>5. QED
    BY <2>2, <2>3, <2>4, RecordSide DEF JudgedNodes
<1>6. QED
  BY <1>4, <1>5

(* Every recorded result leaves a state a resume agrees with (RuntimeSession.step).      *)
LEMMA RecordRefusal == IInv /\ EInv /\ RInv /\ Record => RInv'
<1> SUFFICES ASSUME IInv, EInv, RInv, Record PROVE RInv'
  OBVIOUS
<1>1. state.node \in {"EXPLORE", "VALIDATE", "REVIEW", "CLASSIFY_FAILURE", "CLOSE_TASK"}
                       \cup AuthorNodes
  BY RecordFields DEF Nodes, AuthorNodes
<1>2. QED
  BY <1>1, StopRefusal, ExploredRefusal, AuthoredRefusal, ValidatedRefusal, ReviewedRefusal,
     ClassifiedRefusal, ClosedRefusal

-----------------------------------------------------------------------------
(* RInv is inductive.                                                                    *)
LEMMA InitRInv == Init => RInv
<1> SUFFICES ASSUME Init PROVE RInv
  OBVIOUS
<1>1. /\ state = FreshItem(1, <<>>) /\ pc = "idle" /\ ~refused /\ drifts = 0 /\ pinned
      /\ files = [key \in ItemRange \X Cycles \X Kinds |-> None]
  BY DEF Init
<1>2. /\ state.node = "EXPLORE" /\ state.item = 1 /\ state.count = 0
      /\ state.completed = <<>> /\ state.review = "UNKNOWN"
      /\ {"validation", "review"} \subseteq DOMAIN state
  BY <1>1 DEF FreshItem
<1>3. \A c \in Cycles, kind \in Kinds : files[state.item, c, kind] = None
  <2>1. \A k \in ItemRange, c \in Cycles, kind \in Kinds : files[k, c, kind] = None
    BY <1>1
  <2>2. 1 \in ItemRange
    BY DEF ItemRange
  <2>3. QED
    BY <1>2, <2>1, <2>2
<1>4. AgreedInv /\ KnownVerdicts /\ RefusalInv
  BY <1>1, <1>2 DEF AgreedInv, KnownVerdicts, RefusalInv
<1>5. FiledInv /\ InputsInv
  <2>1. "review" \in Kinds /\ "inputs" \in Kinds /\ 0 \in Cycles
    BY DEF Kinds, Cycles
  <2>2. QED
    BY <1>2, <1>3, <2>1 DEF FiledInv, InputsInv, Exists, At
<1>6. UntouchedInv
  BY <1>1, <1>2 DEF UntouchedInv, TrackInv, BaseClean
<1>7. QED
  BY <1>4, <1>5, <1>6 DEF RInv

(* Every step keeps what a resume goes by.                                               *)
LEMMA NextRInv == IInv /\ EInv /\ RInv /\ [Next]_vars => RInv'
<1>1. IInv /\ EInv /\ RInv /\ Judge => RInv'
  BY ValidateRefusal, ClassifyRefusal, RestoreRefusal, MechanicalRefusal, ContextRefusal,
     ReviewRefusal DEF Judge
<1>2. IInv /\ EInv /\ RInv /\ Close => RInv'
  BY CloseRefusal, DownRefusal
<1>3. IInv /\ EInv /\ RInv /\ Work => RInv'
  BY <1>1, <1>2, EnterRefusal, ExploreRefusal, AuthorRefusal, FailRefusal, RecordRefusal
     DEF Work
<1>4. QED
  BY <1>3, ResumeRefusal, RefuseRefusal, DownRefusal, DriftRefusal, StutterRefusal
     DEF Next, Finished

(* A run that is down is refused only when somebody interfered, a side effect was        *)
(* interrupted, a later item had changed the worktree, or the review of a repaired item  *)
(* was interrupted (WriteSliceRunner.resume): every other crash is resumed.              *)
THEOREM ResumesAreRefusedForCause == Spec => []RefusedForCause
<1>1. Init => RInv
  BY InitRInv
<1>2. IInv /\ EInv /\ RInv /\ [Next]_vars => RInv'
  BY NextRInv
<1>3. RInv => RefusedForCause
  BY DEF RInv, RefusalInv, Cause, RefusedForCause
<1>4. QED
  BY <1>1, <1>2, <1>3, Invariance, EvidenceInvariance, PTL DEF Spec

-----------------------------------------------------------------------------
\* What the ledger of commits amounts to: each is the child of the one before it, and changes
\* something.
EffectiveCommits ==
    \A k \in DOMAIN state.completed :
        LET base == IF k = 1 THEN <<>> ELSE state.completed[k - 1]
        IN  Parent(state.completed[k]) = base /\ TreeOf(state.completed[k]) # TreeOf(base)

\* Completed items keep their commits.
CommitsKept ==
    /\ Len(state.completed) <= Len(state'.completed)
    /\ \A k \in DOMAIN state.completed : state'.completed[k] = state.completed[k]

(* What a commit of a tree on a chain is.                                                *)
LEMMA Child ==
    ASSUME NEW c \in Commits, NEW tree \in Trees
    PROVE  Parent(Append(c, tree)) = c /\ TreeOf(Append(c, tree)) = tree
<1>1. c \in Seq(Trees)
  BY DEF Commits
<1>2. /\ Append(c, tree) \in Seq(Trees) /\ Len(Append(c, tree)) = Len(c) + 1
      /\ Append(c, tree)[Len(c) + 1] = tree
  BY <1>1, Appended
<1>3. SubSeq(Append(c, tree), 1, Len(c)) = c
  BY <1>1
<1>4. Len(c) \in Nat /\ Append(c, tree) # <<>>
  BY <1>1, <1>2
<1>5. QED
  BY <1>2, <1>3, <1>4 DEF Parent, TreeOf

(* A step of the ledger keeps its commits, and adds at most the child of the last one.   *)
LEMMA LedgerKeeps ==
    ASSUME IInv, EInv, ApprovedInv, [Ledger!Next]_<<state.completed, Approved>>
    PROVE  \/ state'.completed = state.completed
           \/ /\ Manifest \in Trees \ {TreeOf(Base)}
              /\ state'.completed = Append(state.completed, Append(Base, Manifest))
<1>1. Ledger!Head0 = Base
  BY DEF Ledger!Head0, Base
<1>2. Approved # None => Approved = Manifest /\ Manifest \in Trees \ {TreeOf(Base)}
  BY DEF ApprovedInv
<1>3. QED
  BY <1>1, <1>2 DEF Ledger!Next, Ledger!Approve, Ledger!Close

(* Completed items keep their commits (MultiItemExecution.verify_lineage relies on it).  *)
LEMMA KeepsCommits ==
    ASSUME IInv, EInv, ApprovedInv, [Ledger!Next]_<<state.completed, Approved>>
    PROVE  CommitsKept
<1>1. state.completed \in Seq(Commits) /\ Base \in Commits
  BY Named DEF EInv, PInv, ShapeInv, StateInv
<1>2. CASE state'.completed = state.completed
  BY <1>1, <1>2 DEF CommitsKept
<1>3. CASE /\ Manifest \in Trees
           /\ state'.completed = Append(state.completed, Append(Base, Manifest))
  <2>1. Append(Base, Manifest) \in Commits
    BY <1>1, <1>3 DEF Commits
  <2> DEFINE new == Append(Base, Manifest)
  <2>2. new \in Commits
    BY <2>1
  <2> HIDE DEF new
  <2>3. /\ Len(Append(state.completed, new)) = Len(state.completed) + 1
        /\ \A i \in 1 .. Len(state.completed) :
             Append(state.completed, new)[i] = state.completed[i]
    BY <1>1, <2>2, Appended
  <2>4. DOMAIN state.completed = 1 .. Len(state.completed) /\ Len(state.completed) \in Nat
    BY <1>1
  <2>5. state'.completed = Append(state.completed, new)
    BY <1>3 DEF new
  <2>6. QED
    BY <2>3, <2>4, <2>5 DEF CommitsKept
<1>4. QED
  BY <1>2, <1>3, LedgerKeeps

(* A further commit changes something of the one before it.                              *)
LEMMA KeepsEffective ==
    ASSUME IInv, EInv, ApprovedInv, EffectiveCommits,
           [Ledger!Next]_<<state.completed, Approved>>
    PROVE  EffectiveCommits'
<1>1. state.completed \in Seq(Commits) /\ Base \in Commits
  BY Named DEF EInv, PInv, ShapeInv, StateInv
<1>2. CASE state'.completed = state.completed
  BY <1>2 DEF EffectiveCommits, Parent, TreeOf
<1>3. CASE /\ Manifest \in Trees \ {TreeOf(Base)}
           /\ state'.completed = Append(state.completed, Append(Base, Manifest))
  <2> DEFINE new == Append(Base, Manifest)
             more == Append(state.completed, new)
             n == Len(state.completed)
  <2>1. Parent(new) = Base /\ TreeOf(new) # TreeOf(Base)
    BY <1>1, <1>3, Child
  <2>2. new \in Commits
    BY <1>1, <1>3 DEF Commits
  <2> HIDE DEF new
  <2>3. /\ more \in Seq(Commits) /\ Len(more) = n + 1 /\ more[n + 1] = new
        /\ \A i \in 1 .. n : more[i] = state.completed[i]
    BY <1>1, <2>2, Appended
  <2>4. n \in Nat /\ DOMAIN state.completed = 1 .. n
    BY <1>1
  <2>5. DOMAIN more = 1 .. n + 1
    BY <2>3
  <2>6. Base = IF n + 1 = 1 THEN <<>> ELSE more[n]
    BY <1>1, <2>3, <2>4 DEF Base
  <2>7. state'.completed = more
    BY <1>3 DEF new
  <2> HIDE DEF more, n
  <2>8. ASSUME NEW k \in 1 .. n
        PROVE  (IF k = 1 THEN <<>> ELSE more[k - 1])
                 = (IF k = 1 THEN <<>> ELSE state.completed[k - 1])
    BY <2>3, <2>4
  <2>9. ASSUME NEW k \in 1 .. n + 1
        PROVE  LET base == IF k = 1 THEN <<>> ELSE more[k - 1]
               IN  Parent(more[k]) = base /\ TreeOf(more[k]) # TreeOf(base)
    <3>1. CASE k = n + 1
      BY <2>1, <2>3, <2>4, <2>6, <3>1
    <3>2. CASE k # n + 1
      <4>1. k \in 1 .. n
        BY <2>4, <3>2
      <4>2. QED
        BY <2>3, <2>4, <2>8, <4>1 DEF EffectiveCommits
    <3>3. QED
      BY <3>1, <3>2
  <2>10. QED
    BY <2>5, <2>7, <2>9 DEF EffectiveCommits, Parent, TreeOf
<1>4. QED
  BY <1>2, <1>3, LedgerKeeps

(* Every commit of a run is the child of the one of the item before it and changes       *)
(* something (WriteExecution.review finds no_effective_changes otherwise).               *)
THEOREM CommitsAreEffective == Spec => []EffectiveCommits
<1>1. Init => EffectiveCommits
  BY DEF Init, FreshItem, EffectiveCommits
<1>2. IInv /\ EInv /\ ApprovedInv /\ ApprovedInv' /\ EffectiveCommits /\ [Next]_vars
        => EffectiveCommits'
  BY LedgerStep, KeepsEffective
<1>3. IInv /\ EInv => ApprovedInv
  BY ApprovedTree
<1>4. QED
  BY <1>1, <1>2, <1>3, Invariance, EvidenceInvariance, PTL DEF Spec

(* A completed item keeps its commit, whatever crashes and interferes (GraphState's      *)
(* completed items, write/multi_item.py).                                                *)
THEOREM CompletedItemsKeepCommits == Spec => [][CommitsKept]_vars
<1>1. IInv /\ EInv /\ ApprovedInv /\ ApprovedInv' /\ [Next]_vars => CommitsKept
  BY LedgerStep, KeepsCommits
<1>2. IInv /\ EInv => ApprovedInv
  BY ApprovedTree
<1>3. QED
  BY <1>1, <1>2, Invariance, EvidenceInvariance, PTL DEF Spec
=============================================================================
