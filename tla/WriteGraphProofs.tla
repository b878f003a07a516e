-------------------------- MODULE WriteGraphProofs --------------------------
(***************************************************************************)
(* The type of the state and the three gates of a write run, for every set *)
(* of items, every plan and every policy: what is committed was judged,    *)
(* what is critical was approved, what is published was reviewed and       *)
(* approved.  Then, over that invariant, that every result of a node has   *)
(* one edge and is accepted, that the ledger of repairs and the order of   *)
(* the items hold, and that the status at the end is the truth.  Last, by  *)
(* a bound that rises with every step, the most transitions a run takes.   *)
(***************************************************************************)
EXTENDS WriteGraph, GraphEngineProofs

-----------------------------------------------------------------------------
\* The stages of an item, by the node under the cursor.
AwaitsWrite == At("HUMAN_CHECKPOINT") /\ state.pending = "IMPLEMENT"
AwaitsPublish == At("HUMAN_CHECKPOINT") /\ state.pending = "CREATE_PR"

Early     == {"START", "DISCOVER_PROJECT", "PREFLIGHT", "SELECT_WORK", "EXPLORE",
              "BUILD_TASK_PACKAGE", "ASSESS_RISK"}
Working   == {"VALIDATE", "REVIEW", "CLASSIFY_FAILURE", "CLOSE_TASK"} \cup RepairNodes
Writing   == {"IMPLEMENT"} \cup Working
Packaged  == {"ASSESS_RISK"} \cup Writing
Explored  == {"BUILD_TASK_PACKAGE"} \cup Packaged
Selected  == {"EXPLORE"} \cup Explored

\* Scope, package and changes are those of the item; the scope is locked from
\* the first write on and not before.
StageInv ==
    /\ state.node \in Early \/ AwaitsWrite => ~state.locked
    /\ state.node \in Writing => state.locked
    /\ state.node \in Selected \/ AwaitsWrite => state.item # NoItem
    /\ state.node \in Explored \/ AwaitsWrite => state.explored = state.item
    /\ state.node \in Packaged \/ AwaitsWrite => state.package = state.item
    /\ state.node \in Working => state.changes = state.item

\* The judgements an item still has on its way to the commit.
JudgedInv ==
    /\ At("REVIEW") => "VALIDATION" \in passed
    /\ At("CLOSE_TASK") => passed = {"VALIDATION", "REVIEW"}

Delivered == delivery = state.completed /\ delivery # <<>>

\* The way from the last commit to the pull request.
DeliveryInv ==
    /\ At("HUMAN_CHECKPOINT") => AwaitsWrite \/ AwaitsPublish
    /\ At("MORE_WORK") \/ At("DELIVERY_REVIEW") => state.completed # <<>>
    /\ AwaitsPublish => Delivered
    /\ At("CREATE_PR") \/ published => Delivered /\ "PUBLISH" \in approved
    /\ published => At("FINALIZE") \/ At("END")

IInv == TypeOK /\ StageInv /\ JudgedInv /\ CriticalGate /\ DeliveryInv

-----------------------------------------------------------------------------
Refusing == {Blocked, Undecided} \cup AgentFailure \cup FailedWith(FailureCategories)

(* A result that is no success patches nothing and is no approval. *)
LEMMA Refusals ==
    ASSUME NEW r \in Refusing
    PROVE  ~Succeeded(r) /\ r.patch = NoPatch /\ r.outcome = "NONE"
  BY DEF Refusing, Blocked, Undecided, AgentFailure, FailedWith, Failed, Result, Succeeded,
         FailureCategories

(* START, DISCOVER_PROJECT, PREFLIGHT, MORE_WORK, CREATE_PR and FINALIZE patch nothing here. *)
LEMMA PlainResults ==
    ASSUME NEW p \in Plans, NEW s \in State,
           s.node \in {"START", "DISCOVER_PROJECT", "PREFLIGHT", "MORE_WORK", "CREATE_PR",
                       "FINALIZE"},
           NEW r \in Results(p, s)
    PROVE  LET u == Patched(s, r.patch)
           IN  u \in State /\ Keeps(s, u, {})
<1>1. r.patch = NoPatch
  BY DEF Results, StartResults, DiscoverProjectResults, PreflightResults, MoreWorkResults,
         CreatePrResults, FinalizeResults, FailedWith, Ok, Blocked, Failed, Result, Succeeded,
         RepairNodes
<1> QED BY <1>1, EmptyPatch

(* SELECT_WORK selects an item of the plan, or none. *)
LEMMA SelectWorkResult ==
    ASSUME NEW p \in Plans, NEW s \in State, s.node = "SELECT_WORK", NEW r \in Results(p, s)
    PROVE  LET u == Patched(s, r.patch)
           IN  u \in State /\ Keeps(s, u, {"item"})
<1>p. p.order \in Seq(Items) BY PlansAssumption
<1>i. PlanItems(p) \subseteq Items BY <1>p DEF PlanItems
<1>0. Remaining(p, Done(s)) \in SUBSET Items BY <1>i DEF Remaining
<1>n. NextReady(p, Done(s)) \subseteq Items BY <1>p DEF NextReady
<1>1. \/ r.patch = NoPatch
      \/ \E i \in ItemOrNone : r.patch = [item |-> i, available |-> Remaining(p, Done(s))]
  BY <1>n
     DEF Results, SelectWorkResults, ItemOrNone, Ok, Blocked, Failed, Result, Succeeded, RepairNodes
<1>2. CASE r.patch = NoPatch BY <1>2, EmptyPatch DEF Keeps
<1>3. CASE \E i \in ItemOrNone : r.patch = [item |-> i, available |-> Remaining(p, Done(s))]
  BY <1>3, <1>0, SelectPatch
<1> QED BY <1>1, <1>2, <1>3

(* EXPLORE stores the scope of the item. *)
LEMMA ExploreResult ==
    ASSUME NEW p \in Plans, NEW s \in State, s.node = "EXPLORE", NEW r \in Results(p, s)
    PROVE  LET u == Patched(s, r.patch)
           IN  u \in State /\ (IF Succeeded(r)
                                  THEN Keeps(s, u, {"explored"}) /\ u.explored = s.item
                                  ELSE Keeps(s, u, {}))
<1>0. s.item \in ItemOrNone BY DEF State
<1>1. \/ r.patch = NoPatch /\ ~Succeeded(r)
      \/ r.patch = [explored |-> s.item] /\ Succeeded(r)
  BY DEF Results, OfItem, AgentFailure, FailedWith, ExploreResults, Ok, Blocked, Failed, Result,
         Succeeded, RepairNodes
<1>2. CASE r.patch = NoPatch /\ ~Succeeded(r) BY <1>2, EmptyPatch
<1>3. CASE r.patch = [explored |-> s.item] /\ Succeeded(r) BY <1>3, <1>0, ExploredPatch
<1> QED BY <1>1, <1>2, <1>3

(* BUILD_TASK_PACKAGE stores the package of the item. *)
LEMMA PackageResult ==
    ASSUME NEW p \in Plans, NEW s \in State, s.node = "BUILD_TASK_PACKAGE", NEW r \in Results(p, s)
    PROVE  LET u == Patched(s, r.patch)
           IN  u \in State /\ (IF Succeeded(r)
                                  THEN Keeps(s, u, {"package"}) /\ u.package = s.item
                                  ELSE Keeps(s, u, {}))
<1>0. s.item \in ItemOrNone BY DEF State
<1>1. \/ r.patch = NoPatch /\ ~Succeeded(r)
      \/ r.patch = [package |-> s.item] /\ Succeeded(r)
  BY DEF Results, OfItem, AgentFailure, FailedWith, BuildTaskPackageResults, Ok, Blocked, Failed,
         Result, Succeeded, RepairNodes
<1>2. CASE r.patch = NoPatch /\ ~Succeeded(r) BY <1>2, EmptyPatch
<1>3. CASE r.patch = [package |-> s.item] /\ Succeeded(r) BY <1>3, <1>0, PackagePatch
<1> QED BY <1>1, <1>2, <1>3

(* IMPLEMENT reports the changes of the item. *)
LEMMA ImplementResult ==
    ASSUME NEW p \in Plans, NEW s \in State, s.node = "IMPLEMENT", NEW r \in Results(p, s)
    PROVE  LET u == Patched(s, r.patch)
           IN  u \in State /\ (IF Succeeded(r)
                                  THEN Keeps(s, u, {"changes"}) /\ u.changes = s.item
                                  ELSE Keeps(s, u, {}))
<1>0. s.item \in ItemOrNone BY DEF State
<1>1. \/ r.patch = NoPatch /\ ~Succeeded(r)
      \/ r.patch = [changes |-> s.item] /\ Succeeded(r)
  BY DEF Results, OfItem, AgentFailure, FailedWith, ImplementResults, Ok, Blocked, Failed, Result,
         Succeeded, RepairNodes
<1>2. CASE r.patch = NoPatch /\ ~Succeeded(r) BY <1>2, EmptyPatch
<1>3. CASE r.patch = [changes |-> s.item] /\ Succeeded(r) BY <1>3, <1>0, ChangesPatch
<1> QED BY <1>1, <1>2, <1>3

(* A repair reports the changes it extended. *)
LEMMA RepairResult ==
    ASSUME NEW p \in Plans, NEW s \in State, s.node \in RepairNodes, NEW r \in Results(p, s)
    PROVE  LET u == Patched(s, r.patch)
           IN  u \in State /\ (IF Succeeded(r)
                                  THEN Keeps(s, u, {"changes"}) /\ u.changes = s.changes
                                  ELSE Keeps(s, u, {}))
<1>0. s.changes \in ItemOrNone BY DEF State
<1>1. \/ r.patch = NoPatch /\ ~Succeeded(r)
      \/ r.patch = [changes |-> s.changes] /\ Succeeded(r)
  BY DEF Results, OfItem, AgentFailure, FailedWith, RepairResults, Ok, Blocked, Failed, Result,
         Succeeded, RepairNodes
<1>2. CASE r.patch = NoPatch /\ ~Succeeded(r) BY <1>2, EmptyPatch
<1>3. CASE r.patch = [changes |-> s.changes] /\ Succeeded(r) BY <1>3, <1>0, ChangesPatch
<1> QED BY <1>1, <1>2, <1>3

(* ASSESS_RISK stores a level. *)
LEMMA AssessRiskResult ==
    ASSUME NEW p \in Plans, NEW s \in State, s.node = "ASSESS_RISK", NEW r \in Results(p, s)
    PROVE  LET u == Patched(s, r.patch)
           IN  u \in State /\ Keeps(s, u, {"risk"})
<1>1. \/ r.patch = NoPatch
      \/ \E level \in RiskLevels : r.patch = [risk |-> level]
  BY DEF Results, OfItem, AgentFailure, FailedWith, AssessRiskResults, Ok, Blocked, Failed, Result,
         Succeeded, RepairNodes
<1>2. CASE r.patch = NoPatch BY <1>2, EmptyPatch DEF Keeps
<1>3. CASE \E level \in RiskLevels : r.patch = [risk |-> level] BY <1>3, RiskPatch, FieldTypes
<1> QED BY <1>1, <1>2, <1>3

(* HUMAN_CHECKPOINT patches nothing. *)
LEMMA HumanCheckpointResult ==
    ASSUME NEW p \in Plans, NEW s \in State, s.node = "HUMAN_CHECKPOINT", NEW r \in Results(p, s)
    PROVE  LET u == Patched(s, r.patch)
           IN  u \in State /\ Keeps(s, u, {})
<1>1. r.patch = NoPatch
  BY DEF Results, HumanCheckpointResults, Undecided, Decided, Ok, Blocked, Failed, Result,
         Succeeded, RepairNodes
<1> QED BY <1>1, EmptyPatch

(* VALIDATE stores the verdict it returns. *)
LEMMA ValidateResult ==
    ASSUME NEW p \in Plans, NEW s \in State, s.node = "VALIDATE", NEW r \in Results(p, s)
    PROVE  LET u == Patched(s, r.patch)
           IN  u \in State /\ Keeps(s, u, {}) /\ (Succeeded(r) => r.patch.validation = u.validation)
<1>0. "VALIDATION" \in FailureOrNone BY DEF FailureOrNone, FailureCategories
<1>1. \/ r.patch = NoPatch /\ ~Succeeded(r)
      \/ r.patch = [validation |-> "PASS", failure |-> "NONE"]
      \/ r.patch = [validation |-> "FAIL", failure |-> "VALIDATION"]
  BY DEF Results, OfItem, ValidateResults, Ok, Blocked, Failed, Result, Succeeded, RepairNodes
<1>2. CASE r.patch = NoPatch /\ ~Succeeded(r) BY <1>2, EmptyPatch
<1>3. CASE r.patch = [validation |-> "PASS", failure |-> "NONE"]
  BY <1>3, ValidationPatch, FieldTypes
<1>4. CASE r.patch = [validation |-> "FAIL", failure |-> "VALIDATION"]
  BY <1>4, <1>0, ValidationPatch, FieldTypes
<1> QED BY <1>1, <1>2, <1>3, <1>4

(* REVIEW stores the verdict it returns. *)
LEMMA ReviewResult ==
    ASSUME NEW p \in Plans, NEW s \in State, s.node = "REVIEW", NEW r \in Results(p, s)
    PROVE  LET u == Patched(s, r.patch)
           IN  /\ u \in State /\ Keeps(s, u, {})
               /\ Succeeded(r) => r.patch.review = u.review
<1>0. "PASS" \in Verdicts /\ "FAIL" \in Verdicts /\ TRUE \in BOOLEAN /\ FALSE \in BOOLEAN
  BY DEF Verdicts
<1>1. r \in ReviewResults \cup {Blocked} BY DEF Results, OfItem, RepairNodes
<1>2. FailedWith({"CONTRACT", "INFRASTRUCTURE"}) \subseteq FailedWith(FailureCategories)
  BY DEF FailedWith, FailureCategories
<1>3. \/ r \in Refusing
      \/ r = Ok([review |-> "PASS", safeClose |-> TRUE, failure |-> "NONE"])
      \/ r = Ok([review |-> "FAIL", safeClose |-> FALSE, failure |-> "VALIDATION"])
  BY <1>1, <1>2 DEF ReviewResults, Refusing
<1>4. CASE r \in Refusing BY <1>4, Refusals, EmptyPatch
<1>5. CASE r = Ok([review |-> "PASS", safeClose |-> TRUE, failure |-> "NONE"])
  <2>1. r.patch = [review |-> "PASS", safeClose |-> TRUE, failure |-> "NONE"]
    BY <1>5 DEF Ok, Result
  <2>2. r.patch.review = "PASS" BY <2>1
  <2>3. "NONE" \in FailureOrNone BY DEF FailureOrNone
  <2>4. LET u == Patched(s, [review |-> "PASS", safeClose |-> TRUE, failure |-> "NONE"])
        IN  u \in State /\ Keeps(s, u, {}) /\ u.review = "PASS"
    BY <1>0, <2>3, ReviewPatch, Zenon
  <2> QED BY <2>1, <2>2, <2>4
<1>6. CASE r = Ok([review |-> "FAIL", safeClose |-> FALSE, failure |-> "VALIDATION"])
  <2>1. r.patch = [review |-> "FAIL", safeClose |-> FALSE, failure |-> "VALIDATION"]
    BY <1>6 DEF Ok, Result
  <2>2. r.patch.review = "FAIL" BY <2>1
  <2>3. "VALIDATION" \in FailureOrNone BY DEF FailureOrNone, FailureCategories
  <2>4. LET u == Patched(s, [review |-> "FAIL", safeClose |-> FALSE, failure |-> "VALIDATION"])
        IN  u \in State /\ Keeps(s, u, {}) /\ u.review = "FAIL"
    BY <1>0, <2>3, ReviewPatch, Zenon
  <2> QED BY <2>1, <2>2, <2>4
<1> QED BY <1>3, <1>4, <1>5, <1>6

(* DELIVERY_REVIEW stores the verdict it returns. *)
LEMMA DeliveryReviewResult ==
    ASSUME NEW p \in Plans, NEW s \in State, s.node = "DELIVERY_REVIEW", NEW r \in Results(p, s)
    PROVE  LET u == Patched(s, r.patch)
           IN  /\ u \in State /\ Keeps(s, u, {})
               /\ Succeeded(r) => r.patch.review = u.review
<1>0. "PASS" \in Verdicts /\ "FAIL" \in Verdicts /\ TRUE \in BOOLEAN /\ FALSE \in BOOLEAN
  BY DEF Verdicts
<1>1. r \in DeliveryReviewResults \cup {Blocked} BY DEF Results, RepairNodes
<1>2. FailedWith({"CONTRACT", "INFRASTRUCTURE"}) \subseteq FailedWith(FailureCategories)
  BY DEF FailedWith, FailureCategories
<1>3. \/ r \in Refusing
      \/ r = Ok([review |-> "PASS", safePr |-> TRUE])
      \/ r = Ok([review |-> "FAIL", safePr |-> FALSE])
  BY <1>1, <1>2 DEF DeliveryReviewResults, Refusing
<1>4. CASE r \in Refusing BY <1>4, Refusals, EmptyPatch
<1>5. CASE r = Ok([review |-> "PASS", safePr |-> TRUE])
  <2>1. r.patch = [review |-> "PASS", safePr |-> TRUE]
    BY <1>5 DEF Ok, Result
  <2>2. r.patch.review = "PASS" BY <2>1
  <2>3. LET u == Patched(s, [review |-> "PASS", safePr |-> TRUE])
        IN  u \in State /\ Keeps(s, u, {}) /\ u.review = "PASS"
    BY <1>0, DeliveryPatch
  <2> QED BY <2>1, <2>2, <2>3
<1>6. CASE r = Ok([review |-> "FAIL", safePr |-> FALSE])
  <2>1. r.patch = [review |-> "FAIL", safePr |-> FALSE]
    BY <1>6 DEF Ok, Result
  <2>2. r.patch.review = "FAIL" BY <2>1
  <2>3. LET u == Patched(s, [review |-> "FAIL", safePr |-> FALSE])
        IN  u \in State /\ Keeps(s, u, {}) /\ u.review = "FAIL"
    BY <1>0, DeliveryPatch
  <2> QED BY <2>1, <2>2, <2>3
<1> QED BY <1>3, <1>4, <1>5, <1>6

(* CLASSIFY_FAILURE adds one record to the ledger. *)
LEMMA ClassifyFailureResult ==
    ASSUME NEW p \in Plans, NEW s \in State, s.node = "CLASSIFY_FAILURE", NEW r \in Results(p, s)
    PROVE  LET u == Patched(s, r.patch)
           IN  u \in State /\ Keeps(s, u, {})
<1>0. \A c \in Classifications : Append(s.history, RepairRecord(s, c)) \in Seq(RepairRecords)
  BY PolicyAssumption DEF State, RepairRecord, RepairRecords, RepairCounts
<1>1. \/ r.patch = NoPatch
      \/ \E c \in Classifications :
            r.patch = [class |-> c, history |-> Append(s.history, RepairRecord(s, c))]
  BY DEF Results, OfItem, AgentFailure, FailedWith, ClassifyFailureResults, Classified, Ok, Blocked,
         Failed, Result, Succeeded, RepairNodes
<1>2. CASE r.patch = NoPatch BY <1>2, EmptyPatch
<1>3. CASE \E c \in Classifications :
                r.patch = [class |-> c, history |-> Append(s.history, RepairRecord(s, c))]
  BY <1>3, <1>0, ClassPatch, FieldTypes
<1> QED BY <1>1, <1>2, <1>3

(* CLOSE_TASK completes the item. *)
LEMMA CloseTaskResult ==
    ASSUME NEW p \in Plans, NEW s \in State, s.node = "CLOSE_TASK", s.item # NoItem,
           NEW r \in Results(p, s)
    PROVE  LET u == Patched(s, r.patch)
           IN  /\ u \in State
               /\ IF Succeeded(r) THEN Keeps(s, u, {"item", "completed"}) /\ u.completed # <<>>
                                  ELSE Keeps(s, u, {})
<1> DEFINE done == Append(s.completed, s.item)
           left == s.available \ {s.item}
           patch == [item |-> NoItem, completed |-> done, available |-> left]
<1>1. done \in Seq(Items) /\ done # <<>> /\ left \in SUBSET Items BY DEF State, ItemOrNone
<1>2. r \in CloseTaskResults(s) \cup {Blocked} BY DEF Results, OfItem, RepairNodes
<1>3. Failed("INFRASTRUCTURE") \in FailedWith(FailureCategories)
  BY DEF FailedWith, FailureCategories
<1>4. r \in Refusing \/ r = Ok(patch) BY <1>2, <1>3 DEF CloseTaskResults, Refusing
<1>5. CASE r \in Refusing BY <1>5, Refusals, EmptyPatch
<1>6. CASE r = Ok(patch)
  <2>1. Succeeded(r) /\ r.patch = patch BY <1>6 DEF Ok, Result, Succeeded
  <2> HIDE DEF done, left
  <2>2. LET u == Patched(s, patch)
        IN  u \in State /\ Keeps(s, u, {"item", "completed"}) /\ u.completed = done
    BY <1>1, ClosePatch, FieldTypes
  <2> QED BY <1>1, <2>1, <2>2
<1> QED BY <1>4, <1>5, <1>6

-----------------------------------------------------------------------------
(* The initial state. *)
LEMMA InitInv == Init => IInv
<1> SUFFICES ASSUME Init PROVE IInv OBVIOUS
<1>1. InitialState \in State
  BY FieldTypes DEF InitialState, State, Nodes, RunStatuses
<1>2. /\ state.node = "START" /\ state.locked = FALSE
  BY DEF Init, InitialState
<1>3. TypeOK
  <2>1. delivery = InitialState.completed BY DEF Init, InitialState
  <2>2. InitialState.completed \in Seq(Items) BY <1>1 DEF State
  <2> QED BY <1>1, <2>1, <2>2 DEF Init, TypeOK
<1> QED BY <1>2, <1>3
        DEF Init, IInv, StageInv, JudgedInv, CriticalGate, DeliveryInv, AwaitsWrite, AwaitsPublish,
            At, Early, Writing, Selected, Explored, Packaged, Working, RepairNodes

\* One lemma per action, all along the same lines: the result, the edge, the conjuncts.
(* Start keeps the invariant. *)
LEMMA StartKeepsInv == ASSUME IInv, Start PROVE IInv'
<1>1. PICK r \in Results(plan, state) :
        /\ ApplyResult(state, r, state') /\ plan' = plan
        /\ history' = history
  BY DEF Start, Route, Step
<1>2. state \in State /\ plan \in Plans /\ state.node = "START"
  BY DEF IInv, TypeOK, Start, Route, At
<1> DEFINE u == Patched(state, r.patch)
<1>3. u \in State /\ Keeps(state, u, {})
  BY <1>2, PlainResults
<1>4. u.node = state.node BY <1>3 DEF Keeps
<1>5. PICK e \in Outgoing(u, r) : Follows(u, e, state')
  BY <1>1, <1>3, ApplyFollows
<1>6. state' \in State BY <1>1, <1>3, ApplyFollows
<1>7. /\ EdgeOk(e)
      /\ e.to = "FINALIZE" \/ (Succeeded(r) /\ e.to = "DISCOVER_PROJECT")
  BY <1>2, <1>4, <1>5, StraightEdges DEF StraightTarget
<1> HIDE DEF u
<1>t. TypeOK' BY <1>1, <1>6 DEF IInv, TypeOK, history
<1>s. StageInv' BY <1>2, <1>3, <1>5, <1>7
      DEF IInv, StageInv, AwaitsWrite, AwaitsPublish, At, Follows, Keeps, Reset, PendingAfter,
          EdgeOk,
          Early, Selected, Explored, Packaged, Writing, Working, RepairNodes
<1>j. JudgedInv' BY <1>1, <1>2, <1>3, <1>5, <1>7 DEF IInv, TypeOK, JudgedInv, At, Follows, history
<1>c. CriticalGate' BY <1>1, <1>2, <1>3, <1>5, <1>7
      DEF CriticalGate, IInv, StageInv, AwaitsWrite, AwaitsPublish, At, Follows, Keeps, Reset,
          PendingAfter, EdgeOk,
          Early, Selected, Explored, Packaged, Writing, Working, RepairNodes, history
<1>d. DeliveryInv' BY <1>1, <1>2, <1>3, <1>5, <1>7
      DEF IInv, DeliveryInv, Delivered, AwaitsWrite, AwaitsPublish, At, Follows, Keeps, Reset,
          PendingAfter, EdgeOk, history
<1> QED BY <1>t, <1>s, <1>j, <1>c, <1>d DEF IInv

(* DiscoverProject keeps the invariant. *)
LEMMA DiscoverProjectKeepsInv == ASSUME IInv, DiscoverProject PROVE IInv'
<1>1. PICK r \in Results(plan, state) :
        /\ ApplyResult(state, r, state') /\ plan' = plan
        /\ history' = history
  BY DEF DiscoverProject, Route, Step
<1>2. state \in State /\ plan \in Plans /\ state.node = "DISCOVER_PROJECT"
  BY DEF IInv, TypeOK, DiscoverProject, Route, At
<1> DEFINE u == Patched(state, r.patch)
<1>3. u \in State /\ Keeps(state, u, {})
  BY <1>2, PlainResults
<1>4. u.node = state.node BY <1>3 DEF Keeps
<1>5. PICK e \in Outgoing(u, r) : Follows(u, e, state')
  BY <1>1, <1>3, ApplyFollows
<1>6. state' \in State BY <1>1, <1>3, ApplyFollows
<1>7. /\ EdgeOk(e)
      /\ e.to = "FINALIZE" \/ (Succeeded(r) /\ e.to = "PREFLIGHT")
  BY <1>2, <1>4, <1>5, StraightEdges DEF StraightTarget
<1> HIDE DEF u
<1>t. TypeOK' BY <1>1, <1>6 DEF IInv, TypeOK, history
<1>s. StageInv' BY <1>2, <1>3, <1>5, <1>7
      DEF IInv, StageInv, AwaitsWrite, AwaitsPublish, At, Follows, Keeps, Reset, PendingAfter,
          EdgeOk,
          Early, Selected, Explored, Packaged, Writing, Working, RepairNodes
<1>j. JudgedInv' BY <1>1, <1>2, <1>3, <1>5, <1>7 DEF IInv, TypeOK, JudgedInv, At, Follows, history
<1>c. CriticalGate' BY <1>1, <1>2, <1>3, <1>5, <1>7
      DEF CriticalGate, IInv, StageInv, AwaitsWrite, AwaitsPublish, At, Follows, Keeps, Reset,
          PendingAfter, EdgeOk,
          Early, Selected, Explored, Packaged, Writing, Working, RepairNodes, history
<1>d. DeliveryInv' BY <1>1, <1>2, <1>3, <1>5, <1>7
      DEF IInv, DeliveryInv, Delivered, AwaitsWrite, AwaitsPublish, At, Follows, Keeps, Reset,
          PendingAfter, EdgeOk, history
<1> QED BY <1>t, <1>s, <1>j, <1>c, <1>d DEF IInv

(* Preflight keeps the invariant. *)
LEMMA PreflightKeepsInv == ASSUME IInv, Preflight PROVE IInv'
<1>1. PICK r \in Results(plan, state) :
        /\ ApplyResult(state, r, state') /\ plan' = plan
        /\ history' = history
  BY DEF Preflight, Route, Step
<1>2. state \in State /\ plan \in Plans /\ state.node = "PREFLIGHT"
  BY DEF IInv, TypeOK, Preflight, Route, At
<1> DEFINE u == Patched(state, r.patch)
<1>3. u \in State /\ Keeps(state, u, {})
  BY <1>2, PlainResults
<1>4. u.node = state.node BY <1>3 DEF Keeps
<1>5. PICK e \in Outgoing(u, r) : Follows(u, e, state')
  BY <1>1, <1>3, ApplyFollows
<1>6. state' \in State BY <1>1, <1>3, ApplyFollows
<1>7. /\ EdgeOk(e)
      /\ e.to = "FINALIZE" \/ (Succeeded(r) /\ e.to = "SELECT_WORK")
  BY <1>2, <1>4, <1>5, StraightEdges DEF StraightTarget
<1> HIDE DEF u
<1>t. TypeOK' BY <1>1, <1>6 DEF IInv, TypeOK, history
<1>s. StageInv' BY <1>2, <1>3, <1>5, <1>7
      DEF IInv, StageInv, AwaitsWrite, AwaitsPublish, At, Follows, Keeps, Reset, PendingAfter,
          EdgeOk,
          Early, Selected, Explored, Packaged, Writing, Working, RepairNodes
<1>j. JudgedInv' BY <1>1, <1>2, <1>3, <1>5, <1>7 DEF IInv, TypeOK, JudgedInv, At, Follows, history
<1>c. CriticalGate' BY <1>1, <1>2, <1>3, <1>5, <1>7
      DEF CriticalGate, IInv, StageInv, AwaitsWrite, AwaitsPublish, At, Follows, Keeps, Reset,
          PendingAfter, EdgeOk,
          Early, Selected, Explored, Packaged, Writing, Working, RepairNodes, history
<1>d. DeliveryInv' BY <1>1, <1>2, <1>3, <1>5, <1>7
      DEF IInv, DeliveryInv, Delivered, AwaitsWrite, AwaitsPublish, At, Follows, Keeps, Reset,
          PendingAfter, EdgeOk, history
<1> QED BY <1>t, <1>s, <1>j, <1>c, <1>d DEF IInv

(* SelectWork keeps the invariant. *)
LEMMA SelectWorkKeepsInv == ASSUME IInv, SelectWork PROVE IInv'
<1>1. PICK r \in Results(plan, state) :
        /\ ApplyResult(state, r, state') /\ plan' = plan
        /\ history' = history
  BY DEF SelectWork, Route, Step
<1>2. state \in State /\ plan \in Plans /\ state.node = "SELECT_WORK"
  BY DEF IInv, TypeOK, SelectWork, Route, At
<1> DEFINE u == Patched(state, r.patch)
<1>3. u \in State /\ Keeps(state, u, {"item"})
  BY <1>2, SelectWorkResult
<1>4. u.node = state.node BY <1>3 DEF Keeps
<1>5. PICK e \in Outgoing(u, r) : Follows(u, e, state')
  BY <1>1, <1>3, ApplyFollows
<1>6. state' \in State BY <1>1, <1>3, ApplyFollows
<1>7. /\ EdgeOk(e)
      /\ e.to \in {"FINALIZE", "DELIVERY_REVIEW", "EXPLORE"}
      /\ (e.to = "EXPLORE" => u.item # NoItem)
      /\ (e.to = "DELIVERY_REVIEW" => u.completed # <<>>)
  BY <1>2, <1>4, <1>5, SelectWorkLeads
<1> HIDE DEF u
<1>t. TypeOK' BY <1>1, <1>6 DEF IInv, TypeOK, history
<1>s. StageInv' BY <1>2, <1>3, <1>5, <1>7
      DEF IInv, StageInv, AwaitsWrite, AwaitsPublish, At, Follows, Keeps, Reset, PendingAfter,
          EdgeOk,
          Early, Selected, Explored, Packaged, Writing, Working, RepairNodes
<1>j. JudgedInv' BY <1>1, <1>2, <1>3, <1>5, <1>7 DEF IInv, TypeOK, JudgedInv, At, Follows, history
<1>c. CriticalGate' BY <1>1, <1>2, <1>3, <1>5, <1>7
      DEF CriticalGate, IInv, StageInv, AwaitsWrite, AwaitsPublish, At, Follows, Keeps, Reset,
          PendingAfter, EdgeOk,
          Early, Selected, Explored, Packaged, Writing, Working, RepairNodes, history
<1>d. DeliveryInv' BY <1>1, <1>2, <1>3, <1>5, <1>7
      DEF IInv, DeliveryInv, Delivered, AwaitsWrite, AwaitsPublish, At, Follows, Keeps, Reset,
          PendingAfter, EdgeOk, history
<1> QED BY <1>t, <1>s, <1>j, <1>c, <1>d DEF IInv

(* Explore keeps the invariant. *)
LEMMA ExploreKeepsInv == ASSUME IInv, Explore PROVE IInv'
<1>1. PICK r \in Results(plan, state) :
        /\ ApplyResult(state, r, state') /\ plan' = plan
        /\ history' = history
  BY DEF Explore, Route, Step
<1>2. state \in State /\ plan \in Plans /\ state.node = "EXPLORE"
  BY DEF IInv, TypeOK, Explore, Route, At
<1> DEFINE u == Patched(state, r.patch)
<1>3. u \in State /\ (IF Succeeded(r)
                         THEN Keeps(state, u, {"explored"}) /\ u.explored = state.item
                         ELSE Keeps(state, u, {}))
  BY <1>2, ExploreResult
<1>4. u.node = state.node BY <1>3 DEF Keeps
<1>5. PICK e \in Outgoing(u, r) : Follows(u, e, state')
  BY <1>1, <1>3, ApplyFollows
<1>6. state' \in State BY <1>1, <1>3, ApplyFollows
<1>7. /\ EdgeOk(e)
      /\ e.to = "FINALIZE" \/ (Succeeded(r) /\ e.to = "BUILD_TASK_PACKAGE")
  BY <1>2, <1>4, <1>5, StraightEdges DEF StraightTarget
<1> HIDE DEF u
<1>t. TypeOK' BY <1>1, <1>6 DEF IInv, TypeOK, history
<1>s. StageInv' BY <1>2, <1>3, <1>5, <1>7
      DEF IInv, StageInv, AwaitsWrite, AwaitsPublish, At, Follows, Keeps, Reset, PendingAfter,
          EdgeOk,
          Early, Selected, Explored, Packaged, Writing, Working, RepairNodes
<1>j. JudgedInv' BY <1>1, <1>2, <1>3, <1>5, <1>7 DEF IInv, TypeOK, JudgedInv, At, Follows, history
<1>c. CriticalGate' BY <1>1, <1>2, <1>3, <1>5, <1>7
      DEF CriticalGate, IInv, StageInv, AwaitsWrite, AwaitsPublish, At, Follows, Keeps, Reset,
          PendingAfter, EdgeOk,
          Early, Selected, Explored, Packaged, Writing, Working, RepairNodes, history
<1>d. DeliveryInv' BY <1>1, <1>2, <1>3, <1>5, <1>7
      DEF IInv, DeliveryInv, Delivered, AwaitsWrite, AwaitsPublish, At, Follows, Keeps, Reset,
          PendingAfter, EdgeOk, history
<1> QED BY <1>t, <1>s, <1>j, <1>c, <1>d DEF IInv

(* BuildTaskPackage keeps the invariant. *)
LEMMA BuildTaskPackageKeepsInv == ASSUME IInv, BuildTaskPackage PROVE IInv'
<1>1. PICK r \in Results(plan, state) :
        /\ ApplyResult(state, r, state') /\ plan' = plan
        /\ history' = history
  BY DEF BuildTaskPackage, Route, Step
<1>2. state \in State /\ plan \in Plans /\ state.node = "BUILD_TASK_PACKAGE"
  BY DEF IInv, TypeOK, BuildTaskPackage, Route, At
<1> DEFINE u == Patched(state, r.patch)
<1>3. u \in State /\ (IF Succeeded(r)
                         THEN Keeps(state, u, {"package"}) /\ u.package = state.item
                         ELSE Keeps(state, u, {}))
  BY <1>2, PackageResult
<1>4. u.node = state.node BY <1>3 DEF Keeps
<1>5. PICK e \in Outgoing(u, r) : Follows(u, e, state')
  BY <1>1, <1>3, ApplyFollows
<1>6. state' \in State BY <1>1, <1>3, ApplyFollows
<1>7. /\ EdgeOk(e)
      /\ e.to = "FINALIZE" \/ (Succeeded(r) /\ e.to = "ASSESS_RISK")
  BY <1>2, <1>4, <1>5, StraightEdges DEF StraightTarget
<1> HIDE DEF u
<1>t. TypeOK' BY <1>1, <1>6 DEF IInv, TypeOK, history
<1>s. StageInv' BY <1>2, <1>3, <1>5, <1>7
      DEF IInv, StageInv, AwaitsWrite, AwaitsPublish, At, Follows, Keeps, Reset, PendingAfter,
          EdgeOk,
          Early, Selected, Explored, Packaged, Writing, Working, RepairNodes
<1>j. JudgedInv' BY <1>1, <1>2, <1>3, <1>5, <1>7 DEF IInv, TypeOK, JudgedInv, At, Follows, history
<1>c. CriticalGate' BY <1>1, <1>2, <1>3, <1>5, <1>7
      DEF CriticalGate, IInv, StageInv, AwaitsWrite, AwaitsPublish, At, Follows, Keeps, Reset,
          PendingAfter, EdgeOk,
          Early, Selected, Explored, Packaged, Writing, Working, RepairNodes, history
<1>d. DeliveryInv' BY <1>1, <1>2, <1>3, <1>5, <1>7
      DEF IInv, DeliveryInv, Delivered, AwaitsWrite, AwaitsPublish, At, Follows, Keeps, Reset,
          PendingAfter, EdgeOk, history
<1> QED BY <1>t, <1>s, <1>j, <1>c, <1>d DEF IInv

(* AssessRisk keeps the invariant. *)
LEMMA AssessRiskKeepsInv == ASSUME IInv, AssessRisk PROVE IInv'
<1>1. PICK r \in Results(plan, state) :
        /\ ApplyResult(state, r, state') /\ plan' = plan
        /\ history' = history
  BY DEF AssessRisk, Route, Step
<1>2. state \in State /\ plan \in Plans /\ state.node = "ASSESS_RISK"
  BY DEF IInv, TypeOK, AssessRisk, Route, At
<1> DEFINE u == Patched(state, r.patch)
<1>3. u \in State /\ Keeps(state, u, {"risk"})
  BY <1>2, AssessRiskResult
<1>4. u.node = state.node BY <1>3 DEF Keeps
<1>5. PICK e \in Outgoing(u, r) : Follows(u, e, state')
  BY <1>1, <1>3, ApplyFollows
<1>6. state' \in State BY <1>1, <1>3, ApplyFollows
<1>7. /\ EdgeOk(e)
      /\ e.to \in {"FINALIZE", "IMPLEMENT", "HUMAN_CHECKPOINT"}
      /\ (e.to = "IMPLEMENT" => u.risk # "CRITICAL")
      /\ (e.to = "HUMAN_CHECKPOINT" => e.resume = "IMPLEMENT")
  BY <1>2, <1>4, <1>5, AssessRiskLeads
<1> HIDE DEF u
<1>t. TypeOK' BY <1>1, <1>6 DEF IInv, TypeOK, history
<1>s. StageInv'
  <2>1. /\ state'.item = state.item /\ state'.explored = state.explored
        /\ state'.package = state.package
        /\ state'.locked = (e.to = "IMPLEMENT" \/ state.locked)
        /\ state'.node = e.to
    BY <1>2, <1>3, <1>5 DEF Follows, Keeps, Reset
  <2>2. /\ ~state.locked /\ state.item # NoItem /\ state.explored = state.item
        /\ state.package = state.item
    BY <1>2 DEF IInv, StageInv, Early, Selected, Explored, Packaged
  <2> QED BY <1>7, <2>1, <2>2
      DEF StageInv, AwaitsWrite, At, Early, Selected, Explored, Packaged, Writing, Working,
          RepairNodes
<1>j. JudgedInv' BY <1>1, <1>2, <1>3, <1>5, <1>7 DEF IInv, TypeOK, JudgedInv, At, Follows, history
<1>c. CriticalGate' BY <1>1, <1>2, <1>3, <1>5, <1>7
      DEF CriticalGate, IInv, StageInv, AwaitsWrite, AwaitsPublish, At, Follows, Keeps, Reset,
          PendingAfter, EdgeOk,
          Early, Selected, Explored, Packaged, Writing, Working, RepairNodes, history
<1>d. DeliveryInv' BY <1>1, <1>2, <1>3, <1>5, <1>7
      DEF IInv, DeliveryInv, Delivered, AwaitsWrite, AwaitsPublish, At, Follows, Keeps, Reset,
          PendingAfter, EdgeOk, history
<1> QED BY <1>t, <1>s, <1>j, <1>c, <1>d DEF IInv

(* HumanCheckpoint keeps the invariant. *)
LEMMA HumanCheckpointKeepsInv == ASSUME IInv, HumanCheckpoint PROVE IInv'
<1>1. PICK r \in Results(plan, state) :
        /\ ApplyResult(state, r, state') /\ plan' = plan
        /\ approved' = (IF r.outcome # "APPROVED" THEN approved
                          ELSE approved \cup {IF state.pending = "IMPLEMENT" THEN state.item
                                                                            ELSE "PUBLISH"})
           /\ UNCHANGED <<passed, delivery, published>>
  BY DEF HumanCheckpoint, Step
<1>2. state \in State /\ plan \in Plans /\ state.node = "HUMAN_CHECKPOINT"
  BY DEF IInv, TypeOK, HumanCheckpoint, At
<1> DEFINE u == Patched(state, r.patch)
<1>3. u \in State /\ Keeps(state, u, {})
  BY <1>2, HumanCheckpointResult
<1>4. u.node = state.node BY <1>3 DEF Keeps
<1>5. PICK e \in Outgoing(u, r) : Follows(u, e, state')
  BY <1>1, <1>3, ApplyFollows
<1>6. state' \in State BY <1>1, <1>3, ApplyFollows
<1>7. /\ EdgeOk(e)
      /\ e.to \in {"FINALIZE", "IMPLEMENT", "CREATE_PR"}
      /\ (e.to # "FINALIZE" => u.pending = e.to /\ r.outcome = "APPROVED")
  BY <1>2, <1>4, <1>5, HumanCheckpointLeads
<1> HIDE DEF u
<1>8. approved' \subseteq Items \cup {"PUBLISH"}
  BY <1>1, <1>2 DEF IInv, TypeOK, StageInv, DeliveryInv, AwaitsWrite, At, State, ItemOrNone
<1>t. TypeOK' BY <1>1, <1>6, <1>8 DEF IInv, TypeOK
<1>s. StageInv'
  <2>1. /\ state'.item = state.item /\ state'.explored = state.explored
        /\ state'.package = state.package
        /\ state'.locked = (e.to = "IMPLEMENT" \/ state.locked)
        /\ state'.node = e.to
    BY <1>2, <1>3, <1>5 DEF Follows, Keeps, Reset
  <2>2. e.to = "IMPLEMENT" => AwaitsWrite BY <1>2, <1>3, <1>7 DEF AwaitsWrite, At, Keeps
  <2>3. AwaitsWrite => /\ state.item # NoItem /\ state.explored = state.item
                       /\ state.package = state.item
    BY DEF IInv, StageInv
  <2> QED BY <1>7, <2>1, <2>2, <2>3
      DEF StageInv, AwaitsWrite, At, Early, Selected, Explored, Packaged, Writing, Working,
          RepairNodes
<1>j. JudgedInv' BY <1>1, <1>2, <1>3, <1>5, <1>7 DEF IInv, TypeOK, JudgedInv, At, Follows
<1>c. CriticalGate'
  <2>1. /\ state'.risk = state.risk /\ state'.explored = state.explored
        /\ state'.locked = (e.to = "IMPLEMENT" \/ state.locked)
    BY <1>2, <1>3, <1>5 DEF Follows, Keeps, Reset
  <2>2. approved \subseteq approved' BY <1>1
  <2>3. CASE e.to = "IMPLEMENT"
    <3>1. state.pending = "IMPLEMENT" /\ r.outcome = "APPROVED" BY <1>3, <1>7, <2>3 DEF Keeps
    <3>2. state.explored = state.item BY <1>2, <3>1 DEF IInv, StageInv, AwaitsWrite, At
    <3> QED BY <1>1, <2>1, <3>1, <3>2 DEF CriticalGate
  <2>4. CASE e.to # "IMPLEMENT" BY <2>1, <2>2, <2>4 DEF IInv, CriticalGate
  <2> QED BY <2>3, <2>4
<1>d. DeliveryInv' BY <1>1, <1>2, <1>3, <1>5, <1>7
      DEF IInv, DeliveryInv, Delivered, AwaitsWrite, AwaitsPublish, At, Follows, Keeps, Reset,
          PendingAfter, EdgeOk
<1> QED BY <1>t, <1>s, <1>j, <1>c, <1>d DEF IInv

(* Implement keeps the invariant. *)
LEMMA ImplementKeepsInv == ASSUME IInv, Implement PROVE IInv'
<1>1. PICK r \in Results(plan, state) :
        /\ ApplyResult(state, r, state') /\ plan' = plan
        /\ passed' = Written(r) /\ UNCHANGED <<approved, delivery, published>>
  BY DEF Implement, Write, Step
<1>2. state \in State /\ plan \in Plans /\ state.node = "IMPLEMENT"
  BY DEF IInv, TypeOK, Implement, Write, At
<1> DEFINE u == Patched(state, r.patch)
<1>3. u \in State /\ (IF Succeeded(r)
                         THEN Keeps(state, u, {"changes"}) /\ u.changes = state.item
                         ELSE Keeps(state, u, {}))
  BY <1>2, ImplementResult
<1>4. u.node = state.node BY <1>3 DEF Keeps
<1>5. PICK e \in Outgoing(u, r) : Follows(u, e, state')
  BY <1>1, <1>3, ApplyFollows
<1>6. state' \in State BY <1>1, <1>3, ApplyFollows
<1>7. /\ EdgeOk(e)
      /\ e.to = "FINALIZE" \/ (Succeeded(r) /\ e.to = "VALIDATE")
  BY <1>2, <1>4, <1>5, StraightEdges DEF StraightTarget
<1> HIDE DEF u
<1>t. TypeOK' BY <1>1, <1>6 DEF IInv, TypeOK, Written
<1>s. StageInv'
  <2>1. /\ state'.item = state.item /\ state'.explored = state.explored
        /\ state'.package = state.package
        /\ state'.locked = (e.to = "IMPLEMENT" \/ state.locked)
        /\ state'.node = e.to
    BY <1>2, <1>3, <1>5 DEF Follows, Keeps, Reset
  <2>2. /\ state.locked /\ state.item # NoItem /\ state.explored = state.item
        /\ state.package = state.item
    BY <1>2 DEF IInv, StageInv, Selected, Explored, Packaged, Writing, Working, RepairNodes
  <2>3. e.to = "VALIDATE" => state'.changes = state.item
    BY <1>2, <1>3, <1>5, <1>7, <2>2 DEF Follows, Reset
  <2> QED BY <1>7, <2>1, <2>2, <2>3
      DEF StageInv, AwaitsWrite, At, Early, Selected, Explored, Packaged, Writing, Working,
          RepairNodes
<1>j. JudgedInv' BY <1>1, <1>2, <1>3, <1>5, <1>7 DEF IInv, TypeOK, JudgedInv, At, Follows, Written
<1>c. CriticalGate' BY <1>1, <1>2, <1>3, <1>5, <1>7
      DEF CriticalGate, IInv, StageInv, AwaitsWrite, AwaitsPublish, At, Follows, Keeps, Reset,
          PendingAfter, EdgeOk,
          Early, Selected, Explored, Packaged, Writing, Working, RepairNodes, Written
<1>d. DeliveryInv' BY <1>1, <1>2, <1>3, <1>5, <1>7
      DEF IInv, DeliveryInv, Delivered, AwaitsWrite, AwaitsPublish, At, Follows, Keeps, Reset,
          PendingAfter, EdgeOk, Written
<1> QED BY <1>t, <1>s, <1>j, <1>c, <1>d DEF IInv

(* Validate keeps the invariant. *)
LEMMA ValidateKeepsInv == ASSUME IInv, Validate PROVE IInv'
<1>1. PICK r \in Results(plan, state) :
        /\ ApplyResult(state, r, state') /\ plan' = plan
        /\ passed' = Judged("VALIDATION", Succeeded(r) /\ r.patch.validation = "PASS")
           /\ UNCHANGED <<approved, delivery, published>>
  BY DEF Validate, Step
<1>2. state \in State /\ plan \in Plans /\ state.node = "VALIDATE"
  BY DEF IInv, TypeOK, Validate, At
<1> DEFINE u == Patched(state, r.patch)
<1>3. u \in State /\ Keeps(state, u, {}) /\ (Succeeded(r) => r.patch.validation = u.validation)
  BY <1>2, ValidateResult
<1>4. u.node = state.node BY <1>3 DEF Keeps
<1>5. PICK e \in Outgoing(u, r) : Follows(u, e, state')
  BY <1>1, <1>3, ApplyFollows
<1>6. state' \in State BY <1>1, <1>3, ApplyFollows
<1>7. /\ EdgeOk(e)
      /\ e.to \in {"FINALIZE", "CLASSIFY_FAILURE", "REVIEW"}
      /\ (e.to = "REVIEW" => Succeeded(r) /\ u.validation = "PASS")
  BY <1>2, <1>4, <1>5, ValidateLeads
<1> HIDE DEF u
<1>t. TypeOK' BY <1>1, <1>6 DEF IInv, TypeOK, Judged
<1>s. StageInv'
  <2>1. /\ state'.item = state.item /\ state'.explored = state.explored
        /\ state'.package = state.package /\ state'.changes = state.changes
        /\ state'.locked = (e.to = "IMPLEMENT" \/ state.locked)
        /\ state'.node = e.to
    BY <1>2, <1>3, <1>5 DEF Follows, Keeps, Reset
  <2>2. /\ state.locked /\ state.item # NoItem /\ state.explored = state.item
        /\ state.package = state.item /\ state.changes = state.item
    BY <1>2 DEF IInv, StageInv, Selected, Explored, Packaged, Writing, Working
  <2> QED BY <1>7, <2>1, <2>2
      DEF StageInv, AwaitsWrite, At, Early, Selected, Explored, Packaged, Writing, Working,
          RepairNodes
<1>j. JudgedInv' BY <1>1, <1>2, <1>3, <1>5, <1>7 DEF IInv, TypeOK, JudgedInv, At, Follows, Judged
<1>c. CriticalGate' BY <1>1, <1>2, <1>3, <1>5, <1>7
      DEF CriticalGate, IInv, StageInv, AwaitsWrite, AwaitsPublish, At, Follows, Keeps, Reset,
          PendingAfter, EdgeOk,
          Early, Selected, Explored, Packaged, Writing, Working, RepairNodes, Judged
<1>d. DeliveryInv' BY <1>1, <1>2, <1>3, <1>5, <1>7
      DEF IInv, DeliveryInv, Delivered, AwaitsWrite, AwaitsPublish, At, Follows, Keeps, Reset,
          PendingAfter, EdgeOk, Judged
<1> QED BY <1>t, <1>s, <1>j, <1>c, <1>d DEF IInv

(* Review keeps the invariant. *)
LEMMA ReviewKeepsInv == ASSUME IInv, Review PROVE IInv'
<1>1. PICK r \in Results(plan, state) :
        /\ ApplyResult(state, r, state') /\ plan' = plan
        /\ passed' = Judged("REVIEW", Succeeded(r) /\ r.patch.review = "PASS")
           /\ UNCHANGED <<approved, delivery, published>>
  BY DEF Review, Step
<1>2. state \in State /\ plan \in Plans /\ state.node = "REVIEW"
  BY DEF IInv, TypeOK, Review, At
<1> DEFINE u == Patched(state, r.patch)
<1>3. u \in State /\ Keeps(state, u, {}) /\ (Succeeded(r) => r.patch.review = u.review)
  BY <1>2, ReviewResult
<1>4. u.node = state.node BY <1>3 DEF Keeps
<1>5. PICK e \in Outgoing(u, r) : Follows(u, e, state')
  BY <1>1, <1>3, ApplyFollows
<1>6. state' \in State BY <1>1, <1>3, ApplyFollows
<1>7. /\ EdgeOk(e)
      /\ e.to \in {"FINALIZE", "CLASSIFY_FAILURE", "CLOSE_TASK"}
      /\ (e.to = "CLOSE_TASK" => Succeeded(r) /\ u.review = "PASS")
  BY <1>2, <1>4, <1>5, ReviewLeads
<1> HIDE DEF u
<1>t. TypeOK' BY <1>1, <1>6 DEF IInv, TypeOK, Judged
<1>s. StageInv'
  <2>1. /\ state'.item = state.item /\ state'.explored = state.explored
        /\ state'.package = state.package /\ state'.changes = state.changes
        /\ state'.locked = (e.to = "IMPLEMENT" \/ state.locked)
        /\ state'.node = e.to
    BY <1>2, <1>3, <1>5 DEF Follows, Keeps, Reset
  <2>2. /\ state.locked /\ state.item # NoItem /\ state.explored = state.item
        /\ state.package = state.item /\ state.changes = state.item
    BY <1>2 DEF IInv, StageInv, Selected, Explored, Packaged, Writing, Working
  <2> QED BY <1>7, <2>1, <2>2
      DEF StageInv, AwaitsWrite, At, Early, Selected, Explored, Packaged, Writing, Working,
          RepairNodes
<1>j. JudgedInv' BY <1>1, <1>2, <1>3, <1>5, <1>7 DEF IInv, TypeOK, JudgedInv, At, Follows, Judged
<1>c. CriticalGate' BY <1>1, <1>2, <1>3, <1>5, <1>7
      DEF CriticalGate, IInv, StageInv, AwaitsWrite, AwaitsPublish, At, Follows, Keeps, Reset,
          PendingAfter, EdgeOk,
          Early, Selected, Explored, Packaged, Writing, Working, RepairNodes, Judged
<1>d. DeliveryInv' BY <1>1, <1>2, <1>3, <1>5, <1>7
      DEF IInv, DeliveryInv, Delivered, AwaitsWrite, AwaitsPublish, At, Follows, Keeps, Reset,
          PendingAfter, EdgeOk, Judged
<1> QED BY <1>t, <1>s, <1>j, <1>c, <1>d DEF IInv

(* ClassifyFailure keeps the invariant. *)
LEMMA ClassifyFailureKeepsInv == ASSUME IInv, ClassifyFailure PROVE IInv'
<1>1. PICK r \in Results(plan, state) :
        /\ ApplyResult(state, r, state') /\ plan' = plan
        /\ history' = history
  BY DEF ClassifyFailure, Route, Step
<1>2. state \in State /\ plan \in Plans /\ state.node = "CLASSIFY_FAILURE"
  BY DEF IInv, TypeOK, ClassifyFailure, Route, At
<1> DEFINE u == Patched(state, r.patch)
<1>3. u \in State /\ Keeps(state, u, {})
  BY <1>2, ClassifyFailureResult
<1>4. u.node = state.node BY <1>3 DEF Keeps
<1>5. PICK e \in Outgoing(u, r) : Follows(u, e, state')
  BY <1>1, <1>3, ApplyFollows
<1>6. state' \in State BY <1>1, <1>3, ApplyFollows
<1>7. /\ EdgeOk(e)
      /\ e.to \in {"FINALIZE", "PROGRAMMER_REPAIR", "DEBUGGER"}
  BY <1>2, <1>4, <1>5, ClassifyFailureLeads
<1> HIDE DEF u
<1>t. TypeOK' BY <1>1, <1>6 DEF IInv, TypeOK, history
<1>s. StageInv'
  <2>1. /\ state'.item = state.item /\ state'.explored = state.explored
        /\ state'.package = state.package /\ state'.changes = state.changes
        /\ state'.locked = (e.to = "IMPLEMENT" \/ state.locked)
        /\ state'.node = e.to
    BY <1>2, <1>3, <1>5 DEF Follows, Keeps, Reset
  <2>2. /\ state.locked /\ state.item # NoItem /\ state.explored = state.item
        /\ state.package = state.item /\ state.changes = state.item
    BY <1>2 DEF IInv, StageInv, Selected, Explored, Packaged, Writing, Working
  <2> QED BY <1>7, <2>1, <2>2
      DEF StageInv, AwaitsWrite, At, Early, Selected, Explored, Packaged, Writing, Working,
          RepairNodes
<1>j. JudgedInv' BY <1>1, <1>2, <1>3, <1>5, <1>7 DEF IInv, TypeOK, JudgedInv, At, Follows, history
<1>c. CriticalGate' BY <1>1, <1>2, <1>3, <1>5, <1>7
      DEF CriticalGate, IInv, StageInv, AwaitsWrite, AwaitsPublish, At, Follows, Keeps, Reset,
          PendingAfter, EdgeOk,
          Early, Selected, Explored, Packaged, Writing, Working, RepairNodes, history
<1>d. DeliveryInv' BY <1>1, <1>2, <1>3, <1>5, <1>7
      DEF IInv, DeliveryInv, Delivered, AwaitsWrite, AwaitsPublish, At, Follows, Keeps, Reset,
          PendingAfter, EdgeOk, history
<1> QED BY <1>t, <1>s, <1>j, <1>c, <1>d DEF IInv

(* ProgrammerRepair keeps the invariant. *)
LEMMA ProgrammerRepairKeepsInv == ASSUME IInv, ProgrammerRepair PROVE IInv'
<1>1. PICK r \in Results(plan, state) :
        /\ ApplyResult(state, r, state') /\ plan' = plan
        /\ passed' = Written(r) /\ UNCHANGED <<approved, delivery, published>>
  BY DEF ProgrammerRepair, Write, Step
<1>2. state \in State /\ plan \in Plans /\ state.node = "PROGRAMMER_REPAIR"
  BY DEF IInv, TypeOK, ProgrammerRepair, Write, At
<1> DEFINE u == Patched(state, r.patch)
<1>3. u \in State /\ (IF Succeeded(r)
                         THEN Keeps(state, u, {"changes"}) /\ u.changes = state.changes
                         ELSE Keeps(state, u, {}))
  BY <1>2, RepairResult DEF RepairNodes
<1>4. u.node = state.node BY <1>3 DEF Keeps
<1>5. PICK e \in Outgoing(u, r) : Follows(u, e, state')
  BY <1>1, <1>3, ApplyFollows
<1>6. state' \in State BY <1>1, <1>3, ApplyFollows
<1>7. /\ EdgeOk(e)
      /\ e.to = "FINALIZE" \/ (Succeeded(r) /\ e.to = "VALIDATE")
  BY <1>2, <1>4, <1>5, StraightEdges DEF StraightTarget
<1> HIDE DEF u
<1>t. TypeOK' BY <1>1, <1>6 DEF IInv, TypeOK, Written
<1>s. StageInv'
  <2>1. /\ state'.item = state.item /\ state'.explored = state.explored
        /\ state'.package = state.package
        /\ state'.locked = (e.to = "IMPLEMENT" \/ state.locked)
        /\ state'.node = e.to
    BY <1>2, <1>3, <1>5 DEF Follows, Keeps, Reset
  <2>2. /\ state.locked /\ state.item # NoItem /\ state.explored = state.item
        /\ state.package = state.item /\ state.changes = state.item
    BY <1>2 DEF IInv, StageInv, Selected, Explored, Packaged, Writing, Working, RepairNodes
  <2>3. e.to = "VALIDATE" => state'.changes = state.item
    BY <1>2, <1>3, <1>5, <1>7, <2>2 DEF Follows, Reset
  <2> QED BY <1>7, <2>1, <2>2, <2>3
      DEF StageInv, AwaitsWrite, At, Early, Selected, Explored, Packaged, Writing, Working,
          RepairNodes
<1>j. JudgedInv' BY <1>1, <1>2, <1>3, <1>5, <1>7 DEF IInv, TypeOK, JudgedInv, At, Follows, Written
<1>c. CriticalGate' BY <1>1, <1>2, <1>3, <1>5, <1>7
      DEF CriticalGate, IInv, StageInv, AwaitsWrite, AwaitsPublish, At, Follows, Keeps, Reset,
          PendingAfter, EdgeOk,
          Early, Selected, Explored, Packaged, Writing, Working, RepairNodes, Written
<1>d. DeliveryInv' BY <1>1, <1>2, <1>3, <1>5, <1>7
      DEF IInv, DeliveryInv, Delivered, AwaitsWrite, AwaitsPublish, At, Follows, Keeps, Reset,
          PendingAfter, EdgeOk, Written
<1> QED BY <1>t, <1>s, <1>j, <1>c, <1>d DEF IInv

(* Debugger keeps the invariant. *)
LEMMA DebuggerKeepsInv == ASSUME IInv, Debugger PROVE IInv'
<1>1. PICK r \in Results(plan, state) :
        /\ ApplyResult(state, r, state') /\ plan' = plan
        /\ passed' = Written(r) /\ UNCHANGED <<approved, delivery, published>>
  BY DEF Debugger, Write, Step
<1>2. state \in State /\ plan \in Plans /\ state.node = "DEBUGGER"
  BY DEF IInv, TypeOK, Debugger, Write, At
<1> DEFINE u == Patched(state, r.patch)
<1>3. u \in State /\ (IF Succeeded(r)
                         THEN Keeps(state, u, {"changes"}) /\ u.changes = state.changes
                         ELSE Keeps(state, u, {}))
  BY <1>2, RepairResult DEF RepairNodes
<1>4. u.node = state.node BY <1>3 DEF Keeps
<1>5. PICK e \in Outgoing(u, r) : Follows(u, e, state')
  BY <1>1, <1>3, ApplyFollows
<1>6. state' \in State BY <1>1, <1>3, ApplyFollows
<1>7. /\ EdgeOk(e)
      /\ e.to = "FINALIZE" \/ (Succeeded(r) /\ e.to = "VALIDATE")
  BY <1>2, <1>4, <1>5, StraightEdges DEF StraightTarget
<1> HIDE DEF u
<1>t. TypeOK' BY <1>1, <1>6 DEF IInv, TypeOK, Written
<1>s. StageInv'
  <2>1. /\ state'.item = state.item /\ state'.explored = state.explored
        /\ state'.package = state.package
        /\ state'.locked = (e.to = "IMPLEMENT" \/ state.locked)
        /\ state'.node = e.to
    BY <1>2, <1>3, <1>5 DEF Follows, Keeps, Reset
  <2>2. /\ state.locked /\ state.item # NoItem /\ state.explored = state.item
        /\ state.package = state.item /\ state.changes = state.item
    BY <1>2 DEF IInv, StageInv, Selected, Explored, Packaged, Writing, Working, RepairNodes
  <2>3. e.to = "VALIDATE" => state'.changes = state.item
    BY <1>2, <1>3, <1>5, <1>7, <2>2 DEF Follows, Reset
  <2> QED BY <1>7, <2>1, <2>2, <2>3
      DEF StageInv, AwaitsWrite, At, Early, Selected, Explored, Packaged, Writing, Working,
          RepairNodes
<1>j. JudgedInv' BY <1>1, <1>2, <1>3, <1>5, <1>7 DEF IInv, TypeOK, JudgedInv, At, Follows, Written
<1>c. CriticalGate' BY <1>1, <1>2, <1>3, <1>5, <1>7
      DEF CriticalGate, IInv, StageInv, AwaitsWrite, AwaitsPublish, At, Follows, Keeps, Reset,
          PendingAfter, EdgeOk,
          Early, Selected, Explored, Packaged, Writing, Working, RepairNodes, Written
<1>d. DeliveryInv' BY <1>1, <1>2, <1>3, <1>5, <1>7
      DEF IInv, DeliveryInv, Delivered, AwaitsWrite, AwaitsPublish, At, Follows, Keeps, Reset,
          PendingAfter, EdgeOk, Written
<1> QED BY <1>t, <1>s, <1>j, <1>c, <1>d DEF IInv

(* CloseTask keeps the invariant. *)
LEMMA CloseTaskKeepsInv == ASSUME IInv, CloseTask PROVE IInv'
<1>1. PICK r \in Results(plan, state) :
        /\ ApplyResult(state, r, state') /\ plan' = plan
        /\ history' = history
  BY DEF CloseTask, Route, Step
<1>2. state \in State /\ plan \in Plans /\ state.node = "CLOSE_TASK"
  BY DEF IInv, TypeOK, CloseTask, Route, At
<1>i. state.item # NoItem
  BY <1>2 DEF IInv, StageInv, Early, Selected, Explored, Packaged, Writing, Working, RepairNodes
<1> DEFINE u == Patched(state, r.patch)
<1>3. u \in State /\ (IF Succeeded(r)
                         THEN Keeps(state, u, {"item", "completed"}) /\ u.completed # <<>>
                         ELSE Keeps(state, u, {}))
  BY <1>2, <1>i, CloseTaskResult
<1>4. u.node = state.node BY <1>3 DEF Keeps
<1>5. PICK e \in Outgoing(u, r) : Follows(u, e, state')
  BY <1>1, <1>3, ApplyFollows
<1>6. state' \in State BY <1>1, <1>3, ApplyFollows
<1>7. /\ EdgeOk(e)
      /\ e.to = "FINALIZE" \/ (Succeeded(r) /\ e.to = "MORE_WORK")
  BY <1>2, <1>4, <1>5, StraightEdges DEF StraightTarget
<1> HIDE DEF u
<1>t. TypeOK' BY <1>1, <1>6 DEF IInv, TypeOK, history
<1>s. StageInv' BY <1>2, <1>3, <1>5, <1>7
      DEF IInv, StageInv, AwaitsWrite, AwaitsPublish, At, Follows, Keeps, Reset, PendingAfter,
          EdgeOk,
          Early, Selected, Explored, Packaged, Writing, Working, RepairNodes
<1>j. JudgedInv' BY <1>1, <1>2, <1>3, <1>5, <1>7 DEF IInv, TypeOK, JudgedInv, At, Follows, history
<1>c. CriticalGate' BY <1>1, <1>2, <1>3, <1>5, <1>7
      DEF CriticalGate, IInv, StageInv, AwaitsWrite, AwaitsPublish, At, Follows, Keeps, Reset,
          PendingAfter, EdgeOk,
          Early, Selected, Explored, Packaged, Writing, Working, RepairNodes, history
<1>d. DeliveryInv' BY <1>1, <1>2, <1>3, <1>5, <1>7
      DEF IInv, DeliveryInv, Delivered, AwaitsWrite, AwaitsPublish, At, Follows, Keeps, Reset,
          PendingAfter, EdgeOk, history
<1> QED BY <1>t, <1>s, <1>j, <1>c, <1>d DEF IInv

(* MoreWork keeps the invariant. *)
LEMMA MoreWorkKeepsInv == ASSUME IInv, MoreWork PROVE IInv'
<1>1. PICK r \in Results(plan, state) :
        /\ ApplyResult(state, r, state') /\ plan' = plan
        /\ history' = history
  BY DEF MoreWork, Route, Step
<1>2. state \in State /\ plan \in Plans /\ state.node = "MORE_WORK"
  BY DEF IInv, TypeOK, MoreWork, Route, At
<1> DEFINE u == Patched(state, r.patch)
<1>3. u \in State /\ Keeps(state, u, {})
  BY <1>2, PlainResults
<1>4. u.node = state.node BY <1>3 DEF Keeps
<1>5. PICK e \in Outgoing(u, r) : Follows(u, e, state')
  BY <1>1, <1>3, ApplyFollows
<1>6. state' \in State BY <1>1, <1>3, ApplyFollows
<1>7. /\ EdgeOk(e)
      /\ e.to \in {"FINALIZE", "SELECT_WORK", "DELIVERY_REVIEW"}
  BY <1>2, <1>4, <1>5, MoreWorkLeads
<1> HIDE DEF u
<1>t. TypeOK' BY <1>1, <1>6 DEF IInv, TypeOK, history
<1>s. StageInv' BY <1>2, <1>3, <1>5, <1>7
      DEF IInv, StageInv, AwaitsWrite, AwaitsPublish, At, Follows, Keeps, Reset, PendingAfter,
          EdgeOk,
          Early, Selected, Explored, Packaged, Writing, Working, RepairNodes
<1>j. JudgedInv' BY <1>1, <1>2, <1>3, <1>5, <1>7 DEF IInv, TypeOK, JudgedInv, At, Follows, history
<1>c. CriticalGate' BY <1>1, <1>2, <1>3, <1>5, <1>7
      DEF CriticalGate, IInv, StageInv, AwaitsWrite, AwaitsPublish, At, Follows, Keeps, Reset,
          PendingAfter, EdgeOk,
          Early, Selected, Explored, Packaged, Writing, Working, RepairNodes, history
<1>d. DeliveryInv' BY <1>1, <1>2, <1>3, <1>5, <1>7
      DEF IInv, DeliveryInv, Delivered, AwaitsWrite, AwaitsPublish, At, Follows, Keeps, Reset,
          PendingAfter, EdgeOk, history
<1> QED BY <1>t, <1>s, <1>j, <1>c, <1>d DEF IInv

(* DeliveryReview keeps the invariant. *)
LEMMA DeliveryReviewKeepsInv == ASSUME IInv, DeliveryReview PROVE IInv'
<1>1. PICK r \in Results(plan, state) :
        /\ ApplyResult(state, r, state') /\ plan' = plan
        /\ delivery' = (IF Succeeded(r) /\ r.patch.review = "PASS" THEN state.completed
                                                                     ELSE delivery)
           /\ UNCHANGED <<passed, approved, published>>
  BY DEF DeliveryReview, Step
<1>2. state \in State /\ plan \in Plans /\ state.node = "DELIVERY_REVIEW"
  BY DEF IInv, TypeOK, DeliveryReview, At
<1> DEFINE u == Patched(state, r.patch)
<1>3. u \in State /\ Keeps(state, u, {}) /\ (Succeeded(r) => r.patch.review = u.review)
  BY <1>2, DeliveryReviewResult
<1>4. u.node = state.node BY <1>3 DEF Keeps
<1>5. PICK e \in Outgoing(u, r) : Follows(u, e, state')
  BY <1>1, <1>3, ApplyFollows
<1>6. state' \in State BY <1>1, <1>3, ApplyFollows
<1>7. /\ EdgeOk(e)
      /\ e.to \in {"FINALIZE", "HUMAN_CHECKPOINT"}
      /\ (e.to = "HUMAN_CHECKPOINT" => e.resume = "CREATE_PR" /\ Succeeded(r) /\ u.review = "PASS")
  BY <1>2, <1>4, <1>5, DeliveryReviewLeads
<1> HIDE DEF u
<1>8. delivery' \in Seq(Items)
  BY <1>1, <1>2 DEF IInv, TypeOK, State
<1>t. TypeOK' BY <1>1, <1>6, <1>8 DEF IInv, TypeOK
<1>s. StageInv' BY <1>2, <1>3, <1>5, <1>7
      DEF IInv, StageInv, AwaitsWrite, AwaitsPublish, At, Follows, Keeps, Reset, PendingAfter,
          EdgeOk,
          Early, Selected, Explored, Packaged, Writing, Working, RepairNodes
<1>j. JudgedInv' BY <1>1, <1>2, <1>3, <1>5, <1>7 DEF IInv, TypeOK, JudgedInv, At, Follows
<1>c. CriticalGate' BY <1>1, <1>2, <1>3, <1>5, <1>7
      DEF CriticalGate, IInv, StageInv, AwaitsWrite, AwaitsPublish, At, Follows, Keeps, Reset,
          PendingAfter, EdgeOk,
          Early, Selected, Explored, Packaged, Writing, Working, RepairNodes
<1>d. DeliveryInv' BY <1>1, <1>2, <1>3, <1>5, <1>7
      DEF IInv, DeliveryInv, Delivered, AwaitsWrite, AwaitsPublish, At, Follows, Keeps, Reset,
          PendingAfter, EdgeOk
<1> QED BY <1>t, <1>s, <1>j, <1>c, <1>d DEF IInv

(* CreatePr keeps the invariant. *)
LEMMA CreatePrKeepsInv == ASSUME IInv, CreatePr PROVE IInv'
<1>1. PICK r \in Results(plan, state) :
        /\ ApplyResult(state, r, state') /\ plan' = plan
        /\ published' \in {TRUE, Succeeded(r)} /\ UNCHANGED <<passed, approved, delivery>>
  BY DEF CreatePr, Step
<1>2. state \in State /\ plan \in Plans /\ state.node = "CREATE_PR"
  BY DEF IInv, TypeOK, CreatePr, At
<1> DEFINE u == Patched(state, r.patch)
<1>3. u \in State /\ Keeps(state, u, {})
  BY <1>2, PlainResults
<1>4. u.node = state.node BY <1>3 DEF Keeps
<1>5. PICK e \in Outgoing(u, r) : Follows(u, e, state')
  BY <1>1, <1>3, ApplyFollows
<1>6. state' \in State BY <1>1, <1>3, ApplyFollows
<1>7. /\ EdgeOk(e)
      /\ e.to = "FINALIZE"
  BY <1>2, <1>4, <1>5, CreatePrLeads
<1> HIDE DEF u
<1>t. TypeOK' BY <1>1, <1>6 DEF IInv, TypeOK, Succeeded
<1>s. StageInv' BY <1>2, <1>3, <1>5, <1>7
      DEF IInv, StageInv, AwaitsWrite, AwaitsPublish, At, Follows, Keeps, Reset, PendingAfter,
          EdgeOk,
          Early, Selected, Explored, Packaged, Writing, Working, RepairNodes
<1>j. JudgedInv' BY <1>1, <1>2, <1>3, <1>5, <1>7 DEF IInv, TypeOK, JudgedInv, At, Follows
<1>c. CriticalGate' BY <1>1, <1>2, <1>3, <1>5, <1>7
      DEF CriticalGate, IInv, StageInv, AwaitsWrite, AwaitsPublish, At, Follows, Keeps, Reset,
          PendingAfter, EdgeOk,
          Early, Selected, Explored, Packaged, Writing, Working, RepairNodes
<1>d. DeliveryInv' BY <1>1, <1>2, <1>3, <1>5, <1>7
      DEF IInv, DeliveryInv, Delivered, AwaitsWrite, AwaitsPublish, At, Follows, Keeps, Reset,
          PendingAfter, EdgeOk
<1> QED BY <1>t, <1>s, <1>j, <1>c, <1>d DEF IInv

(* Finalize keeps the invariant. *)
LEMMA FinalizeKeepsInv == ASSUME IInv, Finalize PROVE IInv'
<1>1. PICK r \in Results(plan, state) :
        /\ ApplyResult(state, r, state') /\ plan' = plan
        /\ history' = history
  BY DEF Finalize, Route, Step
<1>2. state \in State /\ plan \in Plans /\ state.node = "FINALIZE"
  BY DEF IInv, TypeOK, Finalize, Route, At
<1> DEFINE u == Patched(state, r.patch)
<1>3. u \in State /\ Keeps(state, u, {})
  BY <1>2, PlainResults
<1>4. u.node = state.node BY <1>3 DEF Keeps
<1>5. PICK e \in Outgoing(u, r) : Follows(u, e, state')
  BY <1>1, <1>3, ApplyFollows
<1>6. state' \in State BY <1>1, <1>3, ApplyFollows
<1>7. /\ EdgeOk(e)
      /\ e.to = "END"
  BY <1>2, <1>4, <1>5, FinalizeLeads
<1> HIDE DEF u
<1>t. TypeOK' BY <1>1, <1>6 DEF IInv, TypeOK, history
<1>s. StageInv' BY <1>2, <1>3, <1>5, <1>7
      DEF IInv, StageInv, AwaitsWrite, AwaitsPublish, At, Follows, Keeps, Reset, PendingAfter,
          EdgeOk,
          Early, Selected, Explored, Packaged, Writing, Working, RepairNodes
<1>j. JudgedInv' BY <1>1, <1>2, <1>3, <1>5, <1>7 DEF IInv, TypeOK, JudgedInv, At, Follows, history
<1>c. CriticalGate' BY <1>1, <1>2, <1>3, <1>5, <1>7
      DEF CriticalGate, IInv, StageInv, AwaitsWrite, AwaitsPublish, At, Follows, Keeps, Reset,
          PendingAfter, EdgeOk,
          Early, Selected, Explored, Packaged, Writing, Working, RepairNodes, history
<1>d. DeliveryInv' BY <1>1, <1>2, <1>3, <1>5, <1>7
      DEF IInv, DeliveryInv, Delivered, AwaitsWrite, AwaitsPublish, At, Follows, Keeps, Reset,
          PendingAfter, EdgeOk, history
<1> QED BY <1>t, <1>s, <1>j, <1>c, <1>d DEF IInv

-----------------------------------------------------------------------------
(* The invariant of the gates. *)
LEMMA Invariant == Spec => []IInv
<1>1. Init => IInv BY InitInv
<1>2. IInv /\ [Next]_vars => IInv'
  <2> SUFFICES ASSUME IInv, [Next]_vars PROVE IInv' OBVIOUS
  <2>1. CASE UNCHANGED vars
    BY <2>1 DEF IInv, TypeOK, StageInv, JudgedInv, CriticalGate, DeliveryInv, Delivered,
                AwaitsWrite, AwaitsPublish, At, vars
  <2>2. CASE Ended BY <2>1, <2>2 DEF Ended
  <2> QED
    BY <2>1, <2>2, StartKeepsInv, DiscoverProjectKeepsInv, PreflightKeepsInv, SelectWorkKeepsInv,
       ExploreKeepsInv, BuildTaskPackageKeepsInv, AssessRiskKeepsInv, HumanCheckpointKeepsInv,
       ImplementKeepsInv, ValidateKeepsInv, ReviewKeepsInv, ClassifyFailureKeepsInv,
       ProgrammerRepairKeepsInv, DebuggerKeepsInv, CloseTaskKeepsInv, MoreWorkKeepsInv,
       DeliveryReviewKeepsInv, CreatePrKeepsInv, FinalizeKeepsInv
    DEF Next
<1> QED BY <1>1, <1>2, PTL DEF Spec

(* Every variable keeps its type: in particular repair.count never passes the *)
(* limit, so that GraphState's constructor never raises.                      *)
THEOREM TypeCorrect == Spec => []TypeOK
<1> IInv => TypeOK BY DEF IInv
<1> QED BY Invariant, PTL

(* Only bytes validated and reviewed since they were last written, under the  *)
(* locked scope and the package of the item itself, reach the commit.         *)
THEOREM CommitsAreJudged == Spec => []CommitGate
<1> IInv => CommitGate
  BY DEF IInv, StageInv, JudgedInv, CommitGate, At, Early, Selected, Explored, Packaged, Writing,
         Working
<1> QED BY Invariant, PTL

(* No scope of critical risk is opened for writing without approval of that item. *)
THEOREM CriticalWritesAreApproved == Spec => []CriticalGate
<1> IInv => CriticalGate BY DEF IInv
<1> QED BY Invariant, PTL

(* No pull request is attempted without a passed delivery review of exactly the *)
(* completed items and an approval of the publication.                          *)
THEOREM PublicationsAreApproved == Spec => []PublishGate
<1> IInv => PublishGate BY DEF IInv, DeliveryInv, Delivered, PublishGate, At
<1> QED BY Invariant, PTL

-----------------------------------------------------------------------------
\* The ledger of repairs tells the story of the cycles, and a failure that is to be
\* classified is the newest verdict.
LedgerInv ==
    /\ Len(state.history) = state.count
    /\ \A k \in 1 .. state.count : state.history[k].id = k
    /\ At("REVIEW") => state.validation = "PASS"
    /\ At("CLASSIFY_FAILURE") => FailureContextAgrees(state)
    /\ state.node \in RepairNodes => RepairContextAgrees(state)

Ordered ==
    \A k \in DOMAIN state.completed :
      LET before == {state.completed[j] : j \in 1 .. k - 1}
      IN  state.completed[k] \notin before /\ plan.deps[state.completed[k]] \subseteq before

\* The items of the plan are completed in order, and what is left of it is known while one
\* of them is under way.
OrderInv ==
    /\ Ordered
    /\ Len(state.completed) <= MaxItems
    /\ state.node \notin {"MORE_WORK", "FINALIZE", "END"} => Len(state.completed) < MaxItems
    /\ state.node \in Selected \cup {"MORE_WORK"} \/ AwaitsWrite =>
         state.available = Remaining(plan, Done(state))
    /\ Done(state) \subseteq PlanItems(plan)
    /\ state.node \in {"DELIVERY_REVIEW", "CREATE_PR"} \/ AwaitsPublish \/ published =>
         PlanItems(plan) \subseteq Done(state)

\* The status stays RUNNING up to FINALIZE, and past it only for what was published; what
\* was published although its node failed is BLOCKED or FAILED.
OutcomeInv ==
    /\ state.node \notin {"FINALIZE", "END"} => state.status = "RUNNING" /\ ~published
    /\ At("FINALIZE") =>
         /\ state.status # "COMPLETED"
         /\ state.status = "RUNNING" => published
         /\ published => state.status \in {"RUNNING", "BLOCKED", "FAILED"}
    /\ At("END") =>
         /\ state.status # "RUNNING"
         /\ state.status = "COMPLETED" => published
         /\ published => state.status \in {"COMPLETED", "BLOCKED", "FAILED"}
    /\ state.node \in {"FINALIZE", "END"} =>
         (state.status = "PAUSED" <=> Len(state.completed) = MaxItems)

\* A write that waits for approval has its risk assessed.
RiskInv == AwaitsWrite => state.risk = "CRITICAL"

JInv == LedgerInv /\ OrderInv /\ OutcomeInv /\ RiskInv

-----------------------------------------------------------------------------
\* The edge of a result that is no success.
Refuses(e) ==
    /\ e.to = "FINALIZE" /\ e.final \in {"BLOCKED", "FAILED"} /\ e.resume = "NONE"
    /\ e.priority \in Int

(* What a refusal says. *)
LEMMA RefusalStatus ==
    ASSUME NEW r \in Refusing
    PROVE  \/ Stopped(r) /\ r.status # "FAILED"
           \/ r.status = "FAILED" /\ r.category \in FailureCategories
  BY DEF Refusing, Blocked, Undecided, AgentFailure, FailedWith, Failed, Result, Stopped,
         FailureCategories

(* A refusal ends the run, by one edge of its node. *)
LEMMA RefusalTurns ==
    ASSUME NEW s \in State, s.node \in Nodes \ {"FINALIZE", "END"}, NEW r \in Refusing,
           s.node \in {"VALIDATE", "REVIEW"} /\ r.status = "FAILED" => r.category \in Fatal
    PROVE  \E e : Outgoing(s, r) = {e} /\ Refuses(e)
<1>1. ~Succeeded(r) BY Refusals
<1>2. \/ Stopped(r) /\ r.status # "FAILED"
      \/ r.status = "FAILED" /\ r.category \in FailureCategories
  BY RefusalStatus
<1>3. r.status \notin {"CANCELLED", "TIMED_OUT"} BY <1>2 DEF Stopped
<1> DEFINE blocked == Finish("blocked", "BLOCKED")
           failed == Edge("failed", "FINALIZE", 10, "FAILED", "NONE")
           fatal == Finish("fatal-failure", "FAILED")
<1>4. Refuses(blocked) /\ Refuses(failed) /\ Refuses(fatal) BY DEF Refuses, Finish, Edge
<1>5. Stopped(r) => CancelledOrBlocked(r) = {blocked} /\ CommonFailures(r) = {blocked}
  BY <1>2, <1>3 DEF CancelledOrBlocked, CommonFailures, When, Stopped
<1>6. ~Stopped(r) => CancelledOrBlocked(r) = {} /\ CommonFailures(r) = {failed}
  BY <1>2, <1>3 DEF CancelledOrBlocked, CommonFailures, When
<1>7. \E e : CommonFailures(r) = {e} /\ Refuses(e) BY <1>4, <1>5, <1>6
<1> HIDE DEF blocked, failed
<1>8. CASE s.node \in DOMAIN StraightTarget
  <2>1. Outgoing(s, r) = Straight(r, StraightTarget[s.node])
    BY <1>8 DEF Outgoing, StraightTarget
  <2>2. Straight(r, StraightTarget[s.node]) = CommonFailures(r) BY <1>1 DEF Straight, When
  <2> QED BY <1>7, <2>1, <2>2
<1>9. CASE s.node \in {"SELECT_WORK", "ASSESS_RISK", "HUMAN_CHECKPOINT", "CLASSIFY_FAILURE",
                       "MORE_WORK", "DELIVERY_REVIEW"}
  <2>1. Outgoing(s, r) = CommonFailures(r)
    BY <1>1, <1>9
       DEF Outgoing, StraightTarget, SelectWorkEdges, AssessRiskEdges, HumanCheckpointEdges,
           ClassifyFailureEdges, MoreWorkEdges, DeliveryReviewEdges, When
  <2> QED BY <1>7, <2>1
<1>10. CASE s.node \in {"VALIDATE", "REVIEW"}
  <2>1. Outgoing(s, r) = JudgementFailures(r)
    BY <1>1, <1>10 DEF Outgoing, StraightTarget, ValidateEdges, ReviewEdges, When
  <2>2. CASE Stopped(r)
    <3>1. JudgementFailures(r) = {blocked}
      BY <1>2, <1>3, <1>5, <2>2 DEF JudgementFailures, FailedIn, When, Stopped
    <3> QED BY <1>4, <2>1, <3>1
  <2>3. CASE ~Stopped(r)
    <3>1. r.status = "FAILED" /\ r.category \in Fatal BY <1>2, <1>10, <2>3
    <3>2. JudgementFailures(r) = {fatal}
      BY <1>6, <2>3, <3>1 DEF JudgementFailures, FailedIn, When, Fatal
    <3> QED BY <1>4, <2>1, <3>2
  <2> QED BY <2>2, <2>3
<1>11. CASE s.node = "CREATE_PR"
  <2> DEFINE operational == Finish("operational-failure", "BLOCKED")
             terminal == Finish("terminal-failure", "FAILED")
  <2>1. Refuses(operational) /\ Refuses(terminal) BY DEF Refuses, Finish, Edge
  <2>2. Outgoing(s, r) = CreatePrEdges(r) BY <1>11 DEF Outgoing, StraightTarget
  <2>3. CASE Stopped(r)
    <3>1. CreatePrEdges(r) = {blocked}
      BY <1>1, <1>2, <1>3, <1>5, <2>3 DEF CreatePrEdges, FailedIn, When, Stopped
    <3> QED BY <1>4, <2>2, <3>1
  <2>4. CASE ~Stopped(r) /\ r.category \in Operational
    <3>1. CreatePrEdges(r) = {operational}
      BY <1>1, <1>2, <1>3, <1>6, <2>4 DEF CreatePrEdges, FailedIn, When
    <3> QED BY <2>1, <2>2, <3>1
  <2>5. CASE ~Stopped(r) /\ r.category \notin Operational
    <3>1. CreatePrEdges(r) = {terminal}
      BY <1>1, <1>2, <1>3, <1>6, <2>5 DEF CreatePrEdges, FailedIn, When
    <3> QED BY <2>1, <2>2, <3>1
  <2> QED BY <2>3, <2>4, <2>5
<1> QED BY <1>8, <1>9, <1>10, <1>11 DEF Nodes, StraightTarget

\* The engine takes the result r of the node of s along e, its only edge.
Turn(s, r, e) ==
    /\ Patched(s, r.patch) \in State
    /\ Outgoing(Patched(s, r.patch), r) = {e} /\ e.priority \in Int
    /\ DOMAIN r.patch \subseteq AllowedPaths(s.node)

Refused(s, r) ==
    /\ ~Succeeded(r) /\ Patched(s, r.patch) = s
    /\ \E e : Turn(s, r, e) /\ Refuses(e)

(* A refusal is taken to the end of the run. *)
LEMMA RefusedTurn ==
    ASSUME NEW s \in State, s.node \in Nodes \ {"FINALIZE", "END"}, NEW r \in Refusing,
           s.node \in {"VALIDATE", "REVIEW"} /\ r.status = "FAILED" => r.category \in Fatal
    PROVE  Refused(s, r)
<1>1. ~Succeeded(r) /\ r.patch = NoPatch BY Refusals
<1>2. Patched(s, r.patch) = s BY <1>1, NothingPatched
<1>3. DOMAIN r.patch = {} BY <1>1 DEF NoPatch
<1>4. PICK e : Outgoing(s, r) = {e} /\ Refuses(e) BY RefusalTurns
<1>5. Turn(s, r, e) BY <1>2, <1>3, <1>4 DEF Turn, Refuses
<1> QED BY <1>1, <1>2, <1>4, <1>5 DEF Refused

(* A success matches no edge of a failure. *)
LEMMA SuccessMatches ==
    ASSUME NEW r, Succeeded(r)
    PROVE  CommonFailures(r) = {} /\ CancelledOrBlocked(r) = {} /\ JudgementFailures(r) = {}
  BY DEF Succeeded, CommonFailures, CancelledOrBlocked, JudgementFailures, When, Stopped, FailedIn

(* A success of a node with one way on goes that way. *)
LEMMA StraightMatches ==
    ASSUME NEW u, NEW r, Succeeded(r), u.node \in DOMAIN StraightTarget
    PROVE  Outgoing(u, r) = {Go("succeeded", StraightTarget[u.node])}
<1>1. Outgoing(u, r) = Straight(r, StraightTarget[u.node]) BY DEF Outgoing, StraightTarget
<1> QED BY <1>1, SuccessMatches DEF Straight, When

(* What a success carries. *)
LEMMA Successes ==
    ASSUME NEW patch
    PROVE  Succeeded(Ok(patch)) /\ Ok(patch).patch = patch /\ Ok(patch).outcome = "NONE"
  BY DEF Ok, Result, Succeeded

(* The items of a plan are among the items. *)
LEMMA PlanItemsTyped ==
    ASSUME NEW p \in Plans, NEW done
    PROVE  /\ PlanItems(p) \subseteq Items /\ Remaining(p, done) \in SUBSET Items
           /\ NextReady(p, done) \subseteq PlanItems(p)
<1>1. p.order \in Seq(Items) BY PlansAssumption
<1>2. PlanItems(p) \subseteq Items BY <1>1 DEF PlanItems
<1>3. NextReady(p, done) \subseteq PlanItems(p) BY DEF NextReady, PlanItems
<1> QED BY <1>2, <1>3 DEF Remaining

(* Refusals of the node of an item. *)
LEMMA CommonRefusals ==
    /\ Blocked \in Refusing /\ AgentFailure \subseteq Refusing
    /\ \A c \in FailureCategories : Failed(c) \in Refusing
<1>1. FailedWith({"INFRASTRUCTURE", "DESIGN"}) \subseteq FailedWith(FailureCategories)
  BY DEF FailedWith, FailureCategories
<1> QED BY <1>1 DEF Refusing, AgentFailure, FailedWith

(* The results of a node, and what it may patch, by its name. *)
LEMMA ResultsOf ==
    ASSUME NEW p, NEW s
    PROVE  /\ s.node \in {"START", "DISCOVER_PROJECT", "FINALIZE", "MORE_WORK"} =>
                Results(p, s) = {Ok(NoPatch)}
           /\ s.node = "PREFLIGHT" => Results(p, s) = PreflightResults
           /\ s.node = "SELECT_WORK" => Results(p, s) = SelectWorkResults(p, s)
           /\ s.node = "EXPLORE" => Results(p, s) = OfItem(p, s, ExploreResults(s))
           /\ s.node = "BUILD_TASK_PACKAGE" =>
                Results(p, s) = OfItem(p, s, BuildTaskPackageResults(s))
           /\ s.node = "ASSESS_RISK" => Results(p, s) = OfItem(p, s, AssessRiskResults)
           /\ s.node = "HUMAN_CHECKPOINT" => Results(p, s) = HumanCheckpointResults(s)
           /\ s.node = "IMPLEMENT" => Results(p, s) = OfItem(p, s, ImplementResults(s))
           /\ s.node = "VALIDATE" => Results(p, s) = OfItem(p, s, ValidateResults)
           /\ s.node = "REVIEW" => Results(p, s) = OfItem(p, s, ReviewResults)
           /\ s.node = "CLASSIFY_FAILURE" =>
                Results(p, s) = OfItem(p, s, ClassifyFailureResults(s))
           /\ s.node \in RepairNodes => Results(p, s) = OfItem(p, s, RepairResults(s))
           /\ s.node = "CLOSE_TASK" => Results(p, s) = OfItem(p, s, CloseTaskResults(s))
           /\ s.node = "DELIVERY_REVIEW" => Results(p, s) = DeliveryReviewResults
           /\ s.node = "CREATE_PR" => Results(p, s) = CreatePrResults
           /\ s.node = "END" => Results(p, s) = {}
  BY DEF Results, RepairNodes, StartResults, DiscoverProjectResults, FinalizeResults,
         MoreWorkResults

(* The paths a node may patch, by its name. *)
LEMMA PathsOf ==
    /\ AllowedPaths("SELECT_WORK") = {"item", "available"}
    /\ AllowedPaths("EXPLORE") = {"explored"}
    /\ AllowedPaths("BUILD_TASK_PACKAGE") = {"package"}
    /\ AllowedPaths("ASSESS_RISK") = {"risk"}
    /\ \A n \in {"IMPLEMENT"} \cup RepairNodes : AllowedPaths(n) = {"changes"}
    /\ AllowedPaths("VALIDATE") = {"validation", "failure"}
    /\ AllowedPaths("REVIEW") = {"review", "safeClose", "failure"}
    /\ AllowedPaths("CLASSIFY_FAILURE") = {"class", "history"}
    /\ AllowedPaths("CLOSE_TASK") = {"item", "completed", "available"}
    /\ AllowedPaths("DELIVERY_REVIEW") = {"review", "safePr"}
  BY DEF AllowedPaths, RepairNodes

\* A turn that goes on, patching nothing of what the verdicts are made of.
Goes(s, r, to) == Succeeded(r) /\ Turn(s, r, Go("succeeded", to))

(* A success of a node with one way on, by its patch. *)
LEMMA StraightTurn ==
    ASSUME NEW s \in State, NEW patch, s.node \in DOMAIN StraightTarget,
           Patched(s, patch) \in State, Patched(s, patch).node = s.node,
           DOMAIN patch \subseteq AllowedPaths(s.node)
    PROVE  Goes(s, Ok(patch), StraightTarget[s.node])
<1>1. Succeeded(Ok(patch)) /\ Ok(patch).patch = patch BY Successes
<1>2. Outgoing(Patched(s, patch), Ok(patch)) = {Go("succeeded", StraightTarget[s.node])}
  BY <1>1, StraightMatches
<1>3. Go("succeeded", StraightTarget[s.node]).priority \in Int BY DEF Go, Edge
<1> QED BY <1>1, <1>2, <1>3 DEF Goes, Turn

(* START, DISCOVER_PROJECT and PREFLIGHT go on with the state as it is. *)
LEMMA OpeningTurns ==
    ASSUME NEW p \in Plans, NEW s \in State, NEW r \in Results(p, s),
           s.node \in {"START", "DISCOVER_PROJECT", "PREFLIGHT"}
    PROVE  Refused(s, r) \/ (Patched(s, r.patch) = s /\ Goes(s, r, StraightTarget[s.node]))
<1>1. r = Ok(NoPatch) \/ r = Blocked
  BY ResultsOf DEF PreflightResults
<1>2. CASE r = Blocked BY <1>2, CommonRefusals, RefusedTurn DEF Nodes
<1>3. CASE r = Ok(NoPatch)
  <2>1. r.patch = NoPatch /\ Patched(s, NoPatch) = s BY <1>3, Successes, NothingPatched
  <2>2. DOMAIN NoPatch = {} BY DEF NoPatch
  <2>3. s.node \in DOMAIN StraightTarget BY DEF StraightTarget
  <2> QED BY <1>3, <2>1, <2>2, <2>3, StraightTurn
<1> QED BY <1>1, <1>2, <1>3

(* EXPLORE to IMPLEMENT and the repairs go on with evidence of the item alone. *)
LEMMA EvidenceTurns ==
    ASSUME NEW p \in Plans, NEW s \in State, NEW r \in Results(p, s),
           s.node \in {"EXPLORE", "BUILD_TASK_PACKAGE", "IMPLEMENT"} \cup RepairNodes
    PROVE  \/ Refused(s, r)
           \/ /\ Retains(s, Patched(s, r.patch), {})
              /\ Keeps(s, Patched(s, r.patch), {"explored", "package", "changes"})
              /\ Goes(s, r, StraightTarget[s.node])
<1> DEFINE patches == {[explored |-> s.item], [package |-> s.item], [changes |-> s.item],
                       [changes |-> s.changes]}
<1>1. \/ r \in Refusing
      \/ s.node = "EXPLORE" /\ r = Ok([explored |-> s.item])
      \/ s.node = "BUILD_TASK_PACKAGE" /\ r = Ok([package |-> s.item])
      \/ s.node = "IMPLEMENT" /\ r = Ok([changes |-> s.item])
      \/ s.node \in RepairNodes /\ r = Ok([changes |-> s.changes])
  <2>1. Failed("IMPLEMENTATION") \in Refusing BY CommonRefusals DEF FailureCategories
  <2>2. CASE s.node = "EXPLORE"
    BY <2>2, CommonRefusals, ResultsOf DEF OfItem, ExploreResults
  <2>3. CASE s.node = "BUILD_TASK_PACKAGE"
    BY <2>3, CommonRefusals, ResultsOf DEF OfItem, BuildTaskPackageResults
  <2>4. CASE s.node = "IMPLEMENT"
    BY <2>1, <2>4, CommonRefusals, ResultsOf DEF OfItem, ImplementResults
  <2>5. CASE s.node \in RepairNodes
    <3>1. r \in OfItem(p, s, RepairResults(s)) BY <2>5, ResultsOf
    <3> QED BY <2>1, <2>5, <3>1, CommonRefusals DEF OfItem, RepairResults
  <2> QED BY <2>2, <2>3, <2>4, <2>5
<1>2. CASE r \in Refusing BY <1>2, RefusedTurn DEF Nodes, RepairNodes
<1>3. s.node \in DOMAIN StraightTarget BY DEF StraightTarget, RepairNodes
<1>4. s.item \in ItemOrNone /\ s.changes \in ItemOrNone BY DEF State
<1>5. CASE s.node = "EXPLORE" /\ r = Ok([explored |-> s.item])
  <2>1. r.patch = [explored |-> s.item] BY <1>5, Successes
  <2>2. DOMAIN r.patch \subseteq AllowedPaths(s.node) BY <1>5, <2>1, PathsOf
  <2>3. /\ Patched(s, r.patch) \in State /\ Keeps(s, Patched(s, r.patch), {"explored"})
        /\ Retains(s, Patched(s, r.patch), {})
    BY <1>4, <2>1, ExploredPatch, ItemPatchRetains
  <2> QED BY <1>3, <1>5, <2>1, <2>2, <2>3, StraightTurn DEF Keeps
<1>6. CASE s.node = "BUILD_TASK_PACKAGE" /\ r = Ok([package |-> s.item])
  <2>1. r.patch = [package |-> s.item] BY <1>6, Successes
  <2>2. DOMAIN r.patch \subseteq AllowedPaths(s.node) BY <1>6, <2>1, PathsOf
  <2>3. /\ Patched(s, r.patch) \in State /\ Keeps(s, Patched(s, r.patch), {"package"})
        /\ Retains(s, Patched(s, r.patch), {})
    BY <1>4, <2>1, PackagePatch, ItemPatchRetains
  <2> QED BY <1>3, <1>6, <2>1, <2>2, <2>3, StraightTurn DEF Keeps
<1>7. CASE \/ s.node = "IMPLEMENT" /\ r = Ok([changes |-> s.item])
           \/ s.node \in RepairNodes /\ r = Ok([changes |-> s.changes])
  <2>1. PICK i \in ItemOrNone : r = Ok([changes |-> i]) BY <1>4, <1>7
  <2>2. r.patch = [changes |-> i] BY <2>1, Successes
  <2>3. AllowedPaths(s.node) = {"changes"} BY <1>7, PathsOf
  <2>4. DOMAIN r.patch \subseteq AllowedPaths(s.node) BY <2>2, <2>3
  <2>5. /\ Patched(s, r.patch) \in State /\ Keeps(s, Patched(s, r.patch), {"changes"})
        /\ Retains(s, Patched(s, r.patch), {})
    BY <2>2, ChangesPatch, ItemPatchRetains
  <2> QED BY <1>3, <2>1, <2>2, <2>4, <2>5, StraightTurn DEF Keeps
<1> QED BY <1>1, <1>2, <1>5, <1>6, <1>7

(* Nothing is done while nothing is completed, and a plan has items. *)
LEMMA NothingDone ==
    ASSUME NEW p \in Plans, NEW s, s.completed = <<>>
    PROVE  Done(s) = {} /\ Remaining(p, Done(s)) # {}
<1>1. Done(s) = {} BY DEF Done
<1>2. NextReady(p, {}) # {} BY PlansAssumption
<1>3. PlanItems(p) # {} BY <1>2, PlanItemsTyped
<1> QED BY <1>1, <1>3 DEF Remaining

(* SELECT_WORK goes on with an item of the plan, or to the delivery of all of them. *)
LEMMA SelectWorkTurns ==
    ASSUME NEW p \in Plans, NEW s \in State, NEW r \in Results(p, s), s.node = "SELECT_WORK"
    PROVE  \/ Refused(s, r)
           \/ LET u == Patched(s, r.patch)
              IN  /\ Retains(s, u, {"available"}) /\ Keeps(s, u, {"item"})
                  /\ u.available = Remaining(p, Done(s))
                  /\ \/ /\ u.item # NoItem
                        /\ Turn(s, r, Go("found", "EXPLORE"))
                     \/ /\ u.available = {}
                        /\ Turn(s, r, Go("delivery-complete", "DELIVERY_REVIEW"))
<1> DEFINE left == Remaining(p, Done(s))
<1>1. left \in SUBSET Items /\ NextReady(p, Done(s)) \subseteq Items BY PlanItemsTyped
<1>2. \/ r = Blocked
      \/ left = {} /\ r = Ok([item |-> NoItem, available |-> left])
      \/ \E i \in NextReady(p, Done(s)) : r = Ok([item |-> i, available |-> left])
  BY ResultsOf DEF SelectWorkResults
<1> HIDE DEF left
<1>3. CASE r = Blocked BY <1>3, CommonRefusals, RefusedTurn DEF Nodes
<1>4. ASSUME NEW i \in ItemOrNone, r = Ok([item |-> i, available |-> left]),
             i = NoItem => left = {}
      PROVE  LET u == Patched(s, r.patch)
             IN  /\ Retains(s, u, {"available"}) /\ Keeps(s, u, {"item"})
                 /\ u.available = left
                 /\ \/ u.item # NoItem /\ Turn(s, r, Go("found", "EXPLORE"))
                    \/ u.available = {} /\ Turn(s, r, Go("delivery-complete", "DELIVERY_REVIEW"))
  <2> DEFINE u == Patched(s, r.patch)
  <2>1. Succeeded(r) /\ r.patch = [item |-> i, available |-> left] BY <1>4, Successes
  <2>2. DOMAIN r.patch \subseteq AllowedPaths(s.node) BY <2>1, PathsOf
  <2>3. u \in State /\ Keeps(s, u, {"item"}) /\ u.item = i BY <1>1, <2>1, SelectPatch
  <2>4. Retains(s, u, {"available"}) /\ u.available = left BY <2>1, SelectPatchRetains
  <2> HIDE DEF u
  <2>5. u.node = "SELECT_WORK" /\ u.completed = s.completed BY <2>3 DEF Keeps
  <2>6. Outgoing(u, r) = SelectWorkEdges(u, r) BY <2>5 DEF Outgoing, StraightTarget
  <2>7. CASE i # NoItem
    <3>1. Outgoing(u, r) = {Go("found", "EXPLORE")}
      BY <2>1, <2>3, <2>6, <2>7, SuccessMatches DEF SelectWorkEdges, When
    <3>2. Turn(s, r, Go("found", "EXPLORE")) BY <2>2, <2>3, <3>1 DEF Turn, u, Go, Edge
    <3> QED BY <2>3, <2>4, <2>7, <3>2 DEF u
  <2>8. CASE i = NoItem
    <3>1. s.completed # <<>> BY <1>4, <2>8, NothingDone DEF left
    <3>2. Outgoing(u, r) = {Go("delivery-complete", "DELIVERY_REVIEW")}
      BY <2>1, <2>3, <2>5, <2>6, <2>8, <3>1, SuccessMatches DEF SelectWorkEdges, When
    <3>3. Turn(s, r, Go("delivery-complete", "DELIVERY_REVIEW"))
      BY <2>2, <2>3, <3>2 DEF Turn, u, Go, Edge
    <3> QED BY <1>4, <2>3, <2>4, <2>8, <3>3 DEF u
  <2> QED BY <2>7, <2>8
<1>5. CASE left = {} /\ r = Ok([item |-> NoItem, available |-> left])
  BY <1>4, <1>5, FieldTypes DEF left
<1>6. CASE \E i \in NextReady(p, Done(s)) : r = Ok([item |-> i, available |-> left])
  <2>1. PICK i \in NextReady(p, Done(s)) : r = Ok([item |-> i, available |-> left]) BY <1>6
  <2>2. i \in ItemOrNone /\ i # NoItem BY <1>1, NoItemAssumption DEF ItemOrNone
  <2> QED BY <1>4, <2>1, <2>2 DEF left
<1> QED BY <1>2, <1>3, <1>5, <1>6

(* ASSESS_RISK opens the write, or asks for approval of a critical one. *)
LEMMA AssessRiskTurns ==
    ASSUME NEW p \in Plans, NEW s \in State, NEW r \in Results(p, s), s.node = "ASSESS_RISK"
    PROVE  \/ Refused(s, r)
           \/ LET u == Patched(s, r.patch)
              IN  /\ Retains(s, u, {}) /\ Keeps(s, u, {"risk"}) /\ u.risk # "NONE"
                  /\ \/ Turn(s, r, Go("implement", "IMPLEMENT"))
                     \/ u.risk = "CRITICAL" /\ Turn(s, r, Checkpoint("critical", "IMPLEMENT"))
<1>1. r \in Refusing \/ \E level \in RiskLevels : r = Ok([risk |-> level])
  BY CommonRefusals, ResultsOf DEF OfItem, AssessRiskResults
<1>2. CASE r \in Refusing BY <1>2, RefusedTurn DEF Nodes
<1>3. CASE \E level \in RiskLevels : r = Ok([risk |-> level])
  <2>1. PICK level \in RiskLevels : r = Ok([risk |-> level]) BY <1>3
  <2> DEFINE u == Patched(s, r.patch)
  <2>2. Succeeded(r) /\ r.patch = [risk |-> level] BY <2>1, Successes
  <2>3. DOMAIN r.patch \subseteq AllowedPaths(s.node) BY <2>2, PathsOf
  <2>4. level \in RiskOrNone BY FieldTypes
  <2>5. /\ u \in State /\ Keeps(s, u, {"risk"}) /\ u.risk = level /\ Retains(s, u, {})
    BY <2>2, <2>4, RiskPatch, ItemPatchRetains
  <2> HIDE DEF u
  <2>6. u.node = "ASSESS_RISK" BY <2>5 DEF Keeps
  <2>7. Outgoing(u, r) = AssessRiskEdges(u, r) BY <2>6 DEF Outgoing, StraightTarget
  <2>8. \/ Outgoing(u, r) = {Go("implement", "IMPLEMENT")}
        \/ u.risk = "CRITICAL" /\ Outgoing(u, r) = {Checkpoint("critical", "IMPLEMENT")}
    BY <2>2, <2>5, <2>7, SuccessMatches DEF AssessRiskEdges, When, RiskLevels
  <2>9. \/ Turn(s, r, Go("implement", "IMPLEMENT"))
        \/ u.risk = "CRITICAL" /\ Turn(s, r, Checkpoint("critical", "IMPLEMENT"))
    BY <2>3, <2>5, <2>8 DEF Turn, u, Go, Checkpoint, Edge
  <2>10. u.risk # "NONE" BY <2>5 DEF RiskLevels
  <2> QED BY <2>5, <2>9, <2>10 DEF u
<1> QED BY <1>1, <1>2, <1>3

(* HUMAN_CHECKPOINT goes where an approval leads, or ends the run. *)
LEMMA HumanCheckpointTurns ==
    ASSUME NEW p \in Plans, NEW s \in State, NEW r \in Results(p, s),
           s.node = "HUMAN_CHECKPOINT"
    PROVE  \/ Refused(s, r)
           \/ /\ Patched(s, r.patch) = s
              /\ \/ /\ s.pending \in {"IMPLEMENT", "CREATE_PR"}
                    /\ Turn(s, r, Go(s.pending, s.pending))
                 \/ Turn(s, r, Finish("rejected", "BLOCKED"))
                 \/ Turn(s, r, Finish("decided-cancelled", "CANCELLED"))
<1>1. \/ r \in Refusing
      \/ /\ s.pending \in {"IMPLEMENT", "CREATE_PR"}
         /\ \E outcome \in {"APPROVED", "REJECTED", "CANCELLED"} : r = Decided(outcome)
  BY CommonRefusals, ResultsOf DEF HumanCheckpointResults, Refusing
<1>2. CASE r \in Refusing BY <1>2, RefusedTurn DEF Nodes
<1>3. ASSUME s.pending \in {"IMPLEMENT", "CREATE_PR"},
             NEW outcome \in {"APPROVED", "REJECTED", "CANCELLED"}, r = Decided(outcome)
      PROVE  /\ Patched(s, r.patch) = s
             /\ \/ /\ s.pending \in {"IMPLEMENT", "CREATE_PR"}
                   /\ Turn(s, r, Go(s.pending, s.pending))
                \/ Turn(s, r, Finish("rejected", "BLOCKED"))
                \/ Turn(s, r, Finish("decided-cancelled", "CANCELLED"))
  <2>1. Succeeded(r) /\ r.patch = NoPatch /\ r.outcome = outcome
    BY <1>3 DEF Decided, Result, Succeeded
  <2>2. Patched(s, r.patch) = s /\ DOMAIN r.patch = {}
    BY <2>1, NothingPatched DEF NoPatch
  <2>3. Outgoing(s, r) = HumanCheckpointEdges(s, r) BY DEF Outgoing, StraightTarget
  <2>4. \/ Outgoing(s, r) = {Go(s.pending, s.pending)}
        \/ Outgoing(s, r) = {Finish("rejected", "BLOCKED")}
        \/ Outgoing(s, r) = {Finish("decided-cancelled", "CANCELLED")}
    BY <1>3, <2>1, <2>3, SuccessMatches DEF HumanCheckpointEdges, When
  <2> QED BY <1>3, <2>2, <2>4 DEF Turn, Go, Finish, Edge
<1> QED BY <1>1, <1>2, <1>3

(* VALIDATE goes to REVIEW with a passed validation and to CLASSIFY_FAILURE with a failed one. *)
LEMMA ValidateTurns ==
    ASSUME NEW p \in Plans, NEW s \in State, NEW r \in Results(p, s), s.node = "VALIDATE"
    PROVE  \/ Refused(s, r)
           \/ LET u == Patched(s, r.patch)
              IN  /\ Retains(s, u, {"validation"}) /\ Keeps(s, u, {})
                  /\ \/ u.validation = "PASS" /\ Turn(s, r, Go("pass", "REVIEW"))
                     \/ /\ u.validation = "FAIL" /\ u.failure = "VALIDATION"
                        /\ Turn(s, r, Go("reported-fail", "CLASSIFY_FAILURE"))
<1>1. \/ r \in {Blocked, Failed("INFRASTRUCTURE")}
      \/ r = Ok([validation |-> "PASS", failure |-> "NONE"])
      \/ r = Ok([validation |-> "FAIL", failure |-> "VALIDATION"])
  BY ResultsOf DEF OfItem, ValidateResults
<1>2. CASE r \in {Blocked, Failed("INFRASTRUCTURE")}
  <2>1. r \in Refusing BY <1>2, CommonRefusals DEF FailureCategories
  <2>2. r.status = "FAILED" => r.category \in Fatal
    BY <1>2 DEF Blocked, Failed, Result, Fatal, FailureCategories, Repairable
  <2> QED BY <2>1, <2>2, RefusedTurn DEF Nodes
<1>3. ASSUME NEW v \in Verdicts, NEW f \in FailureOrNone,
             r = Ok([validation |-> v, failure |-> f]),
             v = "PASS" \/ (v = "FAIL" /\ f = "VALIDATION")
      PROVE  LET u == Patched(s, r.patch)
             IN  /\ Retains(s, u, {"validation"}) /\ Keeps(s, u, {})
                 /\ \/ u.validation = "PASS" /\ Turn(s, r, Go("pass", "REVIEW"))
                    \/ /\ u.validation = "FAIL" /\ u.failure = "VALIDATION"
                       /\ Turn(s, r, Go("reported-fail", "CLASSIFY_FAILURE"))
  <2> DEFINE u == Patched(s, r.patch)
  <2>1. Succeeded(r) /\ r.patch = [validation |-> v, failure |-> f] BY <1>3, Successes
  <2>2. DOMAIN r.patch \subseteq AllowedPaths(s.node) BY <2>1, PathsOf
  <2>3. /\ u \in State /\ Keeps(s, u, {}) /\ Retains(s, u, {"validation"})
        /\ u.validation = v /\ u.failure = f
    BY <2>1, ValidationPatch, ValidationPatchRetains
  <2> HIDE DEF u
  <2>4. u.node = "VALIDATE" BY <2>3 DEF Keeps
  <2>5. Outgoing(u, r) = ValidateEdges(u, r) BY <2>4 DEF Outgoing, StraightTarget
  <2>6. \/ v = "PASS" /\ Outgoing(u, r) = {Go("pass", "REVIEW")}
        \/ v = "FAIL" /\ Outgoing(u, r) = {Go("reported-fail", "CLASSIFY_FAILURE")}
    BY <1>3, <2>1, <2>3, <2>5, SuccessMatches DEF ValidateEdges, When
  <2>7. \/ v = "PASS" /\ Turn(s, r, Go("pass", "REVIEW"))
        \/ v = "FAIL" /\ Turn(s, r, Go("reported-fail", "CLASSIFY_FAILURE"))
    BY <2>2, <2>3, <2>6 DEF Turn, u, Go, Edge
  <2> QED BY <1>3, <2>3, <2>7 DEF u
<1>4. "PASS" \in Verdicts /\ "FAIL" \in Verdicts /\ {"NONE", "VALIDATION"} \subseteq FailureOrNone
  BY DEF Verdicts, FailureOrNone, FailureCategories
<1> QED BY <1>1, <1>2, <1>3, <1>4

(* REVIEW goes to CLOSE_TASK with a passed review and to CLASSIFY_FAILURE with a failed one. *)
LEMMA ReviewTurns ==
    ASSUME NEW p \in Plans, NEW s \in State, NEW r \in Results(p, s), s.node = "REVIEW"
    PROVE  \/ Refused(s, r)
           \/ LET u == Patched(s, r.patch)
              IN  /\ Retains(s, u, {"review", "validation"}) /\ Keeps(s, u, {})
                  /\ u.validation = s.validation
                  /\ \/ Turn(s, r, Go("pass-close", "CLOSE_TASK"))
                     \/ u.review = "FAIL" /\ Turn(s, r, Go("fail", "CLASSIFY_FAILURE"))
<1>1. \/ r \in {Blocked, Failed("CONTRACT"), Failed("INFRASTRUCTURE")}
      \/ r = Ok([review |-> "PASS", safeClose |-> TRUE, failure |-> "NONE"])
      \/ r = Ok([review |-> "FAIL", safeClose |-> FALSE, failure |-> "VALIDATION"])
  BY ResultsOf DEF OfItem, ReviewResults, FailedWith
<1>2. CASE r \in {Blocked, Failed("CONTRACT"), Failed("INFRASTRUCTURE")}
  <2>1. r \in Refusing BY <1>2, CommonRefusals DEF FailureCategories
  <2>2. r.status = "FAILED" => r.category \in Fatal
    BY <1>2 DEF Blocked, Failed, Result, Fatal, FailureCategories, Repairable
  <2> QED BY <2>1, <2>2, RefusedTurn DEF Nodes
<1>3. ASSUME NEW v \in Verdicts, NEW safe \in BOOLEAN, NEW f \in FailureOrNone,
             r = Ok([review |-> v, safeClose |-> safe, failure |-> f]),
             (v = "PASS" /\ safe) \/ v = "FAIL"
      PROVE  LET u == Patched(s, r.patch)
             IN  /\ Retains(s, u, {"review", "validation"}) /\ Keeps(s, u, {})
                 /\ u.validation = s.validation
                 /\ \/ Turn(s, r, Go("pass-close", "CLOSE_TASK"))
                    \/ u.review = "FAIL" /\ Turn(s, r, Go("fail", "CLASSIFY_FAILURE"))
  <2> DEFINE u == Patched(s, r.patch)
  <2>1. Succeeded(r) /\ r.patch = [review |-> v, safeClose |-> safe, failure |-> f]
    BY <1>3, Successes
  <2>2. DOMAIN r.patch \subseteq AllowedPaths(s.node) BY <2>1, PathsOf
  <2>3. /\ u \in State /\ Keeps(s, u, {}) /\ Retains(s, u, {"review", "validation"})
        /\ u.review = v /\ u.safeClose = safe /\ u.validation = s.validation
    BY <2>1, ReviewPatch, ReviewPatchRetains
  <2> HIDE DEF u
  <2>4. u.node = "REVIEW" BY <2>3 DEF Keeps
  <2>5. Outgoing(u, r) = ReviewEdges(u, r) BY <2>4 DEF Outgoing, StraightTarget
  <2>6. \/ v = "PASS" /\ Outgoing(u, r) = {Go("pass-close", "CLOSE_TASK")}
        \/ v = "FAIL" /\ Outgoing(u, r) = {Go("fail", "CLASSIFY_FAILURE")}
    BY <1>3, <2>1, <2>3, <2>5, SuccessMatches DEF ReviewEdges, When
  <2>7. \/ v = "PASS" /\ Turn(s, r, Go("pass-close", "CLOSE_TASK"))
        \/ v = "FAIL" /\ Turn(s, r, Go("fail", "CLASSIFY_FAILURE"))
    BY <2>2, <2>3, <2>6 DEF Turn, u, Go, Edge
  <2> QED BY <2>3, <2>7 DEF u
<1>4. "PASS" \in Verdicts /\ "FAIL" \in Verdicts /\ {"NONE", "VALIDATION"} \subseteq FailureOrNone
  BY DEF Verdicts, FailureOrNone, FailureCategories
<1>5. CASE r = Ok([review |-> "PASS", safeClose |-> TRUE, failure |-> "NONE"])
  BY <1>3, <1>4, <1>5
<1>6. CASE r = Ok([review |-> "FAIL", safeClose |-> FALSE, failure |-> "VALIDATION"])
  BY <1>3, <1>4, <1>6
<1> QED BY <1>1, <1>2, <1>5, <1>6

\* The edge to the repair node of a classification.
RepairEdge(c) == IF c = "PROGRAMMER" THEN Go("programmer", "PROGRAMMER_REPAIR")
                                     ELSE Go("debugger", "DEBUGGER")

(* CLASSIFY_FAILURE goes to the repair it has entered in the ledger, or ends the run when *)
(* no repair is left.                                                                     *)
LEMMA ClassifyFailureTurns ==
    ASSUME NEW p \in Plans, NEW s \in State, NEW r \in Results(p, s),
           s.node = "CLASSIFY_FAILURE"
    PROVE  \/ Refused(s, r)
           \/ Patched(s, r.patch) = s /\ Turn(s, r, FinishFirst("limit-exhausted", "FAILED"))
           \/ \E c \in Classifications :
                 LET u == Patched(s, r.patch)
                 IN  /\ Retains(s, u, {"history"}) /\ Keeps(s, u, {})
                     /\ u.history = Append(s.history, RepairRecord(s, c))
                     /\ s.count < MaxRepair
                     /\ Turn(s, r, RepairEdge(c))
<1>c. s.count \in 0 .. MaxRepair /\ MaxRepair \in Nat
  BY PolicyAssumption DEF State, RepairCounts
<1>1. \/ r \in Refusing
      \/ s.count >= MaxRepair /\ r = Ok(NoPatch)
      \/ s.count < MaxRepair /\ \E c \in Classifications : r = Classified(s, c)
  <2>1. Failed("INFRASTRUCTURE") \in Refusing BY CommonRefusals DEF FailureCategories
  <2>2. r = Blocked \/ r \in ClassifyFailureResults(s) BY ResultsOf DEF OfItem
  <2> QED BY <1>c, <2>1, <2>2, CommonRefusals DEF ClassifyFailureResults
<1>2. CASE r \in Refusing BY <1>2, RefusedTurn DEF Nodes
<1>3. CASE s.count >= MaxRepair /\ r = Ok(NoPatch)
  <2>1. Succeeded(r) /\ r.patch = NoPatch BY <1>3, Successes
  <2>2. Patched(s, r.patch) = s /\ DOMAIN r.patch = {} BY <2>1, NothingPatched DEF NoPatch
  <2>3. Outgoing(s, r) = ClassifyFailureEdges(s, r) BY DEF Outgoing, StraightTarget
  <2>4. ~HasCapacity(s) BY <1>3, <1>c DEF HasCapacity
  <2>5. Outgoing(s, r) = {FinishFirst("limit-exhausted", "FAILED")}
    BY <2>1, <2>3, <2>4, SuccessMatches DEF ClassifyFailureEdges, When
  <2> QED BY <2>2, <2>5 DEF Turn, FinishFirst, Edge
<1>4. CASE s.count < MaxRepair /\ \E c \in Classifications : r = Classified(s, c)
  <2>1. PICK c \in Classifications : r = Classified(s, c) BY <1>4
  <2> DEFINE u == Patched(s, r.patch)
             h == Append(s.history, RepairRecord(s, c))
  <2>2. Succeeded(r) /\ r.patch = [class |-> c, history |-> h]
    BY <2>1, Successes DEF Classified
  <2>3. DOMAIN r.patch \subseteq AllowedPaths(s.node) BY <2>2, PathsOf
  <2>4. h \in Seq(RepairRecords)
    BY <1>c DEF State, RepairRecord, RepairRecords, RepairCounts
  <2> HIDE DEF h
  <2>5. c \in ClassOrNone BY FieldTypes
  <2>6. /\ u \in State /\ Keeps(s, u, {}) /\ Retains(s, u, {"history"})
        /\ u.class = c /\ u.history = h
    BY <2>2, <2>4, <2>5, ClassPatch, ClassPatchRetains
  <2> HIDE DEF u
  <2>7. u.node = "CLASSIFY_FAILURE" /\ u.count = s.count BY <2>6 DEF Keeps, Retains
  <2>8. Outgoing(u, r) = ClassifyFailureEdges(u, r) BY <2>7 DEF Outgoing, StraightTarget
  <2>9. HasCapacity(u) BY <1>4, <2>7 DEF HasCapacity
  <2>10. Outgoing(u, r) = {RepairEdge(c)}
    BY <2>2, <2>6, <2>8, <2>9, SuccessMatches
       DEF ClassifyFailureEdges, When, Classifications, RepairEdge
  <2>11. Turn(s, r, RepairEdge(c)) BY <2>3, <2>6, <2>10 DEF Turn, u, RepairEdge, Go, Edge
  <2> QED BY <1>4, <2>6, <2>11 DEF u, h
<1> QED BY <1>1, <1>2, <1>3, <1>4

(* CLOSE_TASK completes an item that is ready, and goes to MORE_WORK. *)
LEMMA CloseTaskTurns ==
    ASSUME NEW p \in Plans, NEW s \in State, NEW r \in Results(p, s), s.node = "CLOSE_TASK",
           s.item # NoItem
    PROVE  \/ Refused(s, r)
           \/ LET u == Patched(s, r.patch)
              IN  /\ Activated(p, s)
                  /\ Retains(s, u, {"available"}) /\ Keeps(s, u, {"item", "completed"})
                  /\ u.completed = Append(s.completed, s.item)
                  /\ u.available = s.available \ {s.item}
                  /\ Goes(s, r, "MORE_WORK")
<1> DEFINE done == Append(s.completed, s.item)
           left == s.available \ {s.item}
           patch == [item |-> NoItem, completed |-> done, available |-> left]
           u == Patched(s, r.patch)
<1>1. r \in Refusing \/ (Activated(p, s) /\ r = Ok(patch))
  <2>1. Failed("INFRASTRUCTURE") \in Refusing BY CommonRefusals DEF FailureCategories
  <2> QED BY <2>1, CommonRefusals, ResultsOf DEF OfItem, CloseTaskResults
<1>2. CASE r \in Refusing BY <1>2, RefusedTurn DEF Nodes
<1>3. CASE Activated(p, s) /\ r = Ok(patch)
  <2>1. done \in Seq(Items) /\ left \in SUBSET Items BY DEF State, ItemOrNone
  <2> HIDE DEF done, left
  <2>2. r.patch = patch BY <1>3, Successes
  <2>3. DOMAIN patch \subseteq AllowedPaths(s.node) BY PathsOf
  <2>4. /\ u \in State /\ Keeps(s, u, {"item", "completed"}) /\ u.completed = done
    BY <2>1, <2>2, ClosePatch, FieldTypes
  <2>5. Retains(s, u, {"available"}) /\ u.available = left BY <2>2, ClosePatchRetains
  <2>6. u.node = s.node BY <2>4 DEF Keeps
  <2>7. "CLOSE_TASK" \in DOMAIN StraightTarget /\ StraightTarget["CLOSE_TASK"] = "MORE_WORK"
    BY DEF StraightTarget
  <2> HIDE DEF patch
  <2>8. Goes(s, r, "MORE_WORK") BY <1>3, <2>2, <2>3, <2>4, <2>6, <2>7, StraightTurn
  <2> QED BY <1>3, <2>4, <2>5, <2>8 DEF done, left
<1> QED BY <1>1, <1>2, <1>3

(* MORE_WORK ends the run at its limit, else goes to the next item or to the delivery. *)
LEMMA MoreWorkTurns ==
    ASSUME NEW p \in Plans, NEW s \in State, NEW r \in Results(p, s), s.node = "MORE_WORK"
    PROVE  /\ Patched(s, r.patch) = s
           /\ \/ LimitReached(s) /\ Turn(s, r, FinishFirst("limit", "PAUSED"))
              \/ /\ ~LimitReached(s)
                 /\ \/ Turn(s, r, Go("next", "SELECT_WORK"))
                    \/ s.available = {} /\ Turn(s, r, Go("empty", "DELIVERY_REVIEW"))
<1>1. r = Ok(NoPatch) BY ResultsOf
<1>2. Succeeded(r) /\ r.patch = NoPatch BY <1>1, Successes
<1>3. Patched(s, r.patch) = s /\ DOMAIN r.patch = {} BY <1>2, NothingPatched DEF NoPatch
<1>4. Outgoing(s, r) = MoreWorkEdges(s, r) BY DEF Outgoing, StraightTarget
<1>5. \/ LimitReached(s) /\ Outgoing(s, r) = {FinishFirst("limit", "PAUSED")}
      \/ /\ ~LimitReached(s)
         /\ \/ Outgoing(s, r) = {Go("next", "SELECT_WORK")}
            \/ s.available = {} /\ Outgoing(s, r) = {Go("empty", "DELIVERY_REVIEW")}
  BY <1>2, <1>4, SuccessMatches DEF MoreWorkEdges, When
<1> QED BY <1>3, <1>5 DEF Turn, Go, FinishFirst, Edge

(* DELIVERY_REVIEW asks for approval of a passed delivery, or ends the run. *)
LEMMA DeliveryReviewTurns ==
    ASSUME NEW p \in Plans, NEW s \in State, NEW r \in Results(p, s),
           s.node = "DELIVERY_REVIEW"
    PROVE  \/ Refused(s, r)
           \/ LET u == Patched(s, r.patch)
              IN  /\ Retains(s, u, {"review"}) /\ Keeps(s, u, {})
                  /\ \/ Turn(s, r, Checkpoint("checkpoint", "CREATE_PR"))
                     \/ Turn(s, r, Finish("failed-verdict", "FAILED"))
<1>1. \/ r \in Refusing
      \/ r = Ok([review |-> "PASS", safePr |-> TRUE])
      \/ r = Ok([review |-> "FAIL", safePr |-> FALSE])
  <2>1. {Failed("CONTRACT"), Failed("INFRASTRUCTURE")} \subseteq Refusing
    BY CommonRefusals DEF FailureCategories
  <2> QED BY <2>1, CommonRefusals, ResultsOf DEF DeliveryReviewResults, FailedWith
<1>2. CASE r \in Refusing BY <1>2, RefusedTurn DEF Nodes
<1>3. ASSUME NEW v \in Verdicts, NEW safe \in BOOLEAN,
             r = Ok([review |-> v, safePr |-> safe]), (v = "PASS" /\ safe) \/ v = "FAIL"
      PROVE  LET u == Patched(s, r.patch)
             IN  /\ Retains(s, u, {"review"}) /\ Keeps(s, u, {})
                 /\ \/ Turn(s, r, Checkpoint("checkpoint", "CREATE_PR"))
                    \/ Turn(s, r, Finish("failed-verdict", "FAILED"))
  <2> DEFINE u == Patched(s, r.patch)
  <2>1. Succeeded(r) /\ r.patch = [review |-> v, safePr |-> safe] BY <1>3, Successes
  <2>2. DOMAIN r.patch \subseteq AllowedPaths(s.node) BY <2>1, PathsOf
  <2>3. /\ u \in State /\ Keeps(s, u, {}) /\ Retains(s, u, {"review"})
        /\ u.review = v /\ u.safePr = safe
    BY <2>1, DeliveryPatch, DeliveryPatchRetains
  <2> HIDE DEF u
  <2>4. u.node = "DELIVERY_REVIEW" BY <2>3 DEF Keeps
  <2>5. Outgoing(u, r) = DeliveryReviewEdges(u, r) BY <2>4 DEF Outgoing, StraightTarget
  <2>6. \/ Outgoing(u, r) = {Checkpoint("checkpoint", "CREATE_PR")}
        \/ Outgoing(u, r) = {Finish("failed-verdict", "FAILED")}
    BY <1>3, <2>1, <2>3, <2>5, SuccessMatches DEF DeliveryReviewEdges, When
  <2>7. \/ Turn(s, r, Checkpoint("checkpoint", "CREATE_PR"))
        \/ Turn(s, r, Finish("failed-verdict", "FAILED"))
    BY <2>2, <2>3, <2>6 DEF Turn, u, Checkpoint, Finish, Edge
  <2> QED BY <2>3, <2>7 DEF u
<1>4. "PASS" \in Verdicts /\ "FAIL" \in Verdicts BY DEF Verdicts
<1> QED BY <1>1, <1>2, <1>3, <1>4

(* CREATE_PR goes to the end of the run, with its status only when it published. *)
LEMMA CreatePrTurns ==
    ASSUME NEW p \in Plans, NEW s \in State, NEW r \in Results(p, s), s.node = "CREATE_PR"
    PROVE  \/ Refused(s, r)
           \/ /\ Patched(s, r.patch) = s /\ Succeeded(r)
              /\ Turn(s, r, Go("succeeded", "FINALIZE"))
<1>1. r = Ok(NoPatch) \/ r \in Refusing
  <2>1. {Failed("EXTERNAL_SERVICE"), Failed("ENVIRONMENT"), Failed("CONTRACT")} \subseteq Refusing
    BY CommonRefusals DEF FailureCategories
  <2> QED BY <2>1, CommonRefusals, ResultsOf DEF CreatePrResults, FailedWith
<1>2. CASE r \in Refusing BY <1>2, RefusedTurn DEF Nodes
<1>3. CASE r = Ok(NoPatch)
  <2>1. Succeeded(r) /\ r.patch = NoPatch BY <1>3, Successes
  <2>2. Patched(s, r.patch) = s /\ DOMAIN r.patch = {} BY <2>1, NothingPatched DEF NoPatch
  <2>3. Outgoing(s, r) = CreatePrEdges(r) BY DEF Outgoing, StraightTarget
  <2>4. Outgoing(s, r) = {Go("succeeded", "FINALIZE")}
    BY <2>1, <2>3, SuccessMatches DEF CreatePrEdges, When, Succeeded, FailedIn
  <2> QED BY <2>1, <2>2, <2>4 DEF Turn, Go, Edge
<1> QED BY <1>1, <1>2, <1>3

(* FINALIZE ends the run, leaving its status. *)
LEMMA FinalizeTurns ==
    ASSUME NEW p \in Plans, NEW s \in State, NEW r \in Results(p, s), s.node = "FINALIZE"
    PROVE  Patched(s, r.patch) = s /\ Turn(s, r, Terminal("end", "KEEP"))
<1>1. r = Ok(NoPatch) BY ResultsOf
<1>2. Succeeded(r) /\ r.patch = NoPatch BY <1>1, Successes
<1>3. Patched(s, r.patch) = s /\ DOMAIN r.patch = {} BY <1>2, NothingPatched DEF NoPatch
<1>4. Outgoing(s, r) = FinalizeEdges(r) BY DEF Outgoing, StraightTarget
<1>5. Outgoing(s, r) = {Terminal("end", "KEEP")}
  BY <1>2, <1>4 DEF FinalizeEdges, When, Succeeded, Stopped
<1> QED BY <1>3, <1>5 DEF Turn, Terminal, Edge

-----------------------------------------------------------------------------
(* A turn is followed. *)
LEMMA TurnFollows ==
    ASSUME NEW r, NEW e, Turn(state, r, e), ApplyResult(state, r, state')
    PROVE  LET u == Patched(state, r.patch)
           IN  EdgeOk(e) /\ Follows(u, e, state') /\ FollowsOn(u, e, state')
  BY SoleStep DEF Turn

(* A turn that leaves MORE_WORK's reset aside, in what the outcome is made of. *)
LEMMA TurnFields ==
    ASSUME NEW r, NEW e, Turn(state, r, e), ApplyResult(state, r, state'),
           Patched(state, r.patch).node = state.node, state.node # "MORE_WORK",
           Patched(state, r.patch).status = state.status,
           Patched(state, r.patch).count = state.count
    PROVE  LET u == Patched(state, r.patch)
           IN  /\ state'.node = e.to /\ state'.prev = state.node
               /\ state'.status = IF e.final = "KEEP"
                                    THEN IF e.to = "END" /\ state.status = "RUNNING"
                                           THEN "COMPLETED" ELSE state.status
                                    ELSE IF e.to = "END" /\ e.final = "RUNNING"
                                           THEN "COMPLETED" ELSE e.final
               /\ state'.pending = IF e.resume # "NONE" THEN e.resume
                                   ELSE IF state.node = "HUMAN_CHECKPOINT" THEN "NONE"
                                   ELSE u.pending
               /\ state'.item = u.item /\ state'.completed = u.completed
               /\ state'.available = u.available /\ state'.risk = u.risk
               /\ state'.count = IF e.to \in RepairNodes THEN state.count + 1 ELSE state.count
               /\ state'.history = u.history
               /\ state'.validation = u.validation /\ state'.failure = u.failure
               /\ e.to # "DELIVERY_REVIEW" => state'.review = u.review
<1> DEFINE u == Patched(state, r.patch)
<1>1. Follows(u, e, state') /\ FollowsOn(u, e, state') BY TurnFollows
<1>2. u.node = state.node /\ u.status = state.status /\ u.count = state.count /\ ~Reset(u, e)
  BY DEF Reset
<1> HIDE DEF u
<1>3. StatusAfter(u, e) = IF e.final = "KEEP"
                            THEN IF e.to = "END" /\ state.status = "RUNNING"
                                   THEN "COMPLETED" ELSE state.status
                            ELSE IF e.to = "END" /\ e.final = "RUNNING"
                                   THEN "COMPLETED" ELSE e.final
  BY <1>2 DEF StatusAfter
<1> QED BY <1>1, <1>2, <1>3 DEF Follows, FollowsOn, PendingAfter, u

(* Completed items keep their order, and what is done is what was. *)
LEMMA OrderedStays ==
    ASSUME Ordered, state'.completed = state.completed, plan' = plan
    PROVE  Ordered' /\ Done(state') = Done(state)
  BY DEF Ordered, Done

(* The ledger stands away from the nodes that go by it. *)
LEMMA LedgerStays ==
    ASSUME LedgerInv, state'.count = state.count, state'.history = state.history,
           state'.node \notin {"REVIEW", "CLASSIFY_FAILURE"} \cup RepairNodes
    PROVE  LedgerInv'
  BY DEF LedgerInv, At

(* A run that is given up elsewhere than at MORE_WORK ends with the status of the edge. *)
LEMMA GivenUp ==
    ASSUME JInv, state.node \notin {"MORE_WORK", "FINALIZE", "END"}, plan' = plan,
           published' => /\ PlanItems(plan) \subseteq Done(state)
                         /\ state'.status \in {"BLOCKED", "FAILED"},
           state'.node = "FINALIZE", state'.status \in {"BLOCKED", "FAILED", "CANCELLED"},
           state'.completed = state.completed,
           state'.count = state.count, state'.history = state.history
    PROVE  JInv'
<1>1. LedgerInv' BY LedgerStays DEF JInv, RepairNodes
<1>2. Ordered' /\ Done(state') = Done(state) BY OrderedStays DEF JInv, OrderInv
<1>3. OrderInv'
  <2>1. Len(state.completed) <= MaxItems /\ Done(state) \subseteq PlanItems(plan)
    BY DEF JInv, OrderInv
  <2> QED BY <1>2, <2>1
      DEF OrderInv, AwaitsWrite, AwaitsPublish, At, Selected, Explored, Packaged, Writing,
          Working, RepairNodes
<1>4. OutcomeInv'
  <2>1. Len(state'.completed) # MaxItems BY DEF JInv, OrderInv
  <2> QED BY <2>1 DEF OutcomeInv, At
<1>5. RiskInv' BY DEF RiskInv, AwaitsWrite, At
<1> QED BY <1>1, <1>3, <1>4, <1>5 DEF JInv

(* A refused result gives the run up. *)
LEMMA RefusedKeeps ==
    ASSUME JInv, NEW r, Refused(state, r), ApplyResult(state, r, state'), plan' = plan,
           state.node \notin {"MORE_WORK", "FINALIZE", "END"},
           published' => PlanItems(plan) \subseteq Done(state)
    PROVE  JInv'
<1>1. PICK e : Turn(state, r, e) /\ Refuses(e) BY DEF Refused
<1>2. Patched(state, r.patch) = state BY DEF Refused
<1>3. /\ state'.node = "FINALIZE" /\ state'.status \in {"BLOCKED", "FAILED"}
      /\ state'.completed = state.completed
      /\ state'.count = state.count /\ state'.history = state.history
  BY <1>1, <1>2, TurnFields DEF Refuses, RepairNodes
<1> QED BY <1>3, GivenUp

\* What a run under way at the next node owes to the plan.
PlanKept ==
    /\ state'.node \in Selected \/ AwaitsWrite' =>
         state'.available = Remaining(plan, Done(state))
    /\ state'.node \in {"DELIVERY_REVIEW", "CREATE_PR"} \/ AwaitsPublish' =>
         PlanItems(plan) \subseteq Done(state)

(* A run goes on to its next node before MORE_WORK. *)
LEMMA GoesOn ==
    ASSUME JInv, state.node \notin {"MORE_WORK", "FINALIZE", "END"}, plan' = plan, ~published',
           state'.node \notin {"MORE_WORK", "FINALIZE", "END"}, state'.status = state.status,
           state'.completed = state.completed, PlanKept, LedgerInv', RiskInv'
    PROVE  JInv'
<1>1. Ordered' /\ Done(state') = Done(state) BY OrderedStays DEF JInv, OrderInv
<1>2. OrderInv'
  <2>1. /\ Len(state.completed) < MaxItems /\ Len(state.completed) <= MaxItems
        /\ Done(state) \subseteq PlanItems(plan)
    BY DEF JInv, OrderInv
  <2>2. state'.node \in Selected \cup {"MORE_WORK"} \/ AwaitsWrite' =>
          state'.available = Remaining(plan', Done(state'))
    BY <1>1 DEF PlanKept
  <2>3. state'.node \in {"DELIVERY_REVIEW", "CREATE_PR"} \/ AwaitsPublish' =>
          PlanItems(plan') \subseteq Done(state')
    BY <1>1 DEF PlanKept
  <2> QED BY <1>1, <2>1, <2>2, <2>3 DEF OrderInv
<1>3. OutcomeInv' BY DEF JInv, OutcomeInv, At
<1> QED BY <1>2, <1>3 DEF JInv

-----------------------------------------------------------------------------
(* The nodes before the first item. *)
LEMMA OpeningKeeps ==
    ASSUME IInv, JInv, NEW r \in Results(plan, state), ApplyResult(state, r, state'),
           plan' = plan, published' = published,
           state.node \in {"START", "DISCOVER_PROJECT", "PREFLIGHT"}
    PROVE  JInv'
<1>1. state \in State /\ plan \in Plans /\ ~published
  BY DEF IInv, TypeOK, JInv, OutcomeInv
<1>2. CASE Refused(state, r) BY <1>1, <1>2, RefusedKeeps
<1>3. CASE Patched(state, r.patch) = state /\ Goes(state, r, StraightTarget[state.node])
  <2> DEFINE e == Go("succeeded", StraightTarget[state.node])
  <2>1. Turn(state, r, e) BY <1>3 DEF Goes
  <2>2. /\ e.to \in {"DISCOVER_PROJECT", "PREFLIGHT", "SELECT_WORK"}
        /\ e.final = "KEEP"
    BY DEF Go, Edge, StraightTarget
  <2> HIDE DEF e
  <2>3. /\ state'.node = e.to /\ state'.status = state.status
        /\ state'.completed = state.completed
        /\ state'.count = state.count /\ state'.history = state.history
    BY <1>3, <2>1, <2>2, TurnFields DEF RepairNodes
  <2>4. LedgerInv' BY <2>2, <2>3, LedgerStays DEF JInv, RepairNodes
  <2>5. PlanKept /\ RiskInv'
    BY <2>2, <2>3 DEF PlanKept, RiskInv, AwaitsWrite, AwaitsPublish, At, Selected, Explored,
                      Packaged, Writing, Working, RepairNodes
  <2> QED BY <1>1, <2>2, <2>3, <2>4, <2>5, GoesOn
<1> QED BY <1>1, <1>2, <1>3, OpeningTurns

(* SELECT_WORK: an item is taken with all that is left, or nothing is left. *)
LEMMA SelectWorkKeeps ==
    ASSUME IInv, JInv, NEW r \in Results(plan, state), ApplyResult(state, r, state'),
           plan' = plan, published' = published, state.node = "SELECT_WORK"
    PROVE  JInv'
<1> DEFINE u == Patched(state, r.patch)
<1>1. state \in State /\ plan \in Plans /\ ~published
  BY DEF IInv, TypeOK, JInv, OutcomeInv
<1>2. CASE Refused(state, r) BY <1>1, <1>2, RefusedKeeps
<1>3. ASSUME Retains(state, u, {"available"}), Keeps(state, u, {"item"}),
             u.available = Remaining(plan, Done(state)),
             NEW e, Turn(state, r, e), e.final = "KEEP",
             e.to = "EXPLORE" \/ (e.to = "DELIVERY_REVIEW" /\ u.available = {})
      PROVE  JInv'
  <2>1. /\ state'.node = e.to /\ state'.status = state.status
        /\ state'.completed = u.completed /\ state'.available = u.available
        /\ state'.count = state.count /\ state'.history = u.history
    BY <1>3, TurnFields DEF RepairNodes, Keeps, Retains
  <2>2. u.completed = state.completed /\ u.history = state.history
    BY <1>3 DEF Keeps, Retains
  <2> HIDE DEF u
  <2>3. LedgerInv' BY <1>3, <2>1, <2>2, LedgerStays DEF JInv, RepairNodes
  <2>4. e.to = "DELIVERY_REVIEW" => PlanItems(plan) \subseteq Done(state)
    BY <1>3 DEF Remaining
  <2>5. PlanKept
    BY <1>3, <2>1, <2>4 DEF PlanKept, AwaitsPublish, At
  <2>6. RiskInv' BY <1>3, <2>1 DEF RiskInv, AwaitsWrite, At
  <2> QED BY <1>1, <1>3, <2>1, <2>2, <2>3, <2>5, <2>6, GoesOn
<1>4. Go("found", "EXPLORE").final = "KEEP" /\ Go("found", "EXPLORE").to = "EXPLORE"
  BY DEF Go, Edge
<1>5. /\ Go("delivery-complete", "DELIVERY_REVIEW").final = "KEEP"
      /\ Go("delivery-complete", "DELIVERY_REVIEW").to = "DELIVERY_REVIEW"
  BY DEF Go, Edge
<1> QED BY <1>1, <1>2, <1>3, <1>4, <1>5, SelectWorkTurns

(* The nodes that gather or change an item's evidence. *)
LEMMA EvidenceKeeps ==
    ASSUME IInv, JInv, NEW r \in Results(plan, state), ApplyResult(state, r, state'),
           plan' = plan, published' = published,
           state.node \in {"EXPLORE", "BUILD_TASK_PACKAGE", "IMPLEMENT"} \cup RepairNodes
    PROVE  JInv'
<1> DEFINE u == Patched(state, r.patch)
           e == Go("succeeded", StraightTarget[state.node])
<1>1. state \in State /\ plan \in Plans
  BY DEF IInv, TypeOK
<1>p. ~published
  BY DEF JInv, OutcomeInv, RepairNodes
<1>2. CASE Refused(state, r) BY <1>1, <1>p, <1>2, RefusedKeeps DEF RepairNodes
<1>3. CASE /\ Retains(state, u, {}) /\ Keeps(state, u, {"explored", "package", "changes"})
           /\ Goes(state, r, StraightTarget[state.node])
  <2>1. Turn(state, r, e) BY <1>3 DEF Goes
  <2>2. /\ e.to \in {"BUILD_TASK_PACKAGE", "ASSESS_RISK", "VALIDATE"} /\ e.final = "KEEP"
    BY DEF Go, Edge, StraightTarget, RepairNodes
  <2> HIDE DEF e
  <2>3. /\ u.completed = state.completed /\ u.history = state.history
        /\ u.available = state.available /\ u.node = state.node
        /\ u.status = state.status /\ u.count = state.count
    BY <1>3 DEF Keeps, Retains
  <2>4. /\ state'.node = e.to /\ state'.status = state.status
        /\ state'.completed = state.completed /\ state'.available = state.available
        /\ state'.count = state.count /\ state'.history = state.history
    BY <2>1, <2>2, <2>3, TurnFields DEF RepairNodes
  <2> HIDE DEF u
  <2>5. LedgerInv' BY <2>2, <2>4, LedgerStays DEF JInv, RepairNodes
  <2>6. state.available = Remaining(plan, Done(state))
    BY DEF JInv, OrderInv, Selected, Explored, Packaged, Writing, Working
  <2>7. PlanKept /\ RiskInv'
    BY <2>2, <2>4, <2>6 DEF PlanKept, RiskInv, AwaitsWrite, AwaitsPublish, At
  <2> QED BY <1>1, <1>p, <2>2, <2>4, <2>5, <2>7, GoesOn DEF RepairNodes
<1> QED BY <1>1, <1>2, <1>3, EvidenceTurns

(* ASSESS_RISK: a write that waits for approval is critical. *)
LEMMA AssessRiskKeeps ==
    ASSUME IInv, JInv, NEW r \in Results(plan, state), ApplyResult(state, r, state'),
           plan' = plan, published' = published, state.node = "ASSESS_RISK"
    PROVE  JInv'
<1> DEFINE u == Patched(state, r.patch)
<1>1. state \in State /\ plan \in Plans /\ ~published
  BY DEF IInv, TypeOK, JInv, OutcomeInv
<1>2. CASE Refused(state, r) BY <1>1, <1>2, RefusedKeeps
<1>3. ASSUME Retains(state, u, {}), Keeps(state, u, {"risk"}), NEW e, Turn(state, r, e),
             e.final = "KEEP",
             \/ e.to = "IMPLEMENT"
             \/ e.to = "HUMAN_CHECKPOINT" /\ e.resume = "IMPLEMENT" /\ u.risk = "CRITICAL"
      PROVE  JInv'
  <2>1. /\ u.completed = state.completed /\ u.history = state.history
        /\ u.available = state.available /\ u.node = state.node
        /\ u.status = state.status /\ u.count = state.count
    BY <1>3 DEF Keeps, Retains
  <2>2. /\ state'.node = e.to /\ state'.status = state.status
        /\ state'.completed = state.completed /\ state'.available = state.available
        /\ state'.count = state.count /\ state'.history = state.history
        /\ state'.risk = u.risk
        /\ e.resume # "NONE" => state'.pending = e.resume
    BY <1>3, <2>1, TurnFields DEF RepairNodes
  <2> HIDE DEF u
  <2>3. LedgerInv' BY <1>3, <2>2, LedgerStays DEF JInv, RepairNodes
  <2>4. state.available = Remaining(plan, Done(state))
    BY DEF JInv, OrderInv, Selected, Explored, Packaged
  <2>5. PlanKept BY <1>3, <2>2, <2>4 DEF PlanKept, AwaitsPublish, At
  <2>6. RiskInv' BY <1>3, <2>2 DEF RiskInv, AwaitsWrite, At
  <2> QED BY <1>1, <1>3, <2>2, <2>3, <2>5, <2>6, GoesOn
<1>4. /\ Go("implement", "IMPLEMENT").final = "KEEP"
      /\ Go("implement", "IMPLEMENT").to = "IMPLEMENT"
  BY DEF Go, Edge
<1>5. /\ Checkpoint("critical", "IMPLEMENT").final = "KEEP"
      /\ Checkpoint("critical", "IMPLEMENT").to = "HUMAN_CHECKPOINT"
      /\ Checkpoint("critical", "IMPLEMENT").resume = "IMPLEMENT"
  BY DEF Checkpoint, Edge
<1> QED BY <1>1, <1>2, <1>3, <1>4, <1>5, AssessRiskTurns

(* HUMAN_CHECKPOINT: to the write or the publication that waited, or out. *)
LEMMA HumanCheckpointKeeps ==
    ASSUME IInv, JInv, NEW r \in Results(plan, state), ApplyResult(state, r, state'),
           plan' = plan, published' = published, state.node = "HUMAN_CHECKPOINT"
    PROVE  JInv'
<1>1. state \in State /\ plan \in Plans /\ ~published
  BY DEF IInv, TypeOK, JInv, OutcomeInv
<1>2. CASE Refused(state, r) BY <1>1, <1>2, RefusedKeeps
<1>3. ASSUME Patched(state, r.patch) = state, NEW e, Turn(state, r, e), e.to = "FINALIZE",
             e.final \in {"BLOCKED", "CANCELLED"}
      PROVE  JInv'
  <2>1. /\ state'.node = "FINALIZE" /\ state'.status = e.final
        /\ state'.completed = state.completed
        /\ state'.count = state.count /\ state'.history = state.history
    BY <1>3, TurnFields DEF RepairNodes
  <2> QED BY <1>1, <1>3, <2>1, GivenUp
<1>4. ASSUME Patched(state, r.patch) = state, NEW e, Turn(state, r, e),
             e.to = state.pending, e.to \in {"IMPLEMENT", "CREATE_PR"}, e.final = "KEEP"
      PROVE  JInv'
  <2>1. /\ state'.node = e.to /\ state'.status = state.status
        /\ state'.completed = state.completed /\ state'.available = state.available
        /\ state'.count = state.count /\ state'.history = state.history
    BY <1>4, TurnFields DEF RepairNodes
  <2>2. LedgerInv' BY <1>4, <2>1, LedgerStays DEF JInv, RepairNodes
  <2>3. /\ e.to = "IMPLEMENT" => state.available = Remaining(plan, Done(state))
        /\ e.to = "CREATE_PR" => PlanItems(plan) \subseteq Done(state)
    BY <1>4 DEF JInv, OrderInv, AwaitsWrite, AwaitsPublish, At
  <2>4. state'.node \notin {"HUMAN_CHECKPOINT", "DELIVERY_REVIEW"} BY <1>4, <2>1
  <2>5. state'.node = "CREATE_PR" => state'.node \notin Selected
    BY DEF Selected, Explored, Packaged, Writing, Working, RepairNodes
  <2>6. PlanKept
    BY <1>4, <2>1, <2>3, <2>4, <2>5 DEF PlanKept, AwaitsWrite, AwaitsPublish, At
  <2>7. RiskInv' BY <2>4 DEF RiskInv, AwaitsWrite, At
  <2> QED BY <1>1, <1>4, <2>1, <2>2, <2>6, <2>7, GoesOn
<1>5. /\ Go(state.pending, state.pending).to = state.pending
      /\ Go(state.pending, state.pending).final = "KEEP"
      /\ Finish("rejected", "BLOCKED").to = "FINALIZE"
      /\ Finish("rejected", "BLOCKED").final = "BLOCKED"
      /\ Finish("decided-cancelled", "CANCELLED").to = "FINALIZE"
      /\ Finish("decided-cancelled", "CANCELLED").final = "CANCELLED"
  BY DEF Go, Finish, Edge
<1> QED BY <1>1, <1>2, <1>3, <1>4, <1>5, HumanCheckpointTurns

(* VALIDATE: a failed verdict is what CLASSIFY_FAILURE is to find. *)
LEMMA ValidateKeeps ==
    ASSUME IInv, JInv, NEW r \in Results(plan, state), ApplyResult(state, r, state'),
           plan' = plan, published' = published, state.node = "VALIDATE"
    PROVE  JInv'
<1> DEFINE u == Patched(state, r.patch)
<1>1. state \in State /\ plan \in Plans /\ ~published
  BY DEF IInv, TypeOK, JInv, OutcomeInv
<1>2. CASE Refused(state, r) BY <1>1, <1>2, RefusedKeeps
<1>3. ASSUME Retains(state, u, {"validation"}), Keeps(state, u, {}), NEW e, Turn(state, r, e),
             e.final = "KEEP",
             \/ e.to = "REVIEW" /\ u.validation = "PASS"
             \/ e.to = "CLASSIFY_FAILURE" /\ u.validation = "FAIL" /\ u.failure = "VALIDATION"
      PROVE  JInv'
  <2>1. /\ u.completed = state.completed /\ u.history = state.history
        /\ u.available = state.available /\ u.node = state.node
        /\ u.status = state.status /\ u.count = state.count
    BY <1>3 DEF Keeps, Retains
  <2>2. /\ state'.node = e.to /\ state'.prev = "VALIDATE" /\ state'.status = state.status
        /\ state'.completed = state.completed /\ state'.available = state.available
        /\ state'.count = state.count /\ state'.history = state.history
        /\ state'.validation = u.validation /\ state'.failure = u.failure
    BY <1>3, <2>1, TurnFields DEF RepairNodes
  <2> HIDE DEF u
  <2>3. LedgerInv'
    <3>1. Len(state.history) = state.count /\ \A k \in 1 .. state.count : state.history[k].id = k
      BY DEF JInv, LedgerInv
    <3>2. state'.node = "CLASSIFY_FAILURE" => FailureContextAgrees(state')
      BY <1>3, <2>2, <3>1 DEF FailureContextAgrees, Repairable
    <3> QED BY <1>3, <2>2, <3>1, <3>2 DEF LedgerInv, At, RepairNodes
  <2>4. state.available = Remaining(plan, Done(state))
    BY DEF JInv, OrderInv, Selected, Explored, Packaged, Writing, Working
  <2>5. PlanKept /\ RiskInv'
    BY <1>3, <2>2, <2>4 DEF PlanKept, RiskInv, AwaitsWrite, AwaitsPublish, At
  <2> QED BY <1>1, <1>3, <2>2, <2>3, <2>5, GoesOn
<1>4. /\ Go("pass", "REVIEW").final = "KEEP" /\ Go("pass", "REVIEW").to = "REVIEW"
      /\ Go("reported-fail", "CLASSIFY_FAILURE").final = "KEEP"
      /\ Go("reported-fail", "CLASSIFY_FAILURE").to = "CLASSIFY_FAILURE"
  BY DEF Go, Edge
<1> QED BY <1>1, <1>2, <1>3, <1>4, ValidateTurns

(* REVIEW: a failed review follows on a passed validation. *)
LEMMA ReviewKeeps ==
    ASSUME IInv, JInv, NEW r \in Results(plan, state), ApplyResult(state, r, state'),
           plan' = plan, published' = published, state.node = "REVIEW"
    PROVE  JInv'
<1> DEFINE u == Patched(state, r.patch)
<1>1. state \in State /\ plan \in Plans /\ ~published
  BY DEF IInv, TypeOK, JInv, OutcomeInv
<1>2. CASE Refused(state, r) BY <1>1, <1>2, RefusedKeeps
<1>3. ASSUME Retains(state, u, {"review", "validation"}), Keeps(state, u, {}),
             u.validation = state.validation, NEW e, Turn(state, r, e), e.final = "KEEP",
             e.to = "CLOSE_TASK" \/ (e.to = "CLASSIFY_FAILURE" /\ u.review = "FAIL")
      PROVE  JInv'
  <2>1. /\ u.completed = state.completed /\ u.history = state.history
        /\ u.available = state.available /\ u.node = state.node
        /\ u.status = state.status /\ u.count = state.count
    BY <1>3 DEF Keeps, Retains
  <2>2. /\ state'.node = e.to /\ state'.prev = "REVIEW" /\ state'.status = state.status
        /\ state'.completed = state.completed /\ state'.available = state.available
        /\ state'.count = state.count /\ state'.history = state.history
        /\ state'.validation = state.validation /\ state'.review = u.review
    BY <1>3, <2>1, TurnFields DEF RepairNodes
  <2> HIDE DEF u
  <2>3. LedgerInv'
    <3>1. /\ Len(state.history) = state.count
          /\ \A k \in 1 .. state.count : state.history[k].id = k
          /\ state.validation = "PASS"
      BY DEF JInv, LedgerInv, At
    <3>2. state'.node = "CLASSIFY_FAILURE" => FailureContextAgrees(state')
      BY <1>3, <2>2, <3>1 DEF FailureContextAgrees
    <3> QED BY <1>3, <2>2, <3>1, <3>2 DEF LedgerInv, At, RepairNodes
  <2>4. state.available = Remaining(plan, Done(state))
    BY DEF JInv, OrderInv, Selected, Explored, Packaged, Writing, Working
  <2>5. PlanKept /\ RiskInv'
    BY <1>3, <2>2, <2>4 DEF PlanKept, RiskInv, AwaitsWrite, AwaitsPublish, At
  <2> QED BY <1>1, <1>3, <2>2, <2>3, <2>5, GoesOn
<1>4. /\ Go("pass-close", "CLOSE_TASK").final = "KEEP"
      /\ Go("pass-close", "CLOSE_TASK").to = "CLOSE_TASK"
      /\ Go("fail", "CLASSIFY_FAILURE").final = "KEEP"
      /\ Go("fail", "CLASSIFY_FAILURE").to = "CLASSIFY_FAILURE"
  BY DEF Go, Edge
<1> QED BY <1>1, <1>2, <1>3, <1>4, ReviewTurns

(* CLASSIFY_FAILURE: the newest record is the one this cycle was classified with. *)
LEMMA ClassifyFailureKeeps ==
    ASSUME IInv, JInv, NEW r \in Results(plan, state), ApplyResult(state, r, state'),
           plan' = plan, published' = published, state.node = "CLASSIFY_FAILURE"
    PROVE  JInv'
<1> DEFINE u == Patched(state, r.patch)
<1>1. state \in State /\ plan \in Plans /\ ~published
  BY DEF IInv, TypeOK, JInv, OutcomeInv
<1>2. CASE Refused(state, r) BY <1>1, <1>2, RefusedKeeps
<1>3. CASE u = state /\ Turn(state, r, FinishFirst("limit-exhausted", "FAILED"))
  <2> DEFINE e == FinishFirst("limit-exhausted", "FAILED")
  <2>1. e.to = "FINALIZE" /\ e.final = "FAILED" BY DEF FinishFirst, Edge
  <2>2. Turn(state, r, e) BY <1>3
  <2> HIDE DEF e
  <2>3. /\ state'.node = "FINALIZE" /\ state'.status = "FAILED"
        /\ state'.completed = state.completed
        /\ state'.count = state.count /\ state'.history = state.history
    BY <1>3, <2>1, <2>2, TurnFields DEF RepairNodes
  <2> QED BY <1>1, <2>3, GivenUp
<1>4. ASSUME NEW c \in Classifications, Retains(state, u, {"history"}), Keeps(state, u, {}),
             u.history = Append(state.history, RepairRecord(state, c)),
             Turn(state, r, RepairEdge(c))
      PROVE  JInv'
  <2> DEFINE e == RepairEdge(c)
  <2>1. /\ e.to \in RepairNodes /\ e.final = "KEEP"
        /\ e.to = (IF c = "PROGRAMMER" THEN "PROGRAMMER_REPAIR" ELSE "DEBUGGER")
    BY DEF RepairEdge, Go, Edge, RepairNodes
  <2>2. Turn(state, r, e) BY <1>4
  <2> HIDE DEF e
  <2>3. /\ u.completed = state.completed /\ u.available = state.available
        /\ u.node = state.node /\ u.status = state.status /\ u.count = state.count
    BY <1>4 DEF Keeps, Retains
  <2>4. e.to \notin {"END", "HUMAN_CHECKPOINT", "REVIEW", "CLASSIFY_FAILURE", "DELIVERY_REVIEW",
                     "CREATE_PR", "MORE_WORK", "FINALIZE"}
    BY <2>1 DEF RepairNodes
  <2>5. /\ state'.node = e.to /\ state'.status = state.status
        /\ state'.completed = state.completed /\ state'.available = state.available
        /\ state'.count = state.count + 1
        /\ state'.history = Append(state.history, RepairRecord(state, c))
    BY <1>4, <2>1, <2>2, <2>3, <2>4, TurnFields
  <2> HIDE DEF u
  <2>6. LedgerInv'
    <3> DEFINE h == state.history
               new == Append(h, RepairRecord(state, c))
               n == state.count
    <3>1. /\ Len(h) = n /\ \A k \in 1 .. n : h[k].id = k
      BY DEF JInv, LedgerInv
    <3>2. h \in Seq(RepairRecords) /\ n \in Nat
      BY <1>1, PolicyAssumption DEF State, RepairCounts
    <3>3. /\ RepairRecord(state, c).id = n + 1
          /\ RepairRecord(state, c).classification = c
      BY DEF RepairRecord
    <3> HIDE DEF h, n
    <3>4. Len(new) = n + 1 /\ new[n + 1] = RepairRecord(state, c)
          /\ \A k \in 1 .. n : new[k] = h[k]
      BY <3>1, <3>2
    <3>5. \A k \in 1 .. n + 1 : new[k].id = k BY <3>1, <3>2, <3>3, <3>4
    <3>6. state'.count = n + 1 /\ state'.history = new BY <2>5 DEF n, h
    <3> HIDE DEF new
    <3>7. RepairContextAgrees(state')
      BY <2>1, <2>5, <3>2, <3>3, <3>4, <3>6 DEF RepairContextAgrees
    <3> QED BY <2>4, <2>5, <3>4, <3>5, <3>6, <3>7 DEF LedgerInv, At
  <2>7. state.available = Remaining(plan, Done(state))
    BY DEF JInv, OrderInv, Selected, Explored, Packaged, Writing, Working
  <2>8. PlanKept /\ RiskInv'
    BY <2>4, <2>5, <2>7 DEF PlanKept, RiskInv, AwaitsWrite, AwaitsPublish, At
  <2> QED BY <1>1, <2>4, <2>5, <2>6, <2>8, GoesOn
<1> QED BY <1>1, <1>2, <1>3, <1>4, ClassifyFailureTurns

(* One more item is completed, and it is one that was ready. *)
LEMMA OneMore ==
    ASSUME Ordered, state.completed \in Seq(Items), NEW i \in Items \ Done(state),
           plan.deps[i] \subseteq Done(state), plan' = plan,
           state'.completed = Append(state.completed, i)
    PROVE  /\ Ordered' /\ Done(state') = Done(state) \cup {i}
           /\ Len(state'.completed) = Len(state.completed) + 1
<1> DEFINE c == state.completed
           d == Append(c, i)
<1>1. /\ Len(c) \in Nat /\ Len(d) = Len(c) + 1 /\ d[Len(c) + 1] = i
      /\ DOMAIN c = 1 .. Len(c) /\ DOMAIN d = 1 .. Len(c) + 1
      /\ \A k \in 1 .. Len(c) : d[k] = c[k]
  OBVIOUS
<1>2. Done(state) = {c[k] : k \in DOMAIN c} BY DEF Done
<1>3. \A k \in DOMAIN c : LET before == {c[j] : j \in 1 .. k - 1}
                          IN  c[k] \notin before /\ plan.deps[c[k]] \subseteq before
  BY DEF Ordered
<1>4. state'.completed = d OBVIOUS
<1>5. Done(state') = {d[k] : k \in DOMAIN d} BY <1>4 DEF Done
<1> HIDE DEF c, d
<1>6. Done(state') = Done(state) \cup {i}
  <2>1. Done(state') \subseteq Done(state) \cup {i}
    <3>1. ASSUME NEW k \in DOMAIN d PROVE d[k] \in Done(state) \cup {i}
      <4>1. k \in DOMAIN c \/ k = Len(c) + 1 BY <1>1
      <4> QED BY <4>1, <1>1, <1>2
    <3> QED BY <3>1, <1>5
  <2>2. Done(state) \subseteq Done(state') BY <1>1, <1>2, <1>5
  <2>3. i \in Done(state') BY <1>1, <1>5
  <2> QED BY <2>1, <2>2, <2>3
<1>7. ASSUME NEW k \in DOMAIN d
      PROVE  LET before == {d[j] : j \in 1 .. k - 1}
             IN  d[k] \notin before /\ plan.deps[d[k]] \subseteq before
  <2>1. CASE k \in DOMAIN c
    <3>1. \A j \in 1 .. k - 1 : d[j] = c[j] BY <1>1, <2>1
    <3>2. {d[j] : j \in 1 .. k - 1} = {c[j] : j \in 1 .. k - 1} BY <3>1
    <3> QED BY <1>1, <1>3, <2>1, <3>2
  <2>2. CASE k = Len(c) + 1
    <3>1. 1 .. k - 1 = DOMAIN c BY <1>1, <2>2
    <3>2. {d[j] : j \in 1 .. k - 1} = Done(state) BY <1>1, <1>2, <3>1
    <3> QED BY <1>1, <2>2, <3>2
  <2> QED BY <1>1, <2>1, <2>2
<1>8. Ordered' BY <1>4, <1>7 DEF Ordered
<1> QED BY <1>1, <1>4, <1>6, <1>8 DEF c

(* An item that is ready is one of the plan, and waits for nothing. *)
LEMMA ActivatedReady ==
    ASSUME NEW p \in Plans, NEW s, Activated(p, s)
    PROVE  /\ s.item \in PlanItems(p) /\ s.item \notin Done(s)
           /\ p.deps[s.item] \subseteq Done(s)
  BY DEF Activated, NextReady, Ready, DependenciesDone, PlanItems

(* CLOSE_TASK: the item joins what is done. *)
LEMMA CloseTaskKeeps ==
    ASSUME IInv, JInv, NEW r \in Results(plan, state), ApplyResult(state, r, state'),
           plan' = plan, published' = published, state.node = "CLOSE_TASK"
    PROVE  JInv'
<1> DEFINE u == Patched(state, r.patch)
           e == Go("succeeded", "MORE_WORK")
           i == state.item
<1>1. state \in State /\ plan \in Plans /\ ~published
  BY DEF IInv, TypeOK, JInv, OutcomeInv
<1>i. state.item # NoItem
  BY DEF IInv, StageInv, Selected, Explored, Packaged, Writing, Working
<1>2. CASE Refused(state, r) BY <1>1, <1>2, RefusedKeeps
<1>3. CASE /\ Activated(plan, state)
           /\ Retains(state, u, {"available"}) /\ Keeps(state, u, {"item", "completed"})
           /\ u.completed = Append(state.completed, state.item)
           /\ u.available = state.available \ {state.item}
           /\ Goes(state, r, "MORE_WORK")
  <2>1. Turn(state, r, e) BY <1>3 DEF Goes
  <2>2. e.to = "MORE_WORK" /\ e.final = "KEEP" BY DEF Go, Edge
  <2> HIDE DEF e
  <2>3. /\ u.node = state.node /\ u.status = state.status /\ u.count = state.count
        /\ u.history = state.history
    BY <1>3 DEF Keeps, Retains
  <2>4. /\ state'.node = "MORE_WORK" /\ state'.status = state.status
        /\ state'.completed = Append(state.completed, i)
        /\ state'.available = state.available \ {i}
        /\ state'.count = state.count /\ state'.history = state.history
    BY <1>3, <2>1, <2>2, <2>3, TurnFields DEF RepairNodes
  <2> HIDE DEF u
  <2>5. /\ i \in PlanItems(plan) /\ i \notin Done(state) /\ plan.deps[i] \subseteq Done(state)
    BY <1>1, <1>3, ActivatedReady
  <2>6. state.completed \in Seq(Items) /\ i \in Items
    BY <1>1, <1>i DEF State, ItemOrNone
  <2> HIDE DEF i
  <2>7. /\ Ordered' /\ Done(state') = Done(state) \cup {i}
        /\ Len(state'.completed) = Len(state.completed) + 1
    BY <2>4, <2>5, <2>6, OneMore DEF JInv, OrderInv
  <2>8. LedgerInv' BY <2>4, LedgerStays DEF JInv, RepairNodes
  <2>9. OrderInv'
    <3>1. /\ state.available = Remaining(plan, Done(state)) /\ Len(state.completed) < MaxItems
          /\ Done(state) \subseteq PlanItems(plan)
      BY DEF JInv, OrderInv, Selected, Explored, Packaged, Writing, Working
    <3>2. state'.available = Remaining(plan', Done(state'))
      BY <2>4, <2>7, <3>1 DEF Remaining
    <3>3. Done(state') \subseteq PlanItems(plan') BY <2>5, <2>7, <3>1
    <3>4. Len(state'.completed) <= MaxItems
      BY <2>6, <2>7, <3>1, PolicyAssumption
    <3> QED BY <1>1, <2>4, <2>7, <3>2, <3>3, <3>4 DEF OrderInv, AwaitsPublish, At
  <2>10. OutcomeInv' BY <1>1, <2>4 DEF JInv, OutcomeInv, At
  <2>11. RiskInv' BY <2>4 DEF RiskInv, AwaitsWrite, At
  <2> QED BY <2>8, <2>9, <2>10, <2>11 DEF JInv
<1> QED BY <1>1, <1>i, <1>2, <1>3, CloseTaskTurns

(* MORE_WORK: the limit pauses the run, the next item starts afresh, and what is left *)
(* over is nothing when the delivery is reviewed.                                     *)
LEMMA MoreWorkKeeps ==
    ASSUME IInv, JInv, NEW r \in Results(plan, state), ApplyResult(state, r, state'),
           plan' = plan, published' = published, state.node = "MORE_WORK"
    PROVE  JInv'
<1>1. state \in State /\ plan \in Plans /\ ~published /\ state.status = "RUNNING"
  BY DEF IInv, TypeOK, JInv, OutcomeInv
<1>2. Patched(state, r.patch) = state BY <1>1, MoreWorkTurns
<1>3. /\ Len(state.completed) <= MaxItems /\ Ordered /\ Done(state) \subseteq PlanItems(plan)
      /\ state.available = Remaining(plan, Done(state))
      /\ Len(state.completed) \in Nat /\ MaxItems \in Nat
  <2>1. state.completed \in Seq(Items) BY <1>1 DEF State
  <2> QED BY <2>1, PolicyAssumption DEF JInv, OrderInv
<1>4. ASSUME NEW e, Turn(state, r, e)
      PROVE  Follows(state, e, state') /\ FollowsOn(state, e, state')
  BY <1>2, <1>4, TurnFollows
<1>5. CASE LimitReached(state) /\ Turn(state, r, FinishFirst("limit", "PAUSED"))
  <2> DEFINE e == FinishFirst("limit", "PAUSED")
  <2>1. e.to = "FINALIZE" /\ e.final = "PAUSED" BY DEF FinishFirst, Edge
  <2>2. Follows(state, e, state') /\ FollowsOn(state, e, state') BY <1>4, <1>5
  <2> HIDE DEF e
  <2>3. ~Reset(state, e) BY <2>1 DEF Reset
  <2>4. /\ state'.node = "FINALIZE" /\ state'.status = "PAUSED"
        /\ state'.completed = state.completed /\ state'.count = state.count
        /\ state'.history = state.history
    BY <2>1, <2>2, <2>3 DEF Follows, FollowsOn, StatusAfter, RepairNodes
  <2>5. Ordered' /\ Done(state') = Done(state) BY <1>3, <2>4, OrderedStays
  <2>6. LedgerInv' BY <2>4, LedgerStays DEF JInv, RepairNodes
  <2>7. OrderInv'
    BY <1>1, <1>3, <2>4, <2>5
       DEF OrderInv, AwaitsWrite, AwaitsPublish, At, Selected, Explored, Packaged, Writing,
           Working, RepairNodes
  <2>8. Len(state.completed) = MaxItems BY <1>3, <1>5 DEF LimitReached
  <2>9. OutcomeInv' BY <1>1, <2>4, <2>8 DEF OutcomeInv, At
  <2>10. RiskInv' BY <2>4 DEF RiskInv, AwaitsWrite, At
  <2> QED BY <2>6, <2>7, <2>9, <2>10 DEF JInv
<1>6. CASE ~LimitReached(state) /\ Turn(state, r, Go("next", "SELECT_WORK"))
  <2> DEFINE e == Go("next", "SELECT_WORK")
  <2>1. e.to = "SELECT_WORK" /\ e.final = "KEEP" BY DEF Go, Edge
  <2>2. Follows(state, e, state') /\ FollowsOn(state, e, state') BY <1>4, <1>6
  <2> HIDE DEF e
  <2>3. Reset(state, e) BY <2>1 DEF Reset
  <2>4. /\ state'.node = "SELECT_WORK" /\ state'.status = "RUNNING"
        /\ state'.completed = state.completed /\ state'.count = 0
        /\ state'.history = <<>>
    BY <1>1, <2>1, <2>2, <2>3 DEF Follows, FollowsOn, StatusAfter
  <2>5. Ordered' /\ Done(state') = Done(state) BY <1>3, <2>4, OrderedStays
  <2>6. LedgerInv'
    <3>1. Len(state'.history) = 0 BY <2>4
    <3> QED BY <2>4, <3>1 DEF LedgerInv, At, RepairNodes
  <2>7. Len(state.completed) < MaxItems BY <1>3, <1>6 DEF LimitReached
  <2>8. OrderInv'
    BY <1>1, <1>3, <2>4, <2>5, <2>7
       DEF OrderInv, AwaitsWrite, AwaitsPublish, At, Selected, Explored, Packaged, Writing,
           Working, RepairNodes
  <2>9. OutcomeInv' BY <1>1, <2>4 DEF OutcomeInv, At
  <2>10. RiskInv' BY <2>4 DEF RiskInv, AwaitsWrite, At
  <2> QED BY <2>6, <2>8, <2>9, <2>10 DEF JInv
<1>7. CASE /\ ~LimitReached(state) /\ state.available = {}
           /\ Turn(state, r, Go("empty", "DELIVERY_REVIEW"))
  <2> DEFINE e == Go("empty", "DELIVERY_REVIEW")
  <2>1. e.to = "DELIVERY_REVIEW" /\ e.final = "KEEP" BY DEF Go, Edge
  <2>2. Follows(state, e, state') /\ FollowsOn(state, e, state') BY <1>4, <1>7
  <2> HIDE DEF e
  <2>3. ~Reset(state, e) BY <2>1 DEF Reset
  <2>4. /\ state'.node = "DELIVERY_REVIEW" /\ state'.status = "RUNNING"
        /\ state'.completed = state.completed /\ state'.count = state.count
        /\ state'.history = state.history
    BY <1>1, <2>1, <2>2, <2>3 DEF Follows, FollowsOn, StatusAfter, RepairNodes
  <2>5. Ordered' /\ Done(state') = Done(state) BY <1>3, <2>4, OrderedStays
  <2>6. LedgerInv' BY <2>4, LedgerStays DEF JInv, RepairNodes
  <2>7. Len(state.completed) < MaxItems BY <1>3, <1>7 DEF LimitReached
  <2>8. PlanItems(plan) \subseteq Done(state) BY <1>3, <1>7 DEF Remaining
  <2>9. OrderInv'
    BY <1>1, <1>3, <2>4, <2>5, <2>7, <2>8
       DEF OrderInv, AwaitsWrite, AwaitsPublish, At, Selected, Explored, Packaged, Writing,
           Working, RepairNodes
  <2>10. OutcomeInv' BY <1>1, <2>4 DEF OutcomeInv, At
  <2>11. RiskInv' BY <2>4 DEF RiskInv, AwaitsWrite, At
  <2> QED BY <2>6, <2>9, <2>10, <2>11 DEF JInv
<1> QED BY <1>1, <1>5, <1>6, <1>7, MoreWorkTurns

(* DELIVERY_REVIEW: a delivery that passed waits for approval, any other fails the run. *)
LEMMA DeliveryReviewKeeps ==
    ASSUME IInv, JInv, NEW r \in Results(plan, state), ApplyResult(state, r, state'),
           plan' = plan, published' = published, state.node = "DELIVERY_REVIEW"
    PROVE  JInv'
<1> DEFINE u == Patched(state, r.patch)
<1>1. state \in State /\ plan \in Plans /\ ~published
  BY DEF IInv, TypeOK, JInv, OutcomeInv
<1>2. CASE Refused(state, r) BY <1>1, <1>2, RefusedKeeps
<1>3. ASSUME Retains(state, u, {"review"}), Keeps(state, u, {}), NEW e, Turn(state, r, e),
             \/ e.to = "HUMAN_CHECKPOINT" /\ e.final = "KEEP" /\ e.resume = "CREATE_PR"
             \/ e.to = "FINALIZE" /\ e.final = "FAILED"
      PROVE  JInv'
  <2>1. /\ u.completed = state.completed /\ u.history = state.history
        /\ u.node = state.node /\ u.status = state.status /\ u.count = state.count
    BY <1>3 DEF Keeps, Retains
  <2>2. /\ state'.node = e.to /\ state'.completed = state.completed
        /\ state'.count = state.count /\ state'.history = state.history
        /\ state'.status = IF e.final = "KEEP" THEN state.status ELSE e.final
        /\ e.resume # "NONE" => state'.pending = e.resume
    BY <1>3, <2>1, TurnFields DEF RepairNodes
  <2> HIDE DEF u
  <2>3. CASE e.to = "FINALIZE" /\ e.final = "FAILED" BY <1>1, <2>2, <2>3, GivenUp
  <2>4. CASE e.to = "HUMAN_CHECKPOINT" /\ e.final = "KEEP" /\ e.resume = "CREATE_PR"
    <3>1. LedgerInv' BY <2>2, <2>4, LedgerStays DEF JInv, RepairNodes
    <3>2. PlanItems(plan) \subseteq Done(state) BY DEF JInv, OrderInv
    <3>3. PlanKept
      BY <2>2, <2>4, <3>2 DEF PlanKept, AwaitsWrite, At, Selected, Explored, Packaged, Writing,
                              Working, RepairNodes
    <3>4. RiskInv' BY <2>2, <2>4 DEF RiskInv, AwaitsWrite, At
    <3> QED BY <1>1, <2>2, <2>4, <3>1, <3>3, <3>4, GoesOn
  <2> QED BY <1>3, <2>3, <2>4
<1>4. /\ Checkpoint("checkpoint", "CREATE_PR").to = "HUMAN_CHECKPOINT"
      /\ Checkpoint("checkpoint", "CREATE_PR").final = "KEEP"
      /\ Checkpoint("checkpoint", "CREATE_PR").resume = "CREATE_PR"
      /\ Finish("failed-verdict", "FAILED").to = "FINALIZE"
      /\ Finish("failed-verdict", "FAILED").final = "FAILED"
  BY DEF Checkpoint, Finish, Edge
<1> QED BY <1>1, <1>2, <1>3, <1>4, DeliveryReviewTurns

(* CREATE_PR: what is published is the whole plan, with the run still RUNNING. *)
LEMMA CreatePrKeeps ==
    ASSUME IInv, JInv, NEW r \in Results(plan, state), ApplyResult(state, r, state'),
           plan' = plan, published' \in {TRUE, Succeeded(r)}, state.node = "CREATE_PR"
    PROVE  JInv'
<1>1. state \in State /\ plan \in Plans /\ state.status = "RUNNING"
  BY DEF IInv, TypeOK, JInv, OutcomeInv
<1>2. CASE Refused(state, r)
  <2>1. PlanItems(plan) \subseteq Done(state) BY DEF JInv, OrderInv
  <2> QED BY <1>1, <1>2, <2>1, RefusedKeeps
<1>3. CASE /\ Patched(state, r.patch) = state /\ Succeeded(r)
           /\ Turn(state, r, Go("succeeded", "FINALIZE"))
  <2> DEFINE e == Go("succeeded", "FINALIZE")
  <2>1. e.to = "FINALIZE" /\ e.final = "KEEP" BY DEF Go, Edge
  <2>2. Turn(state, r, e) BY <1>3
  <2> HIDE DEF e
  <2>3. /\ state'.node = "FINALIZE" /\ state'.status = "RUNNING"
        /\ state'.completed = state.completed
        /\ state'.count = state.count /\ state'.history = state.history
    BY <1>1, <1>3, <2>1, <2>2, TurnFields DEF RepairNodes
  <2>4. Ordered' /\ Done(state') = Done(state) BY <2>3, OrderedStays DEF JInv, OrderInv
  <2>5. LedgerInv' BY <2>3, LedgerStays DEF JInv, RepairNodes
  <2>6. /\ Len(state.completed) < MaxItems /\ Len(state.completed) <= MaxItems
        /\ Done(state) \subseteq PlanItems(plan) /\ PlanItems(plan) \subseteq Done(state)
    BY DEF JInv, OrderInv
  <2>7. OrderInv'
    BY <2>3, <2>4, <2>6
       DEF OrderInv, AwaitsWrite, AwaitsPublish, At, Selected, Explored, Packaged, Writing,
           Working, RepairNodes
  <2>8. Len(state.completed) # MaxItems BY DEF JInv, OrderInv
  <2>9. published' = TRUE BY <1>3 DEF Succeeded
  <2>10. OutcomeInv' BY <2>3, <2>8, <2>9 DEF OutcomeInv, At
  <2>11. RiskInv' BY <2>3 DEF RiskInv, AwaitsWrite, At
  <2> QED BY <2>5, <2>7, <2>10, <2>11 DEF JInv
<1> QED BY <1>1, <1>2, <1>3, CreatePrTurns

(* FINALIZE: a run that is still RUNNING at its end is COMPLETED. *)
LEMMA FinalizeKeeps ==
    ASSUME IInv, JInv, NEW r \in Results(plan, state), ApplyResult(state, r, state'),
           plan' = plan, published' = published, state.node = "FINALIZE"
    PROVE  JInv'
<1> DEFINE e == Terminal("end", "KEEP")
<1>1. state \in State /\ plan \in Plans BY DEF IInv, TypeOK
<1>2. Patched(state, r.patch) = state /\ Turn(state, r, e) BY <1>1, FinalizeTurns
<1>3. e.to = "END" /\ e.final = "KEEP" BY DEF Terminal, Edge
<1> HIDE DEF e
<1>4. /\ state'.node = "END"
      /\ state'.status = IF state.status = "RUNNING" THEN "COMPLETED" ELSE state.status
      /\ state'.completed = state.completed
      /\ state'.count = state.count /\ state'.history = state.history
  BY <1>1, <1>2, <1>3, TurnFields DEF RepairNodes
<1>5. Ordered' /\ Done(state') = Done(state) BY <1>4, OrderedStays DEF JInv, OrderInv
<1>6. LedgerInv' BY <1>4, LedgerStays DEF JInv, RepairNodes
<1>7. /\ Len(state.completed) <= MaxItems /\ Done(state) \subseteq PlanItems(plan)
      /\ published => PlanItems(plan) \subseteq Done(state)
  BY DEF JInv, OrderInv
<1>8. OrderInv'
  BY <1>4, <1>5, <1>7
     DEF OrderInv, AwaitsWrite, AwaitsPublish, At, Selected, Explored, Packaged, Writing,
         Working, RepairNodes
<1>9. /\ state.status # "COMPLETED" /\ (state.status = "RUNNING" => published)
      /\ published => state.status \in {"RUNNING", "BLOCKED", "FAILED"}
      /\ state.status = "PAUSED" <=> Len(state.completed) = MaxItems
  BY DEF JInv, OutcomeInv, At
<1>10. OutcomeInv' BY <1>4, <1>9 DEF OutcomeInv, At
<1>11. RiskInv' BY <1>4 DEF RiskInv, AwaitsWrite, At
<1> QED BY <1>6, <1>8, <1>10, <1>11 DEF JInv

-----------------------------------------------------------------------------
(* The run begins with an empty ledger and nothing done. *)
LEMMA InitOutcome == Init => JInv
<1> SUFFICES ASSUME Init PROVE JInv OBVIOUS
<1>1. /\ state.node = "START" /\ state.status = "RUNNING" /\ state.completed = <<>>
      /\ state.count = 0 /\ state.history = <<>> /\ ~published
  BY DEF Init, InitialState
<1>2. LedgerInv BY <1>1 DEF LedgerInv, At, RepairNodes
<1>3. OrderInv
  <2>1. Ordered BY <1>1 DEF Ordered
  <2>2. Done(state) = {} BY <1>1 DEF Done
  <2>3. Len(state.completed) = 0 /\ 0 < MaxItems /\ 0 <= MaxItems BY <1>1, PolicyAssumption
  <2> QED BY <1>1, <2>1, <2>2, <2>3
      DEF OrderInv, AwaitsWrite, AwaitsPublish, At, Selected, Explored, Packaged, Writing,
          Working, RepairNodes
<1>4. OutcomeInv /\ RiskInv BY <1>1 DEF OutcomeInv, RiskInv, AwaitsWrite, At
<1> QED BY <1>2, <1>3, <1>4 DEF JInv

(* Every step of a run that has not ended takes a result of the node under the cursor. *)
LEMMA StepTakesResult ==
    ASSUME IInv, Next, ~Ended
    PROVE  \E r \in Results(plan, state) :
             /\ ApplyResult(state, r, state') /\ plan' = plan /\ state.node \in Nodes \ {"END"}
             /\ published' \in IF state.node = "CREATE_PR" THEN {TRUE, Succeeded(r)} ELSE {published}
<1> DEFINE Takes(r) ==
             /\ ApplyResult(state, r, state') /\ plan' = plan /\ state.node \in Nodes \ {"END"}
             /\ published' \in IF state.node = "CREATE_PR" THEN {TRUE, Succeeded(r)} ELSE {published}
<1> SUFFICES \E r \in Results(plan, state) : Takes(r)
  OBVIOUS
<1>1. CASE Start \/ DiscoverProject \/ Preflight \/ SelectWork \/ Explore \/ BuildTaskPackage
  BY <1>1 DEF Start, DiscoverProject, Preflight, SelectWork, Explore, BuildTaskPackage, Route,
              Step, At, history, Nodes
<1>2. CASE AssessRisk \/ ClassifyFailure \/ CloseTask \/ MoreWork \/ Finalize
  BY <1>2 DEF AssessRisk, ClassifyFailure, CloseTask, MoreWork, Finalize, Route, Step, At,
              history, Nodes
<1>3. CASE Implement \/ ProgrammerRepair \/ Debugger
  BY <1>3 DEF Implement, ProgrammerRepair, Debugger, Write, Step, At, Nodes
<1>4. CASE Validate \/ Review
  BY <1>4 DEF Validate, Review, Step, At, Nodes
<1>5. CASE HumanCheckpoint BY <1>5 DEF HumanCheckpoint, Step, At, Nodes
<1>6. CASE DeliveryReview BY <1>6 DEF DeliveryReview, Step, At, Nodes
<1>7. CASE CreatePr BY <1>7 DEF CreatePr, Step, At, Nodes
<1>8. ~Ended OBVIOUS
<1> HIDE DEF Takes
<1> QED BY <1>1, <1>2, <1>3, <1>4, <1>5, <1>6, <1>7, <1>8 DEF Next

(* Every step keeps the outcome's invariant, one lemma per node. *)
LEMMA NextOutcome == ASSUME IInv, JInv, [Next]_vars PROVE JInv'
<1>1. CASE UNCHANGED vars
  <2>1. UNCHANGED <<plan, state, published>> BY <1>1 DEF vars
  <2>2. LedgerInv' BY <2>1 DEF JInv, LedgerInv, At
  <2>3. OrderInv' BY <2>1 DEF JInv, OrderInv, Ordered, AwaitsWrite, AwaitsPublish, At
  <2>4. OutcomeInv' /\ RiskInv' BY <2>1 DEF JInv, OutcomeInv, RiskInv, AwaitsWrite, At
  <2> QED BY <2>2, <2>3, <2>4 DEF JInv
<1>2. CASE Ended BY <1>1, <1>2 DEF Ended
<1>3. CASE Next /\ ~Ended
  <2>1. PICK r \in Results(plan, state) :
           /\ ApplyResult(state, r, state') /\ plan' = plan /\ state.node \in Nodes \ {"END"}
           /\ published' \in IF state.node = "CREATE_PR" THEN {TRUE, Succeeded(r)} ELSE {published}
    BY <1>3, StepTakesResult
  <2>2. CASE state.node = "CREATE_PR" BY <2>1, <2>2, CreatePrKeeps
  <2>3. CASE state.node # "CREATE_PR"
    <3>1. published' = published BY <2>1, <2>3
    <3> QED BY <2>1, <2>3, <3>1, OpeningKeeps, SelectWorkKeeps, EvidenceKeeps, AssessRiskKeeps,
               HumanCheckpointKeeps, ValidateKeeps, ReviewKeeps, ClassifyFailureKeeps,
               CloseTaskKeeps, MoreWorkKeeps, DeliveryReviewKeeps, FinalizeKeeps
            DEF Nodes, RepairNodes
  <2> QED BY <2>2, <2>3
<1> QED BY <1>1, <1>2, <1>3

(* The invariant of the outcome, with the one of the gates under it. *)
LEMMA OutcomeInvariant == Spec => []JInv
<1>1. Init => JInv BY InitOutcome
<1>2. IInv /\ JInv /\ [Next]_vars => JInv' BY NextOutcome
<1> QED BY <1>1, <1>2, Invariant, PTL DEF Spec

-----------------------------------------------------------------------------
(* A turn the engine may follow is accepted. *)
LEMMA TurnAccepted ==
    ASSUME NEW s \in State, NEW r, NEW e, Turn(s, r, e), s.node = "EXPLORE" => ~s.locked,
           e.to \in RepairNodes => Patched(s, r.patch).count < MaxRepair,
           e.to = "IMPLEMENT" => Patched(s, r.patch).risk # "NONE"
    PROVE  Accepted(s, r)
<1> DEFINE u == Patched(s, r.patch)
<1>1. "explored" \in AllowedPaths(s.node) => s.node = "EXPLORE" BY DEF AllowedPaths, RepairNodes
<1>2. Authorized(s, r.patch) BY <1>1 DEF Turn, Authorized
<1>3. e.to \in RepairNodes \cup {"IMPLEMENT"} => Prepared(u, e) = u
  BY DEF Prepared, RepairNodes
<1>4. Executable(Prepared(u, e), e) BY <1>3 DEF Executable, RepairNodes
<1> QED BY <1>2, <1>4, SoleAccepted DEF Turn

(* A refusal is accepted. *)
LEMMA RefusedAccepted ==
    ASSUME NEW s \in State, NEW r, Refused(s, r), s.node = "EXPLORE" => ~s.locked
    PROVE  Accepted(s, r)
  BY TurnAccepted DEF Refused, Refuses, RepairNodes

(* Every result a node of the run returns is accepted. *)
LEMMA ResultAccepted ==
    ASSUME IInv, JInv, NEW r \in Results(plan, state)
    PROVE  Accepted(state, r)
<1> DEFINE u == Patched(state, r.patch)
<1>1. state \in State /\ plan \in Plans BY DEF IInv, TypeOK
<1>2. state.node = "EXPLORE" => ~state.locked BY DEF IInv, StageInv, Early
<1>3. state.node \in Nodes \ {"END"} BY <1>1, ResultsOf DEF State
<1>4. ASSUME NEW e, Turn(state, r, e), e.to \notin RepairNodes \cup {"IMPLEMENT"}
      PROVE  Accepted(state, r)
  BY <1>1, <1>2, <1>4, TurnAccepted
<1>5. Refused(state, r) => Accepted(state, r) BY <1>1, <1>2, RefusedAccepted
<1>6. CASE state.node \in {"START", "DISCOVER_PROJECT", "PREFLIGHT"}
  <2>1. Go("succeeded", StraightTarget[state.node]).to \notin RepairNodes \cup {"IMPLEMENT"}
    BY <1>6 DEF Go, Edge, StraightTarget, RepairNodes
  <2> QED BY <1>1, <1>4, <1>5, <1>6, <2>1, OpeningTurns DEF Goes
<1>7. CASE state.node = "SELECT_WORK"
  <2>1. /\ Go("found", "EXPLORE").to \notin RepairNodes \cup {"IMPLEMENT"}
        /\ Go("delivery-complete", "DELIVERY_REVIEW").to \notin RepairNodes \cup {"IMPLEMENT"}
    BY DEF Go, Edge, RepairNodes
  <2> QED BY <1>1, <1>4, <1>5, <1>7, <2>1, SelectWorkTurns
<1>8. CASE state.node \in {"EXPLORE", "BUILD_TASK_PACKAGE", "IMPLEMENT"} \cup RepairNodes
  <2>1. Go("succeeded", StraightTarget[state.node]).to \notin RepairNodes \cup {"IMPLEMENT"}
    BY <1>8 DEF Go, Edge, StraightTarget, RepairNodes
  <2> QED BY <1>1, <1>4, <1>5, <1>8, <2>1, EvidenceTurns DEF Goes
<1>9. CASE state.node = "ASSESS_RISK"
  <2>1. /\ Go("implement", "IMPLEMENT").to \notin RepairNodes
        /\ Checkpoint("critical", "IMPLEMENT").to \notin RepairNodes \cup {"IMPLEMENT"}
    BY DEF Go, Checkpoint, Edge, RepairNodes
  <2>2. Turn(state, r, Go("implement", "IMPLEMENT")) /\ u.risk # "NONE" => Accepted(state, r)
    BY <1>1, <1>2, <2>1, TurnAccepted
  <2> QED BY <1>1, <1>4, <1>5, <1>9, <2>1, <2>2, AssessRiskTurns
<1>10. CASE state.node = "HUMAN_CHECKPOINT"
  <2>1. /\ Go(state.pending, state.pending).to = state.pending
        /\ Finish("rejected", "BLOCKED").to \notin RepairNodes \cup {"IMPLEMENT"}
        /\ Finish("decided-cancelled", "CANCELLED").to \notin RepairNodes \cup {"IMPLEMENT"}
    BY DEF Go, Finish, Edge, RepairNodes
  <2>2. state.pending = "IMPLEMENT" => state.risk # "NONE"
    BY <1>10 DEF JInv, RiskInv, AwaitsWrite, At
  <2>3. ASSUME u = state, state.pending \in {"IMPLEMENT", "CREATE_PR"},
               Turn(state, r, Go(state.pending, state.pending))
        PROVE  Accepted(state, r)
    BY <1>1, <1>2, <2>1, <2>2, <2>3, TurnAccepted DEF RepairNodes
  <2> QED BY <1>1, <1>4, <1>5, <1>10, <2>1, <2>3, HumanCheckpointTurns
<1>11. CASE state.node = "VALIDATE"
  <2>1. /\ Go("pass", "REVIEW").to \notin RepairNodes \cup {"IMPLEMENT"}
        /\ Go("reported-fail", "CLASSIFY_FAILURE").to \notin RepairNodes \cup {"IMPLEMENT"}
    BY DEF Go, Edge, RepairNodes
  <2> QED BY <1>1, <1>4, <1>5, <1>11, <2>1, ValidateTurns
<1>12. CASE state.node = "REVIEW"
  <2>1. /\ Go("pass-close", "CLOSE_TASK").to \notin RepairNodes \cup {"IMPLEMENT"}
        /\ Go("fail", "CLASSIFY_FAILURE").to \notin RepairNodes \cup {"IMPLEMENT"}
    BY DEF Go, Edge, RepairNodes
  <2> QED BY <1>1, <1>4, <1>5, <1>12, <2>1, ReviewTurns
<1>13. CASE state.node = "CLASSIFY_FAILURE"
  <2>1. FinishFirst("limit-exhausted", "FAILED").to \notin RepairNodes \cup {"IMPLEMENT"}
    BY DEF FinishFirst, Edge, RepairNodes
  <2>2. ASSUME NEW c \in Classifications, Retains(state, u, {"history"}),
               state.count < MaxRepair, Turn(state, r, RepairEdge(c))
        PROVE  Accepted(state, r)
    <3>1. u.count < MaxRepair BY <2>2 DEF Retains
    <3>2. RepairEdge(c).to # "IMPLEMENT" BY DEF RepairEdge, Go, Edge
    <3> QED BY <1>1, <1>2, <2>2, <3>1, <3>2, TurnAccepted
  <2> QED BY <1>1, <1>4, <1>5, <1>13, <2>1, <2>2, ClassifyFailureTurns
<1>14. CASE state.node = "CLOSE_TASK"
  <2>1. Go("succeeded", "MORE_WORK").to \notin RepairNodes \cup {"IMPLEMENT"}
    BY DEF Go, Edge, RepairNodes
  <2>2. state.item # NoItem
    BY <1>14 DEF IInv, StageInv, Selected, Explored, Packaged, Writing, Working
  <2> QED BY <1>1, <1>4, <1>5, <1>14, <2>1, <2>2, CloseTaskTurns DEF Goes
<1>15. CASE state.node = "MORE_WORK"
  <2>1. /\ FinishFirst("limit", "PAUSED").to \notin RepairNodes \cup {"IMPLEMENT"}
        /\ Go("next", "SELECT_WORK").to \notin RepairNodes \cup {"IMPLEMENT"}
        /\ Go("empty", "DELIVERY_REVIEW").to \notin RepairNodes \cup {"IMPLEMENT"}
    BY DEF FinishFirst, Go, Edge, RepairNodes
  <2> QED BY <1>1, <1>4, <1>15, <2>1, MoreWorkTurns
<1>16. CASE state.node = "DELIVERY_REVIEW"
  <2>1. /\ Checkpoint("checkpoint", "CREATE_PR").to \notin RepairNodes \cup {"IMPLEMENT"}
        /\ Finish("failed-verdict", "FAILED").to \notin RepairNodes \cup {"IMPLEMENT"}
    BY DEF Checkpoint, Finish, Edge, RepairNodes
  <2> QED BY <1>1, <1>4, <1>5, <1>16, <2>1, DeliveryReviewTurns
<1>17. CASE state.node = "CREATE_PR"
  <2>1. Go("succeeded", "FINALIZE").to \notin RepairNodes \cup {"IMPLEMENT"}
    BY DEF Go, Edge, RepairNodes
  <2> QED BY <1>1, <1>4, <1>5, <1>17, <2>1, CreatePrTurns
<1>18. CASE state.node = "FINALIZE"
  <2>1. Terminal("end", "KEEP").to \notin RepairNodes \cup {"IMPLEMENT"}
    BY DEF Terminal, Edge, RepairNodes
  <2> QED BY <1>1, <1>4, <1>18, <2>1, FinalizeTurns
<1> QED BY <1>3, <1>6, <1>7, <1>8, <1>9, <1>10, <1>11, <1>12, <1>13, <1>14, <1>15, <1>16, <1>17,
           <1>18 DEF Nodes, RepairNodes

-----------------------------------------------------------------------------
(* The engine accepts every result a node of a run can return: its patch is authorized, *)
(* exactly one edge wins, and the transition stays within the engine's limits.          *)
THEOREM ResultsAreAccepted == Spec => []EveryResultAccepted
<1> IInv /\ JInv => EveryResultAccepted BY ResultAccepted DEF EveryResultAccepted
<1> QED BY Invariant, OutcomeInvariant, PTL

(* CLASSIFY_FAILURE and the repair nodes find on the ledger what they demand. *)
THEOREM LedgerIsTrue == Spec => []RepairLedgerAgrees
<1> JInv => RepairLedgerAgrees BY DEF JInv, LedgerInv, RepairLedgerAgrees, At
<1> QED BY OutcomeInvariant, PTL

(* Items are completed once each, after their dependencies, and within the limit. *)
THEOREM ItemsKeepOrder == Spec => []DependencyOrder
<1> JInv => DependencyOrder BY DEF JInv, OrderInv, Ordered, DependencyOrder
<1> QED BY OutcomeInvariant, PTL

(* The status a run ends with is the truth, also when CREATE_PR failed after its pull *)
(* request was open.                                                                  *)
THEOREM OutcomeIsHonest == Spec => []HonestOutcome
<1> JInv => HonestOutcome
  <2> SUFFICES ASSUME JInv, state.node = "END" PROVE HonestOutcome BY DEF HonestOutcome
  <2>1. /\ state.status # "RUNNING" /\ (state.status = "COMPLETED" => published)
        /\ published => state.status \in {"COMPLETED", "BLOCKED", "FAILED"}
        /\ state.status = "PAUSED" <=> Len(state.completed) = MaxItems
    BY DEF JInv, OutcomeInv, At
  <2>2. published => Done(state) = PlanItems(plan) BY DEF JInv, OrderInv
  <2> QED BY <2>1, <2>2 DEF HonestOutcome
<1> QED BY OutcomeInvariant, PTL

-----------------------------------------------------------------------------
\* How far into the way of an item a node lies: the most transitions that lead to it since
\* the item was selected, those of the repairs apart.
Lead == [START |-> -3, DISCOVER_PROJECT |-> -2, PREFLIGHT |-> -1,
         SELECT_WORK |-> 0, EXPLORE |-> 1, BUILD_TASK_PACKAGE |-> 2, ASSESS_RISK |-> 3,
         HUMAN_CHECKPOINT |-> 4, IMPLEMENT |-> 5, VALIDATE |-> 6, REVIEW |-> 7,
         CLASSIFY_FAILURE |-> 8, PROGRAMMER_REPAIR |-> 5, DEBUGGER |-> 5, CLOSE_TASK |-> 8,
         MORE_WORK |-> -1 - 4 * MaxRepair, DELIVERY_REVIEW |-> 1, CREATE_PR |-> 5]

\* The transitions of an item with all its repairs, and those before item n + 1.
PerItem == 10 + 4 * MaxRepair
Before(n) == 3 + n * PerItem

\* The most transitions that lead to s.
Ceiling(s) ==
    IF s.node = "END" THEN Before(MaxItems) + 1
    ELSE IF s.node = "FINALIZE" THEN Before(MaxItems)
    ELSE Before(Len(s.completed)) + Lead[s.node] + 4 * s.count

(* The leads are numbers, and small until an item is done. *)
LEMMA Leads ==
    /\ \A n \in Nodes \ {"FINALIZE", "END"} : Lead[n] \in Int
    /\ \A n \in Nodes \ {"MORE_WORK", "FINALIZE", "END"} : Lead[n] <= 8
<1>1. 4 * MaxRepair \in Nat BY PolicyAssumption
<1> QED BY <1>1 DEF Lead, Nodes

(* The items before an item take at most as much as those before a later one. *)
LEMMA BeforeRises ==
    /\ PerItem \in Nat
    /\ \A n \in Nat : Before(n) \in Nat /\ Before(n + 1) = Before(n) + PerItem
    /\ \A n \in Nat : n < MaxItems => Before(n) + PerItem <= Before(MaxItems)
    /\ \A n \in Nat : n <= MaxItems => Before(n) <= Before(MaxItems)
<1>1. PerItem \in Nat BY PolicyAssumption DEF PerItem
<1>2. MaxItems \in Nat BY PolicyAssumption
<1>3. ASSUME NEW m \in Nat, NEW n \in Nat
      PROVE  /\ Before(n) \in Nat /\ Before(n + 1) = Before(n) + PerItem
             /\ m * PerItem \in Nat /\ Before(n + m) = Before(n) + m * PerItem
  <2>1. /\ n * PerItem \in Nat /\ (n + 1) * PerItem = n * PerItem + PerItem
        /\ m * PerItem \in Nat /\ (n + m) * PerItem = n * PerItem + m * PerItem
    BY <1>1
  <2> QED BY <1>1, <2>1 DEF Before
<1>4. ASSUME NEW n \in Nat, n <= MaxItems PROVE Before(n) <= Before(MaxItems)
  <2>1. PICK m \in Nat : MaxItems = n + m
    <3>1. MaxItems - n \in Nat /\ MaxItems = n + (MaxItems - n) BY <1>2, <1>4
    <3> QED BY <3>1
  <2>2. Before(n + m) = Before(n) + m * PerItem /\ Before(n) \in Nat BY <1>3
  <2>3. m * PerItem \in Nat BY <1>3
  <2>4. Before(MaxItems) = Before(n) + m * PerItem BY <2>1, <2>2
  <2> DEFINE more == m * PerItem
             b == Before(n)
  <2> HIDE DEF more, b
  <2>5. b <= b + more BY <2>2, <2>3 DEF more, b
  <2> QED BY <2>4, <2>5 DEF more, b
<1>5. ASSUME NEW n \in Nat, n < MaxItems PROVE Before(n) + PerItem <= Before(MaxItems)
  <2>1. n + 1 \in Nat /\ n + 1 <= MaxItems BY <1>2, <1>5
  <2> QED BY <1>3, <1>4, <2>1
<1> QED BY <1>1, <1>3, <1>4, <1>5

\* What counts the transitions of a run, as the numbers it is.
Counted(s) ==
    /\ s.seq \in Nat /\ s.count \in 0 .. MaxRepair /\ Len(s.completed) \in Nat

LEMMA StateCounted == ASSUME NEW s \in State PROVE Counted(s)
  BY DEF State, Counted, RepairCounts

(* No node may patch the number of transitions. *)
LEMMA NobodyCounts ==
    ASSUME NEW node
    PROVE  "seq" \notin AllowedPaths(node)
  BY DEF AllowedPaths

(* Every result that is applied raises the number of transitions by one. *)
LEMMA SeqRises ==
    ASSUME NEW s \in State, NEW r, NEW t, Patched(s, r.patch) \in State, ApplyResult(s, r, t)
    PROVE  t.seq = s.seq + 1
<1> DEFINE u == Patched(s, r.patch)
<1>1. u.seq = s.seq
  <2>1. "seq" \notin DOMAIN r.patch BY NobodyCounts DEF ApplyResult, Authorized
  <2>2. "seq" \in DOMAIN s BY DEF State
  <2> QED BY <2>1, <2>2 DEF Patched
<1>2. PICK e \in Winners(u, r) : Executable(Prepared(u, e), e) /\ t = Execute(u, e)
  BY DEF ApplyResult
<1>3. u \in State OBVIOUS
<1> HIDE DEF u
<1> DEFINE w == Prepared(u, e)
<1>4. w \in State BY <1>3, PreparedTyped
<1>5. w.seq = u.seq
  <2> DEFINE a == ResetRepair(u)
             b == ResetReview(a)
  <2>1. a \in State /\ a.seq = u.seq BY <1>3, RepairResetTyped DEF ResetRepair, State
  <2> HIDE DEF a
  <2>2. b \in State /\ b.seq = u.seq BY <2>1, ReviewResetTyped DEF ResetReview, State
  <2> HIDE DEF b
  <2>3. ResetTask(b).seq = u.seq BY <2>2 DEF ResetTask, State
  <2>4. ResetItem(u).seq = u.seq BY <2>3 DEF ResetItem, a, b
  <2>5. ResetReview(u).seq = u.seq BY <1>3 DEF ResetReview, State
  <2> QED BY <2>4, <2>5 DEF Prepared
<1> HIDE DEF w
<1> DEFINE v == Entered(w, e)
<1>6. v \in State /\ v.seq = w.seq
  <2>1. v \in State BY <1>2, <1>4, EnteredTyped DEF w
  <2>2. v.seq = w.seq BY <1>4 DEF Entered, State
  <2> QED BY <2>1, <2>2
<1> HIDE DEF v
<1>7. Moved(w, e).seq = v.seq + 1 BY <1>6 DEF Moved, v, State
<1> QED BY <1>1, <1>2, <1>5, <1>6, <1>7 DEF Execute, w

(* A run that is given up at the node of an item is within what the item may take. *)
LEMMA EndWithin ==
    ASSUME IInv, JInv, state.node \notin {"MORE_WORK", "FINALIZE", "END"},
           state'.node = "FINALIZE"
    PROVE  Ceiling(state) + 1 <= Ceiling(state')
<1> DEFINE n == Len(state.completed)
           c == state.count
           l == Lead[state.node]
<1>1. state \in State /\ c \in 0 .. MaxRepair /\ n \in Nat
  BY StateCounted DEF IInv, TypeOK, Counted
<1>2. n < MaxItems BY DEF JInv, OrderInv
<1>3. l \in Int /\ l <= 8 BY <1>1, Leads DEF State
<1>4. Ceiling(state) = Before(n) + l + 4 * c BY DEF Ceiling
<1>5. Ceiling(state') = Before(MaxItems) BY DEF Ceiling
<1>6. Before(n) \in Nat /\ Before(n) + PerItem <= Before(MaxItems) /\ Before(MaxItems) \in Nat
  BY <1>1, <1>2, BeforeRises, PolicyAssumption
<1>7. PerItem = 10 + 4 * MaxRepair /\ MaxRepair \in Nat BY PolicyAssumption DEF PerItem
<1>8. l + 4 * c + 1 <= PerItem
  <2> HIDE DEF l, c
  <2> QED BY <1>1, <1>3, <1>7
<1>9. PerItem \in Nat /\ 4 * c \in Nat BY <1>1, <1>7
<1> HIDE DEF l, c, n
<1> DEFINE b == Before(n)
           k == 4 * c
<1>10. b \in Nat /\ k \in Nat BY <1>6, <1>9
<1> HIDE DEF b, k
<1>11. b + l + k + 1 <= b + PerItem BY <1>3, <1>8, <1>9, <1>10 DEF k
<1>12. b + l + k + 1 <= Before(MaxItems) BY <1>3, <1>6, <1>9, <1>10, <1>11 DEF b
<1> QED BY <1>4, <1>5, <1>12 DEF b, k

(* A step within an item leads on by the difference of the leads. *)
LEMMA GoesWithin ==
    ASSUME IInv, state.node \in Nodes \ {"FINALIZE", "END"},
           state'.node \in Nodes \ {"FINALIZE", "END"},
           Len(state'.completed) = Len(state.completed), NEW up \in Nat,
           state'.count = state.count + up,
           Lead[state.node] + 1 <= Lead[state'.node] + 4 * up
    PROVE  Ceiling(state) + 1 <= Ceiling(state')
<1> DEFINE b == Before(Len(state.completed))
           c == state.count
           l == Lead[state.node]
           m == Lead[state'.node]
<1>1. state \in State /\ c \in Nat /\ Len(state.completed) \in Nat
  BY StateCounted DEF IInv, TypeOK, Counted
<1>2. b \in Nat BY <1>1, BeforeRises
<1>3. l \in Int /\ m \in Int BY Leads
<1>4. Ceiling(state) = b + l + 4 * c BY DEF Ceiling
<1>5. Ceiling(state') = b + m + 4 * (c + up) BY DEF Ceiling
<1>6. l + 1 <= m + 4 * up OBVIOUS
<1> HIDE DEF b, c, l, m
<1>7. b + l + 4 * c + 1 <= b + m + 4 * (c + up) BY <1>1, <1>2, <1>3, <1>6
<1> QED BY <1>4, <1>5, <1>7

\* An edge from one node to another that leads on.
Onward(node, to) ==
    \/ to = "FINALIZE"
    \/ /\ to \in Nodes \ {"FINALIZE", "END"}
       /\ Lead[node] + 1 <= Lead[to] + (IF to \in RepairNodes THEN 4 ELSE 0)

(* Every edge of the graph leads on, save those of CLOSE_TASK and MORE_WORK. *)
LEMMA EdgesLeadOn ==
    /\ \A n \in DOMAIN StraightTarget \ {"CLOSE_TASK"} : Onward(n, StraightTarget[n])
    /\ Onward("SELECT_WORK", "EXPLORE") /\ Onward("SELECT_WORK", "DELIVERY_REVIEW")
    /\ Onward("ASSESS_RISK", "IMPLEMENT") /\ Onward("ASSESS_RISK", "HUMAN_CHECKPOINT")
    /\ Onward("HUMAN_CHECKPOINT", "IMPLEMENT") /\ Onward("HUMAN_CHECKPOINT", "CREATE_PR")
    /\ Onward("VALIDATE", "REVIEW") /\ Onward("VALIDATE", "CLASSIFY_FAILURE")
    /\ Onward("REVIEW", "CLOSE_TASK") /\ Onward("REVIEW", "CLASSIFY_FAILURE")
    /\ \A n \in RepairNodes : Onward("CLASSIFY_FAILURE", n)
    /\ Onward("DELIVERY_REVIEW", "HUMAN_CHECKPOINT")
  BY DEF Onward, Lead, Nodes, RepairNodes, StraightTarget

(* A turn along an edge that leads on. *)
LEMMA TurnRises ==
    ASSUME IInv, JInv, NEW r, NEW e, Turn(state, r, e), ApplyResult(state, r, state'),
           Patched(state, r.patch).node = state.node,
           state.node \notin {"MORE_WORK", "FINALIZE", "END"},
           Patched(state, r.patch).status = state.status,
           Patched(state, r.patch).count = state.count,
           Patched(state, r.patch).completed = state.completed, Onward(state.node, e.to)
    PROVE  Ceiling(state) + 1 <= Ceiling(state')
<1>1. state \in State BY DEF IInv, TypeOK
<1>2. /\ state'.node = e.to /\ state'.completed = state.completed
      /\ state'.count = IF e.to \in RepairNodes THEN state.count + 1 ELSE state.count
  BY TurnFields
<1>3. CASE e.to = "FINALIZE" BY <1>2, <1>3, EndWithin
<1>4. CASE e.to # "FINALIZE"
  <2> DEFINE up == IF e.to \in RepairNodes THEN 1 ELSE 0
  <2>1. up \in Nat /\ 4 * up = IF e.to \in RepairNodes THEN 4 ELSE 0 OBVIOUS
  <2>2. e.to \in Nodes \ {"FINALIZE", "END"} /\ Lead[state.node] + 1 <= Lead[e.to] + 4 * up
    BY <1>4, <2>1 DEF Onward
  <2>3. state.count \in Nat BY <1>1, StateCounted DEF Counted
  <2>4. state'.count = state.count + up BY <1>2, <2>3
  <2>5. state.node \in Nodes \ {"FINALIZE", "END"} BY <1>1 DEF State
  <2> HIDE DEF up
  <2> QED BY <1>2, <2>1, <2>2, <2>4, <2>5, GoesWithin
<1> QED BY <1>3, <1>4

(* A refused result leads to the end of the run. *)
LEMMA RefusedRises ==
    ASSUME IInv, JInv, NEW r, Refused(state, r), ApplyResult(state, r, state'),
           state.node \notin {"MORE_WORK", "FINALIZE", "END"}
    PROVE  Ceiling(state) + 1 <= Ceiling(state')
  BY TurnRises DEF Refused, Refuses, Onward

(* CLOSE_TASK opens what the next item may take. *)
LEMMA CloseTaskRises ==
    ASSUME IInv, JInv, NEW r \in Results(plan, state), ApplyResult(state, r, state'),
           state.node = "CLOSE_TASK"
    PROVE  Ceiling(state) + 1 <= Ceiling(state')
<1> DEFINE u == Patched(state, r.patch)
           n == Len(state.completed)
           c == state.count
<1>1. state \in State /\ plan \in Plans BY DEF IInv, TypeOK
<1>2. state.item # NoItem
  BY DEF IInv, StageInv, Selected, Explored, Packaged, Writing, Working
<1>3. CASE Refused(state, r) BY <1>3, RefusedRises
<1>4. CASE /\ Retains(state, u, {"available"}) /\ Keeps(state, u, {"item", "completed"})
           /\ u.completed = Append(state.completed, state.item) /\ Goes(state, r, "MORE_WORK")
  <2> DEFINE e == Go("succeeded", "MORE_WORK")
  <2>1. Turn(state, r, e) /\ e.to = "MORE_WORK" BY <1>4 DEF Goes, Go, Edge
  <2> HIDE DEF e
  <2>2. u.node = state.node /\ u.status = state.status /\ u.count = state.count
    BY <1>4 DEF Keeps, Retains
  <2>3. /\ state'.node = "MORE_WORK" /\ state'.completed = Append(state.completed, state.item)
        /\ state'.count = state.count
    BY <1>4, <2>1, <2>2, TurnFields DEF RepairNodes
  <2>4. n \in Nat /\ Len(state'.completed) = n + 1
    <3>1. state.completed \in Seq(Items) BY <1>1 DEF State
    <3> QED BY <2>3, <3>1
  <2>5. c \in Nat BY <1>1, StateCounted DEF Counted
  <2>6. Before(n) \in Nat /\ Before(n + 1) = Before(n) + PerItem BY <2>4, BeforeRises
  <2>7. Ceiling(state) = Before(n) + 8 + 4 * c BY DEF Ceiling, Lead
  <2>8. Ceiling(state') = Before(n + 1) + (-1 - 4 * MaxRepair) + 4 * c
    BY <2>3, <2>4 DEF Ceiling, Lead
  <2>9. PerItem = 10 + 4 * MaxRepair /\ 4 * MaxRepair \in Nat BY PolicyAssumption DEF PerItem
  <2> DEFINE b == Before(n)
             k == 4 * c
             m == 4 * MaxRepair
  <2>10. b \in Nat /\ k \in Nat /\ m \in Nat BY <2>5, <2>6, <2>9
  <2> HIDE DEF b, k, m
  <2>11. b + 8 + k + 1 <= b + (10 + m) + (-1 - m) + k BY <2>10
  <2> QED BY <2>6, <2>7, <2>8, <2>9, <2>11 DEF b, k, m
<1> QED BY <1>1, <1>2, <1>3, <1>4, CloseTaskTurns

(* MORE_WORK starts on the next item, or ends the run within what the items may take. *)
LEMMA MoreWorkRises ==
    ASSUME IInv, JInv, NEW r \in Results(plan, state), ApplyResult(state, r, state'),
           state.node = "MORE_WORK"
    PROVE  Ceiling(state) + 1 <= Ceiling(state')
<1> DEFINE n == Len(state.completed)
           c == state.count
           b == Before(n)
           m == 4 * MaxRepair
           k == 4 * c
<1>1. state \in State /\ plan \in Plans BY DEF IInv, TypeOK
<1>2. Patched(state, r.patch) = state BY <1>1, MoreWorkTurns
<1>3. n \in Nat /\ c \in 0 .. MaxRepair /\ MaxRepair \in Nat
  BY <1>1, StateCounted, PolicyAssumption DEF Counted
<1>4. n <= MaxItems BY DEF JInv, OrderInv
<1>5. b \in Nat /\ b <= Before(MaxItems) /\ Before(MaxItems) \in Nat
  BY <1>3, <1>4, BeforeRises, PolicyAssumption
<1>6. m \in Nat /\ k \in Nat /\ k <= m BY <1>3
<1>7. Ceiling(state) = b + (-1 - m) + k BY DEF Ceiling, Lead
<1>8. ASSUME NEW e, Turn(state, r, e)
      PROVE  Follows(state, e, state') /\ FollowsOn(state, e, state')
  BY <1>2, <1>8, TurnFollows
<1>9. ASSUME NEW e, Turn(state, r, e), e.to \in {"FINALIZE", "SELECT_WORK", "DELIVERY_REVIEW"}
      PROVE  Ceiling(state') = CASE e.to = "FINALIZE" -> Before(MaxItems)
                                 [] e.to = "SELECT_WORK" -> b
                                 [] e.to = "DELIVERY_REVIEW" -> b + 1 + k
  <2>1. Follows(state, e, state') /\ FollowsOn(state, e, state') BY <1>8, <1>9
  <2>2. state'.node = e.to /\ state'.completed = state.completed BY <2>1 DEF Follows
  <2>3. CASE e.to = "FINALIZE" BY <2>2, <2>3 DEF Ceiling
  <2>4. CASE e.to = "SELECT_WORK"
    <3>1. state'.count = 0 BY <2>1, <2>4 DEF FollowsOn, Reset
    <3> HIDE DEF b
    <3>2. Ceiling(state') = b + 0 + 4 * 0 BY <2>2, <2>4, <3>1 DEF Ceiling, Lead, b
    <3> QED BY <1>5, <2>4, <3>2
  <2>5. CASE e.to = "DELIVERY_REVIEW"
    <3>1. state'.count = c BY <2>1, <2>5 DEF FollowsOn, Reset, RepairNodes
    <3> QED BY <2>2, <2>5, <3>1 DEF Ceiling, Lead
  <2> QED BY <1>9, <2>3, <2>4, <2>5
<1> HIDE DEF b, k, m
<1>10. /\ b + (-1 - m) + k + 1 <= Before(MaxItems) /\ b + (-1 - m) + k + 1 <= b
       /\ b + (-1 - m) + k + 1 <= b + 1 + k
  BY <1>5, <1>6
<1>11. /\ FinishFirst("limit", "PAUSED").to = "FINALIZE"
       /\ Go("next", "SELECT_WORK").to = "SELECT_WORK"
       /\ Go("empty", "DELIVERY_REVIEW").to = "DELIVERY_REVIEW"
  BY DEF FinishFirst, Go, Edge
<1>12. CASE Turn(state, r, FinishFirst("limit", "PAUSED")) BY <1>7, <1>9, <1>10, <1>11, <1>12
<1>13. CASE Turn(state, r, Go("next", "SELECT_WORK")) BY <1>7, <1>9, <1>10, <1>11, <1>13
<1>14. CASE Turn(state, r, Go("empty", "DELIVERY_REVIEW")) BY <1>7, <1>9, <1>10, <1>11, <1>14
<1> QED BY <1>1, <1>12, <1>13, <1>14, MoreWorkTurns

(* A turn of a node of an item, or of the delivery, whose patch keeps the completed items. *)
LEMMA NodeRises ==
    ASSUME IInv, JInv, NEW r \in Results(plan, state), ApplyResult(state, r, state'),
           state.node \in Nodes \ {"CLOSE_TASK", "MORE_WORK", "FINALIZE", "END"}
    PROVE  Ceiling(state) + 1 <= Ceiling(state')
<1> DEFINE u == Patched(state, r.patch)
           Rises == Ceiling(state) + 1 <= Ceiling(state')
<1> SUFFICES Rises OBVIOUS
<1>1. state \in State /\ plan \in Plans BY DEF IInv, TypeOK
<1>2. Refused(state, r) => Rises BY RefusedRises
<1>3. ASSUME NEW e, Turn(state, r, e), Onward(state.node, e.to), NEW S, Retains(state, u, S),
             NEW K, Keeps(state, u, K), "completed" \notin K
      PROVE  Rises
  <2>1. /\ u.node = state.node /\ u.status = state.status /\ u.count = state.count
        /\ u.completed = state.completed
    BY <1>3 DEF Keeps, Retains
  <2> QED BY <1>3, <2>1, TurnRises
<1>4. ASSUME NEW e, Turn(state, r, e), Onward(state.node, e.to), u = state PROVE Rises
  BY <1>4, TurnRises
<1>5. ASSUME NEW n, NEW c, NEW final, NEW to
      PROVE  /\ Go(c, to).to = to /\ Checkpoint(c, to).to = "HUMAN_CHECKPOINT"
             /\ Finish(c, final).to = "FINALIZE" /\ FinishFirst(c, final).to = "FINALIZE"
             /\ Onward(n, "FINALIZE")
  BY DEF Go, Checkpoint, Finish, FinishFirst, Edge, Onward
<1> HIDE DEF Rises
<1>6. CASE state.node \in {"START", "DISCOVER_PROJECT", "PREFLIGHT"}
  <2>1. Onward(state.node, Go("succeeded", StraightTarget[state.node]).to)
    BY <1>5, <1>6, EdgesLeadOn DEF StraightTarget
  <2> QED BY <1>1, <1>2, <1>4, <1>6, <2>1, OpeningTurns DEF Goes
<1>7. CASE state.node = "SELECT_WORK"
  <2>1. /\ Onward(state.node, Go("found", "EXPLORE").to)
        /\ Onward(state.node, Go("delivery-complete", "DELIVERY_REVIEW").to)
    BY <1>5, <1>7, EdgesLeadOn
  <2> QED BY <1>1, <1>2, <1>3, <1>7, <2>1, SelectWorkTurns
<1>8. CASE state.node \in {"EXPLORE", "BUILD_TASK_PACKAGE", "IMPLEMENT"} \cup RepairNodes
  <2>1. Onward(state.node, Go("succeeded", StraightTarget[state.node]).to)
    BY <1>5, <1>8, EdgesLeadOn DEF StraightTarget, RepairNodes
  <2> QED BY <1>1, <1>2, <1>3, <1>8, <2>1, EvidenceTurns DEF Goes
<1>9. CASE state.node = "ASSESS_RISK"
  <2>1. /\ Onward(state.node, Go("implement", "IMPLEMENT").to)
        /\ Onward(state.node, Checkpoint("critical", "IMPLEMENT").to)
    BY <1>5, <1>9, EdgesLeadOn
  <2> QED BY <1>1, <1>2, <1>3, <1>9, <2>1, AssessRiskTurns
<1>10. CASE state.node = "HUMAN_CHECKPOINT"
  <2>1. /\ state.pending \in {"IMPLEMENT", "CREATE_PR"} =>
             Onward(state.node, Go(state.pending, state.pending).to)
        /\ Onward(state.node, Finish("rejected", "BLOCKED").to)
        /\ Onward(state.node, Finish("decided-cancelled", "CANCELLED").to)
    BY <1>5, <1>10, EdgesLeadOn
  <2> QED BY <1>1, <1>2, <1>4, <1>10, <2>1, HumanCheckpointTurns
<1>11. CASE state.node = "VALIDATE"
  <2>1. /\ Onward(state.node, Go("pass", "REVIEW").to)
        /\ Onward(state.node, Go("reported-fail", "CLASSIFY_FAILURE").to)
    BY <1>5, <1>11, EdgesLeadOn
  <2> QED BY <1>1, <1>2, <1>3, <1>11, <2>1, ValidateTurns
<1>12. CASE state.node = "REVIEW"
  <2>1. /\ Onward(state.node, Go("pass-close", "CLOSE_TASK").to)
        /\ Onward(state.node, Go("fail", "CLASSIFY_FAILURE").to)
    BY <1>5, <1>12, EdgesLeadOn
  <2> QED BY <1>1, <1>2, <1>3, <1>12, <2>1, ReviewTurns
<1>13. CASE state.node = "CLASSIFY_FAILURE"
  <2>1. \A c \in Classifications : Onward(state.node, RepairEdge(c).to)
    BY <1>5, <1>13, EdgesLeadOn DEF RepairEdge, RepairNodes
  <2>2. Onward(state.node, FinishFirst("limit-exhausted", "FAILED").to) BY <1>5
  <2> QED BY <1>1, <1>2, <1>3, <1>4, <1>13, <2>1, <2>2, ClassifyFailureTurns
<1>14. CASE state.node = "DELIVERY_REVIEW"
  <2>1. /\ Onward(state.node, Checkpoint("checkpoint", "CREATE_PR").to)
        /\ Onward(state.node, Finish("failed-verdict", "FAILED").to)
    BY <1>5, <1>14, EdgesLeadOn
  <2> QED BY <1>1, <1>2, <1>3, <1>14, <2>1, DeliveryReviewTurns
<1>15. CASE state.node = "CREATE_PR"
  <2>1. Onward(state.node, Go("succeeded", "FINALIZE").to) BY <1>5
  <2> QED BY <1>1, <1>2, <1>4, <1>15, <2>1, CreatePrTurns
<1> QED
  BY <1>6, <1>7, <1>8, <1>9, <1>10, <1>11, <1>12, <1>13, <1>14, <1>15 DEF Nodes, RepairNodes

(* FINALIZE takes the last transition. *)
LEMMA FinalizeRises ==
    ASSUME IInv, NEW r \in Results(plan, state), ApplyResult(state, r, state'),
           state.node = "FINALIZE"
    PROVE  Ceiling(state) + 1 <= Ceiling(state')
<1>1. state \in State /\ plan \in Plans BY DEF IInv, TypeOK
<1>2. Patched(state, r.patch) = state /\ Turn(state, r, Terminal("end", "KEEP"))
  BY <1>1, FinalizeTurns
<1>3. Terminal("end", "KEEP").to = "END" BY DEF Terminal, Edge
<1>4. state'.node = "END" BY <1>2, <1>3, TurnFollows DEF Follows
<1>5. Before(MaxItems) \in Nat BY BeforeRises, PolicyAssumption
<1> QED BY <1>4, <1>5 DEF Ceiling

(* Every result of a node can be patched into the state. *)
LEMMA ResultTyped ==
    ASSUME IInv, NEW r \in Results(plan, state), state.node \in Nodes \ {"END"}
    PROVE  Patched(state, r.patch) \in State
<1>1. state \in State /\ plan \in Plans BY DEF IInv, TypeOK
<1>2. Refused(state, r) => Patched(state, r.patch) \in State BY DEF Refused, Turn
<1>3. ASSUME NEW e, Turn(state, r, e) PROVE Patched(state, r.patch) \in State
  BY <1>3 DEF Turn
<1>4. CASE state.node \in {"START", "DISCOVER_PROJECT", "PREFLIGHT"}
  BY <1>1, <1>2, <1>3, <1>4, OpeningTurns DEF Goes
<1>5. CASE state.node = "SELECT_WORK" BY <1>1, <1>2, <1>3, <1>5, SelectWorkTurns
<1>6. CASE state.node \in {"EXPLORE", "BUILD_TASK_PACKAGE", "IMPLEMENT"} \cup RepairNodes
  BY <1>1, <1>2, <1>3, <1>6, EvidenceTurns DEF Goes
<1>7. CASE state.node = "ASSESS_RISK" BY <1>1, <1>2, <1>3, <1>7, AssessRiskTurns
<1>8. CASE state.node = "HUMAN_CHECKPOINT" BY <1>1, <1>2, <1>3, <1>8, HumanCheckpointTurns
<1>9. CASE state.node = "VALIDATE" BY <1>1, <1>2, <1>3, <1>9, ValidateTurns
<1>10. CASE state.node = "REVIEW" BY <1>1, <1>2, <1>3, <1>10, ReviewTurns
<1>11. CASE state.node = "CLASSIFY_FAILURE"
  BY <1>1, <1>2, <1>3, <1>11, ClassifyFailureTurns
<1>12. CASE state.node = "CLOSE_TASK"
  <2>1. state.item # NoItem
    BY <1>12 DEF IInv, StageInv, Selected, Explored, Packaged, Writing, Working
  <2> QED BY <1>1, <1>2, <1>3, <1>12, <2>1, CloseTaskTurns DEF Goes
<1>13. CASE state.node = "MORE_WORK" BY <1>1, <1>3, <1>13, MoreWorkTurns
<1>14. CASE state.node = "DELIVERY_REVIEW" BY <1>1, <1>2, <1>3, <1>14, DeliveryReviewTurns
<1>15. CASE state.node = "CREATE_PR" BY <1>1, <1>2, <1>3, <1>15, CreatePrTurns
<1>16. CASE state.node = "FINALIZE" BY <1>1, <1>3, <1>16, FinalizeTurns
<1> QED BY <1>4, <1>5, <1>6, <1>7, <1>8, <1>9, <1>10, <1>11, <1>12, <1>13, <1>14, <1>15, <1>16
        DEF Nodes, RepairNodes

\* No more transitions were taken than lead to where the run is.
StepsInv == state.seq <= Ceiling(state)

(* The ceiling is a number. *)
LEMMA CeilingTyped == ASSUME NEW s \in State PROVE Ceiling(s) \in Int
<1> DEFINE b == Before(Len(s.completed))
           c == s.count
           l == Lead[s.node]
<1>1. c \in Nat /\ Len(s.completed) \in Nat BY StateCounted DEF Counted
<1>2. b \in Nat /\ Before(MaxItems) \in Nat BY <1>1, BeforeRises, PolicyAssumption
<1>3. s.node \notin {"FINALIZE", "END"} => l \in Int BY Leads DEF State
<1>4. s.node \notin {"FINALIZE", "END"} => Ceiling(s) = b + l + 4 * c BY DEF Ceiling
<1> HIDE DEF b, c, l
<1>5. CASE s.node \notin {"FINALIZE", "END"} BY <1>1, <1>2, <1>3, <1>4, <1>5
<1>6. CASE s.node \in {"FINALIZE", "END"} BY <1>2, <1>6 DEF Ceiling
<1> QED BY <1>5, <1>6

(* A step that takes a result raises the number of transitions by one, and what may lead to *)
(* where the run is by at least one.                                                        *)
LEMMA StepRises ==
    ASSUME IInv, JInv, Next, ~Ended
    PROVE  state'.seq = state.seq + 1 /\ Ceiling(state) + 1 <= Ceiling(state')
<1>1. state \in State BY DEF IInv, TypeOK
<1>2. PICK r \in Results(plan, state) :
        ApplyResult(state, r, state') /\ state.node \in Nodes \ {"END"}
  BY StepTakesResult
<1>3. state'.seq = state.seq + 1 BY <1>1, <1>2, ResultTyped, SeqRises
<1>4. Ceiling(state) + 1 <= Ceiling(state')
  BY <1>2, NodeRises, CloseTaskRises, MoreWorkRises, FinalizeRises
<1> QED BY <1>3, <1>4

LEMMA InitSteps == Init => StepsInv
<1> SUFFICES ASSUME Init PROVE StepsInv OBVIOUS
<1>1. state.node = "START" /\ state.seq = 0 /\ state.completed = <<>> /\ state.count = 0
  BY DEF Init, InitialState
<1>2. Before(0) = 3 + 0 * PerItem /\ PerItem \in Nat BY BeforeRises DEF Before
<1>3. Before(0) = 3
  <2> HIDE DEF PerItem
  <2> QED BY <1>2
<1>4. Ceiling(state) = 0 BY <1>1, <1>3 DEF Ceiling, Lead
<1> QED BY <1>1, <1>4 DEF StepsInv

LEMMA NextSteps == ASSUME IInv, IInv', JInv, StepsInv, [Next]_vars PROVE StepsInv'
<1>1. CASE UNCHANGED vars \/ Ended
  <2>1. state' = state BY <1>1 DEF Ended, vars
  <2> QED BY <2>1 DEF StepsInv
<1>2. CASE Next /\ ~Ended
  <2>1. state'.seq = state.seq + 1 /\ Ceiling(state) + 1 <= Ceiling(state')
    BY <1>2, StepRises
  <2>2. state.seq \in Nat BY StateCounted DEF IInv, TypeOK, Counted
  <2>3. Ceiling(state) \in Int /\ Ceiling(state') \in Int
    BY CeilingTyped DEF IInv, TypeOK
  <2> QED BY <2>1, <2>2, <2>3 DEF StepsInv
<1> QED BY <1>1, <1>2

(* The invariant of the transitions, with the two others under it. *)
LEMMA StepsInvariant == Spec => []StepsInv
<1>1. Init => StepsInv BY InitSteps
<1>2. IInv /\ IInv' /\ JInv /\ StepsInv /\ [Next]_vars => StepsInv' BY NextSteps
<1> QED BY <1>1, <1>2, Invariant, OutcomeInvariant, PTL DEF Spec

\* The most transitions of a run: three before the first item, those of every item, and one
\* after FINALIZE.
MostTransitions == 4 + MaxItems * (10 + 4 * MaxRepair)

(* No run is led to more. *)
LEMMA StepsWithin == ASSUME IInv, JInv, StepsInv PROVE state.seq <= MostTransitions
<1> DEFINE n == Len(state.completed)
           c == state.count
           b == Before(n)
           l == Lead[state.node]
<1>1. state \in State /\ c \in 0 .. MaxRepair /\ n \in Nat /\ state.seq \in Nat
  BY StateCounted DEF IInv, TypeOK, Counted
<1>2. MaxItems * PerItem \in Nat /\ Before(MaxItems) = 3 + MaxItems * PerItem
  BY BeforeRises, PolicyAssumption DEF Before
<1>3. MostTransitions = Before(MaxItems) + 1
  <2>1. MostTransitions = 4 + MaxItems * PerItem BY DEF MostTransitions, PerItem
  <2> DEFINE all == MaxItems * PerItem
  <2>2. all \in Nat BY <1>2
  <2> HIDE DEF all
  <2>3. 4 + all = 3 + all + 1 BY <2>2
  <2> QED BY <1>2, <2>1, <2>3 DEF all
<1>4. CASE state.node \in {"FINALIZE", "END"}
  BY <1>1, <1>2, <1>3, <1>4 DEF StepsInv, Ceiling
<1>5. CASE state.node \notin {"FINALIZE", "END"}
  <2>1. n <= MaxItems /\ (state.node # "MORE_WORK" => n < MaxItems) BY <1>5 DEF JInv, OrderInv
  <2>2. /\ b \in Nat /\ b <= Before(MaxItems) /\ Before(MaxItems) \in Nat
        /\ n < MaxItems => b + PerItem <= Before(MaxItems)
    BY <1>1, <2>1, BeforeRises, PolicyAssumption
  <2>3. state.seq <= b + l + 4 * c BY <1>5 DEF StepsInv, Ceiling
  <2>4. /\ l \in Int /\ (state.node # "MORE_WORK" => l <= 8)
        /\ state.node = "MORE_WORK" => l = -1 - 4 * MaxRepair
    <3>1. state.node \in Nodes \ {"FINALIZE", "END"} BY <1>1, <1>5 DEF State
    <3>2. state.node = "MORE_WORK" => l = -1 - 4 * MaxRepair BY DEF Lead
    <3> HIDE DEF l
    <3> QED BY <3>1, <3>2, Leads DEF l
  <2>5. PerItem = 10 + 4 * MaxRepair /\ MaxRepair \in Nat BY PolicyAssumption DEF PerItem
  <2> HIDE DEF n, c, b, l
  <2>6. CASE state.node = "MORE_WORK" BY <1>1, <1>3, <2>2, <2>3, <2>4, <2>5, <2>6
  <2>7. CASE state.node # "MORE_WORK" BY <1>1, <1>3, <2>1, <2>2, <2>3, <2>4, <2>5, <2>7
  <2> QED BY <2>6, <2>7
<1> QED BY <1>4, <1>5

(* Every node that is reached has a result to return. *)
LEMMA NodesAnswer ==
    ASSUME NEW p \in Plans, NEW s \in State, s.node # "END"
    PROVE  Results(p, s) # {}
<1>1. \A results : OfItem(p, s, results) # {} BY DEF OfItem
<1>2. SelectWorkResults(p, s) # {} BY DEF SelectWorkResults
<1>3. HumanCheckpointResults(s) # {} BY DEF HumanCheckpointResults
<1>4. PreflightResults # {} /\ DeliveryReviewResults # {} /\ CreatePrResults # {}
  BY DEF PreflightResults, DeliveryReviewResults, CreatePrResults
<1>5. CASE s.node \in {"START", "DISCOVER_PROJECT", "FINALIZE", "MORE_WORK"}
  BY <1>5, ResultsOf
<1>6. CASE s.node \in {"PREFLIGHT", "SELECT_WORK", "HUMAN_CHECKPOINT", "DELIVERY_REVIEW",
                       "CREATE_PR"}
  BY <1>2, <1>3, <1>4, <1>6, ResultsOf
<1>7. CASE s.node \in {"EXPLORE", "BUILD_TASK_PACKAGE", "ASSESS_RISK", "IMPLEMENT", "VALIDATE",
                       "REVIEW", "CLASSIFY_FAILURE", "CLOSE_TASK"} \cup RepairNodes
  <2>1. \E results : Results(p, s) = OfItem(p, s, results) BY <1>7, ResultsOf
  <2> QED BY <1>1, <2>1
<1> QED BY <1>5, <1>6, <1>7 DEF State, Nodes, RepairNodes

-----------------------------------------------------------------------------
(* A run takes at most MostTransitions transitions, however its nodes answer: the repairs and *)
(* the items are the only cycles of the graph, and both are bounded by the policy.            *)
THEOREM TransitionsAreBounded == Spec => [](state.seq <= MostTransitions)
<1> IInv /\ JInv /\ StepsInv => state.seq <= MostTransitions BY StepsWithin
<1> QED BY Invariant, OutcomeInvariant, StepsInvariant, PTL

(* The runner's own bound, the default max_steps for every item of the limit, never ends a *)
(* run: it is wide enough for twice the repairs the configuration admits.                  *)
THEOREM StepLimitUnreached ==
    ASSUME MaxRepair <= 4
    PROVE  Spec => [](state.seq <= DefaultMaxSteps * MaxItems)
<1>1. MostTransitions <= DefaultMaxSteps * MaxItems
  <2>1. 10 + 4 * MaxRepair \in 0 .. 26 BY PolicyAssumption
  <2>2. MaxItems \in Nat /\ MaxItems >= 1 BY PolicyAssumption
  <2>3. ASSUME NEW k \in 0 .. 26, NEW n \in Nat, n >= 1 PROVE 4 + n * k <= 30 * n
    <3>1. n * k <= n * 26 BY <2>3
    <3>2. n * k \in Nat BY <2>3
    <3>3. 4 + n * 26 <= 30 * n BY <2>3
    <3> QED BY <2>3, <3>1, <3>2, <3>3
  <2> QED BY <2>1, <2>2, <2>3 DEF MostTransitions, DefaultMaxSteps
<1>2. IInv /\ JInv /\ StepsInv => state.seq <= DefaultMaxSteps * MaxItems
  <2> SUFFICES ASSUME IInv, JInv, StepsInv PROVE state.seq <= DefaultMaxSteps * MaxItems
    OBVIOUS
  <2>1. state.seq \in Nat BY StateCounted DEF IInv, TypeOK, Counted
  <2>2. MostTransitions \in Int /\ DefaultMaxSteps * MaxItems \in Int
    BY PolicyAssumption DEF MostTransitions, DefaultMaxSteps
  <2>3. state.seq <= MostTransitions BY StepsWithin
  <2> HIDE DEF MostTransitions, DefaultMaxSteps
  <2> QED BY <1>1, <2>1, <2>2, <2>3
<1> QED BY <1>2, Invariant, OutcomeInvariant, StepsInvariant, PTL

(* Every step of a run counts as one transition, so that no cycle of nodes goes unnumbered. *)
THEOREM EveryStepCounts == Spec => [][state'.seq = state.seq + 1]_vars
<1> IInv /\ JInv /\ [Next]_vars => [state'.seq = state.seq + 1]_vars
  <2> SUFFICES ASSUME IInv, JInv, Next PROVE state'.seq = state.seq + 1 \/ UNCHANGED vars
    OBVIOUS
  <2> QED BY StepRises DEF Ended
<1> QED BY Invariant, OutcomeInvariant, PTL DEF Spec

(* A run that has not ended is never stuck: its node has a result to return, and the engine *)
(* accepts it.                                                                              *)
THEOREM RunsAreNeverStuck ==
    Spec => [](state.node # "END" => \E r \in Results(plan, state) : Accepted(state, r))
<1> IInv /\ JInv => (state.node # "END" => \E r \in Results(plan, state) : Accepted(state, r))
  BY NodesAnswer, ResultAccepted DEF IInv, TypeOK
<1> QED BY Invariant, OutcomeInvariant, PTL
=============================================================================
