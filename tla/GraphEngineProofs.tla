------------------------- MODULE GraphEngineProofs -------------------------
(***************************************************************************)
(* Lemmas about the operators of GraphEngine: patches and transitions stay *)
(* in the type of the state, what each of them leaves alone, and where the *)
(* edges of a node lead.  SMT meets a State as a record of 22 fields: the  *)
(* lemmas keep it to one operation at a time, with field types unexpanded. *)
(***************************************************************************)
EXTENDS GraphEngine, TLAPS

(* The members of the field types that the engine writes. *)
LEMMA FieldTypes ==
    /\ "NONE" \in NodeOrNone /\ "IMPLEMENT" \in NodeOrNone /\ "CREATE_PR" \in NodeOrNone
    /\ Nodes \subseteq NodeOrNone
    /\ NoItem \in ItemOrNone /\ Items \subseteq ItemOrNone
    /\ "NONE" \in RiskOrNone /\ RiskLevels \subseteq RiskOrNone
    /\ "NONE" \in ClassOrNone /\ Classifications \subseteq ClassOrNone
    /\ "NONE" \in FailureOrNone /\ FailureCategories \subseteq FailureOrNone
    /\ "NONE" \in Routes /\ \A risk : RouteOf(risk) \in Routes
    /\ 0 \in RepairCounts /\ \A n \in RepairCounts : n < MaxRepair => n + 1 \in RepairCounts
    /\ Verdicts = {"UNKNOWN", "PASS", "FAIL"}
    /\ <<>> \in Seq(RepairRecords)
  BY PolicyAssumption
     DEF NodeOrNone, Nodes, ItemOrNone, RiskOrNone, RiskLevels, ClassOrNone, Classifications,
         FailureOrNone,
         Routes, RouteOf, RepairCounts, Verdicts

-----------------------------------------------------------------------------
\* u is s but for the touched fields, of those the invariants speak of.
Keeps(s, u, touched) ==
    /\ u.node = s.node /\ u.pending = s.pending /\ u.locked = s.locked
    /\ "item" \notin touched => u.item = s.item
    /\ "completed" \notin touched => u.completed = s.completed
    /\ "explored" \notin touched => u.explored = s.explored
    /\ "package" \notin touched => u.package = s.package
    /\ "changes" \notin touched => u.changes = s.changes
    /\ "risk" \notin touched => u.risk = s.risk

(* StatePatchApplier.apply, one lemma per set of paths a node patches. *)
LEMMA EmptyPatch ==
    ASSUME NEW s \in State
    PROVE  LET u == Patched(s, NoPatch) IN u \in State /\ Keeps(s, u, {})
  BY DEF Patched, NoPatch, State, Keeps

LEMMA SelectPatch ==
    ASSUME NEW s \in State, NEW i \in ItemOrNone, NEW left \in SUBSET Items
    PROVE  LET u == Patched(s, [item |-> i, available |-> left])
           IN  u \in State /\ Keeps(s, u, {"item"}) /\ u.item = i
  BY DEF Patched, State, Keeps

LEMMA ClosePatch ==
    ASSUME NEW s \in State, NEW i \in ItemOrNone, NEW done \in Seq(Items), NEW left \in SUBSET Items
    PROVE  LET u == Patched(s, [item |-> i, completed |-> done, available |-> left])
           IN  u \in State /\ Keeps(s, u, {"item", "completed"}) /\ u.item = i /\ u.completed = done
  BY DEF Patched, State, Keeps

LEMMA ExploredPatch ==
    ASSUME NEW s \in State, NEW i \in ItemOrNone
    PROVE  LET u == Patched(s, [explored |-> i])
           IN  u \in State /\ Keeps(s, u, {"explored"}) /\ u.explored = i
  BY DEF Patched, State, Keeps

LEMMA PackagePatch ==
    ASSUME NEW s \in State, NEW i \in ItemOrNone
    PROVE  LET u == Patched(s, [package |-> i])
           IN  u \in State /\ Keeps(s, u, {"package"}) /\ u.package = i
  BY DEF Patched, State, Keeps

LEMMA ChangesPatch ==
    ASSUME NEW s \in State, NEW i \in ItemOrNone
    PROVE  LET u == Patched(s, [changes |-> i])
           IN  u \in State /\ Keeps(s, u, {"changes"}) /\ u.changes = i
  BY DEF Patched, State, Keeps

LEMMA RiskPatch ==
    ASSUME NEW s \in State, NEW level \in RiskOrNone
    PROVE  LET u == Patched(s, [risk |-> level])
           IN  u \in State /\ Keeps(s, u, {"risk"}) /\ u.risk = level
  BY DEF Patched, State, Keeps

LEMMA ValidationPatch ==
    ASSUME NEW s \in State, NEW v \in Verdicts, NEW f \in FailureOrNone
    PROVE  LET u == Patched(s, [validation |-> v, failure |-> f])
           IN  u \in State /\ Keeps(s, u, {}) /\ u.validation = v
  BY DEF Patched, State, Keeps

LEMMA ReviewPatch ==
    ASSUME NEW s \in State, NEW v \in Verdicts, NEW safe \in BOOLEAN, NEW f \in FailureOrNone
    PROVE  LET u == Patched(s, [review |-> v, safeClose |-> safe, failure |-> f])
           IN  u \in State /\ Keeps(s, u, {}) /\ u.review = v
  BY DEF Patched, State, Keeps

LEMMA DeliveryPatch ==
    ASSUME NEW s \in State, NEW v \in Verdicts, NEW safe \in BOOLEAN
    PROVE  LET u == Patched(s, [review |-> v, safePr |-> safe])
           IN  u \in State /\ Keeps(s, u, {}) /\ u.review = v
  BY DEF Patched, State, Keeps

LEMMA ClassPatch ==
    ASSUME NEW s \in State, NEW c \in ClassOrNone, NEW h \in Seq(RepairRecords)
    PROVE  LET u == Patched(s, [class |-> c, history |-> h])
           IN  u \in State /\ Keeps(s, u, {})
  BY DEF Patched, State, Keeps

-----------------------------------------------------------------------------
\* What the engine may do with an edge.
EdgeOk(e) ==
    /\ e.to \in Nodes
    /\ e.final \in RunStatuses \cup {"KEEP"}
    /\ e.resume \in {"NONE", "IMPLEMENT", "CREATE_PR"}
    /\ e.resume # "NONE" <=> e.to = "HUMAN_CHECKPOINT"

(* The edges of a result that is no success end the item's path or have it *)
(* classified.                                                             *)
LEMMA FailureEdges ==
    ASSUME NEW r
    PROVE  /\ \A e \in CommonFailures(r) : e.to = "FINALIZE" /\ EdgeOk(e) /\ ~Succeeded(r)
           /\ \A e \in CancelledOrBlocked(r) : e.to = "FINALIZE" /\ EdgeOk(e) /\ ~Succeeded(r)
           /\ \A e \in JudgementFailures(r) :
                 e.to \in {"FINALIZE", "CLASSIFY_FAILURE"} /\ EdgeOk(e) /\ ~Succeeded(r)
<1> USE DEF When, Edge, Go, Finish, EdgeOk, Nodes, RunStatuses, Succeeded, Stopped, FailedIn
<1>1. \A e \in CancelledOrBlocked(r) : e.to = "FINALIZE" /\ EdgeOk(e) /\ ~Succeeded(r)
  BY DEF CancelledOrBlocked
<1>2. \A e \in CommonFailures(r) : e.to = "FINALIZE" /\ EdgeOk(e) /\ ~Succeeded(r)
  BY <1>1 DEF CommonFailures
<1>3. \A e \in JudgementFailures(r) :
        e.to \in {"FINALIZE", "CLASSIFY_FAILURE"} /\ EdgeOk(e) /\ ~Succeeded(r)
  BY <1>1 DEF JudgementFailures
<1> QED BY <1>1, <1>2, <1>3

(* A node with one way on. *)
LEMMA StraightEdges ==
    ASSUME NEW s, NEW r, s.node \in DOMAIN StraightTarget, NEW e \in Outgoing(s, r)
    PROVE  /\ EdgeOk(e)
           /\ e.to = "FINALIZE" \/ (Succeeded(r) /\ e.to = StraightTarget[s.node])
<1>1. e \in Straight(r, StraightTarget[s.node]) BY DEF Outgoing, StraightTarget
<1>2. StraightTarget[s.node] \in Nodes \ {"HUMAN_CHECKPOINT"} BY DEF StraightTarget, Nodes
<1>3. e \in CommonFailures(r) \/ (Succeeded(r) /\ e = Go("succeeded", StraightTarget[s.node]))
  BY <1>1 DEF Straight, When
<1> QED BY <1>2, <1>3, FailureEdges DEF EdgeOk, Go, Edge

(* To EXPLORE with an item, to DELIVERY_REVIEW with something delivered. *)
LEMMA SelectWorkLeads ==
    ASSUME NEW s, NEW r, s.node = "SELECT_WORK", NEW e \in Outgoing(s, r)
    PROVE  /\ EdgeOk(e)
           /\ \/ e.to = "FINALIZE"
              \/ e.to = "EXPLORE" /\ s.item # NoItem
              \/ e.to = "DELIVERY_REVIEW" /\ s.completed # <<>>
<1>1. e \in SelectWorkEdges(s, r) BY DEF Outgoing, StraightTarget
<1>2. \/ e \in CommonFailures(r)
      \/ e = Finish("noop", "COMPLETED")
      \/ e = Go("found", "EXPLORE") /\ s.item # NoItem
      \/ e = Go("delivery-complete", "DELIVERY_REVIEW") /\ s.completed # <<>>
  BY <1>1 DEF SelectWorkEdges, When
<1> QED BY <1>2, FailureEdges
        DEF EdgeOk, Go, Checkpoint, Finish, FinishFirst, Terminal, Edge, Nodes, RunStatuses

(* Critical risk leads to the checkpoint. *)
LEMMA AssessRiskLeads ==
    ASSUME NEW s, NEW r, s.node = "ASSESS_RISK", NEW e \in Outgoing(s, r)
    PROVE  /\ EdgeOk(e)
           /\ \/ e.to = "FINALIZE"
              \/ e.to = "IMPLEMENT" /\ s.risk # "CRITICAL"
              \/ e.to = "HUMAN_CHECKPOINT" /\ e.resume = "IMPLEMENT"
<1>1. e \in AssessRiskEdges(s, r) BY DEF Outgoing, StraightTarget
<1>2. \/ e \in CommonFailures(r)
      \/ e = Go("implement", "IMPLEMENT") /\ s.risk # "CRITICAL"
      \/ e = Checkpoint("critical", "IMPLEMENT")
  BY <1>1 DEF AssessRiskEdges, When
<1> QED BY <1>2, FailureEdges
        DEF EdgeOk, Go, Checkpoint, Finish, FinishFirst, Terminal, Edge, Nodes, RunStatuses

(* Past the checkpoint only with approval, and to where it was pending. *)
LEMMA HumanCheckpointLeads ==
    ASSUME NEW s, NEW r, s.node = "HUMAN_CHECKPOINT", NEW e \in Outgoing(s, r)
    PROVE  /\ EdgeOk(e)
           /\ \/ e.to = "FINALIZE"
              \/ e.to \in {"IMPLEMENT", "CREATE_PR"} /\ s.pending = e.to /\ r.outcome = "APPROVED"
<1>1. e \in HumanCheckpointEdges(s, r) BY DEF Outgoing, StraightTarget
<1>2. \/ e \in CommonFailures(r)
      \/ e = Go("IMPLEMENT", "IMPLEMENT") /\ r.outcome = "APPROVED" /\ s.pending = "IMPLEMENT"
      \/ e = Go("CREATE_PR", "CREATE_PR") /\ r.outcome = "APPROVED" /\ s.pending = "CREATE_PR"
      \/ e = Finish("rejected", "BLOCKED")
      \/ e = Finish("decided-cancelled", "CANCELLED")
  BY <1>1 DEF HumanCheckpointEdges, When
<1> QED BY <1>2, FailureEdges
        DEF EdgeOk, Go, Checkpoint, Finish, FinishFirst, Terminal, Edge, Nodes, RunStatuses

(* To REVIEW only with a validation that passed. *)
LEMMA ValidateLeads ==
    ASSUME NEW s, NEW r, s.node = "VALIDATE", NEW e \in Outgoing(s, r)
    PROVE  /\ EdgeOk(e)
           /\ \/ e.to \in {"FINALIZE", "CLASSIFY_FAILURE"}
              \/ e.to = "REVIEW" /\ Succeeded(r) /\ s.validation = "PASS"
<1>1. e \in ValidateEdges(s, r) BY DEF Outgoing, StraightTarget
<1>2. \/ e \in JudgementFailures(r)
      \/ e = Go("pass", "REVIEW") /\ Succeeded(r) /\ s.validation = "PASS"
      \/ e = Go("reported-fail", "CLASSIFY_FAILURE")
  BY <1>1 DEF ValidateEdges, When
<1> QED BY <1>2, FailureEdges
        DEF EdgeOk, Go, Checkpoint, Finish, FinishFirst, Terminal, Edge, Nodes, RunStatuses

(* To CLOSE_TASK only with a review that passed. *)
LEMMA ReviewLeads ==
    ASSUME NEW s, NEW r, s.node = "REVIEW", NEW e \in Outgoing(s, r)
    PROVE  /\ EdgeOk(e)
           /\ \/ e.to \in {"FINALIZE", "CLASSIFY_FAILURE"}
              \/ e.to = "CLOSE_TASK" /\ Succeeded(r) /\ s.review = "PASS"
<1>1. e \in ReviewEdges(s, r) BY DEF Outgoing, StraightTarget
<1>2. \/ e \in JudgementFailures(r)
      \/ e = Go("pass-close", "CLOSE_TASK") /\ Succeeded(r) /\ s.review = "PASS"
      \/ e = Go("fail", "CLASSIFY_FAILURE")
      \/ e = Finish("unsafe", "FAILED")
  BY <1>1 DEF ReviewEdges, When
<1> QED BY <1>2, FailureEdges
        DEF EdgeOk, Go, Checkpoint, Finish, FinishFirst, Terminal, Edge, Nodes, RunStatuses

(* To a repair or out. *)
LEMMA ClassifyFailureLeads ==
    ASSUME NEW s, NEW r, s.node = "CLASSIFY_FAILURE", NEW e \in Outgoing(s, r)
    PROVE  /\ EdgeOk(e)
           /\ e.to \in {"FINALIZE", "PROGRAMMER_REPAIR", "DEBUGGER"}
<1>1. e \in ClassifyFailureEdges(s, r) BY DEF Outgoing, StraightTarget
<1>2. \/ e \in CommonFailures(r)
      \/ e = Go("programmer", "PROGRAMMER_REPAIR")
      \/ e = Go("debugger", "DEBUGGER")
      \/ e = FinishFirst("limit-exhausted", "FAILED")
  BY <1>1 DEF ClassifyFailureEdges, When
<1> QED BY <1>2, FailureEdges
        DEF EdgeOk, Go, Checkpoint, Finish, FinishFirst, Terminal, Edge, Nodes, RunStatuses

(* To the next item, to the delivery review or out. *)
LEMMA MoreWorkLeads ==
    ASSUME NEW s, NEW r, s.node = "MORE_WORK", NEW e \in Outgoing(s, r)
    PROVE  /\ EdgeOk(e)
           /\ e.to \in {"FINALIZE", "SELECT_WORK", "DELIVERY_REVIEW"}
<1>1. e \in MoreWorkEdges(s, r) BY DEF Outgoing, StraightTarget
<1>2. \/ e \in CommonFailures(r)
      \/ e = FinishFirst("limit", "PAUSED")
      \/ e = Go("next", "SELECT_WORK")
      \/ e = Go("empty", "DELIVERY_REVIEW")
  BY <1>1 DEF MoreWorkEdges, When
<1> QED BY <1>2, FailureEdges
        DEF EdgeOk, Go, Checkpoint, Finish, FinishFirst, Terminal, Edge, Nodes, RunStatuses

(* To the publish checkpoint only with a delivery that passed. *)
LEMMA DeliveryReviewLeads ==
    ASSUME NEW s, NEW r, s.node = "DELIVERY_REVIEW", NEW e \in Outgoing(s, r)
    PROVE  /\ EdgeOk(e)
           /\ \/ e.to = "FINALIZE"
              \/ e.to = "HUMAN_CHECKPOINT" /\ e.resume = "CREATE_PR"
                 /\ Succeeded(r) /\ s.review = "PASS"
<1>1. e \in DeliveryReviewEdges(s, r) BY DEF Outgoing, StraightTarget
<1>2. \/ e \in CommonFailures(r)
      \/ e = Checkpoint("checkpoint", "CREATE_PR") /\ Succeeded(r) /\ s.review = "PASS"
      \/ e = Finish("failed-verdict", "FAILED")
      \/ e = Finish("unsafe", "FAILED")
  BY <1>1 DEF DeliveryReviewEdges, When
<1> QED BY <1>2, FailureEdges
        DEF EdgeOk, Go, Checkpoint, Finish, FinishFirst, Terminal, Edge, Nodes, RunStatuses

(* Out, whatever the remote said. *)
LEMMA CreatePrLeads ==
    ASSUME NEW s, NEW r, s.node = "CREATE_PR", NEW e \in Outgoing(s, r)
    PROVE  /\ EdgeOk(e)
           /\ e.to = "FINALIZE"
<1>1. e \in CreatePrEdges(r) BY DEF Outgoing, StraightTarget
<1>2. \/ e \in CancelledOrBlocked(r)
      \/ e = Go("succeeded", "FINALIZE")
      \/ e = Finish("operational-failure", "BLOCKED")
      \/ e = Finish("terminal-failure", "FAILED")
      \/ e = Finish("timeout", "BLOCKED")
  BY <1>1 DEF CreatePrEdges, When
<1> QED BY <1>2, FailureEdges
        DEF EdgeOk, Go, Checkpoint, Finish, FinishFirst, Terminal, Edge, Nodes, RunStatuses

(* To the end. *)
LEMMA FinalizeLeads ==
    ASSUME NEW s, NEW r, s.node = "FINALIZE", NEW e \in Outgoing(s, r)
    PROVE  /\ EdgeOk(e)
           /\ e.to = "END"
<1>1. e \in FinalizeEdges(r) BY DEF Outgoing, StraightTarget
<1>2. \/ e = Terminal("end", "KEEP")
      \/ e = Terminal("failed-end", "FAILED")
      \/ e = Terminal("cancelled-end", "CANCELLED")
      \/ e = Terminal("blocked-end", "BLOCKED")
  BY <1>1 DEF FinalizeEdges, When
<1> QED BY <1>2, FailureEdges
        DEF EdgeOk, Go, Checkpoint, Finish, FinishFirst, Terminal, Edge, Nodes, RunStatuses

(* Every edge of the graph is one the engine can follow. *)
LEMMA EveryEdgeOk == ASSUME NEW s, NEW r, NEW e \in Outgoing(s, r) PROVE EdgeOk(e)
<1>1. \/ s.node \in DOMAIN StraightTarget
      \/ s.node \in {"SELECT_WORK", "ASSESS_RISK", "HUMAN_CHECKPOINT", "VALIDATE", "REVIEW",
                     "CLASSIFY_FAILURE", "MORE_WORK", "DELIVERY_REVIEW", "CREATE_PR", "FINALIZE"}
  BY DEF Outgoing
<1> QED BY <1>1, StraightEdges, SelectWorkLeads, AssessRiskLeads, HumanCheckpointLeads,
           ValidateLeads, ReviewLeads, ClassifyFailureLeads, MoreWorkLeads,
           DeliveryReviewLeads, CreatePrLeads, FinalizeLeads

-----------------------------------------------------------------------------
(* The parts of _execute_transition stay in the type of the state: in        *)
(* particular a repair is entered only below the limit.                      *)
LEMMA ReviewResetTyped == ASSUME NEW u \in State PROVE ResetReview(u) \in State
  BY FieldTypes DEF ResetReview, State

LEMMA RepairResetTyped == ASSUME NEW u \in State PROVE ResetRepair(u) \in State
  BY FieldTypes DEF ResetRepair, State

LEMMA TaskResetTyped == ASSUME NEW u \in State PROVE ResetTask(u) \in State
  BY FieldTypes DEF ResetTask, State

LEMMA PreparedTyped ==
    ASSUME NEW u \in State, NEW e PROVE Prepared(u, e) \in State
  BY ReviewResetTyped, RepairResetTyped, TaskResetTyped DEF Prepared, ResetItem

LEMMA EnteredTyped ==
    ASSUME NEW w \in State, NEW e, Executable(w, e)
    PROVE  Entered(w, e) \in State
<1>1. (IF e.to \in RepairNodes THEN w.count + 1 ELSE w.count) \in RepairCounts
  BY FieldTypes DEF Executable, State
<1>2. (IF e.to = "IMPLEMENT" THEN RouteOf(w.risk) ELSE w.route) \in Routes
  BY FieldTypes DEF State
<1>3. (IF e.to = "IMPLEMENT" THEN TRUE ELSE w.locked) \in BOOLEAN BY DEF State
<1>4. ASSUME NEW c \in RepairCounts, NEW r \in Routes, NEW l \in BOOLEAN
      PROVE  [w EXCEPT !.count = c, !.route = r, !.locked = l] \in State
  BY DEF State
<1> QED BY <1>1, <1>2, <1>3, <1>4 DEF Entered

LEMMA MovedTyped ==
    ASSUME NEW w \in State, NEW e, EdgeOk(e), Executable(w, e)
    PROVE  Moved(w, e) \in State
<1> DEFINE v == Entered(w, e)
<1>1. PendingAfter(w, e) \in NodeOrNone
  BY FieldTypes DEF PendingAfter, EdgeOk, State
<1>2. StatusAfter(w, e) \in RunStatuses
  BY DEF StatusAfter, EdgeOk, State, RunStatuses
<1>3. v \in State BY EnteredTyped
<1>4. e.to \in Nodes /\ w.node \in NodeOrNone BY FieldTypes DEF State, EdgeOk
<1> HIDE DEF v
<1>5. v.seq + 1 \in Nat BY <1>3 DEF State
<1>6. ASSUME NEW p \in NodeOrNone, NEW t \in RunStatuses, NEW n \in Nodes, NEW m \in NodeOrNone
      PROVE  [v EXCEPT !.node = n, !.prev = m, !.seq = @ + 1, !.pending = p, !.status = t] \in State
  BY <1>3, <1>5 DEF State
<1> QED BY <1>1, <1>2, <1>4, <1>6 DEF Moved, v

-----------------------------------------------------------------------------
\* The engine erases an item's state on the way to the next item.
Reset(u, e) == u.node = "MORE_WORK" /\ e.to = "SELECT_WORK"

\* t follows from the patched state u along e, as far as the invariants go.
Follows(u, e, t) ==
    /\ t.node = e.to
    /\ t.pending = PendingAfter(u, e)
    /\ t.item = u.item
    /\ t.completed = u.completed
    /\ t.locked = (e.to = "IMPLEMENT" \/ (~Reset(u, e) /\ u.locked))
    /\ ~Reset(u, e) => /\ t.explored = u.explored
                       /\ t.package = u.package
                       /\ t.changes = u.changes
                       /\ t.risk = u.risk

(* What the preparations of a transition leave alone. *)
LEMMA PreparedFields ==
    ASSUME NEW u \in State, NEW e
    PROVE  LET w == Prepared(u, e)
           IN  /\ w.node = u.node /\ w.pending = u.pending /\ w.item = u.item
               /\ w.completed = u.completed
               /\ w.locked = (~Reset(u, e) /\ u.locked)
               /\ ~Reset(u, e) => /\ w.explored = u.explored
                                  /\ w.package = u.package
                                  /\ w.changes = u.changes
                                  /\ w.risk = u.risk
<1>1. CASE Reset(u, e)
  <2> DEFINE a == ResetRepair(u)
             b == ResetReview(a)
  <2>1. /\ a \in State /\ a.node = u.node /\ a.pending = u.pending /\ a.item = u.item
        /\ a.completed = u.completed
    BY RepairResetTyped DEF ResetRepair, State
  <2> HIDE DEF a
  <2>2. /\ b \in State /\ b.node = u.node /\ b.pending = u.pending /\ b.item = u.item
        /\ b.completed = u.completed
    BY <2>1, ReviewResetTyped DEF ResetReview, State
  <2> HIDE DEF b
  <2>3. LET w == ResetTask(b) IN
        /\ w.node = u.node /\ w.pending = u.pending /\ w.item = u.item
        /\ w.completed = u.completed /\ w.locked = FALSE
    BY <2>2 DEF ResetTask, State
  <2> QED BY <1>1, <2>3 DEF Prepared, ResetItem, Reset, a, b
<1>2. CASE ~Reset(u, e) 
  BY <1>2 DEF Prepared, ResetReview, State, Reset
<1> QED BY <1>1, <1>2

(* What a transition leaves alone. *)
LEMMA MovedFields ==
    ASSUME NEW w \in State, NEW e, Executable(w, e)
    PROVE  LET t == Moved(w, e)
           IN  /\ t.node = e.to
               /\ t.pending = PendingAfter(w, e)
               /\ t.item = w.item
               /\ t.completed = w.completed
               /\ t.locked = (e.to = "IMPLEMENT" \/ w.locked)
               /\ t.explored = w.explored
               /\ t.package = w.package
               /\ t.changes = w.changes
               /\ t.risk = w.risk
<1> DEFINE v == Entered(w, e)
<1>1. v \in State BY EnteredTyped
<1>2. /\ v.item = w.item /\ v.completed = w.completed
      /\ v.locked = (e.to = "IMPLEMENT" \/ w.locked)
      /\ v.explored = w.explored /\ v.package = w.package /\ v.changes = w.changes
      /\ v.risk = w.risk
  BY DEF Entered, State
<1> HIDE DEF v
<1>3. LET t == [v EXCEPT !.node = e.to, !.prev = w.node, !.seq = @ + 1,
                         !.pending = PendingAfter(w, e), !.status = StatusAfter(w, e)]
      IN  /\ t.node = e.to
          /\ t.pending = PendingAfter(w, e)
          /\ t.item = v.item
          /\ t.completed = v.completed
          /\ t.locked = v.locked
          /\ t.explored = v.explored
          /\ t.package = v.package
          /\ t.changes = v.changes
          /\ t.risk = v.risk
  BY <1>1 DEF State
<1> QED BY <1>2, <1>3 DEF Moved, v

(* One transition from a patched state. *)
LEMMA ExecuteFollows ==
    ASSUME NEW u \in State, NEW e, EdgeOk(e), Executable(Prepared(u, e), e)
    PROVE  Execute(u, e) \in State /\ Follows(u, e, Execute(u, e))
<1> DEFINE w == Prepared(u, e)
<1>1. w \in State /\ Executable(w, e) BY PreparedTyped
<1>2. /\ w.node = u.node /\ w.pending = u.pending /\ w.item = u.item
      /\ w.completed = u.completed
      /\ w.locked = (~Reset(u, e) /\ u.locked)
      /\ ~Reset(u, e) => /\ w.explored = u.explored
                         /\ w.package = u.package
                         /\ w.changes = u.changes
                         /\ w.risk = u.risk
  BY PreparedFields
<1> HIDE DEF w
<1>3. PendingAfter(w, e) = PendingAfter(u, e) BY <1>2 DEF PendingAfter
<1>4. Moved(w, e) \in State BY <1>1, MovedTyped
<1>5. Follows(u, e, Moved(w, e))
  <2> DEFINE t == Moved(w, e)
  <2>1. /\ t.node = e.to /\ t.pending = PendingAfter(w, e) /\ t.item = w.item
        /\ t.completed = w.completed /\ t.locked = (e.to = "IMPLEMENT" \/ w.locked)
        /\ t.explored = w.explored /\ t.package = w.package /\ t.changes = w.changes
        /\ t.risk = w.risk
    BY <1>1, MovedFields
  <2> HIDE DEF t
  <2>2. Follows(u, e, t)
    BY <1>2, <1>3, <2>1 DEF Follows
  <2> QED BY <2>2 DEF t
<1>6. Execute(u, e) = Moved(w, e) BY DEF Execute, w
<1> QED BY <1>4, <1>5, <1>6 DEF Follows

(* GraphEngine.apply_result: the state after a result that was accepted. *)
LEMMA ApplyFollows ==
    ASSUME NEW s, NEW r, NEW t, Patched(s, r.patch) \in State, ApplyResult(s, r, t)
    PROVE  LET u == Patched(s, r.patch)
           IN  t \in State /\ \E e \in Outgoing(u, r) : Follows(u, e, t)
<1> DEFINE u == Patched(s, r.patch)
<1>1. PICK e \in Winners(u, r) : Executable(Prepared(u, e), e) /\ t = Execute(u, e)
  BY DEF ApplyResult
<1>2. e \in Outgoing(u, r) BY DEF Winners
<1>3. EdgeOk(e) BY <1>2, EveryEdgeOk
<1> QED BY <1>1, <1>2, <1>3, ExecuteFollows

-----------------------------------------------------------------------------
\* u is s but for the touched fields, of those the verdicts and the ledger are made of.
Retains(s, u, touched) ==
    /\ u.prev = s.prev /\ u.status = s.status /\ u.count = s.count
    /\ "available" \notin touched => u.available = s.available
    /\ "validation" \notin touched => u.validation = s.validation /\ u.failure = s.failure
    /\ "review" \notin touched => u.review = s.review
    /\ "history" \notin touched => u.history = s.history

(* A result that patches nothing leaves the state as it is. *)
LEMMA NothingPatched == ASSUME NEW s \in State PROVE Patched(s, NoPatch) = s
  BY DEF Patched, NoPatch, State

(* What a patch of an item's own evidence leaves to the verdicts and the ledger. *)
LEMMA ItemPatchRetains ==
    ASSUME NEW s \in State, NEW v
    PROVE  /\ Retains(s, Patched(s, [explored |-> v]), {})
           /\ Retains(s, Patched(s, [package |-> v]), {})
           /\ Retains(s, Patched(s, [changes |-> v]), {})
           /\ Retains(s, Patched(s, [risk |-> v]), {})
  BY DEF Patched, State, Retains

(* SELECT_WORK replaces the items that are left. *)
LEMMA SelectPatchRetains ==
    ASSUME NEW s \in State, NEW i, NEW left
    PROVE  LET u == Patched(s, [item |-> i, available |-> left])
           IN  Retains(s, u, {"available"}) /\ u.available = left
  BY DEF Patched, State, Retains

(* CLOSE_TASK replaces the items that are left. *)
LEMMA ClosePatchRetains ==
    ASSUME NEW s \in State, NEW i, NEW done, NEW left
    PROVE  LET u == Patched(s, [item |-> i, completed |-> done, available |-> left])
           IN  Retains(s, u, {"available"}) /\ u.available = left
  BY DEF Patched, State, Retains

(* VALIDATE replaces its verdict. *)
LEMMA ValidationPatchRetains ==
    ASSUME NEW s \in State, NEW v, NEW f
    PROVE  LET u == Patched(s, [validation |-> v, failure |-> f])
           IN  Retains(s, u, {"validation"}) /\ u.validation = v /\ u.failure = f
  BY DEF Patched, State, Retains

(* REVIEW replaces its verdict, and the failure that VALIDATE had left. *)
LEMMA ReviewPatchRetains ==
    ASSUME NEW s \in State, NEW v, NEW safe, NEW f
    PROVE  LET u == Patched(s, [review |-> v, safeClose |-> safe, failure |-> f])
           IN  /\ Retains(s, u, {"review", "validation"})
               /\ u.review = v /\ u.safeClose = safe /\ u.validation = s.validation
  BY DEF Patched, State, Retains

(* DELIVERY_REVIEW replaces the verdict of the review. *)
LEMMA DeliveryPatchRetains ==
    ASSUME NEW s \in State, NEW v, NEW safe
    PROVE  LET u == Patched(s, [review |-> v, safePr |-> safe])
           IN  Retains(s, u, {"review"}) /\ u.review = v /\ u.safePr = safe
  BY DEF Patched, State, Retains

(* CLASSIFY_FAILURE replaces the ledger. *)
LEMMA ClassPatchRetains ==
    ASSUME NEW s \in State, NEW c, NEW h
    PROVE  LET u == Patched(s, [class |-> c, history |-> h])
           IN  Retains(s, u, {"history"}) /\ u.class = c /\ u.history = h
  BY DEF Patched, State, Retains

-----------------------------------------------------------------------------
\* What else follows from the patched state u along e.
FollowsOn(u, e, t) ==
    /\ t.prev = u.node
    /\ t.status = StatusAfter(u, e)
    /\ t.available = u.available
    /\ t.count = IF Reset(u, e) THEN 0 ELSE IF e.to \in RepairNodes THEN u.count + 1 ELSE u.count
    /\ t.history = IF Reset(u, e) THEN <<>> ELSE u.history
    /\ ~Reset(u, e) => t.validation = u.validation /\ t.failure = u.failure
    /\ ~Reset(u, e) /\ e.to # "DELIVERY_REVIEW" => t.review = u.review

(* What the preparations of a transition do to the verdicts and the ledger. *)
LEMMA PreparedOn ==
    ASSUME NEW u \in State, NEW e
    PROVE  LET w == Prepared(u, e)
           IN  /\ w.node = u.node /\ w.status = u.status /\ w.available = u.available
               /\ w.count = (IF Reset(u, e) THEN 0 ELSE u.count)
               /\ w.history = (IF Reset(u, e) THEN <<>> ELSE u.history)
               /\ ~Reset(u, e) => w.validation = u.validation /\ w.failure = u.failure
               /\ ~Reset(u, e) /\ e.to # "DELIVERY_REVIEW" => w.review = u.review
<1>1. CASE Reset(u, e)
  <2> DEFINE a == ResetRepair(u)
             b == ResetReview(a)
  <2>1. /\ a \in State /\ a.node = u.node /\ a.status = u.status /\ a.available = u.available
        /\ a.count = 0 /\ a.history = <<>>
    BY RepairResetTyped DEF ResetRepair, State
  <2> HIDE DEF a
  <2>2. /\ b \in State /\ b.node = u.node /\ b.status = u.status /\ b.available = u.available
        /\ b.count = 0 /\ b.history = <<>>
    BY <2>1, ReviewResetTyped DEF ResetReview, State
  <2> HIDE DEF b
  <2>3. LET w == ResetTask(b) IN
        /\ w.node = u.node /\ w.status = u.status /\ w.available = u.available
        /\ w.count = 0 /\ w.history = <<>>
    BY <2>2 DEF ResetTask, State
  <2> QED BY <1>1, <2>3 DEF Prepared, ResetItem, Reset, a, b
<1>2. CASE ~Reset(u, e) /\ e.to = "DELIVERY_REVIEW"
  BY <1>2 DEF Prepared, ResetReview, State, Reset
<1>3. CASE ~Reset(u, e) /\ e.to # "DELIVERY_REVIEW"
  BY <1>3 DEF Prepared, Reset
<1> QED BY <1>1, <1>2, <1>3

(* What a transition does to the verdicts and the ledger. *)
LEMMA MovedOn ==
    ASSUME NEW w \in State, NEW e, Executable(w, e)
    PROVE  LET t == Moved(w, e)
           IN  /\ t.prev = w.node /\ t.status = StatusAfter(w, e)
               /\ t.available = w.available
               /\ t.count = (IF e.to \in RepairNodes THEN w.count + 1 ELSE w.count)
               /\ t.history = w.history
               /\ t.validation = w.validation /\ t.failure = w.failure /\ t.review = w.review
<1> DEFINE v == Entered(w, e)
<1>1. v \in State BY EnteredTyped
<1>2. /\ v.available = w.available /\ v.history = w.history
      /\ v.count = (IF e.to \in RepairNodes THEN w.count + 1 ELSE w.count)
      /\ v.validation = w.validation /\ v.failure = w.failure /\ v.review = w.review
  BY DEF Entered, State
<1> HIDE DEF v
<1>3. LET t == [v EXCEPT !.node = e.to, !.prev = w.node, !.seq = @ + 1,
                         !.pending = PendingAfter(w, e), !.status = StatusAfter(w, e)]
      IN  /\ t.prev = w.node /\ t.status = StatusAfter(w, e)
          /\ t.available = v.available /\ t.count = v.count /\ t.history = v.history
          /\ t.validation = v.validation /\ t.failure = v.failure /\ t.review = v.review
  BY <1>1 DEF State
<1> QED BY <1>2, <1>3 DEF Moved, v

(* A result with one edge is followed along it. *)
LEMMA SoleStep ==
    ASSUME NEW s, NEW r, NEW t, NEW e, Patched(s, r.patch) \in State, ApplyResult(s, r, t),
           Outgoing(Patched(s, r.patch), r) = {e}
    PROVE  LET u == Patched(s, r.patch)
           IN  /\ t \in State /\ EdgeOk(e)
               /\ Follows(u, e, t) /\ FollowsOn(u, e, t)
               /\ Executable(Prepared(u, e), e)
<1> DEFINE u == Patched(s, r.patch)
           w == Prepared(u, e)
<1>1. PICK d \in Winners(u, r) : Executable(Prepared(u, d), d) /\ t = Execute(u, d)
  BY DEF ApplyResult
<1>2. d = e BY <1>1 DEF Winners
<1>3. EdgeOk(e) BY EveryEdgeOk
<1>4. t \in State /\ Follows(u, e, t) BY <1>1, <1>2, <1>3, ExecuteFollows
<1>5. w \in State /\ Executable(w, e) BY <1>1, <1>2, PreparedTyped
<1>6. /\ w.node = u.node /\ w.status = u.status /\ w.available = u.available
      /\ w.count = (IF Reset(u, e) THEN 0 ELSE u.count)
      /\ w.history = (IF Reset(u, e) THEN <<>> ELSE u.history)
      /\ ~Reset(u, e) => w.validation = u.validation /\ w.failure = u.failure
      /\ ~Reset(u, e) /\ e.to # "DELIVERY_REVIEW" => w.review = u.review
  BY PreparedOn
<1>7. t = Moved(w, e) BY <1>1, <1>2 DEF Execute
<1>8. Reset(u, e) => e.to \notin RepairNodes BY DEF Reset, RepairNodes
<1> HIDE DEF u, w
<1>9. FollowsOn(u, e, t)
  <2>1. /\ t.prev = w.node /\ t.status = StatusAfter(w, e)
        /\ t.available = w.available
        /\ t.count = (IF e.to \in RepairNodes THEN w.count + 1 ELSE w.count)
        /\ t.history = w.history
        /\ t.validation = w.validation /\ t.failure = w.failure /\ t.review = w.review
    BY <1>5, <1>7, MovedOn
  <2>2. StatusAfter(w, e) = StatusAfter(u, e) BY <1>6 DEF StatusAfter
  <2> QED BY <1>6, <1>8, <2>1, <2>2 DEF FollowsOn
<1> QED BY <1>3, <1>4, <1>5, <1>9 DEF u, w

(* The only edge that matches wins. *)
LEMMA SoleEdgeWins ==
    ASSUME NEW u, NEW r, NEW e, Outgoing(u, r) = {e}, e.priority \in Int
    PROVE  Winners(u, r) = {e}
  BY DEF Winners

(* A result with one edge that the engine may follow is accepted. *)
LEMMA SoleAccepted ==
    ASSUME NEW s, NEW r, NEW e, Outgoing(Patched(s, r.patch), r) = {e}, e.priority \in Int,
           Authorized(s, r.patch), Executable(Prepared(Patched(s, r.patch), e), e)
    PROVE  Accepted(s, r)
  BY SoleEdgeWins DEF Accepted
=============================================================================
