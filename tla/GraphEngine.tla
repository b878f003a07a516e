---------------------------- MODULE GraphEngine ----------------------------
(***************************************************************************)
(* The deterministic graph engine (core/engine.py, core/patches.py):       *)
(* authorize and apply the patch of a result, select the sole edge of the  *)
(* highest priority, and carry out the effects the engine itself owns.     *)
(* Every operator is a function of an immutable state; a raised error is   *)
(* an operator that is FALSE, and the state is then kept.                  *)
(***************************************************************************)
EXTENDS V1Graph

\* PatchOwnershipPolicy.authorize for every path of a patch: the node owns it,
\* and scope.* is frozen once locked.  No path an engine-owned prefix covers is
\* ever among AllowedPaths.
Authorized(s, patch) ==
    /\ DOMAIN patch \subseteq AllowedPaths(s.node)
    /\ s.locked => "explored" \notin DOMAIN patch

\* StatePatchApplier.apply: all operations at once, on a new snapshot.
Patched(s, patch) ==
    [path \in DOMAIN s |-> IF path \in DOMAIN patch THEN patch[path] ELSE s[path]]

\* GraphEngine.evaluate_transition: the matching edges of the highest priority.
Winners(s, r) ==
    LET matches == Outgoing(s, r)
    IN  {e \in matches : \A other \in matches : other.priority <= e.priority}

\* Mutant: the scope lock survives the item it was taken for.
TaskResetKeepsLock(s) ==
    [s EXCEPT !.explored = NoItem, !.package = NoItem, !.changes = NoItem,
              !.risk = "NONE", !.route = "NONE"]

ResetTask(s) ==
    [s EXCEPT !.explored = NoItem, !.package = NoItem, !.changes = NoItem,
              !.locked = FALSE, !.risk = "NONE", !.route = "NONE"]

ResetReview(s) == [s EXCEPT !.review = "UNKNOWN", !.safeClose = FALSE, !.safePr = FALSE]

\* Mutant: the repair counter restarts but the ledger does not.
RepairResetKeepsHistory(s) ==
    [s EXCEPT !.validation = "UNKNOWN", !.failure = "NONE", !.count = 0, !.class = "NONE"]

ResetRepair(s) ==
    [s EXCEPT !.validation = "UNKNOWN", !.failure = "NONE", !.count = 0, !.class = "NONE",
              !.history = <<>>]

\* GraphEngine._reset_item_state: a fresh item, run-level state kept.
ResetItem(s) == ResetTask(ResetReview(ResetRepair(s)))

\* What entering the edge's target erases first.
Prepared(s, e) ==
    IF s.node = "MORE_WORK" /\ e.to = "SELECT_WORK" THEN ResetItem(s)
    ELSE IF e.to = "DELIVERY_REVIEW" THEN ResetReview(s)
    ELSE s

\* The two GraphTransitionErrors of _execute_transition.
Executable(s, e) ==
    /\ e.to \in RepairNodes => s.count < MaxRepair
    /\ e.to = "IMPLEMENT" => s.risk # "NONE"

RouteOf(risk) == IF risk \in {"LOW", "MEDIUM"} THEN "FAST" ELSE "HIGH"

PendingAfter(s, e) ==
    IF e.resume # "NONE" THEN e.resume
    ELSE IF s.node = "HUMAN_CHECKPOINT" THEN "NONE" ELSE s.pending

StatusAfter(s, e) ==
    LET status == IF e.final = "KEEP" THEN s.status ELSE e.final
    IN  IF e.to = "END" /\ status = "RUNNING" THEN "COMPLETED" ELSE status

\* What entering a repair, or the write of an item, changes.
Entered(s, e) ==
    [s EXCEPT !.count  = IF e.to \in RepairNodes THEN @ + 1 ELSE @,
              !.route  = IF e.to = "IMPLEMENT" THEN RouteOf(s.risk) ELSE @,
              !.locked = IF e.to = "IMPLEMENT" THEN TRUE ELSE @]

\* GraphEngine._execute_transition, after its preparations.
Moved(s, e) ==
    [Entered(s, e) EXCEPT !.node    = e.to,
                          !.prev    = s.node,
                          !.seq     = @ + 1,
                          !.pending = PendingAfter(s, e),
                          !.status  = StatusAfter(s, e)]

Execute(s, e) == Moved(Prepared(s, e), e)

\* GraphEngine.apply_result: the result r leads from s to t.
ApplyResult(s, r, t) ==
    /\ Authorized(s, r.patch)
    /\ \E e \in Winners(Patched(s, r.patch), r) :
          /\ Winners(Patched(s, r.patch), r) = {e}
          /\ Executable(Prepared(Patched(s, r.patch), e), e)
          /\ t = Execute(Patched(s, r.patch), e)

\* apply_result does not raise.
Accepted(s, r) ==
    /\ Authorized(s, r.patch)
    /\ \E e \in Winners(Patched(s, r.patch), r) :
          /\ Winners(Patched(s, r.patch), r) = {e}
          /\ Executable(Prepared(Patched(s, r.patch), e), e)
=============================================================================
