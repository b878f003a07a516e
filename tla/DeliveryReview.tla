--------------------------- MODULE DeliveryReview ---------------------------
(* DeliveryReviewExecution (write/delivery_review.py): the mechanical gates over the   *)
(* whole delivery, the read-only reviewer behind guards, and one review file, from     *)
(* which every later command rebuilds the verdict or refuses to go on.                 *)
EXTENDS DeliveryState

\* The findings of the mechanical gates now; drift hides the flaws of the delivery.
Findings ==
    IF ~local.intact THEN {"gate_failed"}
    ELSE IF local.flawed THEN {"flaw"} ELSE {}

\* _prepare: the frozen mechanical review is what the gates find now.
PrepareAgrees == files.mechanical \in {None, Findings}

\* _reconcile_state: the file may be ahead of the state, never beside it.
ReviewAgrees ==
    \/ state.node = "DELIVERY_REVIEW" /\ state.verdict = "UNKNOWN"
    \/ CASE files.review.verdict = "blocked" ->
              /\ state.verdict = "UNKNOWN" /\ state.status = "blocked"
              /\ state.node \in {"FINALIZE", "END"}
         [] files.review.verdict = "pass" ->
              /\ state.verdict = "PASS"
              /\ state.node \in {"HUMAN_CHECKPOINT", "CREATE_PR", "FINALIZE", "END"}
         [] OTHER ->
              /\ state.verdict = "FAIL" /\ state.status = "failed"
              /\ state.node \in {"FINALIZE", "END"}

\* _restore_completed.  A review with mechanical findings is never restored: the list that
\* is read back is compared with a tuple.
Restorable ==
    /\ PrepareAgrees
    /\ Findings = {} /\ files.review.mechanical = {}
    /\ ReviewAgrees

\* rehydrate_if_complete, called by every resume and before the node is stepped.
Rehydrates == files.review # None => Restorable

\* Mutant: the restored file of a blocked reviewer is read as a failed review.
BlockedIsFail(review) == IF review.verdict = "pass" THEN "pass" ELSE "fail"

\* The result of the node for a filed review.
ResultOf(review) == review.verdict

-----------------------------------------------------------------------------
\* review(), the file exists: nobody is asked again.
RestoreReview ==
    /\ files.review # None
    /\ Records("review", IF Restorable THEN ResultOf(files.review) ELSE "failed")
    /\ UNCHANGED <<files, outside, effects>>

\* _prepare: the mechanical review is filed, or agrees with the one that is.
Prepare ==
    /\ files.review = None
    /\ PersistOnce("mechanical", Findings)
    /\ IF Findings = {} THEN Go("review", "guard") /\ UNCHANGED held
       ELSE /\ Go("review", "file-review")
            /\ held' = [mechanical |-> Findings, verdict |-> "fail"]
    /\ UNCHANGED <<journal, outside, effects>>

PrepareDisagrees ==
    /\ files.review = None /\ ~PrepareAgrees
    /\ Records("review", "failed")
    /\ UNCHANGED <<files, outside, effects>>

\* _invoke: the workspace and the target are as reviewed before the reviewer is asked ...
Guard ==
    /\ IF local.intact THEN Go("guard", "reviewer") /\ UNCHANGED <<journal, held>>
                       ELSE Records("guard", "failed")
    /\ UNCHANGED <<files, outside, effects>>

\* ... and after; his answer is kept as evidence of this attempt.
ReviewerAnswers ==
    /\ local.intact
    /\ Go("reviewer", "file-review")
    /\ \E verdict \in {"pass", "fail", "blocked"} :
         held' = [mechanical |-> {}, verdict |-> verdict]
    /\ UNCHANGED <<journal, files, outside, effects>>

\* He fails, breaks his contract, or the workspace changed meanwhile.
ReviewerFails ==
    /\ Records("reviewer", "failed")
    /\ UNCHANGED <<files, outside, effects>>

\* _write_review, then the result of the node.
FileReview ==
    /\ Go("file-review", "reviewed")
    /\ PersistOnce("review", held)
    /\ UNCHANGED <<journal, held, outside, effects>>

ReturnReview ==
    /\ Records("reviewed", held.verdict)
    /\ UNCHANGED <<files, outside, effects>>

ReviewDelivery ==
    \/ RestoreReview \/ Prepare \/ PrepareDisagrees \/ Guard
    \/ ReviewerAnswers \/ ReviewerFails \/ FileReview \/ ReturnReview
=============================================================================
