----------------------------- MODULE DurableRun -----------------------------
(***************************************************************************)
(* One durable run: the commit protocol of RuntimeSession.step and         *)
(* _finalize (runtime/coordinator.py), the journal and the state store it  *)
(* writes, and the assessment and recovery of an interrupted run           *)
(* (runtime/recovery.py), with the process dying at any point between two  *)
(* durable writes or inside an append.                                     *)
(*                                                                         *)
(* A GraphState is the sequence of the results applied so far: its length  *)
(* is state_version and it is its own digest.  A result stands for the     *)
(* NodeResult and the transition apply_result computes from it, which is   *)
(* deterministic.  One writer at a time is ProjectLifecycle's subject.     *)
(***************************************************************************)
EXTENDS Integers, Sequences, FiniteSets

CONSTANTS
    Outcomes,     \* what a node may return
    NoOutcome,
    Last,         \* the state version at END
    Kind,         \* capability of the node at each version: "safe" (deterministic,
                  \* read-only, human), "write" (a side effect nobody reconciles) or
                  \* "publish" (an external operation with a reconciler)
    MaxCrashes,   \* bound: how often the process dies or an append raises
    Tears,        \* what may leave an incomplete last journal line: "crash" (the
                  \* process dies in an append) or "error" (the append raises and the
                  \* client keeps its session)
    Client        \* who resumes: "runner" (WriteSliceRunner.resume) or "library"
                  \* (RuntimeSession.recover)

ASSUME LastAssumption == Last \in Nat \ {0}
ASSUME OutcomeAssumption == NoOutcome \notin Outcomes
ASSUME KindAssumption == Kind \in [0 .. Last - 1 -> {"safe", "write", "publish"}]
ASSUME BoundAssumption ==
    MaxCrashes \in Nat /\ Tears \subseteq {"crash", "error"} /\ Client \in {"runner", "library"}

VARIABLES
    journal,   \* journal.jsonl
    torn,      \* its last line is incomplete
    disk,      \* state.json
    receipt,   \* final.json, or NoReceipt
    active,    \* active-run.json names this run
    pc,        \* where the writer process is; "down" when there is none
    loaded,    \* the state the session loaded for this step (volatile)
    outcome,   \* the result the node returned (volatile)
    effects,   \* history: how often the node at a version had its side effect
    crashes    \* how often the process died or an append raised

vars == <<journal, torn, disk, receipt, active, pc, loaded, outcome, effects, crashes>>

durable  == <<journal, torn, disk, receipt, active>>
volatile == <<loaded, outcome>>
counted  == <<effects, crashes>>

NoReceipt == [digest |-> <<>>, seq |-> 0]

States == UNION {[1 .. n -> Outcomes] : n \in 0 .. Last}

AtEnd(s) == Len(s) = Last

-----------------------------------------------------------------------------
\* Journal records; a field a type does not have is neutral.
Record(type, base, result, digest) ==
    [type |-> type, base |-> base, result |-> result, digest |-> digest]

RunStarted            == Record("RUN_STARTED", 0, NoOutcome, <<>>)
NodeStarted(s)        == Record("NODE_STARTED", Len(s), NoOutcome, s)
ResultRecorded(s, o)  == Record("NODE_RESULT_RECORDED", Len(s), o, Append(s, o))
Committed(s)          == Record("TRANSITION_COMMITTED", Len(s), NoOutcome, s)
RunFinalized(s)       == Record("RUN_FINALIZED", Len(s), NoOutcome, s)
RecoveryNote          == Record("RECOVERY_NOTE", 0, NoOutcome, <<>>)

RecordTypes == {"RUN_STARTED", "NODE_STARTED", "NODE_RESULT_RECORDED",
                "TRANSITION_COMMITTED", "RUN_FINALIZED", "RECOVERY_NOTE"}

Records == [type : RecordTypes, base : 0 .. Last, result : Outcomes \cup {NoOutcome},
            digest : States]

\* The positions of the records of a type; the newest of some positions.
Of(type)     == {k \in DOMAIN journal : journal[k].type = type}
Newest(ks)   == CHOOSE k \in ks : \A j \in ks : j <= k

\* The newest record of the commit protocol, whatever notes follow it.
LastRecord == journal[Newest(DOMAIN journal \ Of("RECOVERY_NOTE"))]

-----------------------------------------------------------------------------
\* RecoveryManager.assess, branch by branch.  The verdict of the reconciler for
\* an interrupted CREATE_PR is the caller's reconciled.
CleanOrCompleted == IF AtEnd(disk) THEN "COMPLETED" ELSE "CLEAN_RESUME"

\* Mutant: an interrupted side effect is run again.
RerunsEverything(reconciled) ==
    IF LastRecord.base # Len(disk) THEN "BLOCKED" ELSE "RERUN_INTERRUPTED_NODE"

AssessStarted(reconciled) ==
    IF LastRecord.base # Len(disk) THEN "BLOCKED"
    ELSE IF Kind[Len(disk)] = "safe" THEN "RERUN_INTERRUPTED_NODE"
    ELSE IF Kind[Len(disk)] = "publish" /\ reconciled THEN "RERUN_INTERRUPTED_NODE"
    ELSE "BLOCKED"

\* Mutant: a recorded result is not applied but its node run again.
ReinvokesRecorded ==
    IF Len(disk) = LastRecord.base THEN "RERUN_INTERRUPTED_NODE" ELSE "COMPLETE_TRANSITION_MARKER"

AssessRecorded ==
    IF Of("NODE_STARTED") = {} THEN "BLOCKED"
    ELSE IF journal[Newest(Of("NODE_STARTED"))].base # LastRecord.base THEN "BLOCKED"
    ELSE IF Len(disk) = LastRecord.base
      THEN IF Append(disk, LastRecord.result) = LastRecord.digest
             THEN "REAPPLY_RECORDED_RESULT" ELSE "BLOCKED"
    ELSE IF disk = LastRecord.digest THEN "COMPLETE_TRANSITION_MARKER"
    ELSE "BLOCKED"

AssessCommitted ==
    LET recorded == Of("NODE_RESULT_RECORDED")
    IN  IF /\ LastRecord.digest = disk
           /\ recorded # {}
           /\ journal[Newest(recorded)].digest = LastRecord.digest
          THEN CleanOrCompleted ELSE "BLOCKED"

Assessment(reconciled) ==
    CASE LastRecord.type = "RUN_FINALIZED" ->
           IF AtEnd(disk) /\ LastRecord.digest = disk THEN "COMPLETED" ELSE "BLOCKED"
      [] LastRecord.type = "RUN_STARTED" ->
           IF LastRecord.digest = disk THEN CleanOrCompleted ELSE "BLOCKED"
      [] LastRecord.type = "NODE_STARTED"         -> AssessStarted(reconciled)
      [] LastRecord.type = "NODE_RESULT_RECORDED" -> AssessRecorded
      [] LastRecord.type = "TRANSITION_COMMITTED" -> AssessCommitted

-----------------------------------------------------------------------------
\* start_run has just promoted and activated the run.
Init ==
    /\ journal = <<RunStarted>>
    /\ torn = FALSE
    /\ disk = <<>>
    /\ receipt = NoReceipt
    /\ active = TRUE
    /\ pc = "ready"
    /\ loaded = <<>>
    /\ outcome = NoOutcome
    /\ effects = [v \in 0 .. Last - 1 |-> 0]
    /\ crashes = 0

\* Journal.append.
Logs(record) == journal' = Append(journal, record) /\ UNCHANGED torn

\* RuntimeSession.step: load, then NODE_STARTED.
StartNode ==
    /\ pc = "ready" /\ ~AtEnd(disk)
    /\ loaded' = disk
    /\ Logs(NodeStarted(disk))
    /\ pc' = "started"
    /\ UNCHANGED <<disk, receipt, active, outcome, counted>>

\* The node changes the world before it returns.
Act ==
    /\ pc = "started" /\ Kind[Len(loaded)] # "safe"
    /\ effects' = [effects EXCEPT ![Len(loaded)] = @ + 1]
    /\ pc' = "acted"
    /\ UNCHANGED <<durable, volatile, crashes>>

Return ==
    /\ pc \in {"started", "acted"}
    /\ outcome' \in Outcomes
    /\ pc' = "returned"
    /\ UNCHANGED <<durable, loaded, counted>>

\* apply_result in memory, then NODE_RESULT_RECORDED.
RecordResult ==
    /\ pc = "returned"
    /\ Logs(ResultRecorded(loaded, outcome))
    /\ pc' = "recorded"
    /\ UNCHANGED <<disk, receipt, active, volatile, counted>>

\* StateStore.compare_and_swap; a conflict raises and ends the session.
Swap ==
    /\ pc = "recorded"
    /\ IF Len(disk) = Len(loaded)
         THEN disk' = Append(loaded, outcome) /\ pc' = "swapped"
         ELSE pc' = "down" /\ UNCHANGED disk
    /\ UNCHANGED <<journal, torn, receipt, active, volatile, counted>>

MarkCommitted ==
    /\ pc = "swapped"
    /\ Logs(Committed(disk))
    /\ pc' = IF AtEnd(disk) THEN "finalize" ELSE "ready"
    /\ UNCHANGED <<disk, receipt, active, volatile, counted>>

\* Mutant: RUN_FINALIZED is appended every time.
FinalizeAgain ==
    /\ pc = "finalize"
    /\ Logs(RunFinalized(disk))
    /\ pc' = "receipt"
    /\ UNCHANGED <<disk, receipt, active, volatile, counted>>

\* _finalize: RUN_FINALIZED unless it is there.
Finalize ==
    /\ pc = "finalize"
    /\ IF Of("RUN_FINALIZED") = {} THEN Logs(RunFinalized(disk)) ELSE UNCHANGED <<journal, torn>>
    /\ pc' = "receipt"
    /\ UNCHANGED <<disk, receipt, active, volatile, counted>>

\* The receipt is written, or compared with the one that is there.
WriteReceipt ==
    LET expected == [digest |-> disk, seq |-> Len(journal)]
    IN  /\ pc = "receipt"
        /\ IF receipt = NoReceipt
             THEN receipt' = expected /\ pc' = "clear"
             ELSE /\ pc' = IF receipt = expected THEN "clear" ELSE "down"
                  /\ UNCHANGED receipt
        /\ UNCHANGED <<journal, torn, disk, active, volatile, counted>>

\* _clear_active_run; the command returns its report.
ClearActive ==
    /\ pc = "clear"
    /\ active' = FALSE
    /\ pc' = "down"
    /\ UNCHANGED <<journal, torn, disk, receipt, volatile, counted>>

-----------------------------------------------------------------------------
\* open_session loads the journal first, and refuses an incomplete tail; then the
\* session takes the ownership of an unfinished run.
OpenSession ==
    /\ pc = "down" /\ ~torn
    /\ active' = (active \/ ~AtEnd(disk))
    /\ pc' = "assess"
    /\ UNCHANGED <<journal, torn, disk, receipt, volatile, counted>>

\* Mutant: recovery does not finish a run that is at END.
LeavesUnfinished(action) ==
    CASE action = "REAPPLY_RECORDED_RESULT"    -> "reapply"
      [] action = "COMPLETE_TRANSITION_MARKER" -> "swapped"
      [] action \in {"CLEAN_RESUME", "RERUN_INTERRUPTED_NODE"} -> "ready"
      [] action \in {"COMPLETED", "BLOCKED"}   -> "down"

\* What the client does with the assessment.
AfterAssessment(action) ==
    CASE action = "REAPPLY_RECORDED_RESULT"    -> "reapply"
      [] action = "COMPLETE_TRANSITION_MARKER" -> "swapped"
      [] action \in {"CLEAN_RESUME", "RERUN_INTERRUPTED_NODE"} -> "ready"
      [] action = "COMPLETED" -> IF Client = "library" THEN "finalize" ELSE "down"
      [] action = "BLOCKED"   -> "down"

Assess ==
    /\ pc = "assess" /\ ~torn
    /\ \E reconciled \in BOOLEAN : pc' = AfterAssessment(Assessment(reconciled))
    /\ UNCHANGED <<durable, volatile, counted>>

\* RecoveryManager.execute: the recorded result is applied again, no node runs.
Reapply ==
    /\ pc = "reapply"
    /\ disk' = Append(disk, LastRecord.result)
    /\ pc' = "swapped"
    /\ UNCHANGED <<journal, torn, receipt, active, volatile, counted>>

\* RuntimeSession.repair_truncated_journal, inside a session: the tail is set
\* aside and a note says so.
RepairTornTail ==
    /\ pc = "assess" /\ torn
    /\ torn' = FALSE
    /\ journal' = Append(journal, RecoveryNote)
    /\ UNCHANGED <<disk, receipt, active, pc, volatile, counted>>

-----------------------------------------------------------------------------
\* A command is cut short: what it has in memory is lost.
Interrupted(next) ==
    /\ pc # "down" /\ crashes < MaxCrashes
    /\ pc' = next
    /\ loaded' = <<>> /\ outcome' = NoOutcome
    /\ crashes' = crashes + 1
    /\ UNCHANGED <<journal, disk, receipt, active, effects>>

\* The process dies, or a node or a write raises and ends it.
Crash == Interrupted("down") /\ UNCHANGED torn

\* The next durable write is Journal.append.
Appending ==
    \/ pc \in {"returned", "swapped"}
    \/ pc = "ready" /\ ~AtEnd(disk)
    \/ pc = "finalize" /\ Of("RUN_FINALIZED") = {}

\* The process dies in the middle of it ...
TearByCrash == "crash" \in Tears /\ Appending /\ Interrupted("down") /\ torn' = TRUE

\* ... or it raises half-way and the client still has its session.
TearByError == "error" \in Tears /\ Appending /\ Interrupted("assess") /\ torn' = TRUE

-----------------------------------------------------------------------------
Step == StartNode \/ Act \/ Return \/ RecordResult \/ Swap \/ MarkCommitted

End == Finalize \/ WriteReceipt \/ ClearActive

Recover == OpenSession \/ Assess \/ Reapply \/ RepairTornTail

Disturb == Crash \/ TearByCrash \/ TearByError

Next == Step \/ End \/ Recover \/ Disturb

Spec == Init /\ [][Next]_vars

\* A living process goes on, and an operator resumes a run that is down.
FairSpec == Spec /\ WF_vars(Step \/ End \/ Recover)

-----------------------------------------------------------------------------
\* The result that is journaled and not yet in state.json.
Decided ==
    IF LastRecord.type = "NODE_RESULT_RECORDED" /\ LastRecord.base = Len(disk)
      THEN LastRecord.result ELSE NoOutcome

\* The last record is the start of a node with a side effect, of this version.
SideEffectInterrupted ==
    /\ LastRecord.type = "NODE_STARTED"
    /\ LastRecord.base = Len(disk)
    /\ Kind[Len(disk)] # "safe"

(* A side effect that nobody can reconcile happens at most once per state      *)
(* version, wherever the process died and however often the run was resumed:   *)
(* RecoveryManager never reruns it (recovery.py _assess_started).              *)
WriteOnce == \A v \in 0 .. Last - 1 : Kind[v] = "write" => effects[v] <= 1

(* The project is given up only with a terminal receipt, and the receipt is    *)
(* true: it names the final state and the one RUN_FINALIZED record, the last of*)
(* the journal (_finalize, _has_terminal_evidence).                            *)
TerminalEvidence ==
    /\ ~active => receipt # NoReceipt
    /\ receipt # NoReceipt =>
         /\ AtEnd(disk)
         /\ receipt.digest = disk
         /\ Of("RUN_FINALIZED") = {receipt.seq}
         /\ receipt.seq = Len(journal)

(* The durable run implements the log of decisions: what crashes and recovery  *)
(* leave in state.json and the journal never loses or replaces a result.       *)
Log == INSTANCE DecisionLog WITH log <- disk, decided <- Decided
ImplementsDecisionLog == Log!Spec

(* Every run ends and gives the project up, or waits at an interrupted side    *)
(* effect for its operator (RuntimeSession.recover); only a journal torn by a  *)
(* crash keeps it from both.                                                   *)
RunConcludes == <>[](~active \/ SideEffectInterrupted \/ torn)

(* A run that reached END gets its terminal receipt, also when the command     *)
(* that reached it was cut short before writing one                            *)
(* (test_terminal_receipt_fault_is_idempotently_completed).                    *)
ReceiptCompleted == AtEnd(disk) ~> receipt # NoReceipt

(* "requires explicit repair" (errors.py), which repair_truncated_journal      *)
(* offers inside a session: an incomplete tail does not stay for ever.         *)
TornTailRepaired == torn ~> ~torn
=============================================================================
