--------------------------- MODULE DeliveryState ---------------------------
(***************************************************************************)
(* What the end of a run works on, from the review of the whole delivery   *)
(* to the pull request: the cursor and the journal, the immutable evidence *)
(* files, the processes, the scope branch and the remote.  The items are   *)
(* committed; their lineage is ItemExecution's subject, and the order of   *)
(* the journal's writes DurableRun's: here a node is started, its result   *)
(* is recorded, and the recorded result is applied.                        *)
(***************************************************************************)
EXTENDS Integers, FiniteSets

CONSTANTS
    Operators,    \* who may answer the request for approval, each once
    None,
    TTL,          \* checkpoint_ttl_seconds, in ticks of the clock
    MaxClock,     \* bound: when the clock stops
    MaxCrashes,   \* bound: how often a process dies
    MaxMeddles    \* bound: how often somebody else changes the workspace or the remote

ASSUME DeliveryAssumption ==
    /\ {"nobody", "run"} \cap Operators = {}
    /\ None \notin {"final", "other"} /\ None \notin Nat         \* no branch and no receipt,
    /\ None \notin [created : Nat]                                \* no request and no review
    /\ None \notin [mechanical : SUBSET {"gate_failed", "flaw"},
                    verdict : {"pass", "fail", "blocked"}]
    /\ TTL \in Nat /\ MaxClock \in Nat /\ MaxCrashes \in Nat /\ MaxMeddles \in Nat

VARIABLES
    state,     \* GraphState: cursor, status and verdict of the delivery review
    journal,   \* last record: "clean" after a commit, "started", or a recorded result
    files,     \* evidence, one entry per immutable file
    pc,        \* where the run's process is; "none" when there is none
    held,      \* what that process knows (volatile)
    session,   \* who holds the project's session
    asks,      \* what each operator is about to write; "ready", "asks" and "done"
    local,     \* target and workspace are as reviewed; the delivery itself is flawed
    remote,    \* is it the planned repository, its scope branch, its open pull requests
    clock,
    told,      \* outcome of the last command of the run
    effects,   \* history: pushes and pull requests the run made
    crashes,
    meddles

vars == <<state, journal, files, pc, held, session, asks, local, remote, clock, told, effects,
          crashes, meddles>>

outside == <<local, remote, clock>>
bounded == <<crashes, meddles>>

NoFiles == [mechanical |-> None, review |-> None, plan |-> None, request |-> None,
            decision |-> None, push |-> None, pr |-> None, result |-> None]

NoRemote == [planned |-> TRUE, branch |-> None, prs |-> {}, opened |-> 0]

Init ==
    /\ state = [node |-> "DELIVERY_REVIEW", status |-> "running", verdict |-> "UNKNOWN"]
    /\ journal = "clean"
    /\ files = NoFiles
    /\ pc = "idle" /\ held = None
    /\ session = "run"
    /\ asks = [o \in Operators |-> [phase |-> "ready", decision |-> None]]
    /\ \E flawed \in BOOLEAN : local = [intact |-> TRUE, flawed |-> flawed]
    /\ remote = NoRemote
    /\ clock = 0
    /\ told = "nothing"
    /\ effects = [pushed |-> 0, created |-> 0]
    /\ crashes = 0 /\ meddles = 0

-----------------------------------------------------------------------------
\* RuntimeSession under the project lock: one command at a time.  An operator's
\* command and a resume alike go through it.
OpensAnyway(who)  == session' = who
OpenSession(who)  == session = "nobody" /\ session' = who

\* The command of the run returns to its caller.
Leave(outcome) ==
    /\ pc' = "none" /\ held' = None
    /\ session' = "nobody"
    /\ told' = outcome

\* The process goes on inside its command.
Go(from, to) ==
    /\ pc = from
    /\ pc' = to
    /\ UNCHANGED <<state, session, asks, told, bounded>>

\* persist_once, _persist_or_verify and the checkpoint store: written once, and what
\* is there already must be what would be written.
PersistOnce(name, content) ==
    /\ files[name] \in {None, content}
    /\ files' = [files EXCEPT ![name] = content]

\* A node's result, recorded in the journal by the step that ran it.
Records(from, result) ==
    /\ Go(from, "recorded")
    /\ journal = "started" /\ journal' = result
    /\ held' = None

Results == {"pass", "fail", "approved", "rejected", "cancelled", "ok", "blocked", "failed"}

StatusOf(result) ==
    CASE result \in {"blocked", "rejected"} -> "blocked"
      [] result \in {"fail", "failed"} -> "failed"
      [] result = "cancelled" -> "cancelled"
      [] OTHER -> state.status

\* The transition of the v1 graph a result selects.
Target(result) ==
    IF state.node = "FINALIZE" THEN "END" ELSE
    CASE result = "pass" -> "HUMAN_CHECKPOINT"
      [] result = "approved" -> "CREATE_PR"
      [] OTHER -> "FINALIZE"

\* The engine applies the recorded result and the journal has its marker.
ApplyRecorded ==
    /\ journal \in Results
    /\ journal' = "clean"
    /\ state' = [node |-> Target(journal),
                 status |-> IF state.node = "FINALIZE" /\ state.status = "running"
                              THEN "completed" ELSE StatusOf(journal),
                 verdict |-> CASE journal = "pass" -> "PASS"
                               [] journal = "fail" -> "FAIL"
                               [] OTHER -> state.verdict]

-----------------------------------------------------------------------------
\* The process of the run dies; its lock can be taken over by the next command.
Crash ==
    /\ crashes < MaxCrashes
    /\ pc # "none"
    /\ pc' = "none" /\ held' = None
    /\ session' = IF session = "run" THEN "nobody" ELSE session
    /\ crashes' = crashes + 1
    /\ UNCHANGED <<state, journal, files, asks, outside, told, effects, meddles>>

Meddle ==
    /\ meddles < MaxMeddles
    /\ meddles' = meddles + 1
    /\ UNCHANGED <<state, journal, files, pc, held, session, asks, clock, told, effects, crashes>>

\* Somebody edits the workspace, moves the scope branch or the target repository, ...
DriftLocally == Meddle /\ local' = [local EXCEPT !.intact = FALSE] /\ UNCHANGED remote

\* ... pushes to or deletes the remote branch, points the remote at another repository, ...
MeddleWithBranch ==
    /\ Meddle /\ UNCHANGED local
    /\ \/ \E b \in {None, "other", "final"} : remote' = [remote EXCEPT !.branch = b]
       \/ remote' = [remote EXCEPT !.planned = FALSE]

\* ... opens a pull request, which may be just the planned one, edits or closes an open one.
MeddleWithPullRequests ==
    /\ Meddle /\ UNCHANGED local
    /\ \/ \E exact \in BOOLEAN :
            remote' = [remote EXCEPT !.opened = @ + 1,
                         !.prs = @ \cup {[id |-> remote.opened, ours |-> FALSE, exact |-> exact]}]
       \/ \E p \in remote.prs :
            remote' = [remote EXCEPT !.prs =
                         (@ \ {p}) \cup {[p EXCEPT !.exact = FALSE]}]
       \/ \E p \in remote.prs : remote' = [remote EXCEPT !.prs = @ \ {p}]

\* What was changed is put back.
Restore ==
    /\ ~local.intact \/ ~remote.planned
    /\ local' = [local EXCEPT !.intact = TRUE]
    /\ remote' = [remote EXCEPT !.planned = TRUE]
    /\ UNCHANGED <<state, journal, files, pc, held, session, asks, clock, told, effects, bounded>>

Tick ==
    /\ clock < MaxClock
    /\ clock' = clock + 1
    /\ UNCHANGED <<state, journal, files, pc, held, session, asks, local, remote, told, effects,
                   bounded>>

Environment ==
    Crash \/ DriftLocally \/ MeddleWithBranch \/ MeddleWithPullRequests \/ Restore \/ Tick
=============================================================================
