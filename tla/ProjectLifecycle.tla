-------------------------- MODULE ProjectLifecycle --------------------------
(***************************************************************************)
(* The runs of one project and the processes that write them: start_run,   *)
(* recover_incomplete_run_initialization and open_session                  *)
(* (runtime/coordinator.py) around the project lock (runtime/locking.py),  *)
(* the active-run record and the staging directories, with processes that  *)
(* die at any point.  What a session does to its run is DurableRun's       *)
(* subject: here it reaches END, writes final.json, and gives the project  *)
(* up, or leaves before.                                                   *)
(***************************************************************************)
EXTENDS Integers, FiniteSets

CONSTANTS
    Processes,
    RunIds,
    None,        \* no process, no run
    MaxCrashes   \* bound: how often a process dies or a write raises

ASSUME NoneAssumption == None \notin Processes /\ None \notin RunIds
ASSUME BoundAssumption == MaxCrashes \in Nat

VARIABLES
    dir,       \* where a run is: "none", "staging" (.<run>.initializing) or "run"
    atEnd,     \* the runs whose state.json is at END
    receipts,  \* the runs with terminal evidence (final.json)
    active,    \* active-run.json: a run or None
    lease,     \* lock.json: a run or None
    osLock,    \* the process that holds the advisory file lock, or None
    pc,        \* where each process is in its command
    op,        \* its command: "start", "reinit", "open" or "resume"
    target,    \* the run of its command, or None
    crashes

vars == <<dir, atEnd, receipts, active, lease, osLock, pc, op, target, crashes>>

project == <<dir, atEnd, receipts, active>>
command == <<op, target>>

Operations == {"start", "reinit", "open", "resume"}

\* Processes that work under the project lock.
Inside(p) == pc[p] \in {"enforce", "stage", "promote", "activate", "own", "session",
                        "receipt", "clear"}

Unfinished == {r \in RunIds : dir[r] = "run" /\ r \notin receipts}

Init ==
    /\ dir = [r \in RunIds |-> "none"]
    /\ atEnd = {} /\ receipts = {}
    /\ active = None /\ lease = None /\ osLock = None
    /\ pc = [p \in Processes |-> "idle"]
    /\ op = [p \in Processes |-> "start"]
    /\ target = [p \in Processes |-> None]
    /\ crashes = 0

Goes(p, next) == pc' = [pc EXCEPT ![p] = next]

\* A command begins.  open_session looks for the run before it takes the lock.
Call(p, o, r) ==
    /\ pc[p] = "idle"
    /\ o \in {"open", "resume"} => dir[r] = "run"
    /\ op' = [op EXCEPT ![p] = o]
    /\ target' = [target EXCEPT ![p] = r]
    /\ Goes(p, "lock")
    /\ UNCHANGED <<project, lease, osLock, crashes>>

-----------------------------------------------------------------------------
\* Mutant: a resume does not wait for the advisory lock.
StealLock(p) ==
    /\ pc[p] = "lock"
    /\ IF osLock = None \/ op[p] = "resume"
         THEN osLock' = p /\ Goes(p, "lease")
         ELSE Goes(p, "idle") /\ UNCHANGED osLock
    /\ UNCHANGED <<project, lease, command, crashes>>

\* ProjectLock.acquire: the advisory lock first; ProjectLockedError if it is held.
TryLock(p) ==
    /\ pc[p] = "lock"
    /\ IF osLock = None
         THEN osLock' = p /\ Goes(p, "lease")
         ELSE Goes(p, "idle") /\ UNCHANGED osLock
    /\ UNCHANGED <<project, lease, command, crashes>>

\* Mutants: a resume takes over whatever lease is there; no command takes one over.
AnyLeaseAdmits(p)  == lease = None \/ op[p] = "resume"
NoLeaseAdmits(p) == lease = None

\* A lease that is there was left by a command that died.
LeaseAdmits(p) == lease = None \/ (op[p] = "resume" /\ lease = target[p])

TakeLease(p) ==
    /\ pc[p] = "lease"
    /\ IF LeaseAdmits(p)
         THEN /\ lease' = target[p]
              /\ Goes(p, IF op[p] \in {"start", "reinit"} THEN "enforce" ELSE "own")
         ELSE Goes(p, "unlock") /\ UNCHANGED lease
    /\ UNCHANGED <<project, osLock, command, crashes>>

\* ProjectLock.release: lock.json goes first.
RemoveLease(p) ==
    /\ pc[p] = "leave"
    /\ lease' = None
    /\ Goes(p, "unlock")
    /\ UNCHANGED <<project, osLock, command, crashes>>

Unlock(p) ==
    /\ pc[p] = "unlock"
    /\ osLock' = None
    /\ Goes(p, "idle")
    /\ UNCHANGED <<project, lease, command, crashes>>

-----------------------------------------------------------------------------
\* _enforce_active_run_lifecycle: an owner without terminal evidence refuses the
\* start; so does any other unfinished run, which then becomes the owner.
OwnerUnfinished == active # None /\ active \notin receipts

\* Mutant: only the recorded owner is looked at.
OwnerOnly(p) ==
    /\ pc[p] = "enforce"
    /\ IF dir[target[p]] = "run" \/ OwnerUnfinished
         THEN Goes(p, "leave") /\ UNCHANGED active
         ELSE active' = None /\ Goes(p, "stage")
    /\ UNCHANGED <<dir, atEnd, receipts, lease, osLock, command, crashes>>

EnforceActiveRun(p) ==
    /\ pc[p] = "enforce"
    /\ \/ /\ dir[target[p]] = "run" \/ OwnerUnfinished
          /\ Goes(p, "leave") /\ UNCHANGED active
       \/ /\ dir[target[p]] # "run" /\ ~OwnerUnfinished
          /\ IF Unfinished # {}
               THEN active' \in Unfinished /\ Goes(p, "leave")
               ELSE active' = None /\ Goes(p, "stage")
    /\ UNCHANGED <<dir, atEnd, receipts, lease, osLock, command, crashes>>

\* The staging directory is made; one that is there refuses a start, and a
\* reinit moves it out of the way first (_preserve_incomplete_staging).
Stage(p) ==
    LET r == target[p]
    IN  /\ pc[p] = "stage"
        /\ IF dir[r] = "staging" /\ op[p] = "start"
             THEN Goes(p, "leave") /\ UNCHANGED dir
             ELSE /\ dir' = [dir EXCEPT ![r] = "staging"]
                  /\ Goes(p, "promote")
        /\ UNCHANGED <<atEnd, receipts, active, lease, osLock, command, crashes>>

\* state.json and the journal are written, the staging becomes the run.
Promote(p) ==
    /\ pc[p] = "promote"
    /\ dir' = [dir EXCEPT ![target[p]] = "run"]
    /\ Goes(p, "activate")
    /\ UNCHANGED <<atEnd, receipts, active, lease, osLock, command, crashes>>

Activate(p) ==
    /\ pc[p] = "activate"
    /\ active' = target[p]
    /\ Goes(p, "leave")
    /\ UNCHANGED <<dir, atEnd, receipts, lease, osLock, command, crashes>>

-----------------------------------------------------------------------------
\* Mutant: a session does not take up the ownership nobody has.
OwnerAssumed(p) ==
    /\ pc[p] = "own"
    /\ Goes(p, IF target[p] \in atEnd THEN "receipt"
               ELSE IF active \in {None, target[p]} THEN "session" ELSE "leave")
    /\ UNCHANGED <<dir, atEnd, receipts, active, lease, osLock, command, crashes>>

\* _assert_session_ownership.  A run at END is finalized again by a library client
\* (RuntimeSession.recover) and only reported by WriteSliceRunner.resume.
AssertOwnership(p) ==
    LET r == target[p]
    IN  /\ pc[p] = "own"
        /\ IF r \in atEnd
             THEN (Goes(p, "receipt") \/ Goes(p, "leave")) /\ UNCHANGED active
             ELSE IF active \in {None, r}
               THEN active' = r /\ Goes(p, "session")
               ELSE Goes(p, "leave") /\ UNCHANGED active
        /\ UNCHANGED <<dir, atEnd, receipts, lease, osLock, command, crashes>>

\* The session commits the transition to END ...
ReachEnd(p) ==
    /\ pc[p] = "session"
    /\ atEnd' = atEnd \cup {target[p]}
    /\ Goes(p, "receipt")
    /\ UNCHANGED <<dir, receipts, active, lease, osLock, command, crashes>>

\* Mutant: a session finalizes its run wherever it stops.
FinalizeOnLeave(p) ==
    /\ pc[p] = "session"
    /\ Goes(p, "receipt")
    /\ UNCHANGED <<project, lease, osLock, command, crashes>>

\* ... or stops before: a checkpoint, a bound, a blocked recovery, an error.
LeaveSession(p) ==
    /\ pc[p] = "session"
    /\ Goes(p, "leave")
    /\ UNCHANGED <<project, lease, osLock, command, crashes>>

\* _finalize writes final.json, once.
WriteReceipt(p) ==
    /\ pc[p] = "receipt"
    /\ receipts' = receipts \cup {target[p]}
    /\ Goes(p, "clear")
    /\ UNCHANGED <<dir, atEnd, active, lease, osLock, command, crashes>>

\* Mutant: whoever owns the project is cleared.
ClearAnyActive(p) ==
    /\ pc[p] = "clear"
    /\ active' = None
    /\ Goes(p, "leave")
    /\ UNCHANGED <<dir, atEnd, receipts, lease, osLock, command, crashes>>

\* _clear_active_run clears its own run's ownership only.
ClearActive(p) ==
    /\ pc[p] = "clear"
    /\ active' = IF active = target[p] THEN None ELSE active
    /\ Goes(p, "leave")
    /\ UNCHANGED <<dir, atEnd, receipts, lease, osLock, command, crashes>>

-----------------------------------------------------------------------------
\* A process dies: the system drops its file lock, lock.json stays.
Crash(p) ==
    /\ pc[p] # "idle" /\ crashes < MaxCrashes
    /\ osLock' = IF osLock = p THEN None ELSE osLock
    /\ Goes(p, "idle")
    /\ crashes' = crashes + 1
    /\ UNCHANGED <<project, lease, command>>

\* A write of a command raises: the lock is released on the way out.
Fail(p) ==
    /\ Inside(p) /\ crashes < MaxCrashes
    /\ Goes(p, "leave")
    /\ crashes' = crashes + 1
    /\ UNCHANGED <<project, lease, osLock, command>>

Locking(p) == TryLock(p) \/ TakeLease(p) \/ RemoveLease(p) \/ Unlock(p)

Starting(p) == EnforceActiveRun(p) \/ Stage(p) \/ Promote(p) \/ Activate(p)

Working(p) ==
    \/ AssertOwnership(p) \/ ReachEnd(p) \/ LeaveSession(p)
    \/ WriteReceipt(p) \/ ClearActive(p)

Proceed(p) == Locking(p) \/ Starting(p) \/ Working(p)

Next ==
    \E p \in Processes :
        \/ \E o \in Operations, r \in RunIds : Call(p, o, r)
        \/ Proceed(p)
        \/ Crash(p) \/ Fail(p)

Spec == Init /\ [][Next]_vars

\* Whoever is alive goes on with a command, and every promoted run is resumed by
\* somebody, again and again; no single process is promised a turn.
FairSpec ==
    /\ Spec
    /\ WF_vars(\E p \in Processes : Proceed(p))
    /\ \A r \in RunIds : SF_vars(\E p \in Processes : Call(p, "resume", r))

\* Every initialization is retried as well, again and again.
RetriedSpec ==
    /\ FairSpec
    /\ \A r \in RunIds : SF_vars(\E p \in Processes : Call(p, "reinit", r))

-----------------------------------------------------------------------------
(* The files and the processes hold what their types say, and only a run at    *)
(* END has terminal evidence (coordinator.py, locking.py).                     *)
TypeOK ==
    /\ dir \in [RunIds -> {"none", "staging", "run"}]
    /\ atEnd \subseteq RunIds /\ receipts \subseteq atEnd
    /\ active \in RunIds \cup {None} /\ lease \in RunIds \cup {None}
    /\ osLock \in Processes \cup {None}
    /\ pc \in [Processes -> {"idle", "lock", "lease", "enforce", "stage", "promote", "activate",
                             "own", "session", "receipt", "clear", "leave", "unlock"}]
    /\ op \in [Processes -> Operations]
    /\ target \in [Processes -> RunIds \cup {None}]
    /\ crashes \in Nat

(* Whoever works on the project holds the advisory lock, and lock.json names   *)
(* the run it works on: no other command's lease is ever overwritten or        *)
(* removed under a living writer (ProjectLock).                                *)
LeaseNamesWriter ==
    \A p \in Processes : Inside(p) => osLock = p /\ lease = target[p]

(* "Each project permits one unfinished writer run" (README.md:159), whatever  *)
(* start_run died between promotion and activation.                            *)
OneUnfinishedRun ==
    \A r, s \in Unfinished : r = s

(* A run that can still change owns the project whenever a session of it is    *)
(* open, and the owner is always a promoted run.                               *)
OwnerOfProject ==
    /\ active # None => dir[active] = "run"
    /\ \A p \in Processes : pc[p] = "session" => active = target[p]

(* A stale lease is only ever taken over by a resume of the run that left it:  *)
(* lock.json never changes from one run to another (StaleLeaseMismatchError).  *)
LeaseTakenOverByItsRun ==
    [][lease # None /\ lease' # None => lease' = lease]_vars

(* The project changes its owner only when the owner has terminal evidence:    *)
(* neither a start, nor a session of another run that is finalized once more,  *)
(* takes it from a run that can still change.                                  *)
OwnerKeptUntilDone ==
    [][active # None /\ active' # active => active \in receipts]_vars

(* The lease a dead writer left on a promoted run goes away: as soon as the    *)
(* other processes leave the project alone, one of the resumes of that run     *)
(* takes it over and removes it (locking.py acquire in recovery mode).         *)
StaleLeaseCleared ==
    \A p \in Processes :
        <>[](\A q \in Processes \ {p} : pc[q] = "idle")
            => \A r \in RunIds : (lease = r /\ dir[r] = "run") ~> (lease # r)

(* "incomplete initialization remains in preserved staging until an explicit   *)
(* library recovery call retries it" (README.md:159-160): retried again and    *)
(* again, an initialization does not stay incomplete.                          *)
InitializationRetried ==
    \A r \in RunIds : (dir[r] = "staging") ~> (dir[r] # "staging")
=============================================================================
