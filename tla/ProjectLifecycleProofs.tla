----------------------- MODULE ProjectLifecycleProofs -----------------------
(***************************************************************************)
(* ProjectLifecycle's safety, for any number of processes and runs and any *)
(* bound on crashes.                                                       *)
(***************************************************************************)
EXTENDS ProjectLifecycle, TLAPS

\* The project lock: from the moment a command has it, the lock is its own; from
\* the moment its lease is written, lock.json names its run.
LockInv ==
    \A p \in Processes :
        /\ pc[p] \notin {"idle", "lock"} => osLock = p
        /\ Inside(p) \/ pc[p] = "leave" => lease = target[p]
        /\ pc[p] # "idle" => target[p] \in RunIds

\* What a command knows of its run at each point.
RunInv ==
    \A p \in Processes :
        /\ pc[p] \in {"stage", "promote"} =>
              active = None /\ Unfinished = {} /\ dir[target[p]] # "run"
        /\ pc[p] = "activate" =>
              active = None /\ dir[target[p]] = "run"
        /\ op[p] \in {"open", "resume"} /\ pc[p] # "idle" => dir[target[p]] = "run"
        /\ pc[p] \in {"own", "session", "receipt", "clear"} => op[p] \in {"open", "resume"}
        /\ pc[p] = "session" => active = target[p] /\ target[p] \notin atEnd
        /\ pc[p] = "receipt" => target[p] \in atEnd
        /\ pc[p] = "clear" => target[p] \in receipts

IInv ==
    /\ TypeOK
    /\ LockInv
    /\ RunInv
    /\ OneUnfinishedRun
    /\ active # None => dir[active] = "run"

-----------------------------------------------------------------------------
(* A step keeps the inductive invariant. *)
LEMMA StepKeepsInv == ASSUME IInv, [Next]_vars PROVE IInv'
<1> USE NoneAssumption, BoundAssumption
<1> USE DEF IInv, TypeOK, LockInv, RunInv, OneUnfinishedRun, Unfinished, Inside, Goes,
            project, command, Operations, vars
<1>1. ASSUME NEW p \in Processes, NEW o \in Operations, NEW r \in RunIds, Call(p, o, r) PROVE IInv'
  <2>1. TypeOK' BY <1>1 DEF Call
  <2>2. LockInv' BY <1>1 DEF Call
  <2>3. RunInv' BY <1>1 DEF Call
  <2>4. OneUnfinishedRun' /\ (active' # None => dir'[active'] = "run") BY <1>1 DEF Call
  <2> QED BY <2>1, <2>2, <2>3, <2>4
<1>2. ASSUME NEW p \in Processes, TryLock(p) PROVE IInv'
  <2>1. TypeOK' BY <1>2 DEF TryLock
  <2>2. LockInv' BY <1>2 DEF TryLock
  <2>3. RunInv' BY <1>2 DEF TryLock
  <2>4. OneUnfinishedRun' /\ (active' # None => dir'[active'] = "run") BY <1>2 DEF TryLock
  <2> QED BY <2>1, <2>2, <2>3, <2>4
<1>3. ASSUME NEW p \in Processes, TakeLease(p) PROVE IInv'
  <2>1. TypeOK' BY <1>3 DEF TakeLease, LeaseAdmits
  <2>2. LockInv' BY <1>3 DEF TakeLease, LeaseAdmits
  <2>3. RunInv' BY <1>3 DEF TakeLease, LeaseAdmits
  <2>4. OneUnfinishedRun' /\ (active' # None => dir'[active'] = "run")
    BY <1>3 DEF TakeLease, LeaseAdmits
  <2> QED BY <2>1, <2>2, <2>3, <2>4
<1>4. ASSUME NEW p \in Processes, RemoveLease(p) PROVE IInv'
  <2>1. TypeOK' BY <1>4 DEF RemoveLease
  <2>2. LockInv' BY <1>4 DEF RemoveLease
  <2>3. RunInv' BY <1>4 DEF RemoveLease
  <2>4. OneUnfinishedRun' /\ (active' # None => dir'[active'] = "run") BY <1>4 DEF RemoveLease
  <2> QED BY <2>1, <2>2, <2>3, <2>4
<1>5. ASSUME NEW p \in Processes, Unlock(p) PROVE IInv'
  <2>1. TypeOK' BY <1>5 DEF Unlock
  <2>2. LockInv' BY <1>5 DEF Unlock
  <2>3. RunInv' BY <1>5 DEF Unlock
  <2>4. OneUnfinishedRun' /\ (active' # None => dir'[active'] = "run") BY <1>5 DEF Unlock
  <2> QED BY <2>1, <2>2, <2>3, <2>4
<1>6. ASSUME NEW p \in Processes, EnforceActiveRun(p) PROVE IInv'
  <2>1. TypeOK' BY <1>6 DEF EnforceActiveRun, OwnerUnfinished
  <2>2. LockInv' BY <1>6 DEF EnforceActiveRun, OwnerUnfinished
  <2>3. RunInv' BY <1>6 DEF EnforceActiveRun, OwnerUnfinished
  <2>4. OneUnfinishedRun' /\ (active' # None => dir'[active'] = "run")
    BY <1>6 DEF EnforceActiveRun, OwnerUnfinished
  <2> QED BY <2>1, <2>2, <2>3, <2>4
<1>7. ASSUME NEW p \in Processes, Stage(p) PROVE IInv'
  <2>1. TypeOK' BY <1>7 DEF Stage
  <2>2. LockInv' BY <1>7 DEF Stage
  <2>3. RunInv' BY <1>7 DEF Stage
  <2>4. OneUnfinishedRun' /\ (active' # None => dir'[active'] = "run") BY <1>7 DEF Stage
  <2> QED BY <2>1, <2>2, <2>3, <2>4
<1>8. ASSUME NEW p \in Processes, Promote(p) PROVE IInv'
  <2>1. TypeOK' BY <1>8 DEF Promote
  <2>2. LockInv' BY <1>8 DEF Promote
  <2>3. RunInv' BY <1>8 DEF Promote
  <2>4. OneUnfinishedRun' /\ (active' # None => dir'[active'] = "run") BY <1>8 DEF Promote
  <2> QED BY <2>1, <2>2, <2>3, <2>4
<1>9. ASSUME NEW p \in Processes, Activate(p) PROVE IInv'
  <2>1. TypeOK' BY <1>9 DEF Activate
  <2>2. LockInv' BY <1>9 DEF Activate
  <2>3. RunInv' BY <1>9 DEF Activate
  <2>4. OneUnfinishedRun' /\ (active' # None => dir'[active'] = "run") BY <1>9 DEF Activate
  <2> QED BY <2>1, <2>2, <2>3, <2>4
<1>10. ASSUME NEW p \in Processes, AssertOwnership(p) PROVE IInv'
  <2>1. TypeOK' BY <1>10 DEF AssertOwnership
  <2>2. LockInv' BY <1>10 DEF AssertOwnership
  <2>3. RunInv' BY <1>10 DEF AssertOwnership
  <2>4. OneUnfinishedRun' /\ (active' # None => dir'[active'] = "run") BY <1>10 DEF AssertOwnership
  <2> QED BY <2>1, <2>2, <2>3, <2>4
<1>11. ASSUME NEW p \in Processes, ReachEnd(p) PROVE IInv'
  <2>1. TypeOK' BY <1>11 DEF ReachEnd
  <2>2. LockInv' BY <1>11 DEF ReachEnd
  <2>3. RunInv' BY <1>11 DEF ReachEnd
  <2>4. OneUnfinishedRun' /\ (active' # None => dir'[active'] = "run") BY <1>11 DEF ReachEnd
  <2> QED BY <2>1, <2>2, <2>3, <2>4
<1>12. ASSUME NEW p \in Processes, LeaveSession(p) PROVE IInv'
  <2>1. TypeOK' BY <1>12 DEF LeaveSession
  <2>2. LockInv' BY <1>12 DEF LeaveSession
  <2>3. RunInv' BY <1>12 DEF LeaveSession
  <2>4. OneUnfinishedRun' /\ (active' # None => dir'[active'] = "run") BY <1>12 DEF LeaveSession
  <2> QED BY <2>1, <2>2, <2>3, <2>4
<1>13. ASSUME NEW p \in Processes, WriteReceipt(p) PROVE IInv'
  <2>1. TypeOK' BY <1>13 DEF WriteReceipt
  <2>2. LockInv' BY <1>13 DEF WriteReceipt
  <2>3. RunInv' BY <1>13 DEF WriteReceipt
  <2>4. OneUnfinishedRun' /\ (active' # None => dir'[active'] = "run") BY <1>13 DEF WriteReceipt
  <2> QED BY <2>1, <2>2, <2>3, <2>4
<1>14. ASSUME NEW p \in Processes, ClearActive(p) PROVE IInv'
  <2>1. TypeOK' BY <1>14 DEF ClearActive
  <2>2. LockInv' BY <1>14 DEF ClearActive
  <2>3. RunInv' BY <1>14 DEF ClearActive
  <2>4. OneUnfinishedRun' /\ (active' # None => dir'[active'] = "run") BY <1>14 DEF ClearActive
  <2> QED BY <2>1, <2>2, <2>3, <2>4
<1>15. ASSUME NEW p \in Processes, Crash(p) PROVE IInv'
  <2>1. TypeOK' BY <1>15 DEF Crash
  <2>2. LockInv' BY <1>15 DEF Crash
  <2>3. RunInv' BY <1>15 DEF Crash
  <2>4. OneUnfinishedRun' /\ (active' # None => dir'[active'] = "run") BY <1>15 DEF Crash
  <2> QED BY <2>1, <2>2, <2>3, <2>4
<1>16. ASSUME NEW p \in Processes, Fail(p) PROVE IInv'
  <2>1. TypeOK' BY <1>16 DEF Fail
  <2>2. LockInv' BY <1>16 DEF Fail
  <2>3. RunInv' BY <1>16 DEF Fail
  <2>4. OneUnfinishedRun' /\ (active' # None => dir'[active'] = "run") BY <1>16 DEF Fail
  <2> QED BY <2>1, <2>2, <2>3, <2>4
<1>17. CASE UNCHANGED vars BY <1>17
<1> HIDE DEF IInv
<1> QED
  BY <1>1, <1>2, <1>3, <1>4, <1>5, <1>6, <1>7, <1>8, <1>9, <1>10, <1>11, <1>12, <1>13, <1>14, <1>15,
     <1>16, <1>17
     DEF Next, Proceed, Locking, Starting, Working

-----------------------------------------------------------------------------
LEMMA Invariant == Spec => []IInv
<1>1. Init => IInv
  BY NoneAssumption, BoundAssumption
     DEF Init, IInv, TypeOK, LockInv, RunInv, OneUnfinishedRun, Unfinished, Inside, Operations
<1>2. IInv /\ [Next]_vars => IInv' BY StepKeepsInv
<1> QED BY <1>1, <1>2, PTL DEF Spec

(* The files and processes keep their types; only a run at END has a receipt. *)
THEOREM TypeCorrect == Spec => []TypeOK
<1> IInv => TypeOK BY DEF IInv
<1> QED BY Invariant, PTL

(* Whoever works on the project holds the lock, and lock.json names its run:   *)
(* ProjectLock excludes every other writer, whoever died before.               *)
THEOREM LeaseIsWriters == Spec => []LeaseNamesWriter
<1> IInv => LeaseNamesWriter BY DEF IInv, LockInv, LeaseNamesWriter, Inside
<1> QED BY Invariant, PTL

(* At most one promoted run lacks terminal evidence, whatever died when.       *)
THEOREM OneUnfinished == Spec => []OneUnfinishedRun
<1> IInv => OneUnfinishedRun BY DEF IInv
<1> QED BY Invariant, PTL

(* The owner is a promoted run, and an open session's run is the owner.        *)
THEOREM OwnerIsSessions == Spec => []OwnerOfProject
<1> IInv => OwnerOfProject BY DEF IInv, RunInv, OwnerOfProject
<1> QED BY Invariant, PTL

(* No command takes the lease that another run's dead writer left.             *)
THEOREM LeaseKeptForItsRun == Spec => LeaseTakenOverByItsRun
<1>1. IInv /\ [Next]_vars => (lease # None /\ lease' # None => lease' = lease)
  BY DEF IInv, LockInv, Next, Proceed, Locking, Starting, Working, Call, TryLock, TakeLease,
         RemoveLease, Unlock, EnforceActiveRun, Stage, Promote, Activate, AssertOwnership,
         ReachEnd, LeaveSession, WriteReceipt, ClearActive, Crash, Fail, LeaseAdmits, vars
<1> QED BY <1>1, Invariant, PTL DEF Spec, LeaseTakenOverByItsRun

(* A run that can still change is never robbed of the project.                 *)
THEOREM OwnerKept == Spec => OwnerKeptUntilDone
<1>1. IInv /\ [Next]_vars => (active # None /\ active' # active => active \in receipts)
  BY DEF IInv, TypeOK, RunInv, Next, Proceed, Locking, Starting, Working, Call, TryLock,
         TakeLease, RemoveLease, Unlock, EnforceActiveRun, OwnerUnfinished, Stage, Promote,
         Activate, AssertOwnership, ReachEnd, LeaveSession, WriteReceipt, ClearActive, Crash, Fail,
         project, vars
<1> QED BY <1>1, Invariant, PTL DEF Spec, OwnerKeptUntilDone
=============================================================================
