------------------------ MODULE ProcessRunnerProofs ------------------------
(* ProcessRunner: the child of a call is collected, and the receipt tells what happened, *)
(* for any number of exceptions.                                                         *)
EXTENDS ProcessRunner, TLAPS

Early == {"begin", "spawn"}

\* Where the child is, by the step the call is at.
ChildByStep ==
    /\ pc \in Early => child.is = "none"
    /\ pc \in Monitoring \cup Terminating \cup {"started"} => child.is # "none"
    /\ pc \in {"collect", "read"} => child.is = "reaped"
    /\ Exited <=> child.code # "none"

\* What was sent to it: nothing before _terminate, and SIGKILL only at its end.
SignalsByStep ==
    /\ pc \in Early \cup Monitoring \cup {"started"} => ~asked /\ ~killed
    /\ pc \in {"terminate", "signal", "grace", "gone", "kill"} /\ ending # "raised" => ~killed
    /\ pc = "killed" /\ ending # "raised" => killed

\* What the call is going to say.
EndingByStep ==
    /\ pc \in Early \cup Monitoring \cup {"started"} => ending = "none"
    /\ pc \in Terminating => ending # "none"
    /\ ending = "CANCELLED" => cancelled
    /\ ending = "TIMED_OUT" => late

\* The verdict, from the moment there is one.
Judged ==
    /\ result.status \in {"SUCCEEDED", "FAILED"} =>
         /\ result.termination = "none" /\ ~asked
         /\ (result.status = "SUCCEEDED") <=> (child.code = "zero")
    /\ result.status = "TIMED_OUT" => late
    /\ result.status = "CANCELLED" => cancelled
    /\ (result.termination = "not_started") <=> (child.is = "none")
    /\ (result.termination = "forced") <=> killed

JudgedByStep ==
    /\ pc \in {"read", "done"} => result.status # "none"
    /\ pc = "read" => Judged /\ result.status # "raised"
    /\ pc = "done" /\ result.status # "raised" => Judged /\ child.is \in {"none", "reaped"}

\* The exceptions _monitor's handler catches leave no child behind.
Collected ==
    pc = "done" /\ hit \notin {"started", "handler"} => child.is \in {"none", "reaped"}

IInv ==
    /\ TypeOK
    /\ ChildByStep /\ SignalsByStep /\ EndingByStep /\ JudgedByStep /\ Collected

-----------------------------------------------------------------------------
USE InterruptsAssumption

(* The first state: nothing was started, nothing was said.                               *)
LEMMA InitIInv == Init => IInv
<1> SUFFICES ASSUME Init PROVE IInv
  OBVIOUS
<1> USE DEF Init, NoResult, Early, Monitoring, Terminating, Exited, Codes
<1>1. patience \in BOOLEAN /\ late \in BOOLEAN /\ asked \in BOOLEAN /\ killed \in BOOLEAN
  BY Zenon
<1>2. TypeOK
  BY <1>1 DEF TypeOK
<1>3. ChildByStep /\ SignalsByStep
  BY DEF ChildByStep, SignalsByStep
<1>4. EndingByStep /\ JudgedByStep /\ Collected
  BY DEF EndingByStep, JudgedByStep, Collected
<1>5. QED
  BY <1>2, <1>3, <1>4 DEF IInv

(* The invariant survives every step of the call, of the child, of time and of whoever   *)
(* interrupts.                                                                           *)
LEMMA NextIInv == IInv /\ [Next]_vars => IInv'
<1> SUFFICES ASSUME IInv, [Next]_vars PROVE IInv'
  OBVIOUS
<1> USE DEF IInv, TypeOK, ChildByStep, SignalsByStep, EndingByStep, JudgedByStep, Judged,
            Collected, Early, Monitoring, Terminating, Exited, Codes,
            quiet, thread, signals, clock, faults
<1>1. CASE Begin
  BY <1>1 DEF Begin, Go, Return
<1>2. CASE Spawn
  BY <1>2 DEF Spawn, Go
<1>3. CASE SpawnFails
  BY <1>3 DEF SpawnFails, Raise, Return
<1>4. CASE EnterMonitor
  BY <1>4 DEF EnterMonitor, Go
<1>5. CASE Poll
  BY <1>5 DEF Poll, Go, TryReap, Reap
<1>6. CASE CheckCancellation
  BY <1>6 DEF CheckCancellation, Go
<1>7. CASE CheckDeadline
  BY <1>7 DEF CheckDeadline, Go
<1>8. CASE Sleep
  BY <1>8 DEF Sleep, Go
<1>9. CASE Collect
  BY <1>9 DEF Collect, Verdict
<1>10. CASE Terminate
  BY <1>10 DEF Terminate, Ended, Raise, Return, Verdict, TryReap, Reap
<1>11. CASE Signal
  <2>1. patience' \in BOOLEAN /\ asked' \in BOOLEAN
    BY <1>11, Zenon DEF Signal
  <2>2. TypeOK'
    BY <1>11, <2>1 DEF Signal
  <2>3. ChildByStep' /\ SignalsByStep'
    BY <1>11, <2>1 DEF Signal
  <2>4. EndingByStep' /\ JudgedByStep' /\ Collected'
    BY <1>11, <2>1 DEF Signal
  <2>5. QED
    BY <2>2, <2>3, <2>4
<1>12. CASE Obeyed
  BY <1>12 DEF Obeyed, Reap, Ended, Raise, Return, Verdict
<1>13. CASE GraceIsOver
  BY <1>13 DEF GraceIsOver, Go
<1>14. CASE Kill
  BY <1>14 DEF Kill, Go
<1>15. CASE ReapKilled
  BY <1>15 DEF ReapKilled, Reap, Ended, Raise, Return, Verdict
<1>16. CASE ReadOutput
  BY <1>16 DEF ReadOutput
<1>17. CASE ReadFails
  BY <1>17 DEF ReadFails, Raise, Return
<1>18. CASE Interrupt
  BY <1>18 DEF Interrupt, Place, Handle, Raise, Return, TryReap, Reap
<1>19. CASE \E code \in Codes : Exits(code)
  <2>1. PICK code \in Codes : Exits(code)
    BY <1>19
  <2>2. UNCHANGED <<thread, signals, clock, cancelled, faults>>
    BY <2>1 DEF Exits
  <2>3. child.is = "running" /\ child' = [is |-> "zombie", code |-> code]
    BY <2>1 DEF Exits
  <2>4. TypeOK'
    BY <2>2, <2>3
  <2>5. ChildByStep' /\ SignalsByStep'
    BY <2>2, <2>3
  <2>6. EndingByStep' /\ JudgedByStep' /\ Collected'
    BY <2>2, <2>3
  <2>7. QED
    BY <2>4, <2>5, <2>6
<1>20. CASE Cancel
  BY <1>20 DEF Cancel
<1>21. CASE DeadlinePasses
  BY <1>21 DEF DeadlinePasses
<1>22. CASE GracePasses
  <2>1. patience' \in BOOLEAN
    BY <1>22, Zenon DEF GracePasses
  <2>2. TypeOK'
    BY <1>22, <2>1 DEF GracePasses
  <2>3. ChildByStep' /\ SignalsByStep'
    BY <1>22, <2>1 DEF GracePasses
  <2>4. EndingByStep' /\ JudgedByStep' /\ Collected'
    BY <1>22, <2>1 DEF GracePasses
  <2>5. QED
    BY <2>2, <2>3, <2>4
<1>23. CASE UNCHANGED vars
  BY <1>23 DEF vars
<1>24. QED
  BY <1>1, <1>2, <1>3, <1>4, <1>5, <1>6, <1>7, <1>8, <1>9, <1>10, <1>11, <1>12, <1>13, <1>14,
     <1>15, <1>16, <1>17, <1>18, <1>19, <1>20, <1>21, <1>22, <1>23 DEF Next, Call, Environment

-----------------------------------------------------------------------------
(* The types of one call, for every number of exceptions.                                *)
THEOREM CallTypeOK == Spec => []TypeOK
<1>1. IInv => TypeOK
  BY DEF IInv
<1>2. QED
  BY InitIInv, NextIInv, <1>1, PTL DEF Spec

(* "always reap started children": no child outlives its call, unless an exception hits  *)
(* the moment before _monitor's try, or its handler.                                     *)
THEOREM ChildIsReaped == Spec => []ChildReaped
<1>1. IInv => ChildReaped
  BY DEF IInv, Collected, ChildReaped
<1>2. QED
  BY InitIInv, NextIInv, <1>1, PTL DEF Spec

(* The receipt of a call that returns tells what happened to its child.                  *)
THEOREM ReceiptIsTrue == Spec => []ReportedTruly
<1>1. IInv => ReportedTruly
  BY DEF IInv, JudgedByStep, Judged, ReportedTruly
<1>2. QED
  BY InitIInv, NextIInv, <1>1, PTL DEF Spec

-----------------------------------------------------------------------------
\* What the call waits for is there, or will be.
WaitInv ==
    /\ pc = "gone" => Exited
    /\ pc = "killed" => killed

\* How far a call is from its end once it was cancelled, or once its deadline has passed.
AfterCancel ==
    [begin |-> 13, spawn |-> 12, started |-> 11, deadline |-> 10, sleep |-> 9, poll |-> 8,
     cancellation |-> 7, terminate |-> 6, signal |-> 5, grace |-> 4, gone |-> 4, kill |-> 3,
     killed |-> 2, collect |-> 2, read |-> 1, done |-> 0]

AfterDeadline ==
    [begin |-> 13, spawn |-> 12, started |-> 11, sleep |-> 10, poll |-> 9, cancellation |-> 8,
     deadline |-> 7, terminate |-> 6, signal |-> 5, grace |-> 4, gone |-> 4, kill |-> 3,
     killed |-> 2, collect |-> 2, read |-> 1, done |-> 0]

LEMMA InitWaitInv == Init => WaitInv
  BY DEF Init, WaitInv

LEMMA NextWaitInv == IInv /\ WaitInv /\ [Next]_vars => WaitInv'
<1> SUFFICES ASSUME IInv, WaitInv, [Next]_vars PROVE WaitInv'
  OBVIOUS
<1> USE DEF WaitInv, Exited, quiet, thread, signals, clock, faults
<1>1. CASE Call /\ pc' \notin {"gone", "killed"}
  BY <1>1
<1>2. CASE Call /\ pc' = "gone"
  <2>1. Signal /\ child.is = "zombie"
    BY <1>2 DEF Call, Begin, Spawn, SpawnFails, EnterMonitor, Poll, CheckCancellation,
                CheckDeadline, Sleep, Collect, Terminate, Signal, Obeyed, GraceIsOver, Kill,
                ReapKilled, ReadOutput, ReadFails, Go, Return, Raise, Verdict, Ended
  <2>2. QED
    BY <1>2, <2>1 DEF Signal
<1>3. CASE Call /\ pc' = "killed"
  <2>1. Kill
    BY <1>3 DEF Call, Begin, Spawn, SpawnFails, EnterMonitor, Poll, CheckCancellation,
                CheckDeadline, Sleep, Collect, Terminate, Signal, Obeyed, GraceIsOver, Kill,
                ReapKilled, ReadOutput, ReadFails, Go, Return, Raise, Verdict, Ended
  <2>2. QED
    BY <1>3, <2>1 DEF Kill
<1>4. CASE Interrupt
  BY <1>4 DEF Interrupt, Handle, Raise, Return
<1>5. CASE Environment
  <2>1. UNCHANGED <<pc, killed>>
    BY <1>5 DEF Environment, Exits, Cancel, DeadlinePasses, GracePasses
  <2>2. Exited => Exited'
    BY <1>5 DEF Environment, Exits, Cancel, DeadlinePasses, GracePasses
  <2>3. QED
    BY <2>1, <2>2
<1>6. CASE UNCHANGED vars
  BY <1>6 DEF vars
<1>7. QED
  BY <1>1, <1>2, <1>3, <1>4, <1>5, <1>6 DEF Next

(* Every step of a call that was cancelled, or is late, brings it nearer to its end.      *)
LEMMA CallAdvances ==
    ASSUME IInv, Call
    PROVE  /\ cancelled => AfterCancel[pc'] < AfterCancel[pc]
           /\ late => AfterDeadline[pc'] < AfterDeadline[pc]
<1> USE DEF AfterCancel, AfterDeadline, Go, Raise, Return, Verdict, Ended
<1>1. CASE Begin \/ Spawn \/ SpawnFails \/ EnterMonitor
  BY <1>1 DEF Begin, Spawn, SpawnFails, EnterMonitor
<1>2. CASE Poll
  BY <1>2 DEF Poll
<1>3. CASE CheckCancellation \/ CheckDeadline
  BY <1>3 DEF CheckCancellation, CheckDeadline
<1>4. CASE Sleep \/ Collect
  BY <1>4 DEF Sleep, Collect
<1>5. CASE Terminate
  BY <1>5 DEF Terminate
<1>6. CASE Signal \/ GraceIsOver \/ Kill
  BY <1>6 DEF Signal, GraceIsOver, Kill
<1>7. CASE Obeyed
  BY <1>7 DEF Obeyed
<1>8. CASE ReapKilled
  BY <1>8 DEF ReapKilled
<1>9. CASE ReadOutput \/ ReadFails
  BY <1>9 DEF ReadOutput, ReadFails
<1>10. QED
  BY <1>1, <1>2, <1>3, <1>4, <1>5, <1>6, <1>7, <1>8, <1>9 DEF Call

(* A call waits for its child only when the child has exited or SIGKILL was sent to it.   *)
THEOREM NothingIsAwaitedInVain == Spec => []WaitInv
<1>1. QED
  BY InitIInv, NextIInv, InitWaitInv, NextWaitInv, PTL DEF Spec

(* A call that was cancelled, or whose deadline has passed, winds up: no step of its      *)
(* thread leads back, so that fewer than fourteen of them end it unless an asynchronous   *)
(* exception is raised in it, whatever its child does meanwhile.                           *)
THEOREM CallsWindUp ==
    Spec => [][Call => /\ cancelled => AfterCancel[pc'] < AfterCancel[pc]
                       /\ late => AfterDeadline[pc'] < AfterDeadline[pc]]_vars
<1>1. IInv /\ [Next]_vars =>
        [Call => /\ cancelled => AfterCancel[pc'] < AfterCancel[pc]
                 /\ late => AfterDeadline[pc'] < AfterDeadline[pc]]_vars
  BY CallAdvances
<1>2. QED
  BY InitIInv, NextIInv, <1>1, PTL DEF Spec
=============================================================================
