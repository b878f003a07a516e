--------------------------- MODULE ProcessRunner ---------------------------
(***************************************************************************)
(* ProcessRunner.run of infra/process.py, under every git call, validator, *)
(* agent and remote of a run: one child in a process group of its own, a   *)
(* deadline, a cancellation from another thread, and an exception (Ctrl-C) *)
(* that may be raised in the calling thread between any two steps.  The    *)
(* child exits when it likes and may ignore SIGTERM.  Calls share nothing, *)
(* so one call is modelled.                                                *)
(*                                                                         *)
(* Time is two facts: the deadline has passed, and the grace period that   *)
(* follows SIGTERM is over.                                                *)
(***************************************************************************)
EXTENDS Naturals

CONSTANT
    MaxInterrupts     \* bound: how many exceptions hit the calling thread

ASSUME InterruptsAssumption == MaxInterrupts \in Nat

VARIABLES
    pc,          \* the next step of the calling thread
    ending,      \* what the call will say once the child has been terminated
    result,      \* status and termination of the receipt, or that the call raised
    child,       \* where the child is, and its exit code once it has one
    asked,       \* SIGTERM was sent
    killed,      \* SIGKILL was sent
    timed,       \* the command has a timeout
    late,        \* its deadline has passed
    patience,    \* the grace period is not over
    cancelled,   \* the cancellation token is set
    interrupts,
    hit          \* history: the code the last interrupt hit

signals == <<asked, killed>>
clock   == <<timed, late, patience>>
thread  == <<pc, ending, result>>
faults  == <<interrupts, hit>>
vars    == <<thread, child, signals, clock, cancelled, faults>>

Codes == {"zero", "other"}

NoResult == [status |-> "none", termination |-> "none"]

Init ==
    /\ pc = "begin" /\ ending = "none" /\ result = NoResult
    /\ child = [is |-> "none", code |-> "none"]
    /\ asked = FALSE /\ killed = FALSE
    /\ timed \in BOOLEAN /\ late = FALSE /\ patience = TRUE
    /\ cancelled \in BOOLEAN
    /\ interrupts = 0 /\ hit = "nowhere"

-----------------------------------------------------------------------------
Go(from, to) ==
    /\ pc = from
    /\ pc' = to

\* The child has a status to collect, and waitpid collects it.
Exited   == child.is \in {"zombie", "reaped"}
Reap     == child' = IF child.is = "zombie" THEN [child EXCEPT !.is = "reaped"] ELSE child
TryReap  == IF Exited THEN Reap ELSE UNCHANGED child

Return(status, termination) ==
    /\ pc' = "done"
    /\ result' = [status |-> status, termination |-> termination]

Raise == Return("raised", "unknown")

\* The monitor has its verdict; run() reads the output and builds the receipt.
Verdict(status, termination) ==
    /\ pc' = "read"
    /\ result' = [status |-> status, termination |-> termination]

\* What the handler of _monitor caught is raised again.
Ended(termination) ==
    IF ending = "raised" THEN Raise ELSE Verdict(ending, termination)

quiet == <<signals, clock, cancelled, faults>>

-----------------------------------------------------------------------------
\* run: a call that is cancelled starts nothing.
Begin ==
    /\ IF cancelled THEN pc = "begin" /\ Return("CANCELLED", "not_started")
                    ELSE Go("begin", "spawn") /\ UNCHANGED result
    /\ UNCHANGED <<ending, child, quiet>>

Spawn ==
    /\ Go("spawn", "started")
    /\ child' = [child EXCEPT !.is = "running"]
    /\ UNCHANGED <<ending, result, quiet>>

\* ProcessStartError
SpawnFails ==
    /\ pc = "spawn" /\ Raise
    /\ UNCHANGED <<ending, child, quiet>>

EnterMonitor ==
    /\ Go("started", "poll")
    /\ UNCHANGED <<ending, result, child, quiet>>

\* _monitor: poll, then the cancellation, then the deadline, then sleep.
Poll ==
    /\ Go("poll", IF Exited THEN "collect" ELSE "cancellation")
    /\ TryReap
    /\ UNCHANGED <<ending, result, quiet>>

CheckCancellation ==
    /\ Go("cancellation", IF cancelled THEN "terminate" ELSE "deadline")
    /\ ending' = IF cancelled THEN "CANCELLED" ELSE ending
    /\ UNCHANGED <<result, child, quiet>>

CheckDeadline ==
    /\ Go("deadline", IF late THEN "terminate" ELSE "sleep")
    /\ ending' = IF late THEN "TIMED_OUT" ELSE ending
    /\ UNCHANGED <<result, child, quiet>>

Sleep ==
    /\ Go("sleep", "poll")
    /\ UNCHANGED <<ending, result, child, quiet>>

Collect ==
    /\ pc = "collect"
    /\ Verdict(IF child.code = "zero" THEN "SUCCEEDED" ELSE "FAILED", "none")
    /\ UNCHANGED <<ending, child, quiet>>

\* _terminate: nothing to do for a child that exited meanwhile.
Terminate ==
    /\ pc = "terminate"
    /\ IF Exited THEN Ended("graceful") ELSE pc' = "signal" /\ UNCHANGED result
    /\ TryReap
    /\ UNCHANGED <<ending, quiet>>

\* killpg(SIGTERM); there may be no group any more.
Signal ==
    /\ pc = "signal"
    /\ \/ pc' = "grace" /\ asked' = TRUE
       \/ child.is = "zombie" /\ pc' = "gone" /\ UNCHANGED asked
    /\ patience' = TRUE
    /\ UNCHANGED <<ending, result, child, killed, timed, late, cancelled, faults>>

\* wait: the child exits within the grace period, or is gone.
Obeyed ==
    /\ pc \in {"grace", "gone"} /\ Exited
    /\ Reap
    /\ Ended("graceful")
    /\ UNCHANGED <<ending, quiet>>

GraceIsOver ==
    /\ ~patience /\ ~Exited
    /\ Go("grace", "kill")
    /\ UNCHANGED <<ending, result, child, quiet>>

\* Mutant: the last signal is one the child may ignore.
KillPolitely ==
    /\ Go("kill", "killed")
    /\ asked' = TRUE
    /\ UNCHANGED <<ending, result, child, killed, clock, cancelled, faults>>

Kill ==
    /\ Go("kill", "killed")
    /\ killed' = TRUE
    /\ UNCHANGED <<ending, result, child, asked, clock, cancelled, faults>>

\* Mutant: a child that had to be killed is reported as one that obeyed.
KilledGracefully ==
    /\ pc = "killed" /\ Exited
    /\ Reap
    /\ Ended("graceful")
    /\ UNCHANGED <<ending, quiet>>

ReapKilled ==
    /\ pc = "killed" /\ Exited
    /\ Reap
    /\ Ended("forced")
    /\ UNCHANGED <<ending, quiet>>

\* The bounded output is read, or ProcessOutputError.
ReadOutput ==
    /\ pc = "read"
    /\ pc' = "done" /\ UNCHANGED result
    /\ UNCHANGED <<ending, child, quiet>>

ReadFails ==
    /\ pc = "read" /\ Raise
    /\ UNCHANGED <<ending, child, quiet>>

-----------------------------------------------------------------------------
Terminating == {"terminate", "signal", "grace", "gone", "kill", "killed"}
Monitoring  == {"poll", "cancellation", "deadline", "sleep", "collect"}

\* The code an exception hits: inside _monitor's try, inside its handler, or neither.
Place ==
    CASE pc \in Terminating /\ ending = "raised" -> "handler"
      [] pc \in Monitoring \/ (pc \in Terminating /\ ending # "raised") -> "monitor"
      [] OTHER -> pc

\* Mutant: only a child that has not been signalled yet is terminated.
TerminatesUnsignalled == IF Exited \/ asked THEN Raise ELSE pc' = "terminate" /\ UNCHANGED result

\* except BaseException: a child that still runs is terminated, any other is reaped.
Handle == IF Exited THEN Raise ELSE pc' = "terminate" /\ UNCHANGED result

\* Exceptions reach the caller; _monitor's handler ends the child first.
Interrupt ==
    /\ interrupts < MaxInterrupts /\ interrupts' = interrupts + 1
    /\ pc # "done"
    /\ hit' = Place
    /\ IF Place = "monitor"
         THEN Handle /\ TryReap /\ ending' = "raised"
         ELSE Raise /\ UNCHANGED <<child, ending>>
    /\ UNCHANGED <<signals, clock, cancelled>>

-----------------------------------------------------------------------------
\* The child: it exits when it likes, at SIGTERM if it likes, and at SIGKILL.
Exits(code) ==
    /\ child.is = "running"
    /\ child' = [is |-> "zombie", code |-> code]
    /\ UNCHANGED <<thread, signals, clock, cancelled, faults>>

DiesKilled == killed /\ Exits("other")

Cancel ==
    /\ cancelled' = TRUE
    /\ UNCHANGED <<thread, child, signals, clock, faults>>

DeadlinePasses ==
    /\ timed /\ late' = TRUE
    /\ UNCHANGED <<thread, child, signals, timed, patience, cancelled, faults>>

GracePasses ==
    /\ pc = "grace" /\ patience' = FALSE
    /\ UNCHANGED <<thread, child, signals, timed, late, cancelled, faults>>

-----------------------------------------------------------------------------
Call ==
    \/ Begin \/ Spawn \/ SpawnFails \/ EnterMonitor
    \/ Poll \/ CheckCancellation \/ CheckDeadline \/ Sleep \/ Collect
    \/ Terminate \/ Signal \/ Obeyed \/ GraceIsOver \/ Kill \/ ReapKilled
    \/ ReadOutput \/ ReadFails

Environment ==
    \/ \E code \in Codes : Exits(code)
    \/ Cancel \/ DeadlinePasses \/ GracePasses

Next == Call \/ Interrupt \/ Environment

Spec == Init /\ [][Next]_vars

\* The thread runs, time passes, and SIGKILL kills.
FairSpec ==
    /\ Spec
    /\ WF_vars(Call) /\ WF_vars(DeadlinePasses) /\ WF_vars(GracePasses) /\ WF_vars(DiesKilled)

-----------------------------------------------------------------------------
(* Every variable keeps its type, and an exit code is there when the child exited.      *)
TypeOK ==
    /\ pc \in Terminating \cup Monitoring \cup {"begin", "spawn", "started", "read", "done"}
    /\ ending \in {"none", "CANCELLED", "TIMED_OUT", "raised"}
    /\ result \in
         [status : {"none", "SUCCEEDED", "FAILED", "CANCELLED", "TIMED_OUT", "raised"},
          termination : {"none", "not_started", "graceful", "forced", "unknown"}]
    /\ child \in [is : {"none", "running", "zombie", "reaped"}, code : Codes \cup {"none"}]
    /\ asked \in BOOLEAN /\ killed \in BOOLEAN
    /\ timed \in BOOLEAN /\ late \in BOOLEAN /\ patience \in BOOLEAN
    /\ cancelled \in BOOLEAN
    /\ interrupts \in 0 .. MaxInterrupts

(* "always reap started children" (the class's docstring): wherever deadline,          *)
(* cancellation, exit and one exception meet, the call does not end before its child   *)
(* has been collected.  Two places are not protected by _monitor's handler: the moment *)
(* between Popen and the try, and the handler itself.                                  *)
ChildReaped ==
    pc = "done" /\ hit \notin {"started", "handler"} => child.is \in {"none", "reaped"}

(* The receipt tells what happened, however exit, deadline and cancellation race: a    *)
(* command that ran to its end was sent no signal and its code is judged; a timeout or *)
(* a cancellation really was one; "forced" means SIGKILL was needed.                   *)
ReportedTruly ==
    pc = "done" /\ result.status # "raised" =>
        /\ result.status \in {"SUCCEEDED", "FAILED"} =>
             /\ result.termination = "none" /\ ~asked
             /\ (result.status = "SUCCEEDED") <=> (child.code = "zero")
        /\ result.status = "TIMED_OUT" => late
        /\ result.status = "CANCELLED" => cancelled
        /\ (result.termination = "not_started") <=> (child.is = "none")
        /\ (result.termination = "forced") <=> killed

(* With a timeout, a cancellation or an exception the call ends, even if its child     *)
(* ignores SIGTERM and never exits.                                                    *)
Returns == (timed \/ cancelled \/ interrupts > 0) ~> (pc = "done")
=============================================================================
