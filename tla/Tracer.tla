------------------------------- MODULE Tracer -------------------------------
(***************************************************************************)
(* The instruction counter of ptrace.c: run_debugger single-steps the       *)
(* target from its first instruction to its end and counts the stops.       *)
(* executed and swallowed are no variables of the program: they record what *)
(* the target really did.                                                   *)
(***************************************************************************)
EXTENDS Tracee

CONSTANTS
  UIntMax,   \* the largest unsigned int
  MaxStops   \* bound: stops that no executed instruction causes

ASSUME TracerAssumption == UIntMax \in Nat /\ MaxStops \in Nat

VARIABLES
  point,        \* program point of run_debugger
  wait_status,  \* the status of the last wait()
  icounter,     \* "the child executed %u instructions"
  executed,     \* instructions the target has executed since exec
  swallowed     \* stops by a fault or a signal, which SINGLESTEP discards

tracerVars == <<point, wait_status, icounter>>
historyVars == <<executed, swallowed>>
vars == <<traceeVars, tracerVars, historyVars>>

TypeOK ==
  /\ TraceeTypeOK
  /\ point \in {"wait", "loop", "step", "done"}
  /\ wait_status \in {"none", "stopped", "exited", "signaled"}
  /\ icounter \in 0 .. UIntMax
  /\ executed \in Nat
  /\ swallowed \in 0 .. MaxStops

Init ==
  /\ TraceeInit
  /\ point = "wait" /\ wait_status = "none"
  /\ icounter = 0 /\ executed = 0 /\ swallowed = 0

-----------------------------------------------------------------------------

Counted_NoWrap(c) == c + 1
\* icounter++
Counted(c) == IF c = UIntMax THEN 0 ELSE c + 1

Wait ==
  /\ point = "wait" /\ WaitReturns
  /\ wait_status' \in Statuses
  /\ tracee' = Reported
  /\ point' = "loop"
  /\ UNCHANGED <<mem, rip, sig, icounter, historyVars>>

Loop_DoWhile ==
  /\ point = "loop"
  /\ icounter' = Counted(icounter)
  /\ point' = IF wait_status = "stopped" /\ Stopped THEN "step" ELSE "done"
  /\ UNCHANGED <<traceeVars, wait_status, historyVars>>
\* while (WIFSTOPPED(wait_status)): count, then read the registers and the
\* instruction; a GETREGS that fails ends the function.
Loop ==
  /\ point = "loop"
  /\ \/ /\ wait_status = "stopped"
        /\ icounter' = Counted(icounter)
        /\ point' = IF Stopped THEN "step" ELSE "done"
     \/ wait_status # "stopped" /\ point' = "done" /\ UNCHANGED icounter
  /\ UNCHANGED <<traceeVars, wait_status, historyVars>>

Step_NoResume ==
  /\ point = "step"
  /\ point' = "wait"
  /\ UNCHANGED <<traceeVars, wait_status, icounter, historyVars>>
Step_Inverted ==
  /\ point = "step"
  /\ tracee' = Resume("stepping")
  /\ point' = IF Stopped THEN "done" ELSE "wait"
  /\ UNCHANGED <<mem, rip, sig, wait_status, icounter, historyVars>>
\* PTRACE_SINGLESTEP, without the signal of the last stop; a failure ends the
\* function.
Step ==
  /\ point = "step"
  /\ tracee' = Resume("stepping")
  /\ point' = IF Stopped THEN "wait" ELSE "done"
  /\ UNCHANGED <<mem, rip, sig, wait_status, icounter, historyVars>>

-----------------------------------------------------------------------------

\* Trap, Retire and Exit execute an instruction, Fault and Signalled do not.
Executes  == (Trap \/ Retire \/ Exit) /\ executed' = executed + 1 /\ UNCHANGED swallowed
Swallows  == /\ (Fault \/ Signalled) /\ swallowed < MaxStops
             /\ swallowed' = swallowed + 1 /\ UNCHANGED executed
Elsewhere == (Launch \/ Killed) /\ UNCHANGED historyVars

Target     == (Executes \/ Swallows \/ Elsewhere) /\ UNCHANGED tracerVars
TracerStep == Wait \/ Loop \/ Step
Returned   == point = "done" /\ UNCHANGED vars

Next == TracerStep \/ Target \/ Returned
Spec == Init /\ [][Next]_vars

\* The tracer and its target are scheduled.
FairSpec == /\ Spec
            /\ WF_vars(TracerStep)
            /\ WF_vars(Launch /\ UNCHANGED <<tracerVars, historyVars>>)
            /\ WF_vars(Executes /\ UNCHANGED tracerVars)

-----------------------------------------------------------------------------

\* "the child executed %u instructions", up to the width of icounter.  A stop
\* by a signal or a fault is counted too, so that the code breaks it.
CountIsExact ==
  point = "done" /\ wait_status = "exited"
    => icounter = executed % (UIntMax + 1)

\* What is printed in its place: the instructions and, one each, the stops that
\* were none.  Nothing is missed and nothing else counted twice: the first stop
\* comes before any instruction, and the exit makes up for it.
StopsAreCounted ==
  point = "done" /\ wait_status = "exited"
    => icounter = (executed + swallowed) % (UIntMax + 1)

\* run_debugger never waits for a target that has nothing left to report, nor
\* for one that is stopped already.
NeverWaitsForNothing == point = "wait" => tracee \notin {"stopped", "gone"}

\* No target is left behind, in whatever way run_debugger ends.
NoOrphan == point = "done" => ~Alive

\* A target without endless loops is traced to its end.
Terminates == <>(point = "done")
=============================================================================
