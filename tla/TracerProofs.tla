---------------------------- MODULE TracerProofs ----------------------------
(* The instruction counter, for every target and every width of unsigned. *)
EXTENDS Tracer, TLAPS

LEMMA DivMod ==
  ASSUME NEW n \in Nat, NEW m \in Nat \ {0}
  PROVE  \E q \in Int, r \in 0 .. m - 1 : r = n % m /\ n = m * q + r
<1>1. n \div m \in Int
  OBVIOUS
<1>2. n % m \in 0 .. m - 1
  OBVIOUS
<1>3. n = m * (n \div m) + (n % m)
  OBVIOUS
<1>4. QED  BY <1>1, <1>2, <1>3

LEMMA ModNext ==
  ASSUME NEW m \in Nat \ {0}, NEW q \in Int, NEW qq \in Int,
         NEW r \in 0 .. m - 1, NEW rr \in 0 .. m - 1, m * q + r + 1 = m * qq + rr
  PROVE  rr = IF r = m - 1 THEN 0 ELSE r + 1
<1>1. PICK d \in Int : d = qq - q
  OBVIOUS
<1>2. m * d = r + 1 - rr
  <2>1. qq = q + d
    BY <1>1
  <2>2. m * (q + d) = m * q + m * d
    OBVIOUS
  <2>3. QED  BY <2>1, <2>2
<1>3. d >= 2 => m * d >= m + m
  OBVIOUS
<1>4. d <= -1 => m * d <= -m
  OBVIOUS
<1>5. d = 0 => m * d = 0
  OBVIOUS
<1>6. d = 1 => m * d = m
  OBVIOUS
<1>7. d \in {0, 1}
  BY <1>2, <1>3, <1>4
<1>8. QED  BY <1>2, <1>5, <1>6, <1>7

\* A counter that wraps round is the number of its increments modulo 2^w.
LEMMA CountedMod ==
  ASSUME NEW n \in Nat
  PROVE  Counted(n % (UIntMax + 1)) = (n + 1) % (UIntMax + 1)
<1>1. PICK m \in Nat \ {0} : m = UIntMax + 1
  BY TracerAssumption
<1>2. PICK q \in Int, r \in 0 .. m - 1 : r = n % m /\ n = m * q + r
  BY DivMod
<1>3. PICK qq \in Int, rr \in 0 .. m - 1 : rr = (n + 1) % m /\ n + 1 = m * qq + rr
  BY DivMod, n + 1 \in Nat
<1>4. m * q + r + 1 = m * qq + rr
  BY <1>2, <1>3
<1>5. rr = IF r = m - 1 THEN 0 ELSE r + 1
  BY <1>4, ModNext
<1>6. QED  BY <1>1, <1>2, <1>3, <1>5, TracerAssumption DEF Counted

Total == (executed + swallowed) % (UIntMax + 1)

\* Where the target can be at each point of run_debugger, and how far the
\* count is: one ahead while the target is on its next instruction.
CountInv ==
  /\ point = "wait" => /\ tracee \in {"starting", "stepping", "halted", "exited", "killed"}
                       /\ wait_status \in {"none", "stopped"}
  /\ point = "loop" => \/ wait_status = "stopped" /\ tracee \in {"stopped", "killed"}
                       \/ wait_status \in {"exited", "signaled"} /\ tracee = "gone"
  /\ point = "step" => wait_status = "stopped" /\ tracee \in {"stopped", "killed"}
  /\ point = "done" => tracee \in {"killed", "gone"}
  /\ tracee = "starting" => icounter = 0 /\ executed = 0 /\ swallowed = 0
  /\ point = "wait" /\ tracee \in {"halted", "exited"} => icounter = Total
  /\ point = "wait" /\ tracee = "stepping" => icounter = Counted(Total)
  /\ point = "loop" /\ (wait_status = "exited" \/ tracee = "stopped") => icounter = Total
  /\ point = "step" /\ tracee = "stopped" => icounter = Counted(Total)
  /\ point = "done" /\ wait_status = "exited" => icounter = Total

LEMMA TextIsInt == Text \subseteq Int /\ Instrs \subseteq Int /\ Strays \subseteq Int
BY TextAssumption, ProgramAssumption DEF Text

LEMMA CounterInit == Init => TypeOK /\ CountInv
<1> SUFFICES ASSUME Init PROVE TypeOK /\ CountInv
  OBVIOUS
<1>1. TraceeTypeOK
  BY TextIsInt, ProgramAssumption DEF Init, TraceeInit, TraceeTypeOK, Bytes, ProcStates
<1>2. TypeOK
  BY <1>1, TracerAssumption DEF Init, TypeOK
<1>3. CountInv
  BY DEF Init, TraceeInit, CountInv
<1>4. QED  BY <1>2, <1>3

LEMMA CounterType == TypeOK /\ [Next]_vars => TypeOK'
<1> SUFFICES ASSUME TypeOK, [Next]_vars PROVE TypeOK'
  OBVIOUS
<1> USE DEF TypeOK, TraceeTypeOK, ProcStates
<1>1. CASE Wait
  BY <1>1 DEF Wait, Reported, Statuses, historyVars
<1>2. CASE Loop
  BY <1>2, TracerAssumption DEF Loop, Counted, traceeVars, historyVars
<1>3. CASE Step
  BY <1>3 DEF Step, Resume, historyVars
<1>4. CASE Executes /\ UNCHANGED tracerVars
  <2>1. Successors(rip) \subseteq Int
    BY TextIsInt, ProgramAssumption DEF Successors, Intact
  <2>2. QED  BY <1>4, <2>1 DEF Executes, Trap, Retire, Exit, tracerVars
<1>5. CASE Swallows /\ UNCHANGED tracerVars
  BY <1>5, TracerAssumption DEF Swallows, Fault, Signalled, tracerVars
<1>6. CASE Elsewhere /\ UNCHANGED tracerVars
  BY <1>6 DEF Elsewhere, Launch, ExecSucceeds, ExecFails, Killed, tracerVars, historyVars
<1>7. CASE UNCHANGED vars
  BY <1>7 DEF vars, traceeVars, tracerVars, historyVars
<1>8. QED
  BY <1>1, <1>2, <1>3, <1>4, <1>5, <1>6, <1>7 DEF Next, TracerStep, Target, Returned

LEMMA CountStep == TypeOK /\ CountInv /\ [Next]_vars => CountInv'
<1> SUFFICES ASSUME TypeOK, CountInv, [Next]_vars PROVE CountInv'
  OBVIOUS
<1> USE DEF CountInv
<1>1. CASE Wait
  BY <1>1 DEF Wait, WaitReturns, Reported, Statuses, Total, historyVars
<1>2. CASE Loop
  BY <1>2 DEF Loop, Stopped, Total, traceeVars, historyVars
<1>3. CASE Step
  BY <1>3 DEF Step, Resume, Stopped, Total, historyVars
<1>4. CASE Executes /\ UNCHANGED tracerVars
  <2>1. point = "wait" /\ tracee = "stepping"
    BY <1>4 DEF Executes, Trap, Retire, Exit, Running, TypeOK
  <2>2. Total' = Counted(Total)
    <3>1. executed + swallowed \in Nat
      BY DEF TypeOK
    <3>2. executed' + swallowed' = executed + swallowed + 1
      BY <1>4 DEF Executes, TypeOK
    <3>3. Counted((executed + swallowed) % (UIntMax + 1))
            = (executed + swallowed + 1) % (UIntMax + 1)
      BY <3>1, CountedMod
    <3>4. QED  BY <3>2, <3>3 DEF Total
  <2>3. tracee' \in {"halted", "exited"}
    BY <1>4, <2>1 DEF Executes, Trap, Retire, Exit
  <2>4. QED  BY <1>4, <2>1, <2>2, <2>3 DEF tracerVars
<1>5. CASE Swallows /\ UNCHANGED tracerVars
  <2>1. point = "wait" /\ tracee = "stepping"
    BY <1>5 DEF Swallows, Fault, Signalled, Running, TypeOK
  <2>2. Total' = Counted(Total)
    <3>1. executed + swallowed \in Nat
      BY DEF TypeOK
    <3>2. executed' + swallowed' = executed + swallowed + 1
      BY <1>5 DEF Swallows, TypeOK
    <3>3. Counted((executed + swallowed) % (UIntMax + 1))
            = (executed + swallowed + 1) % (UIntMax + 1)
      BY <3>1, CountedMod
    <3>4. QED  BY <3>2, <3>3 DEF Total
  <2>3. tracee' = "halted"
    BY <1>5, <2>1 DEF Swallows, Fault, Signalled
  <2>4. QED  BY <1>5, <2>1, <2>2, <2>3 DEF tracerVars
<1>6. CASE Elsewhere /\ UNCHANGED tracerVars
  <2>1. CASE Launch
    <3>1. Total = 0
      <4>1. 0 % (UIntMax + 1) = 0
        BY TracerAssumption
      <4>2. QED  BY <2>1, <4>1 DEF Launch, ExecSucceeds, ExecFails, Total
    <3>2. QED
      BY <1>6, <2>1, <3>1
      DEF Elsewhere, Launch, ExecSucceeds, ExecFails, Total, tracerVars, historyVars
  <2>2. CASE Killed
    BY <1>6, <2>2 DEF Elsewhere, Killed, Alive, Total, tracerVars, historyVars
  <2>3. QED  BY <1>6, <2>1, <2>2 DEF Elsewhere
<1>7. CASE UNCHANGED vars
  BY <1>7 DEF vars, traceeVars, tracerVars, historyVars, Total
<1>8. QED
  BY <1>1, <1>2, <1>3, <1>4, <1>5, <1>6, <1>7 DEF Next, TracerStep, Target, Returned

LEMMA CountInvariant == Spec => [](TypeOK /\ CountInv)
BY CounterInit, CounterType, CountStep, PTL DEF Spec

\* The point in run_debugger, the status and the target stay in their domains, and
\* icounter in its width, however many stops there are.
THEOREM CounterTypes == Spec => []TypeOK
BY CountInvariant, PTL

\* However many instructions the target executes and wherever it is
\* interrupted, the number printed is theirs and the swallowed stops'
\* together, modulo the width of icounter.
THEOREM PrintedCountIsOfStops == Spec => []StopsAreCounted
<1>1. CountInv => StopsAreCounted
  BY DEF CountInv, StopsAreCounted, Total
<1>2. QED  BY <1>1, CountInvariant, PTL

\* The number printed is the number of instructions for every target that no
\* signal and no fault has stopped.
THEOREM UndisturbedCountIsExact == Spec => [](swallowed = 0 => CountIsExact)
<1>1. TypeOK /\ CountInv => (swallowed = 0 => CountIsExact)
  BY DEF TypeOK, CountInv, CountIsExact, Total
<1>2. QED  BY <1>1, CountInvariant, PTL

\* No wait() of run_debugger is for a target that will never report again.
THEOREM WaitsForSomething == Spec => []NeverWaitsForNothing
<1>1. CountInv => NeverWaitsForNothing
  BY DEF CountInv, NeverWaitsForNothing
<1>2. QED  BY <1>1, CountInvariant, PTL

\* run_debugger returns only when its target is dead, also when GETREGS or
\* SINGLESTEP fails.
THEOREM TracerLeavesNoOrphan == Spec => []NoOrphan
<1>1. CountInv => NoOrphan
  BY DEF CountInv, NoOrphan, Alive
<1>2. QED  BY <1>1, CountInvariant, PTL
=============================================================================
