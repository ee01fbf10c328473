---------------------------- MODULE LaunchProofs ----------------------------
(* All the processes of one call of the debugger. *)
EXTENDS Launch, TLAPS

\* There is no second debugger before exec has failed.  The first one prompts
\* only while its child is held or is no more, and with any other status than
\* "stopped" only when it has no child.
PromptInv ==
  /\ pc["first"] = "fork" => child = "none" /\ pc["second"] = "absent"
  /\ image = "fork" => pc["second"] = "absent"
  /\ pc["first"] \in {"prompt", "dis_wait"} => child \notin {"running", "halted"}
  /\ pc["first"] \in {"prompt", "wait", "dis_wait"} =>
       wait_status["first"] = "stopped" \/ child \in {"none", "gone"}

\* A menu that its debugger has not collected is waited for, or left behind by
\* the debugger's death.
MenuInv == \A p \in Debuggers :
             menu[p] # "none" => pc[p] \in {"dis_wait"} \cup (Over \ {"absent"})

\* Only a child that asked for it is held by signals.
HeldInv == child \in {"halted", "stopped"} => traced

LaunchInv == TypeOK /\ PromptInv /\ MenuInv /\ HeldInv /\ NoOrphan /\ WaitsForSomething

LEMMA LaunchInit == Init => LaunchInv
BY DEF Init, LaunchInv, TypeOK, PromptInv, MenuInv, HeldInv, NoOrphan, WaitsForSomething,
   Debuggers, Over, Waits, Statuses, ChildAlive

\* fork(), and what happens to the child without any debugger.
LEMMA ChildKeeps ==
  ASSUME LaunchInv, Fork \/ ExecuteProgram \/ Halts \/ TargetExits \/ ChildKilled
  PROVE  LaunchInv'
<1> USE DEF LaunchInv, TypeOK, PromptInv, MenuInv, HeldInv, NoOrphan, WaitsForSomething,
            Debuggers, Over, Waits, Statuses, ChildAlive, Goto
<1>1. CASE Fork
  BY <1>1 DEF Fork
<1>2. CASE ExecuteProgram
  <2>1. CASE traced' = TRUE /\ UNCHANGED <<pc, child, image>>
    BY <1>2, <2>1 DEF ExecuteProgram
  <2>2. CASE traced /\ image' = "target" /\ child' = "halted" /\ UNCHANGED <<pc, traced>>
    BY <1>2, <2>2 DEF ExecuteProgram
  <2>3. CASE image' = "debugger" /\ Goto("second", "start") /\ UNCHANGED <<child, traced>>
    BY <1>2, <2>3 DEF ExecuteProgram
  <2>4. QED  BY <1>2, <2>1, <2>2, <2>3 DEF ExecuteProgram
<1>3. CASE Halts
  BY <1>3 DEF Halts
<1>4. CASE TargetExits
  BY <1>4 DEF TargetExits
<1>5. CASE ChildKilled
  BY <1>5 DEF ChildKilled, AfterDeath
<1>6. QED  BY <1>1, <1>2, <1>3, <1>4, <1>5

\* What a debugger does of itself.
LEMMA DebuggerKeeps ==
  ASSUME LaunchInv, NEW p \in Debuggers, DebuggerStep(p)
  PROVE  LaunchInv'
<1> USE DEF LaunchInv, TypeOK, PromptInv, MenuInv, HeldInv, NoOrphan, WaitsForSomething,
            Debuggers, Over, Waits, Statuses, ChildAlive, Goto, CanRun
<1>1. CASE InitialWait(p)
  BY <1>1 DEF InitialWait, WaitReturns, HasChild, DebuggerStep
<1>2. CASE HandlerWait(p)
  BY <1>2 DEF HandlerWait, WaitReturns, HasChild, DebuggerStep
<1>3. CASE LoopEnds(p)
  BY <1>3 DEF LoopEnds, Ends, DebuggerStep
<1>4. CASE DisassembleWait(p)
  BY <1>4 DEF DisassembleWait, DebuggerStep
<1>5. QED  BY <1>1, <1>2, <1>3, <1>4 DEF DebuggerStep

\* What its user makes it do.
LEMMA HandlerKeeps ==
  ASSUME LaunchInv, NEW p \in Debuggers, Handler(p)
  PROVE  LaunchInv'
<1> USE DEF LaunchInv, TypeOK, PromptInv, MenuInv, HeldInv, NoOrphan, WaitsForSomething,
            Debuggers, Over, Waits, Statuses, ChildAlive, Goto, CanRun, Commanded
<1>1. CASE Continue(p)
  BY <1>1 DEF Continue, Resumed, CanResume, Handler
<1>2. CASE NextI(p)
  BY <1>2 DEF NextI, Resumed, CanResume, Handler
<1>3. CASE ExitCommand(p)
  BY <1>3 DEF ExitCommand, AfterDeath, Handler
<1>4. CASE Disassemble(p)
  BY <1>4 DEF Disassemble, Handler
<1>5. QED  BY <1>1, <1>2, <1>3, <1>4 DEF Handler

LEMMA MenuKeeps ==
  ASSUME LaunchInv, NEW p \in Debuggers, MenuStep(p)
  PROVE  LaunchInv'
<1> USE DEF LaunchInv, TypeOK, PromptInv, MenuInv, HeldInv, NoOrphan, WaitsForSomething,
            Debuggers, Over, Waits, Statuses, ChildAlive
<1>1. CASE MenuChoice(p)
  BY <1>1 DEF MenuChoice
<1>2. CASE MenuName(p)
  BY <1>2 DEF MenuName
<1>3. CASE MenuExits(p)
  BY <1>3 DEF MenuExits
<1>4. QED  BY <1>1, <1>2, <1>3 DEF MenuStep

LEMMA LaunchInvariant == Spec => []LaunchInv
<1>1. ASSUME LaunchInv, [Next]_vars PROVE LaunchInv'
  <2>1. CASE UNCHANGED vars
    BY <1>1, <2>1 DEF vars, LaunchInv, TypeOK, PromptInv, MenuInv, HeldInv, NoOrphan,
                      WaitsForSomething, ChildAlive
  <2>2. QED  BY <1>1, <2>1, ChildKeeps, DebuggerKeeps, HandlerKeeps, MenuKeeps DEF Next, Terminated
<1>2. QED  BY <1>1, LaunchInit, PTL DEF Spec

-----------------------------------------------------------------------------
(* Theorems *)

\* Every process is at a point of its program, and there is a second debugger
\* just while the child is one (execute_program's return, de.cpp 43-60).
THEOREM ProcessesAreTyped == Spec => []TypeOK
BY LaunchInvariant, PTL DEF LaunchInv

\* At no time do two processes ask the user: not both debuggers, because the
\* second runs only while the first waits for it, and not a debugger and its own
\* menu (de.cpp 83, 90, 386).
THEOREM InputHasOneReader == Spec => []OneReader
<1>1. LaunchInv => OneReader
  BY DEF LaunchInv, PromptInv, MenuInv, OneReader, Asks, MenuAsks, CanRun, Commanded, Over, Debuggers
<1>2. QED  BY <1>1, LaunchInvariant, PTL

\* Whatever the child has become, it is dead once the first debugger has ended:
\* by the exit of either debugger, or by the loop of main (de.cpp 269, 370).
THEOREM ChildDoesNotOutlive == Spec => []NoOrphan
BY LaunchInvariant, PTL DEF LaunchInv

\* No wait() of the first debugger is for a child that is held and has told so,
\* also when it is a debugger that the SIGCHLD of its menu stopped (de.cpp 104).
THEOREM WaitsAreForNews == Spec => []WaitsForSomething
BY LaunchInvariant, PTL DEF LaunchInv
=============================================================================
