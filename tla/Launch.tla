-------------------------------- MODULE Launch --------------------------------
(***************************************************************************)
(* All the processes of one call of the debugger (de.cpp).  main forks; the *)
(* child becomes the target, or, when TRACEME or exec fails, returns from   *)
(* execute_program into the rest of main and is a second debugger, whose     *)
(* child has the pid 0 and whose wait() has nothing to wait for.  Each       *)
(* debugger may fork a disassembler with a menu of its own, and all of them  *)
(* read the one standard input.                                              *)
(*                                                                          *)
(* Here a command is what it does to processes; what it does to the target's *)
(* text is the business of module Debugger.                                  *)
(***************************************************************************)
EXTENDS Naturals

VARIABLES
  pc,           \* program point of each debugger
  wait_status,  \* main's, of each debugger
  child,        \* the forked process, as the kernel sees it
  image,        \* what it executes
  traced,       \* has it asked to be traced?
  menu          \* the disassembler child of each debugger

vars == <<pc, wait_status, child, image, traced, menu>>

Debuggers == {"first", "second"}

Over  == {"absent", "finished", "exited", "killed"}
Waits == {"start", "wait"}               \* main's wait(), a handler's wait()
Statuses == {"stopped", "exited", "signaled"}

ChildAlive == child \in {"running", "halted", "stopped"}

\* What the second debugger does is what the child does, while it runs.
CanRun(p) == pc[p] \notin Over /\ (p = "second" => child = "running")

TypeOK ==
  /\ pc \in [Debuggers -> Over \cup Waits \cup {"fork", "prompt", "dis_wait"}]
  /\ wait_status \in [Debuggers -> Statuses \cup {"none"}]
  /\ child \in {"none", "running", "halted", "stopped", "exited", "killed", "gone"}
  /\ image \in {"none", "fork", "target", "debugger"}
  /\ traced \in BOOLEAN
  /\ menu \in [Debuggers -> {"none", "choice", "name", "objdump", "zombie"}]
  /\ pc["second"] \notin Over <=> image = "debugger" /\ ChildAlive

Init ==
  /\ pc = [p \in Debuggers |-> IF p = "first" THEN "fork" ELSE "absent"]
  /\ wait_status = [p \in Debuggers |-> "none"]
  /\ child = "none" /\ image = "none" /\ traced = FALSE
  /\ menu = [p \in Debuggers |-> "none"]

Goto(p, point) == pc' = [pc EXCEPT ![p] = point]

-----------------------------------------------------------------------------
(* The fork, and what becomes of the child *)

\* fork() is not checked: when it fails main goes on with the pid -1.
Fork ==
  /\ pc["first"] = "fork"
  /\ Goto("first", "start")
  /\ \/ child' = "running" /\ image' = "fork"
     \/ UNCHANGED <<child, image>>
  /\ UNCHANGED <<wait_status, traced, menu>>

\* TRACEME, then exec: the target stops at its first instruction.  When either
\* fails, the child returns to main.
ExecuteProgram ==
  /\ image = "fork" /\ child = "running"
  /\ \/ ~traced /\ traced' = TRUE /\ UNCHANGED <<pc, child, image>>
     \/ traced /\ image' = "target" /\ child' = "halted" /\ UNCHANGED <<pc, traced>>
     \/ image' = "debugger" /\ Goto("second", "start") /\ UNCHANGED <<child, traced>>
  /\ UNCHANGED <<wait_status, menu>>

\* A traced process stops for its tracer: a trap, a fault, a single step done,
\* a signal from outside.
Halts ==
  /\ traced /\ child = "running"
  /\ child' = "halted"
  /\ UNCHANGED <<pc, wait_status, image, traced, menu>>

TargetExits ==
  /\ image = "target" /\ child = "running"
  /\ child' = "exited"
  /\ UNCHANGED <<pc, wait_status, image, traced, menu>>

\* The second debugger ends with the process it is.
AfterDeath(point) == IF pc["second"] \in Over THEN pc["second"] ELSE point

\* SIGKILL from outside.
ChildKilled ==
  /\ ChildAlive
  /\ child' = "killed"
  /\ Goto("second", AfterDeath("killed"))
  /\ UNCHANGED <<wait_status, image, traced, menu>>

-----------------------------------------------------------------------------
(* wait() *)

\* Its menu is no child that wait() can meet: waitpid() has taken it before.
HasChild(p) == p = "first" /\ child \notin {"none", "gone"}

\* wait() returns the news of the child, or fails at once when there is no
\* child, and then the status is what it was before: anything.
WaitReturns(p, status) ==
  \/ /\ HasChild(p)
     /\ \/ child = "halted" /\ status = "stopped"  /\ child' = "stopped"
        \/ child = "exited" /\ status = "exited"   /\ child' = "gone"
        \/ child = "killed" /\ status = "signaled" /\ child' = "gone"
  \/ ~HasChild(p) /\ status \in Statuses /\ UNCHANGED child

InitialWait(p) ==
  /\ pc[p] = "start"
  /\ \E status \in Statuses :
       WaitReturns(p, status) /\ wait_status' = [wait_status EXCEPT ![p] = status]
  /\ Goto(p, "prompt")
  /\ UNCHANGED <<image, traced, menu>>

\* The wait() of Continue and nexti; its status is a local of theirs.
HandlerWait(p) ==
  /\ pc[p] = "wait"
  /\ \E status \in Statuses : WaitReturns(p, status)
  /\ Goto(p, "prompt")
  /\ UNCHANGED <<wait_status, image, traced, menu>>

-----------------------------------------------------------------------------
(* The loop of main, and the commands that touch processes *)

\* p ends by itself; if it is the child, that is news for the first debugger.
Ends(p, point) ==
  /\ Goto(p, point)
  /\ child' = IF p = "second" THEN "exited" ELSE child

LoopEnds_ExitedOnly(p) ==
  /\ pc[p] = "prompt" /\ wait_status[p] # "stopped"
  /\ IF wait_status[p] = "exited" THEN Ends(p, "finished") ELSE UNCHANGED <<pc, child>>
  /\ UNCHANGED <<wait_status, image, traced, menu>>
LoopEnds_MainGoesOn(p) ==
  /\ pc[p] = "prompt" /\ wait_status[p] # "stopped"
  /\ Goto(p, "finished")
  /\ UNCHANGED <<wait_status, child, image, traced, menu>>
LoopEnds(p) ==
  /\ pc[p] = "prompt" /\ wait_status[p] # "stopped"
  /\ Ends(p, "finished")
  /\ UNCHANGED <<wait_status, image, traced, menu>>

\* getline() has returned the name of the handler's command.
Commanded(p) == pc[p] = "prompt" /\ wait_status[p] = "stopped"

\* PTRACE_CONT and PTRACE_SINGLESTEP find a target only in the first debugger.
CanResume(p) == p = "first" /\ traced /\ child \in {"halted", "stopped"}
Resumed(p)   == child' = IF CanResume(p) THEN "running" ELSE child

Continue(p) ==
  /\ Commanded(p)
  /\ Resumed(p) /\ Goto(p, "wait")
  /\ UNCHANGED <<wait_status, image, traced, menu>>

NextI_WaitsFirst(p) ==
  /\ Commanded(p)
  /\ UNCHANGED child /\ Goto(p, IF CanResume(p) THEN "wait" ELSE "prompt")
  /\ UNCHANGED <<wait_status, image, traced, menu>>
\* nexti gives up when the request fails.
NextI(p) ==
  /\ Commanded(p)
  /\ Resumed(p) /\ Goto(p, IF CanResume(p) THEN "wait" ELSE "prompt")
  /\ UNCHANGED <<wait_status, image, traced, menu>>

\* kill(child, SIGKILL); exit(0).  The pid 0 is the whole process group: both
\* debuggers and their menus.  (-1, after a failed fork, is everybody else.)
ExitCommand_FirstOnly(p) ==
  /\ Commanded(p)
  /\ IF p = "first" THEN Goto(p, "exited") /\ UNCHANGED child
     ELSE Ends(p, "exited")
  /\ UNCHANGED <<wait_status, image, traced, menu>>
ExitCommand(p) ==
  /\ Commanded(p)
  /\ child' = IF ChildAlive THEN "killed" ELSE child
  /\ \/ /\ p = "first"
        /\ pc' = [q \in Debuggers |-> IF q = "first" THEN "exited" ELSE AfterDeath("killed")]
        /\ UNCHANGED menu
     \/ /\ p = "second"
        /\ pc' = [q \in Debuggers |-> IF pc[q] \in Over THEN pc[q] ELSE "killed"]
        /\ menu' = [q \in Debuggers |-> IF menu[q] = "none" THEN "none" ELSE "zombie"]
  /\ UNCHANGED <<wait_status, image, traced>>

\* disassemble: the child asks for a choice, the parent waits for that child.
Disassemble(p) ==
  /\ Commanded(p)
  /\ \/ Goto(p, "dis_wait") /\ menu' = [menu EXCEPT ![p] = "choice"]
     \/ UNCHANGED <<pc, menu>>                      \* fork failed
  /\ UNCHANGED <<wait_status, child, image, traced>>

DisassembleWait_NoHang(p) ==
  /\ pc[p] = "dis_wait"
  /\ menu' = [menu EXCEPT ![p] = IF @ = "zombie" THEN "none" ELSE @]
  /\ Goto(p, "prompt")
  /\ UNCHANGED <<wait_status, child, image, traced>>
DisassembleWait(p) ==
  /\ pc[p] = "dis_wait" /\ menu[p] = "zombie"
  /\ menu' = [menu EXCEPT ![p] = "none"]
  /\ Goto(p, "prompt")
  /\ UNCHANGED <<wait_status, child, image, traced>>

-----------------------------------------------------------------------------
(* The disassembler child *)

\* Choice 1 asks for a function's name; an unreadable choice is uninitialized.
MenuChoice(p) ==
  /\ menu[p] = "choice"
  /\ \E next \in {"name", "objdump"} : menu' = [menu EXCEPT ![p] = next]
  /\ UNCHANGED <<pc, wait_status, child, image, traced>>

MenuName(p) ==
  /\ menu[p] = "name"
  /\ menu' = [menu EXCEPT ![p] = "objdump"]
  /\ UNCHANGED <<pc, wait_status, child, image, traced>>

\* system(), exit(0).  Its SIGCHLD, which nobody handles, still stops a parent
\* that is traced.
MenuExits(p) ==
  /\ menu[p] = "objdump"
  /\ menu' = [menu EXCEPT ![p] = "zombie"]
  /\ child' = IF p = "second" /\ traced /\ child = "running" THEN "halted" ELSE child
  /\ UNCHANGED <<pc, wait_status, image, traced>>

-----------------------------------------------------------------------------

\* What a debugger does without its user, and what its user makes it do.
DebuggerStep(p) == /\ CanRun(p)
                   /\ InitialWait(p) \/ HandlerWait(p) \/ LoopEnds(p) \/ DisassembleWait(p)
Handler(p)      == /\ CanRun(p)
                   /\ Continue(p) \/ NextI(p) \/ ExitCommand(p) \/ Disassemble(p)
MenuStep(p)     == MenuChoice(p) \/ MenuName(p) \/ MenuExits(p)

Terminated == pc["first"] \in Over /\ UNCHANGED vars

Next == \/ Fork \/ ExecuteProgram \/ Halts \/ TargetExits \/ ChildKilled
        \/ \E p \in Debuggers : DebuggerStep(p) \/ Handler(p) \/ MenuStep(p)
        \/ Terminated

Spec == Init /\ [][Next]_vars

\* Every process is scheduled; the user need not type.
FairSpec == /\ Spec
            /\ WF_vars(Fork) /\ WF_vars(ExecuteProgram)
            /\ \A p \in Debuggers : WF_vars(DebuggerStep(p)) /\ WF_vars(MenuExits(p))

-----------------------------------------------------------------------------

Asks(p)     == CanRun(p) /\ Commanded(p)
MenuAsks(p) == menu[p] \in {"choice", "name"}

\* What a user types goes to the one process that asks for it: never to both
\* debuggers, nor to a debugger and its own menu (the shared standard input of
\* de.cpp 83, 90 and 386).
OneReader ==
  /\ ~(Asks("first") /\ Asks("second"))
  /\ \A p \in Debuggers : ~(Asks(p) /\ MenuAsks(p))

\* Whatever the child has become, it does not outlive the debugger.
NoOrphan == pc["first"] \in Over => ~ChildAlive

\* The first debugger never waits for a child that is stopped and has told so,
\* also when that child is a debugger stopped by its own menu's SIGCHLD.
WaitsForSomething == pc["first"] \in Waits => child # "stopped"

\* When the launch fails and the second debugger ends, in whatever way, the
\* first one, still in its first wait(), ends too.
LaunchFailureEnds ==
  (pc["first"] = "start" /\ image = "debugger" /\ pc["second"] \in Over)
    ~> pc["first"] \in Over
=============================================================================
