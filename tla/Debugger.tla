------------------------------ MODULE Debugger ------------------------------
(***************************************************************************)
(* The interactive debugger, "debugger/PL Project/de.cpp": one process that *)
(* forks the target, reads commands and drives the target with ptrace.      *)
(* pc is the program point; between two program points only the target,     *)
(* the disassembler child and the outside world can move.                   *)
(***************************************************************************)
EXTENDS Tracee, Sequences

CONSTANTS
  SavedBytes,                 \* sizeof(unsigned int): what a breakpoint saves
  UIntMax,                    \* the largest unsigned int
  MAX_EXECUTED_INSTRUCTIONS,  \* capacity of the loop table
  Typed,                      \* bound: the commands the user types
  BreakArgs,                  \* bound: the addresses typed after "break"
  StdinEnds,                  \* may standard input end?
  Garbage                     \* bound: what an uninitialized integer may hold

NoArg == -1   \* nothing behind the last blank of a break command
Bare  == 11   \* no blank in it at all: its first letter is read, as 0xb

ASSUME DebuggerAssumption ==
  /\ SavedBytes \in 1 .. WordBytes
  /\ UIntMax \in Nat /\ MAX_EXECUTED_INSTRUCTIONS \in Nat
  /\ Typed \subseteq STRING
  /\ BreakArgs \subseteq Nat \cup {NoArg}
  /\ StdinEnds \in BOOLEAN
  /\ Garbage \subseteq 0 .. UIntMax /\ Garbage # {}

VARIABLES
  pc,                     \* program point
  wait_status,            \* main's status, written by its only wait()
  command,                \* main's command line: name and argument
  stdin,                  \* "open", or "eof" once getline has met the end
  Breakpoints,            \* std::map: address -> saved word
  executed_instructions,  \* the loop table, its length is instruction_count
  regs,                   \* regs.rip of the running handler
  shown,                  \* the RIP the last "info registers" printed
  helper                  \* the disassembler child

debuggerVars == <<pc, wait_status, command, stdin, Breakpoints,
                  executed_instructions, regs, shown, helper>>
vars == <<traceeVars, debuggerVars>>

Waits == {"start", "cont_wait", "step_wait"}   \* blocked in wait()
Over  == {"finished", "exited"}                \* main returned; exit(0)
Points == Waits \cup Over \cup {"prompt", "dispatch", "cont_regs", "restore",
                                "setregs", "step_regs", "dis_wait"}

SavedWords == [0 .. SavedBytes - 1 -> Bytes]
\* The disassembler child: its two questions, objdump, and its end.
Asking       == {"menu", "name"}
HelperStates == {"none", "objdump", "zombie"} \cup Asking

Command    == [name : Typed \cup {""}, arg : Nat \cup {NoArg}]
EmptyLine  == [name |-> "", arg |-> NoArg]
Commands   == [name : Typed \ {"break"}, arg : {NoArg}]
                \cup [name : Typed \cap {"break"}, arg : BreakArgs]

\* The if-else chain of handle_command: what each handler answers to.
Names == [exit             |-> {"exit"},
          disassemble      |-> {"disass", "dis"},
          Continue         |-> {"continue", "c"},
          nexti            |-> {"next", "nexti", ""},
          Set_breakpoint   |-> {"break"},
          Info_registers   |-> {"info registers", "i r"},
          List_breakpoints |-> {"info breakpoints", "i b"}]

Handling(h) == pc = "dispatch" /\ command.name \in Names[h]
Unknown     == pc = "dispatch" /\ \A h \in DOMAIN Names : command.name \notin Names[h]

TypeOK ==
  /\ TraceeTypeOK
  /\ pc \in Points
  /\ wait_status \in {"none", "stopped", "exited", "signaled"}
  /\ command \in Command
  /\ stdin \in {"open", "eof"}
  /\ DOMAIN Breakpoints \subseteq 0 .. UIntMax
  /\ Breakpoints \in [DOMAIN Breakpoints -> SavedWords]
  /\ executed_instructions \in Seq(Int)
  /\ regs \in Int
  /\ shown \in Garbage \cup {NoArg}
  /\ helper \in HelperStates

Init ==
  /\ TraceeInit
  /\ pc = "start"
  /\ wait_status = "none"
  /\ command = EmptyLine
  /\ stdin = "open"
  /\ Breakpoints = [a \in {} |-> {}]
  /\ executed_instructions = <<>>
  /\ regs = 0
  /\ shown = NoArg
  /\ helper = "none"

-----------------------------------------------------------------------------
(* Words and tables.  The *_Bad variants are slips the checks must catch. *)

Low_WholeWord(w) == w
\* unsigned int data = PEEKTEXT(...): the low bytes of the word.
Low(w) == [i \in 0 .. SavedBytes - 1 |-> w[i]]

\* (void *) data: the upper bytes of the word poked are zero.
Widen(d) == [i \in 0 .. WordBytes - 1 |-> IF i < SavedBytes THEN d[i] ELSE "zero"]

WithTrap_NoTrap(d) == d
WithTrap_WideMask(d) == [i \in 0 .. SavedBytes - 1 |->
                           IF i = 0 THEN "trap" ELSE IF i = 1 THEN "zero" ELSE d[i]]
\* (data & 0xffffff00) | 0xcc
WithTrap(d) == [d EXCEPT ![0] = "trap"]

Inserted_Overwrites(bps, a, d) ==
  [b \in DOMAIN bps \cup {a} |-> IF b = a THEN d ELSE bps[b]]
\* std::map::insert keeps an entry that is already there.
Inserted(bps, a, d) ==
  [b \in DOMAIN bps \cup {a} |-> IF b \in DOMAIN bps THEN bps[b] ELSE d]

Erased_Kept(bps, a) == bps
Erased(bps, a) == [b \in DOMAIN bps \ {a} |-> bps[b]]

\* executed_instructions[0 .. instruction_count - 1]
Recorded(table) == {table[i] : i \in 1 .. Len(table)}

Record_Always(table, r) ==
  IF Len(table) < MAX_EXECUTED_INSTRUCTIONS THEN Append(table, r) ELSE table
\* A RIP is entered unless it is there (a loop is reported) or no room is left.
Record(table, r) ==
  IF r \in Recorded(table) \/ Len(table) >= MAX_EXECUTED_INSTRUCTIONS
  THEN table ELSE Append(table, r)

\* hexstring >> uiaddr saturates; with nothing to read uiaddr stays unset.
Parsed(arg) ==
  IF arg = NoArg THEN Garbage
  ELSE {IF arg > UIntMax THEN UIntMax ELSE arg}

\* Every address a break command can mean.
Asked == UNION {Parsed(arg) : arg \in BreakArgs}

\* unsigned int addr = regs.rip - 1
HitAddr(r) == (r - 1) % (UIntMax + 1)

Rewound_Not(r) == r
\* regs.rip -= 1
Rewound(r) == r - 1

\* PTRACE_GETREGS writes regs only if the target is there and stopped.
RegsRead == IF Stopped THEN {rip} ELSE Garbage

\* A handler returns to the loop of main; its locals are gone.
Return == pc' = "prompt" /\ regs' = 0

-----------------------------------------------------------------------------
(* main *)

\* The only wait() of main, before its loop.
InitialWait ==
  /\ pc = "start" /\ WaitReturns
  /\ wait_status' \in Statuses
  /\ tracee' = Reported
  /\ pc' = "prompt"
  /\ UNCHANGED <<mem, rip, sig, command, stdin, Breakpoints,
                 executed_instructions, regs, shown, helper>>

\* The loop looks at that same status every time round.
LoopEnds ==
  /\ pc = "prompt" /\ wait_status # "stopped"
  /\ pc' = "finished"
  /\ UNCHANGED <<traceeVars, wait_status, command, stdin, Breakpoints,
                 executed_instructions, regs, shown, helper>>

\* getline: a line, a last line without its newline, or an end of input that
\* leaves the string empty; behind the end the string is not touched any more.
GetLine ==
  \/ stdin = "open" /\ command' \in Commands
     /\ stdin' \in IF StdinEnds THEN {"open", "eof"} ELSE {"open"}
  \/ stdin = "open" /\ StdinEnds /\ command' = EmptyLine /\ stdin' = "eof"
  \/ stdin = "eof" /\ UNCHANGED <<command, stdin>>

ReadCommand ==
  /\ pc = "prompt" /\ wait_status = "stopped"
  /\ GetLine
  /\ pc' = "dispatch"
  /\ UNCHANGED <<traceeVars, wait_status, Breakpoints, executed_instructions,
                 regs, shown, helper>>

-----------------------------------------------------------------------------
(* Handlers that do not wait *)

ExitCommand_NoKill ==
  /\ Handling("exit")
  /\ pc' = "exited"
  /\ UNCHANGED <<traceeVars, wait_status, command, stdin, Breakpoints,
                 executed_instructions, regs, shown, helper>>
ExitCommand ==
  /\ Handling("exit")
  /\ tracee' = IF Alive THEN "killed" ELSE tracee
  /\ pc' = "exited"
  /\ UNCHANGED <<mem, rip, sig, wait_status, command, stdin, Breakpoints,
                 executed_instructions, regs, shown, helper>>

\* Prints the keys of the map, in order.
List_breakpoints ==
  /\ Handling("List_breakpoints")
  /\ Return
  /\ UNCHANGED <<traceeVars, wait_status, command, stdin, Breakpoints,
                 executed_instructions, shown, helper>>

\* The command is cleared in a copy only.
UnknownCommand ==
  /\ Unknown
  /\ Return
  /\ UNCHANGED <<traceeVars, wait_status, command, stdin, Breakpoints,
                 executed_instructions, shown, helper>>

\* PTRACE_GETREGS is given no place to write to: what is printed was on the
\* stack before.
Info_registers ==
  /\ Handling("Info_registers")
  /\ shown' \in Garbage
  /\ Return
  /\ UNCHANGED <<traceeVars, wait_status, command, stdin, Breakpoints,
                 executed_instructions, helper>>

\* Neither request is checked, and the map gets its entry in any case.
Set_breakpoint ==
  /\ Handling("Set_breakpoint")
  /\ \E addr \in Parsed(command.arg) :
       LET data == Low(PeekText(addr)) IN
       /\ mem' = PokeText(addr, Widen(WithTrap(data)))
       /\ Breakpoints' = Inserted(Breakpoints, addr, data)
  /\ Return
  /\ UNCHANGED <<rip, tracee, sig, wait_status, command, stdin,
                 executed_instructions, shown, helper>>

-----------------------------------------------------------------------------
(* disassemble: a child that asks what to disassemble, runs objdump, exits *)

Disassemble ==
  /\ Handling("disassemble")
  /\ \/ helper' = "menu" /\ pc' = "dis_wait" /\ UNCHANGED regs
     \/ Return /\ UNCHANGED helper                \* fork failed
  /\ UNCHANGED <<traceeVars, wait_status, command, stdin, Breakpoints,
                 executed_instructions, shown>>

DisassembleWait_NoHang ==
  /\ pc = "dis_wait"
  /\ helper' = IF helper = "zombie" THEN "none" ELSE helper
  /\ Return
  /\ UNCHANGED <<traceeVars, wait_status, command, stdin, Breakpoints,
                 executed_instructions, shown>>
DisassembleWait ==
  /\ pc = "dis_wait" /\ helper = "zombie"
  /\ helper' = "none"
  /\ Return
  /\ UNCHANGED <<traceeVars, wait_status, command, stdin, Breakpoints,
                 executed_instructions, shown>>

\* One answer of the user, of any contents; only the choice of one function
\* has a second question.  At the end of input getline fails at once.
HelperReads ==
  /\ helper \in Asking
  /\ helper' \in IF helper = "menu" THEN {"name", "objdump"} ELSE {"objdump"}
  /\ UNCHANGED <<traceeVars, pc, wait_status, command, stdin, Breakpoints,
                 executed_instructions, regs, shown>>

HelperExits ==
  /\ helper = "objdump"
  /\ helper' = "zombie"
  /\ UNCHANGED <<traceeVars, pc, wait_status, command, stdin, Breakpoints,
                 executed_instructions, regs, shown>>

-----------------------------------------------------------------------------
(* Continue *)

Continue_NoCont ==
  /\ Handling("Continue")
  /\ pc' = "cont_wait"
  /\ UNCHANGED <<traceeVars, wait_status, command, stdin, Breakpoints,
                 executed_instructions, regs, shown, helper>>
\* PTRACE_CONT is not checked: with no target left it does nothing.
Continue ==
  /\ Handling("Continue")
  /\ tracee' = Resume("running")
  /\ pc' = "cont_wait"
  /\ UNCHANGED <<mem, rip, sig, wait_status, command, stdin, Breakpoints,
                 executed_instructions, regs, shown, helper>>

\* With ECHILD the local status is whatever the stack held.
ContinueWait ==
  /\ pc = "cont_wait" /\ WaitReturns
  /\ tracee' = Reported
  /\ \/ "stopped" \in Statuses /\ pc' = "cont_regs" /\ UNCHANGED regs
     \/ Statuses # {"stopped"} /\ Return
  /\ UNCHANGED <<mem, rip, sig, wait_status, command, stdin, Breakpoints,
                 executed_instructions, shown, helper>>

TrapReported_AnyStop == {TRUE}
\* Is this stop a SIGTRAP?  Of a garbage status nobody knows.
TrapReported == IF tracee = "gone" THEN BOOLEAN ELSE {sig = "TRAP"}

\* A stop by SIGTRAP behind a listed address is a hit.
Hit(r) == HitAddr(r) \in DOMAIN Breakpoints

ContinueRegs ==
  /\ pc = "cont_regs"
  /\ \E r \in RegsRead, trap \in TrapReported :
       \/ trap /\ Hit(r) /\ pc' = "restore" /\ regs' = r
       \/ ~(trap /\ Hit(r)) /\ Return
  /\ UNCHANGED <<traceeVars, wait_status, command, stdin, Breakpoints,
                 executed_instructions, shown, helper>>

Restore_Unchecked ==
  /\ pc = "restore"
  /\ mem' = PokeText(HitAddr(regs), Widen(Breakpoints[HitAddr(regs)]))
  /\ pc' = "setregs"
  /\ UNCHANGED <<rip, tracee, sig, wait_status, command, stdin, Breakpoints,
                 executed_instructions, regs, shown, helper>>
\* The saved word is put back; when that fails the handler gives up.
Restore ==
  /\ pc = "restore"
  /\ LET addr == HitAddr(regs) IN
     /\ mem' = PokeText(addr, Widen(Breakpoints[addr]))
     /\ \/ CanAccess(addr) /\ pc' = "setregs" /\ UNCHANGED regs
        \/ ~CanAccess(addr) /\ Return
  /\ UNCHANGED <<rip, tracee, sig, wait_status, command, stdin, Breakpoints,
                 executed_instructions, shown, helper>>

\* The pointer is set back on the instruction and the breakpoint is dropped.
SetRegs ==
  /\ pc = "setregs"
  /\ \/ /\ Stopped
        /\ rip' = Rewound(regs)
        /\ Breakpoints' = Erased(Breakpoints, HitAddr(regs))
     \/ ~Stopped /\ UNCHANGED <<rip, Breakpoints>>
  /\ Return
  /\ UNCHANGED <<mem, tracee, sig, wait_status, command, stdin,
                 executed_instructions, shown, helper>>

-----------------------------------------------------------------------------
(* nexti *)

NextI_NoWait ==
  /\ Handling("nexti")
  /\ tracee' = Resume("stepping")
  /\ Return
  /\ UNCHANGED <<mem, rip, sig, wait_status, command, stdin, Breakpoints,
                 executed_instructions, shown, helper>>
NextI_NoStep ==
  /\ Handling("nexti")
  /\ pc' = "step_wait"
  /\ UNCHANGED <<traceeVars, wait_status, command, stdin, Breakpoints,
                 executed_instructions, regs, shown, helper>>
\* PTRACE_SINGLESTEP is checked; Breakpoints are not consulted.
NextI ==
  /\ Handling("nexti")
  /\ tracee' = Resume("stepping")
  /\ \/ Stopped /\ pc' = "step_wait" /\ UNCHANGED regs
     \/ ~Stopped /\ Return
  /\ UNCHANGED <<mem, rip, sig, wait_status, command, stdin, Breakpoints,
                 executed_instructions, shown, helper>>

StepWait ==
  /\ pc = "step_wait" /\ WaitReturns
  /\ tracee' = Reported
  /\ \/ "stopped" \in Statuses /\ pc' = "step_regs" /\ UNCHANGED regs
     \/ Statuses # {"stopped"} /\ Return
  /\ UNCHANGED <<mem, rip, sig, wait_status, command, stdin, Breakpoints,
                 executed_instructions, shown, helper>>

StepRegs ==
  /\ pc = "step_regs"
  /\ \E r \in RegsRead :
       executed_instructions' = Record(executed_instructions, r)
  /\ Return
  /\ UNCHANGED <<traceeVars, wait_status, command, stdin, Breakpoints, shown,
                 helper>>

-----------------------------------------------------------------------------
(* The system.  The debugger is one sequential process; the target and the  *)
(* outside world move between any two of its steps.                         *)

Dispatch == \/ ExitCommand \/ List_breakpoints \/ UnknownCommand
            \/ Info_registers \/ Set_breakpoint \/ Disassemble
            \/ Continue \/ NextI

DebuggerStep == \/ InitialWait \/ LoopEnds \/ Dispatch \/ DisassembleWait
                \/ ContinueWait \/ ContinueRegs \/ Restore \/ SetRegs
                \/ StepWait \/ StepRegs

TargetStep(A) == A /\ UNCHANGED debuggerVars

\* The debugger has ended; what is left of the target is init's to collect.
Terminated == pc \in Over /\ UNCHANGED vars

Next == \/ DebuggerStep
        \/ ReadCommand
        \/ HelperReads
        \/ HelperExits
        \/ TargetStep(TraceeNext)
        \/ Terminated

Spec == Init /\ [][Next]_vars

\* The scheduler runs whoever can run: the debugger, the target, objdump, and
\* a menu that meets the end of input.  Nobody promises that the user types a
\* command or answers the menu, nor that signals arrive.
Fairness == /\ WF_vars(DebuggerStep)
            /\ WF_vars(HelperExits)
            /\ WF_vars(stdin = "eof" /\ HelperReads)
            /\ WF_vars(TargetStep(Launch))
            /\ WF_vars(TargetStep(Instruction))
FairSpec == Spec /\ Fairness

\* A user, or a script, that always gives the next command.
AttentiveSpec == FairSpec /\ WF_vars(ReadCommand)

-----------------------------------------------------------------------------
(* Breakpoints *)

\* The address whose trap has been lifted while its entry is still listed.
Lifted == IF pc = "setregs" THEN {HitAddr(regs)} ELSE {}

Armed == {a \in DOMAIN Breakpoints : Mapped(a)} \ Lifted

\* The addresses asked for lie at least a word apart, so that no poke for one
\* touches another; and text that lies above 2^32, where the debugger cannot name
\* it, does not look like other text when it is cut to 32 bits.
Spaced ==
  /\ \A a, b \in Asked : a < b => a + WordBytes <= b
  /\ \A a \in Text : a > UIntMax => a % (UIntMax + 1) \notin Text

\* The bytes behind the word saved for a, which Widen zeroes.
Behind(a) == (a + SavedBytes) .. (a + WordBytes - 1)

\* As long as there is a target, the INT 3 bytes in its text are exactly the
\* listed breakpoints that lie in it (List_breakpoints against the pokes of
\* Set_breakpoint and Continue), whatever fails on the way.
ListedArePlanted == Alive => {a \in Text : mem[a] = "trap"} = Armed

\* What the map saved for a breakpoint in the text is the program's own code,
\* also after the same address was given twice: a hit restores the program.
SavedAreOriginal ==
  Alive => \A a \in DOMAIN Breakpoints :
             Mapped(a) => \A i \in DOMAIN Breakpoints[a] : Breakpoints[a][i] = "own"

\* "write 'INT 3' trap instruction to the address" (Set_breakpoint): outside
\* of the one byte of each breakpoint the text of the target is its own.  The
\* wide poke of the code breaks it.
TextIsOriginal ==
  Alive => \A b \in Text \ DOMAIN Breakpoints : mem[b] = "own"

\* What the wide poke does break: a byte that is not the program's own is an
\* armed breakpoint's, or lies behind the word of an address that was asked
\* for; a breakpoint set and hit any number of times costs nothing else.
DamageIsConfined ==
  Alive => \A b \in Text : \/ mem[b] = "own"
                          \/ b \in Armed
                          \/ \E a \in Asked : b \in Behind(a)

\* Continue drops an entry only after it has put the program's byte back and
\* set the target on it, behind a stop by SIGTRAP: no breakpoint disappears
\* without having stopped the target exactly there, whatever signal stops it
\* elsewhere and whatever address its low 32 bits look like.
HitIsExact ==
  [][\A a \in DOMAIN Breakpoints \ DOMAIN Breakpoints' :
       rip' = a /\ rip = a + 1 /\ mem'[a] = "own" /\ sig = "TRAP"]_vars

\* A target that arrives at a listed breakpoint does not execute what is
\* there: it stops at once with SIGTRAP, whoever set it running.
NeverRunsPast ==
  [][Running /\ rip \in Armed /\ rip' # rip
       => tracee' = "halted" /\ sig' = "TRAP" /\ rip' = rip + 1]_vars

\* A target driven by Continue alone only ever executes instructions of its
\* program, from their first byte, as if no breakpoint had been there.  This
\* is a claim for breakpoints with nothing but padding behind their word, see
\* ContinueOnly in DebuggerRefinement.
RunsOwnCode ==
  Running => rip \in Instrs /\ (TrapAt(rip) \/ Intact(rip))

-----------------------------------------------------------------------------
(* Stepping *)

\* nexti enters a stop into the loop table once, and never beyond the end of
\* the array; what is in it stays.
TableSound ==
  /\ Len(executed_instructions) <= MAX_EXECUTED_INSTRUCTIONS
  /\ \A i, j \in 1 .. Len(executed_instructions) :
       executed_instructions[i] = executed_instructions[j] => i = j

\* "To step to next instruction": a step that was not interrupted by a fault
\* or another signal leaves the target at the start of an instruction.
StepsToInstruction ==
  pc = "step_regs" /\ tracee = "stopped" /\ sig = "TRAP" => rip \in Instrs

-----------------------------------------------------------------------------
(* Processes *)

\* The target runs, or has news, only while the debugger waits for it, and
\* the debugger never waits for a target that is already stopped and reported.
ControlsTarget ==
  /\ tracee \in {"starting", "running", "stepping", "halted"} => pc \in Waits
  /\ pc \in Waits => tracee # "stopped"

\* No target outlives the debugger.
NoOrphan == pc \in Over => ~Alive

\* wait() of Continue and nexti can only meet the target, because disassemble
\* has collected its child before it returned.
WaitsForTargetOnly == pc # "dis_wait" => helper = "none"

\* A single step always comes back to the prompt, and so does a disassembly
\* once the menu has its answers, or meets the end of input.
CommandsReturn ==
  /\ pc = "step_wait" ~> pc = "prompt"
  /\ (pc = "dis_wait" /\ (helper = "objdump" \/ stdin = "eof")) ~> pc = "prompt"

\* A continue comes back too, when the program has no endless loop.
ContinueReturns == pc = "cont_wait" ~> pc = "prompt"

\* "Handle cases when the program exits or stops" (loop of main): once the
\* target is gone the debugger ends, provided it gets its commands.
EndsWithTarget == (tracee = "gone") ~> (pc \in Over)
=============================================================================
