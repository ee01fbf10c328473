------------------------------- MODULE Tracee -------------------------------
(***************************************************************************)
(* The traced process and the part of the Linux kernel both debuggers of   *)
(* the repository rely on: the ptrace requests PEEKTEXT, POKETEXT, CONT,    *)
(* SINGLESTEP, and the state changes wait() reports.  None of this is code  *)
(* of the repository; it is modelled from the way de.cpp and ptrace.c use   *)
(* it, on x86-64 Linux.                                                     *)
(*                                                                          *)
(* A byte of the text segment is "own" while it holds what the linker put   *)
(* there; every poke of the debugger writes back, at the address it was     *)
(* read from, a word it peeked there, so no other identity is needed.       *)
(***************************************************************************)
EXTENDS Integers

CONSTANTS
  TextBase, TextSize, \* the mapped text segment
  InstrLen,           \* first address of an instruction -> its length
  Flow,               \* first address -> addresses control may go to next
  Entry,              \* where exec leaves the instruction pointer
  Exits,              \* instructions that end the process
  Faults,             \* instructions that may raise SIGSEGV
  OwnTraps,           \* the target's own one-byte INT 3 instructions
  Strays,             \* bound: where execution of damaged text may lead
  Signals,            \* bound: signals from outside that may stop the target
  WordBytes           \* sizeof(long): what one PEEKTEXT / POKETEXT moves

Text   == TextBase .. (TextBase + TextSize - 1)
Instrs == DOMAIN InstrLen
Extent(i) == i .. (i + InstrLen[i] - 1)

ASSUME TextAssumption ==
  /\ TextBase \in Nat \ {0} /\ TextSize \in Nat \ {0}
  /\ WordBytes \in Nat \ {0}

ASSUME ProgramAssumption ==
  /\ Instrs \subseteq Text
  /\ InstrLen \in [Instrs -> Nat \ {0}]
  /\ \A i \in Instrs : Extent(i) \subseteq Text
  /\ Flow \in [Instrs -> SUBSET Instrs]
  /\ Entry \in Instrs
  /\ Exits \subseteq Instrs /\ Faults \subseteq Instrs
  /\ \A i \in Instrs \ Exits : Flow[i] # {}
  /\ OwnTraps \subseteq Instrs
  /\ \A i \in OwnTraps : InstrLen[i] = 1 /\ Flow[i] = {i + 1}
  /\ Strays \subseteq Text
  /\ Signals \subseteq STRING

VARIABLES
  mem,      \* the text segment, byte by byte
  rip,      \* the instruction pointer
  tracee,   \* what the kernel knows of the process
  sig       \* the signal of the last stop, WSTOPSIG

traceeVars == <<mem, rip, tracee, sig>>

Bytes == {"own", "trap", "zero", "ones"}
Words == [0 .. WordBytes - 1 -> Bytes]

\* A "halted" process has stopped and wait() has not reported it yet, a
\* "stopped" one has been reported; "exited" and "killed" are zombies.
ProcStates == {"starting", "running", "stepping", "halted", "stopped",
               "exited", "killed", "gone"}

Alive   == tracee \in {"starting", "running", "stepping", "halted", "stopped"}
Running == tracee \in {"running", "stepping"}
Stopped == tracee \in {"halted", "stopped"}

TraceeTypeOK ==
  /\ mem \in [Text -> Bytes]
  /\ rip \in Int
  /\ tracee \in ProcStates
  /\ sig \in {"none", "TRAP", "SEGV"} \cup Signals

TraceeInit ==
  /\ mem = [a \in Text |-> "own"]
  /\ rip = Entry
  /\ tracee = "starting"
  /\ sig = "none"

-----------------------------------------------------------------------------
(* The ptrace requests, as functions of the state of the tracee. *)

\* A request succeeds only on a stopped tracee, on a fully mapped word.
Mapped(a)    == a \in Text /\ (a + WordBytes - 1) \in Text
CanAccess(a) == Stopped /\ Mapped(a)

\* PTRACE_PEEKTEXT: the word at a, or -1.
PeekText(a) ==
  [i \in 0 .. WordBytes - 1 |-> IF CanAccess(a) THEN mem[a + i] ELSE "ones"]

\* PTRACE_POKETEXT: the text after w is written at a, if it can be.
PokeText(a, w) ==
  [b \in Text |-> IF CanAccess(a) /\ b \in a .. (a + WordBytes - 1)
                  THEN w[b - a] ELSE mem[b]]

\* PTRACE_CONT and PTRACE_SINGLESTEP fail with ESRCH unless it is stopped.
Resume(mode) == IF Stopped THEN mode ELSE tracee

\* wait() returns at once when there is news, or no child at all (ECHILD).
WaitReturns == tracee \in {"halted", "exited", "killed", "gone"}

\* The news is consumed; a zombie is collected.
Reported == IF tracee = "halted" THEN "stopped" ELSE "gone"

\* What WIFSTOPPED / WIFEXITED say of the status.  With ECHILD the caller's
\* variable is not written and may hold anything.
Statuses ==
  CASE tracee = "halted" -> {"stopped"}
    [] tracee = "exited" -> {"exited"}
    [] tracee = "killed" -> {"signaled"}
    [] OTHER             -> {"stopped", "exited", "signaled"}

-----------------------------------------------------------------------------
(* What the process does by itself. *)

\* The bytes of the instruction at a are the program's own.
Intact(a) == a \in Instrs /\ \A b \in Extent(a) : mem[b] = "own"

\* The processor fetches an INT 3 at a.
TrapAt(a) == \/ a \in Text /\ mem[a] = "trap"
             \/ Intact(a) /\ a \in OwnTraps

Successors(a) == IF Intact(a) THEN Flow[a] ELSE Strays

\* execl() succeeds: the kernel stops the process with SIGTRAP.
ExecSucceeds ==
  /\ tracee = "starting"
  /\ tracee' = "halted" /\ sig' = "TRAP"
  /\ UNCHANGED <<mem, rip>>

\* PTRACE_TRACEME or execl() fails and the child, after whatever else it does,
\* ends without having been a target.
ExecFails ==
  /\ tracee = "starting"
  /\ tracee' = "exited"
  /\ UNCHANGED <<mem, rip, sig>>

\* INT 3: the trap is reported with the pointer behind the one byte.
Trap ==
  /\ Running /\ TrapAt(rip)
  /\ rip' = rip + 1
  /\ tracee' = "halted" /\ sig' = "TRAP"
  /\ UNCHANGED mem

\* One instruction retires; a single step is reported as SIGTRAP.
Retire ==
  /\ Running /\ ~TrapAt(rip)
  /\ rip' \in Successors(rip)
  /\ \/ tracee = "stepping" /\ tracee' = "halted" /\ sig' = "TRAP"
     \/ tracee = "running" /\ UNCHANGED <<tracee, sig>>
  /\ UNCHANGED mem

\* The instruction faults and will be retried.
Fault ==
  /\ Running /\ ~TrapAt(rip)
  /\ rip \in Faults \/ ~Intact(rip)
  /\ tracee' = "halted" /\ sig' = "SEGV"
  /\ UNCHANGED <<mem, rip>>

\* The process ends by itself.
Exit ==
  /\ Running /\ ~TrapAt(rip)
  /\ rip \in Exits \/ ~Intact(rip)
  /\ tracee' = "exited"
  /\ UNCHANGED <<mem, rip, sig>>

\* A signal from outside stops it before it executes anything; it may be a
\* SIGTRAP that no INT 3 has raised.
Signalled ==
  /\ Running
  /\ \E s \in Signals : sig' = s
  /\ tracee' = "halted"
  /\ UNCHANGED <<mem, rip>>

\* SIGKILL from outside ends it in whatever state it is.
Killed ==
  /\ Alive
  /\ tracee' = "killed"
  /\ UNCHANGED <<mem, rip, sig>>

Instruction == Trap \/ Retire \/ Fault \/ Exit
Launch      == ExecSucceeds \/ ExecFails
TraceeNext  == Launch \/ Instruction \/ Signalled \/ Killed
=============================================================================
