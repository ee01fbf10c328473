-------------------------- MODULE DebuggerRefinement --------------------------
(***************************************************************************)
(* The debugger of de.cpp seen as an AbstractDebugger.  The trap and all    *)
(* that Continue does to undo it are one abstract step, taken when the      *)
(* target executes the INT 3: from then on, until Continue has returned,    *)
(* the process is taken to be where the trap is.                            *)
(***************************************************************************)
EXTENDS Debugger

\* The debugger's INT 3 has been executed; its byte or the pointer is still to
\* be put back.
InHit ==
  /\ Alive
  /\ \/ /\ pc \in {"cont_wait", "cont_regs", "restore"}
        /\ Stopped /\ sig = "TRAP"
        /\ rip - 1 \in Text /\ mem[rip - 1] = "trap"
     \/ pc = "setregs"

Process == CASE Running -> "running"
             [] Stopped -> "held"
             [] OTHER   -> tracee
Place   == IF ~Alive THEN Entry ELSE IF InHit THEN rip - 1 ELSE rip
Reason  == IF Alive THEN sig ELSE "none"
Planted == IF ~Alive THEN {}
           ELSE {a \in DOMAIN Breakpoints : Mapped(a)} \ (IF InHit THEN {rip - 1} ELSE {})

Abstract == INSTANCE AbstractDebugger WITH
  process <- Process, place <- Place, reason <- Reason, breakpoints <- Planted,
  Asked <- Asked

\* Where the promise can be kept.  The user only sets breakpoints and
\* continues; single steps run over traps, see StepsToInstruction.  Breakpoints
\* are at instructions whose word is mapped, never inside of one.  The bytes
\* the wide poke zeroes belong to no instruction: on x86-64 these are the
\* instructions with padding behind them, see TextIsOriginal for the others.
\* And a SIGTRAP from outside, which Continue cannot tell from that of a trap,
\* cannot meet the target just behind the byte of a breakpoint.
ContinueOnly ==
  /\ Typed \cap Names.nexti = {} /\ ~StdinEnds
  /\ Asked \cap Text \subseteq {a \in Instrs : Mapped(a)}
  /\ \A i \in Instrs : Asked \cap Extent(i) \subseteq {i}
  /\ \A a \in Asked, i \in Instrs : Extent(i) \cap Behind(a) = {}
  /\ "TRAP" \in Signals => \A a \in Asked \cap Text : a + 1 \notin Instrs

\* Set_breakpoint and Continue, with every failure, kill and signal between
\* their system calls, are a debugger: the target executes its own program,
\* instruction by instruction, and is held exactly where it was asked to be,
\* under Spaced and ContinueOnly.
ImplementsAbstract == Abstract!Spec
=============================================================================
