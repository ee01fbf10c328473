--------------------------- MODULE DebuggerProofs ---------------------------
(***************************************************************************)
(* What holds of the debugger for every target program, every set of       *)
(* commands and addresses, and every width of the words.                    *)
(***************************************************************************)
EXTENDS Debugger, TLAPS

-----------------------------------------------------------------------------
(* The tables *)

LEMMA LowType ==
  ASSUME NEW w \in Words
  PROVE  Low(w) \in SavedWords
<1>1. 0 .. SavedBytes - 1 \subseteq 0 .. WordBytes - 1
  BY DebuggerAssumption, TextAssumption
<1>2. QED  BY <1>1 DEF Low, SavedWords, Words

LEMMA WidenType ==
  ASSUME NEW d \in SavedWords
  PROVE  Widen(d) \in Words
BY DebuggerAssumption, TextAssumption DEF Widen, SavedWords, Words, Bytes

LEMMA WithTrapType ==
  ASSUME NEW d \in SavedWords
  PROVE  WithTrap(d) \in SavedWords
BY DEF WithTrap, SavedWords, Bytes

LEMMA PeekType ==
  ASSUME TraceeTypeOK, NEW a \in Int
  PROVE  PeekText(a) \in Words
<1>1. ASSUME NEW i \in 0 .. WordBytes - 1, CanAccess(a)
      PROVE  a + i \in Text
  BY <1>1, TextAssumption DEF CanAccess, Mapped, Text
<1>2. QED  BY <1>1 DEF PeekText, Words, TraceeTypeOK, Bytes

LEMMA PokeType ==
  ASSUME TraceeTypeOK, NEW a \in Int, NEW w \in Words
  PROVE  PokeText(a, w) \in [Text -> Bytes]
<1>1. ASSUME NEW b \in Text, b \in a .. (a + WordBytes - 1)
      PROVE  b - a \in 0 .. WordBytes - 1
  BY <1>1, TextAssumption DEF Text
<1>2. QED  BY <1>1 DEF PokeText, Words, TraceeTypeOK

LEMMA ParsedType ==
  ASSUME NEW c \in Command
  PROVE  Parsed(c.arg) \subseteq 0 .. UIntMax
<1>1. CASE c.arg = NoArg
  BY <1>1, DebuggerAssumption DEF Parsed
<1>2. CASE c.arg # NoArg
  <2>1. c.arg \in Nat
    BY <1>2 DEF Command
  <2>2. QED  BY <1>2, <2>1, DebuggerAssumption DEF Parsed
<1>3. QED  BY <1>1, <1>2

LEMMA HitAddrType ==
  ASSUME NEW r \in Int
  PROVE  HitAddr(r) \in 0 .. UIntMax
BY DebuggerAssumption DEF HitAddr

LEMMA RegsReadType ==
  ASSUME TraceeTypeOK
  PROVE  RegsRead \subseteq Int
BY DebuggerAssumption DEF RegsRead, TraceeTypeOK

-----------------------------------------------------------------------------
(* Type correctness *)

\* The iterator Continue works with is one of the map's.
FoundIsListed ==
  pc \in {"restore", "setregs"} => HitAddr(regs) \in DOMAIN Breakpoints

LEMMA TextIsInt == Text \subseteq Int /\ Instrs \subseteq Int /\ Strays \subseteq Int
BY TextAssumption, ProgramAssumption DEF Text

LEMMA InitTypeOK == Init => TypeOK
<1>1. ASSUME Init PROVE TraceeTypeOK
  BY <1>1, TextIsInt, ProgramAssumption
  DEF Init, TraceeInit, TraceeTypeOK, Bytes, ProcStates
<1>2. ASSUME Init PROVE Breakpoints \in [DOMAIN Breakpoints -> SavedWords]
  BY <1>2 DEF Init
<1>3. ASSUME Init PROVE DOMAIN Breakpoints = {}
  BY <1>3 DEF Init
<1>4. EmptyLine \in Command /\ NoArg \in Int
  BY DEF EmptyLine, Command, NoArg
<1>5. ASSUME Init
      PROVE  /\ pc \in Points
             /\ wait_status \in {"none", "stopped", "exited", "signaled"}
             /\ command \in Command
             /\ stdin \in {"open", "eof"}
             /\ executed_instructions \in Seq(Int)
             /\ regs \in Int
             /\ shown \in Garbage \cup {NoArg}
             /\ helper \in HelperStates
  BY <1>4, <1>5 DEF Init, Points, Waits, HelperStates
<1>6. QED  BY <1>1, <1>2, <1>3, <1>5 DEF TypeOK

LEMMA TraceeTypeStep ==
  ASSUME TraceeTypeOK, TraceeNext
  PROVE  TraceeTypeOK'
<1> USE DEF TraceeTypeOK, ProcStates
<1>1. CASE ExecSucceeds  BY <1>1 DEF ExecSucceeds
<1>2. CASE ExecFails  BY <1>2 DEF ExecFails
<1>3. CASE Trap  BY <1>3 DEF Trap
<1>4. CASE Retire
  <2>1. Successors(rip) \subseteq Int
    BY TextIsInt, ProgramAssumption DEF Successors, Intact
  <2>2. QED  BY <1>4, <2>1 DEF Retire
<1>5. CASE Fault  BY <1>5 DEF Fault
<1>6. CASE Exit  BY <1>6 DEF Exit
<1>7. CASE Signalled  BY <1>7 DEF Signalled
<1>8. CASE Killed  BY <1>8 DEF Killed
<1>9. QED
  BY <1>1, <1>2, <1>3, <1>4, <1>5, <1>6, <1>7, <1>8
  DEF TraceeNext, Launch, Instruction

\* What Continue, nexti and wait do to the state of the target.
LEMMA ProcTypes ==
  ASSUME TraceeTypeOK
  PROVE  /\ Resume("running") \in ProcStates
         /\ Resume("stepping") \in ProcStates
         /\ Reported \in ProcStates
         /\ Statuses \subseteq {"stopped", "exited", "signaled"}
BY DEF TraceeTypeOK, ProcStates, Resume, Reported, Statuses

LEMMA SetBreakpointType ==
  ASSUME TypeOK, Set_breakpoint
  PROVE  /\ mem' \in [Text -> Bytes]
         /\ DOMAIN Breakpoints' \subseteq 0 .. UIntMax
         /\ Breakpoints' \in [DOMAIN Breakpoints' -> SavedWords]
<1>1. PICK addr \in Parsed(command.arg) :
        /\ mem' = PokeText(addr, Widen(WithTrap(Low(PeekText(addr)))))
        /\ Breakpoints' = Inserted(Breakpoints, addr, Low(PeekText(addr)))
  BY DEF Set_breakpoint
<1>2. addr \in 0 .. UIntMax
  BY <1>1, ParsedType DEF TypeOK
<1>3. Low(PeekText(addr)) \in SavedWords
  BY <1>2, PeekType, LowType DEF TypeOK
<1>4. mem' \in [Text -> Bytes]
  BY <1>1, <1>2, <1>3, WithTrapType, WidenType, PokeType DEF TypeOK
<1>5. DOMAIN Breakpoints' = DOMAIN Breakpoints \cup {addr}
  BY <1>1 DEF Inserted
<1>6. Breakpoints' \in [DOMAIN Breakpoints' -> SavedWords]
  BY <1>1, <1>3, <1>5 DEF Inserted, TypeOK
<1>7. QED  BY <1>2, <1>4, <1>5, <1>6 DEF TypeOK

LEMMA RestoreType ==
  ASSUME TypeOK, FoundIsListed, Restore
  PROVE  mem' \in [Text -> Bytes]
<1>1. mem' = PokeText(HitAddr(regs), Widen(Breakpoints[HitAddr(regs)]))
  BY DEF Restore
<1>2. Breakpoints[HitAddr(regs)] \in SavedWords
  BY DEF TypeOK, FoundIsListed, Restore
<1>3. QED
  BY <1>1, <1>2, WidenType, HitAddrType, PokeType DEF TypeOK

LEMMA ErasedType ==
  ASSUME TypeOK, NEW a
  PROVE  /\ DOMAIN Erased(Breakpoints, a) \subseteq 0 .. UIntMax
         /\ Erased(Breakpoints, a) \in [DOMAIN Erased(Breakpoints, a) -> SavedWords]
BY DEF Erased, TypeOK

LEMMA RecordType ==
  ASSUME NEW table \in Seq(Int), NEW r \in Int
  PROVE  Record(table, r) \in Seq(Int)
BY DEF Record

LEMMA CommandsTyped == Commands \subseteq Command /\ EmptyLine \in Command
BY DebuggerAssumption DEF Commands, Command, EmptyLine, NoArg

LEMMA DebuggerTypeStep ==
  ASSUME TypeOK, FoundIsListed, DebuggerStep
  PROVE  TypeOK'
<1> USE DEF TypeOK, TraceeTypeOK, Points, Waits, Over, Return, HelperStates, Asking
<1>1. CASE InitialWait
  BY <1>1, ProcTypes DEF InitialWait
<1>2. CASE LoopEnds
  BY <1>2 DEF LoopEnds, traceeVars
<1>3. CASE ExitCommand
  BY <1>3 DEF ExitCommand, ProcStates
<1>4. CASE List_breakpoints
  BY <1>4 DEF List_breakpoints, traceeVars
<1>5. CASE UnknownCommand
  BY <1>5 DEF UnknownCommand, traceeVars
<1>6. CASE Info_registers
  BY <1>6 DEF Info_registers, traceeVars
<1>7. CASE Set_breakpoint
  BY <1>7, SetBreakpointType DEF Set_breakpoint
<1>8. CASE Disassemble
  BY <1>8 DEF Disassemble, traceeVars
<1>9. CASE Continue
  BY <1>9, ProcTypes DEF Continue
<1>10. CASE NextI
  BY <1>10, ProcTypes DEF NextI
<1>11. CASE DisassembleWait
  BY <1>11 DEF DisassembleWait, traceeVars
<1>12. CASE ContinueWait
  BY <1>12, ProcTypes DEF ContinueWait
<1>13. CASE ContinueRegs
  BY <1>13, RegsReadType DEF ContinueRegs, traceeVars
<1>14. CASE Restore
  <2>1. mem' \in [Text -> Bytes]
    BY <1>14, RestoreType
  <2>2. QED  BY <1>14, <2>1 DEF Restore
<1>15. CASE SetRegs
  BY <1>15, ErasedType DEF SetRegs, Rewound
<1>16. CASE StepWait
  BY <1>16, ProcTypes DEF StepWait
<1>17. CASE StepRegs
  <2>1. PICK r \in RegsRead :
          executed_instructions' = Record(executed_instructions, r)
    BY <1>17 DEF StepRegs
  <2>2. executed_instructions' \in Seq(Int)
    BY <2>1, RegsReadType, RecordType
  <2>3. QED  BY <1>17, <2>2 DEF StepRegs, traceeVars
<1>18. QED
  BY <1>1, <1>2, <1>3, <1>4, <1>5, <1>6, <1>7, <1>8, <1>9, <1>10, <1>11,
     <1>12, <1>13, <1>14, <1>15, <1>16, <1>17
  DEF DebuggerStep, Dispatch

LEMMA FoundStep == TypeOK /\ FoundIsListed /\ [Next]_vars => FoundIsListed'
<1> SUFFICES ASSUME TypeOK, FoundIsListed, [Next]_vars PROVE FoundIsListed'
  OBVIOUS
<1> USE DEF FoundIsListed, HitAddr
<1>1. CASE ContinueRegs
  BY <1>1 DEF ContinueRegs, Hit, Return
<1>2. CASE Restore
  BY <1>2 DEF Restore, Return
<1>3. CASE SetRegs
  BY <1>3 DEF SetRegs, Return
<1>4. CASE DebuggerStep /\ ~ContinueRegs /\ ~Restore /\ ~SetRegs
  <2>1. pc' \notin {"restore", "setregs"}
    BY <1>4
    DEF DebuggerStep, Dispatch, InitialWait, LoopEnds, ExitCommand,
        List_breakpoints, UnknownCommand, Info_registers, Set_breakpoint,
        Disassemble, Continue, NextI, DisassembleWait, ContinueWait, StepWait,
        StepRegs, Return
  <2>2. QED  BY <2>1
<1>5. CASE ReadCommand
  BY <1>5 DEF ReadCommand
<1>6. CASE HelperReads \/ HelperExits \/ TargetStep(TraceeNext) \/ UNCHANGED vars
  BY <1>6 DEF HelperReads, HelperExits, TargetStep, debuggerVars, vars
<1>7. QED
  BY <1>1, <1>2, <1>3, <1>4, <1>5, <1>6 DEF Next, Terminated

LEMMA NextTypeOK == TypeOK /\ FoundIsListed /\ [Next]_vars => TypeOK'
<1> SUFFICES ASSUME TypeOK, FoundIsListed, [Next]_vars PROVE TypeOK'
  OBVIOUS
<1>1. CASE DebuggerStep
  BY <1>1, DebuggerTypeStep
<1>2. CASE ReadCommand
  <2>1. command' \in Command /\ stdin' \in {"open", "eof"}
    BY <1>2, CommandsTyped DEF ReadCommand, GetLine, TypeOK
  <2>2. QED
    BY <1>2, <2>1 DEF ReadCommand, TypeOK, TraceeTypeOK, Points, traceeVars
<1>3. CASE HelperReads \/ HelperExits
  BY <1>3 DEF HelperReads, HelperExits, HelperStates, Asking, TypeOK, TraceeTypeOK,
              traceeVars
<1>4. CASE TargetStep(TraceeNext)
  BY <1>4, TraceeTypeStep DEF TargetStep, TypeOK, debuggerVars
<1>5. CASE UNCHANGED vars
  BY <1>5 DEF vars, traceeVars, debuggerVars, TypeOK, TraceeTypeOK
<1>6. QED
  BY <1>1, <1>2, <1>3, <1>4, <1>5 DEF Next, Terminated

\* Every variable keeps its type: the pokes write whole words of bytes into
\* the text, and the map only gets words that fit an unsigned int.
THEOREM TypeCorrect == Spec => []TypeOK
<1>1. Init => FoundIsListed
  BY DEF Init, FoundIsListed
<1>2. QED  BY <1>1, InitTypeOK, NextTypeOK, FoundStep, PTL DEF Spec

-----------------------------------------------------------------------------
(* The debugger and its processes *)

\* What main's status says once it is not a stop: the target was collected.
StatusIsFinal ==
  /\ wait_status = "none" => pc = "start"
  /\ wait_status \in {"exited", "signaled"} => tracee = "gone"

\* Who set the target running waits for it.
WaitsForItsOwn ==
  /\ tracee = "starting" => pc = "start"
  /\ tracee = "running" => pc = "cont_wait"
  /\ tracee = "stepping" => pc = "step_wait"

ProcessInv == /\ ControlsTarget /\ NoOrphan /\ WaitsForTargetOnly
              /\ StatusIsFinal /\ WaitsForItsOwn

LEMMA ProcessStep ==
  ASSUME TypeOK, ProcessInv, [Next]_vars
  PROVE  ProcessInv'
<1> USE DEF ProcessInv, ControlsTarget, NoOrphan, WaitsForTargetOnly,
            StatusIsFinal, WaitsForItsOwn, Waits, Over, Alive, Return
<1>1. CASE InitialWait
  BY <1>1 DEF InitialWait, WaitReturns, Statuses, Reported
<1>2. CASE LoopEnds
  BY <1>2 DEF LoopEnds, traceeVars, TypeOK
<1>3. CASE ExitCommand
  BY <1>3 DEF ExitCommand, Handling
<1>4. CASE List_breakpoints \/ UnknownCommand \/ Info_registers
  BY <1>4 DEF List_breakpoints, UnknownCommand, Info_registers, Handling,
              Unknown, traceeVars
<1>5. CASE Set_breakpoint
  BY <1>5 DEF Set_breakpoint, Handling
<1>6. CASE Disassemble \/ DisassembleWait
  BY <1>6 DEF Disassemble, DisassembleWait, Handling, traceeVars
<1>7. CASE Continue \/ NextI
  BY <1>7 DEF Continue, NextI, Handling, Resume, Stopped
<1>8. CASE ContinueWait \/ StepWait
  BY <1>8 DEF ContinueWait, StepWait, WaitReturns, Reported
<1>9. CASE ContinueRegs \/ Restore \/ SetRegs \/ StepRegs
  BY <1>9 DEF ContinueRegs, Restore, SetRegs, StepRegs, traceeVars
<1>10. CASE ReadCommand \/ HelperReads \/ HelperExits
  BY <1>10 DEF ReadCommand, HelperReads, HelperExits, Asking, traceeVars
<1>11. CASE TargetStep(TraceeNext)
  BY <1>11
  DEF TargetStep, debuggerVars, TraceeNext, Launch, Instruction, ExecSucceeds,
      ExecFails, Trap, Retire, Fault, Exit, Signalled, Killed, Running
<1>12. CASE UNCHANGED vars
  BY <1>12 DEF vars, traceeVars, debuggerVars
<1>13. QED
  BY <1>1, <1>2, <1>3, <1>4, <1>5, <1>6, <1>7, <1>8, <1>9, <1>10, <1>11, <1>12
  DEF Next, DebuggerStep, Dispatch, Terminated

LEMMA ProcessInvariant == Spec => []ProcessInv
<1>1. Init => ProcessInv
  BY DEF Init, TraceeInit, ProcessInv, ControlsTarget, NoOrphan, Over, Waits,
         WaitsForTargetOnly, StatusIsFinal, WaitsForItsOwn
<1>2. QED  BY <1>1, TypeCorrect, ProcessStep, PTL DEF Spec

\* The target runs only while the debugger waits for it, and no wait() of the
\* debugger is for a target that has nothing to report any more.
THEOREM TargetIsControlled == Spec => []ControlsTarget
BY ProcessInvariant, PTL DEF ProcessInv

\* When the debugger ends, through "exit" or because its target has ended,
\* it leaves no target behind.
THEOREM NoTargetIsOrphaned == Spec => []NoOrphan
BY ProcessInvariant, PTL DEF ProcessInv

\* The child disassemble forks is collected before anything else is waited for.
THEOREM OnlyTheTargetIsAwaited == Spec => []WaitsForTargetOnly
BY ProcessInvariant, PTL DEF ProcessInv

-----------------------------------------------------------------------------
(* The loop table *)

LEMMA RecordSound ==
  ASSUME NEW table \in Seq(Int), NEW r \in Int,
         Len(table) <= MAX_EXECUTED_INSTRUCTIONS,
         \A i, j \in 1 .. Len(table) : table[i] = table[j] => i = j
  PROVE  /\ Len(Record(table, r)) <= MAX_EXECUTED_INSTRUCTIONS
         /\ \A i, j \in 1 .. Len(Record(table, r)) :
              Record(table, r)[i] = Record(table, r)[j] => i = j
<1>1. CASE r \in Recorded(table) \/ Len(table) >= MAX_EXECUTED_INSTRUCTIONS
  BY <1>1 DEF Record
<1>2. CASE r \notin Recorded(table) /\ Len(table) < MAX_EXECUTED_INSTRUCTIONS
  <2>1. Record(table, r) = Append(table, r)
    BY <1>2, DebuggerAssumption DEF Record
  <2>2. \A i \in 1 .. Len(table) : table[i] # r
    BY <1>2 DEF Recorded
  <2>3. /\ Len(Append(table, r)) = Len(table) + 1
        /\ \A i \in 1 .. Len(table) : Append(table, r)[i] = table[i]
        /\ Append(table, r)[Len(table) + 1] = r
    OBVIOUS
  <2>4. Len(table) + 1 <= MAX_EXECUTED_INSTRUCTIONS
    BY <1>2, DebuggerAssumption
  <2>5. \A i \in 1 .. Len(table) + 1 : i \in 1 .. Len(table) \/ i = Len(table) + 1
    OBVIOUS
  <2>6. QED  BY <2>1, <2>2, <2>3, <2>4, <2>5
<1>3. QED  BY <1>1, <1>2, DebuggerAssumption

LEMMA TableStep == TypeOK /\ TableSound /\ [Next]_vars => TableSound'
<1> SUFFICES ASSUME TypeOK, TableSound, [Next]_vars PROVE TableSound'
  OBVIOUS
<1>1. CASE StepRegs
  <2>1. PICK r \in RegsRead :
          executed_instructions' = Record(executed_instructions, r)
    BY <1>1 DEF StepRegs
  <2>2. executed_instructions \in Seq(Int) /\ r \in Int
    BY <2>1, RegsReadType DEF TypeOK
  <2>3. QED  BY <2>1, <2>2, RecordSound DEF TableSound
<1>2. CASE [Next]_vars /\ ~StepRegs
  <2>1. UNCHANGED executed_instructions
    BY <1>2
    DEF Next, DebuggerStep, Dispatch, Terminated, InitialWait, LoopEnds,
        ReadCommand, ExitCommand, List_breakpoints, UnknownCommand,
        Info_registers, Set_breakpoint, Disassemble, DisassembleWait,
        HelperReads, HelperExits, Continue, ContinueWait, ContinueRegs, Restore, SetRegs,
        NextI, StepWait, TargetStep, debuggerVars, vars
  <2>2. QED  BY <2>1 DEF TableSound
<1>3. QED  BY <1>1, <1>2

\* However long a session is, nexti enters no stop twice and never writes
\* behind the end of the table, whatever GETREGS delivers.
THEOREM TableIsSound == Spec => []TableSound
<1>1. Init => TableSound
  BY DebuggerAssumption DEF Init, TableSound
<1>2. QED  BY <1>1, TypeCorrect, TableStep, PTL DEF Spec

-----------------------------------------------------------------------------
(* Breakpoints.  The argument: bytes that are not the program's own lie      *)
(* either on an armed breakpoint or in the upper half of a word poked for    *)
(* one; addresses a word apart never meet either of these, so what a         *)
(* breakpoint saves is always the program's.                                 *)

\* The keys of the map are addresses the user asked for.
KeysAreAsked ==
  /\ DOMAIN Breakpoints \subseteq Asked
  /\ command.name = "break" => command.arg \in BreakArgs

PlantInv == ListedArePlanted /\ SavedAreOriginal /\ DamageIsConfined

LEMMA PokedText ==
  ASSUME TypeOK, NEW a \in Int, CanAccess(a), NEW d \in SavedWords, NEW b \in Text
  PROVE  /\ b \in a .. (a + SavedBytes - 1) => PokeText(a, Widen(d))[b] = d[b - a]
         /\ b \in (a + SavedBytes) .. (a + WordBytes - 1)
              => PokeText(a, Widen(d))[b] = "zero"
         /\ b \notin a .. (a + WordBytes - 1) => PokeText(a, Widen(d))[b] = mem[b]
<1>1. b \in Int /\ SavedBytes \in 1 .. WordBytes /\ WordBytes \in Nat
  BY TextIsInt, TextAssumption, DebuggerAssumption
<1>2. b \in a .. (a + SavedBytes - 1)
        => b \in a .. (a + WordBytes - 1) /\ b - a \in 0 .. WordBytes - 1
                                          /\ b - a < SavedBytes
  BY <1>1
<1>3. b \in (a + SavedBytes) .. (a + WordBytes - 1)
        => b \in a .. (a + WordBytes - 1) /\ b - a \in 0 .. WordBytes - 1
                                          /\ ~(b - a < SavedBytes)
  BY <1>1
<1>4. QED  BY <1>2, <1>3 DEF PokeText, Widen

LEMMA PeekedData ==
  ASSUME TypeOK, NEW a \in Int, CanAccess(a)
  PROVE  /\ Low(PeekText(a)) \in SavedWords
         /\ \A i \in 0 .. SavedBytes - 1 :
              a + i \in Text /\ Low(PeekText(a))[i] = mem[a + i]
<1>1. 0 .. SavedBytes - 1 \subseteq 0 .. WordBytes - 1
  BY DebuggerAssumption, TextAssumption
<1>2. \A i \in 0 .. WordBytes - 1 : a + i \in Text
  BY TextAssumption DEF CanAccess, Mapped, Text
<1>3. QED  BY <1>1, <1>2, PeekType, LowType DEF Low, PeekText, TypeOK

LEMMA KeysStep ==
  ASSUME TypeOK, KeysAreAsked, [Next]_vars
  PROVE  KeysAreAsked'
<1> USE DEF KeysAreAsked
<1>1. CASE Set_breakpoint
  <2>1. command.arg \in BreakArgs
    BY <1>1 DEF Set_breakpoint, Handling, Names
  <2>2. PICK addr \in Parsed(command.arg) :
          DOMAIN Breakpoints' = DOMAIN Breakpoints \cup {addr}
    BY <1>1 DEF Set_breakpoint, Inserted
  <2>3. addr \in Asked
    BY <2>1, <2>2 DEF Asked
  <2>4. QED  BY <1>1, <2>2, <2>3 DEF Set_breakpoint
<1>2. CASE SetRegs
  <2>1. DOMAIN Breakpoints' \subseteq DOMAIN Breakpoints
    BY <1>2 DEF SetRegs, Erased
  <2>2. QED  BY <1>2, <2>1 DEF SetRegs
<1>3. CASE ReadCommand
  <2>1. CASE command' \in Commands
    <3>1. command'.name = "break" => command'.arg \in BreakArgs
      BY <2>1 DEF Commands
    <3>2. QED  BY <1>3, <3>1 DEF ReadCommand
  <2>2. CASE command' = EmptyLine
    <3>1. command'.name # "break"
      BY <2>2 DEF EmptyLine
    <3>2. QED  BY <1>3, <3>1 DEF ReadCommand
  <2>3. CASE UNCHANGED command
    BY <1>3, <2>3 DEF ReadCommand
  <2>4. QED  BY <1>3, <2>1, <2>2, <2>3 DEF ReadCommand, GetLine
<1>4. CASE [Next]_vars /\ ~Set_breakpoint /\ ~SetRegs /\ ~ReadCommand
  BY <1>4
  DEF Next, DebuggerStep, Dispatch, Terminated, InitialWait, LoopEnds,
      ExitCommand, List_breakpoints, UnknownCommand, Info_registers,
      Disassemble, DisassembleWait, HelperReads,
         HelperExits, Continue, ContinueWait,
      ContinueRegs, Restore, NextI, StepWait, StepRegs, TargetStep,
      debuggerVars, vars
<1>5. QED  BY <1>1, <1>2, <1>3, <1>4

LEMMA AskedType == Asked \subseteq 0 .. UIntMax /\ Asked \subseteq Int
<1>1. ASSUME NEW arg \in BreakArgs PROVE Parsed(arg) \subseteq 0 .. UIntMax
  <2>1. CASE arg = NoArg
    BY <2>1, DebuggerAssumption DEF Parsed
  <2>2. CASE arg # NoArg
    BY <2>2, DebuggerAssumption DEF Parsed
  <2>3. QED  BY <2>1, <2>2
<1>2. QED  BY <1>1, DebuggerAssumption DEF Asked

LEMMA SpacedKeys ==
  ASSUME Spaced, NEW a \in Asked, NEW b \in Asked, a # b
  PROVE  /\ a \in Int /\ b \in Int
         /\ a + WordBytes <= b \/ b + WordBytes <= a
<1>1. a \in Int /\ b \in Int
  BY AskedType
<1>2. a < b \/ b < a
  BY <1>1
<1>3. QED  BY <1>1, <1>2 DEF Spaced

\* With a target at hand and nobody waiting, every mapped word can be poked.
LEMMA PokeWorks ==
  ASSUME ProcessInv, Alive, pc \notin Waits, NEW a
  PROVE  CanAccess(a) <=> Mapped(a)
BY DEF ProcessInv, ControlsTarget, Alive, CanAccess, Stopped

LEMMA PlantStepSet ==
  ASSUME Spaced, TypeOK, ProcessInv, KeysAreAsked, PlantInv, Set_breakpoint
  PROVE  PlantInv'
<1> USE DEF Behind
<1>1. PICK addr \in Parsed(command.arg) :
        /\ mem' = PokeText(addr, Widen(WithTrap(Low(PeekText(addr)))))
        /\ Breakpoints' = Inserted(Breakpoints, addr, Low(PeekText(addr)))
  BY DEF Set_breakpoint
<1> DEFINE data == Low(PeekText(addr))
<1>2. addr \in Asked /\ addr \in Int
  <2>1. command.arg \in BreakArgs
    BY DEF Set_breakpoint, Handling, Names, KeysAreAsked
  <2>2. QED  BY <1>1, <2>1, AskedType DEF Asked
<1>3. /\ mem' = PokeText(addr, Widen(WithTrap(data)))
      /\ Breakpoints' = Inserted(Breakpoints, addr, data)
      /\ UNCHANGED <<tracee, rip>> /\ pc = "dispatch" /\ pc' = "prompt"
  BY <1>1 DEF Set_breakpoint, Handling, Return
<1>4. DOMAIN Breakpoints' = DOMAIN Breakpoints \cup {addr}
  BY <1>3 DEF Inserted
<1>5. Alive' <=> Alive
  BY <1>3 DEF Alive
<1>6. SUFFICES ASSUME Alive PROVE PlantInv'
  BY <1>5 DEF PlantInv, ListedArePlanted, SavedAreOriginal, DamageIsConfined
<1>7. CanAccess(addr) <=> Mapped(addr)
  BY <1>3, <1>6, PokeWorks DEF Waits
<1>8. /\ Lifted = {} /\ Lifted' = {}
      /\ Armed = {a \in DOMAIN Breakpoints : Mapped(a)}
      /\ Armed' = {a \in DOMAIN Breakpoints \cup {addr} : Mapped(a)}
  BY <1>3, <1>4 DEF Lifted, Armed, Mapped
<1>9. CASE ~Mapped(addr)
  <2>1. mem' = mem
    BY <1>3, <1>7, <1>9 DEF PokeText, TypeOK, TraceeTypeOK
  <2>2. Armed' = Armed
    BY <1>8, <1>9
  <2>3. \A a \in DOMAIN Breakpoints' : Mapped(a) =>
          a \in DOMAIN Breakpoints /\ Breakpoints'[a] = Breakpoints[a]
    BY <1>3, <1>4, <1>9 DEF Inserted
  <2>4. QED
    BY <1>6, <2>1, <2>2, <2>3
    DEF PlantInv, ListedArePlanted, SavedAreOriginal, DamageIsConfined, Mapped
<1>10. CASE Mapped(addr)
  <2>1. CanAccess(addr)
    BY <1>7, <1>10
  <2>2. /\ data \in SavedWords
        /\ \A i \in 0 .. SavedBytes - 1 : addr + i \in Text /\ data[i] = mem[addr + i]
    BY <1>2, <2>1, PeekedData
  <2>3. SavedBytes \in 1 .. WordBytes /\ WordBytes \in Nat
    BY DebuggerAssumption, TextAssumption
  <2>4. WithTrap(data) \in SavedWords /\ WithTrap(data)[0] = "trap"
        /\ \A i \in 1 .. SavedBytes - 1 : WithTrap(data)[i] = data[i]
    BY <2>2, <2>3, WithTrapType DEF WithTrap, SavedWords
  <2>5. addr \in Text /\ Text \subseteq Int
    BY <1>10, TextIsInt DEF Mapped
  <2>6. mem'[addr] = "trap"
    <3>1. addr \in addr .. (addr + SavedBytes - 1) /\ addr - addr = 0
      BY <1>2, <2>3
    <3>2. QED  BY <1>2, <1>3, <2>1, <2>4, <2>5, <3>1, PokedText
  <2>7. \A b \in Text : b \in (addr + 1) .. (addr + SavedBytes - 1) => mem'[b] = mem[b]
    <3>1. SUFFICES ASSUME NEW b \in Text, b \in (addr + 1) .. (addr + SavedBytes - 1)
                   PROVE  mem'[b] = mem[b]
      OBVIOUS
    <3>2. /\ b \in addr .. (addr + SavedBytes - 1) /\ b - addr \in 1 .. SavedBytes - 1
          /\ b - addr \in 0 .. SavedBytes - 1 /\ addr + (b - addr) = b
      BY <1>2, <2>3, <2>5, <3>1
    <3>3. mem'[b] = WithTrap(data)[b - addr]
      BY <1>2, <1>3, <2>1, <2>4, <3>2, PokedText
    <3>4. WithTrap(data)[b - addr] = mem[b]
      BY <2>2, <2>4, <3>2
    <3>5. QED  BY <3>3, <3>4
  <2>8. \A b \in Text : b \in (addr + SavedBytes) .. (addr + WordBytes - 1) => mem'[b] = "zero"
    BY <1>2, <1>3, <2>1, <2>4, PokedText
  <2>9. \A b \in Text : b \notin addr .. (addr + WordBytes - 1) => mem'[b] = mem[b]
    BY <1>2, <1>3, <2>1, <2>4, PokedText
  <2>10. \A b \in Text : \/ b = addr
                         \/ b \in (addr + 1) .. (addr + SavedBytes - 1)
                         \/ b \in (addr + SavedBytes) .. (addr + WordBytes - 1)
                         \/ b \notin addr .. (addr + WordBytes - 1)
    BY <1>2, <2>3, <2>5
  <2>11. \A b \in Asked : b # addr => b \notin addr .. (addr + WordBytes - 1)
    <3>1. ASSUME NEW b \in Asked, b # addr PROVE b \notin addr .. (addr + WordBytes - 1)
      BY <1>2, <2>3, <3>1, SpacedKeys
    <3>2. QED  BY <3>1
  <2>12. Armed \subseteq Asked /\ Armed' = Armed \cup {addr}
    BY <1>8, <1>10 DEF KeysAreAsked
  <2>13. ListedArePlanted'
    <3>1. ASSUME NEW b \in Text PROVE mem'[b] = "trap" <=> b \in Armed'
      <4>1. mem[b] = "trap" <=> b \in Armed
        BY <1>6 DEF PlantInv, ListedArePlanted
      <4>2. CASE b = addr
        BY <2>6, <2>12, <4>2
      <4>3. CASE b # addr /\ b \in (addr + SavedBytes) .. (addr + WordBytes - 1)
        <5>1. b \in addr .. (addr + WordBytes - 1)
          BY <1>2, <2>3, <2>5, <4>3
        <5>2. b \notin Armed
          BY <2>11, <2>12, <4>3, <5>1
        <5>3. QED  BY <2>8, <2>12, <4>3, <5>2
      <4>4. CASE b # addr /\ b \notin (addr + SavedBytes) .. (addr + WordBytes - 1)
        BY <2>7, <2>9, <2>10, <2>12, <4>1, <4>4
      <4>5. QED  BY <4>2, <4>3, <4>4
    <3>2. Armed' \subseteq Text
      BY <1>8 DEF Mapped
    <3>3. QED  BY <3>1, <3>2 DEF ListedArePlanted
  <2>14. SavedAreOriginal'
    <3>1. ASSUME NEW a \in DOMAIN Breakpoints', Mapped(a),
                 NEW i \in DOMAIN (Breakpoints'[a])
          PROVE  Breakpoints'[a][i] = "own"
      <4>1. CASE a \in DOMAIN Breakpoints
        BY <1>3, <1>6, <3>1, <4>1 DEF Inserted, PlantInv, SavedAreOriginal
      <4>2. CASE a \notin DOMAIN Breakpoints
        <5>1. a = addr /\ Breakpoints'[a] = data
          BY <1>3, <1>4, <4>2 DEF Inserted
        <5>2. i \in 0 .. SavedBytes - 1
          BY <2>2, <3>1, <5>1 DEF SavedWords
        <5>3. addr + i \in Text /\ data[i] = mem[addr + i]
          BY <2>2, <5>2
        <5>4. addr + i \in addr .. (addr + WordBytes - 1)
          BY <1>2, <2>3, <5>2
        <5>5. addr + i \notin Armed
          BY <2>11, <2>12, <4>2, <5>1, <5>4, <1>8
        <5>6. ASSUME NEW c \in Asked
              PROVE  addr + i \notin (c + SavedBytes) .. (c + WordBytes - 1)
          <6>1. CASE c = addr
            BY <1>2, <2>3, <5>2, <6>1
          <6>2. CASE c # addr
            <7>1. c \in Int /\ (c + WordBytes <= addr \/ addr + WordBytes <= c)
              BY <1>2, <6>2, SpacedKeys
            <7>2. i \in Int /\ 0 <= i /\ i < WordBytes
              BY <2>3, <5>2
            <7>3. QED  BY <1>2, <2>3, <7>1, <7>2
          <6>3. QED  BY <6>1, <6>2
        <5>7. mem[addr + i] = "own"
          BY <1>6, <5>3, <5>5, <5>6 DEF PlantInv, DamageIsConfined
        <5>8. QED  BY <5>1, <5>3, <5>7
      <4>3. QED  BY <4>1, <4>2
    <3>2. QED  BY <3>1 DEF SavedAreOriginal, Mapped
  <2>15. DamageIsConfined'
    <3>1. ASSUME NEW b \in Text
          PROVE  \/ mem'[b] = "own"
                 \/ b \in Armed'
                 \/ \E a \in Asked : b \in Behind(a)
      <4>1. \/ mem[b] = "own"
            \/ b \in Armed
            \/ \E a \in Asked : b \in Behind(a)
        BY <1>6 DEF PlantInv, DamageIsConfined
      <4>2. QED  BY <1>2, <2>7, <2>9, <2>10, <2>12, <4>1
    <3>2. QED  BY <3>1 DEF DamageIsConfined
  <2>16. QED  BY <2>13, <2>14, <2>15 DEF PlantInv
<1>11. QED  BY <1>9, <1>10

\* Putting the saved word back removes one trap and leaves the others.
LEMMA PlantStepRestore ==
  ASSUME Spaced, TypeOK, FoundIsListed, ProcessInv, KeysAreAsked, PlantInv, Restore
  PROVE  /\ PlantInv'
         /\ pc' = "setregs" /\ Alive => mem'[HitAddr(regs)] = "own"
<1> USE DEF Behind
<1> DEFINE addr == HitAddr(regs)
           saved == Breakpoints[addr]
<1>1. /\ addr \in DOMAIN Breakpoints /\ addr \in Asked /\ addr \in Int
      /\ saved \in SavedWords
  BY HitAddrType, DebuggerAssumption
  DEF Restore, FoundIsListed, KeysAreAsked, TypeOK
<1>2. /\ mem' = PokeText(addr, Widen(saved)) /\ pc = "restore"
      /\ UNCHANGED <<tracee, Breakpoints>>
      /\ \/ CanAccess(addr) /\ pc' = "setregs" /\ UNCHANGED regs
         \/ ~CanAccess(addr) /\ pc' = "prompt"
  BY DEF Restore, Return
<1>3. Alive' <=> Alive
  BY <1>2 DEF Alive
<1>4. CASE ~Alive
  BY <1>3, <1>4 DEF PlantInv, ListedArePlanted, SavedAreOriginal, DamageIsConfined
<1>5. CASE Alive /\ ~CanAccess(addr)
  <2>1. mem' = mem
    BY <1>2, <1>5 DEF PokeText, TypeOK, TraceeTypeOK
  <2>2. Armed' = Armed
    BY <1>2, <1>5 DEF Armed, Lifted, Mapped
  <2>3. QED
    BY <1>2, <1>5, <2>1, <2>2
    DEF PlantInv, ListedArePlanted, SavedAreOriginal, DamageIsConfined, Mapped
<1>6. CASE Alive /\ CanAccess(addr)
  <2>1. addr \in Text /\ Mapped(addr) /\ Text \subseteq Int
    BY <1>6, TextIsInt DEF CanAccess, Mapped
  <2>2. SavedBytes \in 1 .. WordBytes /\ WordBytes \in Nat
    BY DebuggerAssumption, TextAssumption
  <2>3. \A i \in 0 .. SavedBytes - 1 : saved[i] = "own"
    BY <1>1, <1>6, <2>1 DEF PlantInv, SavedAreOriginal, SavedWords
  <2>4. \A b \in Text : b \in addr .. (addr + SavedBytes - 1) => mem'[b] = "own"
    <3>1. ASSUME NEW b \in Text, b \in addr .. (addr + SavedBytes - 1)
          PROVE  mem'[b] = "own"
      <4>1. b - addr \in 0 .. SavedBytes - 1
        BY <1>1, <2>1, <2>2, <3>1
      <4>2. QED  BY <1>1, <1>2, <1>6, <2>3, <3>1, <4>1, PokedText
    <3>2. QED  BY <3>1
  <2>5. \A b \in Text : b \in (addr + SavedBytes) .. (addr + WordBytes - 1) => mem'[b] = "zero"
    BY <1>1, <1>2, <1>6, PokedText
  <2>6. \A b \in Text : b \notin addr .. (addr + WordBytes - 1) => mem'[b] = mem[b]
    BY <1>1, <1>2, <1>6, PokedText
  <2>7. \A b \in Text : \/ b \in addr .. (addr + SavedBytes - 1)
                        \/ b \in (addr + SavedBytes) .. (addr + WordBytes - 1)
                        \/ b \notin addr .. (addr + WordBytes - 1)
    BY <1>1, <2>1, <2>2
  <2>8. \A b \in Asked : b # addr => b \notin addr .. (addr + WordBytes - 1)
    <3>1. ASSUME NEW b \in Asked, b # addr PROVE b \notin addr .. (addr + WordBytes - 1)
      BY <1>1, <2>2, <3>1, SpacedKeys
    <3>2. QED  BY <3>1
  <2>9. addr \in addr .. (addr + SavedBytes - 1)
        /\ addr .. (addr + SavedBytes - 1) \subseteq addr .. (addr + WordBytes - 1)
        /\ (addr + SavedBytes) .. (addr + WordBytes - 1) \subseteq addr .. (addr + WordBytes - 1)
    BY <1>1, <2>2
  <2>10. Armed' = Armed \ {addr} /\ Armed \subseteq Asked
    BY <1>2, <1>6 DEF Armed, Lifted, Mapped, KeysAreAsked
  <2>11. ListedArePlanted'
    <3>1. ASSUME NEW b \in Text PROVE mem'[b] = "trap" <=> b \in Armed'
      <4>1. mem[b] = "trap" <=> b \in Armed
        BY <1>6 DEF PlantInv, ListedArePlanted
      <4>2. CASE b \in addr .. (addr + WordBytes - 1)
        BY <2>4, <2>5, <2>7, <2>8, <2>10, <4>2
      <4>3. CASE b \notin addr .. (addr + WordBytes - 1)
        BY <2>6, <2>9, <2>10, <4>1, <4>3
      <4>4. QED  BY <4>2, <4>3
    <3>2. Armed' \subseteq Text
      BY <2>10 DEF Armed, Mapped
    <3>3. QED  BY <3>1, <3>2 DEF ListedArePlanted
  <2>12. SavedAreOriginal'
    BY <1>2, <1>6 DEF PlantInv, SavedAreOriginal, Mapped
  <2>13. DamageIsConfined'
    <3>1. ASSUME NEW b \in Text
          PROVE  \/ mem'[b] = "own"
                 \/ b \in Armed'
                 \/ \E a \in Asked : b \in Behind(a)
      <4>1. \/ mem[b] = "own"
            \/ b \in Armed
            \/ \E a \in Asked : b \in Behind(a)
        BY <1>6 DEF PlantInv, DamageIsConfined
      <4>2. QED  BY <1>1, <2>4, <2>6, <2>7, <2>9, <2>10, <4>1
    <3>2. QED  BY <3>1 DEF DamageIsConfined
  <2>14. mem'[addr] = "own"
    BY <2>1, <2>4, <2>9
  <2>15. QED  BY <2>11, <2>12, <2>13, <2>14 DEF PlantInv
<1>7. QED  BY <1>4, <1>5, <1>6

LEMMA PlantStepSetRegs ==
  ASSUME TypeOK, ProcessInv, PlantInv, SetRegs
  PROVE  PlantInv'
<1>1. pc = "setregs" /\ pc' = "prompt" /\ UNCHANGED <<mem, tracee>>
  BY DEF SetRegs, Return
<1>2. Alive' <=> Alive
  BY <1>1 DEF Alive
<1>3. CASE ~Alive
  BY <1>2, <1>3 DEF PlantInv, ListedArePlanted, SavedAreOriginal, DamageIsConfined
<1>4. CASE Alive
  <2>1. Stopped
    BY <1>1, <1>4 DEF ProcessInv, ControlsTarget, Waits, Alive, Stopped
  <2>2. Breakpoints' = Erased(Breakpoints, HitAddr(regs))
    BY <2>1 DEF SetRegs
  <2>3. DOMAIN Breakpoints' = DOMAIN Breakpoints \ {HitAddr(regs)}
        /\ \A a \in DOMAIN Breakpoints' : Breakpoints'[a] = Breakpoints[a]
    BY <2>2 DEF Erased
  <2>4. Armed' = Armed
    BY <1>1, <2>3 DEF Armed, Lifted, Mapped
  <2>5. QED
    BY <1>1, <1>4, <2>3, <2>4
    DEF PlantInv, ListedArePlanted, SavedAreOriginal, DamageIsConfined, Mapped
<1>5. QED  BY <1>3, <1>4

\* Every other step leaves the text and the map as they are, and a target
\* that is gone does not come back.
LEMMA PlantStepOther ==
  ASSUME TypeOK, PlantInv, FoundIsListed, [Next]_vars,
         ~Set_breakpoint, ~Restore, ~SetRegs
  PROVE  PlantInv'
<1>1. UNCHANGED <<mem, Breakpoints>>
  BY DEF Next, DebuggerStep, Dispatch, Terminated, InitialWait, LoopEnds,
         ReadCommand, ExitCommand, List_breakpoints, UnknownCommand,
         Info_registers, Disassemble, DisassembleWait, HelperReads,
         HelperExits, Continue,
         ContinueWait, ContinueRegs, NextI, StepWait, StepRegs, TargetStep,
         TraceeNext, Launch, Instruction, ExecSucceeds, ExecFails, Trap,
         Retire, Fault, Exit, Signalled, Killed, debuggerVars, traceeVars, vars
<1>2. (pc' = "setregs" <=> pc = "setregs") /\ (pc = "setregs" => UNCHANGED regs)
  BY DEF Next, DebuggerStep, Dispatch, Terminated, InitialWait, LoopEnds,
         ReadCommand, ExitCommand, List_breakpoints, UnknownCommand,
         Info_registers, Disassemble, DisassembleWait, HelperReads,
         HelperExits, Continue,
         ContinueWait, ContinueRegs, NextI, StepWait, StepRegs, TargetStep,
         Handling, Unknown, Return, Over, debuggerVars, vars
<1>3. Alive' => Alive
  BY DEF Next, DebuggerStep, Dispatch, Terminated, InitialWait, LoopEnds,
         ReadCommand, ExitCommand, List_breakpoints, UnknownCommand,
         Info_registers, Disassemble, DisassembleWait, HelperReads,
         HelperExits, Continue,
         ContinueWait, ContinueRegs, NextI, StepWait, StepRegs, TargetStep,
         TraceeNext, Launch, Instruction, ExecSucceeds, ExecFails, Trap,
         Retire, Fault, Exit, Signalled, Killed, debuggerVars, traceeVars,
         vars, Alive, Running, Resume, Reported, WaitReturns, Stopped
<1>4. Armed' = Armed
  BY <1>1, <1>2 DEF Armed, Lifted, Mapped
<1>5. QED
  BY <1>1, <1>3, <1>4
  DEF PlantInv, ListedArePlanted, SavedAreOriginal, DamageIsConfined, Mapped

-----------------------------------------------------------------------------
(* Hits *)

\* The pointer never leaves the text, except that a trap in its last byte puts
\* it right behind.
PointerInv == rip \in TextBase .. (TextBase + TextSize)

\* Between GETREGS and SETREGS the target still is where GETREGS saw it, or it
\* has been killed; the pointer is moved for a mapped address only.
HitInv ==
  /\ pc \in {"restore", "setregs"} /\ Stopped => regs = rip /\ sig = "TRAP"
  /\ pc = "setregs" => Mapped(HitAddr(regs))

\* The search by the low bits finds no mapped address but the true one.
LEMMA HitIsHere ==
  ASSUME Spaced, PointerInv, Mapped(HitAddr(rip))
  PROVE  HitAddr(rip) = rip - 1
<1>1. TextBase \in Nat \ {0} /\ TextSize \in Nat \ {0} /\ UIntMax \in Nat
  BY TextAssumption, DebuggerAssumption
<1>2. rip \in Int /\ HitAddr(rip) \in 0 .. UIntMax /\ HitAddr(rip) \in Text
  BY <1>1, HitAddrType DEF PointerInv, Mapped
<1>3. rip - 1 = TextBase - 1 \/ rip - 1 \in Text
  BY <1>1, <1>2 DEF PointerInv, Text
<1>4. CASE rip - 1 = TextBase - 1
  <2>1. TextBase <= UIntMax
    BY <1>1, <1>2 DEF Text
  <2>2. rip - 1 \in 0 .. UIntMax
    BY <1>1, <1>4, <2>1
  <2>3. QED  BY <1>1, <2>2 DEF HitAddr
<1>5. CASE rip - 1 \in Text
  <2>1. ~(rip - 1 > UIntMax)
    BY <1>2, <1>5 DEF Spaced, HitAddr
  <2>2. rip - 1 \in 0 .. UIntMax
    BY <1>1, <1>5, <2>1 DEF Text
  <2>3. QED  BY <1>1, <2>2 DEF HitAddr
<1>6. QED  BY <1>3, <1>4, <1>5

LEMMA HitStep ==
  ASSUME TypeOK, ProcessInv, HitInv, [Next]_vars
  PROVE  HitInv'
<1> USE DEF HitInv
<1>1. CASE ContinueRegs
  BY <1>1 DEF ContinueRegs, RegsRead, TrapReported, Stopped, Return, traceeVars
<1>2. CASE Restore
  BY <1>2 DEF Restore, Stopped, Return, CanAccess, Mapped, HitAddr
<1>3. CASE DebuggerStep /\ ~ContinueRegs /\ ~Restore
  <2>1. pc' \notin {"restore", "setregs"}
    BY <1>3
    DEF DebuggerStep, Dispatch, InitialWait, LoopEnds, ExitCommand,
        List_breakpoints, UnknownCommand, Info_registers, Set_breakpoint,
        Disassemble, Continue, NextI, DisassembleWait, ContinueWait, SetRegs,
        StepWait, StepRegs, Return
  <2>2. QED  BY <2>1
<1>4. CASE ReadCommand
  BY <1>4 DEF ReadCommand
<1>5. CASE HelperReads \/ HelperExits \/ UNCHANGED vars
  BY <1>5 DEF HelperReads, HelperExits, traceeVars, debuggerVars, vars, Stopped,
              Mapped, HitAddr
<1>6. CASE TargetStep(TraceeNext)
  <2>1. UNCHANGED <<pc, regs>>
    BY <1>6 DEF TargetStep, debuggerVars
  <2>2. pc \in {"restore", "setregs"} => ~Running /\ tracee # "starting"
    BY DEF ProcessInv, WaitsForItsOwn, Running
  <2>3. pc \in {"restore", "setregs"} => ~Stopped'
    BY <1>6, <2>2
    DEF TargetStep, TraceeNext, Launch, Instruction, ExecSucceeds, ExecFails,
        Trap, Retire, Fault, Exit, Signalled, Killed, Stopped
  <2>4. QED  BY <2>1, <2>3 DEF Mapped, HitAddr
<1>7. QED
  BY <1>1, <1>2, <1>3, <1>4, <1>5, <1>6 DEF Next, Terminated

LEMMA PointerStep ==
  ASSUME Spaced, TypeOK, ProcessInv, PointerInv, HitInv, [Next]_vars
  PROVE  PointerInv'
<1>1. TextBase \in Nat \ {0} /\ TextSize \in Nat \ {0}
  BY TextAssumption
<1>2. ASSUME NEW a \in Text PROVE a \in TextBase .. (TextBase + TextSize)
                                /\ a + 1 \in TextBase .. (TextBase + TextSize)
  BY <1>1 DEF Text
<1>3. CASE SetRegs
  <2>1. CASE Stopped
    <3>1. regs = rip /\ Mapped(HitAddr(rip)) /\ rip' = regs - 1
      BY <1>3, <2>1 DEF SetRegs, HitInv, Rewound
    <3>2. rip' \in Text
      BY <3>1, HitIsHere DEF Mapped
    <3>3. QED  BY <1>2, <3>2 DEF PointerInv
  <2>2. CASE ~Stopped
    BY <1>3, <2>2 DEF SetRegs, PointerInv
  <2>3. QED  BY <2>1, <2>2
<1>4. CASE TargetStep(Trap)
  <2>1. rip \in Text /\ rip' = rip + 1
    BY <1>4, ProgramAssumption DEF TargetStep, Trap, TrapAt, Intact
  <2>2. QED  BY <1>2, <2>1 DEF PointerInv
<1>5. CASE TargetStep(Retire)
  <2>1. Successors(rip) \subseteq Text
    BY ProgramAssumption DEF Successors, Intact
  <2>2. QED  BY <1>2, <1>5, <2>1 DEF TargetStep, Retire, PointerInv
<1>6. CASE [Next]_vars /\ ~SetRegs /\ ~TargetStep(Trap) /\ ~TargetStep(Retire)
  <2>1. UNCHANGED rip
    BY <1>6
    DEF Next, DebuggerStep, Dispatch, Terminated, InitialWait, LoopEnds,
        ReadCommand, ExitCommand, List_breakpoints, UnknownCommand,
        Info_registers, Set_breakpoint, Disassemble, DisassembleWait,
        HelperReads, HelperExits, Continue, ContinueWait, ContinueRegs,
        Restore, NextI, StepWait, StepRegs, TargetStep, TraceeNext, Launch,
        Instruction, ExecSucceeds, ExecFails, Fault, Exit, Signalled, Killed,
        traceeVars, vars
  <2>2. QED  BY <2>1 DEF PointerInv
<1>7. QED  BY <1>3, <1>4, <1>5, <1>6

\* The byte of the hit is already the program's own when the pointer moves.
LiftedIsOwn == pc = "setregs" /\ Alive => mem[HitAddr(regs)] = "own"

BreakpointInv == /\ TypeOK /\ FoundIsListed /\ ProcessInv /\ KeysAreAsked
                 /\ PlantInv /\ PointerInv /\ HitInv /\ LiftedIsOwn

LEMMA LiftedStep ==
  ASSUME Spaced, BreakpointInv, [Next]_vars
  PROVE  LiftedIsOwn'
<1> USE DEF BreakpointInv
<1>1. CASE Restore
  <2>1. Alive' => Alive
    BY <1>1 DEF Restore, Alive
  <2>2. pc' = "setregs" => UNCHANGED regs
    BY <1>1 DEF Restore, Return
  <2>3. QED  BY <1>1, <2>1, <2>2, PlantStepRestore DEF LiftedIsOwn, HitAddr
<1>2. CASE DebuggerStep /\ ~Restore
  <2>1. pc' # "setregs"
    BY <1>2
    DEF DebuggerStep, Dispatch, InitialWait, LoopEnds, ExitCommand,
        List_breakpoints, UnknownCommand, Info_registers, Set_breakpoint,
        Disassemble, Continue, NextI, DisassembleWait, ContinueWait,
        ContinueRegs, SetRegs, StepWait, StepRegs, Return
  <2>2. QED  BY <2>1 DEF LiftedIsOwn
<1>3. CASE ReadCommand
  BY <1>3 DEF ReadCommand, LiftedIsOwn
<1>4. CASE HelperReads \/ HelperExits \/ UNCHANGED vars
  BY <1>4 DEF HelperReads, HelperExits, traceeVars, debuggerVars, vars, LiftedIsOwn, Alive, HitAddr
<1>5. CASE TargetStep(TraceeNext)
  <2>1. UNCHANGED <<pc, regs, mem>> /\ (Alive' => Alive)
    BY <1>5
    DEF TargetStep, debuggerVars, TraceeNext, Launch, Instruction,
        ExecSucceeds, ExecFails, Trap, Retire, Fault, Exit, Signalled, Killed,
        Alive, Running
  <2>2. QED  BY <2>1 DEF LiftedIsOwn, HitAddr
<1>6. QED  BY <1>1, <1>2, <1>3, <1>4, <1>5 DEF Next, Terminated

LEMMA BreakpointStep == Spaced /\ BreakpointInv /\ [Next]_vars => BreakpointInv'
<1> SUFFICES ASSUME Spaced, BreakpointInv, [Next]_vars PROVE BreakpointInv'
  OBVIOUS
<1> USE DEF BreakpointInv
<1>1. PlantInv'
  BY PlantStepSet, PlantStepRestore, PlantStepSetRegs, PlantStepOther
<1>2. TypeOK' /\ FoundIsListed'
  BY NextTypeOK, FoundStep
<1>3. ProcessInv' /\ KeysAreAsked' /\ PointerInv' /\ HitInv' /\ LiftedIsOwn'
  BY ProcessStep, KeysStep, PointerStep, HitStep, LiftedStep
<1>4. QED  BY <1>1, <1>2, <1>3

LEMMA BreakpointInit == Init => BreakpointInv
<1> SUFFICES ASSUME Init PROVE BreakpointInv
  OBVIOUS
<1>1. /\ DOMAIN Breakpoints = {} /\ pc = "start" /\ tracee = "starting"
      /\ \A a \in Text : mem[a] = "own"
  BY DEF Init, TraceeInit
<1>2. Armed = {} /\ ~(\E a \in Text : mem[a] = "trap")
  BY <1>1 DEF Armed
<1>3. PlantInv
  BY <1>1, <1>2 DEF PlantInv, ListedArePlanted, SavedAreOriginal, DamageIsConfined
<1>4. KeysAreAsked
  BY <1>1 DEF KeysAreAsked, Init, EmptyLine
<1>5. FoundIsListed /\ HitInv /\ LiftedIsOwn
  BY <1>1 DEF FoundIsListed, HitInv, LiftedIsOwn
<1>6. ProcessInv
  BY DEF Init, TraceeInit, ProcessInv, ControlsTarget, NoOrphan, Over, Waits,
         WaitsForTargetOnly, StatusIsFinal, WaitsForItsOwn
<1>7. PointerInv
  BY TextAssumption, ProgramAssumption DEF Init, TraceeInit, PointerInv, Text
<1>8. QED  BY <1>3, <1>4, <1>5, <1>6, <1>7, InitTypeOK DEF BreakpointInv

LEMMA BreakpointInvariant ==
  ASSUME Spaced
  PROVE  Spec => []BreakpointInv
BY BreakpointInit, BreakpointStep, PTL DEF Spec

\* For addresses a word apart, the INT 3 bytes in the text of the target and
\* the listed breakpoints are the same at every moment, whatever order the
\* commands come in and wherever the target is killed.
THEOREM ListedBreakpointsArePlanted ==
  ASSUME Spaced
  PROVE  Spec => []ListedArePlanted
BY BreakpointInvariant, PTL DEF BreakpointInv, PlantInv

\* What the map holds for them is the code of the program, never a trap.
THEOREM SavedWordsAreOriginal ==
  ASSUME Spaced
  PROVE  Spec => []SavedAreOriginal
BY BreakpointInvariant, PTL DEF BreakpointInv, PlantInv

\* The wide poke damages the text, but never more of it than the bytes behind
\* the words of the addresses that were asked for.
THEOREM DamageStaysBehindTheWord ==
  ASSUME Spaced
  PROVE  Spec => []DamageIsConfined
BY BreakpointInvariant, PTL DEF BreakpointInv, PlantInv

\* No breakpoint is dropped without having stopped the target on it, with the
\* program's byte back in place.
THEOREM HitsAreExact ==
  ASSUME Spaced
  PROVE  Spec => HitIsExact
<1>1. BreakpointInv /\ [Next]_vars
        => [\A a \in DOMAIN Breakpoints \ DOMAIN Breakpoints' :
              rip' = a /\ rip = a + 1 /\ mem'[a] = "own" /\ sig = "TRAP"]_vars
  <2> SUFFICES ASSUME BreakpointInv, [Next]_vars,
                      NEW a \in DOMAIN Breakpoints \ DOMAIN Breakpoints'
               PROVE  rip' = a /\ rip = a + 1 /\ mem'[a] = "own" /\ sig = "TRAP"
    OBVIOUS
  <2>1. CASE SetRegs
    <3>1. Stopped /\ rip' = regs - 1 /\ Breakpoints' = Erased(Breakpoints, HitAddr(regs))
      BY <2>1 DEF SetRegs, Rewound
    <3>2. a = HitAddr(regs)
      BY <3>1 DEF Erased
    <3>3. regs = rip /\ sig = "TRAP" /\ Mapped(HitAddr(rip))
      BY <2>1, <3>1 DEF SetRegs, BreakpointInv, HitInv
    <3>4. HitAddr(rip) = rip - 1
      BY <3>3, HitIsHere DEF BreakpointInv
    <3>5. rip \in Int
      BY DEF BreakpointInv, TypeOK, TraceeTypeOK
    <3>6. mem'[a] = "own"
      BY <2>1, <3>1, <3>2 DEF SetRegs, BreakpointInv, LiftedIsOwn, Alive, Stopped
    <3>7. QED  BY <3>1, <3>2, <3>3, <3>4, <3>5, <3>6
  <2>2. CASE Set_breakpoint
    BY <2>2 DEF Set_breakpoint, Inserted
  <2>3. CASE ~SetRegs /\ ~Set_breakpoint
    <3>1. UNCHANGED Breakpoints
      BY <2>3
      DEF Next, DebuggerStep, Dispatch, Terminated, InitialWait, LoopEnds,
          ReadCommand, ExitCommand, List_breakpoints, UnknownCommand,
          Info_registers, Disassemble, DisassembleWait, HelperReads,
         HelperExits, Continue,
          ContinueWait, ContinueRegs, Restore, NextI, StepWait, StepRegs,
          TargetStep, debuggerVars, vars
    <3>2. QED  BY <3>1
  <2>4. QED  BY <2>1, <2>2, <2>3
<1>2. QED  BY <1>1, BreakpointInvariant, PTL DEF Spec, HitIsExact

\* Neither continue nor a single step executes through a breakpoint.
THEOREM BreakpointsStop ==
  ASSUME Spaced
  PROVE  Spec => NeverRunsPast
<1>1. BreakpointInv /\ [Next]_vars
        => [Running /\ rip \in Armed /\ rip' # rip
              => tracee' = "halted" /\ sig' = "TRAP" /\ rip' = rip + 1]_vars
  <2> SUFFICES ASSUME BreakpointInv, [Next]_vars, Running, rip \in Armed, rip' # rip
               PROVE  tracee' = "halted" /\ sig' = "TRAP" /\ rip' = rip + 1
    OBVIOUS
  <2>1. pc \in Waits
    BY DEF BreakpointInv, ProcessInv, ControlsTarget, Running
  <2>2. TrapAt(rip)
    BY DEF BreakpointInv, PlantInv, ListedArePlanted, TrapAt, Alive, Running
  <2>3. TargetStep(TraceeNext)
    BY <2>1
    DEF Next, DebuggerStep, Dispatch, Terminated, InitialWait, LoopEnds,
        ReadCommand, ExitCommand, List_breakpoints, UnknownCommand,
        Info_registers, Set_breakpoint, Disassemble, DisassembleWait,
        HelperReads, HelperExits, Continue, ContinueWait, ContinueRegs, Restore, SetRegs,
        NextI, StepWait, StepRegs, Handling, Unknown, Waits, Over, traceeVars,
        vars
  <2>4. QED
    BY <2>2, <2>3
    DEF TargetStep, TraceeNext, Launch, Instruction, ExecSucceeds, ExecFails,
        Trap, Retire, Fault, Exit, Signalled, Killed
<1>2. QED  BY <1>1, BreakpointInvariant, PTL DEF Spec, NeverRunsPast
=============================================================================
