-------------------------- MODULE RefinementProofs --------------------------
(***************************************************************************)
(* For every target program, and a user who sets breakpoints at its         *)
(* instructions, with padding behind them, and continues, the debugger is   *)
(* an AbstractDebugger.                                                     *)
(***************************************************************************)
EXTENDS DebuggerRefinement, DebuggerProofs

\* No single step is ever asked for.
NoSteps ==
  /\ stdin = "open"
  /\ pc \notin {"step_wait", "step_regs"}
  /\ pc = "dispatch" => command.name \in Typed

\* A breakpoint that is being undone is the one the target stopped at, unless
\* nothing can be undone at its address.
RestoresHit == pc = "restore" /\ Alive /\ Mapped(HitAddr(regs)) => InHit

AtInstruction == Place \in Instrs

CodeInv == BreakpointInv /\ NoSteps /\ RestoresHit /\ AtInstruction

View == <<Process, Place, Reason, Planted>>

-----------------------------------------------------------------------------
(* The view of a state *)

LEMMA ProcStateView ==
  ASSUME TypeOK
  PROVE  /\ Running => Process = "running"
         /\ Stopped => Process = "held"
         /\ tracee = "starting" => Process = "starting"
         /\ ~Alive => Process = tracee
BY DEF Process, Running, Stopped, Alive

LEMMA DeadView ==
  ASSUME TypeOK, ~Alive
  PROVE  Process = tracee /\ Place = Entry /\ Reason = "none" /\ Planted = {}
BY ProcStateView DEF Place, Reason, Planted

LEMMA SameView ==
  ASSUME UNCHANGED <<rip, sig, tracee, Breakpoints>>, InHit' <=> InHit
  PROVE  UNCHANGED View
<1>1. Alive' <=> Alive
  BY DEF Alive
<1>2. Process' = Process
  BY DEF Process, Running, Stopped
<1>3. Place' = Place /\ Reason' = Reason
  BY <1>1 DEF Place, Reason
<1>4. Planted' = Planted
  BY <1>1 DEF Planted, Mapped
<1>5. QED  BY <1>2, <1>3, <1>4 DEF View

\* While the target runs, what is planted is what is listed.
LEMMA RunningView ==
  ASSUME CodeInv, Running
  PROVE  /\ pc = "cont_wait" /\ tracee = "running" /\ ~InHit /\ Alive
         /\ Process = "running" /\ Place = rip /\ Reason = sig
         /\ rip \in Instrs /\ rip \in Text /\ rip \in Int
         /\ Planted = {a \in DOMAIN Breakpoints : Mapped(a)}
         /\ Planted = {a \in Text : mem[a] = "trap"}
<1> USE DEF CodeInv, BreakpointInv
<1>1. pc = "cont_wait" /\ tracee = "running"
  BY DEF Running, ProcessInv, WaitsForItsOwn, NoSteps
<1>2. Alive /\ ~Stopped
  BY <1>1 DEF Alive, Stopped
<1>3. ~InHit
  BY <1>1, <1>2 DEF InHit
<1>4. Place = rip /\ Reason = sig /\ Process = "running"
  BY <1>2, <1>3, ProcStateView DEF Place, Reason
<1>5. rip \in Instrs /\ rip \in Text /\ rip \in Int
  BY <1>2, <1>4, ProgramAssumption, TextIsInt DEF AtInstruction
<1>6. Planted = {a \in DOMAIN Breakpoints : Mapped(a)}
  BY <1>2, <1>3 DEF Planted
<1>7. Armed = {a \in DOMAIN Breakpoints : Mapped(a)}
  BY <1>1 DEF Armed, Lifted
<1>8. QED
  BY <1>1, <1>2, <1>3, <1>4, <1>5, <1>6, <1>7 DEF PlantInv, ListedArePlanted

\* The target runs over its own code.
LEMMA OwnCode ==
  ASSUME Spaced, ContinueOnly, CodeInv, Running
  PROVE  TrapAt(rip) \/ Intact(rip)
<1>1. rip \in Instrs /\ rip \in Text /\ Alive
      /\ Planted = {a \in DOMAIN Breakpoints : Mapped(a)}
      /\ Planted = {a \in Text : mem[a] = "trap"}
  BY RunningView
<1>2. CASE rip \in DOMAIN Breakpoints
  <2>1. rip \in Asked
    BY <1>2 DEF CodeInv, BreakpointInv, KeysAreAsked
  <2>2. Mapped(rip)
    BY <1>1, <2>1 DEF ContinueOnly
  <2>3. QED  BY <1>1, <1>2, <2>2 DEF TrapAt
<1>3. CASE rip \notin DOMAIN Breakpoints
  <2>1. ASSUME NEW b \in Extent(rip) PROVE mem[b] = "own"
    <3>1. b \in Text
      BY <1>1, ProgramAssumption
    <3>2. b \notin DOMAIN Breakpoints
      BY <1>1, <1>3 DEF ContinueOnly, CodeInv, BreakpointInv, KeysAreAsked
    <3>3. b \notin Armed
      BY <3>2 DEF Armed
    <3>4. \A a \in Asked : b \notin Behind(a)
      BY <1>1, <2>1 DEF ContinueOnly
    <3>5. QED
      BY <1>1, <3>1, <3>3, <3>4 DEF CodeInv, BreakpointInv, PlantInv, DamageIsConfined
  <2>2. QED  BY <1>1, <2>1 DEF Intact
<1>4. QED  BY <1>2, <1>3

-----------------------------------------------------------------------------
(* The target's steps *)

LEMMA TrapStep ==
  ASSUME Spaced, ContinueOnly, CodeInv, TargetStep(Trap)
  PROVE  Abstract!Hit \/ Abstract!Execute
<1>1. /\ Running /\ TrapAt(rip) /\ rip' = rip + 1
      /\ tracee' = "halted" /\ sig' = "TRAP" /\ UNCHANGED <<mem, pc, Breakpoints>>
  BY DEF TargetStep, Trap, debuggerVars
<1>2. /\ pc = "cont_wait" /\ Process = "running" /\ Place = rip
      /\ rip \in Instrs /\ rip \in Text /\ rip \in Int /\ rip' - 1 = rip
      /\ Planted = {a \in DOMAIN Breakpoints : Mapped(a)}
      /\ Planted = {a \in Text : mem[a] = "trap"}
  BY <1>1, RunningView
<1>3. /\ Stopped' /\ ~Running' /\ Alive'
      /\ InHit' <=> mem[rip] = "trap"
  BY <1>1, <1>2 DEF Stopped, Running, Alive, InHit
<1>4. Process' = "held" /\ Reason' = "TRAP"
  <2>1. Process' = "held"
    BY <1>3 DEF Process
  <2>2. QED  BY <1>1, <1>3, <2>1 DEF Reason
<1>5. CASE mem[rip] = "trap"
  <2>1. Place' = rip
    BY <1>2, <1>3, <1>5 DEF Place
  <2>2. Planted' = Planted \ {rip}
    BY <1>1, <1>2, <1>3, <1>5 DEF Planted, Mapped
  <2>3. rip \in Planted
    BY <1>2, <1>5
  <2>4. QED  BY <1>2, <1>4, <2>1, <2>2, <2>3 DEF Abstract!Hit, Abstract!Held
<1>6. CASE mem[rip] # "trap"
  <2>1. rip \in OwnTraps
    BY <1>1, <1>6 DEF TrapAt
  <2>2. Place' = rip + 1
    BY <1>1, <1>3, <1>6 DEF Place
  <2>3. Place' \in Flow[Place]
    BY <1>2, <2>1, <2>2, ProgramAssumption
  <2>4. Planted' = Planted
    BY <1>1, <1>2, <1>3, <1>6 DEF Planted, Mapped
  <2>5. rip \notin Planted
    BY <1>2, <1>6
  <2>6. QED  BY <1>2, <1>4, <2>1, <2>3, <2>4, <2>5 DEF Abstract!Execute, Abstract!Held
<1>7. QED  BY <1>5, <1>6

LEMMA RetireStep ==
  ASSUME Spaced, ContinueOnly, CodeInv, TargetStep(Retire)
  PROVE  Abstract!Execute
<1>1. /\ Running /\ ~TrapAt(rip) /\ rip' \in Successors(rip)
      /\ UNCHANGED <<mem, pc, Breakpoints>>
  BY DEF TargetStep, Retire, debuggerVars
<1>2. /\ pc = "cont_wait" /\ tracee = "running" /\ Process = "running"
      /\ Place = rip /\ Reason = sig /\ rip \in Text
      /\ Planted = {a \in DOMAIN Breakpoints : Mapped(a)}
      /\ Planted = {a \in Text : mem[a] = "trap"}
  BY <1>1, RunningView
<1>3. UNCHANGED <<tracee, sig>>
  BY <1>2 DEF TargetStep, Retire
<1>4. Intact(rip)
  BY <1>1, OwnCode
<1>5. rip' \in Flow[rip] /\ rip \notin OwnTraps /\ rip \notin Planted
  BY <1>1, <1>2, <1>4 DEF Successors, TrapAt
<1>6. Running' /\ ~Stopped' /\ Alive' /\ ~InHit'
  BY <1>1, <1>2, <1>3 DEF Running, Alive, InHit, Stopped
<1>7. Process' = "running"
  BY <1>6 DEF Process
<1>8. Place' = rip' /\ Reason' = sig
  BY <1>3, <1>6 DEF Place, Reason
<1>9. Planted' = Planted
  BY <1>1, <1>2, <1>6 DEF Planted, Mapped
<1>10. QED  BY <1>2, <1>5, <1>7, <1>8, <1>9 DEF Abstract!Execute

LEMMA InterruptedStep ==
  ASSUME Spaced, ContinueOnly, CodeInv, TargetStep(Fault \/ Signalled)
  PROVE  Abstract!Interrupted
<1>1. /\ Running /\ tracee' = "halted" /\ UNCHANGED <<mem, rip, pc, Breakpoints>>
  BY DEF TargetStep, Fault, Signalled, debuggerVars
<1>2. /\ pc = "cont_wait" /\ Process = "running" /\ Place = rip /\ rip \in Text
      /\ Planted = {a \in DOMAIN Breakpoints : Mapped(a)}
      /\ Planted = {a \in Text : mem[a] = "trap"}
  BY <1>1, RunningView
<1>3. \/ sig' = "SEGV" /\ rip \in Faults /\ rip \notin Planted
      \/ sig' \in Signals
  <2>1. CASE Fault
    BY <1>1, <1>2, <2>1, OwnCode DEF Fault, TrapAt
  <2>2. CASE Signalled
    BY <2>2 DEF Signalled
  <2>3. QED  BY <2>1, <2>2 DEF TargetStep
<1>4. ~(sig' = "TRAP" /\ rip - 1 \in Text /\ mem[rip - 1] = "trap")
  <2>1. SUFFICES ASSUME sig' = "TRAP", rip - 1 \in Text, mem[rip - 1] = "trap"
                 PROVE  FALSE
    OBVIOUS
  <2>2. "TRAP" \in Signals
    BY <1>3, <2>1
  <2>3. rip - 1 \in Asked \cap Text
    BY <1>2, <2>1 DEF CodeInv, BreakpointInv, KeysAreAsked
  <2>4. (rip - 1) + 1 = rip /\ rip \in Instrs
    BY <1>1, RunningView
  <2>5. QED  BY <2>2, <2>3, <2>4 DEF ContinueOnly
<1>5. Stopped' /\ ~Running' /\ Alive' /\ ~InHit'
  BY <1>1, <1>2, <1>4 DEF Stopped, Running, Alive, InHit
<1>6. Process' = "held"
  BY <1>5 DEF Process
<1>7. Reason' = sig' /\ Place' = rip
  BY <1>1, <1>5 DEF Reason, Place
<1>8. Planted' = Planted
  BY <1>1, <1>2, <1>5 DEF Planted, Mapped
<1>9. QED
  BY <1>2, <1>3, <1>6, <1>7, <1>8 DEF Abstract!Interrupted, Abstract!Held

LEMMA ExitStep ==
  ASSUME Spaced, ContinueOnly, CodeInv, TargetStep(Exit \/ ExecFails)
  PROVE  Abstract!Exit
<1>1. tracee' = "exited" /\ ~Alive'
  BY DEF TargetStep, Exit, ExecFails, Alive
<1>2. Process' = "exited" /\ Place' = Entry /\ Reason' = "none" /\ Planted' = {}
  <2>1. Process' = tracee'
    BY <1>1 DEF Process, Running, Stopped
  <2>2. QED  BY <1>1, <2>1 DEF Place, Reason, Planted
<1>3. CASE Exit
  <2>1. Running /\ ~TrapAt(rip) /\ rip \in Exits
    BY <1>3, OwnCode DEF Exit
  <2>2. Process = "running" /\ Place = rip /\ rip \notin Planted
    BY <2>1, RunningView DEF TrapAt
  <2>3. QED  BY <1>2, <2>1, <2>2 DEF Abstract!Exit, Abstract!Ends
<1>4. CASE ExecFails
  <2>1. Process = "starting"
    BY <1>4, ProcStateView DEF ExecFails, CodeInv, BreakpointInv
  <2>2. QED  BY <1>2, <2>1 DEF Abstract!Exit, Abstract!Ends
<1>5. QED  BY <1>3, <1>4 DEF TargetStep

\* exit of the debugger, and SIGKILL from outside.
LEMMA KilledStep ==
  ASSUME CodeInv, Alive, tracee' = "killed"
  PROVE  Abstract!Killed
<1>1. ~Alive'
  BY DEF Alive
<1>2. Process' = "killed" /\ Place' = Entry /\ Reason' = "none" /\ Planted' = {}
  <2>1. Process' = tracee'
    BY <1>1 DEF Process, Running, Stopped
  <2>2. QED  BY <1>1, <2>1 DEF Place, Reason, Planted
<1>3. Process \in {"starting", "running", "held"}
  BY ProcStateView DEF CodeInv, BreakpointInv, Alive, Running, Stopped
<1>4. QED  BY <1>2, <1>3 DEF Abstract!Killed, Abstract!Ends

LEMMA LoadStep ==
  ASSUME CodeInv, TargetStep(ExecSucceeds)
  PROVE  Abstract!Load
<1>1. /\ tracee = "starting" /\ tracee' = "halted" /\ sig' = "TRAP"
      /\ pc = "start" /\ UNCHANGED <<rip, pc, Breakpoints>>
  BY DEF TargetStep, ExecSucceeds, debuggerVars, CodeInv, BreakpointInv,
         ProcessInv, WaitsForItsOwn
<1>2. Alive /\ Alive' /\ Stopped' /\ ~Running' /\ ~InHit /\ ~InHit'
  BY <1>1 DEF Alive, Stopped, Running, InHit
<1>3. Process = "starting"
  BY <1>1, ProcStateView DEF CodeInv, BreakpointInv
<1>4. Process' = "held"
  BY <1>2 DEF Process
<1>5. Reason' = "TRAP" /\ Place' = Place
  BY <1>1, <1>2 DEF Reason, Place
<1>6. Planted' = Planted
  BY <1>1, <1>2 DEF Planted, Mapped
<1>7. QED  BY <1>3, <1>4, <1>5, <1>6 DEF Abstract!Load, Abstract!Held

-----------------------------------------------------------------------------
(* The debugger's steps *)

\* A hit is of a listed breakpoint, found by its 32-bit address.
LEMMA HitListed ==
  ASSUME Spaced, ContinueOnly, CodeInv, InHit
  PROVE  /\ rip - 1 \in DOMAIN Breakpoints /\ Mapped(rip - 1)
         /\ HitAddr(rip) = rip - 1 /\ Stopped /\ rip \in Int
<1> USE DEF CodeInv, BreakpointInv
<1>1. Stopped
  BY DEF InHit, ProcessInv, ControlsTarget, Waits, Alive, Stopped
<1>2. CASE pc = "setregs"
  <2>1. regs = rip /\ Mapped(HitAddr(rip)) /\ HitAddr(rip) \in DOMAIN Breakpoints
    BY <1>1, <1>2 DEF FoundIsListed, HitInv
  <2>2. QED  BY <1>1, <2>1, HitIsHere DEF TypeOK, TraceeTypeOK
<1>3. CASE pc # "setregs"
  <2>1. rip - 1 \in Text /\ mem[rip - 1] = "trap" /\ Alive
    BY <1>3 DEF InHit
  <2>2. rip - 1 \in DOMAIN Breakpoints /\ Mapped(rip - 1)
    BY <2>1 DEF PlantInv, ListedArePlanted, Armed
  <2>3. rip \in Int /\ rip - 1 \in 0 .. UIntMax
    BY <2>2 DEF TypeOK, TraceeTypeOK
  <2>4. QED  BY <1>1, <2>2, <2>3, DebuggerAssumption DEF HitAddr
<1>4. QED  BY <1>2, <1>3

\* A step of a debugger whose target is no more.
LEMMA DeadStep ==
  ASSUME TypeOK, TypeOK', ~Alive, UNCHANGED tracee
  PROVE  UNCHANGED View
<1>1. ~Alive'
  BY DEF Alive
<1>2. Process' = tracee' /\ Process = tracee
  BY <1>1 DEF Process, Running, Stopped, Alive
<1>3. QED  BY <1>1, <1>2 DEF View, Place, Reason, Planted

\* wait() has nothing to tell of a target that is still there, and collects
\* one that is not.
LEMMA WaitStep ==
  ASSUME CodeInv, WaitReturns, tracee' = Reported, UNCHANGED <<rip, sig, mem, Breakpoints>>,
         tracee = "halted" => (InHit' <=> InHit)
  PROVE  Abstract!Collected \/ UNCHANGED View
<1> USE DEF CodeInv, BreakpointInv
<1>1. CASE tracee = "halted"
  <2>1. tracee' = "stopped"
    BY <1>1 DEF Reported
  <2>2. Process = "held" /\ Process' = "held" /\ Alive /\ Alive'
    BY <1>1, <2>1 DEF Process, Running, Stopped, Alive
  <2>3. Place' = Place /\ Reason' = Reason
    BY <1>1, <2>2 DEF Place, Reason
  <2>4. Planted' = Planted
    BY <1>1, <2>2 DEF Planted, Mapped
  <2>5. QED  BY <2>2, <2>3, <2>4 DEF View
<1>2. CASE tracee # "halted"
  <2>1. tracee \in {"exited", "killed", "gone"} /\ tracee' = "gone"
    BY <1>2 DEF WaitReturns, Reported
  <2>2. ~Alive /\ ~Alive'
    BY <2>1 DEF Alive
  <2>3. /\ Process = tracee /\ Place = Entry /\ Reason = "none" /\ Planted = {}
        /\ Process' = "gone" /\ Place' = Entry /\ Reason' = "none" /\ Planted' = {}
    <3>1. Process = tracee /\ Process' = tracee'
      BY <2>1 DEF Process, Running, Stopped
    <3>2. QED  BY <2>1, <2>2, <3>1 DEF Place, Reason, Planted
  <2>4. QED  BY <2>1, <2>3 DEF Abstract!Collected, Abstract!Ends, View
<1>3. QED  BY <1>1, <1>2

LEMMA SetBreakpointStep ==
  ASSUME Spaced, CodeInv, Set_breakpoint, TypeOK'
  PROVE  Abstract!SetBreakpoint \/ UNCHANGED View
<1> USE DEF CodeInv, BreakpointInv
<1>1. /\ UNCHANGED <<rip, tracee, sig>> /\ pc = "dispatch" /\ pc' = "prompt"
      /\ command.name = "break"
  BY DEF Set_breakpoint, Handling, Names, Return
<1>2. CASE ~Alive
  BY <1>1, <1>2, DeadStep
<1>3. CASE Alive
  <2>1. command.arg \in BreakArgs
    BY <1>1 DEF KeysAreAsked
  <2>2. PICK addr \in Parsed(command.arg) :
          DOMAIN Breakpoints' = DOMAIN Breakpoints \cup {addr}
    BY DEF Set_breakpoint, Inserted
  <2>3. addr \in Asked
    BY <2>1, <2>2 DEF Asked
  <2>4. Stopped /\ Stopped' /\ ~Running /\ ~Running' /\ Alive' /\ ~InHit /\ ~InHit'
    BY <1>1, <1>3 DEF ProcessInv, ControlsTarget, Waits, Alive, Stopped, Running, InHit
  <2>5. Process = "held" /\ Process' = "held"
    BY <2>4 DEF Process
  <2>6. Place' = Place /\ Reason' = Reason
    BY <1>1, <1>3, <2>4 DEF Place, Reason
  <2>7. Planted' = Planted \cup (IF Mapped(addr) THEN {addr} ELSE {})
    BY <1>3, <2>2, <2>4 DEF Planted, Mapped
  <2>8. CASE Mapped(addr)
    BY <2>3, <2>5, <2>6, <2>7, <2>8 DEF Abstract!SetBreakpoint
  <2>9. CASE ~Mapped(addr)
    BY <2>5, <2>6, <2>7, <2>9 DEF View
  <2>10. QED  BY <2>8, <2>9
<1>4. QED  BY <1>2, <1>3

LEMMA ContinueStep ==
  ASSUME CodeInv, Continue, TypeOK'
  PROVE  Abstract!Go \/ UNCHANGED View
<1> USE DEF CodeInv, BreakpointInv
<1>1. /\ UNCHANGED <<rip, sig, Breakpoints>> /\ pc = "dispatch" /\ pc' = "cont_wait"
      /\ tracee' = Resume("running")
  BY DEF Continue, Handling
<1>2. CASE ~Alive
  <2>1. UNCHANGED tracee
    BY <1>1, <1>2 DEF Resume, Alive, Stopped
  <2>2. QED  BY <1>2, <2>1, DeadStep
<1>3. CASE Alive
  <2>1. Stopped /\ ~Running /\ tracee' = "running" /\ ~InHit
    BY <1>1, <1>3
    DEF ProcessInv, ControlsTarget, Waits, Alive, Stopped, Running, InHit, Resume
  <2>2. Running' /\ ~Stopped' /\ Alive' /\ ~InHit'
    BY <1>1, <2>1 DEF Running, Stopped, Alive, InHit
  <2>3. Process = "held" /\ Process' = "running"
    BY <2>1, <2>2 DEF Process
  <2>4. Place' = Place /\ Reason' = Reason
    BY <1>1, <1>3, <2>1, <2>2 DEF Place, Reason
  <2>5. Planted' = Planted
    BY <1>1, <1>3, <2>1, <2>2 DEF Planted, Mapped
  <2>6. QED  BY <2>3, <2>4, <2>5 DEF Abstract!Go
<1>4. QED  BY <1>2, <1>3

\* Continue goes for a hit exactly when the target executed one of its traps.
LEMMA RegsStep ==
  ASSUME Spaced, ContinueOnly, CodeInv, ContinueRegs
  PROVE  /\ InHit' <=> InHit
         /\ pc' = "restore" /\ Alive' /\ Mapped(HitAddr(regs))' => InHit'
<1> USE DEF CodeInv, BreakpointInv
<1>1. pc = "cont_regs" /\ UNCHANGED <<mem, rip, tracee, sig, Breakpoints>>
      /\ pc' \in {"restore", "prompt"}
  BY DEF ContinueRegs, Return, traceeVars
<1>2. CASE ~Alive
  BY <1>1, <1>2 DEF InHit, Alive
<1>3. CASE Alive
  <2>1. Stopped /\ Alive' /\ Stopped' /\ tracee # "gone"
    BY <1>1, <1>3 DEF ProcessInv, ControlsTarget, Waits, Alive, Stopped
  <2>2. RegsRead = {rip} /\ TrapReported = {sig = "TRAP"}
    BY <2>1 DEF RegsRead, TrapReported
  <2>3. pc' = "restore" <=> sig = "TRAP" /\ Hit(rip)
    BY <2>2 DEF ContinueRegs, Return
  <2>4. CASE InHit
    <3>1. sig = "TRAP" /\ Hit(rip)
      BY <1>1, <2>4, HitListed DEF InHit, Hit
    <3>2. pc' = "restore"
      BY <2>3, <3>1
    <3>3. QED  BY <1>1, <2>1, <2>4, <3>2 DEF InHit
  <2>5. CASE ~InHit
    <3>1. ~InHit'
      BY <1>1, <1>3, <2>1, <2>5 DEF InHit
    <3>2. ASSUME pc' = "restore", Mapped(HitAddr(regs))' PROVE FALSE
      <4>1. sig = "TRAP" /\ Hit(rip) /\ regs' = rip
        BY <2>2, <3>2 DEF ContinueRegs, Return
      <4>2. Mapped(HitAddr(rip))
        BY <3>2, <4>1 DEF Mapped, HitAddr
      <4>3. HitAddr(rip) = rip - 1
        BY <4>2, HitIsHere
      <4>4. rip - 1 \in Armed /\ rip - 1 \in Text
        BY <1>1, <4>1, <4>2, <4>3 DEF Hit, Armed, Lifted, Mapped
      <4>5. mem[rip - 1] = "trap"
        BY <1>3, <4>4 DEF PlantInv, ListedArePlanted
      <4>6. QED  BY <1>1, <1>3, <2>1, <2>5, <4>1, <4>4, <4>5 DEF InHit
    <3>3. QED  BY <2>5, <3>1, <3>2
  <2>6. QED  BY <2>4, <2>5
<1>4. QED  BY <1>2, <1>3

LEMMA RestoreStep ==
  ASSUME Spaced, ContinueOnly, CodeInv, Restore
  PROVE  InHit' <=> InHit
<1> USE DEF CodeInv, BreakpointInv
<1>1. pc = "restore" /\ UNCHANGED <<rip, tracee, sig, Breakpoints>>
  BY DEF Restore
<1>2. CASE ~Alive
  BY <1>1, <1>2 DEF InHit, Alive
<1>3. CASE Alive /\ Mapped(HitAddr(regs))
  <2>1. InHit
    BY <1>1, <1>3 DEF RestoresHit
  <2>2. CanAccess(HitAddr(regs))
    BY <1>3, <2>1, HitListed DEF CanAccess
  <2>3. pc' = "setregs"
    BY <2>2 DEF Restore
  <2>4. QED  BY <1>1, <1>3, <2>1, <2>3 DEF InHit, Alive
<1>4. CASE Alive /\ ~Mapped(HitAddr(regs))
  <2>1. ~InHit
    <3>1. ASSUME InHit PROVE FALSE
      <4>1. Stopped /\ Mapped(rip - 1) /\ HitAddr(rip) = rip - 1
        BY <3>1, HitListed
      <4>2. QED  BY <1>1, <1>4, <4>1 DEF HitInv
    <3>2. QED  BY <3>1
  <2>2. pc' = "prompt"
    BY <1>4 DEF Restore, CanAccess, Return
  <2>3. QED  BY <2>1, <2>2 DEF InHit
<1>5. QED  BY <1>2, <1>3, <1>4

LEMMA SetRegsStep ==
  ASSUME Spaced, ContinueOnly, CodeInv, SetRegs, TypeOK'
  PROVE  UNCHANGED View
<1> USE DEF CodeInv, BreakpointInv
<1>1. pc = "setregs" /\ pc' = "prompt" /\ UNCHANGED <<tracee, sig>>
  BY DEF SetRegs, Return
<1>2. CASE ~Alive
  BY <1>1, <1>2, DeadStep
<1>3. CASE Alive
  <2>1. InHit
    BY <1>1, <1>3 DEF InHit
  <2>2. Stopped /\ HitAddr(rip) = rip - 1
    BY <2>1, HitListed
  <2>3. regs = rip
    BY <1>1, <2>2 DEF HitInv
  <2>4. rip' = rip - 1 /\ DOMAIN Breakpoints' = DOMAIN Breakpoints \ {rip - 1}
    BY <2>2, <2>3 DEF SetRegs, Rewound, Erased
  <2>5. Alive' /\ ~InHit'
    BY <1>1, <1>3 DEF InHit, Alive
  <2>6. Process' = Process
    BY <1>1 DEF Process, Running, Stopped
  <2>7. Place' = Place /\ Reason' = Reason
    BY <1>1, <1>3, <2>1, <2>4, <2>5 DEF Place, Reason
  <2>8. Planted' = Planted
    BY <1>3, <2>1, <2>4, <2>5 DEF Planted, Mapped
  <2>9. QED  BY <2>6, <2>7, <2>8 DEF View
<1>4. QED  BY <1>2, <1>3

LEMMA NoStepsStep ==
  ASSUME ContinueOnly, CodeInv, [Next]_vars
  PROVE  NoSteps'
<1> USE DEF CodeInv, NoSteps
<1>1. CASE ReadCommand
  <2>1. StdinEnds = FALSE
    BY DebuggerAssumption DEF ContinueOnly
  <2>2. command' \in Commands /\ stdin' = "open" /\ pc' = "dispatch"
    BY <1>1, <2>1 DEF ReadCommand, GetLine
  <2>3. command'.name \in Typed
    BY <2>2 DEF Commands
  <2>4. QED  BY <2>2, <2>3
<1>2. CASE NextI
  BY <1>2 DEF NextI, Handling, Names, ContinueOnly
<1>3. CASE [Next]_vars /\ ~ReadCommand /\ ~NextI
  BY <1>3
  DEF Next, DebuggerStep, Dispatch, Terminated, InitialWait, LoopEnds,
      ExitCommand, List_breakpoints, UnknownCommand, Info_registers,
      Set_breakpoint, Disassemble, DisassembleWait, HelperReads, HelperExits, Continue,
      ContinueWait, ContinueRegs, Restore, SetRegs, StepWait, StepRegs,
      TargetStep, Return, debuggerVars, vars
<1>4. QED  BY <1>1, <1>2, <1>3

-----------------------------------------------------------------------------
(* Every step *)

LEMMA AbstractStep ==
  ASSUME Spaced, ContinueOnly, CodeInv, BreakpointInv', [Next]_vars
  PROVE  Abstract!Next \/ UNCHANGED View
<1>1. TypeOK /\ TypeOK'
  BY DEF CodeInv, BreakpointInv
<1> DEFINE HitPoints == {"cont_wait", "cont_regs", "restore", "setregs"}
<1>2. ASSUME UNCHANGED <<rip, sig, tracee, Breakpoints>>, pc \notin HitPoints, pc' \notin HitPoints
      PROVE  UNCHANGED View
  BY <1>2, SameView DEF InHit
<1>3. CASE LoopEnds \/ List_breakpoints \/ UnknownCommand \/ Info_registers
           \/ Disassemble \/ DisassembleWait \/ ReadCommand
  BY <1>2, <1>3
  DEF LoopEnds, List_breakpoints, UnknownCommand, Info_registers, Disassemble,
      DisassembleWait, ReadCommand, Handling, Unknown, Return, traceeVars
<1>4. CASE HelperReads \/ HelperExits \/ UNCHANGED vars
  <2>1. UNCHANGED <<mem, rip, sig, tracee, pc, Breakpoints>>
    BY <1>4 DEF HelperReads, HelperExits, vars, traceeVars, debuggerVars
  <2>2. InHit' <=> InHit
    BY <2>1 DEF InHit, Alive, Stopped
  <2>3. QED  BY <2>1, <2>2, SameView
<1>5. CASE InitialWait
  <2>1. /\ WaitReturns /\ tracee' = Reported /\ UNCHANGED <<rip, sig, mem, Breakpoints>>
        /\ pc = "start" /\ pc' = "prompt"
    BY <1>5 DEF InitialWait
  <2>2. InHit' <=> InHit
    BY <2>1 DEF InHit
  <2>3. QED  BY <2>1, <2>2, WaitStep DEF Abstract!Next
<1>6. CASE ContinueWait
  <2>1. /\ WaitReturns /\ tracee' = Reported /\ UNCHANGED <<rip, sig, mem, Breakpoints>>
        /\ pc = "cont_wait"
    BY <1>6 DEF ContinueWait
  <2>2. ASSUME tracee = "halted" PROVE InHit' <=> InHit
    <3>1. pc' = "cont_regs" /\ tracee' = "stopped"
      BY <1>6, <2>2 DEF ContinueWait, Statuses, Reported
    <3>2. QED  BY <2>1, <2>2, <3>1 DEF InHit, Alive, Stopped
  <2>3. QED  BY <2>1, <2>2, WaitStep DEF Abstract!Next
<1>7. CASE ExitCommand
  <2>1. CASE Alive
    BY <1>7, <2>1, KilledStep DEF ExitCommand, Abstract!Next
  <2>2. CASE ~Alive
    BY <1>1, <1>7, <2>2, DeadStep DEF ExitCommand
  <2>3. QED  BY <2>1, <2>2
<1>8. CASE Set_breakpoint
  BY <1>1, <1>8, SetBreakpointStep DEF Abstract!Next
<1>9. CASE Continue
  BY <1>1, <1>9, ContinueStep DEF Abstract!Next
<1>10. CASE ContinueRegs
  BY <1>10, RegsStep, SameView DEF ContinueRegs, traceeVars
<1>11. CASE Restore
  BY <1>11, RestoreStep, SameView DEF Restore
<1>12. CASE SetRegs
  BY <1>1, <1>12, SetRegsStep
<1>13. CASE NextI \/ StepWait \/ StepRegs
  BY <1>13 DEF NextI, StepWait, StepRegs, Handling, Names, ContinueOnly, CodeInv, NoSteps
<1>14. CASE TargetStep(TraceeNext)
  <2>1. CASE TargetStep(Trap)
    BY <2>1, TrapStep DEF Abstract!Next
  <2>2. CASE TargetStep(Retire)
    BY <2>2, RetireStep DEF Abstract!Next
  <2>3. CASE TargetStep(Fault \/ Signalled)
    BY <2>3, InterruptedStep DEF Abstract!Next
  <2>4. CASE TargetStep(Exit \/ ExecFails)
    BY <2>4, ExitStep DEF Abstract!Next
  <2>5. CASE TargetStep(ExecSucceeds)
    BY <2>5, LoadStep DEF Abstract!Next
  <2>6. CASE TargetStep(Killed)
    BY <2>6, KilledStep DEF TargetStep, Killed, Abstract!Next
  <2>7. QED
    BY <1>14, <2>1, <2>2, <2>3, <2>4, <2>5, <2>6
    DEF TargetStep, TraceeNext, Launch, Instruction
<1>15. QED
  BY <1>3, <1>4, <1>5, <1>6, <1>7, <1>8, <1>9, <1>10, <1>11, <1>12, <1>13, <1>14
  DEF Next, DebuggerStep, Dispatch, Terminated

LEMMA RestoresHitStep ==
  ASSUME Spaced, ContinueOnly, CodeInv, [Next]_vars
  PROVE  RestoresHit'
<1> USE DEF CodeInv, BreakpointInv
<1>1. CASE DebuggerStep \/ ReadCommand
  <2>1. pc' = "restore" => ContinueRegs
    BY <1>1
    DEF DebuggerStep, Dispatch, InitialWait, LoopEnds, ReadCommand, ExitCommand,
        List_breakpoints, UnknownCommand, Info_registers, Set_breakpoint,
        Disassemble, Continue, NextI, DisassembleWait, ContinueWait, Restore,
        SetRegs, StepWait, StepRegs, Return
  <2>2. QED  BY <2>1, RegsStep DEF RestoresHit
<1>2. CASE HelperReads \/ HelperExits \/ UNCHANGED vars
  <2>1. UNCHANGED <<mem, rip, sig, tracee, pc, regs>>
    BY <1>2 DEF HelperReads, HelperExits, vars, traceeVars, debuggerVars
  <2>2. QED  BY <2>1 DEF RestoresHit, InHit, Alive, Stopped, Mapped, HitAddr
<1>3. CASE TargetStep(TraceeNext)
  <2>1. UNCHANGED pc
    BY <1>3 DEF TargetStep, debuggerVars
  <2>2. pc = "restore" => ~Alive'
    BY <1>3
    DEF TargetStep, TraceeNext, Launch, Instruction, ExecSucceeds, ExecFails,
        Trap, Retire, Fault, Exit, Signalled, Killed, ProcessInv,
        WaitsForItsOwn, Running, Alive
  <2>3. QED  BY <2>1, <2>2 DEF RestoresHit
<1>4. QED  BY <1>1, <1>2, <1>3 DEF Next, Terminated

LEMMA AtInstructionStep ==
  ASSUME AtInstruction, Abstract!Next \/ UNCHANGED View
  PROVE  AtInstruction'
<1>1. Abstract!Next => Place' = Place \/ Place' \in Flow[Place] \/ Place' = Entry
  BY DEF Abstract!Next, Abstract!Load, Abstract!SetBreakpoint, Abstract!Go,
         Abstract!Hit, Abstract!Execute, Abstract!Interrupted, Abstract!Exit,
         Abstract!Killed, Abstract!Collected, Abstract!Ends
<1>2. Flow[Place] \subseteq Instrs /\ Entry \in Instrs
  BY ProgramAssumption DEF AtInstruction
<1>3. QED  BY <1>1, <1>2 DEF AtInstruction, View

LEMMA CodeInit == Init => CodeInv /\ Abstract!Init
<1> SUFFICES ASSUME Init PROVE CodeInv /\ Abstract!Init
  OBVIOUS
<1>1. /\ pc = "start" /\ tracee = "starting" /\ rip = Entry /\ sig = "none"
      /\ stdin = "open" /\ DOMAIN Breakpoints = {}
  BY DEF Init, TraceeInit
<1>2. Alive /\ ~InHit
  BY <1>1 DEF Alive, InHit
<1>3. Process = "starting"
  BY <1>1, InitTypeOK, ProcStateView
<1>4. Place = Entry /\ Reason = "none" /\ Planted = {}
  BY <1>1, <1>2 DEF Place, Reason, Planted
<1>5. BreakpointInv
  BY BreakpointInit
<1>6. CodeInv
  BY <1>1, <1>4, <1>5, ProgramAssumption DEF CodeInv, NoSteps, RestoresHit, AtInstruction
<1>7. QED  BY <1>3, <1>4, <1>6 DEF Abstract!Init

LEMMA CodeStep ==
  ASSUME Spaced, ContinueOnly, CodeInv, [Next]_vars
  PROVE  CodeInv' /\ (Abstract!Next \/ UNCHANGED View)
<1>1. BreakpointInv'
  BY BreakpointStep DEF CodeInv
<1>2. Abstract!Next \/ UNCHANGED View
  BY <1>1, AbstractStep
<1>3. AtInstruction'
  BY <1>2, AtInstructionStep DEF CodeInv
<1>4. QED  BY <1>1, <1>2, <1>3, NoStepsStep, RestoresHitStep DEF CodeInv

LEMMA CodeInvariant ==
  ASSUME Spaced, ContinueOnly
  PROVE  Spec => []CodeInv
BY CodeInit, CodeStep, PTL DEF Spec

-----------------------------------------------------------------------------

\* For every program and every set of instructions to break at that are spaced
\* and have padding behind their word (ContinueOnly: at eight bytes a poke
\* damages what lies there), Set_breakpoint and Continue, with whatever fails
\* or arrives between their system calls, hold an untouched program at the
\* places asked for.
THEOREM DebuggerIsAbstractDebugger ==
  ASSUME Spaced, ContinueOnly
  PROVE  Spec => ImplementsAbstract
<1>1. CodeInv /\ [Next]_vars => [Abstract!Next]_(Abstract!vars)
  BY CodeStep DEF View, Abstract!vars
<1>2. QED
  BY <1>1, CodeInit, CodeInvariant, PTL DEF Spec, ImplementsAbstract, Abstract!Spec

\* Driven by Continue alone, and with such breakpoints only, the target never
\* fetches anything but its own instructions and the traps it is meant to meet:
\* of the words that are poked none is ever executed behind what was saved.
THEOREM OnlyOwnCodeRuns ==
  ASSUME Spaced, ContinueOnly
  PROVE  Spec => []RunsOwnCode
<1>1. CodeInv => RunsOwnCode
  BY OwnCode, RunningView DEF RunsOwnCode
<1>2. QED  BY <1>1, CodeInvariant, PTL
=============================================================================
