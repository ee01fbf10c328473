# A TLA+ model of the debugger and the program analysis tools

The repository holds four programs. Two drive another process with ptrace: the
interactive debugger `src/debugger/PL Project/de.cpp` and the instruction
counter `src/ptrace.c`. Two walk a syntax tree: the type checker in
`src/ProgramAnalysis/typechecker` and the calculator in
`src/ProgramAnalysis/assignment/mycalc`. The modules here model all four, and all
four come with machine-checked proofs: of the safety of the two ptrace programs
and of their launch, of the scopes and the verdicts of the type checker and of what
it guarantees, of the arithmetic, the results and the deaths of the calculator, and of
the loops in `main` that run one program after the other.

## The parts of the system

| part | state it keeps | operations | interacts with |
|---|---|---|---|
| traced process (`target.c`, any program) | its text, instruction pointer, run state | executes, traps, faults, is signalled, is killed, exits | the tracer, by ptrace and wait() |
| debugger: command loop (`de.cpp` main) | `wait_status`, `command` | wait once, then prompt, `getline`, `handle_command` | every handler; standard input |
| debugger: breakpoints and continue | `Breakpoints`: address -> word saved; the INT 3 bytes in the target | `Set_breakpoint`, `List_breakpoints`, `Continue` | the target's text and registers |
| debugger: single step | `executed_instructions`, `instruction_count` | `nexti` | the target; does not know the breakpoints |
| debugger: register display | `regs`, unset before GETREGS | `Info_registers` | the target |
| debugger: disassembler | a child of its own | `disassemble`: fork, menu, objdump, waitpid | shares standard input, and the parent's process group, with the rest |
| instruction counter (`ptrace.c`) | `wait_status`, `icounter` | `run_debugger`, `run_target` | the target |
| launch (both) | none | fork, TRACEME, exec | becomes the target, or, in `de.cpp`, a second debugger |
| type checker (`typechecker.cc`) | chain of `ValueEnv`s, `functionEnv`, the C++ call stack | one `typecheck...` function per node class | the tree; exceptions go to `main` |
| its driver (`driver.cc`) | list of test cases, global `theProgram` | `Test::execute`, `main` with two catch clauses | one `Typechecker` per program |
| its tree (`ast.cc`) | owned children | constructors, accessors, destructors | - |
| calculator (`mycalc/ast.cc`) | `SymbolTable` of `theProgram`, the C++ call stack | `evaluate`, `run` | `theProgram` is global |
| its tests (`test_ast.cc`) | - | four programs, `execute` | no catch at all |

What is hard here, and what makes each part correct:

* **Debugger.** The target can be killed between any two of the debugger's system
  calls; requests fail and their results are used unread; addresses and words
  are cut to 32 bits; breakpoints, single steps and signals meet. Correct means:
  listed breakpoints and INT 3 bytes agree, the words saved are the program's
  own, a hit puts the target back exactly, no breakpoint is run through, the
  debugger waits only for what will come, and leaves nobody behind. All of it
  together: breakpoints and continue look like a debugger that holds an untouched
  program at a set of places.
* **Launch.** When TRACEME or exec fails the child goes on as a second debugger, on
  the same standard input, while the first waits for it. Correct means: never both
  debuggers, nor a debugger and its own menu, ask the user at once, nobody is left
  behind, and a failed launch ends.
* **Counter.** One count per stop, counted before the instruction that it stands
  for. Correct would mean that the number printed is the number of instructions;
  that is so only of a target that no signal or fault stops (run SignalCounted).
* **Type checker.** Scopes are opened and closed by hand, and exceptions of three
  kinds leave in the middle. Correct means: verdicts follow the typing rules, in
  whatever context a program is checked.
* **Calculator.** Unspecified operand order, overflow, division, variables that
  only some paths assign. Correct means: the table printed is the program's
  meaning, and a death is one the program really has.

## The modules

### Tracee (external), Debugger, AbstractDebugger, DebuggerRefinement, DebuggerProofs, RefinementProofs, MCDebugger

`Tracee` is the traced process and the slice of Linux both debuggers need. Text
is a byte array whose bytes are `own` (the linker's), `trap`, `zero` or `ones`:
a poke writes back a word peeked at the same address, so no finer identity is
needed. A process that runs over damaged text may fault, end or continue in
`Strays`. PEEKTEXT of an unmapped or running target gives -1 (`ones`); requests
on a target that is not stopped fail.

`Debugger` is `de.cpp`. `pc` is the point in the code; an action is everything
between two system calls that matter, and the target, the outside world and
the disassembler child move between any two actions. `Continue` alone is
`Continue`, `ContinueWait`, `ContinueRegs`, `Restore`, `SetRegs`, each with the
early returns of the source. Truncation to `unsigned int` is `Low`, `HitAddr`,
`Parsed`; the widening poke is `Widen`; `std::map::insert`, which keeps an old
entry, is `Inserted`. After an input that ends without a newline `getline`
leaves `command` as it was, and so does the model. Uninitialized `regs`,
`uiaddr` and `wait_status` are arbitrary members of a small set (`Garbage`,
`Statuses`).

`AbstractDebugger` is the promise: a process, its place, the signal that held
it last, and a set of breakpoints; no text, no traps, no pointer to set back.
`DebuggerRefinement` maps the debugger to it. From the moment the target has
executed a planted INT 3 until SETREGS (`InHit`) the process counts as held at the
trap's place, with that breakpoint spent; everything `Continue` does in between,
and every request of it, is then a stutter. The widths are those of x86-64, the only
machine `de.cpp` compiles for (it names `regs.rip`): a word is eight bytes, what is saved of it
four, and the poke zeroes the other four (`Behind`). The promise can therefore be kept
only for some programs and users, and `ContinueOnly` says for which: breakpoints at
instructions whose word is mapped, and never inside one; nothing but padding in the four
bytes behind each saved word; no `nexti`; and, when a SIGTRAP may come from outside, no
instruction one byte behind a breakpoint, where `Continue` would take it for a hit.
`Spaced` adds that breakpoints are a word apart, and that no text looks like other text
when its address is cut to 32 bits. Without the padding, and with single
steps, the promise is broken: `Clobbers` and `StepOverTrap` show how.

Left out: printing; all registers but RIP; a target that calls exec itself. In `Debugger`
a child whose `exec` fails looks like one that ends some time later (`ExecFails`). The
disassembler child asks two questions (`HelperReads`: the menu, a file name), runs objdump
and exits (`HelperExits`); what those reads do to the input is module `Launch`.

### Launch, LaunchProofs

All the processes of one call of `de.cpp`: the first debugger, the child, the
second debugger that the child is after a failed TRACEME or exec (`execute_program`
returns and `main` goes on with `child == 0`), and a disassembler child with its
menu for each. `pc` has the program point of each debugger; a command is what it
does to processes. `fork` may fail, unchecked in `main` and checked in
`disassemble`. The second debugger has no child, so its wait() fails and its
status is uninitialized; its `exit` is `kill(0, SIGKILL)`, the whole process group.
A child that called TRACEME stops on every signal, also on the SIGCHLD of its own
menu, until the first debugger resumes it.

Left out: what the first debugger's breakpoints would do to the second one's
text, a signal from outside that kills the first debugger, and, after a failed
`fork`, the `kill(-1, SIGKILL)` of `exit`, whose victims are outside the model.

### Tracer, TracerProofs, MCTracer

`ptrace.c`: `run_debugger` is `Wait`, `Loop`, `Step`. `executed` and `swallowed`
are history variables that record what the target did.

### Ast, DriverTests, Typechecker, TypingRules, Batch, TypecheckerProofs, TypingProofs, MCTypechecker

`Ast` has the constructors of `ast.cc` under their names. A node is a value, without
the identity that destructors would need. `DriverTests` builds T1 to T17 and
records the output `driver.cc` quotes. `Typechecker` is the recursive descent as
a machine with an explicit call stack: `Enter` and `Resumed` stand for the code
before and after a recursive call, `Throw` and `Unwind` for exceptions, with the
catch clauses of `typecheckFunctionCall` and `main`. A scope that is not closed
when an exception passes stays on the chain, as in the code, and `TypecheckProgram` adds
its declarations to whatever scope is innermost (`Added`, `Clashes`): that this is a fresh
one is the work of `Execute`, which makes a new `Typechecker` for each program, and with
a shared one (`Execute_SharedTypechecker`) the leftovers show. The operands of
`==` in `typecheckAssignment` are taken in either order. `Members` and `WellFormed`
say what trees the classes of `ast.hh` admit: how many children a node has, and of
which classes. The machine does not use them; the proofs assume them, and
`MCTypechecker` has TLC evaluate them on every program it checks. `TypingRules` states
the judgement the code is meant to decide, with environments as functions and no
scopes, exceptions or order. The judgement is a constant operator, `Yields`, of which
`Judgement` says that it satisfies the rules (`YieldsOf`) at every node: the proofs
need no more, and no recursion. Each rule takes as a parameter the operator it
defines, so that for TLC `MCTypechecker` turns the same rules into the recursion over
the tree (`MCYields`). `Nodes` and `Free` (the variables a node uses and does not declare)
are constants of the same kind. `Descends` says that trees have a height; TLC evaluates
it on every program with `MCHeight`.

`Batch` is the promise of `main`: a list of programs, run in its order, each with an end
it may come to by itself, until an end is fatal. It has no environment and no table that
one program could leave to the next, and no end is taken back. `TypingRules` and
`CalcRules` each map their program to it (`Main`, `ImplementsBatch`): the ends of a program
are what the rules say (`EndsOf`), and every step between two verdicts or two printed
tables is a stutter. The type checker implements it although an exception leaves its
scopes and functions behind, the calculator although `theProgram` is global.

### Calc, CalcRules, Batch, CalcProofs, CalcRulesProofs, MCCalc

The calculator in the same style. `Wrap` is what the build (`g++ -g`) does on
signed overflow; the operands of an operator are evaluated in either order; an
unset variable ends the process through `std::terminate` (nothing catches the
string), a bad division by SIGFPE. `CalcRules` gives programs a meaning without
a stack, and the definite-assignment rule: constant operators (`Value`, `Meaning`, ...)
that satisfy their rules (`Semantics`), made the recursion over the tree by `MCCalc`
as above. `WellFormed` says what the constructors of `ast.cc` build; TLC evaluates it
on every program of `MCCalc`.

Operators named `X_Something` beside an operator `X` are slips: the same code
with a plausible mistake. None is used by a specification; each shows that one
property notices when `X` is replaced by it.

## What the runs show

| run | question | properties |
|---|---|---|
| Breakpoints64 | do map and text agree, through hits, faults, signals, steps, kills, failed requests, does an address cut to 32 bits ever undo a breakpoint that was not hit, and does the wide poke damage only what lies behind a word? | `TypeOK`, `ListedArePlanted`, `SavedAreOriginal`, `DamageIsConfined`, `HitIsExact`, `NeverRunsPast` |
| Padded64 | with padding behind every breakpoint, is no damaged text ever run, and does the debugger implement the abstract one? | `RunsOwnCode`, `ImplementsAbstract` |
| Launch | who reads the input, who outlives whom, does a failed launch end? | `TypeOK`, `OneReader`, `NoOrphan`, `WaitsForSomething`, `LaunchFailureEnds` |
| Session | does every command return, who waits for whom, is the loop table sound? | `TableSound`, `ControlsTarget`, `NoOrphan`, `WaitsForTargetOnly`, `CommandsReturn`, `ContinueReturns` |
| Counter | is the count that of the stops, and does the trace end? | `TypeOK`, `StopsAreCounted`, `NeverWaitsForNothing`, `NoOrphan`, `Terminates` |
| Typecheck | are verdicts those of the rules, scopes those of the text, outputs those recorded? does an accepted program have all that it needs, and is each one run as if alone? | `TypeOK`, `VerdictIsRight`, `ProgramsAreClosed`, `EnvironmentsAreLexical`, `RecordedOutput`, `Terminates`, `ImplementsBatch` |
| Calc | are tables and deaths those the program means, whatever ran before? | `TypeOK`, `OutcomeIsRight`, `ReadsAreAssigned`, `RecordedOutput`, `Terminates`, `ImplementsBatch` |
| Clobbers | *violation:* `TextIsOriginal` on x86-64 | the poke zeroes the four bytes behind the saved word (de.cpp 224) |
| StepOverTrap | *violation:* `StepsToInstruction` | `nexti` on a breakpoint executes the INT 3 and stops inside the instruction (de.cpp 181) |
| StaleStatus | *violation:* `EndsWithTarget` | the loop tests the status of the first wait() for ever (de.cpp 370) |
| SignalCounted | *violation:* `CountIsExact` | a stop by a signal is counted as an instruction (ptrace.c 44) |
| BoolCondition | *violation:* `ComparisonIsBool` | `x < 10` has type INT, so no loop over it is accepted (typechecker.cc 203) |

### Bounds

* *Targets.* Twelve to thirty-two bytes of text, with what matters: an
  instruction shorter and one longer than the bytes a breakpoint changes, a loop,
  an INT 3 of the program's own, an instruction that may fault, an exit, and in
  `Padded64` padding behind the instructions that get breakpoints.
* *Addresses.* `BreakArgs` holds mapped addresses a word apart, unmapped ones, and
  one above `UIntMax`, which `strtoul` and the assignment turn into `UIntMax`; `Session`
  also has `break` with nothing behind its blank (`NoArg`) and without a blank (`Bare`).
  `Asked` are the addresses that can come out. In `Breakpoints64` and `Padded64`
  they satisfy `Spaced`, on which `ListedArePlanted` and `SavedAreOriginal` rest.
  `Breakpoints64` has the upper half of its text above `UIntMax`: a breakpoint asked for
  there is planted at `UIntMax`, and the low bits of the program's own INT 3 are another
  address, which is listed.
* *Integers.* TLC's integers have 32 bits, so `unsigned int` is scaled to 16
  (`UIntMax = 65535`; in `Breakpoints64` to 5), the counter to 2 (so that it wraps), the calculator's
  `int` to 8 (`Half = 128`). Truncation and wrap-round are expressed through
  those constants and work the same at every width; the theorems hold for all.
* *Commands.* Each run types the commands its question needs; `Session` types
  every one, one nobody handles, and the empty line. `MAX_EXECUTED_INSTRUCTIONS`
  is 2 there, so that the table fills.
* *Programs.* Type checker: every combination of small parameter lists, bodies,
  declarations that shadow or repeat, and calls with right and wrong arguments;
  pairs of programs; the driver's own seventeen in their order. Calculator: the
  ends of the int range under every operator, branches that assign on one side,
  loops of zero and more rounds and one that an overflow ends, pairs, and the
  four tests.
* *Launch* is finite without a bound: at most two debuggers and two menus exist.
* `MaxStops` bounds signals in `Counter`; `Strays` bounds where damaged text leads.

### Fairness

The debugger's process, the target's process and objdump are scheduled by the
kernel: weak fairness of each one's steps. A menu goes on by itself only when it meets
the end of input (`stdin = "eof" /\ HelperReads`). Nothing is assumed of the user (but
in `AttentiveSpec`, where a violation must not be due to a silent one), of
signals, or of kills. A user who never answers the menu keeps `disassemble` in its
waitpid() for ever: `CommandsReturn` says of that wait only that it ends once objdump
runs or the input is over. `Launch` likewise: its debuggers and objdump run on, no command and
no answer to a menu need ever come. `ContinueReturns` and the counter's `Terminates` are checked
on targets without an endless loop, since with one they do not hold of any
debugger; the counter's target has no faulting instruction either, because
SINGLESTEP with signal 0 retries a fault for ever. The type checker and the
calculator are sequential: their one process runs.

## What is proved

`DebuggerProofs`, `RefinementProofs`, `TracerProofs`, `LaunchProofs`,
`TypecheckerProofs`, `TypingProofs`, `CalcProofs` and `CalcRulesProofs` prove, for all
constants that satisfy the named assumptions, what the runs check on small instances.

* **Debugger, process part.** `TypeOK` is inductive with `FoundIsListed` (the word
  that `Restore` writes back is a listed one). `ProcessInv` adds to
  `ControlsTarget`, `NoOrphan` and `WaitsForTargetOnly` which wait() each running
  mode of the target belongs to and that a final status means a collected target;
  without these a kill during a command could not be excluded from leaving the
  debugger blocked.
  `TypeCorrect`, `TargetIsControlled`, `NoTargetIsOrphaned`, `OnlyTheTargetIsAwaited`.
  `TableIsSound` is inductive given types.
* **Debugger, breakpoints.** `PlantInv` = `ListedArePlanted`, `SavedAreOriginal` and
  `DamageIsConfined`: a byte that is not the program's own lies on an armed
  breakpoint or in the upper half of a word poked for one. This third part is what
  makes the others inductive: with addresses a word apart a new peek meets neither.
  `PointerInv` keeps RIP in the text or just behind it; with it, `HitInv` says that
  when `SetRegs` moves the pointer the entry it goes by is of a mapped address, and
  `HitIsHere` that this is the very place where the target stands, not one with the same
  low bits. `LiftedIsOwn` says that the byte is back before the
  pointer moves; `KeysAreAsked` that the map has only addresses asked for. From them
  `ListedBreakpointsArePlanted`, `SavedWordsAreOriginal`, `DamageStaysBehindTheWord`,
  `HitsAreExact` and `BreakpointsStop`, under `Spaced`.
* **Debugger, refinement.** `DebuggerIsAbstractDebugger`: `Spec => ImplementsAbstract`
  under `Spaced` and `ContinueOnly`, the padding behind every breakpoint among it: for a
  program without that padding it is false, as `Clobbers` shows. Its invariant `CodeInv` adds to the breakpoint
  part that no single step is ever asked for (`NoSteps`), that a breakpoint being
  undone is the one the target stopped at (`RestoresHit`), and that the mapped place
  is an instruction (`AtInstruction`). There is one lemma per step of the target
  and of the debugger, each ending in an abstract step or a stutter. Two facts
  carry them: a trap hit was listed (`HitListed`), and an instruction without a
  breakpoint at its address is intact (`OwnCode`). The second needs two conjuncts of
  `ContinueOnly`: the bytes the poke zeroes belong to no instruction, and no breakpoint
  is inside one (two instructions of a program may overlap, so that an address can
  start one and lie within another). `OnlyOwnCodeRuns` (`RunsOwnCode`) follows from the same invariant.
* **Launch.** `ProcessesAreTyped`, `InputHasOneReader`, `ChildDoesNotOutlive` and
  `WaitsAreForNews` are `TypeOK`, `OneReader`, `NoOrphan` and `WaitsForSomething`. `Launch`
  has no constants and few states, so the run covers all of it; the proof adds why
  it holds. `PromptInv`: there is a second debugger only after an exec that failed, and
  the first one prompts only while its child is held or gone. `MenuInv`: a menu that is
  not collected is being waited for, or was left behind by its debugger's death.
  `HeldInv`: signals hold only a child that asked to be traced.
* **Counter.** `CountInv` relates count, executed and swallowed stops at each point
  modulo the counter's width: `CounterTypes`, `PrintedCountIsOfStops` (`StopsAreCounted`),
  `WaitsForSomething`, `TracerLeavesNoOrphan`. `UndisturbedCountIsExact` is what is left of
  `CountIsExact`: it holds of a target that no signal or fault has stopped.
* **Type checker.** For every set of programs whose trees are `WellFormed`.
  `ResultsAreTypes` is `TypeOK`; `ShapeInv` strengthens it: the program is at the
  bottom of the call stack and nowhere else, so that a return never empties it, and
  a frame that waits for a call may rely on what was found before the call
  (`Consistent`: the condition of a branch is a `BinaryExpression`, a called function
  is defined), and the scope a program's declarations go to is an empty one
  (`ProgramCases`). `ScopingIsLexical` is `EnvironmentsAreLexical`, by induction over the
  steps: `PathInv` says which frames are fresh and that a function is found only just
  above the program, `EnvInv` that the n-th scope on the chain belongs to the n-th
  frame that opens one, and that `functionEnv` has the functions the program has
  passed. The steps of expressions and most statements are alike (`Plain`) and are
  treated once; the steps that open and close scopes use four lemmas about pushing
  and popping a frame with and without a scope (`PushPlain`, `PushScope`, `PopPlain`,
  `PopScope`). Nothing is claimed while an exception is in flight: it leaves the
  scopes behind, and only because `main` makes a new `Typechecker` per program does
  that do no harm (`ExecuteStep`, `EnvExecute`).
* **Type checker, verdicts.** `VerdictsAreRight` is `VerdictIsRight` for every set of
  `WellFormed` programs and every `Yields`, `Nodes` and `Free` that satisfy `Judgement`.
  The invariant `JudgedInv` ties the machine to the rules. `LinkInv`: each frame is a
  call of the child that the frame below waits for, in the environment the rules give
  that child. `SoFarInv`: what a waiting frame has seen of its node so far is right, so
  that the node's verdict depends only on the children to come. `ResultInv`: what a
  call returns is what the rules yield for its node. `ThrowInv`: a node that an
  exception leaves is ill typed by the rules, and a `std::bad_cast` leaves only a node
  with a branch over no `BinaryExpression` in it. One lemma per rule takes `Judgement`
  apart; one lemma per handler shows that it keeps the four. It rests on
  `ScopingIsLexical`: the chain of scopes is the environment of the rules.
* **Type checker, what acceptance means.** `AcceptedProgramsAreClosed` is
  `ProgramsAreClosed`: the rules speak of one node at a time, the theorem of everything
  below it, so it needs an induction over the tree. The induction is done
  with a set instead of a predicate: `TreeInduction` says that a set with every node
  whose children it has contains all trees, by way of a counterexample of least
  height (`Descends`, `LeastHeight`, and from it the library's `WFMin`). `SoundUp` is its
  step, one case for the rules in general and one for `typecheckBranch`, which skips its
  condition and looks at the two operands: the induction carries children and their
  children for that reason. `RulesDetermineTheTypes`, by the same principle,
  says that the rules have one solution on `Trees`: `VerdictsAreRight` speaks of one
  judgement, and not of one among many.
* **The loops of main.** `MainRunsEachProgramAlone`, once for the type checker
  (`TypingProofs`) and once for the calculator (`CalcRulesProofs`), is `Spec => ImplementsBatch`:
  each step adds the next program's end, one that the rules allow it by itself, or
  none (`EndsGrow`). That nothing goes on after a fatal end is the invariant `Lives` in
  the type checker; in the calculator it is the process that is dead, and no printed
  table is a fatal end (`NothingLost`).
* **Calculator.** `ValuesAreInts` is `TypeOK` for every set of programs whose trees
  are what the constructors build (`WellFormed`: literals are ints, children are
  trees, each class has its number of them). `ValueInv` strengthens it: the
  calls under way are of such nodes, their finished operands and the table hold
  ints, and a running program's table is still to be printed. The arithmetic lemma
  is `QuotientType`: the one quotient that is no int is the one that traps.
* **Calculator, results.** `OutcomesAreRight` is `OutcomeIsRight`, and
  `DefiniteAssignmentIsSound` is `ReadsAreAssigned`, for every width of int, every set of
  `WellFormed` programs and all operators that satisfy `Semantics`. `LinkInv`: the
  frames are calls of children of each other, and no expression has a statement above
  it, so that no table changes under an operand at hand. `OutcomeInv`: there is a
  promise for every frame (`Promises`), what its call will give: the lowest promise
  is the meaning of the program, each promise follows from the one above it by the rule
  of its node, the last is what the top call was made for, and every fate of a promise
  is a fate of the program. A step changes the top of that chain and never the rest, so
  that no induction over stack or tree is needed. `AssignedInv` does the same for
  definite assignment (`Assignments`): variables that were assigned when a frame was
  called, enough for the rule to accept it. A loop that does not end constrains its
  meaning by an equation only; any one fate satisfies it, so that the hypotheses can
  be met by every set of programs, and nothing is claimed of such a program but that
  it prints no table and dies of nothing that its meaning excludes.

Assumed: the constants describe a program (`ProgramAssumption`) and sane sizes
(`TextAssumption`, `DebuggerAssumption`, `TracerAssumption`, `CalcAssumption`); for the breakpoint
theorems `Spaced`, and for the refinement `ContinueOnly`; the instance of `Padded64`
satisfies both. For
the results about syntax trees, that `Yields`, `Nodes`, `Free` and the operators of `CalcRules`
satisfy their rules: over finite trees such operators exist, by recursion, and TLC's
runs use them. For the inductions, that trees are finite in depth (`Descends`), as objects
must be whose constructors take children that already exist.

Model-checked only: every liveness property (the prover knows neither fairness
nor ENABLED), and two properties of the repository's own programs, which have no
general form, the two `RecordedOutput`. That operators satisfying the
rules exist for every set of finite trees is a recursion the prover cannot define; TLC's
runs exhibit them. `CalcRules` does not determine what a loop that never ends means, and nothing
rests on it; of a program that ends, `OutcomesAreRight` fixes the table whichever solution
of the rules is taken.

## Observed while modelling, not the subject of a run

* Two breakpoints in one word: setting the second or hitting one can remove the
  other's trap while it stays listed. This is why `Spaced` is a hypothesis.
* Breakpoints given after the target has ended, or on unmapped addresses, are
  listed although nothing was planted: `PEEKTEXT` and `POKETEXT` are not checked.
* `break` with an address above 2^32 saturates. `break` without a blank sets a breakpoint
  at 0xb, since `substr` then starts at the word's own `b`; with a blank and nothing behind it
  `uiaddr` is unset.
* `typecheckFunctionCall` catches its own complaints about the number and the types of
  arguments (typechecker.cc 233) and reports a defined function as undefined.
* `infobreak`, documented in README.md 23, is an unknown command;
  `info registers` before a stop prints uninitialized registers (de.cpp 241).
* A SIGTRAP from outside that meets the target one byte behind a breakpoint is taken
  for a hit (de.cpp 121): the breakpoint is dropped and the target set back onto it.
* `SymbolTable::set` makes variables, where mycalc/ast.hh 18 says "will work only
  on existing variables."
* A function body may return two types, one not the declared one
  (typechecker.cc 358); the typing rules share that threshold.
* T6 gives one `Var` two parents. The destructors would delete it twice; they do
  not run, because the program is rejected, and it is rejected only because a
  comparison is an INT (run BoolCondition): to mend the one is to meet the other.
* While the second debugger is stopped or killed by a signal its menu still
  reads, and so does the first debugger: `OneReader` speaks of a debugger and its
  own menu for that reason.
* With standard input from a file or a pipe, lines that a menu or a second
  debugger has buffered are read by the parent again: the stdio buffer is copied
  at the fork. From a terminal, one line at a time, that cannot happen; `Launch`
  assumes a terminal.
* When `fork` fails in `main`, wait() leaves the status unset; if it looks like a
  stop, the command `exit` is `kill(-1, SIGKILL)`.

## Not modelled

The programs being debugged, build and editor files; leaks (a rejected program is
never deleted); the destructors of both trees, which are values here; standard input that is not a terminal.

## Plan

What is left is out of the prover's reach or outside `src/`: liveness, and the existence
of the operators the rules describe. Larger families of programs for the runs `Typecheck`
and `Calc` would raise confidence in the rules themselves, which the theorems take as given.
