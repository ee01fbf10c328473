--------------------------------- MODULE Calc ---------------------------------
(***************************************************************************)
(* ProgramAnalysis/assignment/mycalc: Program::run over a syntax tree, as a *)
(* machine with the call stack of the recursive evaluate and run, and the   *)
(* main of test_ast.cc that executes one program after the other.           *)
(*                                                                          *)
(* A node is a record [kind, name, val, kids]; name is the variable or the  *)
(* operator, and only the fields its class has are used.                    *)
(***************************************************************************)
EXTENDS Integers, Sequences, FiniteSets, SequencesExt

CONSTANTS
  Batches,   \* the sequences of programs main may be built with
  Half       \* 2^31 of a 32-bit int

ASSUME CalcAssumption == Half \in Nat \ {0, 1}

VARIABLES
  testcases,    \* the programs of main's list
  printed,      \* the tables printed by those already executed
  symbolTable,  \* of theProgram
  stack,        \* the active evaluate and run calls, [node, at, args]
  value,        \* what the last evaluate returned
  mode          \* "idle": in main, "call", "return", or how the process died

vars == <<testcases, printed, symbolTable, stack, value, mode>>

Int32   == -Half .. Half - 1
NoTable == [v \in {} |-> 0]

Frame(n) == [node |-> n, at |-> 0, args |-> NoTable]
Top     == Last(stack)
Node    == Top.node
At(k)   == [Top EXCEPT !.at = k]

Expressions == {"NUM", "VAR", "BINARY"}
Statements  == {"ASSIGN", "SEQUENCE", "IF", "WHILE"}
Operators   == {"+", "-", "*", "/", "<", ">"}

\* The k-th child of n is an Expression, not a Statement.
HoldsExpression(n, k) == n.kind = "BINARY" \/ (k = 1 /\ n.kind # "SEQUENCE")

\* The trees are built by the constructors: programs are statements, literals
\* are ints, children are trees of the class asked for, and each class has its
\* number of them.
WellFormed(Trees) ==
  /\ \A p \in Batches : p \in Seq({n \in Trees : n.kind \in Statements})
  /\ \A n \in Trees :
       /\ n.kind \in Expressions \cup Statements
       /\ n.val \in Int32
       /\ n.kids \in Seq(Trees)
       /\ n.kind \in {"NUM", "VAR"} => n.kids = <<>>
       /\ n.kind = "BINARY" => Len(n.kids) = 2 /\ n.name \in Operators
       /\ n.kind = "ASSIGN" => Len(n.kids) = 1
       /\ n.kind = "IF"     => Len(n.kids) = 3
       /\ n.kind = "WHILE"  => Len(n.kids) = 2
       /\ \A k \in DOMAIN n.kids :
            n.kids[k].kind \in IF HoldsExpression(n, k) THEN Expressions ELSE Statements

Init ==
  /\ testcases \in Batches
  /\ printed = <<>>
  /\ symbolTable = NoTable
  /\ stack = <<>>
  /\ value = 0
  /\ mode = "idle"

-----------------------------------------------------------------------------
(* Calls and returns *)

Enter(kind)      == mode = "call" /\ Node.kind = kind
Resumed(kind, k) == mode = "return" /\ Node.kind = kind /\ Top.at = k

\* The top function goes on as frame f after the one it calls for n.
Call(f, n) ==
  /\ stack' = Append(Append(Front(stack), f), Frame(n))
  /\ mode' = "call"
  /\ UNCHANGED <<testcases, printed, symbolTable, value>>

Return == stack' = Front(stack) /\ mode' = "return" /\ UNCHANGED <<testcases, printed>>

Evaluates(v) == Return /\ value' = v /\ UNCHANGED symbolTable

\* Nothing in mycalc catches: the process ends in the middle of the program.
Dies(how) ==
  /\ mode' = how
  /\ UNCHANGED <<testcases, printed, symbolTable, stack, value>>

-----------------------------------------------------------------------------
(* Arithmetic: the build wraps an int around, and division truncates *)

Wrap_Not(v) == v
Wrap(v) == ((v + Half) % (2 * Half)) - Half
Magnitude(v) == IF v < 0 THEN -v ELSE v
Quotient(l, r) == LET q == Magnitude(l) \div Magnitude(r)
                  IN  IF (l < 0) = (r < 0) THEN q ELSE -q
Truth(b) == IF b THEN 1 ELSE 0

Apply(op, l, r) ==
  CASE op = "+" -> Wrap(l + r)
    [] op = "-" -> Wrap(l - r)
    [] op = "*" -> Wrap(l * r)
    [] op = "/" -> Quotient(l, r)
    [] op = "<" -> Truth(l < r)
    [] op = ">" -> Truth(l > r)

\* The quotient does not exist or does not fit: the processor traps.
Divides(op, l, r) == op # "/" \/ (r # 0 /\ ~(l = -Half /\ r = -1))

-----------------------------------------------------------------------------
(* Expressions *)

EvaluateNum == Enter("NUM") /\ Evaluates(Node.val)

EvaluateVar ==
  /\ Enter("VAR")
  /\ IF Node.name \in DOMAIN symbolTable THEN Evaluates(symbolTable[Node.name])
                                         ELSE Dies("terminate")

\* C++ leaves open which operand is evaluated first.
Operand(k) == Call(At(k), Node.kids[k])

Operate_Swapped(args) ==
  IF Divides(Node.name, args[2], args[1])
  THEN Evaluates(Apply(Node.name, args[2], args[1])) ELSE Dies("SIGFPE")
Operate(args) ==
  IF Divides(Node.name, args[1], args[2])
  THEN Evaluates(Apply(Node.name, args[1], args[2])) ELSE Dies("SIGFPE")

EvaluateBinary ==
  \/ Enter("BINARY") /\ \E k \in {1, 2} : Operand(k)
  \/ \E k \in {1, 2} :
       /\ Resumed("BINARY", k)
       /\ LET args == [i \in DOMAIN Top.args \cup {k} |-> IF i = k THEN value ELSE Top.args[i]] IN
          IF DOMAIN args = {1, 2} THEN Operate(args)
          ELSE Call([At(3 - k) EXCEPT !.args = args], Node.kids[3 - k])

-----------------------------------------------------------------------------
(* Statements *)

\* SymbolTable::set makes the variable when it is not there.
Bind(v, x) == [w \in DOMAIN symbolTable \cup {v} |-> IF w = v THEN x ELSE symbolTable[w]]

RunAssignment ==
  \/ Enter("ASSIGN") /\ Call(At(1), Node.kids[1])
  \/ Resumed("ASSIGN", 1) /\ symbolTable' = Bind(Node.name, value) /\ Return /\ UNCHANGED value

Finish == Return /\ UNCHANGED <<symbolTable, value>>
NextStatement(k) == IF k = Len(Node.kids) THEN Finish ELSE Call(At(k + 1), Node.kids[k + 1])

RunSequence_SkipsFirst ==
  \/ Enter("SEQUENCE") /\ NextStatement(IF Len(Node.kids) > 1 THEN 1 ELSE 0)
  \/ mode = "return" /\ \E k \in DOMAIN Node.kids : Resumed("SEQUENCE", k) /\ NextStatement(k)
RunSequence ==
  \/ Enter("SEQUENCE") /\ NextStatement(0)
  \/ mode = "return" /\ \E k \in DOMAIN Node.kids : Resumed("SEQUENCE", k) /\ NextStatement(k)

RunIf ==
  \/ Enter("IF") /\ Call(At(1), Node.kids[1])
  \/ Resumed("IF", 1) /\ LET k == IF value # 0 THEN 2 ELSE 3 IN Call(At(k), Node.kids[k])
  \/ \E k \in {2, 3} : Resumed("IF", k) /\ Finish

RunWhile_StaleCondition ==
  \/ Enter("WHILE") /\ Call(At(1), Node.kids[1])
  \/ Resumed("WHILE", 1) /\ (IF value # 0 THEN Call(At(2), Node.kids[2]) ELSE Finish)
  \/ Resumed("WHILE", 2) /\ Call(At(2), Node.kids[2])
RunWhile ==
  \/ Enter("WHILE") /\ Call(At(1), Node.kids[1])
  \/ Resumed("WHILE", 1) /\ (IF value # 0 THEN Call(At(2), Node.kids[2]) ELSE Finish)
  \/ Resumed("WHILE", 2) /\ Call(At(1), Node.kids[1])

-----------------------------------------------------------------------------
(* main *)

Died == mode \in {"terminate", "SIGFPE"}
Done == Died \/ (mode = "idle" /\ Len(printed) = Len(testcases))

\* Test::execute: every Program has a table of its own.
Execute_SharedTable ==
  /\ mode = "idle" /\ ~Done
  /\ stack' = <<Frame(testcases[Len(printed) + 1])>> /\ mode' = "call"
  /\ UNCHANGED <<testcases, printed, symbolTable, value>>
Execute ==
  /\ mode = "idle" /\ ~Done
  /\ symbolTable' = NoTable
  /\ stack' = <<Frame(testcases[Len(printed) + 1])>> /\ mode' = "call"
  /\ UNCHANGED <<testcases, printed, value>>

PrintTable ==
  /\ mode = "return" /\ stack = <<>>
  /\ printed' = Append(printed, symbolTable) /\ mode' = "idle"
  /\ UNCHANGED <<testcases, symbolTable, stack, value>>

Exited == Done /\ UNCHANGED vars

ProgramStep ==
  \/ EvaluateNum \/ EvaluateVar \/ EvaluateBinary
  \/ RunAssignment \/ RunSequence \/ RunIf \/ RunWhile

Next == Execute \/ (stack # <<>> /\ ProgramStep) \/ PrintTable \/ Exited

Spec     == Init /\ [][Next]_vars
FairSpec == Spec /\ WF_vars(Next)

-----------------------------------------------------------------------------
(* Properties *)

\* Every value in the table and every operand at hand is an int, whatever the
\* arithmetic before it (ast.cc 56-73), and one table is printed per program.
TypeOK ==
  /\ \A v \in DOMAIN symbolTable : symbolTable[v] \in Int32
  /\ value \in Int32
  /\ \A i \in DOMAIN stack : \A k \in DOMAIN stack[i].args : stack[i].args[k] \in Int32
  /\ Len(printed) <= Len(testcases)
  /\ mode \in {"idle", "call", "return", "terminate", "SIGFPE"}
=============================================================================
