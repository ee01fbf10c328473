------------------------------ MODULE CalcProofs ------------------------------
(* The calculator, for every width of int and every set of programs whose  *)
(* trees are built by the constructors of ast.cc.                           *)
EXTENDS Calc, TLAPS

-----------------------------------------------------------------------------
(* Arithmetic *)

LEMMA WrapType == ASSUME NEW v \in Int PROVE Wrap(v) \in Int32
<1>1. PICK m \in Nat \ {0} : m = 2 * Half
  BY CalcAssumption
<1>2. PICK k \in Int : k = v + Half
  BY CalcAssumption
<1>3. k % m \in 0 .. m - 1
  OBVIOUS
<1>4. QED  BY <1>1, <1>2, <1>3, CalcAssumption DEF Wrap, Int32

LEMMA MagnitudeType ==
  ASSUME NEW v \in Int32
  PROVE  /\ Magnitude(v) \in 0 .. Half
         /\ v # 0 => Magnitude(v) > 0
         /\ Magnitude(v) = Half => v = -Half
         /\ Magnitude(v) = 1 => v = 1 \/ v = -1
BY CalcAssumption DEF Magnitude, Int32

LEMMA DivideBound ==
  ASSUME NEW a \in Nat, NEW b \in Nat \ {0}
  PROVE  a \div b \in 0 .. a /\ (b > 1 /\ a > 0 => a \div b < a)
<1>1. PICK q \in Int : q = a \div b
  OBVIOUS
<1>2. PICK r \in 0 .. b - 1 : r = a % b
  OBVIOUS
<1>3. a = b * q + r
  BY <1>1, <1>2
<1>4. q >= 0
  <2>1. q <= -1 => b * q <= -b
    OBVIOUS
  <2>2. QED  BY <2>1, <1>3
<1>5. b * q >= q
  BY <1>4
<1>6. b > 1 => b * q >= 2 * q
  BY <1>4
<1>7. QED  BY <1>1, <1>3, <1>4, <1>5, <1>6

\* The one quotient that does not fit is the one the processor traps on.
LEMMA QuotientType ==
  ASSUME NEW l \in Int32, NEW r \in Int32, r # 0, ~(l = -Half /\ r = -1)
  PROVE  Quotient(l, r) \in Int32
<1>1. PICK a \in 0 .. Half : a = Magnitude(l) /\ (a = Half => l = -Half)
  BY MagnitudeType
<1>2. PICK b \in 1 .. Half : b = Magnitude(r) /\ (b = 1 => r = 1 \/ r = -1)
  BY MagnitudeType, CalcAssumption
<1>3. PICK q \in 0 .. a : q = a \div b /\ (b > 1 /\ a > 0 => q < a)
  BY DivideBound, CalcAssumption
<1>4. q = Half => (l < 0) # (r < 0)
  BY <1>1, <1>2, <1>3, CalcAssumption DEF Int32
<1>5. Quotient(l, r) = IF (l < 0) = (r < 0) THEN q ELSE -q
  BY <1>1, <1>2, <1>3 DEF Quotient
<1>6. QED  BY <1>1, <1>3, <1>4, <1>5, CalcAssumption DEF Int32

LEMMA ApplyType ==
  ASSUME NEW op \in Operators, NEW l \in Int32, NEW r \in Int32, Divides(op, l, r)
  PROVE  Apply(op, l, r) \in Int32
<1>1. l \in Int /\ r \in Int
  BY CalcAssumption DEF Int32
<1>2. l + r \in Int /\ l - r \in Int /\ l * r \in Int
  BY <1>1
<1>3. op \in {"+", "-", "*"} => Apply(op, l, r) \in Int32
  BY <1>2, WrapType DEF Apply
<1>4. op = "/" => Apply(op, l, r) \in Int32
  BY QuotientType DEF Apply, Divides
<1>6. op \in {"<", ">"} => Apply(op, l, r) \in {0, 1}
  BY DEF Apply, Truth
<1>7. {0, 1} \subseteq Int32
  BY CalcAssumption DEF Int32
<1>8. QED  BY <1>3, <1>4, <1>6, <1>7 DEF Operators
-----------------------------------------------------------------------------
(* Values *)

Operands      == UNION {[S -> Int32] : S \in SUBSET {1, 2}}
Tables(Trees) == UNION {[S -> Int32] : S \in SUBSET {n.name : n \in Trees}}
Frames(Trees) == [node : Trees, at : Nat, args : Operands]

\* TypeOK as an inductive invariant: the calls under way are of well-formed
\* nodes, and while a program runs its table is still to be printed.
ValueInv(Trees) ==
  /\ testcases \in Seq(Trees)
  /\ printed \in Seq(Tables(Trees))
  /\ symbolTable \in Tables(Trees)
  /\ stack \in Seq(Frames(Trees))
  /\ value \in Int32
  /\ mode \in {"idle", "call", "return", "terminate", "SIGFPE"}
  /\ Len(printed) <= Len(testcases)
  /\ mode # "idle" => Len(printed) < Len(testcases)

LEMMA InvTypes ==
  ASSUME NEW Trees, ValueInv(Trees)
  PROVE  TypeOK
<1>1. \A v \in DOMAIN symbolTable : symbolTable[v] \in Int32
  BY DEF ValueInv, Tables
<1>2. ASSUME NEW i \in DOMAIN stack PROVE \A k \in DOMAIN stack[i].args : stack[i].args[k] \in Int32
  <2>1. stack[i] \in Frames(Trees)
    BY DEF ValueInv
  <2>2. stack[i].args \in Operands
    BY <2>1 DEF Frames
  <2>3. QED  BY <2>2 DEF Operands
<1>3. QED  BY <1>1, <1>2 DEF ValueInv, TypeOK

\* The stack of calls: its top is one of its frames, what is below it a stack.
LEMMA StackTop ==
  ASSUME NEW S, NEW s \in Seq(S), s # <<>>
  PROVE  Last(s) \in S /\ Front(s) \in Seq(S)
<1>1. Len(s) \in Nat /\ Len(s) >= 1
  OBVIOUS
<1>2. QED  BY <1>1 DEF Last, Front

LEMMA NoTableType ==
  ASSUME NEW Trees
  PROVE  NoTable \in Tables(Trees) /\ NoTable \in Operands
<1>1. NoTable \in [{} -> Int32]
  BY DEF NoTable
<1>2. QED  BY <1>1 DEF Tables, Operands

LEMMA InitValues ==
  ASSUME NEW Trees, WellFormed(Trees), Init
  PROVE  ValueInv(Trees)
<1>1. 0 \in Int32
  BY CalcAssumption DEF Int32
<1>2. NoTable \in Tables(Trees)
  BY NoTableType
<1>3. testcases \in Seq(Trees)
  <2>1. testcases \in Seq({n \in Trees : n.kind \in Statements})
    BY DEF Init, WellFormed
  <2>2. QED  BY <2>1
<1>4. Len(printed) <= Len(testcases)
  BY <1>3 DEF Init
<1>5. QED  BY <1>1, <1>2, <1>3, <1>4 DEF Init, ValueInv

\* A call leaves a proper stack when the caller's frame and the node are.
LEMMA CallKeeps ==
  ASSUME NEW Trees, ValueInv(Trees), mode \in {"call", "return"}, stack # <<>>,
         NEW f \in Frames(Trees), NEW n \in Trees, Call(f, n)
  PROVE  ValueInv(Trees)'
<1>1. Front(stack) \in Seq(Frames(Trees))
  BY StackTop DEF ValueInv
<1>2. Frame(n) \in Frames(Trees)
  BY NoTableType DEF Frame, Frames
<1>3. stack' \in Seq(Frames(Trees))
  BY <1>1, <1>2 DEF Call
<1>4. QED  BY <1>3 DEF Call, ValueInv

LEMMA ReturnKeeps ==
  ASSUME NEW Trees, ValueInv(Trees), mode \in {"call", "return"}, stack # <<>>,
         Return, symbolTable' \in Tables(Trees), value' \in Int32
  PROVE  ValueInv(Trees)'
<1>1. Front(stack) \in Seq(Frames(Trees))
  BY StackTop DEF ValueInv
<1>2. QED  BY <1>1 DEF Return, ValueInv

\* What is on top of the stack: a tree, and a frame that may go on from it.
LEMMA TopFrame ==
  ASSUME NEW Trees, ValueInv(Trees), stack # <<>>
  PROVE  /\ Node \in Trees
         /\ Top \in Frames(Trees)
         /\ \A k \in Nat : At(k) \in Frames(Trees)
<1>1. Top \in Frames(Trees)
  BY StackTop DEF ValueInv, Top
<1>2. QED  BY <1>1 DEF Node, At, Frames
-----------------------------------------------------------------------------
(* Steps *)

LEMMA ChildIsTree ==
  ASSUME NEW Trees, WellFormed(Trees), ValueInv(Trees), stack # <<>>,
         NEW k \in DOMAIN Node.kids
  PROVE  Node.kids[k] \in Trees
<1>1. Node.kids \in Seq(Trees)
  BY TopFrame DEF WellFormed
<1>2. QED  BY <1>1

\* Calling the k-th child, from the frame as it is, keeps the invariant.
LEMMA CallChild ==
  ASSUME NEW Trees, WellFormed(Trees), ValueInv(Trees),
         mode \in {"call", "return"}, stack # <<>>,
         NEW k \in DOMAIN Node.kids, NEW f \in Frames(Trees), Call(f, Node.kids[k])
  PROVE  ValueInv(Trees)'
BY ChildIsTree, CallKeeps

LEMMA ExpressionStep ==
  ASSUME NEW Trees, WellFormed(Trees), ValueInv(Trees), stack # <<>>,
         EvaluateNum \/ EvaluateVar
  PROVE  ValueInv(Trees)'
<1>1. Node \in Trees
  BY TopFrame
<1>2. CASE EvaluateNum
  <2>1. value' \in Int32 /\ symbolTable' \in Tables(Trees)
    BY <1>1, <1>2 DEF EvaluateNum, Evaluates, WellFormed, ValueInv
  <2>2. QED  BY <2>1, <1>2, ReturnKeeps DEF EvaluateNum, Evaluates, Enter
<1>3. CASE EvaluateVar /\ Node.name \in DOMAIN symbolTable
  <2>1. symbolTable[Node.name] \in Int32
    BY <1>3 DEF ValueInv, Tables
  <2>2. value' \in Int32 /\ symbolTable' \in Tables(Trees)
    BY <1>3, <2>1 DEF EvaluateVar, Evaluates, ValueInv
  <2>3. QED  BY <2>2, <1>3, ReturnKeeps DEF EvaluateVar, Evaluates, Enter
<1>4. CASE EvaluateVar /\ Node.name \notin DOMAIN symbolTable
  BY <1>4 DEF EvaluateVar, Dies, Enter, ValueInv
<1>5. QED  BY <1>2, <1>3, <1>4

LEMMA BinaryStep ==
  ASSUME NEW Trees, WellFormed(Trees), ValueInv(Trees), stack # <<>>, EvaluateBinary
  PROVE  ValueInv(Trees)'
<1>1. Node \in Trees /\ Top \in Frames(Trees) /\ \A k \in Nat : At(k) \in Frames(Trees)
  BY TopFrame
<1>2. Node.kind = "BINARY"
  BY DEF EvaluateBinary, Enter, Resumed
<1>3. DOMAIN Node.kids = {1, 2} /\ Node.name \in Operators
  <2>1. Node.kids \in Seq(Trees) /\ Len(Node.kids) = 2 /\ Node.name \in Operators
    BY <1>1, <1>2 DEF WellFormed
  <2>2. QED  BY <2>1
<1>4. CASE Enter("BINARY") /\ \E k \in {1, 2} : Operand(k)
  <2>1. PICK k \in {1, 2} : Call(At(k), Node.kids[k])
    BY <1>4 DEF Operand
  <2>2. At(k) \in Frames(Trees)
    BY <1>1
  <2>3. QED  BY <2>1, <2>2, <1>3, <1>4, CallChild DEF Enter
<1>5. ASSUME NEW k \in {1, 2}, Resumed("BINARY", k),
             LET args == [i \in DOMAIN Top.args \cup {k} |-> IF i = k THEN value ELSE Top.args[i]] IN
             IF DOMAIN args = {1, 2} THEN Operate(args)
             ELSE Call([At(3 - k) EXCEPT !.args = args], Node.kids[3 - k])
      PROVE  ValueInv(Trees)'
  <2> DEFINE args == [i \in DOMAIN Top.args \cup {k} |-> IF i = k THEN value ELSE Top.args[i]]
  <2>1. Top.args \in Operands
    BY <1>1 DEF Frames
  <2>2. value \in Int32
    BY DEF ValueInv
  <2>3. args \in [DOMAIN Top.args \cup {k} -> Int32] /\ DOMAIN Top.args \cup {k} \subseteq {1, 2}
    BY <2>1, <2>2 DEF Operands
  <2>4. args \in Operands
    BY <2>3 DEF Operands
  <2>5. CASE DOMAIN args = {1, 2}
    <3>1. Operate(args)
      BY <1>5, <2>5
    <3>2. args[1] \in Int32 /\ args[2] \in Int32
      BY <2>3, <2>5
    <3>3. CASE Divides(Node.name, args[1], args[2])
      <4>1. Evaluates(Apply(Node.name, args[1], args[2]))
        BY <3>1, <3>3 DEF Operate
      <4>2. Apply(Node.name, args[1], args[2]) \in Int32
        BY <3>2, <3>3, <1>3, ApplyType
      <4>3. value' \in Int32 /\ symbolTable' \in Tables(Trees) /\ Return
        BY <4>1, <4>2 DEF Evaluates, ValueInv
      <4>4. QED  BY <4>3, <1>5, ReturnKeeps DEF Resumed
    <3>4. CASE ~Divides(Node.name, args[1], args[2])
      <4>1. Dies("SIGFPE")
        BY <3>1, <3>4 DEF Operate
      <4>2. QED  BY <4>1, <1>5 DEF Dies, Resumed, ValueInv
    <3>5. QED  BY <3>3, <3>4
  <2>6. CASE DOMAIN args # {1, 2}
    <3> DEFINE f == [At(3 - k) EXCEPT !.args = args]
    <3>1. Call(f, Node.kids[3 - k])
      BY <1>5, <2>6
    <3>2. 3 - k \in {1, 2}
      OBVIOUS
    <3>3. At(3 - k) \in Frames(Trees)
      BY <1>1, <3>2
    <3>4. f \in Frames(Trees)
      BY <3>3, <2>4 DEF Frames
    <3>5. QED  BY <3>1, <3>2, <3>4, <1>3, <1>5, CallChild DEF Resumed
  <2>7. QED  BY <2>5, <2>6
<1>6. QED  BY <1>4, <1>5 DEF EvaluateBinary

LEMMA AssignmentStep ==
  ASSUME NEW Trees, WellFormed(Trees), ValueInv(Trees), stack # <<>>, RunAssignment
  PROVE  ValueInv(Trees)'
<1>1. Node \in Trees /\ \A k \in Nat : At(k) \in Frames(Trees)
  BY TopFrame
<1>2. Node.kind = "ASSIGN"
  BY DEF RunAssignment, Enter, Resumed
<1>3. Node.kids \in Seq(Trees) /\ Len(Node.kids) = 1
  BY <1>1, <1>2 DEF WellFormed
<1>4. CASE Enter("ASSIGN") /\ Call(At(1), Node.kids[1])
  <2>1. 1 \in DOMAIN Node.kids /\ At(1) \in Frames(Trees)
    BY <1>1, <1>3
  <2>2. QED  BY <2>1, <1>4, CallChild DEF Enter
<1>5. CASE Resumed("ASSIGN", 1) /\ symbolTable' = Bind(Node.name, value) /\ Return /\ UNCHANGED value
  <2>1. symbolTable \in Tables(Trees) /\ value \in Int32
    BY DEF ValueInv
  <2>2. DOMAIN symbolTable \cup {Node.name} \subseteq {n.name : n \in Trees}
    BY <2>1, <1>1 DEF Tables
  <2>3. Bind(Node.name, value) \in [DOMAIN symbolTable \cup {Node.name} -> Int32]
    BY <2>1 DEF Bind, Tables
  <2>4. Bind(Node.name, value) \in Tables(Trees)
    BY <2>2, <2>3 DEF Tables
  <2>5. QED  BY <1>5, <2>1, <2>4, ReturnKeeps DEF Resumed
<1>6. QED  BY <1>4, <1>5 DEF RunAssignment

LEMMA ControlStep ==
  ASSUME NEW Trees, WellFormed(Trees), ValueInv(Trees), stack # <<>>,
         RunSequence \/ RunIf \/ RunWhile
  PROVE  ValueInv(Trees)'
<1>1. Node \in Trees /\ \A k \in Nat : At(k) \in Frames(Trees)
  BY TopFrame
<1>2. Node.kids \in Seq(Trees)
  BY <1>1 DEF WellFormed
<1>3. mode \in {"call", "return"}
  BY DEF RunSequence, RunIf, RunWhile, Enter, Resumed
<1>4. Finish => ValueInv(Trees)'
  <2>1. Finish => /\ Return
                  /\ symbolTable' \in Tables(Trees) /\ value' \in Int32
    BY DEF Finish, ValueInv
  <2>2. QED  BY <2>1, <1>3, ReturnKeeps
<1>5. ASSUME NEW k \in DOMAIN Node.kids, Call(At(k), Node.kids[k])
      PROVE  ValueInv(Trees)'
  <2>1. At(k) \in Frames(Trees)
    BY <1>1, <1>2
  <2>2. QED  BY <2>1, <1>3, <1>5, CallChild
<1>6. CASE RunSequence
  <2>1. PICK k \in 0 .. Len(Node.kids) : NextStatement(k)
    BY <1>2, <1>6 DEF RunSequence
  <2>2. CASE k = Len(Node.kids)
    BY <2>1, <2>2, <1>4 DEF NextStatement
  <2>3. CASE k # Len(Node.kids)
    <3>1. k + 1 \in DOMAIN Node.kids
      BY <2>3, <1>2
    <3>2. QED  BY <3>1, <2>1, <2>3, <1>5 DEF NextStatement
  <2>4. QED  BY <2>2, <2>3
<1>7. CASE RunIf
  <2>1. Len(Node.kids) = 3
    BY <1>1, <1>7 DEF RunIf, Enter, Resumed, WellFormed
  <2>2. {1, 2, 3} \subseteq DOMAIN Node.kids
    BY <2>1, <1>2
  <2>3. Finish \/ \E k \in {1, 2, 3} : Call(At(k), Node.kids[k])
    BY <1>7 DEF RunIf
  <2>4. QED  BY <2>2, <2>3, <1>4, <1>5
<1>8. CASE RunWhile
  <2>1. Len(Node.kids) = 2
    BY <1>1, <1>8 DEF RunWhile, Enter, Resumed, WellFormed
  <2>2. {1, 2} \subseteq DOMAIN Node.kids
    BY <2>1, <1>2
  <2>3. Finish \/ \E k \in {1, 2} : Call(At(k), Node.kids[k])
    BY <1>8 DEF RunWhile
  <2>4. QED  BY <2>2, <2>3, <1>4, <1>5
<1>9. QED  BY <1>6, <1>7, <1>8

LEMMA MainStep ==
  ASSUME NEW Trees, WellFormed(Trees), ValueInv(Trees), Execute \/ PrintTable
  PROVE  ValueInv(Trees)'
<1>1. CASE Execute
  <2>1. Len(printed) < Len(testcases) /\ Len(printed) + 1 \in DOMAIN testcases
    BY <1>1 DEF Execute, Done, ValueInv
  <2>2. testcases[Len(printed) + 1] \in Trees
    BY <2>1 DEF ValueInv
  <2>3. Frame(testcases[Len(printed) + 1]) \in Frames(Trees)
    BY <2>2, NoTableType DEF Frame, Frames
  <2>4. stack' \in Seq(Frames(Trees))
    BY <2>3, <1>1 DEF Execute
  <2>5. symbolTable' \in Tables(Trees)
    BY <1>1, NoTableType DEF Execute
  <2>6. QED  BY <1>1, <2>1, <2>4, <2>5 DEF Execute, ValueInv
<1>2. CASE PrintTable
  <2>1. Len(printed) < Len(testcases) /\ symbolTable \in Tables(Trees)
    BY <1>2 DEF PrintTable, ValueInv
  <2>2. printed' \in Seq(Tables(Trees)) /\ Len(printed') = Len(printed) + 1
    BY <1>2, <2>1 DEF PrintTable, ValueInv
  <2>3. Len(printed') <= Len(testcases)
    BY <2>1, <2>2 DEF ValueInv
  <2>4. QED  BY <1>2, <2>2, <2>3 DEF PrintTable, ValueInv
<1>3. QED  BY <1>1, <1>2

\* Whatever programs are built, every number the calculator handles is an int:
\* sums and products wrap, and the one quotient that would not fit is never
\* formed.
THEOREM ValuesAreInts ==
  ASSUME NEW CONSTANT Trees, WellFormed(Trees)
  PROVE  Spec => []TypeOK
<1>1. Init => ValueInv(Trees)
  BY InitValues
<1>2. ValueInv(Trees) /\ [Next]_vars => ValueInv(Trees)'
  <2> SUFFICES ASSUME ValueInv(Trees), [Next]_vars PROVE ValueInv(Trees)'
    OBVIOUS
  <2>1. CASE UNCHANGED vars
    BY <2>1 DEF vars, ValueInv
  <2>2. CASE Execute \/ PrintTable
    BY <2>2, MainStep
  <2>3. CASE stack # <<>> /\ ProgramStep
    BY <2>3, ExpressionStep, BinaryStep, AssignmentStep, ControlStep DEF ProgramStep
  <2>4. QED  BY <2>1, <2>2, <2>3 DEF Next, Exited
<1>3. ValueInv(Trees) => TypeOK
  BY InvTypes
<1>4. QED  BY <1>1, <1>2, <1>3, PTL DEF Spec
=============================================================================
