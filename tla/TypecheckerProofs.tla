-------------------------- MODULE TypecheckerProofs --------------------------
(* The type checker, for every set of programs whose trees are built of the *)
(* classes of ast.hh.                                                       *)
EXTENDS Typechecker, TLAPS, WellFoundedInduction, FiniteSetTheorems

\* What the proofs need of the trees: declarations and functions have types,
\* children are trees, there are as many as the steps use, programs are never
\* children and functions only of programs.
Shaped(Trees) ==
  /\ \A p \in Batches : p \in Seq({n \in Trees : n.kind = "PROGRAM"})
  /\ \A n \in Trees :
       /\ n.ty \in Types
       /\ n.decls \in Seq(Declarations)
       /\ n.kids \in Seq(Trees)
       /\ \A k \in DOMAIN n.kids : /\ n.kids[k].kind # "PROGRAM"
                                   /\ n.kids[k].kind = "FUNCTION" => n.kind = "PROGRAM"
       /\ n.kind \in {"ASSIGN", "BLOCK", "RETURN", "FUNCTION"} => Len(n.kids) = 1
       /\ n.kind \in {"BINARY", "LOOP"} => Len(n.kids) = 2
       /\ n.kind = "BRANCH" => Len(n.kids) = 3
       /\ n.kind = "PROGRAM" => Len(n.kids) >= 1

LEMMA TreesShaped == ASSUME NEW Trees, WellFormed(Trees) PROVE Shaped(Trees)
<1>1. ASSUME NEW n \in Trees
      PROVE  /\ \A k \in DOMAIN n.kids : /\ n.kids[k].kind # "PROGRAM"
                                         /\ n.kids[k].kind = "FUNCTION" => n.kind = "PROGRAM"
             /\ n.kind \in {"ASSIGN", "BLOCK", "RETURN", "FUNCTION"} => Len(n.kids) = 1
             /\ n.kind \in {"BINARY", "LOOP"} => Len(n.kids) = 2
             /\ n.kind = "BRANCH" => Len(n.kids) = 3
             /\ n.kind = "PROGRAM" => Len(n.kids) >= 1
  <2>1. n.kids \in Seq(Trees) /\ Members(n)
    BY DEF WellFormed
  <2>2. ASSUME NEW k \in DOMAIN n.kids
        PROVE  /\ n.kids[k].kind # "PROGRAM"
               /\ n.kids[k].kind = "FUNCTION" => n.kind = "PROGRAM"
    <3>1. k \in 1 .. Len(n.kids) /\ Len(n.kids) \in Nat
      BY <2>1
    <3>2. CASE n.kind = "PROGRAM"
      <4>1. k = Len(n.kids) \/ k \in 1 .. Len(n.kids) - 1
        BY <3>1
      <4>2. QED  BY <4>1, <3>2, <2>1 DEF Members, Statements
    <3>3. CASE n.kind # "PROGRAM"
      <4>1. n.kids[k].kind \in Expressions \cup Statements
        BY <2>1, <3>1, <3>3 DEF Members, Statements
      <4>2. QED  BY <4>1 DEF Expressions, Statements
    <3>4. QED  BY <3>2, <3>3
  <2>3. QED  BY <2>1, <2>2 DEF Members
<1>2. QED  BY <1>1 DEF WellFormed, Shaped

Roots(Trees)  == {n \in Trees : n.kind = "PROGRAM"}
Frames(Trees) == [node : Trees, at : Nat, acc : SUBSET Types]
Kinds         == {"string", "cstr", "bad_cast"}
Messages      == {"none", "unbound", "operand", "operands", "arity", "argument", "assign", "branch",
                  "condition", "repeat", "many", "return", "undefined"}
Ends          == {"accepted", "reported", "terminated"}
Scopes        == UNION {[S -> Types] : S \in SUBSET STRING}

\* A frame that waits for a call relies on what was found before it; fs is the
\* functionEnv.
Consistent(f, fs) ==
  /\ f.node.kind = "BRANCH" /\ f.at = 1 => f.node.kids[1].kind = "BINARY"
  /\ f.node.kind = "FUNCTIONCALL" /\ f.at > 0 => f.node.name \in DOMAIN fs

\* TypeOK as an inductive invariant: the program is at the bottom of the stack
\* and nowhere else, so that returns never empty it, while one is checked its
\* verdict is still to come, and when it is entered there is one empty scope.
ShapeInv(Trees) ==
  /\ testcases \in Seq(Roots(Trees))
  /\ verdicts \in Seq([end : Ends, msg : Messages])
  /\ Len(verdicts) <= Len(testcases)
  /\ mode # "idle" => Len(verdicts) < Len(testcases)
  /\ scopes \in Seq(Scopes)
  /\ mode = "call" /\ Len(stack) = 1 => scopes = <<NoMapping>>
  /\ \A f \in DOMAIN functions : functions[f].ret \in Types
  /\ stack \in Seq(Frames(Trees))
  /\ \A i \in 1 .. Len(stack) : /\ stack[i].node.kind = "PROGRAM" <=> i = 1
                                /\ Consistent(stack[i], functions)
  /\ mode \in {"idle", "call", "return", "throw"}
  /\ stack = <<>> <=> mode = "idle"
  /\ result \in SUBSET Types
  /\ thrown \in [kind : Kinds \cup {"none"}, msg : Messages]

LEMMA ShapeTypes == ASSUME NEW Trees, ShapeInv(Trees) PROVE TypeOK
<1>1. ASSUME NEW i \in DOMAIN scopes, NEW v \in DOMAIN scopes[i] PROVE scopes[i][v] \in Types
  <2>1. scopes[i] \in Scopes
    BY DEF ShapeInv
  <2>2. QED  BY <2>1 DEF Scopes
<1>2. QED  BY <1>1 DEF ShapeInv, TypeOK, Kinds

-----------------------------------------------------------------------------
(* Environments *)

LEMMA Greatest ==
  ASSUME NEW n \in Nat, NEW S \in SUBSET (1 .. n), S # {}
  PROVE  \E i \in S : \A j \in S : j <= i
<1> DEFINE T == {m \in Nat : n - m \in S}
<1>1. T # {}
  <2>1. PICK i \in S : TRUE
    OBVIOUS
  <2>2. n - i \in T
    <3>1. n - i \in Nat /\ n - (n - i) = i
      OBVIOUS
    <3>2. QED  BY <3>1
  <2>3. QED  BY <2>2
<1>2. PICK x \in T : \A y \in T : ~(<<y, x>> \in OpToRel(<, Nat))
  <2>1. T \subseteq Nat
    OBVIOUS
  <2> HIDE DEF T
  <2>2. QED  BY <1>1, <2>1, NatLessThanWellFounded, WFMin
<1>3. \A y \in T : ~(y < x)
  BY <1>2 DEF OpToRel
<1>4. \A j \in S : n - j \in T
  <2>1. \A j \in S : n - j \in Nat /\ n - (n - j) = j
    OBVIOUS
  <2>2. QED  BY <2>1
<1>5. \A j \in S : j <= n - x
  BY <1>3, <1>4
<1>6. QED  BY <1>5

\* The innermost binding of a bound variable is a type.
LEMMA LookupType ==
  ASSUME scopes \in Seq(Scopes), NEW v, Bound(v)
  PROVE  Lookup(v) \in Types
<1>1. Holders(v) \in SUBSET (1 .. Len(scopes)) /\ Holders(v) # {}
  BY DEF Bound, Holders
<1>2. \E i \in Holders(v) : \A j \in Holders(v) : j <= i
  <2>1. Len(scopes) \in Nat
    OBVIOUS
  <2> HIDE DEF Holders
  <2>2. QED  BY <1>1, <2>1, Greatest
<1>3. PICK k \in Holders(v) : k = CHOOSE i \in Holders(v) : \A j \in Holders(v) : j <= i
  BY <1>2
<1>4. v \in DOMAIN scopes[k] /\ scopes[k] \in Scopes
  BY <1>1 DEF Holders
<1>5. QED  BY <1>3, <1>4 DEF Lookup, Scopes

\* What addMapping enters are declared names with their types.
LEMMA MappingType ==
  ASSUME NEW decls \in Seq(Declarations)
  PROVE  Mapping(decls) \in Scopes
<1>1. ASSUME NEW k \in Mapped(decls)
      PROVE  decls[k].name \in STRING /\ decls[k].ty \in Types
  <2>1. k \in 1 .. Len(decls)
    BY DEF Mapped
  <2>2. decls[k] \in Declarations
    BY <2>1
  <2>3. QED  BY <2>2 DEF Declarations
<1> DEFINE S == {decls[i].name : i \in Mapped(decls)}
<1>2. S \subseteq STRING
  BY <1>1
<1>3. ASSUME NEW v \in S
      PROVE  decls[CHOOSE i \in Mapped(decls) : decls[i].name = v].ty \in Types
  <2>1. \E k \in Mapped(decls) : decls[k].name = v
    OBVIOUS
  <2>2. (CHOOSE i \in Mapped(decls) : decls[i].name = v) \in Mapped(decls)
    BY <2>1
  <2>3. QED  BY <2>2, <1>1
<1>4. Mapping(decls) \in [S -> Types]
  BY <1>3 DEF Mapping
<1>5. QED  BY <1>2, <1>4 DEF Scopes

LEMMA NoMappingType == NoMapping \in Scopes
<1>1. NoMapping \in [{} -> Types]
  BY DEF NoMapping
<1>2. QED  BY <1>1 DEF Scopes

LEMMA FrontSeq == ASSUME NEW S, NEW s \in Seq(S) PROVE Front(s) \in Seq(S)
<1>1. CASE s = <<>>
  <2>1. Front(s) = SubSeq(s, 1, -1)
    BY <1>1 DEF Front
  <2>2. SubSeq(s, 1, -1) = <<>>
    BY <1>1
  <2>3. QED  BY <2>1, <2>2
<1>2. CASE s # <<>>
  BY <1>2 DEF Front
<1>3. QED  BY <1>1, <1>2

LEMMA FrontType ==
  ASSUME NEW S, NEW s \in Seq(S), s # <<>>
  PROVE  /\ Front(s) \in Seq(S) /\ Len(Front(s)) = Len(s) - 1
         /\ \A i \in 1 .. Len(s) - 1 : Front(s)[i] = s[i]
<1>1. Len(s) \in Nat \ {0}
  OBVIOUS
<1>2. Front(s) = [i \in 1 .. Len(s) - 1 |-> s[i]]
  BY <1>1 DEF Front
<1>3. QED  BY <1>1, <1>2


-----------------------------------------------------------------------------
(* Calls, returns and exceptions *)

\* What every step does to the environments: they keep their types, and no
\* function is forgotten.
EnvStep ==
  /\ scopes' \in Seq(Scopes)
  /\ \A f \in DOMAIN functions' : functions'[f].ret \in Types
  /\ DOMAIN functions \subseteq DOMAIN functions'

LEMMA SameEnv == ASSUME NEW Trees, ShapeInv(Trees), UNCHANGED env PROVE EnvStep
BY DEF ShapeInv, env, EnvStep

LEMMA TopFrame ==
  ASSUME NEW Trees, ShapeInv(Trees), mode # "idle"
  PROVE  /\ Len(stack) \in Nat \ {0} /\ stack # <<>>
         /\ Top = stack[Len(stack)] /\ Top \in Frames(Trees)
         /\ Node \in Trees /\ Top.node = Node
         /\ Consistent(Top, functions)
         /\ Node.kind = "PROGRAM" <=> Len(stack) = 1
         /\ \A k \in Nat : At(k) \in Frames(Trees) /\ At(k).node = Node /\ At(k).at = k
<1>1. stack # <<>> /\ stack \in Seq(Frames(Trees)) /\ Len(stack) \in Nat \ {0}
  BY DEF ShapeInv
<1>2. Top = stack[Len(stack)]
  BY <1>1 DEF Top, Last
<1>3. Top \in Frames(Trees)
  BY <1>1, <1>2
<1>4. Consistent(Top, functions) /\ (Top.node.kind = "PROGRAM" <=> Len(stack) = 1)
  <2>1. Len(stack) \in 1 .. Len(stack)
    BY <1>1
  <2>2. /\ stack[Len(stack)].node.kind = "PROGRAM" <=> Len(stack) = 1
        /\ Consistent(stack[Len(stack)], functions)
    BY <2>1 DEF ShapeInv
  <2>3. QED  BY <2>2, <1>2
<1>5. Node \in Trees /\ Top.node = Node
  BY <1>3 DEF Node, Frames
<1>6. \A k \in Nat : At(k) \in Frames(Trees) /\ At(k).node = Node /\ At(k).at = k
  BY <1>3, <1>5 DEF At, Frames
<1>7. QED  BY <1>1, <1>2, <1>3, <1>4, <1>5, <1>6

LEMMA CallKeeps ==
  ASSUME NEW Trees, ShapeInv(Trees), mode # "idle", EnvStep,
         NEW f \in Frames(Trees), f.node = Node, Consistent(f, functions'),
         NEW n \in Trees, n.kind # "PROGRAM", Call(f, n)
  PROVE  ShapeInv(Trees)'
<1>1. /\ stack # <<>> /\ stack \in Seq(Frames(Trees)) /\ Len(stack) \in Nat \ {0}
      /\ Node.kind = "PROGRAM" <=> Len(stack) = 1
  BY TopFrame DEF ShapeInv
<1>2. Frame(n) \in Frames(Trees) /\ Frame(n).node = n /\ Frame(n).at = 0
  BY DEF Frame, Frames
<1>3. /\ Front(stack) \in Seq(Frames(Trees)) /\ Len(Front(stack)) = Len(stack) - 1
      /\ \A i \in 1 .. Len(stack) - 1 : Front(stack)[i] = stack[i]
  BY <1>1, FrontType
<1>4. /\ stack' \in Seq(Frames(Trees)) /\ Len(stack') = Len(stack) + 1
      /\ \A i \in 1 .. Len(stack) - 1 : stack'[i] = stack[i]
      /\ stack'[Len(stack)] = f /\ stack'[Len(stack) + 1] = Frame(n)
  BY <1>1, <1>2, <1>3 DEF Call
<1>5. ASSUME NEW i \in 1 .. Len(stack')
      PROVE  /\ stack'[i].node.kind = "PROGRAM" <=> i = 1
             /\ Consistent(stack'[i], functions')
  <2>1. CASE i \in 1 .. Len(stack) - 1
    <3>1. /\ stack[i].node.kind = "PROGRAM" <=> i = 1
          /\ Consistent(stack[i], functions)
      BY <1>1, <2>1 DEF ShapeInv
    <3>2. QED  BY <3>1, <2>1, <1>4 DEF EnvStep, Consistent
  <2>2. CASE i = Len(stack)
    BY <2>2, <1>1, <1>4
  <2>3. CASE i = Len(stack) + 1
    BY <2>3, <1>1, <1>2, <1>4 DEF Consistent
  <2>4. QED  BY <2>1, <2>2, <2>3, <1>1, <1>4
<1>6. stack' # <<>>
  BY <1>1, <1>4
<1>7. QED  BY <1>4, <1>5, <1>6 DEF Call, ShapeInv, EnvStep

LEMMA ReturnKeeps ==
  ASSUME NEW Trees, ShapeInv(Trees), mode # "idle", Node.kind # "PROGRAM", EnvStep,
         NEW types \in SUBSET Types, Return(types)
  PROVE  ShapeInv(Trees)'
<1>1. /\ stack \in Seq(Frames(Trees)) /\ Len(stack) \in Nat \ {0, 1}
  BY TopFrame DEF ShapeInv
<1>2. /\ stack' \in Seq(Frames(Trees)) /\ Len(stack') = Len(stack) - 1
      /\ \A i \in 1 .. Len(stack) - 1 : stack'[i] = stack[i]
  BY <1>1, FrontType DEF Return
<1>3. ASSUME NEW i \in 1 .. Len(stack')
      PROVE  /\ stack'[i].node.kind = "PROGRAM" <=> i = 1
             /\ Consistent(stack'[i], functions')
  <2>1. i \in 1 .. Len(stack)
    BY <1>1, <1>2
  <2>2. /\ stack[i].node.kind = "PROGRAM" <=> i = 1
        /\ Consistent(stack[i], functions)
    BY <2>1 DEF ShapeInv
  <2>3. QED  BY <2>2, <1>2 DEF EnvStep, Consistent
<1>4. stack' # <<>>
  BY <1>1, <1>2
<1>5. QED  BY <1>2, <1>3, <1>4 DEF Return, ShapeInv, EnvStep

LEMMA ThrowKeeps ==
  ASSUME NEW Trees, ShapeInv(Trees), mode # "idle", EnvStep,
         NEW kind \in Kinds, NEW msg \in Messages, Throw(kind, msg)
  PROVE  ShapeInv(Trees)'
<1>1. ASSUME NEW i \in 1 .. Len(stack)
      PROVE  /\ stack[i].node.kind = "PROGRAM" <=> i = 1
             /\ Consistent(stack[i], functions')
  <2>1. /\ stack[i].node.kind = "PROGRAM" <=> i = 1
        /\ Consistent(stack[i], functions)
    BY DEF ShapeInv
  <2>2. QED  BY <2>1 DEF EnvStep, Consistent
<1>2. thrown' \in [kind : Kinds \cup {"none"}, msg : Messages]
  BY DEF Throw
<1>3. QED  BY <1>1, <1>2 DEF Throw, ShapeInv, EnvStep

LEMMA VerdictKeeps ==
  ASSUME NEW Trees, ShapeInv(Trees), mode # "idle", EnvStep,
         NEW end \in Ends, NEW msg \in Messages, Verdict(end, msg)
  PROVE  ShapeInv(Trees)'
<1>1. /\ verdicts' \in Seq([end : Ends, msg : Messages])
      /\ Len(verdicts') = Len(verdicts) + 1 /\ Len(verdicts) \in Nat
  <2>1. [end |-> end, msg |-> msg] \in [end : Ends, msg : Messages]
    OBVIOUS
  <2> DEFINE v == [end |-> end, msg |-> msg]
             V == [end : Ends, msg : Messages]
  <2>2. v \in V /\ verdicts \in Seq(V) /\ verdicts' = Append(verdicts, v)
    BY <2>1 DEF Verdict, ShapeInv
  <2> HIDE DEF v, V
  <2>3. verdicts' \in Seq(V) /\ Len(verdicts') = Len(verdicts) + 1 /\ Len(verdicts) \in Nat
    BY <2>2
  <2>4. QED  BY <2>3 DEF V
<1>2. Len(testcases) \in Nat
  BY DEF ShapeInv
<1>3. stack' = <<>> /\ stack' \in Seq(Frames(Trees))
  BY DEF Verdict
<1>4. QED  BY <1>1, <1>2, <1>3 DEF Verdict, ShapeInv, EnvStep

-----------------------------------------------------------------------------
(* Steps *)

Outer == {"PROGRAM", "FUNCTION"}

LEMMA ChildIsTree ==
  ASSUME NEW Trees, Shaped(Trees), NEW n \in Trees, NEW k \in DOMAIN n.kids
  PROVE  /\ n.kids[k] \in Trees /\ n.kids[k].kind # "PROGRAM"
         /\ n.kind # "PROGRAM" => n.kids[k].kind \notin Outer
<1>1. /\ n.kids \in Seq(Trees) /\ n.kids[k].kind # "PROGRAM"
      /\ n.kids[k].kind = "FUNCTION" => n.kind = "PROGRAM"
  BY DEF Shaped
<1>2. QED  BY <1>1 DEF Outer

\* What the steps of expressions and most statements have in common: a call,
\* a return or a throw that leaves the environments alone.
Plain(Trees) ==
  /\ mode \in {"call", "return"} /\ UNCHANGED env
  /\ Node.kind \notin {"PROGRAM", "FUNCTION", "BLOCK"}
  /\ \/ \E f \in Frames(Trees), n \in Trees :
          /\ f.node = Node /\ f.at > 0 /\ Consistent(f, functions)
          /\ n.kind \notin Outer /\ Call(f, n)
     \/ \E types \in SUBSET Types : Return(types)
     \/ \E kind \in Kinds, msg \in Messages : Throw(kind, msg)

LEMMA PlainKeeps == ASSUME NEW Trees, ShapeInv(Trees), Plain(Trees) PROVE ShapeInv(Trees)'
<1>1. mode # "idle" /\ EnvStep /\ functions' = functions
  BY SameEnv DEF Plain, env
<1>2. Node.kind # "PROGRAM"
  BY DEF Plain
<1>3. ASSUME NEW f \in Frames(Trees), NEW n \in Trees, f.node = Node, Consistent(f, functions),
             n.kind \notin Outer, Call(f, n)
      PROVE  ShapeInv(Trees)'
  BY <1>1, <1>3, CallKeeps DEF Outer
<1>4. ASSUME NEW types \in SUBSET Types, Return(types) PROVE ShapeInv(Trees)'
  BY <1>1, <1>2, <1>4, ReturnKeeps
<1>5. ASSUME NEW kind \in Kinds, NEW msg \in Messages, Throw(kind, msg) PROVE ShapeInv(Trees)'
  BY <1>1, <1>5, ThrowKeeps
<1>6. QED  BY <1>3, <1>4, <1>5 DEF Plain

LEMMA PlainCall ==
  ASSUME NEW Trees, mode \in {"call", "return"}, UNCHANGED env,
         Node.kind \notin {"PROGRAM", "FUNCTION", "BLOCK"},
         NEW f \in Frames(Trees), f.node = Node, f.at > 0, Consistent(f, functions),
         NEW n \in Trees, n.kind \notin Outer, Call(f, n)
  PROVE  Plain(Trees)
BY DEF Plain

LEMMA PlainReturn ==
  ASSUME NEW Trees, mode \in {"call", "return"}, UNCHANGED env,
         Node.kind \notin {"PROGRAM", "FUNCTION", "BLOCK"},
         NEW types \in SUBSET Types, Return(types)
  PROVE  Plain(Trees)
BY DEF Plain

LEMMA PlainThrow ==
  ASSUME NEW Trees, mode \in {"call", "return"}, UNCHANGED env,
         Node.kind \notin {"PROGRAM", "FUNCTION", "BLOCK"},
         NEW kind \in Kinds, NEW msg \in Messages, Throw(kind, msg)
  PROVE  Plain(Trees)
BY DEF Plain

\* The k-th child is called from the frame as it is.
LEMMA NextChild ==
  ASSUME NEW Trees, Shaped(Trees), ShapeInv(Trees), mode \in {"call", "return"},
         UNCHANGED env, Node.kind \notin {"PROGRAM", "FUNCTION", "BLOCK", "BRANCH", "FUNCTIONCALL"},
         NEW k \in DOMAIN Node.kids, NEW types \in SUBSET Types,
         NEW f \in {At(k), [At(k) EXCEPT !.acc = types]}, Call(f, Node.kids[k])
  PROVE  Plain(Trees)
<1>1. Node \in Trees /\ k \in Nat \ {0}
  <2>1. Node \in Trees
    BY TopFrame
  <2>2. QED  BY <2>1 DEF Shaped
<1>2. At(k) \in Frames(Trees) /\ At(k).node = Node /\ At(k).at = k
  BY <1>1, TopFrame
<1>3. f \in Frames(Trees) /\ f.node = Node /\ f.at > 0
  BY <1>1, <1>2 DEF Frames
<1>4. Consistent(f, functions)
  BY <1>3 DEF Consistent
<1>5. Node.kids[k] \in Trees /\ Node.kids[k].kind \notin Outer
  BY <1>1, ChildIsTree
<1>6. QED  BY <1>3, <1>4, <1>5, PlainCall

LEMMA LeafStep ==
  ASSUME NEW Trees, Shaped(Trees), ShapeInv(Trees), TypecheckLeaf \/ TypecheckVar
  PROVE  Plain(Trees)
<1>1. CASE TypecheckLeaf
  <2>1. PICK kind \in {"NUM", "EMPTY", "SKIP"} :
           Enter(kind) /\ Return({TypeOfLeaf[kind]})
    BY <1>1 DEF TypecheckLeaf, TypeOfLeaf
  <2>2. {TypeOfLeaf[kind]} \in SUBSET Types
    BY DEF TypeOfLeaf, Types
  <2>3. QED  BY <2>1, <2>2, <1>1, PlainReturn DEF Enter, TypecheckLeaf
<1>2. CASE TypecheckVar /\ Bound(Node.name) /\ Return({Lookup(Node.name)})
  <2>1. {Lookup(Node.name)} \in SUBSET Types
    BY <1>2, LookupType DEF ShapeInv
  <2>2. QED  BY <2>1, <1>2, PlainReturn DEF Enter, TypecheckVar
<1>3. CASE TypecheckVar /\ Throw("string", "unbound")
  <2>1. "string" \in Kinds /\ "unbound" \in Messages
    BY DEF Kinds, Messages
  <2>2. mode \in {"call", "return"} /\ UNCHANGED env /\ Node.kind \notin {"PROGRAM", "FUNCTION", "BLOCK"}
    BY <1>3 DEF Enter, TypecheckVar
  <2>3. QED  BY <2>1, <2>2, <1>3, PlainThrow
<1>4. QED  BY <1>1, <1>2, <1>3 DEF TypecheckVar

LEMMA BinaryStep ==
  ASSUME NEW Trees, Shaped(Trees), ShapeInv(Trees), TypecheckBinaryExpression
  PROVE  Plain(Trees)
<1>1. mode \in {"call", "return"} /\ Node.kind = "BINARY" /\ UNCHANGED env
  BY DEF TypecheckBinaryExpression, Enter, Resumed
<1>2. DOMAIN Node.kids = {1, 2}
  <2>1. Node.kids \in Seq(Trees) /\ Len(Node.kids) = 2
    BY <1>1, TopFrame DEF Shaped
  <2>2. QED  BY <2>1
<1>3. ASSUME NEW k \in {1, 2}, Call(At(k), Node.kids[k]) PROVE Plain(Trees)
  BY <1>1, <1>2, <1>3, NextChild
<1>4. Return({"INT"}) => Plain(Trees)
  BY <1>1, PlainReturn DEF Types
<1>5. Throw("cstr", "operand") => Plain(Trees)
  <2>1. "cstr" \in Kinds /\ "operand" \in Messages
    BY DEF Kinds, Messages
  <2>2. QED  BY <1>1, <2>1, PlainThrow
<1>6. QED  BY <1>3, <1>4, <1>5 DEF TypecheckBinaryExpression

LEMMA FunctionCallStep ==
  ASSUME NEW Trees, Shaped(Trees), ShapeInv(Trees), TypecheckFunctionCall
  PROVE  Plain(Trees)
<1>1. mode \in {"call", "return"} /\ Node.kind = "FUNCTIONCALL" /\ UNCHANGED env
  BY DEF TypecheckFunctionCall, Enter, Resumed
<1>2. Node \in Trees /\ Top.node = Node /\ Consistent(Top, functions) /\ Node.kids \in Seq(Trees)
  BY <1>1, TopFrame DEF Shaped
<1>3. ASSUME NEW k \in 0 .. Len(Node.kids), Node.name \in DOMAIN functions, NextArgument(k)
      PROVE  Plain(Trees)
  <2>1. CASE k = Len(Node.kids)
    <3>1. {functions[Node.name].ret} \in SUBSET Types
      BY <1>3 DEF ShapeInv
    <3>2. Return({functions[Node.name].ret})
      BY <1>3, <2>1 DEF NextArgument
    <3>3. QED  BY <3>1, <3>2, <1>1, PlainReturn
  <2>2. CASE k # Len(Node.kids)
    <3>1. k + 1 \in DOMAIN Node.kids /\ k + 1 \in Nat
      BY <1>2, <2>2
    <3>2. Call(At(k + 1), Node.kids[k + 1])
      BY <1>3, <2>2 DEF NextArgument
    <3>3. At(k + 1) \in Frames(Trees) /\ At(k + 1).node = Node /\ At(k + 1).at > 0
      <4>1. k + 1 > 0
        OBVIOUS
      <4>2. QED  BY <3>1, <4>1, <1>1, TopFrame
    <3>4. Consistent(At(k + 1), functions)
      BY <3>3, <1>1, <1>3 DEF Consistent
    <3>5. Node.kids[k + 1] \in Trees /\ Node.kids[k + 1].kind \notin Outer
      BY <3>1, <1>1, <1>2, ChildIsTree
    <3>6. QED  BY <3>2, <3>3, <3>4, <3>5, <1>1, PlainCall
  <2>3. QED  BY <2>1, <2>2
<1>4. ASSUME NEW msg \in {"unbound", "arity", "argument"}, Throw("string", msg)
      PROVE  Plain(Trees)
  <2>1. "string" \in Kinds /\ msg \in Messages
    BY DEF Kinds, Messages
  <2>2. mode \in {"call", "return"} /\ UNCHANGED env /\ Node.kind \notin {"PROGRAM", "FUNCTION", "BLOCK"}
    BY <1>1
  <2>3. QED  BY <2>1, <2>2, <1>4, PlainThrow
<1>5. ASSUME NEW k \in DOMAIN Node.kids, Resumed("FUNCTIONCALL", k), NextArgument(k)
      PROVE  Plain(Trees)
  <2>1. k \in 1 .. Len(Node.kids)
    BY <1>2
  <2>2. Node.name \in DOMAIN functions
    BY <2>1, <1>1, <1>2, <1>5 DEF Consistent, Resumed
  <2>3. QED  BY <2>1, <2>2, <1>3, <1>5
<1>6. 0 \in 0 .. Len(Node.kids)
  BY <1>2
<1>7. QED  BY <1>3, <1>4, <1>5, <1>6 DEF TypecheckFunctionCall

LEMMA AssignmentStep ==
  ASSUME NEW Trees, Shaped(Trees), ShapeInv(Trees), TypecheckAssignment \/ TypecheckReturn
  PROVE  Plain(Trees)
<1>1. mode \in {"call", "return"} /\ Node.kind \in {"ASSIGN", "RETURN"} /\ UNCHANGED env
  BY DEF TypecheckAssignment, TypecheckReturn, Enter, Resumed
<1>2. 1 \in DOMAIN Node.kids
  <2>1. Node.kids \in Seq(Trees) /\ Len(Node.kids) = 1
    BY <1>1, TopFrame DEF Shaped
  <2>2. QED  BY <2>1
<1>3. Call(At(1), Node.kids[1]) => Plain(Trees)
  BY <1>1, <1>2, NextChild
<1>4. Return({"NIL"}) => Plain(Trees)
  BY <1>1, PlainReturn DEF Types
<1>5. Return(result) => Plain(Trees)
  <2>1. result \in SUBSET Types
    BY DEF ShapeInv
  <2>2. QED  BY <1>1, <2>1, PlainReturn
<1>6. Throw("string", "unbound") \/ Throw("cstr", "assign") => Plain(Trees)
  <2>1. "string" \in Kinds /\ "unbound" \in Messages /\ "cstr" \in Kinds /\ "assign" \in Messages
    BY DEF Kinds, Messages
  <2>2. mode \in {"call", "return"} /\ UNCHANGED env /\ Node.kind \notin {"PROGRAM", "FUNCTION", "BLOCK"}
    BY <1>1
  <2>3. QED  BY <2>1, <2>2, PlainThrow
<1>7. QED  BY <1>3, <1>4, <1>5, <1>6 DEF TypecheckAssignment, TypecheckReturn

LEMMA LoopStep ==
  ASSUME NEW Trees, Shaped(Trees), ShapeInv(Trees), TypecheckLoop
  PROVE  Plain(Trees)
<1>1. mode \in {"call", "return"} /\ Node.kind = "LOOP" /\ UNCHANGED env
  BY DEF TypecheckLoop, Enter, Resumed
<1>2. DOMAIN Node.kids = {1, 2}
  <2>1. Node.kids \in Seq(Trees) /\ Len(Node.kids) = 2
    BY <1>1, TopFrame DEF Shaped
  <2>2. QED  BY <2>1
<1>3. ASSUME NEW k \in {1, 2}, Call(At(k), Node.kids[k]) PROVE Plain(Trees)
  BY <1>1, <1>2, <1>3, NextChild
<1>4. Return(result) => Plain(Trees)
  <2>1. result \in SUBSET Types
    BY DEF ShapeInv
  <2>2. QED  BY <1>1, <2>1, PlainReturn
<1>5. Throw("cstr", "condition") => Plain(Trees)
  <2>1. "cstr" \in Kinds /\ "condition" \in Messages
    BY DEF Kinds, Messages
  <2>2. QED  BY <1>1, <2>1, PlainThrow
<1>6. QED  BY <1>3, <1>4, <1>5 DEF TypecheckLoop

\* The condition's operands are grandchildren, and are there because the
\* condition is a BinaryExpression.
LEMMA BranchStep ==
  ASSUME NEW Trees, Shaped(Trees), ShapeInv(Trees), TypecheckBranch
  PROVE  Plain(Trees)
<1>1. mode \in {"call", "return"} /\ Node.kind = "BRANCH" /\ UNCHANGED env
  BY DEF TypecheckBranch, Enter, Resumed
<1>2. /\ Node \in Trees /\ Top.node = Node /\ Consistent(Top, functions)
      /\ Node.kids \in Seq(Trees) /\ Len(Node.kids) = 3
  BY <1>1, TopFrame DEF Shaped
<1>3. \A k \in {1, 2, 3} : Node.kids[k] \in Trees /\ Node.kids[k].kind \notin Outer
  BY <1>1, <1>2, ChildIsTree
<1>4. Node.kids[1].kind = "BINARY" =>
        \A k \in {1, 2} : /\ Node.kids[1].kids[k] \in Trees
                          /\ Node.kids[1].kids[k].kind \notin Outer
  <2> SUFFICES ASSUME Node.kids[1].kind = "BINARY", NEW k \in {1, 2}
               PROVE  /\ Node.kids[1].kids[k] \in Trees
                      /\ Node.kids[1].kids[k].kind \notin Outer
    OBVIOUS
  <2>1. Node.kids[1] \in Trees
    BY <1>3
  <2>2. Node.kids[1].kids \in Seq(Trees) /\ Len(Node.kids[1].kids) = 2
    BY <2>1 DEF Shaped
  <2>3. QED  BY <2>1, <2>2, ChildIsTree
<1>5. ASSUME NEW k \in 1 .. 4, NEW f \in {At(k), [At(k) EXCEPT !.acc = result]},
             k = 1 => Node.kids[1].kind = "BINARY",
             NEW n \in Trees, n.kind \notin Outer, Call(f, n)
      PROVE  Plain(Trees)
  <2>1. At(k) \in Frames(Trees) /\ At(k).node = Node /\ At(k).at = k /\ result \in SUBSET Types
    <3>1. k \in Nat
      OBVIOUS
    <3>2. At(k) \in Frames(Trees) /\ At(k).node = Node /\ At(k).at = k
      BY <3>1, <1>1, TopFrame
    <3>3. QED  BY <3>2 DEF ShapeInv
  <2>2. f \in Frames(Trees) /\ f.node = Node /\ f.at = k
    BY <2>1 DEF Frames
  <2>3. Consistent(f, functions)
    BY <2>2, <1>1, <1>5 DEF Consistent
  <2>4. QED  BY <2>2, <2>3, <1>1, <1>5, PlainCall
<1>6. CASE Enter("BRANCH")
  <2>1. CASE Node.kids[1].kind = "BINARY" /\ Call(At(1), Node.kids[1].kids[1])
    BY <2>1, <1>4, <1>5
  <2>2. CASE Throw("bad_cast", "branch")
    <3>1. "bad_cast" \in Kinds /\ "branch" \in Messages
      BY DEF Kinds, Messages
    <3>2. QED  BY <3>1, <2>2, <1>1, PlainThrow
  <2>3. QED  BY <2>1, <2>2, <1>6 DEF TypecheckBranch, Enter, Resumed
<1>7. CASE mode = "return"
  <2>1. CASE Resumed("BRANCH", 1) /\ Call([At(2) EXCEPT !.acc = result], Node.kids[1].kids[2])
    <3>1. Node.kids[1].kind = "BINARY"
      BY <2>1, <1>1, <1>2 DEF Resumed, Consistent
    <3>2. QED  BY <3>1, <2>1, <1>4, <1>5
  <2>2. CASE Call(At(3), Node.kids[2])
    BY <2>2, <1>3, <1>5
  <2>3. CASE Throw("cstr", "operands")
    <3>1. "cstr" \in Kinds /\ "operands" \in Messages
      BY DEF Kinds, Messages
    <3>2. QED  BY <3>1, <2>3, <1>1, PlainThrow
  <2>4. CASE Call([At(4) EXCEPT !.acc = result], Node.kids[3])
    BY <2>4, <1>3, <1>5
  <2>5. CASE Return(Top.acc \cup result)
    <3>1. Top.acc \cup result \in SUBSET Types
      BY <1>1, TopFrame DEF ShapeInv, Frames
    <3>2. QED  BY <3>1, <2>5, <1>1, PlainReturn
  <2>6. QED  BY <2>1, <2>2, <2>3, <2>4, <2>5, <1>7 DEF TypecheckBranch, Enter
<1>8. QED  BY <1>6, <1>7 DEF TypecheckBranch, Resumed

LEMMA SequenceStep ==
  ASSUME NEW Trees, Shaped(Trees), ShapeInv(Trees), TypecheckSequence
  PROVE  Plain(Trees)
<1>1. mode \in {"call", "return"} /\ Node.kind = "SEQUENCE" /\ UNCHANGED env
  BY DEF TypecheckSequence, Enter, Resumed
<1>2. Node.kids \in Seq(Trees) /\ Top.acc \in SUBSET Types /\ result \in SUBSET Types
  BY <1>1, TopFrame DEF Shaped, ShapeInv, Frames
<1>3. ASSUME NEW k \in 0 .. Len(Node.kids), NEW types \in SUBSET Types, NextStatement(k, types)
      PROVE  Plain(Trees)
  <2>1. CASE k = Len(Node.kids)
    BY <2>1, <1>1, <1>3, PlainReturn DEF NextStatement
  <2>2. CASE k # Len(Node.kids)
    <3>1. k + 1 \in DOMAIN Node.kids
      BY <1>2, <2>2
    <3>2. QED  BY <3>1, <2>2, <1>1, <1>3, NextChild DEF NextStatement
  <2>3. QED  BY <2>1, <2>2
<1>4. PICK k \in 0 .. Len(Node.kids), types \in SUBSET Types : NextStatement(k, types)
  <2>1. 0 \in 0 .. Len(Node.kids) /\ DOMAIN Node.kids \subseteq 0 .. Len(Node.kids)
    BY <1>2
  <2>2. {} \in SUBSET Types /\ Top.acc \cup result \in SUBSET Types
    BY <1>2
  <2>3. QED  BY <2>1, <2>2 DEF TypecheckSequence
<1>5. QED  BY <1>3, <1>4

\* enterScope, with or without a declaration that repeats.
LEMMA OpenScopeKeeps ==
  ASSUME NEW Trees, Shaped(Trees), ShapeInv(Trees), mode # "idle",
         Node.kind \in {"BLOCK", "FUNCTION"}, OpenScope(Node.kids[1]),
         \A f \in DOMAIN functions' : functions'[f].ret \in Types,
         DOMAIN functions \subseteq DOMAIN functions'
  PROVE  ShapeInv(Trees)'
<1>1. /\ Node \in Trees /\ Node.decls \in Seq(Declarations)
      /\ Node.kids \in Seq(Trees) /\ Len(Node.kids) = 1
  BY TopFrame DEF Shaped
<1>2. EnvStep
  <2>1. scopes \in Seq(Scopes) /\ Mapping(Node.decls) \in Scopes
    BY <1>1, MappingType DEF ShapeInv
  <2>2. QED  BY <2>1 DEF OpenScope, EnvStep
<1>3. CASE Throw("string", "repeat")
  BY <1>2, <1>3, ThrowKeeps DEF Kinds, Messages
<1>4. CASE Call(At(1), Node.kids[1])
  <2>1. Node.kids[1] \in Trees /\ Node.kids[1].kind # "PROGRAM"
    BY <1>1, ChildIsTree
  <2>2. At(1) \in Frames(Trees) /\ At(1).node = Node
    BY TopFrame
  <2>3. Consistent(At(1), functions')
    BY <2>2 DEF Consistent
  <2>4. QED  BY <2>1, <2>2, <2>3, <1>2, <1>4, CallKeeps
<1>5. QED  BY <1>3, <1>4 DEF OpenScope

LEMMA CloseScopeKeeps ==
  ASSUME NEW Trees, ShapeInv(Trees), mode # "idle", Node.kind # "PROGRAM",
         CloseScope, UNCHANGED functions,
         NEW types \in SUBSET Types, Return(types)
  PROVE  ShapeInv(Trees)'
<1>1. EnvStep
  <2>1. scopes' \in Seq(Scopes)
    BY FrontSeq DEF CloseScope, ShapeInv
  <2>2. QED  BY <2>1 DEF EnvStep, ShapeInv
<1>2. QED  BY <1>1, ReturnKeeps

LEMMA WithFunctionType ==
  ASSUME NEW Trees, Shaped(Trees), ShapeInv(Trees), mode # "idle",
         functions' = WithFunction(Node)
  PROVE  /\ \A f \in DOMAIN functions' : functions'[f].ret \in Types
         /\ DOMAIN functions \subseteq DOMAIN functions'
<1>1. Signature(Node).ret \in Types
  BY TopFrame DEF Shaped, Signature
<1>2. DOMAIN functions' = DOMAIN functions \cup {Node.name}
  BY DEF WithFunction
<1>3. \A f \in DOMAIN functions' :
        functions'[f] = IF f = Node.name THEN Signature(Node) ELSE functions[f]
  BY DEF WithFunction
<1>4. QED  BY <1>1, <1>2, <1>3 DEF ShapeInv

LEMMA BlockStep ==
  ASSUME NEW Trees, Shaped(Trees), ShapeInv(Trees), TypecheckBlock
  PROVE  ShapeInv(Trees)'
<1>1. mode # "idle" /\ Node.kind = "BLOCK" /\ UNCHANGED functions /\ result \in SUBSET Types
  BY DEF TypecheckBlock, Enter, Resumed, env, ShapeInv
<1>2. OpenScope(Node.kids[1]) => ShapeInv(Trees)'
  BY <1>1, OpenScopeKeeps DEF ShapeInv
<1>3. CloseScope /\ Return(result) => ShapeInv(Trees)'
  BY <1>1, CloseScopeKeeps
<1>4. QED  BY <1>2, <1>3 DEF TypecheckBlock

LEMMA FunctionDefStep ==
  ASSUME NEW Trees, Shaped(Trees), ShapeInv(Trees), TypecheckFunctionDef
  PROVE  ShapeInv(Trees)'
<1>1. mode # "idle" /\ Node.kind = "FUNCTION"
  BY DEF TypecheckFunctionDef, Enter, Resumed
<1>2. ASSUME NEW msg \in {"repeat", "many", "return"}, Throw("string", msg), UNCHANGED env
      PROVE  ShapeInv(Trees)'
  BY <1>1, <1>2, SameEnv, ThrowKeeps DEF Kinds, Messages
<1>3. CASE functions' = WithFunction(Node) /\ OpenScope(Node.kids[1])
  BY <1>1, <1>3, WithFunctionType, OpenScopeKeeps
<1>4. CASE CloseScope /\ Return({}) /\ UNCHANGED functions
  BY <1>1, <1>4, CloseScopeKeeps
<1>5. QED  BY <1>2, <1>3, <1>4 DEF TypecheckFunctionDef, env

\* The scope that gets the program's declarations is the empty one of a new
\* Typechecker.
LEMMA AddedToNone ==
  ASSUME NEW decls
  PROVE  /\ Added(NoMapping, decls) = Mapping(decls)
         /\ Clashes(NoMapping, decls) = Repeats(decls)
<1>1. DOMAIN NoMapping = {}
  BY DEF NoMapping
<1>2. {i \in Mapped(decls) : \A j \in 1 .. i : decls[j].name \notin DOMAIN NoMapping} = Mapped(decls)
  BY <1>1
<1>3. DOMAIN Mapping(decls) = {decls[i].name : i \in Mapped(decls)}
  BY DEF Mapping
<1>4. Added(NoMapping, decls) = [v \in DOMAIN Mapping(decls) |-> Mapping(decls)[v]]
  BY <1>1, <1>2, <1>3 DEF Added
<1>5. Mapping(decls) = [v \in DOMAIN Mapping(decls) |-> Mapping(decls)[v]]
  BY DEF Mapping
<1>6. Clashes(NoMapping, decls) = Repeats(decls)
  BY <1>1 DEF Clashes, Repeats
<1>7. QED  BY <1>4, <1>5, <1>6

LEMMA ProgramCases ==
  ASSUME NEW Trees, ShapeInv(Trees), TypecheckProgram
  PROVE  \/ /\ Enter("PROGRAM") /\ scopes' = <<Mapping(Node.decls)>>
            /\ IF Repeats(Node.decls) THEN Throw("string", "repeat") ELSE Call(At(1), Node.kids[1])
         \/ /\ mode = "return" /\ UNCHANGED scopes
            /\ \E k \in DOMAIN Node.kids :
                 /\ Resumed("PROGRAM", k)
                 /\ IF k < Len(Node.kids) THEN Call(At(k + 1), Node.kids[k + 1])
                                           ELSE Verdict("accepted", "none")
<1>1. CASE Enter("PROGRAM")
  <2>1. Len(stack) = 1
    BY <1>1, TopFrame DEF Enter
  <2>2. scopes = <<NoMapping>>
    BY <1>1, <2>1 DEF Enter, ShapeInv
  <2>3. Last(scopes) = NoMapping /\ Front(scopes) = <<>>
    BY <2>2 DEF Last, Front
  <2>4. /\ scopes' = Append(Front(scopes), Added(Last(scopes), Node.decls))
        /\ IF Clashes(Last(scopes), Node.decls) THEN Throw("string", "repeat")
                                               ELSE Call(At(1), Node.kids[1])
    BY <1>1 DEF TypecheckProgram, Enter
  <2>5. scopes' = Append(<<>>, Mapping(Node.decls))
    BY <2>3, <2>4, AddedToNone
  <2>6. scopes' = <<Mapping(Node.decls)>>
    BY <2>5
  <2>7. QED  BY <1>1, <2>3, <2>4, <2>6, AddedToNone
<1>2. QED  BY <1>1 DEF TypecheckProgram

LEMMA ProgramStep ==
  ASSUME NEW Trees, Shaped(Trees), ShapeInv(Trees), TypecheckProgram
  PROVE  ShapeInv(Trees)'
<1>1. mode # "idle" /\ Node.kind = "PROGRAM" /\ UNCHANGED functions
  BY DEF TypecheckProgram, Enter, Resumed
<1>2. /\ Node \in Trees /\ Node.kids \in Seq(Trees) /\ Len(Node.kids) >= 1
      /\ Node.decls \in Seq(Declarations)
  BY <1>1, TopFrame DEF Shaped
<1>3. CASE scopes' = <<Mapping(Node.decls)>>
           /\ (Throw("string", "repeat") \/ Call(At(1), Node.kids[1]))
  <2>1. EnvStep
    <3>1. Mapping(Node.decls) \in Scopes
      BY <1>2, MappingType
    <3>2. QED  BY <3>1, <1>1, <1>3 DEF EnvStep, ShapeInv
  <2>2. CASE Throw("string", "repeat")
    BY <2>1, <2>2, <1>1, ThrowKeeps DEF Kinds, Messages
  <2>3. CASE Call(At(1), Node.kids[1])
    <3>1. Node.kids[1] \in Trees /\ Node.kids[1].kind # "PROGRAM"
      BY <1>2, ChildIsTree
    <3>2. At(1) \in Frames(Trees) /\ At(1).node = Node
      BY <1>1, TopFrame
    <3>3. Consistent(At(1), functions')
      BY <3>2, <1>1 DEF Consistent
    <3>4. QED  BY <3>1, <3>2, <3>3, <2>1, <2>3, <1>1, CallKeeps
  <2>4. QED  BY <2>2, <2>3, <1>3
<1>4. ASSUME UNCHANGED scopes, NEW k \in DOMAIN Node.kids,
             IF k < Len(Node.kids) THEN Call(At(k + 1), Node.kids[k + 1])
                                   ELSE Verdict("accepted", "none")
      PROVE  ShapeInv(Trees)'
  <2>1. UNCHANGED env
    BY <1>1, <1>4 DEF env
  <2>2. CASE k < Len(Node.kids)
    <3>1. k + 1 \in DOMAIN Node.kids
      BY <1>2, <2>2
    <3>2. At(k + 1) \in Frames(Trees) /\ At(k + 1).node = Node
      BY <3>1, <1>1, <1>2, TopFrame
    <3>3. Consistent(At(k + 1), functions')
      BY <3>2, <1>1 DEF Consistent
    <3>4. Node.kids[k + 1] \in Trees /\ Node.kids[k + 1].kind # "PROGRAM"
      BY <3>1, <1>2, ChildIsTree
    <3>5. QED  BY <3>2, <3>3, <3>4, <2>1, <2>2, <1>1, <1>4, SameEnv, CallKeeps
  <2>3. CASE ~(k < Len(Node.kids))
    BY <2>1, <2>3, <1>1, <1>4, SameEnv, VerdictKeeps DEF Ends, Messages
  <2>4. QED  BY <2>2, <2>3
<1>5. QED  BY <1>3, <1>4, ProgramCases

LEMMA UnwindStep ==
  ASSUME NEW Trees, ShapeInv(Trees), Unwind
  PROVE  ShapeInv(Trees)'
<1>1. mode = "throw" /\ EnvStep
  BY SameEnv DEF Unwind
<1>2. stack \in Seq(Frames(Trees)) /\ thrown.kind \in Kinds \cup {"none"} /\ thrown.msg \in Messages
  BY DEF ShapeInv
<1>3. CASE /\ Len(stack) > 1 /\ stack' = Front(stack)
           /\ thrown' = IF Node.kind = "FUNCTIONCALL" /\ thrown.kind = "string"
                        THEN [thrown EXCEPT !.msg = "undefined"] ELSE thrown
           /\ UNCHANGED <<testcases, verdicts, mode, result>>
  <2>1. /\ Len(stack) \in Nat /\ stack # <<>>
        /\ stack' \in Seq(Frames(Trees)) /\ Len(stack') = Len(stack) - 1
        /\ \A i \in 1 .. Len(stack) - 1 : stack'[i] = stack[i]
    BY <1>2, <1>3, FrontType
  <2>2. \A i \in 1 .. Len(stack') : /\ stack'[i].node.kind = "PROGRAM" <=> i = 1
                                   /\ Consistent(stack'[i], functions')
    <3> SUFFICES ASSUME NEW i \in 1 .. Len(stack')
                 PROVE  /\ stack'[i].node.kind = "PROGRAM" <=> i = 1
                        /\ Consistent(stack'[i], functions')
      OBVIOUS
    <3>1. i \in 1 .. Len(stack) /\ stack'[i] = stack[i]
      BY <2>1
    <3>2. QED  BY <3>1, <1>1 DEF ShapeInv, Consistent, EnvStep
  <2>3. thrown' \in [kind : Kinds \cup {"none"}, msg : Messages]
    <3>1. thrown \in [kind : Kinds \cup {"none"}, msg : Messages] /\ "undefined" \in Messages
      BY DEF ShapeInv, Messages
    <3>2. QED  BY <3>1, <1>3
  <2>4. stack' # <<>>
    BY <2>1, <1>3
  <2>5. QED  BY <1>3, <2>1, <2>2, <2>3, <2>4, <1>1 DEF ShapeInv, EnvStep
<1>4. CASE /\ Len(stack) = 1
           /\ Verdict(IF thrown.kind = "bad_cast" THEN "terminated" ELSE "reported", thrown.msg)
  <2>1. PICK end \in Ends : Verdict(end, thrown.msg)
    BY <1>4 DEF Ends
  <2>2. QED  BY <2>1, <1>1, <1>2, VerdictKeeps
<1>5. QED  BY <1>3, <1>4, Zenon DEF Unwind

LEMMA ExecuteStep ==
  ASSUME NEW Trees, ShapeInv(Trees), Execute
  PROVE  ShapeInv(Trees)'
<1>1. Len(verdicts) < Len(testcases) /\ Len(verdicts) + 1 \in DOMAIN testcases
  <2>1. Len(verdicts) \in Nat /\ Len(testcases) \in Nat
    BY DEF ShapeInv
  <2>2. QED  BY <2>1 DEF Execute, Done, ShapeInv
<1>2. PICK p \in Roots(Trees) : p = testcases[Len(verdicts) + 1]
  BY <1>1 DEF ShapeInv
<1>3. Frame(p) \in Frames(Trees) /\ Frame(p).node = p /\ Frame(p).at = 0 /\ p.kind = "PROGRAM"
  BY DEF Frame, Frames, Roots
<1>4. stack' \in Seq(Frames(Trees)) /\ Len(stack') = 1 /\ stack'[1] = Frame(p) /\ stack' # <<>>
  BY <1>2, <1>3 DEF Execute
<1>5. Consistent(Frame(p), functions')
  BY <1>3 DEF Consistent
<1>6. scopes' \in Seq(Scopes) /\ \A f \in DOMAIN functions' : functions'[f].ret \in Types
  BY NoMappingType DEF Execute, NoMapping
<1>7. QED  BY <1>1, <1>3, <1>4, <1>5, <1>6 DEF Execute, ShapeInv

LEMMA ShapeInit ==
  ASSUME NEW Trees, Shaped(Trees), Init
  PROVE  ShapeInv(Trees)
<1>1. testcases \in Seq(Roots(Trees))
  BY DEF Init, Shaped, Roots
<1>2. thrown \in [kind : Kinds \cup {"none"}, msg : Messages]
  BY DEF Init, Nothing, Messages
<1>3. DOMAIN functions = {}
  BY DEF Init, NoMapping
<1>4. Len(testcases) \in Nat
  BY <1>1
<1>5. QED  BY <1>1, <1>2, <1>3, <1>4 DEF Init, ShapeInv

LEMMA ShapeStep ==
  ASSUME NEW Trees, Shaped(Trees), ShapeInv(Trees), [Next]_vars
  PROVE  ShapeInv(Trees)'
<1>1. CASE UNCHANGED vars
  BY <1>1 DEF vars, env, ShapeInv, Consistent
<1>2. CASE Next
  BY <1>1, <1>2, ExecuteStep, PlainKeeps, LeafStep, BinaryStep, FunctionCallStep, AssignmentStep,
     BranchStep, LoopStep, SequenceStep, BlockStep, FunctionDefStep, ProgramStep, UnwindStep
  DEF Next, Exited
<1>3. QED  BY <1>1, <1>2

-----------------------------------------------------------------------------
(* Chains of scopes against stacks of calls *)

LEMMA DepthNext ==
  ASSUME NEW s, NEW i \in Nat
  PROVE  /\ Depth(s, i) \in Nat
         /\ Depth(s, 0) = 0
         /\ Depth(s, i + 1) = IF Opens(s[i + 1]) THEN Depth(s, i) + 1 ELSE Depth(s, i)
<1> DEFINE D(k) == {j \in 1 .. k : Opens(s[j])}
<1>1. IsFiniteSet(D(i)) /\ Cardinality(D(i)) \in Nat
  <2>1. IsFiniteSet(1 .. i)
    BY FS_Interval
  <2>2. D(i) \in SUBSET (1 .. i)
    OBVIOUS
  <2> HIDE DEF D
  <2>3. QED  BY <2>1, <2>2, FS_Subset, FS_CardinalityType
<1>2. D(0) = {}
  OBVIOUS
<1>3. D(i + 1) = IF Opens(s[i + 1]) THEN D(i) \cup {i + 1} ELSE D(i)
  <2>1. 1 .. i + 1 = (1 .. i) \cup {i + 1}
    OBVIOUS
  <2>2. QED  BY <2>1
<1>4. i + 1 \notin D(i)
  OBVIOUS
<1>5. /\ Depth(s, i) = Cardinality(D(i)) /\ Depth(s, 0) = Cardinality(D(0))
      /\ Depth(s, i + 1) = Cardinality(D(i + 1))
  BY DEF Depth
<1> HIDE DEF D
<1>6. Cardinality(D(i) \cup {i + 1}) = Cardinality(D(i)) + 1
  BY <1>1, <1>4, FS_AddElement
<1>7. Cardinality(D(0)) = 0
  BY <1>2, FS_EmptySet
<1>8. QED  BY <1>1, <1>3, <1>5, <1>6, <1>7

LEMMA DepthSame ==
  ASSUME NEW s, NEW t, NEW i \in Nat, \A j \in 1 .. i : Opens(s[j]) <=> Opens(t[j])
  PROVE  Depth(s, i) = Depth(t, i)
<1>1. {j \in 1 .. i : Opens(s[j])} = {j \in 1 .. i : Opens(t[j])}
  OBVIOUS
<1>2. QED  BY <1>1 DEF Depth

LEMMA DepthGrows ==
  ASSUME NEW s, NEW n \in Nat, NEW i \in 0 .. n
  PROVE  Depth(s, i) <= Depth(s, n)
<1> DEFINE D(k) == {j \in 1 .. k : Opens(s[j])}
<1>1. IsFiniteSet(1 .. n)
  BY FS_Interval
<1>2. D(n) \in SUBSET (1 .. n) /\ D(i) \in SUBSET D(n)
  OBVIOUS
<1>3. Depth(s, i) = Cardinality(D(i)) /\ Depth(s, n) = Cardinality(D(n))
  BY DEF Depth
<1> HIDE DEF D
<1>4. QED  BY <1>1, <1>2, <1>3, FS_Subset

\* The scopes of the frames that have one lie on the chain, those of the frames
\* below n below the scope of n.
LEMMA DepthInChain ==
  ASSUME NEW s, NEW n \in Nat, NEW i \in 1 .. n, Opens(s[i])
  PROVE  Depth(s, i) \in 1 .. Depth(s, n)
<1>1. PICK k \in Nat : i = k + 1 /\ k \in 0 .. n
  <2>1. i - 1 \in Nat /\ i = (i - 1) + 1 /\ i - 1 \in 0 .. n
    OBVIOUS
  <2>2. QED  BY <2>1
<1>2. Depth(s, k) \in Nat /\ Depth(s, i) = Depth(s, k) + 1 /\ Depth(s, n) \in Nat
  BY <1>1, DepthNext
<1>3. Depth(s, i) <= Depth(s, n)
  BY DepthGrows
<1>4. QED  BY <1>2, <1>3

LEMMA PushPlain ==
  ASSUME NEW S, NEW s \in Seq(S), NEW f \in S, NEW chain, Lexical(chain, s), ~Opens(f)
  PROVE  Lexical(chain, Append(s, f))
<1> DEFINE t == Append(s, f)
<1>1. /\ Len(s) \in Nat /\ Len(t) = Len(s) + 1 /\ t[Len(s) + 1] = f
      /\ \A i \in 1 .. Len(s) : t[i] = s[i]
  OBVIOUS
<1> HIDE DEF t
<1>2. \A i \in 0 .. Len(s) : Depth(t, i) = Depth(s, i)
  BY <1>1, DepthSame
<1>3. Depth(t, Len(s) + 1) = Depth(t, Len(s))
  BY <1>1, DepthNext
<1>4. Lexical(chain, t)
  BY <1>1, <1>2, <1>3 DEF Lexical
<1>5. QED  BY <1>4 DEF t

LEMMA PushScope ==
  ASSUME NEW S, NEW s \in Seq(S), NEW f \in S, NEW X, NEW chain \in Seq(X), NEW m \in X,
         Lexical(chain, s), Opens(f), m = ScopeOf(f)
  PROVE  Lexical(Append(chain, m), Append(s, f))
<1> DEFINE t == Append(s, f)
           c == Append(chain, m)
<1>1. /\ Len(s) \in Nat /\ Len(t) = Len(s) + 1 /\ t[Len(s) + 1] = f
      /\ \A i \in 1 .. Len(s) : t[i] = s[i]
  OBVIOUS
<1>2. /\ Len(chain) \in Nat /\ Len(c) = Len(chain) + 1 /\ c[Len(chain) + 1] = m
      /\ \A i \in 1 .. Len(chain) : c[i] = chain[i]
  OBVIOUS
<1> HIDE DEF t, c
<1>3. \A i \in 0 .. Len(s) : Depth(t, i) = Depth(s, i)
  BY <1>1, DepthSame
<1>4. Depth(t, Len(s) + 1) = Len(chain) + 1
  <2>1. Depth(t, Len(s)) = Len(chain)
    BY <1>1, <1>3 DEF Lexical
  <2>2. Depth(t, Len(s) + 1) = Depth(t, Len(s)) + 1
    BY <1>1, DepthNext
  <2>3. QED  BY <2>1, <2>2
<1>5. ASSUME NEW i \in 1 .. Len(t), Opens(t[i]) PROVE c[Depth(t, i)] = ScopeOf(t[i])
  <2>1. CASE i \in 1 .. Len(s)
    <3>1. Opens(s[i]) /\ Depth(t, i) = Depth(s, i)
      BY <2>1, <1>1, <1>3, <1>5
    <3>2. Depth(s, i) \in 1 .. Len(chain)
      BY <3>1, <2>1, <1>1, DepthInChain DEF Lexical
    <3>3. QED  BY <3>1, <3>2, <2>1, <1>1, <1>2 DEF Lexical
  <2>2. CASE i = Len(s) + 1
    BY <2>2, <1>1, <1>2, <1>4
  <2>3. QED  BY <2>1, <2>2, <1>1
<1>6. Lexical(c, t)
  BY <1>1, <1>2, <1>4, <1>5 DEF Lexical
<1>7. QED  BY <1>6 DEF t, c

LEMMA PopPlain ==
  ASSUME NEW S, NEW s \in Seq(S), s # <<>>, NEW chain, Lexical(chain, s), ~Opens(s[Len(s)])
  PROVE  Lexical(chain, Front(s))
<1>1. PICK n \in Nat : Len(s) = n + 1
  <2>1. Len(s) - 1 \in Nat /\ Len(s) = (Len(s) - 1) + 1
    OBVIOUS
  <2>2. QED  BY <2>1
<1>2. Len(Front(s)) = n /\ \A i \in 1 .. n : Front(s)[i] = s[i]
  BY <1>1, FrontType
<1>3. \A i \in 0 .. n : Depth(Front(s), i) = Depth(s, i)
  BY <1>2, DepthSame
<1>4. Depth(s, n + 1) = Depth(s, n)
  BY <1>1, DepthNext
<1>5. QED  BY <1>1, <1>2, <1>3, <1>4 DEF Lexical

LEMMA PopScope ==
  ASSUME NEW S, NEW s \in Seq(S), s # <<>>, NEW X, NEW chain \in Seq(X),
         Lexical(chain, s), Opens(s[Len(s)])
  PROVE  Lexical(Front(chain), Front(s))
<1>1. PICK n \in Nat : Len(s) = n + 1
  <2>1. Len(s) - 1 \in Nat /\ Len(s) = (Len(s) - 1) + 1
    OBVIOUS
  <2>2. QED  BY <2>1
<1>2. Len(Front(s)) = n /\ \A i \in 1 .. n : Front(s)[i] = s[i]
  BY <1>1, FrontType
<1>3. \A i \in 0 .. n : Depth(Front(s), i) = Depth(s, i)
  BY <1>2, DepthSame
<1>4. Depth(s, n) \in Nat /\ Len(chain) = Depth(s, n) + 1
  BY <1>1, DepthNext DEF Lexical
<1>5. Len(Front(chain)) = Depth(s, n) /\ \A i \in 1 .. Depth(s, n) : Front(chain)[i] = chain[i]
  BY <1>4, FrontType
<1>6. ASSUME NEW i \in 1 .. n, Opens(s[i]) PROVE Front(chain)[Depth(s, i)] = ScopeOf(s[i])
  BY <1>1, <1>5, <1>6, DepthInChain DEF Lexical
<1>7. QED  BY <1>2, <1>3, <1>5, <1>6 DEF Lexical

\* The top frame goes on, with the scope that it has.
LEMMA SameTop ==
  ASSUME NEW S, NEW s \in Seq(S), s # <<>>, NEW f \in S, NEW chain, Lexical(chain, s),
         Opens(f) <=> Opens(s[Len(s)]), Opens(f) => ScopeOf(f) = ScopeOf(s[Len(s)])
  PROVE  Lexical(chain, Append(Front(s), f))
<1> DEFINE t == Append(Front(s), f)
<1>1. /\ Len(s) \in Nat \ {0} /\ Front(s) \in Seq(S) /\ Len(Front(s)) = Len(s) - 1
      /\ \A i \in 1 .. Len(s) - 1 : Front(s)[i] = s[i]
  BY FrontType
<1>2. Len(t) = Len(s) /\ t[Len(s)] = f /\ \A i \in 1 .. Len(s) - 1 : t[i] = s[i]
  BY <1>1
<1> HIDE DEF t
<1>3. \A i \in 1 .. Len(s) : Opens(t[i]) <=> Opens(s[i])
  BY <1>1, <1>2
<1>4. \A i \in 0 .. Len(s) : Depth(t, i) = Depth(s, i)
  BY <1>1, <1>3, DepthSame
<1>5. Lexical(chain, t)
  BY <1>1, <1>2, <1>3, <1>4 DEF Lexical
<1>6. QED  BY <1>5 DEF t

-----------------------------------------------------------------------------
(* Environments against the text *)

\* How the frames of the stack relate to the tree: the top one is fresh when it
\* is entered, those below wait for a child, and functions are only found
\* between the program and a body.
PathInv ==
  /\ mode = "call" => Top.at = 0
  /\ mode = "return" => Top.at > 0
  /\ \A i \in 1 .. Len(stack) - 1 : stack[i].at > 0
  /\ \A i \in 1 .. Len(stack) : stack[i].node.kind = "FUNCTION" => i = 2
  /\ Len(stack) > 1 => /\ stack[1].at \in DOMAIN stack[1].node.kids
                       /\ stack[2].node = stack[1].node.kids[stack[1].at]

\* How many children of the program have been entered as functions, or passed.
Known == IF mode = "call" /\ Node.kind = "FUNCTION" THEN stack[1].at - 1 ELSE stack[1].at

EnvInv ==
  mode \in {"call", "return"} =>
    /\ PathInv
    /\ Lexical(scopes, stack)
    /\ Entered(functions, FunctionsOf(stack[1].node, Known))

\* A call puts the frame f of the caller and a fresh one of n on the stack.
LEMMA PathCall ==
  ASSUME NEW Trees, ShapeInv(Trees), mode \in {"call", "return"}, PathInv,
         NEW f \in Frames(Trees), f.node = Node, f.at > 0,
         NEW n \in Trees, n.kind = "FUNCTION" => Node.kind = "PROGRAM",
         Node.kind = "PROGRAM" => f.at \in DOMAIN Node.kids /\ n = Node.kids[f.at],
         Call(f, n)
  PROVE  /\ PathInv'
         /\ mode' = "call" /\ Node' = n
         /\ stack'[1] = IF Node.kind = "PROGRAM" THEN f ELSE stack[1]
         /\ stack[1].node.kind = "PROGRAM" /\ (Node.kind = "PROGRAM" => stack[1].node = Node)
<1>1. /\ stack # <<>> /\ stack \in Seq(Frames(Trees)) /\ Len(stack) \in Nat \ {0}
      /\ Node.kind = "PROGRAM" <=> Len(stack) = 1
      /\ Top = stack[Len(stack)] /\ Top.node = Node
  BY TopFrame DEF ShapeInv
<1>2. Frame(n) \in Frames(Trees) /\ Frame(n).node = n /\ Frame(n).at = 0
  BY DEF Frame, Frames
<1>3. /\ Front(stack) \in Seq(Frames(Trees)) /\ Len(Front(stack)) = Len(stack) - 1
      /\ \A i \in 1 .. Len(stack) - 1 : Front(stack)[i] = stack[i]
  BY <1>1, FrontType
<1>4. /\ stack' \in Seq(Frames(Trees)) /\ Len(stack') = Len(stack) + 1
      /\ \A i \in 1 .. Len(stack) - 1 : stack'[i] = stack[i]
      /\ stack'[Len(stack)] = f /\ stack'[Len(stack) + 1] = Frame(n)
  BY <1>1, <1>2, <1>3 DEF Call
<1>5. Top' = Frame(n) /\ Node' = n /\ mode' = "call"
  BY <1>1, <1>2, <1>4 DEF Call, Top, Node, Last
<1>6. \A i \in 1 .. Len(stack') - 1 : stack'[i].at > 0
  BY <1>1, <1>4 DEF PathInv
<1>7. ASSUME NEW i \in 1 .. Len(stack'), stack'[i].node.kind = "FUNCTION" PROVE i = 2
  <2>1. CASE i \in 1 .. Len(stack) - 1
    BY <2>1, <1>1, <1>4, <1>7 DEF PathInv
  <2>2. CASE i = Len(stack)
    <3>1. stack[i].node.kind = "FUNCTION" /\ i \in 1 .. Len(stack)
      BY <2>2, <1>1, <1>4, <1>7
    <3>2. QED  BY <3>1 DEF PathInv
  <2>3. CASE i = Len(stack) + 1
    BY <2>3, <1>1, <1>2, <1>4, <1>7
  <2>4. QED  BY <2>1, <2>2, <2>3, <1>1, <1>4
<1>0. PICK m \in Nat : Len(stack) = m + 1
  <2>1. Len(stack) - 1 \in Nat /\ Len(stack) = (Len(stack) - 1) + 1
    BY <1>1
  <2>2. QED  BY <2>1
<1>8. stack'[1] = IF Node.kind = "PROGRAM" THEN f ELSE stack[1]
  <2>1. CASE m = 0
    BY <2>1, <1>0, <1>1, <1>4
  <2>2. CASE m > 0
    <3>1. 1 \in 1 .. Len(stack) - 1 /\ Len(stack) # 1
      BY <2>2, <1>0
    <3>2. QED  BY <3>1, <1>1, <1>4
  <2>3. QED  BY <2>1, <2>2, <1>0
<1>9. /\ stack'[1].at \in DOMAIN stack'[1].node.kids
      /\ stack'[2].node = stack'[1].node.kids[stack'[1].at]
  <2>1. CASE m = 0
    <3>1. Len(stack) = 1 /\ stack'[1] = f /\ stack'[2] = Frame(n)
      BY <2>1, <1>0, <1>4
    <3>2. QED  BY <3>1, <1>1, <1>2
  <2>2. CASE m = 1
    <3>1. Len(stack) = 2 /\ 1 \in 1 .. Len(stack) - 1 /\ Len(stack) > 1
      BY <2>2, <1>0
    <3>2. stack'[1] = stack[1] /\ stack'[2] = f /\ f.node = stack[2].node
      BY <3>1, <1>1, <1>4
    <3>3. QED  BY <3>1, <3>2 DEF PathInv
  <2>3. CASE m > 1
    <3>1. {1, 2} \subseteq 1 .. Len(stack) - 1 /\ Len(stack) > 1
      BY <2>3, <1>0
    <3>2. stack'[1] = stack[1] /\ stack'[2] = stack[2]
      BY <3>1, <1>4
    <3>3. QED  BY <3>1, <3>2 DEF PathInv
  <2>4. QED  BY <2>1, <2>2, <2>3, <1>0
<1>10. stack[1].node.kind = "PROGRAM"
  BY <1>1 DEF ShapeInv
<1>11. QED  BY <1>1, <1>2, <1>5, <1>6, <1>7, <1>8, <1>9, <1>10 DEF PathInv

LEMMA PathReturn ==
  ASSUME NEW Trees, ShapeInv(Trees), mode \in {"call", "return"}, PathInv,
         Node.kind # "PROGRAM", NEW types, Return(types)
  PROVE  PathInv' /\ mode' = "return" /\ stack'[1] = stack[1]
<1>1. stack \in Seq(Frames(Trees)) /\ Len(stack) \in Nat \ {0, 1} /\ stack # <<>>
  BY TopFrame DEF ShapeInv
<1>2. /\ stack' \in Seq(Frames(Trees)) /\ Len(stack') = Len(stack) - 1
      /\ \A i \in 1 .. Len(stack) - 1 : stack'[i] = stack[i]
  BY <1>1, FrontType DEF Return
<1>3. stack' # <<>> /\ Top' = stack[Len(stack) - 1] /\ mode' = "return"
  BY <1>1, <1>2 DEF Return, Top, Last
<1>4. Top'.at > 0
  <2>0. Len(stack) \in Nat /\ Len(stack) # 0 /\ Len(stack) # 1
    BY <1>1
  <2>1. Len(stack) - 1 >= 1 /\ Len(stack) - 1 \in Nat
    <3>1. \A m \in Nat : m # 0 /\ m # 1 => m - 1 >= 1 /\ m - 1 \in Nat
      OBVIOUS
    <3>2. QED  BY <3>1, <2>0
  <2>2. Len(stack) - 1 \in 1 .. Len(stack) - 1
    BY <2>1
  <2>3. QED  BY <2>2, <1>3 DEF PathInv
<1>5. \A i \in 1 .. Len(stack') : stack'[i] = stack[i] /\ stack[i].at > 0 /\ i \in 1 .. Len(stack)
  BY <1>1, <1>2 DEF PathInv
<1>6. /\ Len(stack) > 1 /\ stack'[1] = stack[1]
      /\ Len(stack') > 1 => stack'[2] = stack[2]
  BY <1>1, <1>2
<1>7. QED  BY <1>2, <1>3, <1>4, <1>5, <1>6 DEF PathInv

-----------------------------------------------------------------------------
(* Functions against the children of the program *)

LEMMA FunctionsNext ==
  ASSUME NEW p, NEW k \in Nat
  PROVE  /\ FunctionsOf(p, 0) = {}
         /\ FunctionsOf(p, k + 1) = IF p.kids[k + 1].kind = "FUNCTION"
                                    THEN FunctionsOf(p, k) \cup {p.kids[k + 1]}
                                    ELSE FunctionsOf(p, k)
<1>1. 1 .. k + 1 = (1 .. k) \cup {k + 1} /\ 1 .. 0 = {}
  OBVIOUS
<1>2. QED  BY <1>1 DEF FunctionsOf

\* The next child is passed when it is no function, and is entered if it is.
LEMMA Passed ==
  ASSUME NEW p, NEW k \in Nat
  PROVE  FunctionsOf(p, IF p.kids[k + 1].kind = "FUNCTION" THEN (k + 1) - 1 ELSE k + 1)
           = FunctionsOf(p, k)
<1>1. (k + 1) - 1 = k
  OBVIOUS
<1>2. QED  BY <1>1, FunctionsNext

LEMMA EnteredOne ==
  ASSUME NEW defs, Entered(functions, defs), Node.name \notin DOMAIN functions
  PROVE  Entered(WithFunction(Node), defs \cup {Node})
<1> DEFINE fs == WithFunction(Node)
<1>1. /\ DOMAIN fs = DOMAIN functions \cup {Node.name}
      /\ fs[Node.name] = Signature(Node)
      /\ \A g \in DOMAIN functions : g # Node.name => fs[g] = functions[g]
  BY DEF WithFunction
<1> HIDE DEF fs
<1>2. DOMAIN fs = {f.name : f \in defs \cup {Node}}
  BY <1>1 DEF Entered
<1>3. ASSUME NEW f \in defs \cup {Node} PROVE fs[f.name] = Signature(f)
  <2>1. CASE f = Node
    BY <2>1, <1>1
  <2>2. CASE f \in defs
    <3>1. f.name \in DOMAIN functions /\ functions[f.name] = Signature(f)
      BY <2>2 DEF Entered
    <3>2. QED  BY <3>1, <1>1
  <2>3. QED  BY <2>1, <2>2
<1>4. Entered(fs, defs \cup {Node})
  BY <1>2, <1>3 DEF Entered
<1>5. QED  BY <1>4 DEF fs

-----------------------------------------------------------------------------
(* Steps on the environments *)

LEMMA EmptyChain == ASSUME NEW s, Len(s) = 0 PROVE Lexical(<<>>, s)
<1>1. Depth(s, 0) = 0
  BY DepthNext
<1>2. QED  BY <1>1 DEF Lexical

LEMMA EnvCall ==
  ASSUME NEW Trees, ShapeInv(Trees), mode \in {"call", "return"}, PathInv,
         NEW f \in Frames(Trees), f.node = Node, f.at > 0,
         NEW n \in Trees, n.kind # "PROGRAM", n.kind = "FUNCTION" => Node.kind = "PROGRAM",
         Node.kind = "PROGRAM" => f.at \in DOMAIN Node.kids /\ n = Node.kids[f.at],
         Call(f, n),
         Lexical(scopes', Append(Front(stack), f)),
         NEW k, k = IF n.kind = "FUNCTION" THEN f.at - 1
                    ELSE IF Node.kind = "PROGRAM" THEN f.at ELSE stack[1].at,
         Entered(functions', FunctionsOf(stack[1].node, k))
  PROVE  EnvInv'
<1>1. /\ PathInv' /\ mode' = "call" /\ Node' = n
      /\ stack'[1] = IF Node.kind = "PROGRAM" THEN f ELSE stack[1]
      /\ Node.kind = "PROGRAM" => stack[1].node = Node
  BY PathCall
<1>2. Lexical(scopes', stack')
  <2>1. Frame(n) \in Frames(Trees) /\ Frame(n).node = n /\ Frame(n).at = 0
    BY DEF Frame, Frames
  <2>2. ~Opens(Frame(n))
    BY <2>1 DEF Opens
  <2>3. Append(Front(stack), f) \in Seq(Frames(Trees))
    BY FrontSeq DEF ShapeInv
  <2>4. QED  BY <2>1, <2>2, <2>3, PushPlain DEF Call
<1>3. stack'[1].node = stack[1].node /\ Known' = k
  BY <1>1 DEF Known
<1>4. QED  BY <1>1, <1>2, <1>3 DEF EnvInv

LEMMA EnvReturn ==
  ASSUME NEW Trees, ShapeInv(Trees), mode \in {"call", "return"}, EnvInv,
         Node.kind # "PROGRAM", mode = "call" => Node.kind # "FUNCTION",
         NEW types, Return(types), UNCHANGED functions, Lexical(scopes', Front(stack))
  PROVE  EnvInv'
<1>1. PathInv /\ Entered(functions, FunctionsOf(stack[1].node, stack[1].at))
  BY DEF EnvInv, Known
<1>2. PathInv' /\ mode' = "return" /\ stack'[1] = stack[1]
  BY <1>1, PathReturn
<1>3. Known' = stack[1].at
  BY <1>2 DEF Known
<1>4. Lexical(scopes', stack')
  BY DEF Return
<1>5. QED  BY <1>1, <1>2, <1>3, <1>4 DEF EnvInv

LEMMA EnvThrow == ASSUME NEW kind, NEW msg, Throw(kind, msg) PROVE EnvInv'
BY DEF Throw, EnvInv

LEMMA EnvPlain ==
  ASSUME NEW Trees, ShapeInv(Trees), EnvInv, Plain(Trees)
  PROVE  EnvInv'
<1>1. /\ mode \in {"call", "return"} /\ scopes' = scopes /\ functions' = functions
      /\ Node.kind \notin {"PROGRAM", "FUNCTION", "BLOCK"}
  BY DEF Plain, env
<1>2. /\ PathInv /\ Lexical(scopes, stack)
      /\ Entered(functions, FunctionsOf(stack[1].node, stack[1].at))
  BY <1>1 DEF EnvInv, Known
<1>3. stack \in Seq(Frames(Trees)) /\ stack # <<>> /\ Top = stack[Len(stack)] /\ Top.node = Node
  BY <1>1, TopFrame DEF ShapeInv
<1>4. ~Opens(stack[Len(stack)])
  BY <1>1, <1>3 DEF Opens
<1>5. ASSUME NEW f \in Frames(Trees), NEW n \in Trees, f.node = Node, f.at > 0,
             n.kind \notin Outer, Call(f, n)
      PROVE  EnvInv'
  <2>1. ~Opens(f)
    BY <1>1, <1>5 DEF Opens
  <2>2. Lexical(scopes', Append(Front(stack), f))
    BY <2>1, <1>1, <1>2, <1>3, <1>4, SameTop
  <2>3. n.kind # "PROGRAM" /\ n.kind # "FUNCTION" /\ Node.kind # "PROGRAM"
    BY <1>1, <1>5 DEF Outer
  <2>4. QED  BY <2>2, <2>3, <1>1, <1>2, <1>5, EnvCall
<1>6. ASSUME NEW types \in SUBSET Types, Return(types) PROVE EnvInv'
  <2>1. Lexical(scopes', Front(stack))
    BY <1>1, <1>2, <1>3, <1>4, PopPlain
  <2>2. QED  BY <2>1, <1>1, <1>6, EnvReturn
<1>7. QED  BY <1>5, <1>6, EnvThrow DEF Plain

\* enterScope puts the declarations of the block or the function on the chain.
LEMMA EnvOpen ==
  ASSUME NEW Trees, Shaped(Trees), ShapeInv(Trees), EnvInv, mode = "call",
         Node.kind \in {"BLOCK", "FUNCTION"}, OpenScope(Node.kids[1]),
         Entered(functions', FunctionsOf(stack[1].node, stack[1].at))
  PROVE  EnvInv'
<1>1. PathInv /\ Lexical(scopes, stack) /\ Top.at = 0
  BY DEF EnvInv, PathInv
<1>2. /\ stack \in Seq(Frames(Trees)) /\ stack # <<>> /\ Top = stack[Len(stack)]
      /\ Top.node = Node /\ Node \in Trees
      /\ At(1) \in Frames(Trees) /\ At(1).node = Node /\ At(1).at = 1
  BY TopFrame DEF ShapeInv
<1>3. CASE Throw("string", "repeat")
  BY <1>3, EnvThrow
<1>4. CASE Call(At(1), Node.kids[1])
  <2>1. Node.kids[1] \in Trees /\ Node.kids[1].kind \notin Outer
    <3>1. Node.kids \in Seq(Trees) /\ Len(Node.kids) = 1
      BY <1>2 DEF Shaped
    <3>2. QED  BY <3>1, <1>2, ChildIsTree
  <2>2. ~Opens(stack[Len(stack)])
    BY <1>1, <1>2 DEF Opens
  <2>3. Lexical(scopes, Front(stack)) /\ Front(stack) \in Seq(Frames(Trees))
    BY <2>2, <1>1, <1>2, PopPlain, FrontSeq
  <2>4. Mapping(Node.decls) \in Scopes /\ scopes \in Seq(Scopes)
    BY <1>2, MappingType DEF Shaped, ShapeInv
  <2>5. Opens(At(1)) /\ ScopeOf(At(1)) = Mapping(Node.decls)
    BY <1>2 DEF Opens, ScopeOf
  <2>6. Lexical(scopes', Append(Front(stack), At(1)))
    BY <2>3, <2>4, <2>5, <1>2, PushScope DEF OpenScope
  <2>7. Node.kids[1].kind # "PROGRAM" /\ Node.kids[1].kind # "FUNCTION"
    BY <2>1 DEF Outer
  <2>8. QED  BY <2>1, <2>6, <2>7, <1>1, <1>2, <1>4, EnvCall
<1>5. QED  BY <1>3, <1>4 DEF OpenScope

\* exitScope takes them away again.
LEMMA EnvClose ==
  ASSUME NEW Trees, ShapeInv(Trees), EnvInv, mode = "return", Node.kind \in {"BLOCK", "FUNCTION"},
         CloseScope, UNCHANGED functions, NEW types, Return(types)
  PROVE  EnvInv'
<1>1. Lexical(scopes, stack) /\ Top.at > 0
  BY DEF EnvInv, PathInv
<1>2. stack \in Seq(Frames(Trees)) /\ stack # <<>> /\ Top = stack[Len(stack)] /\ Top.node = Node
  BY TopFrame DEF ShapeInv
<1>3. Opens(stack[Len(stack)]) /\ scopes \in Seq(Scopes)
  BY <1>1, <1>2 DEF Opens, ShapeInv
<1>4. Lexical(scopes', Front(stack))
  BY <1>1, <1>2, <1>3, PopScope DEF CloseScope
<1>5. QED  BY <1>4, EnvReturn

LEMMA EnvBlock ==
  ASSUME NEW Trees, Shaped(Trees), ShapeInv(Trees), EnvInv, TypecheckBlock
  PROVE  EnvInv'
<1>1. CASE Enter("BLOCK") /\ OpenScope(Node.kids[1]) /\ UNCHANGED functions
  <2>1. Entered(functions', FunctionsOf(stack[1].node, stack[1].at))
    BY <1>1 DEF Enter, EnvInv, Known
  <2>2. QED  BY <2>1, <1>1, EnvOpen DEF Enter
<1>2. CASE Resumed("BLOCK", 1) /\ CloseScope /\ Return(result) /\ UNCHANGED functions
  BY <1>2, EnvClose DEF Resumed
<1>3. QED  BY <1>1, <1>2 DEF TypecheckBlock

LEMMA EnvFunctionDef ==
  ASSUME NEW Trees, Shaped(Trees), ShapeInv(Trees), EnvInv, TypecheckFunctionDef
  PROVE  EnvInv'
<1>1. CASE /\ Enter("FUNCTION") /\ Node.name \notin DOMAIN functions
           /\ functions' = WithFunction(Node) /\ OpenScope(Node.kids[1])
  <2>1. /\ PathInv
        /\ Entered(functions, FunctionsOf(stack[1].node, stack[1].at - 1))
    BY <1>1 DEF Enter, EnvInv, Known
  <2>2. stack \in Seq(Frames(Trees)) /\ Len(stack) \in Nat \ {0} /\ Node = stack[Len(stack)].node
    BY <1>1, TopFrame DEF Enter, ShapeInv
  <2>3. Len(stack) = 2
    <3>1. Len(stack) \in 1 .. Len(stack)
      BY <2>2
    <3>2. QED  BY <3>1, <2>1, <2>2, <1>1 DEF PathInv, Enter
  <2>4. /\ stack[1].at \in DOMAIN stack[1].node.kids /\ Node = stack[1].node.kids[stack[1].at]
        /\ stack[1].node \in Trees
    <3>1. 1 \in 1 .. Len(stack) /\ Len(stack) > 1
      BY <2>3
    <3>2. stack[1] \in Frames(Trees)
      BY <3>1, <2>2
    <3>3. stack[1].node \in Trees
      BY <3>2 DEF Frames
    <3>4. QED  BY <3>1, <3>3, <2>1, <2>2, <2>3 DEF PathInv
  <2>5. PICK k \in Nat : stack[1].at = k + 1 /\ stack[1].at - 1 = k
    <3>1. stack[1].node.kids \in Seq(Trees)
      BY <2>4 DEF Shaped
    <3>2. stack[1].at \in Nat /\ stack[1].at >= 1
      BY <3>1, <2>4
    <3>3. stack[1].at - 1 \in Nat /\ stack[1].at = (stack[1].at - 1) + 1
      BY <3>2
    <3>4. QED  BY <3>3
  <2>6. FunctionsOf(stack[1].node, stack[1].at) = FunctionsOf(stack[1].node, k) \cup {Node}
    BY <2>4, <2>5, <1>1, FunctionsNext DEF Enter
  <2>7. Entered(functions', FunctionsOf(stack[1].node, stack[1].at))
    BY <2>1, <2>5, <2>6, <1>1, EnteredOne
  <2>8. QED  BY <2>7, <1>1, EnvOpen DEF Enter
<1>2. CASE Resumed("FUNCTION", 1) /\ CloseScope /\ Return({}) /\ UNCHANGED functions
  BY <1>2, EnvClose DEF Resumed
<1>3. QED  BY <1>1, <1>2, EnvThrow DEF TypecheckFunctionDef

LEMMA EnvProgram ==
  ASSUME NEW Trees, Shaped(Trees), ShapeInv(Trees), EnvInv, TypecheckProgram
  PROVE  EnvInv'
<1>1. mode \in {"call", "return"} /\ Node.kind = "PROGRAM" /\ functions' = functions
  BY DEF TypecheckProgram, Enter, Resumed
<1>2. PathInv /\ Lexical(scopes, stack) /\ Entered(functions, FunctionsOf(Node, Top.at))
  <2>1. Len(stack) = 1 /\ Top = stack[1] /\ Top.node = Node
    BY <1>1, TopFrame
  <2>2. QED  BY <2>1, <1>1 DEF EnvInv, Known
<1>3. /\ stack \in Seq(Frames(Trees)) /\ stack # <<>> /\ Len(stack) = 1
      /\ Top = stack[Len(stack)] /\ Top = stack[1] /\ Top.node = Node /\ Node \in Trees
      /\ Node.decls \in Seq(Declarations) /\ Node.kids \in Seq(Trees) /\ Len(Node.kids) >= 1
  BY <1>1, TopFrame DEF ShapeInv, Shaped
<1>4. ASSUME NEW k \in Nat, Top.at = k, k + 1 \in DOMAIN Node.kids,
             Call(At(k + 1), Node.kids[k + 1]), Lexical(scopes', Append(Front(stack), At(k + 1)))
      PROVE  EnvInv'
  <2>1. /\ At(k + 1) \in Frames(Trees) /\ At(k + 1).node = Node /\ At(k + 1).at = k + 1
        /\ k + 1 > 0
    <3>1. k + 1 \in Nat /\ k + 1 > 0
      OBVIOUS
    <3>2. QED  BY <3>1, <1>1, TopFrame
  <2>2. Node.kids[k + 1] \in Trees /\ Node.kids[k + 1].kind # "PROGRAM"
    BY <1>3, <1>4, ChildIsTree
  <2>3. Entered(functions', FunctionsOf(stack[1].node,
          IF Node.kids[k + 1].kind = "FUNCTION" THEN (k + 1) - 1 ELSE k + 1))
    BY <1>1, <1>2, <1>3, <1>4, Passed
  <2>4. QED  BY <2>1, <2>2, <2>3, <1>1, <1>2, <1>4, EnvCall
<1>5. CASE /\ Enter("PROGRAM") /\ scopes' = <<Mapping(Node.decls)>>
           /\ IF Repeats(Node.decls) THEN Throw("string", "repeat") ELSE Call(At(1), Node.kids[1])
  <2>1. CASE Throw("string", "repeat")
    BY <2>1, EnvThrow
  <2>2. CASE Call(At(1), Node.kids[1])
    <3>1. Top.at = 0
      BY <1>2, <1>5 DEF PathInv, Enter
    <3>2. At(1) \in Frames(Trees) /\ At(1).node = Node /\ At(1).at = 1
      BY <1>1, TopFrame
    <3>3. Front(stack) \in Seq(Frames(Trees)) /\ Len(Front(stack)) = 0
      BY <1>3, FrontType
    <3>4. Lexical(<<>>, Front(stack))
      BY <3>3, EmptyChain
    <3>5. /\ Opens(At(1)) /\ Mapping(Node.decls) = ScopeOf(At(1)) /\ Mapping(Node.decls) \in Scopes
          /\ Append(<<>>, Mapping(Node.decls)) = <<Mapping(Node.decls)>>
      BY <3>2, <1>1, <1>3, MappingType DEF Opens, ScopeOf
    <3>6. <<>> \in Seq(Scopes)
      OBVIOUS
    <3>7. Lexical(Append(<<>>, Mapping(Node.decls)), Append(Front(stack), At(1)))
      BY <3>2, <3>3, <3>4, <3>5, <3>6, PushScope
    <3>8. Lexical(scopes', Append(Front(stack), At(0 + 1)))
      BY <3>5, <3>7, <1>5
    <3>9. 0 + 1 \in DOMAIN Node.kids /\ 0 + 1 = 1
      BY <1>3
    <3>10. QED  BY <3>1, <3>8, <3>9, <2>2, <1>4
  <2>3. QED  BY <2>1, <2>2, <1>5
<1>6. ASSUME NEW k \in DOMAIN Node.kids, Resumed("PROGRAM", k), UNCHANGED scopes,
             k < Len(Node.kids), Call(At(k + 1), Node.kids[k + 1])
      PROVE  EnvInv'
  <2>1. k \in Nat /\ Top.at = k /\ k > 0 /\ k + 1 \in DOMAIN Node.kids /\ k + 1 \in Nat /\ k + 1 > 0
    BY <1>3, <1>6 DEF Resumed
  <2>2. At(k + 1) \in Frames(Trees) /\ At(k + 1).node = Node /\ At(k + 1).at = k + 1
    BY <2>1, <1>1, TopFrame
  <2>3. /\ Opens(At(k + 1)) /\ Opens(stack[Len(stack)])
        /\ ScopeOf(At(k + 1)) = ScopeOf(stack[Len(stack)])
    BY <2>1, <2>2, <1>1, <1>3 DEF Opens, ScopeOf
  <2>4. Lexical(scopes, Append(Front(stack), At(k + 1)))
    BY <2>2, <2>3, <1>2, <1>3, SameTop
  <2>5. QED  BY <2>1, <2>4, <1>4, <1>6
<1>7. Verdict("accepted", "none") => EnvInv'
  BY DEF Verdict, EnvInv
<1>8. QED  BY <1>5, <1>6, <1>7, ProgramCases

LEMMA EnvExecute ==
  ASSUME NEW Trees, ShapeInv(Trees), Execute
  PROVE  EnvInv'
<1> DEFINE p == testcases[Len(verdicts) + 1]
<1>1. ShapeInv(Trees)'
  BY ExecuteStep
<1>2. /\ mode' = "call" /\ stack' = <<Frame(p)>> /\ scopes' = <<NoMapping>>
      /\ functions' = NoMapping
  BY DEF Execute
<1>3. /\ Len(stack') = 1 /\ stack'[1] = Frame(p) /\ Frame(p).node = p /\ Frame(p).at = 0
      /\ Frame(p) \in Frames(Trees) /\ Top' = Frame(p)
  <2>1. stack' \in Seq(Frames(Trees)) /\ Len(stack') = 1 /\ stack'[1] = Frame(p)
    BY <1>1, <1>2 DEF ShapeInv
  <2>2. QED  BY <2>1, <1>2 DEF Frame, Top, Last
<1> HIDE DEF p
<1>4. p.kind = "PROGRAM" /\ Node' = p
  <2>1. 1 \in 1 .. Len(stack')
    BY <1>3
  <2>2. QED  BY <2>1, <1>1, <1>3 DEF ShapeInv, Node
<1>5. PathInv'
  BY <1>2, <1>3, <1>4 DEF PathInv
<1>6. Lexical(scopes', stack')
  <2>1. Opens(Frame(p)) /\ ScopeOf(Frame(p)) = NoMapping
    BY <1>3, <1>4 DEF Opens, ScopeOf
  <2>2. Lexical(<<>>, <<>>)
    BY EmptyChain
  <2>3. Lexical(Append(<<>>, NoMapping), Append(<<>>, Frame(p)))
    <3>1. <<>> \in Seq(Scopes) /\ <<>> \in Seq(Frames(Trees)) /\ NoMapping \in Scopes
      BY NoMappingType
    <3>2. QED  BY <3>1, <2>1, <2>2, <1>3, PushScope
  <2>4. QED  BY <2>3, <1>2
<1>7. Entered(functions, FunctionsOf(stack[1].node, Known))'
  <2>1. Known' = 0
    BY <1>2, <1>3, <1>4 DEF Known
  <2>2. FunctionsOf(p, 0) = {}
    BY FunctionsNext
  <2>3. Entered(NoMapping, {})
    BY DEF Entered, NoMapping
  <2>4. QED  BY <2>1, <2>2, <2>3, <1>2, <1>3
<1>8. QED  BY <1>5, <1>6, <1>7 DEF EnvInv

LEMMA EnvUnwind == ASSUME Unwind PROVE EnvInv'
BY DEF Unwind, Verdict, EnvInv

LEMMA EnvUnchanged == ASSUME EnvInv, UNCHANGED vars PROVE EnvInv'
BY DEF EnvInv, PathInv, Known, Node, Top, Last, vars, env

LEMMA EnvNext ==
  ASSUME NEW Trees, Shaped(Trees), ShapeInv(Trees), EnvInv, [Next]_vars
  PROVE  EnvInv'
<1>1. CASE Next
  BY <1>1, EnvPlain, EnvBlock, EnvFunctionDef, EnvProgram, EnvExecute, EnvUnwind, EnvUnchanged,
     LeafStep, BinaryStep, FunctionCallStep, AssignmentStep, BranchStep, LoopStep, SequenceStep
  DEF Next, Exited
<1>2. QED  BY <1>1, EnvUnchanged

\* Only the frame on top may be a function that is just being entered.
LEMMA BegunIsKnown ==
  ASSUME NEW Trees, ShapeInv(Trees), mode \in {"call", "return"}, PathInv
  PROVE  Begun = Known
<1>1. /\ stack \in Seq(Frames(Trees)) /\ Len(stack) \in Nat \ {0}
      /\ Top = stack[Len(stack)] /\ Top.node = Node
  BY TopFrame DEF ShapeInv
<1>2. ASSUME NEW i \in DOMAIN stack, stack[i].node.kind = "FUNCTION", stack[i].at = 0
      PROVE  mode = "call" /\ Node.kind = "FUNCTION"
  <2>1. i \in 1 .. Len(stack) /\ ~(i \in 1 .. Len(stack) - 1)
    BY <1>1, <1>2 DEF PathInv
  <2>2. i = Len(stack)
    BY <2>1, <1>1
  <2>3. QED  BY <2>2, <1>1, <1>2 DEF PathInv
<1>3. ASSUME mode = "call", Node.kind = "FUNCTION"
      PROVE  \E i \in DOMAIN stack : stack[i].node.kind = "FUNCTION" /\ stack[i].at = 0
  <2>1. Len(stack) \in DOMAIN stack
    BY <1>1
  <2>2. QED  BY <2>1, <1>1, <1>3 DEF PathInv
<1>4. QED  BY <1>2, <1>3 DEF Begun, Known

LEMMA EnvLexical ==
  ASSUME NEW Trees, ShapeInv(Trees), EnvInv
  PROVE  EnvironmentsAreLexical
BY BegunIsKnown DEF EnvInv, EnvironmentsAreLexical

-----------------------------------------------------------------------------
(* Theorems *)

\* Whatever programs main is built with, every call of a typecheck function
\* gives a set of types and every binding has one, the stack of calls is empty
\* just when main is between two programs, and no program gets a second
\* verdict (typechecker.cc 90-379, driver.cc 581-598).
THEOREM ResultsAreTypes ==
  ASSUME NEW CONSTANT Trees, WellFormed(Trees)
  PROVE  Spec => []TypeOK
<1>1. Init => ShapeInv(Trees)
  BY TreesShaped, ShapeInit
<1>2. ShapeInv(Trees) /\ [Next]_vars => ShapeInv(Trees)'
  BY TreesShaped, ShapeStep
<1>3. ShapeInv(Trees) => TypeOK
  BY ShapeTypes
<1>4. QED  BY <1>1, <1>2, <1>3, PTL DEF Spec

\* Whatever programs main is built with, and however deep their blocks nest,
\* the variables visible while a node is checked are those declared around it
\* and the functions those defined before it: every way out of a scope that
\* returns leaves through exitScope (typechecker.cc 60-88, 275-379).
THEOREM ScopingIsLexical ==
  ASSUME NEW CONSTANT Trees, WellFormed(Trees)
  PROVE  Spec => []EnvironmentsAreLexical
<1>1. Init => ShapeInv(Trees) /\ EnvInv
  BY TreesShaped, ShapeInit DEF Init, EnvInv
<1>2. ShapeInv(Trees) /\ EnvInv /\ [Next]_vars => (ShapeInv(Trees) /\ EnvInv)'
  BY TreesShaped, ShapeStep, EnvNext
<1>3. ShapeInv(Trees) /\ EnvInv => EnvironmentsAreLexical
  BY EnvLexical
<1>4. QED  BY <1>1, <1>2, <1>3, PTL DEF Spec
=============================================================================
