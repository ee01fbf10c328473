----------------------------- MODULE Typechecker -----------------------------
(***************************************************************************)
(* ProgramAnalysis/typechecker: the driver's main and the recursive descent *)
(* of typechecker.cc over an abstract syntax tree, as a machine with the    *)
(* call stack of the program.  A step enters a typecheck function, resumes  *)
(* one after a call has returned, or unwinds one frame of an exception.     *)
(*                                                                          *)
(* A node of the tree is a record with kind, name, ty, decls and kids; only *)
(* the fields its class has are used.                                       *)
(***************************************************************************)
EXTENDS Integers, Sequences, FiniteSets, SequencesExt

CONSTANT Batches   \* the sequences of programs main may be built with

VARIABLES
  testcases,  \* the programs of main's list
  verdicts,   \* what became of those already executed
  scopes,     \* chain of ValueEnvs, the innermost last
  functions,  \* functionEnv: name -> [params, ret]
  stack,      \* the active typecheck functions, [node, at, acc]
  mode,       \* "idle": in main, "call": enter the top one, "return", "throw"
  result,     \* the types the last call returned
  thrown      \* the exception in flight

env  == <<scopes, functions>>
vars == <<testcases, verdicts, env, stack, mode, result, thrown>>

Types == {"INT", "BOOL", "VOID", "NIL", "CHAR"}

Expressions == {"EMPTY", "NUM", "VAR", "BINARY", "FUNCTIONCALL"}
Statements  == {"SKIP", "ASSIGN", "SEQUENCE", "BRANCH", "LOOP", "BLOCK", "RETURN"}
Declarations == [name : STRING, ty : Types]

\* The members of the classes: how many children a node has, and of which kinds.
Members(n) ==
  LET Has(k, kinds) == n.kids[k].kind \in kinds IN
  \/ n.kind \in {"EMPTY", "NUM", "VAR", "SKIP"} /\ n.kids = <<>>
  \/ n.kind = "BINARY" /\ Len(n.kids) = 2 /\ Has(1, Expressions) /\ Has(2, Expressions)
  \/ n.kind = "FUNCTIONCALL" /\ \A k \in DOMAIN n.kids : Has(k, Expressions)
  \/ n.kind \in {"ASSIGN", "RETURN"} /\ Len(n.kids) = 1 /\ Has(1, Expressions)
  \/ n.kind = "SEQUENCE" /\ \A k \in DOMAIN n.kids : Has(k, Statements)
  \/ n.kind = "BRANCH" /\ Len(n.kids) = 3
       /\ Has(1, Expressions) /\ Has(2, Statements) /\ Has(3, Statements)
  \/ n.kind = "LOOP" /\ Len(n.kids) = 2 /\ Has(1, Expressions) /\ Has(2, Statements)
  \/ n.kind = "BLOCK" /\ Len(n.kids) = 1 /\ Has(1, Statements)
  \/ n.kind = "FUNCTION" /\ Len(n.kids) = 1 /\ Has(1, {"BLOCK"})
  \/ n.kind = "PROGRAM" /\ Len(n.kids) >= 1 /\ Has(Len(n.kids), Statements)
       /\ \A k \in 1 .. Len(n.kids) - 1 : Has(k, {"FUNCTION"})

\* Trees has the programs and all that is below them.
WellFormed(Trees) ==
  /\ Batches \subseteq Seq({n \in Trees : n.kind = "PROGRAM"})
  /\ \A n \in Trees : /\ n.ty \in Types /\ n.decls \in Seq(Declarations)
                      /\ n.kids \in Seq(Trees) /\ Members(n)

Frame(n) == [node |-> n, at |-> 0, acc |-> {}]
Top     == Last(stack)
Node    == Top.node
At(k)   == [Top EXCEPT !.at = k]
NoMapping   == [v \in {} |-> "NIL"]
Nothing == [kind |-> "none", msg |-> "none"]

Init ==
  /\ testcases \in Batches
  /\ verdicts = <<>>
  /\ scopes = <<>> /\ functions = NoMapping
  /\ stack = <<>>
  /\ mode = "idle"
  /\ result = {}
  /\ thrown = Nothing

-----------------------------------------------------------------------------
(* Calls, returns and exceptions *)

Enter(kind)      == mode = "call" /\ Node.kind = kind
Resumed(kind, k) == mode = "return" /\ Node.kind = kind /\ Top.at = k

\* The top function goes on as frame f after the one it calls for n.
Call(f, n) ==
  /\ stack' = Append(Append(Front(stack), f), Frame(n))
  /\ mode' = "call"
  /\ UNCHANGED <<testcases, verdicts, result, thrown>>

Return(types) ==
  /\ stack' = Front(stack)
  /\ mode' = "return" /\ result' = types
  /\ UNCHANGED <<testcases, verdicts, thrown>>

\* C++ tells a std::string, a const char * and a std::bad_cast apart.
Throw(kind, msg) ==
  /\ mode' = "throw" /\ thrown' = [kind |-> kind, msg |-> msg]
  /\ UNCHANGED <<testcases, verdicts, stack, result>>

\* Back in main.
Verdict(end, msg) ==
  /\ verdicts' = Append(verdicts, [end |-> end, msg |-> msg])
  /\ mode' = "idle" /\ stack' = <<>>
  /\ UNCHANGED <<testcases, result, thrown>>

-----------------------------------------------------------------------------
(* Environments *)

Holders(v) == {i \in 1 .. Len(scopes) : v \in DOMAIN scopes[i]}
Bound(v)   == Holders(v) # {}

Lookup(v) == scopes[CHOOSE i \in Holders(v) : \A j \in Holders(v) : j <= i][v]

\* addMapping of one declaration after the other; a repeated name throws, and
\* the ones before it stay.
Repeats(decls) == \E i, j \in DOMAIN decls : i < j /\ decls[i].name = decls[j].name
Mapped(decls)  == {i \in DOMAIN decls : ~Repeats(SubSeq(decls, 1, i))}
Mapping(decls) ==
  [v \in {decls[i].name : i \in Mapped(decls)} |->
     decls[CHOOSE i \in Mapped(decls) : decls[i].name = v].ty]

\* The same for a scope that may have some of the names already.
Clashes(scope, decls) == Repeats(decls) \/ \E i \in DOMAIN decls : decls[i].name \in DOMAIN scope
Added(scope, decls) ==
  LET new == {i \in Mapped(decls) : \A j \in 1 .. i : decls[j].name \notin DOMAIN scope} IN
  [v \in DOMAIN scope \cup {decls[i].name : i \in new} |->
     IF v \in DOMAIN scope THEN scope[v] ELSE Mapping(decls)[v]]

Signature(f) == [params |-> [i \in 1 .. Len(f.decls) |-> f.decls[i].ty], ret |-> f.ty]
WithFunction(f) == [g \in DOMAIN functions \cup {f.name} |->
                      IF g = f.name THEN Signature(f) ELSE functions[g]]

-----------------------------------------------------------------------------
(* Expressions *)

TypeOfLeaf == [NUM |-> "INT", EMPTY |-> "VOID", SKIP |-> "NIL"]

\* typecheckNum, typecheckEmpty and the statement typecheckSkip
TypecheckLeaf ==
  /\ \E kind \in DOMAIN TypeOfLeaf : Enter(kind) /\ Return({TypeOfLeaf[kind]})
  /\ UNCHANGED env

TypecheckVar ==
  /\ Enter("VAR")
  /\ \/ Bound(Node.name) /\ Return({Lookup(Node.name)})
     \/ ~Bound(Node.name) /\ Throw("string", "unbound")
  /\ UNCHANGED env

\* The right operand is looked at only when the left one is an INT, and every
\* operation, comparisons too, gives an INT.
TypecheckBinaryExpression ==
  /\ \/ Enter("BINARY") /\ Call(At(1), Node.kids[1])
     \/ Resumed("BINARY", 1) /\ result = {"INT"} /\ Call(At(2), Node.kids[2])
     \/ Resumed("BINARY", 2) /\ result = {"INT"} /\ Return({"INT"})
     \/ \E k \in 1 .. 2 : Resumed("BINARY", k) /\ result # {"INT"} /\ Throw("cstr", "operand")
  /\ UNCHANGED env

\* The k arguments before have been found right: the next one, or the result.
NextArgument(k) ==
  IF k = Len(Node.kids) THEN Return({functions[Node.name].ret})
                        ELSE Call(At(k + 1), Node.kids[k + 1])

TypecheckFunctionCall_AnyArity ==
  /\ \/ Enter("FUNCTIONCALL") /\ Node.name \notin DOMAIN functions /\ Throw("string", "unbound")
     \/ /\ Enter("FUNCTIONCALL") /\ Node.name \in DOMAIN functions
        /\ NextArgument(0)
     \/ /\ mode = "return"
        /\ \E k \in DOMAIN Node.kids :
          /\ Resumed("FUNCTIONCALL", k)
          /\ IF k > Len(functions[Node.name].params)
                  \/ result = {functions[Node.name].params[k]}
             THEN NextArgument(k) ELSE Throw("string", "argument")
  /\ UNCHANGED env
\* A name that is not there gets a default FunctionTypeSig: no parameters, and a
\* return type that nobody has written.
TypecheckFunctionCall_DefaultSignature ==
  /\ \/ /\ Enter("FUNCTIONCALL") /\ Node.name \notin DOMAIN functions
        /\ IF Node.kids = <<>> THEN Return({"uninitialized"}) ELSE Throw("string", "arity")
     \/ /\ Enter("FUNCTIONCALL") /\ Node.name \in DOMAIN functions
        /\ IF Len(functions[Node.name].params) = Len(Node.kids)
           THEN NextArgument(0) ELSE Throw("string", "arity")
     \/ /\ mode = "return"
        /\ \E k \in DOMAIN Node.kids :
          /\ Resumed("FUNCTIONCALL", k)
          /\ IF result = {functions[Node.name].params[k]}
             THEN NextArgument(k) ELSE Throw("string", "argument")
  /\ UNCHANGED env
TypecheckFunctionCall ==
  /\ \/ Enter("FUNCTIONCALL") /\ Node.name \notin DOMAIN functions /\ Throw("string", "unbound")
     \/ /\ Enter("FUNCTIONCALL") /\ Node.name \in DOMAIN functions
        /\ IF Len(functions[Node.name].params) = Len(Node.kids)
           THEN NextArgument(0) ELSE Throw("string", "arity")
     \/ /\ mode = "return"
        /\ \E k \in DOMAIN Node.kids :
          /\ Resumed("FUNCTIONCALL", k)
          /\ IF result = {functions[Node.name].params[k]}
             THEN NextArgument(k) ELSE Throw("string", "argument")
  /\ UNCHANGED env

-----------------------------------------------------------------------------
(* Statements: each gives the set of the types it may return *)

\* The compiler may look the variable up before or after the expression.
TypecheckAssignment ==
  /\ \/ Enter("ASSIGN") /\ ~Bound(Node.name) /\ Throw("string", "unbound")
     \/ Enter("ASSIGN") /\ Call(At(1), Node.kids[1])
     \/ /\ Resumed("ASSIGN", 1)
        /\ \/ ~Bound(Node.name) /\ Throw("string", "unbound")
           \/ Bound(Node.name) /\ result = {Lookup(Node.name)} /\ Return({"NIL"})
           \/ Bound(Node.name) /\ result # {Lookup(Node.name)} /\ Throw("cstr", "assign")
  /\ UNCHANGED env

\* Of the condition, which has to be a BinaryExpression, only the operands are
\* checked, and they only have to agree.
TypecheckBranch ==
  /\ \/ /\ Enter("BRANCH")
        /\ IF Node.kids[1].kind = "BINARY" THEN Call(At(1), Node.kids[1].kids[1])
                                          ELSE Throw("bad_cast", "branch")
     \/ Resumed("BRANCH", 1) /\ Call([At(2) EXCEPT !.acc = result], Node.kids[1].kids[2])
     \/ /\ Resumed("BRANCH", 2)
        /\ IF result = Top.acc THEN Call(At(3), Node.kids[2]) ELSE Throw("cstr", "operands")
     \/ Resumed("BRANCH", 3) /\ Call([At(4) EXCEPT !.acc = result], Node.kids[3])
     \/ Resumed("BRANCH", 4) /\ Return(Top.acc \cup result)
  /\ UNCHANGED env

TypecheckLoop_Repeats ==
  /\ \/ Enter("LOOP") /\ Call(At(1), Node.kids[1])
     \/ /\ Resumed("LOOP", 1)
        /\ IF result = {"BOOL"} THEN Call(At(2), Node.kids[2]) ELSE Throw("cstr", "condition")
     \/ Resumed("LOOP", 2) /\ Call(At(1), Node.kids[1])
  /\ UNCHANGED env
TypecheckLoop ==
  /\ \/ Enter("LOOP") /\ Call(At(1), Node.kids[1])
     \/ /\ Resumed("LOOP", 1)
        /\ IF result = {"BOOL"} THEN Call(At(2), Node.kids[2]) ELSE Throw("cstr", "condition")
     \/ Resumed("LOOP", 2) /\ Return(result)
  /\ UNCHANGED env

NextStatement(k, types) ==
  IF k = Len(Node.kids) THEN Return(types)
                        ELSE Call([At(k + 1) EXCEPT !.acc = types], Node.kids[k + 1])

TypecheckSequence ==
  /\ \/ Enter("SEQUENCE") /\ NextStatement(0, {})
     \/ /\ mode = "return"
        /\ \E k \in DOMAIN Node.kids : Resumed("SEQUENCE", k) /\ NextStatement(k, Top.acc \cup result)
  /\ UNCHANGED env

\* enterScope and the declarations, then the statement n; a throw leaves the
\* scope behind.
OpenScope(n) ==
  /\ scopes' = Append(scopes, Mapping(Node.decls))
  /\ IF Repeats(Node.decls) THEN Throw("string", "repeat") ELSE Call(At(1), n)

\* exitScope
CloseScope == scopes' = Front(scopes)

TypecheckBlock_NoExitScope ==
  \/ Enter("BLOCK") /\ OpenScope(Node.kids[1]) /\ UNCHANGED functions
  \/ Resumed("BLOCK", 1) /\ Return(result) /\ UNCHANGED env
TypecheckBlock ==
  \/ Enter("BLOCK") /\ OpenScope(Node.kids[1]) /\ UNCHANGED functions
  \/ Resumed("BLOCK", 1) /\ CloseScope /\ Return(result) /\ UNCHANGED functions

TypecheckReturn ==
  /\ \/ Enter("RETURN") /\ Call(At(1), Node.kids[1])
     \/ Resumed("RETURN", 1) /\ Return(result)
  /\ UNCHANGED env

-----------------------------------------------------------------------------
(* Functions, the program, main *)

TypecheckFunctionDef ==
  \/ /\ Enter("FUNCTION") /\ Node.name \in DOMAIN functions
     /\ Throw("string", "repeat") /\ UNCHANGED env
  \/ /\ Enter("FUNCTION") /\ Node.name \notin DOMAIN functions
     /\ functions' = WithFunction(Node) /\ OpenScope(Node.kids[1])
  \/ /\ Resumed("FUNCTION", 1)
     /\ \/ Cardinality(result) > 2 /\ Throw("string", "many") /\ UNCHANGED scopes
        \/ /\ Cardinality(result) <= 2 /\ Node.ty \notin result
           /\ Throw("string", "return") /\ UNCHANGED scopes
        \/ /\ Cardinality(result) <= 2 /\ Node.ty \in result
           /\ CloseScope /\ Return({})
     /\ UNCHANGED functions

\* The kids of a program are its functions and, last, its statement.  Its
\* declarations go to the scope that is there.
TypecheckProgram ==
  /\ UNCHANGED functions
  /\ \/ /\ Enter("PROGRAM")
        /\ scopes' = Append(Front(scopes), Added(Last(scopes), Node.decls))
        /\ IF Clashes(Last(scopes), Node.decls) THEN Throw("string", "repeat")
                                               ELSE Call(At(1), Node.kids[1])
     \/ /\ mode = "return" /\ UNCHANGED scopes
        /\ \E k \in DOMAIN Node.kids :
             /\ Resumed("PROGRAM", k)
             /\ IF k < Len(Node.kids) THEN Call(At(k + 1), Node.kids[k + 1])
                                       ELSE Verdict("accepted", "none")

\* An exception leaves the top function; a call of a function catches strings
\* and throws one of its own, main catches strings and const char *s.
Unwind ==
  /\ mode = "throw" /\ UNCHANGED env
  /\ \/ /\ Len(stack) > 1 /\ stack' = Front(stack)
        /\ thrown' = IF Node.kind = "FUNCTIONCALL" /\ thrown.kind = "string"
                     THEN [thrown EXCEPT !.msg = "undefined"] ELSE thrown
        /\ UNCHANGED <<testcases, verdicts, mode, result>>
     \/ /\ Len(stack) = 1
        /\ Verdict(IF thrown.kind = "bad_cast" THEN "terminated" ELSE "reported", thrown.msg)

Terminated_Caught == FALSE
\* An exception that main does not catch has ended it.
Terminated == verdicts # <<>> /\ Last(verdicts).end = "terminated"
Done == mode = "idle" /\ (Terminated \/ Len(verdicts) = Len(testcases))

\* Every program gets a Typechecker of its own.
Execute_SharedTypechecker ==
  /\ mode = "idle" /\ ~Done
  /\ scopes' = (IF scopes = <<>> THEN <<NoMapping>> ELSE scopes) /\ UNCHANGED functions
  /\ stack' = <<Frame(testcases[Len(verdicts) + 1])>>
  /\ mode' = "call"
  /\ UNCHANGED <<testcases, verdicts, result, thrown>>
Execute ==
  /\ mode = "idle" /\ ~Done
  /\ scopes' = <<NoMapping>> /\ functions' = NoMapping
  /\ stack' = <<Frame(testcases[Len(verdicts) + 1])>>
  /\ mode' = "call"
  /\ UNCHANGED <<testcases, verdicts, result, thrown>>

Exited == Done /\ UNCHANGED vars

Next ==
  \/ Execute \/ TypecheckLeaf \/ TypecheckVar \/ TypecheckBinaryExpression
  \/ TypecheckFunctionCall \/ TypecheckAssignment \/ TypecheckBranch
  \/ TypecheckLoop \/ TypecheckSequence \/ TypecheckBlock \/ TypecheckReturn
  \/ TypecheckFunctionDef \/ TypecheckProgram \/ Unwind \/ Exited

Spec     == Init /\ [][Next]_vars
FairSpec == Spec /\ WF_vars(Next)

-----------------------------------------------------------------------------
(* Properties *)

\* The variables stay in their domains, and a typecheck function returns the
\* one type of an expression or the types of a statement (the return types in
\* typechecker.hh).
TypeOK ==
  /\ Len(verdicts) <= Len(testcases)
  /\ \A i \in DOMAIN scopes : \A v \in DOMAIN scopes[i] : scopes[i][v] \in Types
  /\ mode \in {"idle", "call", "return", "throw"}
  /\ (stack = <<>>) = (mode = "idle")
  /\ result \subseteq Types
  /\ thrown.kind \in {"none", "string", "cstr", "bad_cast"}

\* While no exception is in flight the environments are those of the source
\* text around the node being checked: the chain of scopes holds the
\* declarations of the program, the function and the blocks that enclose it,
\* in that order, and the functions those defined so far (enterScope and
\* exitScope pair up on every path that returns).
Opens(f)    == \/ f.node.kind = "PROGRAM"
               \/ f.node.kind \in {"FUNCTION", "BLOCK"} /\ f.at > 0
ScopeOf(f)  == IF f.at = 0 THEN NoMapping ELSE Mapping(f.node.decls)
\* How many of the first i frames of s have a scope.
Depth(s, i) == Cardinality({j \in 1 .. i : Opens(s[j])})
Lexical(chain, s) ==
  /\ Len(chain) = Depth(s, Len(s))
  /\ \A i \in 1 .. Len(s) : Opens(s[i]) => chain[Depth(s, i)] = ScopeOf(s[i])

\* The functions among the first k children of the program p, and a functionEnv
\* that has just these.
FunctionsOf(p, k) == {p.kids[j] : j \in {j \in 1 .. k : p.kids[j].kind = "FUNCTION"}}
Entered(fs, defs) == /\ DOMAIN fs = {f.name : f \in defs}
                     /\ \A f \in defs : fs[f.name] = Signature(f)

\* The function being entered is not defined yet.
Begun == IF \E i \in DOMAIN stack : stack[i].node.kind = "FUNCTION" /\ stack[i].at = 0
         THEN stack[1].at - 1 ELSE stack[1].at
EnvironmentsAreLexical ==
  mode \in {"call", "return"} =>
    Lexical(scopes, stack) /\ Entered(functions, FunctionsOf(stack[1].node, Begun))

\* main always comes to its end: by its return, or by the exception it does not
\* catch (the recursion follows a finite tree; driver.cc 581-598).
Terminates == <>Done
=============================================================================
