----------------------------- MODULE TypingRules -----------------------------
(***************************************************************************)
(* What typechecker.cc is meant to decide, as a judgement over the tree     *)
(* with environments passed down as functions: no chain of scopes, no       *)
(* exceptions, no order of evaluation.  The judgement is whatever satisfies *)
(* its rules (Judgement). Each rule takes as a parameter the operator it    *)
(* defines, so that for TLC a module that EXTENDS this one can make it the  *)
(* recursion over the tree.                                                 *)
(***************************************************************************)
EXTENDS Typechecker

CONSTANTS
  Yields(_, _, _),  \* the types a node may give in an environment and a functionEnv
  Nodes(_),         \* a node and all that is below it
  Free(_)           \* the variables a node uses and does not declare

Ill == "ILL_TYPED"

Shadowing(e, decls) ==
  LET inner == Mapping(decls) IN
  [v \in DOMAIN inner \cup DOMAIN e |-> IF v \in DOMAIN inner THEN inner[v] ELSE e[v]]

\* The one type of an expression, or the types a statement may return; Ill is
\* one of them when the node is ill typed.
YieldsOf(Y(_, _, _), n, e, fs) ==
  LET Of(k) == Y(n.kids[k], e, fs)
      Operand(k) == Y(n.kids[1].kids[k], e, fs)
      Type(t, right) == {IF right THEN t ELSE Ill}
  IN
  CASE n.kind = "NUM"    -> {"INT"}
    [] n.kind = "EMPTY"  -> {"VOID"}
    [] n.kind = "SKIP"   -> {"NIL"}
    [] n.kind = "VAR"    -> Type(e[n.name], n.name \in DOMAIN e)
    [] n.kind = "BINARY" -> Type("INT", \A k \in DOMAIN n.kids : Of(k) = {"INT"})
    [] n.kind = "FUNCTIONCALL" ->
         Type(fs[n.name].ret,
              /\ n.name \in DOMAIN fs
              /\ Len(fs[n.name].params) = Len(n.kids)
              /\ \A k \in DOMAIN n.kids : Of(k) = {fs[n.name].params[k]})
    [] n.kind = "ASSIGN" -> Type("NIL", n.name \in DOMAIN e /\ Of(1) = {e[n.name]})
    [] n.kind = "RETURN" -> Of(1)
    [] n.kind = "SEQUENCE" -> UNION {Of(k) : k \in DOMAIN n.kids}
    [] n.kind = "BLOCK"  -> IF Repeats(n.decls) THEN {Ill}
                            ELSE Y(n.kids[1], Shadowing(e, n.decls), fs)
    [] n.kind = "LOOP"   -> Of(2) \cup (IF Of(1) = {"BOOL"} THEN {} ELSE {Ill})
    [] n.kind = "BRANCH" ->
         Of(2) \cup Of(3) \cup (IF n.kids[1].kind = "BINARY" /\ Operand(1) = Operand(2)
                                THEN Operand(1) \cap {Ill} ELSE {Ill})

NodesOf(N(_), n) == {n} \cup UNION {N(n.kids[k]) : k \in DOMAIN n.kids}

Declared(decls) == {decls[i].name : i \in DOMAIN decls}
FreeOf(F(_), n) ==
  ((IF n.kind \in {"VAR", "ASSIGN"} THEN {n.name} ELSE {}) \cup UNION {F(n.kids[k]) : k \in DOMAIN n.kids})
    \ (IF n.kind \in {"BLOCK", "FUNCTION", "PROGRAM"} THEN Declared(n.decls) ELSE {})

Judgement(Trees) ==
  \A n \in Trees :
    /\ Nodes(n) = NodesOf(Nodes, n)
    /\ Free(n) = FreeOf(Free, n)
    /\ n.kind \in Expressions \cup Statements =>
         \A e, fs : Yields(n, e, fs) = YieldsOf(Yields, n, e, fs)

\* The constructors are given children that are there already: a tree has a height.
Descends(Height, Trees) ==
  /\ Height \in [Trees -> Nat]
  /\ \A n \in Trees : \A k \in DOMAIN n.kids : Height[n.kids[k]] < Height[n]

\* A function sees the globals, its parameters, and itself and the functions
\* before it: the signatures of those among the first k children of p.
Sees(p, k) ==
  LET fs == FunctionsOf(p, k) IN
  [g \in {f.name : f \in fs} |-> Signature(CHOOSE f \in fs : f.name = g)]

FunctionOK(p, k) ==
  LET f == p.kids[k]
      types == Yields(f.kids[1], Shadowing(Mapping(p.decls), f.decls), Sees(p, k))
  IN  /\ f.name \notin DOMAIN Sees(p, k - 1) /\ ~Repeats(f.decls)
      /\ Ill \notin types
      /\ f.ty \in types /\ Cardinality(types) <= 2

WellTyped(p) ==
  LET n == Len(p.kids) IN
  /\ ~Repeats(p.decls)
  /\ \A k \in 1 .. n - 1 : FunctionOK(p, k)
  /\ Ill \notin Yields(p.kids[n], Mapping(p.decls), Sees(p, n))

-----------------------------------------------------------------------------
(* Properties *)

Executed == DOMAIN verdicts

\* A program is accepted exactly when it is well typed, whatever was executed
\* before it and in whatever order the operands of an assignment are taken; and
\* main is only lost to a condition that is no BinaryExpression (the uncaught
\* std::bad_cast of typechecker.cc 273).
VerdictIsRight ==
  \A i \in Executed :
    /\ (verdicts[i].end = "accepted") = WellTyped(testcases[i])
    /\ verdicts[i].end = "terminated" =>
         \E n \in Nodes(testcases[i]) : n.kind = "BRANCH" /\ n.kids[1].kind # "BINARY"

\* main runs every program of the list once, in order, with the verdict it has by
\* itself and no environment of another one; only an exception that it does not
\* catch keeps it from the rest (driver.cc 579-598).
EndsOf(p) ==
  IF WellTyped(p) THEN {"accepted"}
  ELSE {"reported"} \cup
       {"terminated" : n \in {n \in Nodes(p) : n.kind = "BRANCH" /\ n.kids[1].kind # "BINARY"}}
Loses(end) == end = "terminated"
Main == INSTANCE Batch WITH
  Ends <- EndsOf, Fatal <- Loses, programs <- testcases,
  ends <- [i \in Executed |-> verdicts[i].end]
ImplementsBatch == Main!Spec

Accepted == {testcases[i] : i \in {i \in Executed : verdicts[i].end = "accepted"}}

\* Nothing in an accepted program would be missing if it were run: every variable
\* is declared around its use, every function called is defined before, or is the
\* one that calls, and is given as many arguments as it has parameters - in
\* conditions too, of which typecheckBranch looks at the operands only
\* (typechecker.cc 210-236, 271-284).
ProgramsAreClosed ==
  \A p \in Accepted :
    /\ Free(p) = {}
    /\ \A k \in DOMAIN p.kids : \A c \in Nodes(p.kids[k]) : c.kind = "FUNCTIONCALL" =>
         \E f \in FunctionsOf(p, k) : f.name = c.name /\ Len(f.decls) = Len(c.kids)

\* A comparison is a BOOL: a loop over a comparison is not rejected for its
\* condition (driver.cc 471, 503, 541).
ComparisonIsBool ==
  \A i \in Executed : verdicts[i].msg = "condition" =>
    \E n \in Nodes(testcases[i]) : n.kind = "LOOP" /\ n.kids[1].name \notin {"<", ">", "=="}
=============================================================================
