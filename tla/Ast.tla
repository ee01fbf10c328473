---------------------------------- MODULE Ast ----------------------------------
(***************************************************************************)
(* The constructors of ast.hh and ast.cc of the typechecker.  Every node is *)
(* a record of the same fields; kind is its exprtype or stmttype, and name  *)
(* tells the subclasses of BinaryExpression apart, which the code does not. *)
(***************************************************************************)
EXTENDS Sequences

Record(kind, name, ty, decls, kids) ==
  [kind |-> kind, name |-> name, ty |-> ty, decls |-> decls, kids |-> kids]

Declaration(v, t) == [name |-> v, ty |-> t]

Empty == Record("EMPTY", "none", "NIL", <<>>, <<>>)
Num   == Record("NUM", "none", "NIL", <<>>, <<>>)
Var(v) == Record("VAR", v, "NIL", <<>>, <<>>)

BinaryExpression(l, r)   == Record("BINARY", "none", "NIL", <<>>, <<l, r>>)
AddExpression(l, r)      == [BinaryExpression(l, r) EXCEPT !.name = "+"]
SubExpression(l, r)      == [BinaryExpression(l, r) EXCEPT !.name = "-"]
LessThenExpression(l, r) == [BinaryExpression(l, r) EXCEPT !.name = "<"]
MoreThenExpression(l, r) == [BinaryExpression(l, r) EXCEPT !.name = ">"]
EqualExpression(l, r)    == [BinaryExpression(l, r) EXCEPT !.name = "=="]

FunctionCall(f, args) == Record("FUNCTIONCALL", f, "NIL", <<>>, args)

SkipStatement             == Record("SKIP", "none", "NIL", <<>>, <<>>)
AssignmentStatement(v, e) == Record("ASSIGN", v, "NIL", <<>>, <<e>>)
SequenceStatement(ss)     == Record("SEQUENCE", "none", "NIL", <<>>, ss)
BranchStatement(c, s, t)  == Record("BRANCH", "none", "NIL", <<>>, <<c, s, t>>)
LoopStatement(c, s)       == Record("LOOP", "none", "NIL", <<>>, <<c, s>>)
BlockStatement(ds, s)     == Record("BLOCK", "none", "NIL", ds, <<s>>)
ReturnStatement(e)        == Record("RETURN", "none", "NIL", <<>>, <<e>>)

FunctionDefinition(f, t, ps, b) == Record("FUNCTION", f, t, ps, <<b>>)

\* The functions of a program and its statement are its kids.
Program(ds, fs, s) == Record("PROGRAM", "none", "NIL", ds, Append(fs, s))
=============================================================================
