----------------------------- MODULE DriverTests -----------------------------
(***************************************************************************)
(* The seventeen programs of driver.cc, T1 to T17, and what the comment at  *)
(* its end says came out of them.                                           *)
(***************************************************************************)
EXTENDS Ast

x == Var("x")
y == Var("y")
IntX   == <<Declaration("x", "INT")>>
CharX  == <<Declaration("x", "CHAR")>>
IntXY  == <<Declaration("x", "INT"), Declaration("y", "INT")>>
CharXY == <<Declaration("x", "CHAR"), Declaration("y", "CHAR")>>
IntXCharY == <<Declaration("x", "INT"), Declaration("y", "CHAR")>>

SetX == AssignmentStatement("x", Num)
SetY == AssignmentStatement("y", Num)
SetXTo(e) == AssignmentStatement("x", e)
Body(e)   == BlockStatement(<<>>, ReturnStatement(e))

\* T4's call names another function than the one it defines, and T8's block
\* does not get the declaration of y that its source comment shows.
Driver == <<
  Program(IntX, <<>>, SetX),
  Program(IntXY, <<>>, SequenceStatement(<<SetX, SetY>>)),
  Program(IntX, <<FunctionDefinition("add", "INT", IntXY, Body(AddExpression(x, y)))>>,
          SetXTo(FunctionCall("add", <<Num, Num>>))),
  Program(IntX, <<FunctionDefinition("f", "INT", <<>>, Body(Empty))>>,
          SetXTo(FunctionCall("add", <<>>))),
  Program(IntX, <<>>, BranchStatement(BinaryExpression(x, Num), SetX, SetX)),
  Program(IntX, <<>>, LoopStatement(SubExpression(x, Num), SetXTo(AddExpression(x, Num)))),
  Program(IntX, <<>>, SequenceStatement(<<SetX, SetXTo(AddExpression(x, Num))>>)),
  Program(IntX, <<>>,
          BlockStatement(<<>>, SequenceStatement(<<SetY, SetXTo(AddExpression(y, Num))>>))),
  Program(IntX, <<>>, BranchStatement(BinaryExpression(Num, Num), SetX, SetX)),
  Program(CharX, <<>>, SetX),
  Program(CharXY, <<>>, SequenceStatement(<<SetX, SetY>>)),
  Program(IntXCharY, <<>>, SequenceStatement(<<SetX, SetY>>)),
  Program(IntX, <<FunctionDefinition("Sub", "INT", IntXY, Body(SubExpression(x, y)))>>,
          SetXTo(FunctionCall("Sub", <<Num, Num>>))),
  Program(IntX, <<FunctionDefinition("add", "INT", <<>>, Body(Empty))>>,
          SetXTo(FunctionCall("add", <<>>))),
  Program(IntX, <<>>, BranchStatement(EqualExpression(Num, Num), SetX, SetX)),
  Program(IntX, <<>>, BranchStatement(MoreThenExpression(Num, Num), SetX, SetX)),
  Program(IntX, <<>>, BranchStatement(LessThenExpression(Num, Num), SetX, SetX)) >>

Recorded == <<"none", "none", "none", "return", "none", "condition", "none", "unbound", "none",
              "assign", "assign", "assign", "none", "return", "none", "none", "none">>
=============================================================================
