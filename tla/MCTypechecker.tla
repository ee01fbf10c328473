--------------------------- MODULE MCTypechecker ---------------------------
(***************************************************************************)
(* Programs for TLC: the seventeen of driver.cc, pairs executed one after   *)
(* the other, and families of small ones that shadow, repeat, recurse and   *)
(* call with every kind of argument.                                        *)
(***************************************************************************)
EXTENDS TypingRules, DriverTests

\* The judgement by recursion over the tree: TLC takes these for Yields, Nodes
\* and Free wherever their rules name them.
RECURSIVE MCYields(_, _, _)
MCYields(n, e, fs) == YieldsOf(MCYields, n, e, fs)
RECURSIVE MCNodes(_)
MCNodes(n) == NodesOf(MCNodes, n)
RECURSIVE MCFree(_)
MCFree(n) == FreeOf(MCFree, n)

\* What the comment driver.cc 601-706 records of its seventeen programs is what
\* comes out, one program after the other.
RecordedOutput ==
  testcases = Driver => \A i \in Executed : verdicts[i].msg = Recorded[i]

\* --- families -------------------------------------------------------------
d(v, t) == Declaration(v, t)
Less(l, r) == LessThenExpression(l, r)
Fc(args) == FunctionCall("f", args)
Do(ss)  == SequenceStatement(ss)
Ret(e)  == ReturnStatement(e)

Exprs == {Num, x, y, Empty, AddExpression(x, Num), Less(Num, y), Fc(<<Num>>)}
Conds == {Less(x, Num), EqualExpression(x, y), EqualExpression(Empty, Num), x}
Globals == {IntX, CharX, CharXY, <<d("x", "INT"), d("x", "CHAR")>>, <<d("x", "BOOL")>>}
SomeStatements ==
  {SetXTo(e) : e \in Exprs} \cup {Do(<<>>)}
    \cup {BranchStatement(c, SetX, s) : c \in Conds, s \in {SkipStatement, Ret(y)}}
    \cup {LoopStatement(e, SetXTo(x)) : e \in {x, Num, Less(x, Num)}}
    \cup {Do(<<BlockStatement(ds, SetXTo(e)), SetX>>) :
            ds \in {CharX, <<d("y", "INT")>>, <<d("y", "INT"), d("y", "INT")>>}, e \in {x, y, Num}}
Plain == {Program(ds, <<>>, s) : ds \in Globals, s \in SomeStatements}

Params == {<<>>, <<d("y", "INT")>>, CharX, <<d("y", "INT"), d("y", "CHAR")>>}
Bodies == {Ret(Num), Ret(x), Ret(y), Ret(Fc(<<Num>>)), Do(<<SetX, Ret(y)>>),
           BranchStatement(Less(Num, Num), Ret(x), Ret(y)), Do(<<SkipStatement, Ret(Num), Ret(Empty)>>)}
CallG == FunctionCall("g", <<>>)
Calls == {Fc(<<Num>>), Fc(<<x>>), Fc(<<>>), Fc(<<CallG>>), Fc(<<y>>), CallG}
G == FunctionDefinition("g", "INT", <<>>, Body(Fc(<<Num>>)))
WithFunctions ==
  {Program(<<d("x", t)>>,
           <<FunctionDefinition("f", r, ps, BlockStatement(ds, s))>> \o gs, SetXTo(c)) :
     t \in {"INT", "CHAR"}, r \in {"INT", "CHAR"}, ps \in Params, ds \in {<<>>, CharX},
     s \in Bodies, gs \in {<<>>, <<G>>}, c \in Calls}
H == FunctionDefinition("h", "INT", <<>>, Body(Num))
Twice == Program(IntX, <<H, H>>, SkipStatement)

Pairable == {Driver[1], Driver[3], Driver[4], Driver[8], Driver[14],
             Program(IntX, <<>>, BranchStatement(x, SkipStatement, SkipStatement))}
MCBatches ==
  {Driver, <<Twice>>} \cup {<<p>> : p \in Plain \cup WithFunctions}
    \cup {<<p, q>> : p, q \in Pairable}

\* What the proofs assume of programs is true of these.
RECURSIVE MCHeight(_)
MCHeight(n) == LET below == {MCHeight(n.kids[k]) : k \in DOMAIN n.kids}
               IN  IF below = {} THEN 0 ELSE 1 + Max(below)
AllTrees == UNION {Nodes(p) : p \in UNION {Range(b) : b \in Batches}}
ASSUME TreesAssumption ==
  WellFormed(AllTrees) /\ Descends([n \in AllTrees |-> MCHeight(n)], AllTrees)
=============================================================================
