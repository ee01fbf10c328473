-------------------------------- MODULE MCCalc --------------------------------
(***************************************************************************)
(* Programs for TLC, all of whose loops end: the four of test_ast.cc, one   *)
(* after the other, and families that overflow, divide and read variables   *)
(* that only some paths assign.                                             *)
(***************************************************************************)
EXTENDS CalcRules

\* The semantics by recursion over the tree: TLC takes these for the operators
\* of CalcRules wherever their rules name them.
RECURSIVE MCValue(_, _)
MCValue(n, t) == ValueOf(MCValue, n, t)
RECURSIVE MCMeaning(_, _), MCRest(_, _, _)
MCMeaning(n, s) == MeaningOf(MCMeaning, MCRest, n, s)
MCRest(n, k, s) == RestOf(MCMeaning, MCRest, n, k, s)
RECURSIVE MCReads(_)
MCReads(n) == ReadsOf(MCReads, n)
RECURSIVE MCAssigned(_, _), MCAssigns(_, _, _)
MCAssigned(n, vs) == AssignedOf(MCAssigned, MCAssigns, n, vs)
MCAssigns(n, k, vs) == AssignsOf(MCAssigned, MCAssigns, n, k, vs)

N(kind, name, val, kids) == [kind |-> kind, name |-> name, val |-> val, kids |-> kids]
Num(v)      == N("NUM", "none", v, <<>>)
Var(v)      == N("VAR", v, 0, <<>>)
Op(o, l, r) == N("BINARY", o, 0, <<l, r>>)
Set(v, e)   == N("ASSIGN", v, 0, <<e>>)
Do(ss)      == N("SEQUENCE", "none", 0, ss)
If(c, s, t) == N("IF", "none", 0, <<c, s, t>>)
While(c, s) == N("WHILE", "none", 0, <<c, s>>)

x == Var("x")
y == Var("y")
Add1(v) == Set(v, Op("+", Var(v), Num(1)))

\* test_ast.cc 21-88 and what its comment 105-121 says came out
TestAst == <<
  Set("x", Num(10)),
  Do(<<Set("x", Num(10)), Set("y", Num(5)), Set("z", Op("+", x, y))>>),
  Do(<<Set("x", Num(6)), If(Op(">", x, Num(5)), Set("x", Num(10)), Set("x", Num(3)))>>),
  Do(<<Set("x", Num(1)), Set("s", Num(0)),
       While(Op("<", x, Num(11)), Do(<<Set("s", Op("+", Var("s"), x)), Add1("x")>>))>>) >>
Recorded == << [x |-> 10], [x |-> 10, y |-> 5, z |-> 15], [x |-> 10], [s |-> 55, x |-> 11] >>

\* What the comment of test_ast.cc records of its four programs comes out.
RecordedOutput == testcases = TestAst => \A i \in DOMAIN printed : printed[i] = Recorded[i]

Ends     == {Num(-Half), Num(-1), Num(0), Num(Half - 1)}
Operands == Ends \cup {y}
Straight ==
  {Do(<<Set("x", e), Set("z", Op(o, x, f))>>) :
     e \in Ends, f \in Operands, o \in {"+", "-", "*", "/", "<", ">"}}
Branches ==
  {Do(<<Set("x", e), If(Op("<", x, Num(0)), Set("y", x), s), Set("z", Op("/", y, f))>>) :
     e \in Ends, s \in {Do(<<>>), Set("y", Num(2)), Set("w", y)}, f \in {x, Var("w")}}
Loops ==
  {Do(<<Set("x", e), While(Op("<", c, x), Do(<<Set("y", x), Add1("x")>>)), Set("z", y)>>) :
     e \in {Num(-1), Num(Half - 3), Num(Half - 2)}, c \in {Num(0), Op("-", Num(Half - 2), Num(1))}}

Singles == Straight \cup Branches \cup Loops
MCBatches == {TestAst} \cup {<<p>> : p \in Singles} \cup {<<p, q>> : p \in Branches, q \in Branches}

\* What the proofs assume of programs is true of these.
RECURSIVE MCNodes(_)
MCNodes(n) == {n} \cup UNION {MCNodes(n.kids[k]) : k \in DOMAIN n.kids}
ASSUME TreesAssumption == WellFormed(UNION {MCNodes(p) : p \in UNION {Range(b) : b \in Batches}})
=============================================================================
