------------------------------ MODULE CalcRules ------------------------------
(***************************************************************************)
(* What a mycalc program means: values and tables without a call stack or   *)
(* an order of evaluation, and the definite assignment rule of compilers.   *)
(* Both are whatever satisfies their rules (Semantics): every rule takes as *)
(* parameters the operators it defines, and for TLC a module that EXTENDS   *)
(* this one makes them the recursion over the tree.                         *)
(***************************************************************************)
EXTENDS Calc

CONSTANTS
  Value(_, _),       \* of an expression in a table, and how its evaluation may die
  Meaning(_, _),     \* what a statement makes of a table, or of a fate that is sealed
  Rest(_, _, _),     \* the same, of the statements of a sequence after the first k
  Reads(_),          \* the variables of an expression
  Assigned(_, _),    \* the variables surely assigned after a statement
  Assigns(_, _, _)   \* the same, after the rest of a sequence

\* A value, and the ways its evaluation may kill the process.
ValueOf(V(_, _), n, t) ==
  LET l == V(n.kids[1], t)
      r == V(n.kids[2], t)
      Is(v)       == [val |-> v, fate |-> {}]
      Fails(fate) == [val |-> 0, fate |-> fate]
  IN
  CASE n.kind = "NUM"    -> Is(n.val)
    [] n.kind = "VAR"    -> IF n.name \in DOMAIN t THEN Is(t[n.name]) ELSE Fails({"terminate"})
    [] n.kind = "BINARY" ->
         IF l.fate \cup r.fate # {} THEN Fails(l.fate \cup r.fate)
         ELSE IF Divides(n.name, l.val, r.val) THEN Is(Apply(n.name, l.val, r.val))
         ELSE Fails({"SIGFPE"})

With(t, v, x) == [w \in DOMAIN t \cup {v} |-> IF w = v THEN x ELSE t[w]]

\* Statements take a table, or a fate that is sealed, to another one.
MeaningOf(M(_, _), R(_, _, _), n, s) ==
  LET v == Value(n.kids[1], s.table) IN
  IF s.fate # {} THEN s
  ELSE IF n.kind = "SEQUENCE" THEN R(n, 0, s)
  ELSE IF v.fate # {} THEN [table |-> s.table, fate |-> v.fate]
  ELSE CASE n.kind = "ASSIGN" -> [table |-> With(s.table, n.name, v.val), fate |-> {}]
         [] n.kind = "IF"     -> IF v.val # 0 THEN M(n.kids[2], s) ELSE M(n.kids[3], s)
         [] n.kind = "WHILE"  -> IF v.val # 0 THEN M(n, M(n.kids[2], s)) ELSE s

RestOf(M(_, _), R(_, _, _), n, k, s) ==
  IF s.fate # {} \/ k = Len(n.kids) THEN s ELSE R(n, k + 1, M(n.kids[k + 1], s))

Start == [table |-> NoTable, fate |-> {}]
Outcome(p) == Meaning(p, Start)

ReadsOf(R(_), n) ==
  (IF n.kind = "VAR" THEN {n.name} ELSE {}) \cup UNION {R(n.kids[i]) : i \in DOMAIN n.kids}

\* The variables surely assigned after n when those of vs are before it; none
\* are when a read of n may come before any assignment.
AssignedOf(A(_, _), R(_, _, _), n, vs) ==
  LET Sub(k) == A(n.kids[k], vs)
      none   == [ok |-> FALSE, vars |-> {}]
  IN
  IF n.kind = "SEQUENCE" THEN R(n, 0, vs)
  ELSE IF ~(Reads(n.kids[1]) \subseteq vs) THEN none
  ELSE CASE n.kind = "ASSIGN" -> [ok |-> TRUE, vars |-> vs \cup {n.name}]
         [] n.kind = "IF"     -> IF Sub(2).ok /\ Sub(3).ok
                                 THEN [ok |-> TRUE, vars |-> Sub(2).vars \cap Sub(3).vars] ELSE none
         [] n.kind = "WHILE"  -> [ok |-> Sub(2).ok, vars |-> vs]

AssignsOf(A(_, _), R(_, _, _), n, k, vs) ==
  IF k = Len(n.kids) THEN [ok |-> TRUE, vars |-> vs]
  ELSE LET a == A(n.kids[k + 1], vs) IN IF a.ok THEN R(n, k + 1, a.vars) ELSE a

\* The rules hold of the nodes of Trees. A loop that does not end may mean any
\* one fate: the rules hold of it too, and nothing is said of it.
Semantics(Trees) ==
  \A n \in Trees :
    /\ n.kind \in Expressions => \A t : Value(n, t) = ValueOf(Value, n, t)
    /\ n.kind \in Statements  => \A s : Meaning(n, s) = MeaningOf(Meaning, Rest, n, s)
    /\ \A k \in 0 .. Len(n.kids) : \A s : Rest(n, k, s) = RestOf(Meaning, Rest, n, k, s)
    /\ Reads(n) = ReadsOf(Reads, n)
    /\ n.kind \in Statements  => \A vs : Assigned(n, vs) = AssignedOf(Assigned, Assigns, n, vs)
    /\ \A k \in 0 .. Len(n.kids) : \A vs : Assigns(n, k, vs) = AssignsOf(Assigned, Assigns, n, k, vs)

-----------------------------------------------------------------------------
(* Properties *)

\* A program that is run to its end prints the table it means, its own variables
\* and no others, and one that dies dies of a failure the program has, whichever
\* operand is evaluated first (Test::execute, Program::run).
OutcomeIsRight ==
  /\ \A i \in DOMAIN printed : Outcome(testcases[i]) = [table |-> printed[i], fate |-> {}]
  /\ Died => mode \in Outcome(testcases[Len(printed) + 1]).fate

\* main runs every program of the list once, in order, from an empty table to
\* the one it means by itself; a death keeps it from the rest (test_ast.cc 91-102).
EndsOf(p) ==
  IF Outcome(p).fate = {} THEN {Outcome(p)}
  ELSE {[table |-> NoTable, fate |-> {f}] : f \in Outcome(p).fate}
Loses(end) == end.fate # {}
Finished ==
  LET tables == [i \in DOMAIN printed |-> [table |-> printed[i], fate |-> {}]]
  IN  IF Died THEN Append(tables, [table |-> NoTable, fate |-> {mode}]) ELSE tables
Main == INSTANCE Batch WITH
  Ends <- EndsOf, Fatal <- Loses, programs <- testcases, ends <- Finished
ImplementsBatch == Main!Spec

\* The uncaught string of SymbolTable::get (ast.cc 20) comes only from a program
\* in which some path reads a variable before it assigns it.
ReadsAreAssigned ==
  mode = "terminate" => ~Assigned(testcases[Len(printed) + 1], {}).ok

\* Program::run comes to an end when the loops of the program do, by a table
\* that is printed or by a death (ast.cc 160-164).
Terminates == <>Done
=============================================================================
