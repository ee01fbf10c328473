--------------------------- MODULE CalcRulesProofs ---------------------------
(***************************************************************************)
(* The calculator's tables, deaths and reads, for every width of int, every *)
(* set of well-formed programs and whatever satisfies the rules.            *)
(***************************************************************************)
EXTENDS CalcRules, CalcProofs

-----------------------------------------------------------------------------
(* The invariant *)

Running  == mode \in {"call", "return"}
Program  == testcases[Len(printed) + 1]
Now      == [table |-> symbolTable, fate |-> {}]
Child(f) == f.node.kids[f.at]
Evaluating(f) == HoldsExpression(f.node, f.at)

\* What a call of n, made with the table of now, should give.
Called(n) == IF n.kind \in Expressions THEN Value(n, symbolTable) ELSE Meaning(n, Now)

\* What the call that returned last gave to the frame on top.
Returned == IF stack # <<>> /\ Evaluating(Top) THEN [val |-> value, fate |-> {}] ELSE Now

\* What frame f makes of s, given to it by the statement it called.
After(f, s) ==
  CASE f.node.kind = "SEQUENCE" -> Rest(f.node, f.at, s)
    [] f.node.kind = "WHILE"    -> Meaning(f.node, s)
    [] f.node.kind = "IF"       -> s

\* The frames below i wait for the frame above them, and so does the top one
\* once that has returned.
Waiting == {i \in DOMAIN stack : i < Len(stack) \/ mode = "return"}

\* Every frame that waits does so for a child, the one above it is a call of
\* that child, the lowest a call of the program, and no expression is below a
\* statement.
LinkInv ==
  Running =>
    /\ Program.kind \in Statements
    /\ stack # <<>> => stack[1].node = Program
    /\ \A i \in Waiting : stack[i].at \in DOMAIN stack[i].node.kids
    /\ \A i \in 1 .. Len(stack) - 1 : stack[i + 1].node = Child(stack[i])
    /\ \A i, j \in DOMAIN stack :
         i < j /\ stack[i].node.kind \in Expressions => stack[j].node.kind \in Expressions

\* The operands at hand have the values they should.
OperandsInv ==
  \A i \in DOMAIN stack : stack[i].node.kind = "BINARY" =>
    \A k \in DOMAIN stack[i].args :
      Value(stack[i].node.kids[k], symbolTable) = [val |-> stack[i].args[k], fate |-> {}]

\* R[i] is what the call of frame i will give, and R[Len(stack) + 1] what the
\* last call did: R[1] is what the program means, and whatever may kill a call
\* is a fate of the program.
Promises(R) ==
  /\ R[1] = Outcome(Program)
  /\ \A i \in Waiting :
       R[i] = IF Evaluating(stack[i]) THEN Called(stack[i].node) ELSE After(stack[i], R[i + 1])
  /\ \A i \in DOMAIN stack : R[i].fate \subseteq R[1].fate
  /\ mode = "call" => R[Len(stack)] = Called(Node)
  /\ mode = "return" => R[Len(stack) + 1] = Returned
  /\ mode = "return" /\ stack # <<>> /\ Evaluating(Top) => Called(Child(Top)) = Returned

OutcomeInv ==
  /\ \A i \in DOMAIN printed : Outcome(testcases[i]) = [table |-> printed[i], fate |-> {}]
  /\ Died => mode \in Outcome(Program).fate
  /\ Running => OperandsInv /\ \E R : Promises(R)

\* V[i] are variables that were assigned when the statement of frame i was
\* called, enough for the rule to find it right, and what the rule then says is
\* assigned after it is what the frames below count on.
Counts(f, v, w) ==
  LET a == Assigned(Child(f), w) IN
  /\ a.ok
  /\ f.node.kind = "SEQUENCE" =>
       /\ Assigns(f.node, f.at, a.vars).ok
       /\ Assigned(f.node, v).vars \subseteq Assigns(f.node, f.at, a.vars).vars
  /\ f.node.kind = "IF" => Assigned(f.node, v).vars \subseteq a.vars

Assignments(V) ==
  /\ \A i \in DOMAIN stack :
       /\ V[i] \subseteq DOMAIN symbolTable
       /\ IF stack[i].node.kind \in Expressions THEN Reads(stack[i].node) \subseteq DOMAIN symbolTable
                                                ELSE Assigned(stack[i].node, V[i]).ok
  /\ \A i \in Waiting : ~Evaluating(stack[i]) => Counts(stack[i], V[i], V[i + 1])
  /\ mode = "return" /\ stack # <<>> /\ ~Evaluating(Top) =>
       Assigned(Child(Top), V[Len(stack) + 1]).vars \subseteq DOMAIN symbolTable

AssignedInv ==
  /\ ReadsAreAssigned
  /\ Running /\ Assigned(Program, {}).ok => \E V : Assignments(V)

ProgramsInv == \A i \in DOMAIN testcases : testcases[i].kind \in Statements

Inv(Trees) == ValueInv(Trees) /\ ProgramsInv /\ LinkInv /\ OutcomeInv /\ AssignedInv

-----------------------------------------------------------------------------
(* The rules, one class at a time *)

LEMMA NumRule ==
  ASSUME NEW Trees, Semantics(Trees), NEW n \in Trees, n.kind = "NUM", NEW t
  PROVE  Value(n, t) = [val |-> n.val, fate |-> {}]
<1>1. Value(n, t) = ValueOf(Value, n, t)
  BY DEF Semantics, Expressions
<1>2. QED  BY <1>1 DEF ValueOf

LEMMA VarRule ==
  ASSUME NEW Trees, Semantics(Trees), NEW n \in Trees, n.kind = "VAR", NEW t
  PROVE  /\ n.name \in DOMAIN t => Value(n, t) = [val |-> t[n.name], fate |-> {}]
         /\ n.name \notin DOMAIN t => Value(n, t).fate = {"terminate"}
         /\ n.name \in Reads(n)
<1>1. Value(n, t) = ValueOf(Value, n, t)
  BY DEF Semantics, Expressions
<1>2. Reads(n) = ReadsOf(Reads, n)
  BY DEF Semantics
<1>3. QED  BY <1>1, <1>2 DEF ValueOf, ReadsOf

LEMMA BinaryRule ==
  ASSUME NEW Trees, Semantics(Trees), NEW n \in Trees, n.kind = "BINARY", NEW t
  PROVE  LET l == Value(n.kids[1], t)
             r == Value(n.kids[2], t)
         IN  /\ l.fate \subseteq Value(n, t).fate
             /\ r.fate \subseteq Value(n, t).fate
             /\ \A a, b : l = [val |-> a, fate |-> {}] /\ r = [val |-> b, fate |-> {}] =>
                  /\ Divides(n.name, a, b) =>
                       Value(n, t) = [val |-> Apply(n.name, a, b), fate |-> {}]
                  /\ ~Divides(n.name, a, b) => Value(n, t).fate = {"SIGFPE"}
<1>1. Value(n, t) = ValueOf(Value, n, t)
  BY DEF Semantics, Expressions
<1>2. QED  BY <1>1 DEF ValueOf

LEMMA ReadsRule ==
  ASSUME NEW Trees, Semantics(Trees), NEW n \in Trees, NEW k \in DOMAIN n.kids
  PROVE  Reads(n.kids[k]) \subseteq Reads(n)
<1>1. Reads(n) = ReadsOf(Reads, n)
  BY DEF Semantics
<1>2. QED  BY <1>1 DEF ReadsOf

\* A fate is sealed: no statement changes it.
LEMMA SealedRule ==
  ASSUME NEW Trees, Semantics(Trees), NEW n \in Trees, n.kind \in Statements, NEW s, s.fate # {}
  PROVE  Meaning(n, s) = s
<1>1. Meaning(n, s) = MeaningOf(Meaning, Rest, n, s)
  BY DEF Semantics
<1>2. QED  BY <1>1 DEF MeaningOf

LEMMA RestRule ==
  ASSUME NEW Trees, WellFormed(Trees), Semantics(Trees), NEW n \in Trees, NEW s
  PROVE  /\ Rest(n, Len(n.kids), s) = s
         /\ \A k \in 0 .. Len(n.kids) : s.fate # {} => Rest(n, k, s) = s
<1>1. \A k \in 0 .. Len(n.kids) : Rest(n, k, s) = RestOf(Meaning, Rest, n, k, s)
  BY DEF Semantics
<1>2. Len(n.kids) \in 0 .. Len(n.kids)
  BY DEF WellFormed
<1>3. QED  BY <1>1, <1>2 DEF RestOf

LEMMA RestStep ==
  ASSUME NEW Trees, Semantics(Trees), NEW n \in Trees, NEW s, s.fate = {},
         NEW k \in 0 .. Len(n.kids), k # Len(n.kids), NEW j, j = k + 1
  PROVE  Rest(n, k, s) = Rest(n, j, Meaning(n.kids[j], s))
<1>1. Rest(n, k, s) = RestOf(Meaning, Rest, n, k, s)
  BY DEF Semantics
<1>2. QED  BY <1>1 DEF RestOf

LEMMA SequenceRule ==
  ASSUME NEW Trees, Semantics(Trees), NEW n \in Trees, n.kind = "SEQUENCE", NEW s, s.fate = {}
  PROVE  Meaning(n, s) = Rest(n, 0, s)
<1>1. Meaning(n, s) = MeaningOf(Meaning, Rest, n, s)
  BY DEF Semantics, Statements
<1>2. QED  BY <1>1 DEF MeaningOf

\* The statements that begin with an expression.
LEMMA ConditionRule ==
  ASSUME NEW Trees, Semantics(Trees), NEW n \in Trees, n.kind \in Statements \ {"SEQUENCE"},
         NEW t
  PROVE  LET s == [table |-> t, fate |-> {}] IN
         Value(n.kids[1], t).fate \subseteq Meaning(n, s).fate
<1> DEFINE s == [table |-> t, fate |-> {}]
<1>1. Meaning(n, s) = MeaningOf(Meaning, Rest, n, s)
  BY DEF Semantics, Statements
<1>2. s.fate = {} /\ s.table = t
  OBVIOUS
<1>3. Value(n.kids[1], t).fate # {} => Meaning(n, s).fate = Value(n.kids[1], t).fate
  BY <1>1, <1>2 DEF MeaningOf
<1>4. QED  BY <1>3

LEMMA AssignRule ==
  ASSUME NEW Trees, Semantics(Trees), NEW n \in Trees, n.kind = "ASSIGN",
         NEW t, NEW v, Value(n.kids[1], t) = [val |-> v, fate |-> {}],
         NEW s, s = [table |-> t, fate |-> {}]
  PROVE  Meaning(n, s) = [table |-> With(t, n.name, v), fate |-> {}]
<1>1. Meaning(n, s) = MeaningOf(Meaning, Rest, n, s)
  BY DEF Semantics, Statements
<1>2. s.fate = {} /\ s.table = t
  OBVIOUS
<1>3. Value(n.kids[1], s.table).fate = {} /\ Value(n.kids[1], s.table).val = v
  BY <1>2
<1>4. QED  BY <1>1, <1>2, <1>3 DEF MeaningOf

LEMMA IfRule ==
  ASSUME NEW Trees, Semantics(Trees), NEW n \in Trees, n.kind = "IF",
         NEW t, NEW v, Value(n.kids[1], t) = [val |-> v, fate |-> {}],
         NEW s, s = [table |-> t, fate |-> {}],
         NEW k, k = IF v # 0 THEN 2 ELSE 3
  PROVE  Meaning(n, s) = Meaning(n.kids[k], s)
<1>1. Meaning(n, s) = MeaningOf(Meaning, Rest, n, s)
  BY DEF Semantics, Statements
<1>2. s.fate = {} /\ s.table = t
  OBVIOUS
<1>3. Value(n.kids[1], s.table).fate = {} /\ Value(n.kids[1], s.table).val = v
  BY <1>2
<1>4. QED  BY <1>1, <1>2, <1>3 DEF MeaningOf

LEMMA WhileRule ==
  ASSUME NEW Trees, Semantics(Trees), NEW n \in Trees, n.kind = "WHILE",
         NEW t, NEW v, Value(n.kids[1], t) = [val |-> v, fate |-> {}],
         NEW s, s = [table |-> t, fate |-> {}]
  PROVE  Meaning(n, s) = IF v # 0 THEN Meaning(n, Meaning(n.kids[2], s)) ELSE s
<1>1. Meaning(n, s) = MeaningOf(Meaning, Rest, n, s)
  BY DEF Semantics, Statements
<1>2. s.fate = {} /\ s.table = t
  OBVIOUS
<1>3. Value(n.kids[1], s.table).fate = {} /\ Value(n.kids[1], s.table).val = v
  BY <1>2
<1>4. QED  BY <1>1, <1>2, <1>3 DEF MeaningOf

\* What is assigned after the statements of each class.
LEMMA AssignsRule ==
  ASSUME NEW Trees, WellFormed(Trees), Semantics(Trees), NEW n \in Trees, NEW vs
  PROVE  Assigns(n, Len(n.kids), vs) = [ok |-> TRUE, vars |-> vs]
<1>1. \A k \in 0 .. Len(n.kids) : Assigns(n, k, vs) = AssignsOf(Assigned, Assigns, n, k, vs)
  BY DEF Semantics
<1>2. Len(n.kids) \in 0 .. Len(n.kids)
  BY DEF WellFormed
<1>3. QED  BY <1>1, <1>2 DEF AssignsOf

LEMMA AssignsStep ==
  ASSUME NEW Trees, Semantics(Trees), NEW n \in Trees, NEW vs,
         NEW k \in 0 .. Len(n.kids), k # Len(n.kids), NEW j, j = k + 1, Assigns(n, k, vs).ok
  PROVE  /\ Assigned(n.kids[j], vs).ok
         /\ Assigns(n, k, vs) = Assigns(n, j, Assigned(n.kids[j], vs).vars)
<1>1. Assigns(n, k, vs) = AssignsOf(Assigned, Assigns, n, k, vs)
  BY DEF Semantics
<1>2. QED  BY <1>1 DEF AssignsOf

LEMMA AssignedRule ==
  ASSUME NEW Trees, Semantics(Trees), NEW n \in Trees, n.kind \in Statements, NEW vs,
         Assigned(n, vs).ok
  PROVE  /\ n.kind = "SEQUENCE" => Assigned(n, vs) = Assigns(n, 0, vs)
         /\ n.kind # "SEQUENCE" => Reads(n.kids[1]) \subseteq vs
         /\ n.kind = "ASSIGN" => Assigned(n, vs).vars = vs \cup {n.name}
         /\ n.kind = "IF" => \A k \in {2, 3} : /\ Assigned(n.kids[k], vs).ok
                                               /\ Assigned(n, vs).vars \subseteq Assigned(n.kids[k], vs).vars
         /\ n.kind = "WHILE" => Assigned(n.kids[2], vs).ok /\ Assigned(n, vs).vars = vs
<1>1. Assigned(n, vs) = AssignedOf(Assigned, Assigns, n, vs)
  BY DEF Semantics
<1>2. n.kind = "SEQUENCE" => Assigned(n, vs) = Assigns(n, 0, vs)
  BY <1>1 DEF AssignedOf
<1>3. n.kind # "SEQUENCE" => Reads(n.kids[1]) \subseteq vs
  BY <1>1 DEF AssignedOf
<1>4. n.kind = "ASSIGN" => Assigned(n, vs).vars = vs \cup {n.name}
  BY <1>1, <1>3 DEF AssignedOf
<1>5. n.kind = "IF" => \A k \in {2, 3} : /\ Assigned(n.kids[k], vs).ok
                                         /\ Assigned(n, vs).vars \subseteq Assigned(n.kids[k], vs).vars
  BY <1>1, <1>3 DEF AssignedOf
<1>6. n.kind = "WHILE" => Assigned(n.kids[2], vs).ok /\ Assigned(n, vs).vars = vs
  BY <1>1, <1>3 DEF AssignedOf
<1>7. QED  BY <1>2, <1>3, <1>4, <1>5, <1>6

-----------------------------------------------------------------------------
(* The stack *)

\* The top of a stack of m + 1 frames, and the frames that wait.
LEMMA StackFacts ==
  ASSUME NEW Trees, ValueInv(Trees), NEW m \in Nat, Len(stack) = m + 1
  PROVE  /\ DOMAIN stack = 1 .. m + 1 /\ stack # <<>> /\ Top = stack[m + 1]
         /\ \A i \in 1 .. m + 1 : stack[i] \in Frames(Trees) /\ stack[i].node \in Trees
         /\ mode = "call" => Waiting = 1 .. m
         /\ mode = "return" => Waiting = 1 .. m + 1
<1>1. stack \in Seq(Frames(Trees))
  BY DEF ValueInv
<1>2. DOMAIN stack = 1 .. m + 1 /\ stack # <<>>
  BY <1>1
<1>3. Top = stack[m + 1]
  BY DEF Top, Last
<1>4. \A i \in 1 .. m + 1 : stack[i] \in Frames(Trees)
  BY <1>1, <1>2
<1>5. \A i \in 1 .. m + 1 : stack[i].node \in Trees
  BY <1>4 DEF Frames
<1>6. Waiting = {i \in 1 .. m + 1 : i < m + 1 \/ mode = "return"}
  BY <1>2 DEF Waiting
<1>7. mode = "call" => Waiting = 1 .. m
  BY <1>6
<1>8. mode = "return" => Waiting = 1 .. m + 1
  BY <1>6
<1>9. QED  BY <1>2, <1>3, <1>4, <1>5, <1>7, <1>8

LEMMA SomeDepth ==
  ASSUME NEW Trees, ValueInv(Trees), stack # <<>>
  PROVE  \E m \in Nat : Len(stack) = m + 1
<1>1. stack \in Seq(Frames(Trees))
  BY DEF ValueInv
<1>2. Len(stack) \in Nat /\ Len(stack) # 0
  BY <1>1
<1>3. Len(stack) - 1 \in Nat /\ Len(stack) = (Len(stack) - 1) + 1
  BY <1>2
<1>4. QED  BY <1>3

LEMMA CallStack ==
  ASSUME NEW Trees, ValueInv(Trees), NEW m \in Nat, Len(stack) = m + 1,
         NEW f, NEW n, Call(f, n)
  PROVE  /\ Len(stack') = m + 2
         /\ DOMAIN stack' = 1 .. m + 2
         /\ \A i \in 1 .. m : stack'[i] = stack[i]
         /\ stack'[m + 1] = f /\ stack'[m + 2] = Frame(n)
         /\ Waiting' = 1 .. m + 1
         /\ Node' = n /\ mode' = "call" /\ stack' # <<>>
         /\ UNCHANGED <<testcases, printed, symbolTable, value>>
<1>1. stack \in Seq(Frames(Trees)) /\ Front(stack) = [i \in 1 .. m |-> stack[i]]
  BY DEF ValueInv, Front
<1>2. stack' = Append(Append(Front(stack), f), Frame(n))
  BY DEF Call
<1>3. Front(stack) \in Seq(Frames(Trees) \cup {f, Frame(n)})
  BY <1>1
<1>4. Len(Front(stack)) = m
  BY <1>1
<1>5. /\ Len(stack') = m + 2 /\ stack' \in Seq(Frames(Trees) \cup {f, Frame(n)})
      /\ \A i \in 1 .. m : stack'[i] = Front(stack)[i]
      /\ stack'[m + 1] = f /\ stack'[m + 2] = Frame(n)
  BY <1>2, <1>3, <1>4
<1>6. DOMAIN stack' = 1 .. m + 2 /\ stack' # <<>>
  BY <1>5
<1>7. Node' = n
  BY <1>5 DEF Node, Top, Last, Frame
<1>8. \A i \in 1 .. m : stack'[i] = stack[i]
  BY <1>1, <1>5
<1>9. mode' = "call" /\ UNCHANGED <<testcases, printed, symbolTable, value>>
  BY DEF Call
<1>10. Waiting' = {i \in 1 .. m + 2 : i < m + 2}
  BY <1>5, <1>6, <1>9 DEF Waiting
<1>11. Waiting' = 1 .. m + 1
  BY <1>10
<1>12. QED  BY <1>5, <1>6, <1>7, <1>8, <1>9, <1>11

LEMMA ReturnStack ==
  ASSUME NEW Trees, ValueInv(Trees), NEW m \in Nat, Len(stack) = m + 1, Return
  PROVE  /\ Len(stack') = m
         /\ DOMAIN stack' = 1 .. m
         /\ \A i \in 1 .. m : stack'[i] = stack[i]
         /\ Waiting' = 1 .. m
         /\ m > 0 => Top' = stack[m]
         /\ mode' = "return" /\ (stack' # <<>> <=> m > 0)
         /\ UNCHANGED <<testcases, printed>>
<1>1. stack \in Seq(Frames(Trees)) /\ Front(stack) = [i \in 1 .. m |-> stack[i]]
  BY DEF ValueInv, Front
<1>2. stack' = [i \in 1 .. m |-> stack[i]] /\ mode' = "return" /\ UNCHANGED <<testcases, printed>>
  BY <1>1 DEF Return
<1>3. DOMAIN stack' = 1 .. m /\ \A i \in 1 .. m : stack'[i] = stack[i]
  BY <1>2
<1>4. stack' \in Seq(Frames(Trees))
  <2>1. \A i \in 1 .. m : stack[i] \in Frames(Trees)
    BY <1>1
  <2>2. QED  BY <1>2, <2>1
<1>5. Len(stack') = m
  BY <1>3, <1>4
<1>6. stack' # <<>> <=> m > 0
  BY <1>4, <1>5
<1>7. m > 0 => Top' = stack[m]
  BY <1>3, <1>5 DEF Top, Last
<1>8. Waiting' = 1 .. m
  BY <1>2, <1>3 DEF Waiting
<1>9. QED  BY <1>2, <1>3, <1>5, <1>6, <1>7, <1>8

LEMMA Classes ==
  ASSUME NEW Trees, WellFormed(Trees), NEW n \in Trees, NEW k \in DOMAIN n.kids
  PROVE  /\ n.kids[k] \in Trees
         /\ HoldsExpression(n, k) => n.kids[k].kind \in Expressions
         /\ ~HoldsExpression(n, k) => n.kids[k].kind \in Statements
         /\ n.kind \in Expressions => n.kind = "BINARY"
<1>1. n.kids \in Seq(Trees)
  BY DEF WellFormed
<1>2. n.kids[k] \in Trees
  BY <1>1
<1>3. n.kids[k].kind \in IF HoldsExpression(n, k) THEN Expressions ELSE Statements
  BY DEF WellFormed
<1>4. n.kids # <<>>
  BY <1>1
<1>5. n.kind \notin {"NUM", "VAR"}
  BY <1>4 DEF WellFormed
<1>6. QED  BY <1>2, <1>3, <1>5 DEF Expressions

LEMMA Disjoint == Expressions \cap Statements = {}
BY DEF Expressions, Statements

\* A call is a child of the frame that waits for it.
LEMMA CallLinks ==
  ASSUME NEW Trees, WellFormed(Trees), ValueInv(Trees), LinkInv, Running,
         NEW m \in Nat, Len(stack) = m + 1,
         NEW k \in DOMAIN Node.kids, NEW f, f.node = Node, f.at = k, Call(f, Node.kids[k])
  PROVE  LinkInv'
<1>1. /\ DOMAIN stack = 1 .. m + 1 /\ stack # <<>> /\ Top = stack[m + 1]
      /\ \A i \in 1 .. m + 1 : stack[i].node \in Trees
      /\ \A i \in 1 .. m : i \in Waiting
  <2>1. mode = "call" \/ mode = "return"
    BY DEF Running
  <2>2. \A i \in 1 .. m : i \in 1 .. m + 1
    OBVIOUS
  <2>3. Waiting = 1 .. m \/ Waiting = 1 .. m + 1
    BY <2>1, StackFacts
  <2>4. QED  BY <2>2, <2>3, StackFacts
<1>2. /\ DOMAIN stack' = 1 .. m + 2
      /\ \A i \in 1 .. m : stack'[i] = stack[i]
      /\ stack'[m + 1] = f /\ stack'[m + 2] = Frame(Node.kids[k])
      /\ Len(stack') = m + 2
      /\ Waiting' = 1 .. m + 1
  BY CallStack
<1>3. Program' = Program
  BY CallStack DEF Program
<1>4. /\ Program.kind \in Statements
      /\ stack[1].node = Program
      /\ \A i \in Waiting : stack[i].at \in DOMAIN stack[i].node.kids
      /\ \A i \in 1 .. Len(stack) - 1 : stack[i + 1].node = Child(stack[i])
      /\ \A i, j \in DOMAIN stack :
           i < j /\ stack[i].node.kind \in Expressions => stack[j].node.kind \in Expressions
  BY <1>1 DEF LinkInv
<1>5. Node = stack[m + 1].node /\ Node \in Trees
  BY <1>1 DEF Node
<1>6. \A i \in 1 .. m + 1 : stack'[i].node = stack[i].node
  <2>1. \A i \in 1 .. m + 1 : i \in 1 .. m \/ i = m + 1
    OBVIOUS
  <2>2. QED  BY <1>2, <1>5, <2>1
<1>7. stack'[m + 2].node = Node.kids[k]
  BY <1>2 DEF Frame
<1>8. stack'[1].node = Program'
  BY <1>3, <1>4, <1>6
<1>9. \A i \in Waiting' : stack'[i].at \in DOMAIN stack'[i].node.kids
  <2>1. \A i \in 1 .. m : stack'[i].at \in DOMAIN stack'[i].node.kids
    BY <1>1, <1>2, <1>4
  <2>2. stack'[m + 1].at \in DOMAIN stack'[m + 1].node.kids
    BY <1>2
  <2>3. \A i \in 1 .. m + 1 : i \in 1 .. m \/ i = m + 1
    OBVIOUS
  <2>4. QED  BY <1>2, <2>1, <2>2, <2>3
<1>10. \A i \in 1 .. m + 1 : stack'[i + 1].node = Child(stack'[i])
  <2>1. ASSUME NEW i \in 1 .. m PROVE stack'[i + 1].node = Child(stack'[i])
    <3>1. i \in 1 .. Len(stack) - 1 /\ i + 1 \in 1 .. m + 1
      OBVIOUS
    <3>2. stack[i + 1].node = Child(stack[i])
      BY <1>4, <3>1
    <3>3. QED  BY <1>2, <1>6, <3>1, <3>2
  <2>2. (m + 1) + 1 = m + 2
    OBVIOUS
  <2>3. stack'[(m + 1) + 1].node = Child(stack'[m + 1])
    BY <1>2, <1>7, <2>2 DEF Child
  <2>4. \A i \in 1 .. m + 1 : i \in 1 .. m \/ i = m + 1
    OBVIOUS
  <2>5. QED  BY <2>1, <2>3, <2>4
<1>11. ASSUME NEW i \in DOMAIN stack', NEW j \in DOMAIN stack', i < j,
              stack'[i].node.kind \in Expressions
       PROVE  stack'[j].node.kind \in Expressions
  <2>1. i \in 1 .. m + 1 /\ i \in DOMAIN stack
    BY <1>1, <1>2, <1>11
  <2>2. stack[i].node.kind \in Expressions
    BY <1>6, <1>11, <2>1
  <2>3. CASE j \in 1 .. m + 1
    BY <1>1, <1>4, <1>6, <1>11, <2>1, <2>2, <2>3
  <2>4. CASE j = m + 2
    <3>1. Node.kind \in Expressions
      <4>1. i = m + 1 \/ (i < m + 1 /\ m + 1 \in DOMAIN stack)
        BY <1>1, <2>1
      <4>2. QED  BY <1>4, <1>5, <2>1, <2>2, <4>1
    <3>2. HoldsExpression(Node, k)
      BY <1>5, <3>1, Classes DEF HoldsExpression
    <3>3. QED  BY <1>5, <1>7, <2>4, <3>2, Classes
  <2>5. QED  BY <1>2, <2>3, <2>4
<1>12. Len(stack') - 1 = m + 1
  BY <1>2
<1>13. \A i \in 1 .. Len(stack') - 1 : stack'[i + 1].node = Child(stack'[i])
  BY <1>10, <1>12
<1>14. QED  BY <1>3, <1>4, <1>8, <1>9, <1>11, <1>13 DEF LinkInv, Child

LEMMA ReturnLinks ==
  ASSUME NEW Trees, ValueInv(Trees), LinkInv, Running, NEW m \in Nat, Len(stack) = m + 1, Return
  PROVE  LinkInv'
<1>1. /\ DOMAIN stack = 1 .. m + 1 /\ stack # <<>>
      /\ \A i \in 1 .. m : i \in Waiting
  <2>1. mode = "call" \/ mode = "return"
    BY DEF Running
  <2>2. \A i \in 1 .. m : i \in 1 .. m + 1
    OBVIOUS
  <2>3. Waiting = 1 .. m \/ Waiting = 1 .. m + 1
    BY <2>1, StackFacts
  <2>4. QED  BY <2>2, <2>3, StackFacts
<1>2. /\ DOMAIN stack' = 1 .. m /\ Len(stack') = m
      /\ \A i \in 1 .. m : stack'[i] = stack[i]
      /\ Waiting' = 1 .. m
      /\ stack' # <<>> <=> m > 0
  BY ReturnStack
<1>3. Program' = Program
  BY ReturnStack DEF Program
<1>4. /\ Program.kind \in Statements
      /\ stack[1].node = Program
      /\ \A i \in Waiting : stack[i].at \in DOMAIN stack[i].node.kids
      /\ \A i \in 1 .. Len(stack) - 1 : stack[i + 1].node = Child(stack[i])
      /\ \A i, j \in DOMAIN stack :
           i < j /\ stack[i].node.kind \in Expressions => stack[j].node.kind \in Expressions
  BY <1>1 DEF LinkInv
<1>5. stack' # <<>> => stack'[1].node = Program'
  <2>1. m > 0 => 1 \in 1 .. m
    OBVIOUS
  <2>2. QED  BY <1>2, <1>3, <1>4, <2>1
<1>6. \A i \in Waiting' : stack'[i].at \in DOMAIN stack'[i].node.kids
  BY <1>1, <1>2, <1>4
<1>7. \A i \in 1 .. Len(stack') - 1 : stack'[i + 1].node = Child(stack'[i])
  <2>1. \A i \in 1 .. m - 1 : i \in 1 .. m /\ i + 1 \in 1 .. m /\ i \in 1 .. Len(stack) - 1
    OBVIOUS
  <2>2. \A i \in 1 .. m - 1 : stack'[i + 1].node = Child(stack'[i])
    BY <1>2, <1>4, <2>1
  <2>3. QED  BY <1>2, <2>2
<1>8. \A i, j \in DOMAIN stack' :
        i < j /\ stack'[i].node.kind \in Expressions => stack'[j].node.kind \in Expressions
  BY <1>1, <1>2, <1>4
<1>9. QED  BY <1>3, <1>4, <1>5, <1>6, <1>7, <1>8 DEF LinkInv, Child

-----------------------------------------------------------------------------
(* What calls promise *)

LEMMA SameTable ==
  ASSUME symbolTable' = symbolTable
  PROVE  \A n : Called(n)' = Called(n)
BY DEF Called, Now

\* Below a statement there are only statements, that wait for statements; and an
\* expression is never alone.
LEMMA Below ==
  ASSUME NEW Trees, WellFormed(Trees), ValueInv(Trees), LinkInv, Running,
         NEW m \in Nat, Len(stack) = m + 1
  PROVE  /\ Node = stack[m + 1].node /\ Node \in Trees
         /\ \A i \in 1 .. m : i \in Waiting
         /\ m > 0 => Node = Child(stack[m])
         /\ Node.kind \in Statements =>
              \A i \in 1 .. m : ~Evaluating(stack[i]) /\ stack[i].node.kind \notin Expressions
         /\ Node.kind \in Expressions => m > 0 /\ Evaluating(stack[m])
<1>1. /\ DOMAIN stack = 1 .. m + 1 /\ stack # <<>> /\ Top = stack[m + 1]
      /\ \A i \in 1 .. m + 1 : stack[i].node \in Trees
      /\ \A i \in 1 .. m : i \in Waiting
  <2>1. mode = "call" \/ mode = "return"
    BY DEF Running
  <2>2. \A i \in 1 .. m : i \in 1 .. m + 1
    OBVIOUS
  <2>3. Waiting = 1 .. m \/ Waiting = 1 .. m + 1
    BY <2>1, StackFacts
  <2>4. QED  BY <2>2, <2>3, StackFacts
<1>2. /\ Program.kind \in Statements
      /\ stack[1].node = Program
      /\ \A i \in Waiting : stack[i].at \in DOMAIN stack[i].node.kids
      /\ \A i \in 1 .. Len(stack) - 1 : stack[i + 1].node = Child(stack[i])
      /\ \A i, j \in DOMAIN stack :
           i < j /\ stack[i].node.kind \in Expressions => stack[j].node.kind \in Expressions
  BY <1>1 DEF LinkInv
<1>3. Node = stack[m + 1].node /\ m + 1 \in 1 .. m + 1
  BY <1>1 DEF Node
<1>4. ASSUME NEW i \in 1 .. m
      PROVE  /\ i \in 1 .. m + 1 /\ i + 1 \in 1 .. m + 1
             /\ stack[i + 1].node = Child(stack[i])
             /\ Evaluating(stack[i]) => stack[i + 1].node.kind \in Expressions
             /\ ~Evaluating(stack[i]) => stack[i + 1].node.kind \in Statements
  <2>1. i \in 1 .. m + 1 /\ i + 1 \in 1 .. m + 1 /\ i \in 1 .. Len(stack) - 1
    OBVIOUS
  <2>2. stack[i + 1].node = Child(stack[i]) /\ stack[i].at \in DOMAIN stack[i].node.kids
    BY <1>1, <1>2, <2>1
  <2>3. stack[i].node \in Trees
    BY <1>1, <2>1
  <2>4. QED  BY <2>1, <2>2, <2>3, Classes DEF Evaluating, Child
<1>5. ASSUME NEW i \in 1 .. m + 1, stack[i].node.kind \in Expressions PROVE Node.kind \in Expressions
  <2>1. i = m + 1 \/ i < m + 1
    OBVIOUS
  <2>2. QED  BY <1>1, <1>2, <1>3, <1>5, <2>1
<1>6. m > 0 => Node = Child(stack[m])
  BY <1>3, <1>4
<1>7. ASSUME Node.kind \in Statements, NEW i \in 1 .. m
      PROVE  ~Evaluating(stack[i]) /\ stack[i].node.kind \notin Expressions
  BY <1>4, <1>5, <1>7, Disjoint
<1>8. ASSUME Node.kind \in Expressions PROVE m > 0 /\ Evaluating(stack[m])
  <2>1. m # 0
    BY <1>2, <1>3, <1>8, Disjoint
  <2>2. m > 0 /\ m \in 1 .. m
    BY <2>1
  <2>3. QED  BY <1>3, <1>4, <1>8, <2>2, Disjoint
<1>9. QED  BY <1>1, <1>3, <1>6, <1>7, <1>8

\* The frame on top calls a child: what it will give stays what it was to give.
LEMMA CallPromises ==
  ASSUME NEW Trees, WellFormed(Trees), ValueInv(Trees), LinkInv, OutcomeInv, Running,
         NEW m \in Nat, Len(stack) = m + 1, NEW R, Promises(R),
         NEW k \in DOMAIN Node.kids, NEW f, f.node = Node, f.at = k, Call(f, Node.kids[k]),
         R[m + 1] = IF HoldsExpression(Node, k) THEN Called(Node)
                                                ELSE After(f, Called(Node.kids[k])),
         Called(Node.kids[k]).fate \subseteq R[m + 1].fate,
         Node.kind = "BINARY" => \A j \in DOMAIN f.args :
           Value(Node.kids[j], symbolTable) = [val |-> f.args[j], fate |-> {}]
  PROVE  OutcomeInv'
<1>1. /\ DOMAIN stack' = 1 .. m + 2
      /\ \A i \in 1 .. m : stack'[i] = stack[i]
      /\ stack'[m + 1] = f /\ stack'[m + 2] = Frame(Node.kids[k])
      /\ Len(stack') = m + 2
      /\ Waiting' = 1 .. m + 1
      /\ Node' = Node.kids[k] /\ mode' = "call" /\ stack' # <<>>
      /\ UNCHANGED <<testcases, printed, symbolTable, value>>
  BY CallStack
<1>2. Program' = Program /\ \A n : Called(n)' = Called(n)
  BY <1>1, SameTable DEF Program
<1>3. \A i \in 1 .. m : i \in Waiting
  BY Below
<1>4. DOMAIN stack = 1 .. m + 1
  BY StackFacts
<1>5. OperandsInv'
  <2>1. ASSUME NEW i \in 1 .. m + 2, stack'[i].node.kind = "BINARY",
               NEW j \in DOMAIN stack'[i].args
        PROVE  Value(stack'[i].node.kids[j], symbolTable) = [val |-> stack'[i].args[j], fate |-> {}]
    <3>1. CASE i \in 1 .. m
      <4>1. i \in 1 .. m + 1 /\ stack'[i] = stack[i]
        BY <1>1, <3>1
      <4>2. QED  BY <1>4, <2>1, <4>1 DEF OutcomeInv, OperandsInv
    <3>2. CASE i = m + 1
      BY <1>1, <2>1, <3>2
    <3>3. CASE i = m + 2
      BY <1>1, <2>1, <3>3 DEF Frame, NoTable
    <3>4. QED  BY <3>1, <3>2, <3>3
  <2>2. QED  BY <1>1, <2>1 DEF OperandsInv
<1>6. PICK Q : Q = [i \in 1 .. m + 2 |-> IF i = m + 2 THEN Called(Node.kids[k]) ELSE R[i]]
  OBVIOUS
<1>7. (\A i \in 1 .. m + 1 : Q[i] = R[i]) /\ Q[m + 2] = Called(Node.kids[k])
  BY <1>6
<1>8. /\ R[1] = Outcome(Program)
      /\ \A i \in 1 .. m :
           R[i] = IF Evaluating(stack[i]) THEN Called(stack[i].node) ELSE After(stack[i], R[i + 1])
      /\ \A i \in 1 .. m + 1 : R[i].fate \subseteq R[1].fate
  BY <1>3, <1>4 DEF Promises
<1>9. 1 \in 1 .. m + 1 /\ m + 1 \in 1 .. m + 1 /\ \A i \in 1 .. m : i \in 1 .. m + 1 /\ i + 1 \in 1 .. m + 1
  OBVIOUS
<1>10. Q[1] = Outcome(Program')
  BY <1>2, <1>7, <1>8, <1>9
<1>11. ASSUME NEW i \in 1 .. m + 1
       PROVE  Q[i] = IF Evaluating(stack'[i]) THEN Called(stack[i].node)' ELSE After(stack'[i], Q[i + 1])
  <2>1. CASE i \in 1 .. m
    <3>1. stack'[i] = stack[i] /\ Q[i] = R[i] /\ Q[i + 1] = R[i + 1]
      BY <1>1, <1>7, <1>9, <2>1
    <3>2. Called(stack[i].node)' = Called(stack[i].node)
      BY <3>1, <1>1 DEF Called, Now
    <3>3. QED  BY <1>8, <2>1, <3>1, <3>2
  <2>2. CASE i = m + 1
    <3>1. stack'[i] = f /\ Q[i] = R[m + 1] /\ Q[i + 1] = Called(Node.kids[k])
      BY <1>1, <1>7, <1>9, <2>2
    <3>2. Evaluating(f) <=> HoldsExpression(Node, k)
      BY DEF Evaluating
    <3>3. Called(stack[i].node)' = Called(Node)
      BY <3>1, <1>1 DEF Called, Now
    <3>4. QED  BY <3>1, <3>2, <3>3
  <2>3. QED  BY <2>1, <2>2
<1>12. ASSUME NEW i \in 1 .. m + 2 PROVE Q[i].fate \subseteq Q[1].fate
  <2>1. Q[1] = R[1]
    BY <1>7, <1>9
  <2>2. CASE i \in 1 .. m + 1
    BY <1>7, <1>8, <2>1, <2>2
  <2>3. CASE i = m + 2
    BY <1>7, <1>8, <1>9, <2>1, <2>3
  <2>4. QED  BY <2>2, <2>3
<1>13. Q[m + 2] = Called(Node)'
  <2>1. Called(Node)' = Called(Node.kids[k])
    BY <1>1 DEF Called, Now
  <2>2. QED  BY <1>7, <2>1
<1>14. Promises(Q)'
  BY <1>1, <1>10, <1>11, <1>12, <1>13 DEF Promises
<1>15. QED  BY <1>1, <1>5, <1>14 DEF OutcomeInv, Died

\* The frame on top returns what it was to give.
LEMMA ReturnPromises ==
  ASSUME NEW Trees, WellFormed(Trees), ValueInv(Trees), LinkInv, OutcomeInv, Running,
         NEW m \in Nat, Len(stack) = m + 1, NEW R, Promises(R), Return,
         \/ /\ Node.kind \in Expressions /\ symbolTable' = symbolTable
            /\ Called(Node) = [val |-> value', fate |-> {}] /\ R[m + 1] = Called(Node)
         \/ Node.kind \in Statements /\ R[m + 1] = [table |-> symbolTable', fate |-> {}]
  PROVE  OutcomeInv'
<1>1. /\ DOMAIN stack' = 1 .. m /\ Len(stack') = m
      /\ \A i \in 1 .. m : stack'[i] = stack[i]
      /\ Waiting' = 1 .. m
      /\ m > 0 => Top' = stack[m]
      /\ mode' = "return" /\ (stack' # <<>> <=> m > 0)
      /\ UNCHANGED <<testcases, printed>>
  BY ReturnStack
<1>2. Program' = Program
  BY <1>1 DEF Program
<1>3. /\ m > 0 => Node = Child(stack[m])
      /\ Node.kind \in Statements =>
           \A i \in 1 .. m : ~Evaluating(stack[i]) /\ stack[i].node.kind \notin Expressions
      /\ Node.kind \in Expressions => m > 0 /\ Evaluating(stack[m])
      /\ \A i \in 1 .. m : i \in Waiting
  BY Below
<1>4. DOMAIN stack = 1 .. m + 1
  BY StackFacts
<1>5. (\A i \in 1 .. m : i \in 1 .. m + 1) /\ 1 \in 1 .. m + 1 /\ (m > 0 => m \in 1 .. m)
  OBVIOUS
<1>6. Node.kind \in Expressions => symbolTable' = symbolTable
  BY Disjoint
<1>7. OperandsInv'
  <2>1. ASSUME NEW i \in 1 .. m, stack[i].node.kind = "BINARY", NEW j \in DOMAIN stack[i].args
        PROVE  Value(stack[i].node.kids[j], symbolTable') = [val |-> stack[i].args[j], fate |-> {}]
    <3>1. Node.kind \notin Statements
      BY <1>3, <2>1 DEF Expressions
    <3>2. symbolTable' = symbolTable
      BY <3>1
    <3>3. i \in DOMAIN stack /\ OperandsInv
      BY <1>4, <1>5 DEF OutcomeInv
    <3>4. QED  BY <2>1, <3>2, <3>3 DEF OperandsInv
  <2>2. QED  BY <1>1, <2>1 DEF OperandsInv
<1>8. /\ R[1] = Outcome(Program)
      /\ \A i \in 1 .. m :
           R[i] = IF Evaluating(stack[i]) THEN Called(stack[i].node) ELSE After(stack[i], R[i + 1])
      /\ \A i \in 1 .. m + 1 : R[i].fate \subseteq R[1].fate
  BY <1>3, <1>4 DEF Promises
<1>9. ASSUME NEW i \in 1 .. m
      PROVE  R[i] = IF Evaluating(stack'[i]) THEN Called(stack[i].node)' ELSE After(stack'[i], R[i + 1])
  <2>1. stack'[i] = stack[i]
    BY <1>1
  <2>2. Evaluating(stack[i]) => Node.kind \notin Statements
    BY <1>3
  <2>3. Evaluating(stack[i]) => symbolTable' = symbolTable
    BY <2>2
  <2>4. Evaluating(stack[i]) => Called(stack[i].node)' = Called(stack[i].node)
    BY <2>1, <2>3 DEF Called, Now
  <2>5. QED  BY <1>8, <2>1, <2>4
<1>10. R[m + 1] = Returned'
  <2>1. CASE Node.kind \in Expressions
    <3>1. R[m + 1] = [val |-> value', fate |-> {}]
      BY <2>1, Disjoint
    <3>2. stack' # <<>> /\ Evaluating(Top')
      BY <1>1, <1>3, <2>1
    <3>3. QED  BY <3>1, <3>2 DEF Returned, Evaluating
  <2>2. CASE Node.kind \in Statements
    <3>1. R[m + 1] = [table |-> symbolTable', fate |-> {}]
      BY <2>2, Disjoint
    <3>2. stack' # <<>> => ~Evaluating(Top')
      BY <1>1, <1>3, <1>5, <2>2
    <3>3. QED  BY <3>1, <3>2 DEF Returned, Evaluating, Now
  <2>3. QED  BY <2>1, <2>2
<1>11. (stack' # <<>> /\ Evaluating(Top')) => Called(Child(Top))' = Returned'
  <2> SUFFICES ASSUME stack' # <<>>, Evaluating(Top') PROVE Called(Child(Top))' = Returned'
    OBVIOUS
  <2>1. Top' = stack[m] /\ m > 0
    BY <1>1
  <2>2. Node.kind \notin Statements
    BY <1>3, <1>5, <2>1
  <2>3. symbolTable' = symbolTable /\ R[m + 1] = Called(Node)
    BY <2>2
  <2>4. Child(Top)' = Node
    BY <1>3, <2>1 DEF Child
  <2>5. Called(Child(Top))' = Called(Node)
    BY <2>3, <2>4 DEF Called, Now
  <2>6. QED  BY <1>10, <2>3, <2>5
<1>12. mode' # "call"
  BY <1>1
<1>13. \A i \in 1 .. m : R[i].fate \subseteq R[1].fate
  BY <1>5, <1>8
<1>14. Promises(R)'
  BY <1>1, <1>2, <1>8, <1>9, <1>10, <1>11, <1>12, <1>13 DEF Promises, Evaluating
<1>15. QED  BY <1>1, <1>7, <1>14 DEF OutcomeInv, Died

\* A call that dies does so of a fate of the program.
LEMMA DeathPromises ==
  ASSUME NEW Trees, ValueInv(Trees), OutcomeInv, NEW m \in Nat, Len(stack) = m + 1,
         NEW R, Promises(R), NEW how, Dies(how), how \in R[m + 1].fate, how \notin {"call", "return"}
  PROVE  OutcomeInv'
<1>1. m + 1 \in DOMAIN stack
  BY StackFacts
<1>2. how \in Outcome(Program).fate
  BY <1>1 DEF Promises
<1>3. QED  BY <1>2 DEF Dies, OutcomeInv, Running, Died, Program

-----------------------------------------------------------------------------
(* What calls count on *)

LEMMA CallAssigned ==
  ASSUME NEW Trees, WellFormed(Trees), ValueInv(Trees), LinkInv, Running,
         NEW m \in Nat, Len(stack) = m + 1, NEW V, Assignments(V),
         NEW k \in DOMAIN Node.kids, NEW f, f.node = Node, f.at = k, Call(f, Node.kids[k]),
         NEW vs, vs \subseteq DOMAIN symbolTable,
         HoldsExpression(Node, k) => Reads(Node.kids[k]) \subseteq DOMAIN symbolTable,
         ~HoldsExpression(Node, k) => Counts(f, V[m + 1], vs)
  PROVE  AssignedInv'
<1>1. /\ DOMAIN stack' = 1 .. m + 2
      /\ \A i \in 1 .. m : stack'[i] = stack[i]
      /\ stack'[m + 1] = f /\ stack'[m + 2] = Frame(Node.kids[k])
      /\ Len(stack') = m + 2
      /\ Waiting' = 1 .. m + 1
      /\ Node' = Node.kids[k] /\ mode' = "call" /\ stack' # <<>>
      /\ UNCHANGED <<testcases, printed, symbolTable, value>>
  BY CallStack
<1>2. (\A i \in 1 .. m : i \in Waiting) /\ Node = stack[m + 1].node /\ Node \in Trees
  BY Below
<1>3. DOMAIN stack = 1 .. m + 1
  BY StackFacts
<1>4. PICK W : W = [i \in 1 .. m + 2 |-> IF i = m + 2 THEN vs ELSE V[i]]
  OBVIOUS
<1>5. (\A i \in 1 .. m + 1 : W[i] = V[i]) /\ W[m + 2] = vs
  BY <1>4
<1>6. ASSUME NEW i \in 1 .. m + 2
      PROVE  /\ W[i] \subseteq DOMAIN symbolTable
             /\ IF stack'[i].node.kind \in Expressions
                THEN Reads(stack'[i].node) \subseteq DOMAIN symbolTable
                ELSE Assigned(stack'[i].node, W[i]).ok
  <2>1. CASE i \in 1 .. m + 1
    <3>1. stack'[i].node = stack[i].node
      BY <1>1, <1>2, <2>1
    <3>2. W[i] = V[i] /\ i \in DOMAIN stack
      BY <1>3, <1>5, <2>1
    <3>3. QED  BY <3>1, <3>2 DEF Assignments
  <2>2. CASE i = m + 2
    <3>1. stack'[i].node = Node.kids[k] /\ W[i] = vs
      BY <1>1, <1>5, <2>2 DEF Frame
    <3>2. /\ HoldsExpression(Node, k) => Node.kids[k].kind \in Expressions
          /\ ~HoldsExpression(Node, k) => Node.kids[k].kind \in Statements
      BY <1>2, Classes
    <3>3. ~HoldsExpression(Node, k) => Assigned(Node.kids[k], vs).ok
      BY DEF Counts, Child
    <3>4. QED  BY <3>1, <3>2, <3>3, Disjoint
  <2>3. QED  BY <2>1, <2>2
<1>7. ASSUME NEW i \in 1 .. m + 1, ~Evaluating(stack'[i])
      PROVE  Counts(stack'[i], W[i], W[i + 1])
  <2>1. CASE i \in 1 .. m
    <3>1. stack'[i] = stack[i] /\ i \in 1 .. m + 1 /\ i + 1 \in 1 .. m + 1
      BY <1>1, <2>1
    <3>2. W[i] = V[i] /\ W[i + 1] = V[i + 1] /\ i \in Waiting
      BY <1>2, <1>5, <2>1, <3>1
    <3>3. QED  BY <1>7, <3>1, <3>2 DEF Assignments
  <2>2. CASE i = m + 1
    <3>1. stack'[i] = f /\ W[i] = V[m + 1] /\ W[i + 1] = vs
      BY <1>1, <1>5, <2>2
    <3>2. QED  BY <1>7, <3>1 DEF Evaluating
  <2>3. QED  BY <2>1, <2>2
<1>8. Assignments(W)'
  BY <1>1, <1>6, <1>7 DEF Assignments
<1>9. QED  BY <1>1, <1>8 DEF AssignedInv, ReadsAreAssigned

LEMMA ReturnAssigned ==
  ASSUME NEW Trees, WellFormed(Trees), ValueInv(Trees), LinkInv, Running,
         NEW m \in Nat, Len(stack) = m + 1, NEW V, Assignments(V), Return,
         DOMAIN symbolTable \subseteq DOMAIN symbolTable',
         Node.kind \in Statements => Assigned(Node, V[m + 1]).vars \subseteq DOMAIN symbolTable'
  PROVE  AssignedInv'
<1>1. /\ DOMAIN stack' = 1 .. m /\ Len(stack') = m
      /\ \A i \in 1 .. m : stack'[i] = stack[i]
      /\ Waiting' = 1 .. m
      /\ m > 0 => Top' = stack[m]
      /\ mode' = "return" /\ (stack' # <<>> <=> m > 0)
      /\ UNCHANGED <<testcases, printed>>
  BY ReturnStack
<1>2. /\ \A i \in 1 .. m : i \in Waiting
      /\ Node \in Trees
      /\ m > 0 => Node = Child(stack[m])
      /\ Node.kind \in Expressions => m > 0 /\ Evaluating(stack[m])
  BY Below
<1>3. Node.kind \in Expressions \/ Node.kind \in Statements
  BY <1>2 DEF WellFormed
<1>4. DOMAIN stack = 1 .. m + 1 /\ \A i \in 1 .. m : i \in 1 .. m + 1
  BY StackFacts
<1>5. ASSUME NEW i \in 1 .. m
      PROVE  /\ V[i] \subseteq DOMAIN symbolTable'
             /\ IF stack'[i].node.kind \in Expressions
                THEN Reads(stack'[i].node) \subseteq DOMAIN symbolTable'
                ELSE Assigned(stack'[i].node, V[i]).ok
  <2>1. i \in DOMAIN stack /\ stack'[i] = stack[i]
    BY <1>1, <1>4
  <2>2. QED  BY <2>1 DEF Assignments
<1>6. ASSUME NEW i \in 1 .. m, ~Evaluating(stack'[i]) PROVE Counts(stack'[i], V[i], V[i + 1])
  <2>1. i \in Waiting /\ stack'[i] = stack[i]
    BY <1>1, <1>2
  <2>2. QED  BY <1>6, <2>1 DEF Assignments
<1>7. ASSUME stack' # <<>>, ~Evaluating(Top')
      PROVE  Assigned(Child(Top'), V[m + 1]).vars \subseteq DOMAIN symbolTable'
  <2>1. m > 0 /\ Top' = stack[m]
    BY <1>1, <1>7
  <2>2. Node.kind \in Statements /\ Child(Top') = Node
    BY <1>2, <1>3, <1>7, <2>1
  <2>3. QED  BY <2>2
<1>8. Assignments(V)'
  BY <1>1, <1>5, <1>6, <1>7 DEF Assignments, Evaluating, Child
<1>9. QED  BY <1>1, <1>8 DEF AssignedInv, ReadsAreAssigned

-----------------------------------------------------------------------------
(* The frame on top *)

LEMMA AtFacts ==
  ASSUME NEW Trees, ValueInv(Trees), stack # <<>>, NEW k
  PROVE  /\ At(k).node = Node /\ At(k).at = k /\ At(k).args = Top.args
         /\ \A args : LET f == [At(k) EXCEPT !.args = args] IN
                        f.node = Node /\ f.at = k /\ f.args = args
<1>1. Top \in [node : Trees, at : Nat, args : Operands]
  BY TopFrame DEF Frames
<1>2. QED  BY <1>1 DEF At, Node

\* What the frame on top was to give, by what it waits for.
LEMMA AtTop ==
  ASSUME NEW Trees, WellFormed(Trees), ValueInv(Trees), LinkInv, NEW m \in Nat, Len(stack) = m + 1,
         NEW R, Promises(R)
  PROVE  /\ mode = "call" => R[m + 1] = Called(Node)
         /\ mode = "return" =>
              /\ Top.at \in DOMAIN Node.kids
              /\ Evaluating(Top) => /\ R[m + 1] = Called(Node)
                                    /\ Value(Child(Top), symbolTable) = [val |-> value, fate |-> {}]
              /\ ~Evaluating(Top) => R[m + 1] = After(Top, Now)
<1>1. mode = "call" => R[m + 1] = Called(Node)
  BY DEF Promises
<1>2. ASSUME mode = "return"
      PROVE  /\ Top.at \in DOMAIN Node.kids
             /\ Evaluating(Top) => /\ R[m + 1] = Called(Node)
                                   /\ Value(Child(Top), symbolTable) = [val |-> value, fate |-> {}]
             /\ ~Evaluating(Top) => R[m + 1] = After(Top, Now)
  <2>1. /\ m + 1 \in Waiting /\ Top = stack[m + 1] /\ stack # <<>>
        /\ Node \in Trees /\ Node = Top.node
    <3>1. m + 1 \in 1 .. m + 1
      OBVIOUS
    <3>2. QED  BY <1>2, <3>1, StackFacts DEF Node
  <2>2. Top.at \in DOMAIN Node.kids
    BY <1>2, <2>1 DEF LinkInv, Running
  <2>3. R[m + 1] = IF Evaluating(Top) THEN Called(Node) ELSE After(Top, R[(m + 1) + 1])
    BY <2>1 DEF Promises
  <2>4. R[(m + 1) + 1] = Returned
    BY <1>2 DEF Promises
  <2>5. Evaluating(Top) => Called(Child(Top)) = [val |-> value, fate |-> {}]
    BY <1>2, <2>1 DEF Promises, Returned
  <2>6. Evaluating(Top) => Child(Top).kind \in Expressions
    BY <2>1, <2>2, Classes DEF Evaluating, Child
  <2>7. Evaluating(Top) => Value(Child(Top), symbolTable) = [val |-> value, fate |-> {}]
    BY <2>5, <2>6 DEF Called
  <2>8. ~Evaluating(Top) => Returned = Now
    BY DEF Returned
  <2>9. QED  BY <2>2, <2>3, <2>4, <2>7, <2>8
<1>3. QED  BY <1>1, <1>2

LEMMA AssignedAtTop ==
  ASSUME NEW Trees, WellFormed(Trees), ValueInv(Trees), LinkInv, Running,
         NEW m \in Nat, Len(stack) = m + 1, NEW V, Assignments(V)
  PROVE  /\ V[m + 1] \subseteq DOMAIN symbolTable
         /\ Node.kind \in Expressions => Reads(Node) \subseteq DOMAIN symbolTable
         /\ Node.kind \in Statements => Assigned(Node, V[m + 1]).ok
         /\ mode = "return" /\ ~Evaluating(Top) =>
              /\ Counts(Top, V[m + 1], V[m + 2])
              /\ Assigned(Child(Top), V[m + 2]).vars \subseteq DOMAIN symbolTable
<1>1. /\ m + 1 \in DOMAIN stack /\ Top = stack[m + 1] /\ stack # <<>> /\ Node = Top.node
      /\ mode = "return" => m + 1 \in Waiting
  <2>1. m + 1 \in 1 .. m + 1
    OBVIOUS
  <2>2. QED  BY <2>1, StackFacts DEF Node
<1>2. (m + 1) + 1 = m + 2 /\ Len(stack) + 1 = m + 2
  OBVIOUS
<1>3. /\ V[m + 1] \subseteq DOMAIN symbolTable
      /\ IF Node.kind \in Expressions THEN Reads(Node) \subseteq DOMAIN symbolTable
                                      ELSE Assigned(Node, V[m + 1]).ok
  BY <1>1 DEF Assignments
<1>4. mode = "return" /\ ~Evaluating(Top) =>
        /\ Counts(Top, V[m + 1], V[m + 2])
        /\ Assigned(Child(Top), V[m + 2]).vars \subseteq DOMAIN symbolTable
  BY <1>1, <1>2 DEF Assignments
<1>5. QED  BY <1>3, <1>4, Disjoint

-----------------------------------------------------------------------------
(* Expressions *)

LEMMA NumOutcome ==
  ASSUME NEW Trees, WellFormed(Trees), Semantics(Trees), Inv(Trees), stack # <<>>, EvaluateNum
  PROVE  LinkInv' /\ OutcomeInv' /\ AssignedInv'
<1>1. ValueInv(Trees) /\ LinkInv /\ OutcomeInv /\ AssignedInv /\ Running
  BY DEF Inv, EvaluateNum, Enter, Running
<1>2. PICK m \in Nat : Len(stack) = m + 1
  BY <1>1, SomeDepth
<1>3. PICK R : Promises(R)
  BY <1>1 DEF OutcomeInv
<1>4. Node \in Trees /\ Node.kind = "NUM" /\ mode = "call" /\ Return
  BY <1>1, TopFrame DEF EvaluateNum, Enter, Evaluates
<1>5. Node.kind \in Expressions /\ Node.kind \notin Statements
  BY <1>4 DEF Expressions, Statements
<1>6. Called(Node) = [val |-> value', fate |-> {}] /\ symbolTable' = symbolTable
  BY <1>4, <1>5, NumRule DEF EvaluateNum, Evaluates, Called
<1>7. R[m + 1] = Called(Node)
  BY <1>1, <1>2, <1>3, <1>4, AtTop
<1>8. LinkInv'
  BY <1>1, <1>2, <1>4, ReturnLinks
<1>9. OutcomeInv'
  BY <1>1, <1>2, <1>3, <1>4, <1>5, <1>6, <1>7, ReturnPromises
<1>10. ASSUME NEW V, Assignments(V) PROVE AssignedInv'
  BY <1>1, <1>2, <1>4, <1>5, <1>6, <1>10, ReturnAssigned
<1>11. AssignedInv'
  BY <1>1, <1>4, <1>10 DEF AssignedInv, ReadsAreAssigned, Return, Program, Running
<1>12. QED  BY <1>8, <1>9, <1>11

LEMMA VarOutcome ==
  ASSUME NEW Trees, WellFormed(Trees), Semantics(Trees), Inv(Trees), stack # <<>>, EvaluateVar
  PROVE  LinkInv' /\ OutcomeInv' /\ AssignedInv'
<1>1. ValueInv(Trees) /\ LinkInv /\ OutcomeInv /\ AssignedInv /\ Running
  BY DEF Inv, EvaluateVar, Enter, Running
<1>2. PICK m \in Nat : Len(stack) = m + 1
  BY <1>1, SomeDepth
<1>3. PICK R : Promises(R)
  BY <1>1 DEF OutcomeInv
<1>4. Node \in Trees /\ Node.kind = "VAR" /\ mode = "call"
  BY <1>1, TopFrame DEF EvaluateVar, Enter
<1>5. Node.kind \in Expressions /\ Node.kind \notin Statements
  BY <1>4 DEF Expressions, Statements
<1>6. R[m + 1] = Called(Node) /\ Called(Node) = Value(Node, symbolTable)
  BY <1>1, <1>2, <1>3, <1>4, <1>5, AtTop DEF Called
<1>7. CASE Node.name \in DOMAIN symbolTable
  <2>1. Return /\ symbolTable' = symbolTable /\ value' = symbolTable[Node.name]
    BY <1>7 DEF EvaluateVar, Evaluates
  <2>2. Called(Node) = [val |-> value', fate |-> {}]
    BY <1>4, <1>6, <1>7, <2>1, VarRule
  <2>3. LinkInv'
    BY <1>1, <1>2, <2>1, ReturnLinks
  <2>4. OutcomeInv'
    BY <1>1, <1>2, <1>3, <1>5, <1>6, <2>1, <2>2, ReturnPromises
  <2>5. ASSUME NEW V, Assignments(V) PROVE AssignedInv'
    BY <1>1, <1>2, <1>5, <2>1, <2>5, ReturnAssigned
  <2>6. AssignedInv'
    BY <1>1, <2>1, <2>5 DEF AssignedInv, ReadsAreAssigned, Return, Program, Running
  <2>7. QED  BY <2>3, <2>4, <2>6
<1>8. CASE Node.name \notin DOMAIN symbolTable
  <2>1. Dies("terminate")
    BY <1>8 DEF EvaluateVar
  <2>2. Value(Node, symbolTable).fate = {"terminate"} /\ Node.name \in Reads(Node)
    BY <1>4, <1>8, VarRule
  <2>3. LinkInv'
    BY <2>1 DEF Dies, LinkInv, Running
  <2>4. OutcomeInv'
    <3>1. "terminate" \in R[m + 1].fate
      BY <1>6, <2>2
    <3>2. QED  BY <1>1, <1>2, <1>3, <2>1, <3>1, DeathPromises
  <2>5. ~Assigned(Program, {}).ok
    <3>1. ASSUME NEW V, Assignments(V) PROVE FALSE
      BY <1>1, <1>2, <1>5, <1>8, <2>2, <3>1, AssignedAtTop
    <3>2. QED  BY <1>1, <3>1 DEF AssignedInv
  <2>6. AssignedInv'
    BY <2>1, <2>5 DEF Dies, AssignedInv, ReadsAreAssigned, Running, Program
  <2>7. QED  BY <2>3, <2>4, <2>6
<1>9. QED  BY <1>7, <1>8

\* A frame of a BinaryExpression calls its k-th operand.
LEMMA OperandCall ==
  ASSUME NEW Trees, WellFormed(Trees), Semantics(Trees), Inv(Trees), Running, stack # <<>>,
         Node.kind = "BINARY", NEW k \in {1, 2}, NEW f, f.node = Node, f.at = k,
         \A j \in DOMAIN f.args :
           Value(Node.kids[j], symbolTable) = [val |-> f.args[j], fate |-> {}],
         NEW m \in Nat, Len(stack) = m + 1, NEW R, Promises(R), R[m + 1] = Called(Node),
         Call(f, Node.kids[k])
  PROVE  LinkInv' /\ OutcomeInv' /\ AssignedInv'
<1>1. ValueInv(Trees) /\ LinkInv /\ OutcomeInv /\ AssignedInv
  BY DEF Inv
<1>2. Node \in Trees /\ Node.kids \in Seq(Trees) /\ Len(Node.kids) = 2
  BY <1>1, TopFrame DEF WellFormed
<1>3. k \in DOMAIN Node.kids
  BY <1>2
<1>4. HoldsExpression(Node, k) /\ Node.kind \in Expressions
  BY DEF HoldsExpression, Expressions
<1>5. Node.kids[k].kind \in Expressions
  BY <1>2, <1>3, <1>4, Classes
<1>6. Called(Node.kids[k]).fate \subseteq R[m + 1].fate
  <2>1. Called(Node.kids[k]) = Value(Node.kids[k], symbolTable) /\ Called(Node) = Value(Node, symbolTable)
    BY <1>4, <1>5 DEF Called
  <2>2. Value(Node.kids[k], symbolTable).fate \subseteq Value(Node, symbolTable).fate
    BY <1>2, BinaryRule
  <2>3. QED  BY <2>1, <2>2
<1>7. LinkInv'
  BY <1>1, <1>3, CallLinks
<1>8. OutcomeInv'
  BY <1>1, <1>3, <1>4, <1>6, CallPromises
<1>9. ASSUME NEW V, Assignments(V) PROVE AssignedInv'
  <2>1. Reads(Node.kids[k]) \subseteq DOMAIN symbolTable
    <3>1. Reads(Node) \subseteq DOMAIN symbolTable
      BY <1>1, <1>4, <1>9, AssignedAtTop
    <3>2. Reads(Node.kids[k]) \subseteq Reads(Node)
      BY <1>2, <1>3, ReadsRule
    <3>3. QED  BY <3>1, <3>2
  <2>2. PICK vs : vs = {}
    OBVIOUS
  <2>3. vs \subseteq DOMAIN symbolTable
    BY <2>2
  <2>4. QED  BY <1>1, <1>3, <1>4, <1>9, <2>1, <2>3, CallAssigned
<1>10. AssignedInv'
  BY <1>1, <1>9 DEF AssignedInv, ReadsAreAssigned, Call, Program, Running
<1>11. QED  BY <1>7, <1>8, <1>10

LEMMA BinaryOutcome ==
  ASSUME NEW Trees, WellFormed(Trees), Semantics(Trees), Inv(Trees), stack # <<>>, EvaluateBinary
  PROVE  LinkInv' /\ OutcomeInv' /\ AssignedInv'
<1>1. ValueInv(Trees) /\ LinkInv /\ OutcomeInv /\ AssignedInv /\ Running
  BY DEF Inv, EvaluateBinary, Enter, Resumed, Running
<1>2. PICK m \in Nat : Len(stack) = m + 1
  BY <1>1, SomeDepth
<1>3. PICK R : Promises(R)
  BY <1>1 DEF OutcomeInv
<1>4. Node \in Trees /\ Node.kind = "BINARY" /\ Top = stack[m + 1] /\ m + 1 \in DOMAIN stack
  <2>1. Node.kind = "BINARY"
    BY DEF EvaluateBinary, Enter, Resumed
  <2>2. m + 1 \in 1 .. m + 1
    OBVIOUS
  <2>3. QED  BY <1>1, <1>2, <2>1, <2>2, TopFrame, StackFacts
<1>5. Node.kind \in Expressions /\ Node.kind \notin Statements /\ Evaluating(Top)
  BY <1>4 DEF Expressions, Statements, Evaluating, HoldsExpression, Node
<1>6. R[m + 1] = Called(Node) /\ Called(Node) = Value(Node, symbolTable)
  BY <1>1, <1>2, <1>3, <1>5, AtTop DEF Running, Called
<1>7. \A j \in DOMAIN Top.args : Value(Node.kids[j], symbolTable) = [val |-> Top.args[j], fate |-> {}]
  BY <1>1, <1>4 DEF OutcomeInv, OperandsInv, Node
<1>8. CASE Enter("BINARY") /\ \E k \in {1, 2} : Operand(k)
  <2>1. PICK k \in {1, 2} : Call(At(k), Node.kids[k])
    BY <1>8 DEF Operand
  <2>2. At(k).node = Node /\ At(k).at = k /\ At(k).args = Top.args
    BY <1>1, AtFacts
  <2>3. \A j \in DOMAIN At(k).args :
          Value(Node.kids[j], symbolTable) = [val |-> At(k).args[j], fate |-> {}]
    BY <1>7, <2>2
  <2>4. QED  BY <1>1, <1>2, <1>3, <1>4, <1>6, <2>1, <2>2, <2>3, OperandCall
<1>9. ASSUME NEW k \in {1, 2}, Resumed("BINARY", k),
             LET args == [i \in DOMAIN Top.args \cup {k} |-> IF i = k THEN value ELSE Top.args[i]] IN
             IF DOMAIN args = {1, 2} THEN Operate(args)
             ELSE Call([At(3 - k) EXCEPT !.args = args], Node.kids[3 - k])
      PROVE  LinkInv' /\ OutcomeInv' /\ AssignedInv'
  <2> DEFINE args == [i \in DOMAIN Top.args \cup {k} |-> IF i = k THEN value ELSE Top.args[i]]
  <2>1. mode = "return" /\ Top.at = k
    BY <1>9 DEF Resumed
  <2>2. Value(Node.kids[k], symbolTable) = [val |-> value, fate |-> {}]
    BY <1>1, <1>2, <1>3, <1>5, <2>1, AtTop DEF Child, Node
  <2>3. \A j \in DOMAIN args : Value(Node.kids[j], symbolTable) = [val |-> args[j], fate |-> {}]
    BY <1>7, <2>2
  <2>4. CASE DOMAIN args = {1, 2}
    <3>1. Operate(args)
      BY <1>9, <2>4
    <3>2. PICK a, b : a = args[1] /\ b = args[2]
      OBVIOUS
    <3>3. /\ Value(Node.kids[1], symbolTable) = [val |-> a, fate |-> {}]
          /\ Value(Node.kids[2], symbolTable) = [val |-> b, fate |-> {}]
      BY <2>3, <2>4, <3>2
    <3>4. IF Divides(Node.name, a, b) THEN Evaluates(Apply(Node.name, a, b)) ELSE Dies("SIGFPE")
      BY <3>1, <3>2 DEF Operate
    <3>5. /\ Divides(Node.name, a, b) =>
               Value(Node, symbolTable) = [val |-> Apply(Node.name, a, b), fate |-> {}]
          /\ ~Divides(Node.name, a, b) => Value(Node, symbolTable).fate = {"SIGFPE"}
      BY <1>4, <3>3, BinaryRule
    <3>6. CASE Divides(Node.name, a, b)
      <4>1. Return /\ symbolTable' = symbolTable /\ value' = Apply(Node.name, a, b)
        BY <3>4, <3>6 DEF Evaluates
      <4>2. Called(Node) = [val |-> value', fate |-> {}]
        BY <1>6, <3>5, <3>6, <4>1
      <4>3. LinkInv'
        BY <1>1, <1>2, <4>1, ReturnLinks
      <4>4. OutcomeInv'
        BY <1>1, <1>2, <1>3, <1>5, <1>6, <4>1, <4>2, ReturnPromises
      <4>5. ASSUME NEW V, Assignments(V) PROVE AssignedInv'
        BY <1>1, <1>2, <1>5, <4>1, <4>5, ReturnAssigned
      <4>6. AssignedInv'
        BY <1>1, <4>1, <4>5 DEF AssignedInv, ReadsAreAssigned, Return, Program, Running
      <4>7. QED  BY <4>3, <4>4, <4>6
    <3>7. CASE ~Divides(Node.name, a, b)
      <4>1. Dies("SIGFPE")
        BY <3>4, <3>7
      <4>2. "SIGFPE" \in R[m + 1].fate
        BY <1>6, <3>5, <3>7
      <4>3. OutcomeInv'
        BY <1>1, <1>2, <1>3, <4>1, <4>2, DeathPromises
      <4>4. LinkInv' /\ AssignedInv'
        BY <4>1 DEF Dies, LinkInv, AssignedInv, ReadsAreAssigned, Running
      <4>5. QED  BY <4>3, <4>4
    <3>8. QED  BY <3>6, <3>7
  <2>5. CASE DOMAIN args # {1, 2}
    <3>1. PICK j \in {1, 2} : j = 3 - k
      OBVIOUS
    <3>2. PICK f : f = [At(j) EXCEPT !.args = args]
      OBVIOUS
    <3>3. Call(f, Node.kids[j])
      BY <1>9, <2>5, <3>1, <3>2
    <3>4. f.node = Node /\ f.at = j /\ f.args = args
      BY <1>1, <3>2, AtFacts
    <3>5. \A i \in DOMAIN f.args : Value(Node.kids[i], symbolTable) = [val |-> f.args[i], fate |-> {}]
      BY <2>3, <3>4
    <3>6. QED  BY <1>1, <1>2, <1>3, <1>4, <1>6, <3>3, <3>4, <3>5, OperandCall
  <2>6. QED  BY <2>4, <2>5
<1>10. QED  BY <1>8, <1>9 DEF EvaluateBinary

-----------------------------------------------------------------------------
(* Statements *)

LEMMA StatementKinds ==
  ASSUME NEW n, n.kind \in {"ASSIGN", "SEQUENCE", "IF", "WHILE"}
  PROVE  /\ n.kind \in Statements /\ n.kind \notin Expressions /\ n.kind # "BINARY"
         /\ HoldsExpression(n, 1) <=> n.kind # "SEQUENCE"
         /\ \A k : k # 1 => ~HoldsExpression(n, k)
         /\ n.kind = "SEQUENCE" => \A k : ~HoldsExpression(n, k)
BY DEF Expressions, Statements, HoldsExpression

\* A statement calls its first child, an expression.
LEMMA ConditionCall ==
  ASSUME NEW Trees, WellFormed(Trees), Semantics(Trees), Inv(Trees), Running, stack # <<>>,
         Node.kind \in {"ASSIGN", "IF", "WHILE"},
         NEW m \in Nat, Len(stack) = m + 1, NEW R, Promises(R), R[m + 1] = Called(Node),
         Call(At(1), Node.kids[1])
  PROVE  LinkInv' /\ OutcomeInv' /\ AssignedInv'
<1>1. ValueInv(Trees) /\ LinkInv /\ OutcomeInv /\ AssignedInv
  BY DEF Inv
<1>2. Node \in Trees /\ 1 \in DOMAIN Node.kids
  <2>1. Node \in Trees
    BY <1>1, TopFrame
  <2>2. Node.kids \in Seq(Trees) /\ Len(Node.kids) \in {1, 2, 3}
    BY <2>1 DEF WellFormed
  <2>3. QED  BY <2>1, <2>2
<1>3. /\ HoldsExpression(Node, 1) /\ Node.kind \in Statements /\ Node.kind \notin Expressions
      /\ Node.kind # "BINARY" /\ Node.kind # "SEQUENCE" /\ Node.kids[1].kind \in Expressions
  <2>1. HoldsExpression(Node, 1) /\ Node.kind \in Statements /\ Node.kind # "SEQUENCE"
    BY StatementKinds
  <2>2. QED  BY <1>2, <2>1, StatementKinds, Classes
<1>4. At(1).node = Node /\ At(1).at = 1
  BY <1>1, AtFacts
<1>5. Called(Node.kids[1]).fate \subseteq R[m + 1].fate
  <2>1. Called(Node.kids[1]) = Value(Node.kids[1], symbolTable)
    BY <1>3 DEF Called
  <2>2. R[m + 1] = Meaning(Node, [table |-> symbolTable, fate |-> {}])
    BY <1>3 DEF Called, Now
  <2>3. Value(Node.kids[1], symbolTable).fate \subseteq Meaning(Node, [table |-> symbolTable, fate |-> {}]).fate
    BY <1>2, <1>3, ConditionRule
  <2>4. QED  BY <2>1, <2>2, <2>3
<1>6. PICK f : f = At(1)
  OBVIOUS
<1>7. f.node = Node /\ f.at = 1 /\ Call(f, Node.kids[1])
  BY <1>4, <1>6
<1>8. LinkInv'
  BY <1>1, <1>2, <1>7, CallLinks
<1>9. OutcomeInv'
  BY <1>1, <1>2, <1>3, <1>5, <1>7, CallPromises
<1>10. ASSUME NEW V, Assignments(V) PROVE AssignedInv'
  <2>1. V[m + 1] \subseteq DOMAIN symbolTable /\ Assigned(Node, V[m + 1]).ok
    BY <1>1, <1>3, <1>10, AssignedAtTop
  <2>2. Reads(Node.kids[1]) \subseteq V[m + 1]
    BY <1>2, <1>3, <2>1, AssignedRule
  <2>3. PICK vs : vs = {}
    OBVIOUS
  <2>4. vs \subseteq DOMAIN symbolTable
    BY <2>3
  <2>5. Reads(Node.kids[1]) \subseteq DOMAIN symbolTable
    BY <2>1, <2>2
  <2>6. QED  BY <1>1, <1>2, <1>3, <1>7, <1>10, <2>4, <2>5, CallAssigned
<1>11. AssignedInv'
  BY <1>1, <1>10 DEF AssignedInv, ReadsAreAssigned, Call, Program, Running
<1>12. QED  BY <1>8, <1>9, <1>11

\* A statement calls another one.
LEMMA StatementCall ==
  ASSUME NEW Trees, WellFormed(Trees), Semantics(Trees), Inv(Trees), Running, stack # <<>>,
         Node.kind \in Statements, NEW k \in DOMAIN Node.kids, ~HoldsExpression(Node, k),
         NEW m \in Nat, Len(stack) = m + 1, NEW R, Promises(R),
         NEW f, f.node = Node, f.at = k, Call(f, Node.kids[k]),
         R[m + 1] = After(f, Meaning(Node.kids[k], Now)),
         Meaning(Node.kids[k], Now).fate \subseteq R[m + 1].fate,
         \A V : Assignments(V) =>
           \E vs : vs \subseteq DOMAIN symbolTable /\ Counts(f, V[m + 1], vs)
  PROVE  LinkInv' /\ OutcomeInv' /\ AssignedInv'
<1>1. ValueInv(Trees) /\ LinkInv /\ OutcomeInv /\ AssignedInv
  BY DEF Inv
<1>2. Node \in Trees /\ Node.kind # "BINARY" /\ Node.kids[k].kind \in Statements
  <2>1. Node \in Trees
    BY <1>1, TopFrame
  <2>2. QED  BY <2>1, Classes DEF Statements
<1>3. Called(Node.kids[k]) = Meaning(Node.kids[k], Now)
  BY <1>2, Disjoint DEF Called
<1>4. LinkInv'
  BY <1>1, CallLinks
<1>5. OutcomeInv'
  BY <1>1, <1>2, <1>3, CallPromises
<1>6. ASSUME NEW V, Assignments(V) PROVE AssignedInv'
  <2>1. PICK vs : vs \subseteq DOMAIN symbolTable /\ Counts(f, V[m + 1], vs)
    BY <1>6
  <2>2. QED  BY <1>1, <1>6, <2>1, CallAssigned
<1>7. AssignedInv'
  BY <1>1, <1>6 DEF AssignedInv, ReadsAreAssigned, Call, Program, Running
<1>8. QED  BY <1>4, <1>5, <1>7

\* A statement is at its end.
LEMMA StatementReturn ==
  ASSUME NEW Trees, WellFormed(Trees), Semantics(Trees), Inv(Trees), Running, stack # <<>>,
         Node.kind \in Statements, NEW m \in Nat, Len(stack) = m + 1, NEW R, Promises(R),
         Return, R[m + 1] = [table |-> symbolTable', fate |-> {}],
         DOMAIN symbolTable \subseteq DOMAIN symbolTable',
         \A V : Assignments(V) => Assigned(Node, V[m + 1]).vars \subseteq DOMAIN symbolTable'
  PROVE  LinkInv' /\ OutcomeInv' /\ AssignedInv'
<1>1. ValueInv(Trees) /\ LinkInv /\ OutcomeInv /\ AssignedInv
  BY DEF Inv
<1>2. LinkInv'
  BY <1>1, ReturnLinks
<1>3. OutcomeInv'
  BY <1>1, ReturnPromises
<1>4. ASSUME NEW V, Assignments(V) PROVE AssignedInv'
  BY <1>1, <1>4, ReturnAssigned
<1>5. AssignedInv'
  BY <1>1, <1>4 DEF AssignedInv, ReadsAreAssigned, Return, Program, Running
<1>6. QED  BY <1>2, <1>3, <1>5

LEMMA AssignmentOutcome ==
  ASSUME NEW Trees, WellFormed(Trees), Semantics(Trees), Inv(Trees), stack # <<>>, RunAssignment
  PROVE  LinkInv' /\ OutcomeInv' /\ AssignedInv'
<1>1. ValueInv(Trees) /\ LinkInv /\ OutcomeInv /\ AssignedInv /\ Running
  BY DEF Inv, RunAssignment, Enter, Resumed, Running
<1>2. PICK m \in Nat : Len(stack) = m + 1
  BY <1>1, SomeDepth
<1>3. PICK R : Promises(R)
  BY <1>1 DEF OutcomeInv
<1>4. Node \in Trees /\ Node.kind = "ASSIGN"
  BY <1>1, TopFrame DEF RunAssignment, Enter, Resumed
<1>5. Node.kind \in Statements /\ Node.kind \notin Expressions /\ HoldsExpression(Node, 1)
  BY <1>4, StatementKinds
<1>6. CASE Enter("ASSIGN") /\ Call(At(1), Node.kids[1])
  <2>1. R[m + 1] = Called(Node)
    BY <1>1, <1>2, <1>3, <1>6, AtTop DEF Enter
  <2>2. QED  BY <1>1, <1>2, <1>3, <1>4, <1>6, <2>1, ConditionCall
<1>7. CASE Resumed("ASSIGN", 1) /\ symbolTable' = Bind(Node.name, value) /\ Return /\ UNCHANGED value
  <2>1. mode = "return" /\ Top.at = 1 /\ Evaluating(Top)
    BY <1>5, <1>7 DEF Resumed, Evaluating, Node
  <2>2. R[m + 1] = Called(Node) /\ Value(Node.kids[1], symbolTable) = [val |-> value, fate |-> {}]
    BY <1>1, <1>2, <1>3, <2>1, AtTop DEF Child, Node
  <2>3. Called(Node) = Meaning(Node, Now) /\ Now = [table |-> symbolTable, fate |-> {}]
    BY <1>5 DEF Called, Now
  <2>4. symbolTable' = With(symbolTable, Node.name, value)
    BY <1>7 DEF Bind, With
  <2>5. R[m + 1] = [table |-> symbolTable', fate |-> {}]
    <3>1. Meaning(Node, Now) = [table |-> With(symbolTable, Node.name, value), fate |-> {}]
      BY <1>4, <2>2, <2>3, AssignRule
    <3>2. QED  BY <2>2, <2>3, <2>4, <3>1
  <2>6. DOMAIN symbolTable' = DOMAIN symbolTable \cup {Node.name}
    BY <1>7 DEF Bind
  <2>7. ASSUME NEW V, Assignments(V)
        PROVE  Assigned(Node, V[m + 1]).vars \subseteq DOMAIN symbolTable'
    <3>1. V[m + 1] \subseteq DOMAIN symbolTable /\ Assigned(Node, V[m + 1]).ok
      BY <1>1, <1>2, <1>5, <2>7, AssignedAtTop
    <3>2. Assigned(Node, V[m + 1]).vars = V[m + 1] \cup {Node.name}
      BY <1>4, <1>5, <3>1, AssignedRule
    <3>3. QED  BY <2>6, <3>1, <3>2
  <2>8. Return /\ DOMAIN symbolTable \subseteq DOMAIN symbolTable'
    BY <1>7, <2>6
  <2>9. QED  BY <1>1, <1>2, <1>3, <1>5, <2>5, <2>7, <2>8, StatementReturn
<1>8. QED  BY <1>6, <1>7 DEF RunAssignment

\* The end of a statement that leaves the table as it is.
LEMMA FinishOutcome ==
  ASSUME NEW Trees, WellFormed(Trees), Semantics(Trees), Inv(Trees), Running, stack # <<>>,
         Node.kind \in Statements, NEW m \in Nat, Len(stack) = m + 1, NEW R, Promises(R),
         Finish, R[m + 1] = Now,
         \A V : Assignments(V) => Assigned(Node, V[m + 1]).vars \subseteq DOMAIN symbolTable
  PROVE  LinkInv' /\ OutcomeInv' /\ AssignedInv'
<1>1. Return /\ symbolTable' = symbolTable
  BY DEF Finish
<1>2. R[m + 1] = [table |-> symbolTable', fate |-> {}]
  BY <1>1 DEF Now
<1>3. \A V : Assignments(V) => Assigned(Node, V[m + 1]).vars \subseteq DOMAIN symbolTable'
  BY <1>1
<1>4. QED  BY <1>1, <1>2, <1>3, StatementReturn

\* A sequence goes on after its first k statements.
LEMMA NextStatementOutcome ==
  ASSUME NEW Trees, WellFormed(Trees), Semantics(Trees), Inv(Trees), Running, stack # <<>>,
         Node.kind = "SEQUENCE", NEW k \in 0 .. Len(Node.kids),
         NEW m \in Nat, Len(stack) = m + 1, NEW R, Promises(R), R[m + 1] = Rest(Node, k, Now),
         \A V : Assignments(V) =>
           \E vs : /\ vs \subseteq DOMAIN symbolTable /\ Assigns(Node, k, vs).ok
                   /\ Assigned(Node, V[m + 1]).vars \subseteq Assigns(Node, k, vs).vars,
         NextStatement(k)
  PROVE  LinkInv' /\ OutcomeInv' /\ AssignedInv'
<1>1. ValueInv(Trees) /\ LinkInv /\ OutcomeInv /\ AssignedInv
  BY DEF Inv
<1>2. Node \in Trees /\ Node.kids \in Seq(Trees)
  BY <1>1, TopFrame DEF WellFormed
<1>3. Node.kind \in Statements /\ \A j : ~HoldsExpression(Node, j)
  BY StatementKinds
<1>4. CASE k = Len(Node.kids)
  <2>1. Finish
    BY <1>4 DEF NextStatement
  <2>2. R[m + 1] = Now
    BY <1>2, <1>4, RestRule
  <2>3. ASSUME NEW V, Assignments(V)
        PROVE  Assigned(Node, V[m + 1]).vars \subseteq DOMAIN symbolTable
    <3>1. PICK vs : /\ vs \subseteq DOMAIN symbolTable
                    /\ Assigned(Node, V[m + 1]).vars \subseteq Assigns(Node, k, vs).vars
      BY <2>3
    <3>2. Assigns(Node, k, vs).vars = vs
      <4>1. Assigns(Node, Len(Node.kids), vs) = [ok |-> TRUE, vars |-> vs]
        BY <1>2, AssignsRule
      <4>2. QED  BY <1>4, <4>1
    <3>3. QED  BY <3>1, <3>2
  <2>4. QED  BY <1>3, <2>1, <2>2, <2>3, FinishOutcome
<1>5. CASE k # Len(Node.kids)
  <2>1. PICK j \in Nat : j = k + 1
    OBVIOUS
  <2>2. j \in DOMAIN Node.kids /\ j \in 0 .. Len(Node.kids)
    BY <1>2, <1>5, <2>1
  <2>3. Call(At(j), Node.kids[j])
    BY <1>5, <2>1 DEF NextStatement
  <2>4. PICK f : f = At(j)
    OBVIOUS
  <2>5. f.node = Node /\ f.at = j /\ Call(f, Node.kids[j])
    BY <1>1, <2>3, <2>4, AtFacts
  <2>6. PICK s : s = Meaning(Node.kids[j], Now)
    OBVIOUS
  <2>7. R[m + 1] = Rest(Node, j, s)
    <3>1. Now.fate = {}
      BY DEF Now
    <3>2. Rest(Node, k, Now) = Rest(Node, j, Meaning(Node.kids[j], Now))
      BY <1>2, <1>5, <2>1, <3>1, RestStep
    <3>3. QED  BY <2>6, <3>2
  <2>8. R[m + 1] = After(f, s)
    BY <2>5, <2>7 DEF After
  <2>9. s.fate \subseteq R[m + 1].fate
    <3>1. s.fate # {} => Rest(Node, j, s) = s
      BY <1>2, <2>2, RestRule
    <3>2. QED  BY <2>7, <3>1
  <2>10. ASSUME NEW V, Assignments(V)
         PROVE  \E vs : vs \subseteq DOMAIN symbolTable /\ Counts(f, V[m + 1], vs)
    <3>1. PICK vs : /\ vs \subseteq DOMAIN symbolTable /\ Assigns(Node, k, vs).ok
                    /\ Assigned(Node, V[m + 1]).vars \subseteq Assigns(Node, k, vs).vars
      BY <2>10
    <3>2. Assigned(Node.kids[j], vs).ok /\ Assigns(Node, k, vs) = Assigns(Node, j, Assigned(Node.kids[j], vs).vars)
      BY <1>2, <1>5, <2>1, <3>1, AssignsStep
    <3>3. Child(f) = Node.kids[j]
      BY <2>5 DEF Child
    <3>4. Assigns(Node, j, Assigned(Node.kids[j], vs).vars).ok
      BY <3>1, <3>2
    <3>5. Assigned(Node, V[m + 1]).vars \subseteq Assigns(Node, j, Assigned(Node.kids[j], vs).vars).vars
      BY <3>1, <3>2
    <3>6. Counts(f, V[m + 1], vs)
      BY <2>5, <3>2, <3>3, <3>4, <3>5 DEF Counts
    <3>7. QED  BY <3>1, <3>6
  <2>11. QED  BY <1>3, <2>2, <2>5, <2>6, <2>8, <2>9, <2>10, StatementCall
<1>6. QED  BY <1>4, <1>5

LEMMA SequenceOutcome ==
  ASSUME NEW Trees, WellFormed(Trees), Semantics(Trees), Inv(Trees), stack # <<>>, RunSequence
  PROVE  LinkInv' /\ OutcomeInv' /\ AssignedInv'
<1>1. ValueInv(Trees) /\ LinkInv /\ OutcomeInv /\ AssignedInv /\ Running
  BY DEF Inv, RunSequence, Enter, Resumed, Running
<1>2. PICK m \in Nat : Len(stack) = m + 1
  BY <1>1, SomeDepth
<1>3. PICK R : Promises(R)
  BY <1>1 DEF OutcomeInv
<1>4. Node \in Trees /\ Node.kind = "SEQUENCE" /\ Node.kids \in Seq(Trees)
  <2>1. Node \in Trees /\ Node.kind = "SEQUENCE"
    BY <1>1, TopFrame DEF RunSequence, Enter, Resumed
  <2>2. QED  BY <2>1 DEF WellFormed
<1>5. Node.kind \in Statements /\ Node.kind \notin Expressions /\ \A j : ~HoldsExpression(Node, j)
  BY <1>4, StatementKinds
<1>6. CASE Enter("SEQUENCE") /\ NextStatement(0)
  <2>1. R[m + 1] = Called(Node)
    BY <1>1, <1>2, <1>3, <1>6, AtTop DEF Enter
  <2>2. R[m + 1] = Rest(Node, 0, Now)
    <3>1. Called(Node) = Meaning(Node, Now) /\ Now.fate = {}
      BY <1>5 DEF Called, Now
    <3>2. Meaning(Node, Now) = Rest(Node, 0, Now)
      BY <1>4, <3>1, SequenceRule
    <3>3. QED  BY <2>1, <3>1, <3>2
  <2>3. ASSUME NEW V, Assignments(V)
        PROVE  \E vs : /\ vs \subseteq DOMAIN symbolTable /\ Assigns(Node, 0, vs).ok
                       /\ Assigned(Node, V[m + 1]).vars \subseteq Assigns(Node, 0, vs).vars
    <3>1. V[m + 1] \subseteq DOMAIN symbolTable /\ Assigned(Node, V[m + 1]).ok
      BY <1>1, <1>2, <1>5, <2>3, AssignedAtTop
    <3>2. Assigned(Node, V[m + 1]) = Assigns(Node, 0, V[m + 1])
      BY <1>4, <1>5, <3>1, AssignedRule
    <3>3. QED  BY <3>1, <3>2
  <2>4. PICK k \in 0 .. Len(Node.kids) : k = 0
    BY <1>4
  <2>5. /\ R[m + 1] = Rest(Node, k, Now) /\ NextStatement(k)
        /\ \A V : Assignments(V) =>
             \E vs : /\ vs \subseteq DOMAIN symbolTable /\ Assigns(Node, k, vs).ok
                     /\ Assigned(Node, V[m + 1]).vars \subseteq Assigns(Node, k, vs).vars
    BY <1>6, <2>2, <2>3, <2>4
  <2>6. QED  BY <1>1, <1>2, <1>3, <1>4, <2>5, NextStatementOutcome
<1>7. ASSUME NEW k \in DOMAIN Node.kids, Resumed("SEQUENCE", k), NextStatement(k)
      PROVE  LinkInv' /\ OutcomeInv' /\ AssignedInv'
  <2>1. mode = "return" /\ Top.at = k /\ ~Evaluating(Top) /\ k \in 0 .. Len(Node.kids) /\ Top.node = Node
    BY <1>4, <1>5, <1>7 DEF Resumed, Evaluating, Node
  <2>2. R[m + 1] = Rest(Node, k, Now)
    <3>1. R[m + 1] = After(Top, Now)
      BY <1>1, <1>2, <1>3, <2>1, AtTop
    <3>2. QED  BY <1>4, <2>1, <3>1 DEF After
  <2>3. ASSUME NEW V, Assignments(V)
        PROVE  \E vs : /\ vs \subseteq DOMAIN symbolTable /\ Assigns(Node, k, vs).ok
                       /\ Assigned(Node, V[m + 1]).vars \subseteq Assigns(Node, k, vs).vars
    <3>1. /\ Counts(Top, V[m + 1], V[m + 2])
          /\ Assigned(Child(Top), V[m + 2]).vars \subseteq DOMAIN symbolTable
      BY <1>1, <1>2, <2>1, <2>3, AssignedAtTop
    <3>2. QED  BY <1>4, <2>1, <3>1 DEF Counts
  <2>4. QED  BY <1>1, <1>2, <1>3, <1>4, <1>7, <2>1, <2>2, <2>3, NextStatementOutcome
<1>8. QED  BY <1>6, <1>7 DEF RunSequence

LEMMA IfOutcome ==
  ASSUME NEW Trees, WellFormed(Trees), Semantics(Trees), Inv(Trees), stack # <<>>, RunIf
  PROVE  LinkInv' /\ OutcomeInv' /\ AssignedInv'
<1>1. ValueInv(Trees) /\ LinkInv /\ OutcomeInv /\ AssignedInv /\ Running
  BY DEF Inv, RunIf, Enter, Resumed, Running
<1>2. PICK m \in Nat : Len(stack) = m + 1
  BY <1>1, SomeDepth
<1>3. PICK R : Promises(R)
  BY <1>1 DEF OutcomeInv
<1>4. Node \in Trees /\ Node.kind = "IF" /\ DOMAIN Node.kids = {1, 2, 3}
  <2>1. Node \in Trees /\ Node.kind = "IF"
    BY <1>1, TopFrame DEF RunIf, Enter, Resumed
  <2>2. Node.kids \in Seq(Trees) /\ Len(Node.kids) = 3
    BY <2>1 DEF WellFormed
  <2>3. QED  BY <2>1, <2>2
<1>5. /\ Node.kind \in Statements /\ Node.kind \notin Expressions /\ HoldsExpression(Node, 1)
      /\ ~HoldsExpression(Node, 2) /\ ~HoldsExpression(Node, 3)
  BY <1>4, StatementKinds
<1>6. CASE Enter("IF") /\ Call(At(1), Node.kids[1])
  <2>1. R[m + 1] = Called(Node)
    BY <1>1, <1>2, <1>3, <1>6, AtTop DEF Enter
  <2>2. QED  BY <1>1, <1>2, <1>3, <1>4, <1>6, <2>1, ConditionCall
<1>7. CASE Resumed("IF", 1) /\ LET k == IF value # 0 THEN 2 ELSE 3 IN Call(At(k), Node.kids[k])
  <2>1. PICK k \in {2, 3} : k = IF value # 0 THEN 2 ELSE 3
    OBVIOUS
  <2>2. PICK f : f = At(k)
    OBVIOUS
  <2>3. f.node = Node /\ f.at = k /\ Call(f, Node.kids[k])
    BY <1>1, <1>7, <2>1, <2>2, AtFacts
  <2>4. mode = "return" /\ Top.at = 1 /\ Evaluating(Top)
    BY <1>5, <1>7 DEF Resumed, Evaluating, Node
  <2>5. R[m + 1] = Called(Node) /\ Value(Node.kids[1], symbolTable) = [val |-> value, fate |-> {}]
    BY <1>1, <1>2, <1>3, <2>4, AtTop DEF Child, Node
  <2>6. Called(Node) = Meaning(Node, Now) /\ Now = [table |-> symbolTable, fate |-> {}]
    BY <1>5 DEF Called, Now
  <2>7. Meaning(Node, Now) = Meaning(Node.kids[k], Now)
    <3>1. PICK n, t, v, s : n \in Trees /\ n = Node /\ t = symbolTable /\ v = value /\ s = Now
      BY <1>4
    <3>2. /\ n \in Trees /\ n.kind = "IF" /\ s = [table |-> t, fate |-> {}]
          /\ Value(n.kids[1], t) = [val |-> v, fate |-> {}] /\ k = IF v # 0 THEN 2 ELSE 3
      BY <1>4, <2>1, <2>5, <2>6, <3>1
    <3>3. Meaning(n, s) = Meaning(n.kids[k], s)
      BY <3>2, IfRule
    <3>4. QED  BY <3>1, <3>3
  <2>8. R[m + 1] = Meaning(Node.kids[k], Now) /\ After(f, Meaning(Node.kids[k], Now)) = Meaning(Node.kids[k], Now)
    BY <1>4, <2>3, <2>5, <2>6, <2>7 DEF After
  <2>9. ASSUME NEW V, Assignments(V)
        PROVE  \E vs : vs \subseteq DOMAIN symbolTable /\ Counts(f, V[m + 1], vs)
    <3>1. V[m + 1] \subseteq DOMAIN symbolTable /\ Assigned(Node, V[m + 1]).ok
      BY <1>1, <1>2, <1>5, <2>9, AssignedAtTop
    <3>2. /\ Assigned(Node.kids[k], V[m + 1]).ok
          /\ Assigned(Node, V[m + 1]).vars \subseteq Assigned(Node.kids[k], V[m + 1]).vars
      BY <1>4, <1>5, <3>1, AssignedRule
    <3>3. Counts(f, V[m + 1], V[m + 1])
      BY <1>4, <2>3, <3>2 DEF Counts, Child
    <3>4. QED  BY <3>1, <3>3
  <2>10. k \in DOMAIN Node.kids /\ ~HoldsExpression(Node, k)
    BY <1>4, <1>5
  <2>11. QED  BY <1>1, <1>2, <1>3, <1>5, <2>3, <2>8, <2>9, <2>10, StatementCall
<1>8. ASSUME NEW k \in {2, 3}, Resumed("IF", k), Finish
      PROVE  LinkInv' /\ OutcomeInv' /\ AssignedInv'
  <2>1. mode = "return" /\ Top.at = k /\ ~Evaluating(Top) /\ Top.node = Node
    BY <1>5, <1>8 DEF Resumed, Evaluating, Node
  <2>2. R[m + 1] = Now
    <3>1. R[m + 1] = After(Top, Now)
      BY <1>1, <1>2, <1>3, <2>1, AtTop
    <3>2. QED  BY <1>4, <2>1, <3>1 DEF After
  <2>3. ASSUME NEW V, Assignments(V)
        PROVE  Assigned(Node, V[m + 1]).vars \subseteq DOMAIN symbolTable
    <3>1. /\ Counts(Top, V[m + 1], V[m + 2])
          /\ Assigned(Child(Top), V[m + 2]).vars \subseteq DOMAIN symbolTable
      BY <1>1, <1>2, <2>1, <2>3, AssignedAtTop
    <3>2. QED  BY <1>4, <2>1, <3>1 DEF Counts
  <2>4. QED  BY <1>1, <1>2, <1>3, <1>5, <1>8, <2>2, <2>3, FinishOutcome
<1>9. QED  BY <1>6, <1>7, <1>8 DEF RunIf

LEMMA WhileOutcome ==
  ASSUME NEW Trees, WellFormed(Trees), Semantics(Trees), Inv(Trees), stack # <<>>, RunWhile
  PROVE  LinkInv' /\ OutcomeInv' /\ AssignedInv'
<1>1. ValueInv(Trees) /\ LinkInv /\ OutcomeInv /\ AssignedInv /\ Running
  BY DEF Inv, RunWhile, Enter, Resumed, Running
<1>2. PICK m \in Nat : Len(stack) = m + 1
  BY <1>1, SomeDepth
<1>3. PICK R : Promises(R)
  BY <1>1 DEF OutcomeInv
<1>4. Node \in Trees /\ Node.kind = "WHILE" /\ DOMAIN Node.kids = {1, 2}
  <2>1. Node \in Trees /\ Node.kind = "WHILE"
    BY <1>1, TopFrame DEF RunWhile, Enter, Resumed
  <2>2. Node.kids \in Seq(Trees) /\ Len(Node.kids) = 2
    BY <2>1 DEF WellFormed
  <2>3. QED  BY <2>1, <2>2
<1>5. /\ Node.kind \in Statements /\ Node.kind \notin Expressions /\ HoldsExpression(Node, 1)
      /\ ~HoldsExpression(Node, 2)
  BY <1>4, StatementKinds
<1>6. CASE Enter("WHILE") /\ Call(At(1), Node.kids[1])
  <2>1. R[m + 1] = Called(Node)
    BY <1>1, <1>2, <1>3, <1>6, AtTop DEF Enter
  <2>2. QED  BY <1>1, <1>2, <1>3, <1>4, <1>6, <2>1, ConditionCall
<1>7. CASE Resumed("WHILE", 1) /\ (IF value # 0 THEN Call(At(2), Node.kids[2]) ELSE Finish)
  <2>1. mode = "return" /\ Top.at = 1 /\ Evaluating(Top)
    BY <1>5, <1>7 DEF Resumed, Evaluating, Node
  <2>2. R[m + 1] = Called(Node) /\ Value(Node.kids[1], symbolTable) = [val |-> value, fate |-> {}]
    BY <1>1, <1>2, <1>3, <2>1, AtTop DEF Child, Node
  <2>3. Called(Node) = Meaning(Node, Now) /\ Now = [table |-> symbolTable, fate |-> {}]
    BY <1>5 DEF Called, Now
  <2>4. Meaning(Node, Now) = IF value # 0 THEN Meaning(Node, Meaning(Node.kids[2], Now)) ELSE Now
    BY <1>4, <2>2, <2>3, WhileRule
  <2>5. CASE value # 0
    <3>1. PICK f : f = At(2)
      OBVIOUS
    <3>2. f.node = Node /\ f.at = 2 /\ Call(f, Node.kids[2])
      BY <1>1, <1>7, <2>5, <3>1, AtFacts
    <3>3. PICK s : s = Meaning(Node.kids[2], Now)
      OBVIOUS
    <3>4. R[m + 1] = Meaning(Node, s) /\ After(f, s) = Meaning(Node, s)
      BY <1>4, <2>2, <2>3, <2>4, <2>5, <3>2, <3>3 DEF After
    <3>5. s.fate \subseteq R[m + 1].fate
      <4>1. s.fate # {} => Meaning(Node, s) = s
        BY <1>4, <1>5, SealedRule
      <4>2. QED  BY <3>4, <4>1
    <3>6. ASSUME NEW V, Assignments(V)
          PROVE  \E vs : vs \subseteq DOMAIN symbolTable /\ Counts(f, V[m + 1], vs)
      <4>1. V[m + 1] \subseteq DOMAIN symbolTable /\ Assigned(Node, V[m + 1]).ok
        BY <1>1, <1>2, <1>5, <3>6, AssignedAtTop
      <4>2. Assigned(Node.kids[2], V[m + 1]).ok
        BY <1>4, <1>5, <4>1, AssignedRule
      <4>3. Counts(f, V[m + 1], V[m + 1])
        BY <1>4, <3>2, <4>2 DEF Counts, Child
      <4>4. QED  BY <4>1, <4>3
    <3>7. 2 \in DOMAIN Node.kids /\ R[m + 1] = After(f, Meaning(Node.kids[2], Now))
          /\ Meaning(Node.kids[2], Now).fate \subseteq R[m + 1].fate
      BY <1>4, <3>3, <3>4, <3>5
    <3>8. QED  BY <1>1, <1>2, <1>3, <1>5, <3>2, <3>6, <3>7, StatementCall
  <2>6. CASE value = 0
    <3>1. Finish /\ R[m + 1] = Now
      BY <1>7, <2>2, <2>3, <2>4, <2>6
    <3>2. ASSUME NEW V, Assignments(V)
          PROVE  Assigned(Node, V[m + 1]).vars \subseteq DOMAIN symbolTable
      <4>1. V[m + 1] \subseteq DOMAIN symbolTable /\ Assigned(Node, V[m + 1]).ok
        BY <1>1, <1>2, <1>5, <3>2, AssignedAtTop
      <4>2. Assigned(Node, V[m + 1]).vars = V[m + 1]
        BY <1>4, <1>5, <4>1, AssignedRule
      <4>3. QED  BY <4>1, <4>2
    <3>3. QED  BY <1>1, <1>2, <1>3, <1>5, <3>1, <3>2, FinishOutcome
  <2>7. QED  BY <2>5, <2>6
<1>8. CASE Resumed("WHILE", 2) /\ Call(At(1), Node.kids[1])
  <2>1. mode = "return" /\ Top.at = 2 /\ ~Evaluating(Top) /\ Top.node = Node
    BY <1>5, <1>8 DEF Resumed, Evaluating, Node
  <2>2. R[m + 1] = Called(Node)
    <3>1. R[m + 1] = After(Top, Now)
      BY <1>1, <1>2, <1>3, <2>1, AtTop
    <3>2. QED  BY <1>4, <1>5, <2>1, <3>1 DEF After, Called
  <2>3. QED  BY <1>1, <1>2, <1>3, <1>4, <1>8, <2>2, ConditionCall
<1>9. QED  BY <1>6, <1>7, <1>8 DEF RunWhile

-----------------------------------------------------------------------------
(* main *)

LEMMA InitOutcome ==
  ASSUME NEW Trees, WellFormed(Trees), Init
  PROVE  ProgramsInv /\ LinkInv /\ OutcomeInv /\ AssignedInv
<1>1. testcases \in Seq({n \in Trees : n.kind \in Statements})
  BY DEF Init, WellFormed
<1>2. ProgramsInv
  BY <1>1 DEF ProgramsInv
<1>3. LinkInv /\ OutcomeInv /\ AssignedInv
  BY DEF Init, LinkInv, OutcomeInv, AssignedInv, ReadsAreAssigned, Running, Died
<1>4. QED  BY <1>2, <1>3

LEMMA ExecuteOutcome ==
  ASSUME NEW Trees, WellFormed(Trees), Inv(Trees), Execute
  PROVE  LinkInv' /\ OutcomeInv' /\ AssignedInv'
<1>1. ValueInv(Trees) /\ ProgramsInv /\ OutcomeInv
  BY DEF Inv
<1>2. Program \in Trees /\ Program.kind \in Statements /\ Program.kind \notin Expressions
  <2>1. Len(printed) + 1 \in DOMAIN testcases
    BY <1>1 DEF Execute, Done, ValueInv
  <2>2. QED  BY <1>1, <2>1, Disjoint DEF Program, ProgramsInv, ValueInv
<1>3. /\ stack' = <<Frame(Program)>> /\ mode' = "call" /\ symbolTable' = NoTable
      /\ testcases' = testcases /\ printed' = printed
  BY DEF Execute, Program
<1>4. PICK p : p = Program
  OBVIOUS
<1>5. Program' = p
  BY <1>3, <1>4 DEF Program
<1>6. /\ DOMAIN stack' = {1} /\ Len(stack') = 1 /\ stack' # <<>>
      /\ stack'[1].node = p /\ stack'[1].args = NoTable
  BY <1>3, <1>4 DEF Frame
<1>7. Waiting' = {}
  BY <1>3, <1>6 DEF Waiting
<1>8. Node' = p
  BY <1>6 DEF Node, Top, Last
<1>9. p.kind \in Statements /\ p.kind \notin Expressions /\ p.kind # "BINARY"
  BY <1>2, <1>4 DEF Expressions
<1>10. LinkInv'
  <2>1. stack'[1].node = Program' /\ Program'.kind \in Statements
    BY <1>5, <1>6, <1>9
  <2>2. \A i, j \in DOMAIN stack' : ~(i < j)
    BY <1>6
  <2>3. \A i \in 1 .. Len(stack') - 1 : FALSE
    BY <1>6
  <2>4. QED  BY <1>7, <2>1, <2>2, <2>3 DEF LinkInv
<1>11. OutcomeInv'
  <2>1. OperandsInv'
    BY <1>6, <1>9 DEF OperandsInv
  <2>2. PICK R : R = [i \in {1} |-> Meaning(p, Start)]
    OBVIOUS
  <2>3. R[1] = Meaning(p, Start)
    BY <2>2
  <2>4. Called(Node)' = Meaning(p, Start)
    BY <1>3, <1>8, <1>9 DEF Called, Now, Start
  <2>5. Promises(R)'
    BY <1>3, <1>5, <1>6, <1>7, <2>3, <2>4 DEF Promises, Outcome
  <2>6. QED  BY <1>1, <1>3, <2>1, <2>5 DEF OutcomeInv, Died
<1>12. AssignedInv'
  <2>1. ASSUME Assigned(Program', {}).ok PROVE \E V : Assignments(V)'
    <3>1. PICK V : V = [i \in {1} |-> {}]
      OBVIOUS
    <3>2. V[1] = {} /\ Assigned(p, {}).ok
      BY <1>5, <2>1, <3>1
    <3>3. Assignments(V)'
      BY <1>3, <1>6, <1>7, <1>9, <3>2 DEF Assignments
    <3>4. QED  BY <3>3
  <2>2. QED  BY <1>3, <2>1 DEF AssignedInv, ReadsAreAssigned
<1>13. QED  BY <1>10, <1>11, <1>12

LEMMA PrintOutcome ==
  ASSUME NEW Trees, WellFormed(Trees), Inv(Trees), PrintTable
  PROVE  LinkInv' /\ OutcomeInv' /\ AssignedInv'
<1>1. ValueInv(Trees) /\ OutcomeInv /\ mode = "return" /\ stack = <<>> /\ Running
  BY DEF Inv, PrintTable, Running
<1>2. PICK R : Promises(R)
  BY <1>1 DEF OutcomeInv
<1>3. Outcome(Program) = [table |-> symbolTable, fate |-> {}]
  <2>1. R[1] = Returned
    BY <1>1, <1>2 DEF Promises
  <2>2. Returned = Now
    BY <1>1 DEF Returned
  <2>3. QED  BY <1>2, <2>1, <2>2 DEF Promises, Now
<1>4. PICK l \in Nat : l = Len(printed)
  BY <1>1 DEF ValueInv
<1>5. /\ printed \in Seq(Tables(Trees)) /\ symbolTable \in Tables(Trees)
      /\ printed' = Append(printed, symbolTable) /\ testcases' = testcases /\ mode' = "idle"
  BY <1>1 DEF PrintTable, ValueInv
<1>6. /\ DOMAIN printed = 1 .. l /\ DOMAIN printed' = 1 .. l + 1
      /\ \A i \in 1 .. l : printed'[i] = printed[i]
      /\ printed'[l + 1] = symbolTable
  BY <1>4, <1>5
<1>7. Program = testcases[l + 1]
  BY <1>4 DEF Program
<1>8. ASSUME NEW i \in 1 .. l + 1
      PROVE  Outcome(testcases[i]) = [table |-> printed'[i], fate |-> {}]
  <2>1. CASE i \in 1 .. l
    BY <1>1, <1>6, <2>1 DEF OutcomeInv
  <2>2. CASE i = l + 1
    BY <1>3, <1>6, <1>7, <2>2
  <2>3. QED  BY <2>1, <2>2
<1>9. OutcomeInv'
  BY <1>5, <1>6, <1>8 DEF OutcomeInv, Died, Running
<1>10. LinkInv' /\ AssignedInv'
  BY <1>5 DEF LinkInv, AssignedInv, ReadsAreAssigned, Running
<1>11. QED  BY <1>9, <1>10

LEMMA StutterOutcome ==
  ASSUME LinkInv, OutcomeInv, AssignedInv, UNCHANGED vars
  PROVE  LinkInv' /\ OutcomeInv' /\ AssignedInv'
<1>1. LinkInv'
  BY DEF vars, LinkInv, Running, Waiting, Program, Child
<1>2. (\E R : Promises(R)) => (\E R : Promises(R)')
  BY DEF vars, Promises, Waiting, Program, Evaluating, Called, Now, After, Node, Top, Returned, Child
<1>3. OutcomeInv'
  BY <1>2 DEF vars, OutcomeInv, OperandsInv, Died, Running, Program
<1>4. (\E V : Assignments(V)) => (\E V : Assignments(V)')
  BY DEF vars, Assignments, Waiting, Evaluating, Counts, Child, Top
<1>5. AssignedInv'
  BY <1>4 DEF vars, AssignedInv, ReadsAreAssigned, Running, Program
<1>6. QED  BY <1>1, <1>3, <1>5

LEMMA InvStep ==
  ASSUME NEW Trees, WellFormed(Trees), Semantics(Trees), Inv(Trees), [Next]_vars
  PROVE  Inv(Trees)'
<1>1. ValueInv(Trees)'
  <2>1. CASE UNCHANGED vars
    BY <2>1 DEF vars, ValueInv, Inv
  <2>2. CASE Execute \/ PrintTable
    BY <2>2, MainStep DEF Inv
  <2>3. CASE stack # <<>> /\ ProgramStep
    BY <2>3, ExpressionStep, BinaryStep, AssignmentStep, ControlStep DEF ProgramStep, Inv
  <2>4. QED  BY <2>1, <2>2, <2>3 DEF Next, Exited
<1>2. ProgramsInv'
  <2>1. testcases' = testcases
    BY DEF Next, vars, Execute, PrintTable, Exited, ProgramStep, EvaluateNum, EvaluateVar,
           EvaluateBinary, Operand, Operate, Evaluates, RunAssignment, RunSequence, NextStatement,
           Finish, RunIf, RunWhile, Call, Return, Dies
  <2>2. QED  BY <2>1 DEF Inv, ProgramsInv
<1>3. LinkInv' /\ OutcomeInv' /\ AssignedInv'
  <2>1. CASE UNCHANGED vars
    BY <2>1, StutterOutcome DEF Inv
  <2>2. CASE Execute
    BY <2>2, ExecuteOutcome
  <2>3. CASE PrintTable
    BY <2>3, PrintOutcome
  <2>4. CASE stack # <<>> /\ ProgramStep
    BY <2>4, NumOutcome, VarOutcome, BinaryOutcome, AssignmentOutcome, SequenceOutcome,
       IfOutcome, WhileOutcome DEF ProgramStep
  <2>5. QED  BY <2>1, <2>2, <2>3, <2>4 DEF Next, Exited
<1>4. QED  BY <1>1, <1>2, <1>3 DEF Inv

LEMMA Invariance ==
  ASSUME NEW CONSTANT Trees, WellFormed(Trees), Semantics(Trees)
  PROVE  Spec => []Inv(Trees)
<1>1. Init => Inv(Trees)
  BY InitValues, InitOutcome DEF Inv
<1>2. Inv(Trees) /\ [Next]_vars => Inv(Trees)'
  BY InvStep
<1>3. QED  BY <1>1, <1>2, PTL DEF Spec

\* Whatever programs are built, a table that is printed is the one its program
\* means, and a program that dies has a fate that is the one it died of: the
\* tables of programs do not mix (Test::execute) and the order in which operands
\* are evaluated (ast.cc 48-73) shows in nothing else than the choice of a fate.
THEOREM OutcomesAreRight ==
  ASSUME NEW CONSTANT Trees, WellFormed(Trees), Semantics(Trees)
  PROVE  Spec => []OutcomeIsRight
<1>1. Inv(Trees) => OutcomeIsRight
  BY DEF Inv, OutcomeInv, OutcomeIsRight, Program
<1>2. QED  BY <1>1, Invariance, PTL

\* Definite assignment is sound: SymbolTable::get (ast.cc 20) throws in no
\* program in which every path assigns what it reads.
THEOREM DefiniteAssignmentIsSound ==
  ASSUME NEW CONSTANT Trees, WellFormed(Trees), Semantics(Trees)
  PROVE  Spec => []ReadsAreAssigned
<1>1. Inv(Trees) => ReadsAreAssigned
  BY DEF Inv, AssignedInv
<1>2. QED  BY <1>1, Invariance, PTL

-----------------------------------------------------------------------------
(* The loop of main *)

\* The tables printed, as ends of their programs.
PrintedEnds(tables) == [i \in DOMAIN tables |-> [table |-> tables[i], fate |-> {}]]

LEMMA PrintedEndsGrow ==
  ASSUME NEW S, NEW ts \in Seq(S), NEW t \in S
  PROVE  /\ PrintedEnds(ts) \in Seq([table : S, fate : {{}}]) /\ Len(PrintedEnds(ts)) = Len(ts)
         /\ PrintedEnds(Append(ts, t)) = Append(PrintedEnds(ts), [table |-> t, fate |-> {}])
<1> DEFINE r == [table |-> t, fate |-> {}]
<1>1. DOMAIN ts = 1 .. Len(ts) /\ Len(ts) \in Nat /\ \A i \in 1 .. Len(ts) : ts[i] \in S
  OBVIOUS
<1>2. PrintedEnds(ts) = [i \in 1 .. Len(ts) |-> [table |-> ts[i], fate |-> {}]]
  BY <1>1 DEF PrintedEnds
<1>3. PrintedEnds(ts) \in Seq([table : S, fate : {{}}]) /\ Len(PrintedEnds(ts)) = Len(ts)
  BY <1>1, <1>2
<1>4. /\ DOMAIN Append(ts, t) = 1 .. Len(ts) + 1
      /\ \A i \in 1 .. Len(ts) : Append(ts, t)[i] = ts[i]
      /\ Append(ts, t)[Len(ts) + 1] = t
  BY <1>1
<1>5. PrintedEnds(Append(ts, t)) = [i \in 1 .. Len(ts) + 1 |-> [table |-> Append(ts, t)[i], fate |-> {}]]
  BY <1>4 DEF PrintedEnds
<1> HIDE DEF r
<1>6. /\ DOMAIN Append(PrintedEnds(ts), r) = 1 .. Len(ts) + 1
      /\ \A i \in 1 .. Len(ts) : Append(PrintedEnds(ts), r)[i] = [table |-> ts[i], fate |-> {}]
      /\ Append(PrintedEnds(ts), r)[Len(ts) + 1] = r
      /\ Append(PrintedEnds(ts), r) = [i \in DOMAIN Append(PrintedEnds(ts), r) |-> Append(PrintedEnds(ts), r)[i]]
  BY <1>2, <1>3, <1>1
<1>7. \A i \in 1 .. Len(ts) + 1 : PrintedEnds(Append(ts, t))[i] = Append(PrintedEnds(ts), r)[i]
  <2>1. ASSUME NEW i \in 1 .. Len(ts) + 1
        PROVE  PrintedEnds(Append(ts, t))[i] = Append(PrintedEnds(ts), r)[i]
    <3>1. PrintedEnds(Append(ts, t))[i] = [table |-> Append(ts, t)[i], fate |-> {}]
      BY <1>5
    <3>2. CASE i \in 1 .. Len(ts)
      BY <3>1, <3>2, <1>4, <1>6
    <3>3. CASE i = Len(ts) + 1
      BY <3>1, <3>3, <1>4, <1>6 DEF r
    <3>4. i \in 1 .. Len(ts) \/ i = Len(ts) + 1
      BY <1>1
    <3>5. QED  BY <3>2, <3>3, <3>4
  <2>2. QED  BY <2>1
<1>8. QED  BY <1>3, <1>5, <1>6, <1>7 DEF r

LEMMA NothingLost ==
  ASSUME NEW S, NEW ts \in Seq(S)
  PROVE  PrintedEnds(ts) # <<>> => Last(PrintedEnds(ts)).fate = {}
<1>1. DOMAIN ts = 1 .. Len(ts) /\ Len(ts) \in Nat
  OBVIOUS
<1>2. PrintedEnds(ts) = [i \in 1 .. Len(ts) |-> [table |-> ts[i], fate |-> {}]]
  BY <1>1 DEF PrintedEnds
<1>3. Len(PrintedEnds(ts)) = Len(ts)
  BY <1>1, <1>2
<1>4. PrintedEnds(ts) # <<>> => Len(ts) \in DOMAIN PrintedEnds(ts)
  BY <1>1, <1>2
<1>5. QED  BY <1>2, <1>3, <1>4 DEF Last

\* A step prints one more table, the one its program means, or dies as it may.
LEMMA EndsGrow ==
  ASSUME NEW Trees, ValueInv(Trees), OutcomeIsRight', [Next]_vars
  PROVE  Main!RunNext \/ UNCHANGED Main!vars
<1>1. /\ testcases \in Seq(Trees) /\ printed \in Seq(Tables(Trees)) /\ Len(printed) \in Nat
      /\ symbolTable \in Tables(Trees)
  BY DEF ValueInv
<1>2. Finished = IF Died THEN Append(PrintedEnds(printed), [table |-> NoTable, fate |-> {mode}])
                 ELSE PrintedEnds(printed)
  BY DEF Finished, PrintedEnds
<1>3. Finished' = IF Died' THEN Append(PrintedEnds(printed'), [table |-> NoTable, fate |-> {mode'}])
                  ELSE PrintedEnds(printed')
  BY DEF Finished, PrintedEnds
<1>4. CASE UNCHANGED <<testcases, printed>> /\ ~Died /\ ~Died'
  BY <1>4, <1>2, <1>3 DEF Main!vars
<1>5. ASSUME NEW r \in EndsOf(testcases[Len(printed) + 1]), ~Died, mode # "idle", testcases' = testcases,
             Finished' = Append(PrintedEnds(printed), r)
      PROVE  Main!RunNext
  <2>1. Len(printed) < Len(testcases) /\ Finished = PrintedEnds(printed)
    BY <1>5, <1>2 DEF ValueInv
  <2>2. Len(Finished) = Len(printed)
    BY <2>1, <1>1, PrintedEndsGrow
  <2>3. ~Main!Lost
    BY <2>1, <1>1, NothingLost DEF Main!Lost, Main!Last, Last, Loses
  <2>4. QED  BY <1>5, <2>1, <2>2, <2>3 DEF Main!RunNext
<1>6. CASE ~Died /\ Died' /\ UNCHANGED <<testcases, printed>> /\ mode # "idle"
  <2> DEFINE p == testcases[Len(printed) + 1]
  <2>1. mode' \in Outcome(p).fate
    BY <1>6 DEF OutcomeIsRight
  <2>2. [table |-> NoTable, fate |-> {mode'}] \in EndsOf(p)
    BY <2>1 DEF EndsOf
  <2>3. QED  BY <1>3, <1>5, <1>6, <2>2
<1>7. CASE PrintTable
  <2> DEFINE p == testcases[Len(printed) + 1]
  <2>1. /\ mode = "return" /\ ~Died /\ ~Died' /\ testcases' = testcases
        /\ printed' = Append(printed, symbolTable)
    BY <1>7 DEF PrintTable, Died
  <2>2. /\ Len(printed) + 1 \in DOMAIN printed'
        /\ printed'[Len(printed) + 1] = symbolTable
    BY <1>1, <2>1
  <2>3. Outcome(p) = [table |-> symbolTable, fate |-> {}]
    BY <2>1, <2>2 DEF OutcomeIsRight
  <2>4. [table |-> symbolTable, fate |-> {}] \in EndsOf(p)
    BY <2>3 DEF EndsOf
  <2>5. PrintedEnds(printed') = Append(PrintedEnds(printed), [table |-> symbolTable, fate |-> {}])
    BY <1>1, <2>1, PrintedEndsGrow
  <2>6. QED  BY <1>3, <1>5, <2>1, <2>4, <2>5
<1>8. CASE stack # <<>> /\ ProgramStep
  <2>1. mode \in {"call", "return"} /\ UNCHANGED <<testcases, printed>>
    BY <1>8 DEF ProgramStep, EvaluateNum, EvaluateVar, EvaluateBinary, Operand, Operate, RunAssignment,
                RunSequence, NextStatement, RunIf, RunWhile, Finish, Evaluates, Enter, Resumed, Call, Return, Dies
  <2>2. QED  BY <2>1, <1>4, <1>6 DEF Died
<1>9. CASE Execute
  BY <1>9, <1>4 DEF Execute, Died
<1>10. CASE UNCHANGED vars
  BY <1>10, <1>2, <1>3 DEF vars, Main!vars, Died
<1>11. QED  BY <1>7, <1>8, <1>9, <1>10 DEF Next, Exited

\* The main of test_ast.cc is the loop of Batch: Test::execute gives every
\* program an empty table, and what one computes, overflows or divides by never
\* reaches the next.
THEOREM MainRunsEachProgramAlone ==
  ASSUME NEW CONSTANT Trees, WellFormed(Trees), Semantics(Trees)
  PROVE  Spec => ImplementsBatch
<1>1. Init => Main!Init
  BY DEF Init, Main!Init, Finished, Died
<1>2. Inv(Trees) /\ Inv(Trees)' /\ [Next]_vars => [Main!RunNext]_(Main!vars)
  <2>1. Inv(Trees) => ValueInv(Trees) /\ OutcomeIsRight
    BY DEF Inv, OutcomeInv, OutcomeIsRight, Program
  <2>2. Inv(Trees)' => OutcomeIsRight'
    BY DEF Inv, OutcomeInv, OutcomeIsRight, Program
  <2>3. QED  BY <2>1, <2>2, EndsGrow
<1>3. Spec => []Inv(Trees)
  BY Invariance
<1>4. QED
  BY <1>1, <1>2, <1>3, PTL DEF Spec, ImplementsBatch, Main!Spec
=============================================================================
