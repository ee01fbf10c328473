---------------------------- MODULE TypingProofs ----------------------------
(* The verdicts of the type checker against the typing rules, what they say *)
(* of an accepted program, and the loop of main, for every set of well-formed *)
(* programs and every judgement that satisfies the rules.                   *)
EXTENDS TypingRules, TypecheckerProofs

\* The innermost bindings of the first d scopes of a chain.
Binders(chain, d, v) == {i \in 1 .. d : v \in DOMAIN chain[i]}
Visible(chain, d) ==
  [v \in UNION {DOMAIN chain[i] : i \in 1 .. d} |->
     chain[CHOOSE i \in Binders(chain, d, v) : \A j \in Binders(chain, d, v) : j <= i][v]]

\* What the children of the i-th frame see: variables and functions.
EnvAt(i) == Visible(scopes, Depth(stack, i))
FunctionsAt == Sees(stack[1].node, stack[1].at)

\* The node that the frame f calls for, and the places it calls from.
ChildOf(f) ==
  IF f.node.kind = "BRANCH"
  THEN <<f.node.kids[1].kids[1], f.node.kids[1].kids[2], f.node.kids[2], f.node.kids[3]>>[f.at]
  ELSE f.node.kids[f.at]
Slots(n) == IF n.kind = "BRANCH" THEN 1 .. 4 ELSE DOMAIN n.kids

\* A frame that waits, or is about to go on, in an environment e: what it has
\* found right so far, the program being at its k-th child.
SoFar(f, e, p, k) ==
  LET n == f.node
      fs == Sees(p, k)
      Of(i) == Yields(n.kids[i], e, fs)
      Operand(i) == Yields(n.kids[1].kids[i], e, fs)
  IN
  /\ n.kind = "BINARY" /\ f.at = 2 => Of(1) = {"INT"}
  /\ n.kind = "FUNCTIONCALL" =>
       /\ n.name \in DOMAIN fs /\ Len(fs[n.name].params) = Len(n.kids)
       /\ \A i \in 1 .. f.at - 1 : Of(i) = {fs[n.name].params[i]}
  /\ n.kind = "SEQUENCE" => f.acc = UNION {Of(i) : i \in 1 .. f.at - 1}
  /\ n.kind = "BRANCH" =>
       /\ n.kids[1].kind = "BINARY"
       /\ f.at = 2 => f.acc = Operand(1)
       /\ f.at \in {3, 4} => Operand(1) = Operand(2) /\ Ill \notin Operand(1)
       /\ f.at = 4 => f.acc = Of(2)
  /\ n.kind = "LOOP" /\ f.at = 2 => Of(1) = {"BOOL"}
  /\ n.kind \in {"BLOCK", "FUNCTION", "PROGRAM"} => ~Repeats(n.decls)
  /\ n.kind = "FUNCTION" => n.name \notin DOMAIN Sees(p, k - 1)
  /\ n.kind = "PROGRAM" => \A j \in 1 .. f.at - 1 : FunctionOK(n, j)

\* The environment below a frame is the one above it, or shadows it.
EnvFrom(i) ==
  /\ EnvAt(i) = IF i = 1 THEN Mapping(stack[1].node.decls)
                ELSE IF Opens(stack[i]) THEN Shadowing(EnvAt(i - 1), stack[i].node.decls)
                ELSE EnvAt(i - 1)
  /\ \A v \in DOMAIN EnvAt(i) : EnvAt(i)[v] \in Types

\* Every frame stands for a child of the one below it, a function for one of
\* the program.
LinkInv ==
  /\ \A i \in 1 .. Len(stack) : stack[i].node.kind = "FUNCTION" => i = 2
  /\ \A i \in 1 .. Len(stack) - 1 : /\ stack[i].at \in Slots(stack[i].node)
                                    /\ stack[i + 1].node = ChildOf(stack[i])
  /\ mode = "return" => Top.at \in Slots(Node)
  /\ \A i \in 1 .. Len(stack) : stack[i].at > 0 => EnvFrom(i)

SoFarInv ==
  mode \in {"call", "return"} =>
    \A i \in 1 .. Len(stack) :
      stack[i].at > 0 => SoFar(stack[i], EnvAt(i), stack[1].node, stack[1].at)

\* What a call has returned is what the rules say of its node, and a node that
\* an exception leaves is one that the rules reject.
Rejected(n, e, p, k) ==
  CASE n.kind = "PROGRAM"  -> ~WellTyped(n)
    [] n.kind = "FUNCTION" -> ~FunctionOK(p, k)
    [] OTHER -> Ill \in Yields(n, e, Sees(p, k))
ResultInv ==
  mode = "return" =>
    IF ChildOf(Top).kind = "FUNCTION" THEN FunctionOK(Node, Top.at)
    ELSE result = Yields(ChildOf(Top), EnvAt(Len(stack)), FunctionsAt)
NoCast(n) == \E m \in Nodes(n) : m.kind = "BRANCH" /\ m.kids[1].kind # "BINARY"
ThrowInv ==
  mode = "throw" =>
    /\ Rejected(Node, EnvAt(Len(stack) - 1), stack[1].node, stack[1].at)
    /\ thrown.kind = "bad_cast" => NoCast(Node)

FunctionInv == functions = [g \in DOMAIN functions |-> functions[g]]

JudgedInv ==
  /\ VerdictIsRight /\ FunctionInv
  /\ mode # "idle" =>
       LinkInv /\ SoFarInv /\ ResultInv /\ ThrowInv /\ stack[1].node = testcases[Len(verdicts) + 1]

-----------------------------------------------------------------------------
(* Environments *)

LEMMA VisibleSame ==
  ASSUME NEW c, NEW b, NEW d \in Nat, \A i \in 1 .. d : c[i] = b[i]
  PROVE  Visible(c, d) = Visible(b, d)
<1>1. \A v : Binders(c, d, v) = Binders(b, d, v)
  BY DEF Binders
<1>2. UNION {DOMAIN c[i] : i \in 1 .. d} = UNION {DOMAIN b[i] : i \in 1 .. d}
  OBVIOUS
<1>3. ASSUME NEW v \in UNION {DOMAIN c[i] : i \in 1 .. d}
      PROVE  Visible(c, d)[v] = Visible(b, d)[v]
  <2> DEFINE k == CHOOSE i \in Binders(c, d, v) : \A j \in Binders(c, d, v) : j <= i
  <2>1. k \in Binders(c, d, v)
    <3>1. Binders(c, d, v) \in SUBSET (1 .. d) /\ Binders(c, d, v) # {}
      BY DEF Binders
    <3>2. \E i \in Binders(c, d, v) : \A j \in Binders(c, d, v) : j <= i
      BY <3>1, Greatest
    <3>3. QED  BY <3>2
  <2>2. k \in 1 .. d /\ k = CHOOSE i \in Binders(b, d, v) : \A j \in Binders(b, d, v) : j <= i
    BY <1>1, <2>1 DEF Binders
  <2> HIDE DEF k
  <2>3. Visible(b, d)[v] = b[k][v]
    BY <2>2, <1>2 DEF Visible
  <2>4. Visible(c, d)[v] = c[k][v]
    BY DEF Visible, k
  <2>5. QED  BY <2>2, <2>3, <2>4
<1>4. QED  BY <1>2, <1>3 DEF Visible

\* The greatest binder is the one Visible takes.
LEMMA VisibleAt ==
  ASSUME NEW c, NEW d \in Nat, NEW v, NEW k \in Binders(c, d, v),
         \A j \in Binders(c, d, v) : j <= k
  PROVE  v \in DOMAIN Visible(c, d) /\ Visible(c, d)[v] = c[k][v]
<1>1. k \in 1 .. d /\ v \in DOMAIN c[k]
  BY DEF Binders
<1>2. \A i \in Binders(c, d, v) : (\A j \in Binders(c, d, v) : j <= i) => i = k
  <2>1. \A i \in Binders(c, d, v) : i \in Nat
    BY DEF Binders
  <2>2. QED  BY <2>1
<1>3. k = CHOOSE i \in Binders(c, d, v) : \A j \in Binders(c, d, v) : j <= i
  BY <1>2
<1>4. QED  BY <1>1, <1>3 DEF Visible

LEMMA VisibleHas ==
  ASSUME NEW c, NEW d \in Nat, NEW v
  PROVE  /\ v \in DOMAIN Visible(c, d) <=> Binders(c, d, v) # {}
         /\ v \in DOMAIN Visible(c, d) =>
              \E k \in Binders(c, d, v) : /\ \A j \in Binders(c, d, v) : j <= k
                                          /\ Visible(c, d)[v] = c[k][v]
<1>1. v \in DOMAIN Visible(c, d) <=> Binders(c, d, v) # {}
  BY DEF Visible, Binders
<1>2. ASSUME Binders(c, d, v) # {}
      PROVE  \E k \in Binders(c, d, v) : \A j \in Binders(c, d, v) : j <= k
  <2>1. Binders(c, d, v) \in SUBSET (1 .. d)
    BY DEF Binders
  <2>2. QED  BY <1>2, <2>1, Greatest
<1>3. QED  BY <1>1, <1>2, VisibleAt

LEMMA VisibleNone == ASSUME NEW c PROVE DOMAIN Visible(c, 0) = {}
BY DEF Visible

\* One more scope shadows what is outside of it.
LEMMA VisibleNext ==
  ASSUME NEW c, NEW d \in Nat, NEW decls, c[d + 1] = Mapping(decls)
  PROVE  Visible(c, d + 1) = Shadowing(Visible(c, d), decls)
<1> DEFINE m == Mapping(decls)
<1>1. \A v : Binders(c, d + 1, v) = IF v \in DOMAIN m THEN Binders(c, d, v) \cup {d + 1}
                                                       ELSE Binders(c, d, v)
  <2>1. 1 .. d + 1 = (1 .. d) \cup {d + 1}
    OBVIOUS
  <2>2. QED  BY <2>1 DEF Binders
<1> HIDE DEF m
<1>2. DOMAIN Visible(c, d + 1) = DOMAIN m \cup DOMAIN Visible(c, d)
  <2>1. d + 1 \in Nat
    OBVIOUS
  <2>2. \A v : v \in DOMAIN Visible(c, d + 1) <=> v \in DOMAIN m \/ v \in DOMAIN Visible(c, d)
    BY <1>1, <2>1, VisibleHas
  <2>3. QED  BY <2>2
<1>3. ASSUME NEW v \in DOMAIN m PROVE Visible(c, d + 1)[v] = m[v]
  <2>0. Binders(c, d + 1, v) = Binders(c, d, v) \cup {d + 1}
    BY <1>1, Zenon
  <2>1. d + 1 \in Nat /\ d + 1 \in Binders(c, d + 1, v)
    BY <2>0
  <2>2. \A j \in Binders(c, d + 1, v) : j <= d + 1
    BY DEF Binders
  <2>3. Visible(c, d + 1)[v] = c[d + 1][v]
    BY <2>1, <2>2, VisibleAt
  <2>4. QED  BY <2>3 DEF m
<1>4. ASSUME NEW v \in DOMAIN Visible(c, d), v \notin DOMAIN m
      PROVE  Visible(c, d + 1)[v] = Visible(c, d)[v]
  <2>1. PICK k \in Binders(c, d, v) : /\ \A j \in Binders(c, d, v) : j <= k
                                      /\ Visible(c, d)[v] = c[k][v]
    BY VisibleHas
  <2>2. Binders(c, d + 1, v) = Binders(c, d, v)
    BY <1>1, <1>4, Zenon
  <2>3. d + 1 \in Nat
    OBVIOUS
  <2>4. QED  BY <2>1, <2>2, <2>3, VisibleAt
<1>5. Visible(c, d + 1) = [v \in DOMAIN Visible(c, d + 1) |-> Visible(c, d + 1)[v]]
  BY DEF Visible
<1>6. Shadowing(Visible(c, d), decls)
        = [v \in DOMAIN m \cup DOMAIN Visible(c, d) |->
             IF v \in DOMAIN m THEN m[v] ELSE Visible(c, d)[v]]
  BY DEF Shadowing, m
<1>7. QED  BY <1>2, <1>3, <1>4, <1>5, <1>6

LEMMA VisibleFirst ==
  ASSUME NEW c, NEW decls, c[1] = Mapping(decls)
  PROVE  Visible(c, 1) = Mapping(decls)
<1>1. Visible(c, 0 + 1) = Shadowing(Visible(c, 0), decls) /\ 0 + 1 = 1
  BY VisibleNext
<1>2. DOMAIN Visible(c, 0) = {}
  BY VisibleNone
<1> DEFINE m == Mapping(decls)
<1>3. m = [v \in DOMAIN m |-> m[v]]
  BY DEF Mapping
<1>4. Shadowing(Visible(c, 0), decls)
        = [v \in DOMAIN m \cup DOMAIN Visible(c, 0) |->
             IF v \in DOMAIN m THEN m[v] ELSE Visible(c, 0)[v]]
  BY DEF Shadowing
<1> HIDE DEF m
<1>5. m = Shadowing(Visible(c, 0), decls)
  BY <1>2, <1>3, <1>4
<1>6. QED  BY <1>1, <1>5 DEF m

LEMMA VisibleTypes ==
  ASSUME NEW c \in Seq(Scopes), NEW d \in 0 .. Len(c), NEW v \in DOMAIN Visible(c, d)
  PROVE  Visible(c, d)[v] \in Types
<1>1. d \in Nat /\ 1 .. d \subseteq 1 .. Len(c)
  OBVIOUS
<1>2. PICK k \in Binders(c, d, v) : Visible(c, d)[v] = c[k][v]
  BY <1>1, VisibleHas
<1>3. k \in 1 .. Len(c) /\ v \in DOMAIN c[k]
  BY <1>1 DEF Binders
<1>4. c[k] \in Scopes
  BY <1>3
<1>5. QED  BY <1>2, <1>3, <1>4 DEF Scopes

\* What the typechecker finds in its chain of scopes.
LEMMA LookupVisible ==
  ASSUME scopes \in Seq(Scopes), NEW v
  PROVE  /\ Bound(v) <=> v \in DOMAIN Visible(scopes, Len(scopes))
         /\ Bound(v) => Lookup(v) = Visible(scopes, Len(scopes))[v]
<1>1. Len(scopes) \in Nat /\ Holders(v) = Binders(scopes, Len(scopes), v)
  BY DEF Holders, Binders
<1>2. Bound(v) <=> v \in DOMAIN Visible(scopes, Len(scopes))
  BY <1>1, VisibleHas DEF Bound
<1>3. Bound(v) => Lookup(v) = Visible(scopes, Len(scopes))[v]
  <2>1. v \in UNION {DOMAIN scopes[i] : i \in 1 .. Len(scopes)} <=> Bound(v)
    BY <1>2 DEF Visible
  <2>2. QED  BY <1>1, <2>1 DEF Lookup, Visible
<1>4. QED  BY <1>2, <1>3

-----------------------------------------------------------------------------
(* Calls, returns and exceptions *)

LEMMA EnvKept ==
  ASSUME NEW i \in Nat, \A j \in 1 .. i : Opens(stack'[j]) <=> Opens(stack[j]),
         \A j \in 1 .. Depth(stack, i) : scopes'[j] = scopes[j]
  PROVE  EnvAt(i)' = EnvAt(i) /\ Depth(stack', i) = Depth(stack, i)
<1>1. Depth(stack', i) = Depth(stack, i) /\ Depth(stack, i) \in Nat
  BY DepthSame, DepthNext
<1>2. Visible(scopes', Depth(stack, i)) = Visible(scopes, Depth(stack, i))
  BY <1>1, VisibleSame
<1>3. QED  BY <1>1, <1>2 DEF EnvAt

\* The frames below the top one, and what they rely on, stay.
LEMMA BelowKept ==
  ASSUME NEW m \in Nat, \A i \in 1 .. m : stack'[i] = stack[i],
         \A j \in 1 .. Depth(stack, m) : scopes'[j] = scopes[j]
  PROVE  /\ \A i \in 0 .. m : EnvAt(i)' = EnvAt(i)
         /\ \A i \in 1 .. m : EnvFrom(i)' <=> EnvFrom(i)
<1>1. ASSUME NEW i \in 0 .. m PROVE EnvAt(i)' = EnvAt(i)
  <2>1. i \in Nat /\ \A j \in 1 .. i : j \in 1 .. m
    OBVIOUS
  <2>2. Depth(stack, i) <= Depth(stack, m) /\ Depth(stack, i) \in Nat /\ Depth(stack, m) \in Nat
    BY <2>1, DepthGrows, DepthNext
  <2>3. \A j \in 1 .. Depth(stack, i) : j \in 1 .. Depth(stack, m)
    BY <2>2
  <2>4. QED  BY <2>1, <2>3, EnvKept
<1>2. ASSUME NEW i \in 1 .. m PROVE EnvFrom(i)' <=> EnvFrom(i)
  <2>1. i \in 0 .. m /\ i - 1 \in 0 .. m /\ 1 \in 1 .. m
    OBVIOUS
  <2>2. EnvAt(i)' = EnvAt(i) /\ EnvAt(i - 1)' = EnvAt(i - 1)
    BY <2>1, <1>1
  <2>3. stack'[i] = stack[i] /\ stack'[1] = stack[1]
    BY <2>1
  <2> HIDE DEF EnvAt
  <2>4. QED  BY <2>2, <2>3 DEF EnvFrom
<1>3. QED  BY <1>1, <1>2

LEMMA VerdictsKept == ASSUME VerdictIsRight, UNCHANGED <<testcases, verdicts>> PROVE VerdictIsRight'
BY DEF VerdictIsRight, Executed

\* A call: the frame that makes it has found things right so far.
LEMMA JudgedCall ==
  ASSUME NEW Trees, ShapeInv(Trees), EnvInv', JudgedInv, mode \in {"call", "return"},
         NEW m \in Nat, Len(stack) = m + 1,
         NEW f \in Frames(Trees), f.node = Node, f.at \in Slots(Node), f.at > 0,
         NEW n \in Trees, n = ChildOf(f), Call(f, n),
         FunctionInv', \A j \in 1 .. Depth(stack, m) : scopes'[j] = scopes[j],
         EnvFrom(m + 1)',
         SoFar(f, EnvAt(m + 1)', stack[1].node, IF m = 0 THEN f.at ELSE stack[1].at)
  PROVE  JudgedInv'
<1>1. /\ stack # <<>> /\ stack \in Seq(Frames(Trees)) /\ Top = stack[m + 1] /\ Top.node = Node
  BY TopFrame DEF ShapeInv
<1>2. /\ Front(stack) \in Seq(Frames(Trees)) /\ Len(Front(stack)) = m
      /\ \A i \in 1 .. m : Front(stack)[i] = stack[i]
  BY <1>1, FrontType
<1>3. Frame(n) \in Frames(Trees) /\ Frame(n).node = n /\ Frame(n).at = 0
  BY DEF Frame, Frames
<1>4. /\ Len(stack') = m + 2 /\ \A i \in 1 .. m : stack'[i] = stack[i]
      /\ stack'[m + 1] = f /\ stack'[m + 2] = Frame(n)
  BY <1>2, <1>3 DEF Call
<1>5. /\ \A i \in 0 .. m : EnvAt(i)' = EnvAt(i)
      /\ \A i \in 1 .. m : EnvFrom(i)' <=> EnvFrom(i)
  BY <1>4, BelowKept
<1>6. LinkInv /\ SoFarInv /\ VerdictIsRight /\ stack[1].node = testcases[Len(verdicts) + 1]
  BY DEF JudgedInv
<1>7. /\ stack'[1].node = stack[1].node
      /\ stack'[1].at = IF m = 0 THEN f.at ELSE stack[1].at
  <2>1. CASE m = 0
    BY <2>1, <1>1, <1>4
  <2>2. CASE m # 0
    <3>1. 1 \in 1 .. m
      BY <2>2
    <3>2. QED  BY <3>1, <2>2, <1>4
  <2>3. QED  BY <2>1, <2>2
<1>8. mode' = "call" /\ UNCHANGED <<testcases, verdicts>>
  BY DEF Call
<1>9. LinkInv'
  <2>1. ASSUME NEW i \in 1 .. m + 1
        PROVE  stack'[i].at \in Slots(stack'[i].node) /\ stack'[i + 1].node = ChildOf(stack'[i])
    <3>1. CASE i \in 1 .. m - 1
      <4>1. i \in 1 .. Len(stack) - 1 /\ i \in 1 .. m /\ i + 1 \in 1 .. m
        BY <3>1
      <4>2. stack[i].at \in Slots(stack[i].node) /\ stack[i + 1].node = ChildOf(stack[i])
        BY <4>1, <1>6 DEF LinkInv
      <4>3. QED  BY <4>1, <4>2, <1>4
    <3>2. CASE i = m
      <4>1. i \in 1 .. Len(stack) - 1 /\ i \in 1 .. m /\ i + 1 = m + 1
        BY <3>2
      <4>2. stack[i].at \in Slots(stack[i].node) /\ stack[m + 1].node = ChildOf(stack[i])
        BY <4>1, <1>6 DEF LinkInv
      <4>3. QED  BY <4>1, <4>2, <1>1, <1>4
    <3>3. CASE i = m + 1
      <4>1. i + 1 = m + 2
        BY <3>3
      <4>2. QED  BY <4>1, <3>3, <1>3, <1>4
    <3>4. QED  BY <3>1, <3>2, <3>3
  <2>2. ASSUME NEW i \in 1 .. m + 2, stack'[i].at > 0 PROVE EnvFrom(i)'
    <3>1. CASE i \in 1 .. m
      <4>1. stack[i].at > 0 /\ i \in 1 .. Len(stack)
        BY <3>1, <2>2, <1>4
      <4>2. QED  BY <4>1, <3>1, <1>5, <1>6 DEF LinkInv
    <3>2. CASE i = m + 1
      BY <3>2
    <3>3. CASE i = m + 2
      BY <3>3, <2>2, <1>3, <1>4
    <3>4. QED  BY <3>1, <3>2, <3>3
  <2>3. (m + 2) - 1 = m + 1
    OBVIOUS
  <2>4. \A i \in 1 .. Len(stack') : stack'[i].node.kind = "FUNCTION" => i = 2
    BY <1>8 DEF EnvInv, PathInv
  <2>5. QED  BY <2>1, <2>2, <2>3, <2>4, <1>4, <1>8 DEF LinkInv
<1>10. SoFarInv'
  <2>1. ASSUME NEW i \in 1 .. m + 2, stack'[i].at > 0
        PROVE  SoFar(stack'[i], EnvAt(i)', stack'[1].node, stack'[1].at)
    <3>1. CASE i \in 1 .. m
      <4>1. stack[i].at > 0 /\ i \in 1 .. Len(stack) /\ i \in 0 .. m
        BY <3>1, <2>1, <1>4
      <4>2. SoFar(stack[i], EnvAt(i), stack[1].node, stack[1].at)
        BY <4>1, <1>6 DEF SoFarInv
      <4>3. stack'[i] = stack[i] /\ EnvAt(i)' = EnvAt(i) /\ stack'[1].at = stack[1].at
        <5>1. m # 0
          BY <3>1
        <5>2. stack'[i] = stack[i] /\ EnvAt(i)' = EnvAt(i)
          BY <4>1, <3>1, <1>4, <1>5
        <5>3. QED  BY <5>1, <5>2, <1>7
      <4>4. QED  BY <4>2, <4>3, <1>7
    <3>2. CASE i = m + 1
      BY <3>2, <1>4, <1>7
    <3>3. CASE i = m + 2
      BY <3>3, <2>1, <1>3, <1>4
    <3>4. QED  BY <3>1, <3>2, <3>3
  <2>2. QED  BY <2>1, <1>4 DEF SoFarInv
<1>11. ResultInv' /\ ThrowInv'
  BY <1>8 DEF ResultInv, ThrowInv
<1>12. QED  BY <1>6, <1>7, <1>8, <1>9, <1>10, <1>11, VerdictsKept DEF JudgedInv

\* A return: the result is what the rules give the node.
LEMMA JudgedReturn ==
  ASSUME NEW Trees, ShapeInv(Trees), EnvInv, EnvInv', JudgedInv, mode \in {"call", "return"},
         NEW m \in Nat \ {0}, Len(stack) = m + 1,
         NEW types, Return(types), UNCHANGED functions,
         \A j \in 1 .. Depth(stack, m) : scopes'[j] = scopes[j],
         IF Node.kind = "FUNCTION" THEN FunctionOK(stack[1].node, stack[1].at)
                                   ELSE types = Yields(Node, EnvAt(m), FunctionsAt)
  PROVE  JudgedInv'
<1>1. /\ stack # <<>> /\ stack \in Seq(Frames(Trees)) /\ Top = stack[m + 1] /\ Top.node = Node
  BY TopFrame DEF ShapeInv
<1>2. /\ stack' \in Seq(Frames(Trees)) /\ Len(stack') = m /\ \A i \in 1 .. m : stack'[i] = stack[i]
  <2>1. Len(stack) - 1 = m
    OBVIOUS
  <2>2. /\ Front(stack) \in Seq(Frames(Trees)) /\ Len(Front(stack)) = m
        /\ \A i \in 1 .. m : Front(stack)[i] = stack[i]
    BY <2>1, <1>1, FrontType
  <2>3. stack' = Front(stack)
    BY DEF Return
  <2>4. QED  BY <2>2, <2>3
<1>3. /\ m \in 1 .. m /\ 1 \in 1 .. m /\ m \in 0 .. m /\ m \in 1 .. Len(stack) - 1
      /\ 1 .. m \subseteq 1 .. Len(stack) /\ 1 .. m - 1 \subseteq 1 .. Len(stack) - 1
  OBVIOUS
<1>4. /\ \A i \in 0 .. m : EnvAt(i)' = EnvAt(i)
      /\ \A i \in 1 .. m : EnvFrom(i)' <=> EnvFrom(i)
  BY <1>2, BelowKept
<1>5. /\ LinkInv /\ SoFarInv /\ VerdictIsRight /\ FunctionInv
      /\ stack[1].node = testcases[Len(verdicts) + 1]
  BY DEF JudgedInv
<1>6. mode' = "return" /\ result' = types /\ UNCHANGED <<testcases, verdicts>>
  BY DEF Return
<1>7. Top' = stack[m] /\ Node' = stack[m].node
  BY <1>2, <1>3 DEF Top, Node, Last
<1>8. stack[m].at \in Slots(stack[m].node) /\ Node = ChildOf(stack[m])
  <2>1. stack[m].at \in Slots(stack[m].node) /\ stack[m + 1].node = ChildOf(stack[m])
    BY <1>3, <1>5 DEF LinkInv
  <2>2. QED  BY <2>1, <1>1
<1>9. LinkInv'
  <2>1. ASSUME NEW i \in 1 .. m - 1
        PROVE  stack'[i].at \in Slots(stack'[i].node) /\ stack'[i + 1].node = ChildOf(stack'[i])
    <3>1. i \in 1 .. Len(stack) - 1 /\ i \in 1 .. m /\ i + 1 \in 1 .. m
      OBVIOUS
    <3>2. stack[i].at \in Slots(stack[i].node) /\ stack[i + 1].node = ChildOf(stack[i])
      BY <3>1, <1>5 DEF LinkInv
    <3>3. QED  BY <3>1, <3>2, <1>2
  <2>2. ASSUME NEW i \in 1 .. m, stack'[i].at > 0 PROVE EnvFrom(i)'
    BY <2>2, <1>2, <1>3, <1>4, <1>5 DEF LinkInv
  <2>3. \A i \in 1 .. Len(stack') : stack'[i].node.kind = "FUNCTION" => i = 2
    BY <1>6 DEF EnvInv, PathInv
  <2>4. QED  BY <2>1, <2>2, <2>3, <1>2, <1>7, <1>8 DEF LinkInv
<1>10. SoFarInv'
  <2>1. ASSUME NEW i \in 1 .. m, stack'[i].at > 0
        PROVE  SoFar(stack'[i], EnvAt(i)', stack'[1].node, stack'[1].at)
    <3>1. stack[i].at > 0 /\ i \in 1 .. Len(stack) /\ i \in 0 .. m
      BY <2>1, <1>2, <1>3
    <3>2. SoFar(stack[i], EnvAt(i), stack[1].node, stack[1].at)
      BY <3>1, <1>5 DEF SoFarInv
    <3>3. QED  BY <3>1, <3>2, <1>2, <1>3, <1>4
  <2>2. QED  BY <2>1, <1>2 DEF SoFarInv
<1>11. ResultInv'
  <2>1. ChildOf(Top') = Node /\ EnvAt(m)' = EnvAt(m) /\ FunctionsAt' = FunctionsAt
    BY <1>2, <1>3, <1>4, <1>7, <1>8 DEF FunctionsAt
  <2>2. CASE Node.kind = "FUNCTION"
    <3>1. stack[m + 1].node.kind = "FUNCTION" /\ m + 1 \in 1 .. Len(stack) /\ PathInv
      BY <2>2, <1>1 DEF EnvInv
    <3>2. m + 1 = 2
      BY <3>1 DEF PathInv
    <3>3. m = 1
      BY <3>2
    <3>4. QED  BY <3>3, <2>1, <2>2, <1>7 DEF ResultInv
  <2>3. CASE Node.kind # "FUNCTION"
    <3>1. result' = Yields(ChildOf(Top'), EnvAt(m)', FunctionsAt')
      BY <2>1, <2>3, <1>6
    <3>2. QED  BY <3>1, <2>1, <2>3, <1>2 DEF ResultInv
  <2>4. QED  BY <2>2, <2>3
<1>12. ThrowInv'
  BY <1>6 DEF ThrowInv
<1>13. FunctionInv' /\ stack'[1] = stack[1]
  BY <1>2, <1>3, <1>5 DEF FunctionInv
<1>14. QED  BY <1>5, <1>6, <1>9, <1>10, <1>11, <1>12, <1>13, VerdictsKept DEF JudgedInv

\* A throw: the rules reject the node.
LEMMA JudgedThrow ==
  ASSUME NEW Trees, ShapeInv(Trees), JudgedInv, mode \in {"call", "return"},
         NEW m \in Nat, Len(stack) = m + 1,
         NEW kind, NEW msg, Throw(kind, msg), FunctionInv',
         \A j \in 1 .. Depth(stack, m) : scopes'[j] = scopes[j],
         Top.at > 0 => UNCHANGED scopes,
         Rejected(Node, EnvAt(m), stack[1].node, stack[1].at),
         kind = "bad_cast" => NoCast(Node)
  PROVE  JudgedInv'
<1>1. /\ stack # <<>> /\ stack \in Seq(Frames(Trees)) /\ Top = stack[m + 1] /\ Top.node = Node
  BY TopFrame DEF ShapeInv
<1>2. stack' = stack /\ mode' = "throw" /\ thrown'.kind = kind /\ UNCHANGED <<testcases, verdicts>>
  BY DEF Throw
<1>3. /\ \A i \in 0 .. m : EnvAt(i)' = EnvAt(i)
      /\ \A i \in 1 .. m : EnvFrom(i)' <=> EnvFrom(i)
  BY <1>2, BelowKept
<1>4. LinkInv /\ VerdictIsRight /\ stack[1].node = testcases[Len(verdicts) + 1]
  BY DEF JudgedInv
<1>5. Node' = Node
  BY <1>2 DEF Node, Top
<1>6. LinkInv'
  <2>1. ASSUME NEW i \in 1 .. Len(stack), stack[i].at > 0 PROVE EnvFrom(i)'
    <3>1. EnvFrom(i)
      BY <2>1, <1>4 DEF LinkInv
    <3>2. CASE i \in 1 .. m
      BY <3>1, <3>2, <1>3
    <3>3. CASE i = m + 1
      <4>1. scopes' = scopes
        BY <3>3, <2>1, <1>1
      <4>2. QED  BY <4>1, <3>1, <1>2 DEF EnvFrom, EnvAt
    <3>4. QED  BY <3>2, <3>3
  <2>2. QED  BY <2>1, <1>2, <1>4 DEF LinkInv
<1>7. SoFarInv' /\ ResultInv'
  BY <1>2 DEF SoFarInv, ResultInv
<1>8. ThrowInv'
  <2>1. Len(stack) - 1 = m /\ (Len(stack) - 1)' = m /\ m \in 0 .. m
    BY <1>2
  <2>2. EnvAt(m)' = EnvAt(m)
    BY <2>1, <1>3
  <2>3. EnvAt(Len(stack) - 1)' = EnvAt(m)
    BY <2>1, <2>2 DEF EnvAt
  <2>4. QED  BY <2>3, <1>2, <1>5 DEF ThrowInv
<1>9. QED  BY <1>2, <1>4, <1>6, <1>7, <1>8, VerdictsKept DEF JudgedInv

-----------------------------------------------------------------------------
(* The rules *)

\* One equation per class of node.
LEMMA Rules ==
  ASSUME NEW Trees, Judgement(Trees), NEW n \in Trees, NEW e, NEW fs
  PROVE  /\ n.kind = "NUM" => Yields(n, e, fs) = {"INT"}
         /\ n.kind = "EMPTY" => Yields(n, e, fs) = {"VOID"}
         /\ n.kind = "SKIP" => Yields(n, e, fs) = {"NIL"}
         /\ n.kind = "RETURN" => Yields(n, e, fs) = Yields(n.kids[1], e, fs)
         /\ n.kind = "SEQUENCE" =>
              Yields(n, e, fs) = UNION {Yields(n.kids[k], e, fs) : k \in DOMAIN n.kids}
         /\ n.kind = "BLOCK" =>
              Yields(n, e, fs) = IF Repeats(n.decls) THEN {Ill}
                                 ELSE Yields(n.kids[1], Shadowing(e, n.decls), fs)
         /\ n.kind = "BRANCH" =>
              Yields(n, e, fs) = Yields(n.kids[2], e, fs) \cup Yields(n.kids[3], e, fs)
                \cup (IF /\ n.kids[1].kind = "BINARY"
                         /\ Yields(n.kids[1].kids[1], e, fs) = Yields(n.kids[1].kids[2], e, fs)
                      THEN Yields(n.kids[1].kids[1], e, fs) \cap {Ill} ELSE {Ill})
<1>1. n.kind \in Expressions \cup Statements => Yields(n, e, fs) = YieldsOf(Yields, n, e, fs)
  BY DEF Judgement
<1>2. CASE n.kind \in Expressions \cup Statements
  BY <1>1, <1>2 DEF YieldsOf
<1>3. CASE n.kind \notin Expressions \cup Statements
  BY <1>3 DEF Expressions, Statements
<1>4. QED  BY <1>2, <1>3

LEMMA RuleVar ==
  ASSUME NEW Trees, Judgement(Trees), NEW n \in Trees, NEW e, NEW fs, n.kind = "VAR"
  PROVE  Yields(n, e, fs) = {IF n.name \in DOMAIN e THEN e[n.name] ELSE Ill}
<1>1. n.kind \in Expressions \cup Statements
  BY DEF Expressions
<1>2. Yields(n, e, fs) = YieldsOf(Yields, n, e, fs)
  BY <1>1 DEF Judgement
<1>3. QED  BY <1>2 DEF YieldsOf

LEMMA RuleBinary ==
  ASSUME NEW Trees, Judgement(Trees), NEW n \in Trees, NEW e, NEW fs, n.kind = "BINARY"
  PROVE  Yields(n, e, fs) = {IF \A k \in DOMAIN n.kids : Yields(n.kids[k], e, fs) = {"INT"}
                             THEN "INT" ELSE Ill}
<1>1. n.kind \in Expressions \cup Statements
  BY DEF Expressions
<1>2. Yields(n, e, fs) = YieldsOf(Yields, n, e, fs)
  BY <1>1 DEF Judgement
<1>3. QED  BY <1>2 DEF YieldsOf

LEMMA RuleCall ==
  ASSUME NEW Trees, Judgement(Trees), NEW n \in Trees, NEW e, NEW fs, n.kind = "FUNCTIONCALL"
  PROVE  Yields(n, e, fs) =
           {IF /\ n.name \in DOMAIN fs /\ Len(fs[n.name].params) = Len(n.kids)
               /\ \A k \in DOMAIN n.kids : Yields(n.kids[k], e, fs) = {fs[n.name].params[k]}
            THEN fs[n.name].ret ELSE Ill}
<1>1. n.kind \in Expressions \cup Statements
  BY DEF Expressions
<1>2. Yields(n, e, fs) = YieldsOf(Yields, n, e, fs)
  BY <1>1 DEF Judgement
<1>3. QED  BY <1>2 DEF YieldsOf

LEMMA RuleAssign ==
  ASSUME NEW Trees, Judgement(Trees), NEW n \in Trees, NEW e, NEW fs, n.kind = "ASSIGN"
  PROVE  Yields(n, e, fs) = {IF n.name \in DOMAIN e /\ Yields(n.kids[1], e, fs) = {e[n.name]}
                             THEN "NIL" ELSE Ill}
<1>1. n.kind \in Expressions \cup Statements
  BY DEF Statements
<1>2. Yields(n, e, fs) = YieldsOf(Yields, n, e, fs)
  BY <1>1 DEF Judgement
<1>3. QED  BY <1>2 DEF YieldsOf

LEMMA RuleLoop ==
  ASSUME NEW Trees, Judgement(Trees), NEW n \in Trees, NEW e, NEW fs, n.kind = "LOOP"
  PROVE  Yields(n, e, fs) = Yields(n.kids[2], e, fs)
           \cup (IF Yields(n.kids[1], e, fs) = {"BOOL"} THEN {} ELSE {Ill})
<1>1. n.kind \in Expressions \cup Statements
  BY DEF Statements
<1>2. Yields(n, e, fs) = YieldsOf(Yields, n, e, fs)
  BY <1>1 DEF Judgement
<1>3. QED  BY <1>2 DEF YieldsOf

LEMMA IllIsNoType == Ill \notin Types /\ Ill # "INT" /\ Ill # "BOOL"
BY DEF Ill, Types

LEMMA SeesTypes ==
  ASSUME NEW Trees, Shaped(Trees), NEW p \in Trees, NEW k \in 0 .. Len(p.kids),
         NEW g \in DOMAIN Sees(p, k)
  PROVE  Sees(p, k)[g].params \in Seq(Types) /\ Sees(p, k)[g].ret \in Types
<1> DEFINE f == CHOOSE f \in FunctionsOf(p, k) : f.name = g
<1>1. \E h \in FunctionsOf(p, k) : h.name = g
  BY DEF Sees
<1>2. f \in FunctionsOf(p, k) /\ Sees(p, k)[g] = Signature(f)
  BY <1>1 DEF Sees
<1> HIDE DEF f
<1>3. f \in Trees
  <2>1. p.kids \in Seq(Trees)
    BY DEF Shaped
  <2>2. PICK j \in 1 .. k : f = p.kids[j]
    BY <1>2 DEF FunctionsOf
  <2>3. QED  BY <2>1, <2>2
<1>4. f.decls \in Seq(Declarations) /\ f.ty \in Types
  BY <1>3 DEF Shaped
<1>5. ASSUME NEW i \in 1 .. Len(f.decls) PROVE f.decls[i].ty \in Types
  <2>1. f.decls[i] \in Declarations
    BY <1>4
  <2>2. QED  BY <2>1 DEF Declarations
<1>6. [i \in 1 .. Len(f.decls) |-> f.decls[i].ty] \in Seq(Types)
  BY <1>4, <1>5
<1>7. QED  BY <1>2, <1>4, <1>6 DEF Signature

\* The children of the program's frame see what EnvironmentsAreLexical says.
LEMMA FunctionsSeen ==
  ASSUME NEW p, NEW k, FunctionInv, Entered(functions, FunctionsOf(p, k))
  PROVE  functions = Sees(p, k)
<1>1. \A g \in DOMAIN functions :
        functions[g] = Signature(CHOOSE f \in FunctionsOf(p, k) : f.name = g)
  <2> TAKE g \in DOMAIN functions
  <2>1. \E f \in FunctionsOf(p, k) : f.name = g
    BY DEF Entered
  <2>2. PICK f \in FunctionsOf(p, k) :
          f.name = g /\ f = CHOOSE h \in FunctionsOf(p, k) : h.name = g
    BY <2>1
  <2>3. QED  BY <2>2 DEF Entered
<1>2. QED  BY <1>1 DEF Sees, FunctionInv, Entered

\* What kinds of nodes there are, and what the children of each can be.
LEMMA Classes ==
  ASSUME NEW Trees, WellFormed(Trees), NEW n \in Trees
  PROVE  /\ n.kids \in Seq(Trees)
         /\ n.kind \in Expressions \cup Statements \cup {"FUNCTION", "PROGRAM"}
         /\ n.kind \in {"EMPTY", "NUM", "VAR", "SKIP"} => DOMAIN n.kids = {}
         /\ n.kind \in {"ASSIGN", "RETURN", "BLOCK", "FUNCTION"} => DOMAIN n.kids = {1}
         /\ n.kind \in {"BINARY", "LOOP"} => DOMAIN n.kids = {1, 2}
         /\ n.kind = "BRANCH" => DOMAIN n.kids = {1, 2, 3}
         /\ n.kind \notin {"FUNCTION", "PROGRAM"} =>
              \A k \in DOMAIN n.kids : n.kids[k].kind \in Expressions \cup Statements
         /\ n.kind = "FUNCTION" => n.kids[1].kind = "BLOCK"
         /\ n.kind = "PROGRAM" =>
              /\ Len(n.kids) >= 1 /\ n.kids[Len(n.kids)].kind \in Statements
              /\ \A k \in 1 .. Len(n.kids) - 1 : n.kids[k].kind = "FUNCTION"
<1>1. n.kids \in Seq(Trees) /\ Members(n)
  BY DEF WellFormed
<1>2. DOMAIN n.kids = 1 .. Len(n.kids)
  BY <1>1
<1>3. n.kids = <<>> => DOMAIN n.kids = {}
  BY <1>1
<1>4. n.kind \in Expressions \cup Statements \cup {"FUNCTION", "PROGRAM"}
  BY <1>1 DEF Members, Expressions, Statements
<1>5. n.kind \in {"EMPTY", "NUM", "VAR", "SKIP"} => DOMAIN n.kids = {}
  BY <1>1, <1>3 DEF Members
<1>6. n.kind \in {"ASSIGN", "RETURN", "BLOCK", "FUNCTION"} => DOMAIN n.kids = {1}
  <2>1. n.kind \in {"ASSIGN", "RETURN", "BLOCK", "FUNCTION"} => Len(n.kids) = 1
    BY TreesShaped DEF Shaped
  <2>2. Len(n.kids) = 1 => DOMAIN n.kids = {1}
    BY <1>1
  <2>3. QED  BY <2>1, <2>2
<1>7. n.kind \in {"BINARY", "LOOP"} => DOMAIN n.kids = {1, 2}
  <2>1. n.kind \in {"BINARY", "LOOP"} => Len(n.kids) = 2
    BY TreesShaped DEF Shaped
  <2>2. Len(n.kids) = 2 => DOMAIN n.kids = {1, 2}
    BY <1>1
  <2>3. QED  BY <2>1, <2>2
<1>8. n.kind = "BRANCH" => DOMAIN n.kids = {1, 2, 3}
  <2>1. n.kind = "BRANCH" => Len(n.kids) = 3
    BY TreesShaped DEF Shaped
  <2>2. Len(n.kids) = 3 => DOMAIN n.kids = {1, 2, 3}
    BY <1>1
  <2>3. QED  BY <2>1, <2>2
<1>9. ASSUME n.kind \notin {"FUNCTION", "PROGRAM"}, NEW k \in DOMAIN n.kids
      PROVE  n.kids[k].kind \in Expressions \cup Statements
  BY <1>1, <1>2, <1>3, <1>9 DEF Members
<1>10. n.kind = "FUNCTION" => n.kids[1].kind = "BLOCK"
  BY <1>1 DEF Members
<1>11. n.kind = "PROGRAM" =>
         /\ Len(n.kids) >= 1 /\ n.kids[Len(n.kids)].kind \in Statements
         /\ \A k \in 1 .. Len(n.kids) - 1 : n.kids[k].kind = "FUNCTION"
  BY <1>1 DEF Members
<1>12. QED  BY <1>1, <1>4, <1>5, <1>6, <1>7, <1>8, <1>9, <1>10, <1>11

LEMMA BinaryUp ==
  ASSUME NEW Trees, Judgement(Trees), NEW n \in Trees, NEW e, NEW fs, n.kind = "BINARY",
         NEW i \in DOMAIN n.kids, Yields(n.kids[i], e, fs) # {"INT"}
  PROVE  Yields(n, e, fs) = {Ill}
<1>1. Yields(n, e, fs) = {IF \A k \in DOMAIN n.kids : Yields(n.kids[k], e, fs) = {"INT"}
                          THEN "INT" ELSE Ill}
  BY RuleBinary
<1>2. QED  BY <1>1

LEMMA CallUp ==
  ASSUME NEW Trees, Judgement(Trees), NEW n \in Trees, NEW e, NEW fs, n.kind = "FUNCTIONCALL",
         \/ n.name \notin DOMAIN fs \/ Len(fs[n.name].params) # Len(n.kids)
         \/ \E i \in DOMAIN n.kids : Yields(n.kids[i], e, fs) # {fs[n.name].params[i]}
  PROVE  Yields(n, e, fs) = {Ill}
<1>1. Yields(n, e, fs) =
        {IF /\ n.name \in DOMAIN fs /\ Len(fs[n.name].params) = Len(n.kids)
            /\ \A k \in DOMAIN n.kids : Yields(n.kids[k], e, fs) = {fs[n.name].params[k]}
         THEN fs[n.name].ret ELSE Ill}
  BY RuleCall
<1>2. QED  BY <1>1

LEMMA LoopUp ==
  ASSUME NEW Trees, Judgement(Trees), NEW n \in Trees, NEW e, NEW fs, n.kind = "LOOP",
         Ill \in Yields(n.kids[2], e, fs) \/ Yields(n.kids[1], e, fs) # {"BOOL"}
  PROVE  Ill \in Yields(n, e, fs)
<1>1. Yields(n, e, fs) = Yields(n.kids[2], e, fs)
         \cup (IF Yields(n.kids[1], e, fs) = {"BOOL"} THEN {} ELSE {Ill})
  BY RuleLoop
<1>2. QED  BY <1>1

\* A node with an ill-typed child is ill typed.
LEMMA RejectedUp ==
  ASSUME NEW Trees, WellFormed(Trees), Judgement(Trees), NEW p \in Trees, NEW k \in 0 .. Len(p.kids),
         NEW n \in Trees, n.kind \notin {"FUNCTION", "PROGRAM"},
         NEW f, f.node = n, f.at \in Slots(n),
         NEW e, \A v \in DOMAIN e : e[v] \in Types,
         NEW inner, inner = IF n.kind = "BLOCK" THEN Shadowing(e, n.decls) ELSE e,
         Ill \in Yields(ChildOf(f), inner, Sees(p, k))
  PROVE  Ill \in Yields(n, e, Sees(p, k))
<1> DEFINE fs == Sees(p, k)
<1>1. \A g \in DOMAIN fs : fs[g].params \in Seq(Types)
  BY TreesShaped, SeesTypes
<1> SUFFICES Ill \in Yields(n, e, fs)
  OBVIOUS
<1>3. Ill \in Yields(ChildOf(f), inner, fs)
  OBVIOUS
<1> HIDE DEF fs
<1>2. /\ f.at \in DOMAIN n.kids /\ n.kind # "BRANCH" => ChildOf(f) = n.kids[f.at]
      /\ n.kind # "BRANCH" => f.at \in DOMAIN n.kids
  BY DEF ChildOf, Slots
<1>4. CASE n.kind \in {"EMPTY", "NUM", "VAR", "SKIP"}
  BY <1>2, <1>4, Classes
<1>5. CASE n.kind = "BINARY"
  <2>1. Yields(n.kids[f.at], e, fs) # {"INT"} /\ f.at \in DOMAIN n.kids
    BY <1>2, <1>3, <1>5, IllIsNoType
  <2>2. Yields(n, e, fs) = {Ill}
    BY <2>1, <1>5, BinaryUp, Zenon
  <2>3. QED  BY <2>2
<1>6. CASE n.kind = "FUNCTIONCALL"
  <2>1. Yields(n.kids[f.at], e, fs) # {fs[n.name].params[f.at]}
        \/ n.name \notin DOMAIN fs \/ Len(fs[n.name].params) # Len(n.kids)
    <3>1. SUFFICES ASSUME n.name \in DOMAIN fs, Len(fs[n.name].params) = Len(n.kids)
                   PROVE  fs[n.name].params[f.at] \in Types
      BY <1>2, <1>3, <1>6, IllIsNoType
    <3>2. f.at \in 1 .. Len(fs[n.name].params)
      BY <3>1, <1>2, <1>6, Classes
    <3>3. QED  BY <3>1, <3>2, <1>1
  <2>2. f.at \in DOMAIN n.kids
    BY <1>2, <1>6
  <2>3. Yields(n, e, fs) = {Ill}
    BY <2>1, <2>2, <1>6, CallUp, Zenon
  <2>4. QED  BY <2>3
<1>7. CASE n.kind = "ASSIGN"
  <2>1. f.at = 1
    BY <1>2, <1>7, Classes
  <2>2. n.name \in DOMAIN e => Yields(n.kids[1], e, fs) # {e[n.name]}
    BY <2>1, <1>2, <1>3, <1>7, IllIsNoType
  <2>3. Yields(n, e, fs) = {IF n.name \in DOMAIN e /\ Yields(n.kids[1], e, fs) = {e[n.name]}
                            THEN "NIL" ELSE Ill}
    BY <1>7, RuleAssign
  <2>4. QED  BY <2>2, <2>3
<1>8. CASE n.kind = "RETURN"
  <2>1. f.at = 1
    BY <1>2, <1>8, Classes
  <2>2. QED  BY <2>1, <1>2, <1>3, <1>8, Rules
<1>9. CASE n.kind = "SEQUENCE"
  BY <1>2, <1>3, <1>9, Rules
<1>10. CASE n.kind = "BLOCK"
  <2>1. f.at = 1
    BY <1>2, <1>10, Classes
  <2>2. QED  BY <2>1, <1>2, <1>3, <1>10, Rules
<1>11. CASE n.kind = "LOOP"
  <2>1. f.at \in {1, 2}
    BY <1>2, <1>11, Classes
  <2>2. Yields(n.kids[1], e, fs) # {"BOOL"} \/ Ill \in Yields(n.kids[2], e, fs)
    BY <2>1, <1>2, <1>3, <1>11, IllIsNoType
  <2>3. QED  BY <2>2, <1>11, LoopUp
<1>12. CASE n.kind = "BRANCH"
  <2>1. f.at \in 1 .. 4 /\ ChildOf(f) = <<n.kids[1].kids[1], n.kids[1].kids[2], n.kids[2], n.kids[3]>>[f.at]
    BY <1>12 DEF ChildOf, Slots
  <2>2. ChildOf(f) \in {n.kids[1].kids[1], n.kids[1].kids[2], n.kids[2], n.kids[3]}
    BY <2>1
  <2>3. QED  BY <2>2, <1>3, <1>12, Rules
<1>13. QED  BY <1>4, <1>5, <1>6, <1>7, <1>8, <1>9, <1>10, <1>11, <1>12, Classes
            DEF Expressions, Statements

\* A condition that is no BinaryExpression is below every node that is on the
\* way to it.
LEMMA NoCastUp ==
  ASSUME NEW Trees, WellFormed(Trees), Judgement(Trees), NEW n \in Trees,
         NEW f, f.node = n, f.at \in Slots(n), NoCast(ChildOf(f))
  PROVE  NoCast(n)
<1>1. ASSUME NEW t \in Trees, NEW k \in DOMAIN t.kids PROVE Nodes(t.kids[k]) \subseteq Nodes(t)
  <2>1. Nodes(t) = NodesOf(Nodes, t)
    BY DEF Judgement
  <2>2. Nodes(t) = {t} \cup UNION {Nodes(t.kids[j]) : j \in DOMAIN t.kids}
    BY <2>1 DEF NodesOf
  <2>3. QED  BY <2>2
<1>2. n \in Nodes(n)
  <2>1. Nodes(n) = NodesOf(Nodes, n)
    BY DEF Judgement
  <2>2. QED  BY <2>1 DEF NodesOf
<1>3. CASE n.kind # "BRANCH"
  <2>1. f.at \in DOMAIN n.kids /\ ChildOf(f) = n.kids[f.at]
    BY <1>3 DEF ChildOf, Slots
  <2>2. QED  BY <2>1, <1>1 DEF NoCast
<1>4. CASE n.kind = "BRANCH" /\ n.kids[1].kind # "BINARY"
  BY <1>2, <1>4 DEF NoCast
<1>5. CASE n.kind = "BRANCH" /\ n.kids[1].kind = "BINARY"
  <2>1. DOMAIN n.kids = {1, 2, 3} /\ n.kids[1] \in Trees
    <3>1. DOMAIN n.kids = {1, 2, 3} /\ n.kids \in Seq(Trees)
      BY <1>5, Classes
    <3>2. QED  BY <3>1
  <2>2. DOMAIN n.kids[1].kids = {1, 2}
    BY <2>1, <1>5, Classes
  <2>3. /\ Nodes(n.kids[1]) \subseteq Nodes(n)
        /\ Nodes(n.kids[2]) \subseteq Nodes(n) /\ Nodes(n.kids[3]) \subseteq Nodes(n)
    BY <2>1, <1>1
  <2>4. /\ Nodes(n.kids[1].kids[1]) \subseteq Nodes(n.kids[1])
        /\ Nodes(n.kids[1].kids[2]) \subseteq Nodes(n.kids[1])
    BY <2>1, <2>2, <1>1
  <2>5. f.at \in 1 .. 4 /\ ChildOf(f) = <<n.kids[1].kids[1], n.kids[1].kids[2], n.kids[2], n.kids[3]>>[f.at]
    BY <1>5 DEF ChildOf, Slots
  <2>6. ChildOf(f) \in {n.kids[1].kids[1], n.kids[1].kids[2], n.kids[2], n.kids[3]}
    BY <2>5
  <2>7. Nodes(ChildOf(f)) \subseteq Nodes(n)
    BY <2>3, <2>4, <2>6
  <2>8. QED  BY <2>7 DEF NoCast
<1>6. QED  BY <1>3, <1>4, <1>5

\* The verdict on a program.
LEMMA JudgedVerdict ==
  ASSUME NEW Trees, ShapeInv(Trees), JudgedInv, mode # "idle",
         NEW end, NEW msg, Verdict(end, msg), UNCHANGED functions,
         (end = "accepted") = WellTyped(stack[1].node),
         end = "terminated" => NoCast(stack[1].node)
  PROVE  JudgedInv'
<1>1. verdicts \in Seq([end : Ends, msg : Messages]) /\ Len(verdicts) \in Nat
  BY DEF ShapeInv
<1>2. /\ mode' = "idle" /\ testcases' = testcases
      /\ verdicts' = Append(verdicts, [end |-> end, msg |-> msg])
  BY DEF Verdict
<1>3. /\ DOMAIN verdicts' = (DOMAIN verdicts) \cup {Len(verdicts) + 1}
      /\ \A i \in DOMAIN verdicts : verdicts'[i] = verdicts[i]
      /\ verdicts'[Len(verdicts) + 1].end = end
  BY <1>1, <1>2
<1>4. VerdictIsRight /\ FunctionInv /\ stack[1].node = testcases[Len(verdicts) + 1]
  BY DEF JudgedInv
<1>5. ASSUME NEW i \in DOMAIN verdicts'
      PROVE  /\ (verdicts'[i].end = "accepted") = WellTyped(testcases'[i])
             /\ verdicts'[i].end = "terminated" => NoCast(testcases'[i])
  <2>1. CASE i \in DOMAIN verdicts
    BY <2>1, <1>2, <1>3, <1>4 DEF VerdictIsRight, Executed, NoCast
  <2>2. CASE i = Len(verdicts) + 1
    BY <2>2, <1>2, <1>3, <1>4
  <2>3. QED  BY <2>1, <2>2, <1>3
<1>6. VerdictIsRight'
  BY <1>5 DEF VerdictIsRight, Executed, NoCast
<1>7. QED  BY <1>2, <1>4, <1>6 DEF JudgedInv, FunctionInv

LEMMA JudgedExecute ==
  ASSUME NEW Trees, ShapeInv(Trees), JudgedInv, Execute
  PROVE  JudgedInv'
<1> DEFINE p == testcases[Len(verdicts) + 1]
<1>1. ShapeInv(Trees)'
  BY ExecuteStep
<1>2. /\ mode' = "call" /\ stack' = <<Frame(p)>> /\ functions' = NoMapping
      /\ UNCHANGED <<testcases, verdicts>>
  BY DEF Execute
<1>3. Len(stack') = 1 /\ stack'[1].node = p /\ stack'[1].at = 0
  BY <1>2 DEF Frame
<1>4. VerdictIsRight'
  BY <1>2, VerdictsKept DEF JudgedInv
<1>5. FunctionInv'
  BY <1>2 DEF FunctionInv, NoMapping
<1>6. LinkInv' /\ SoFarInv' /\ ResultInv' /\ ThrowInv'
  <2>1. PathInv'
    BY <1>2, EnvExecute DEF EnvInv
  <2>2. QED  BY <1>2, <1>3, <2>1 DEF PathInv, LinkInv, SoFarInv, ResultInv, ThrowInv
<1>7. QED  BY <1>2, <1>3, <1>4, <1>5, <1>6 DEF JudgedInv

\* The frame below the top one.
LEMMA Parent ==
  ASSUME NEW Trees, WellFormed(Trees), ShapeInv(Trees), JudgedInv, mode # "idle",
         NEW m \in Nat, m >= 1, Len(stack) = m + 1
  PROVE  /\ stack[m] \in Frames(Trees) /\ stack[m].node \in Trees
         /\ stack[m].at \in Slots(stack[m].node) /\ Node = ChildOf(stack[m])
         /\ stack[m].node.kind = "PROGRAM" <=> m = 1
         /\ stack[m].node.kind = "FUNCTION" => m = 2
         /\ EnvFrom(m) /\ (m > 1 => EnvFrom(m - 1))
         /\ stack[1].node \in Trees /\ stack[1].node.kind = "PROGRAM"
         /\ stack[1].at \in 1 .. Len(stack[1].node.kids) /\ stack[1].at \in Nat
         /\ stack[2].node = stack[1].node.kids[stack[1].at]
<1>1. /\ stack \in Seq(Frames(Trees)) /\ stack[m + 1].node = Node
      /\ m \in 1 .. Len(stack) /\ m \in 1 .. Len(stack) - 1 /\ 1 \in 1 .. Len(stack) - 1
      /\ 1 \in 1 .. Len(stack) /\ (m > 1 => m - 1 \in 1 .. Len(stack) - 1 /\ m - 1 \in 1 .. Len(stack))
  <2>1. stack \in Seq(Frames(Trees)) /\ stack[m + 1].node = Node
    BY TopFrame DEF ShapeInv
  <2>2. Len(stack) - 1 = m
    OBVIOUS
  <2>3. m \in 1 .. m /\ 1 \in 1 .. m /\ 1 .. m \subseteq 1 .. m + 1 /\ (m > 1 => m - 1 \in 1 .. m)
    OBVIOUS
  <2>4. QED  BY <2>1, <2>2, <2>3
<1>2. LinkInv
  BY DEF JudgedInv
<1>3. ASSUME NEW i \in 1 .. Len(stack) - 1
      PROVE  /\ stack[i] \in Frames(Trees) /\ stack[i].node \in Trees
             /\ stack[i].at \in Slots(stack[i].node)
             /\ stack[i].at \in Nat /\ stack[i].at > 0 /\ EnvFrom(i)
             /\ stack[i + 1].node = ChildOf(stack[i])
  <2>1. i \in 1 .. Len(stack) /\ Len(stack) \in Nat
    OBVIOUS
  <2>2. stack[i] \in Frames(Trees)
    BY <2>1, <1>1
  <2>3. stack[i].node \in Trees /\ stack[i].at \in Nat
    BY <2>2 DEF Frames
  <2>4. stack[i].at \in Slots(stack[i].node) /\ stack[i + 1].node = ChildOf(stack[i])
    BY <1>2 DEF LinkInv
  <2>5. stack[i].at > 0
    <3>1. stack[i].node.kids \in Seq(Trees)
      BY <2>3, Classes
    <3>2. QED  BY <3>1, <2>4 DEF Slots
  <2>6. QED  BY <2>1, <2>2, <2>3, <2>4, <2>5, <1>2 DEF LinkInv
<1>4. stack[m].node.kind = "PROGRAM" <=> m = 1
  BY <1>1 DEF ShapeInv
<1>5. stack[m].node.kind = "FUNCTION" => m = 2
  BY <1>1, <1>2 DEF LinkInv
<1>6. stack[1].node.kind = "PROGRAM"
  BY <1>1 DEF ShapeInv
<1>7. /\ stack[1].at \in 1 .. Len(stack[1].node.kids)
      /\ stack[2].node = stack[1].node.kids[stack[1].at]
  <2>1. stack[1].at \in DOMAIN stack[1].node.kids
    BY <1>1, <1>3, <1>6 DEF Slots
  <2>2. stack[1].node.kids \in Seq(Trees)
    BY <1>1, <1>3, Classes
  <2>3. 1 + 1 = 2 /\ stack[1 + 1].node = ChildOf(stack[1])
    BY <1>1, <1>3
  <2>4. ChildOf(stack[1]) = stack[1].node.kids[stack[1].at]
    BY <1>6 DEF ChildOf
  <2>5. QED  BY <2>1, <2>2, <2>3, <2>4
<1>8. QED  BY <1>1, <1>3, <1>4, <1>5, <1>6, <1>7

\* A node whose child the rules reject is rejected.
LEMMA ParentRejected ==
  ASSUME NEW Trees, WellFormed(Trees), Judgement(Trees), ShapeInv(Trees), JudgedInv, mode # "idle",
         NEW m \in Nat, m >= 1, Len(stack) = m + 1,
         Rejected(Node, EnvAt(m), stack[1].node, stack[1].at)
  PROVE  Rejected(stack[m].node, EnvAt(m - 1), stack[1].node, stack[1].at)
<1> DEFINE p == stack[1].node
           k == stack[1].at
           n == stack[m].node
<1>1. /\ n \in Trees /\ stack[m].at \in Slots(n) /\ Node = ChildOf(stack[m])
      /\ n.kind = "PROGRAM" <=> m = 1
      /\ n.kind = "FUNCTION" => m = 2
      /\ p \in Trees /\ p.kind = "PROGRAM" /\ k \in 1 .. Len(p.kids)
      /\ stack[2].node = p.kids[k] /\ k \in Nat
  BY Parent
<1>2. EnvFrom(m) /\ (m > 1 => EnvFrom(m - 1))
  BY Parent
<1>3. Node \in Trees /\ Node.kind # "PROGRAM"
  BY TopFrame
<1>4. /\ p.kids \in Seq(Trees) /\ Len(p.kids) \in Nat
      /\ p.kids[Len(p.kids)].kind \in Statements
      /\ \A j \in 1 .. Len(p.kids) - 1 : p.kids[j].kind = "FUNCTION"
  BY <1>1, Classes
<1> HIDE DEF p, k, n
<1>5. Rejected(Node, EnvAt(m), p, k)
  BY DEF p, k
<1>6. CASE m = 1
  <2>1. n = p /\ EnvAt(1) = Mapping(p.decls) /\ Node = p.kids[k]
    BY <1>1, <1>2, <1>6 DEF EnvFrom, p, n, k, ChildOf
  <2>2. CASE Node.kind = "FUNCTION"
    <3>1. k \in 1 .. Len(p.kids) - 1
      <4>1. k # Len(p.kids)
        BY <2>1, <2>2, <1>4 DEF Statements
      <4>2. QED  BY <4>1, <1>1, <1>4
    <3>2. ~FunctionOK(p, k)
      BY <2>2, <1>3, <1>5 DEF Rejected
    <3>3. ~WellTyped(p)
      BY <3>1, <3>2 DEF WellTyped
    <3>4. QED  BY <3>3, <2>1, <1>1 DEF Rejected, p, k, n
  <2>3. CASE Node.kind # "FUNCTION"
    <3>1. k = Len(p.kids)
      <4>1. k \notin 1 .. Len(p.kids) - 1
        BY <2>1, <2>3, <1>4
      <4>2. QED  BY <4>1, <1>1, <1>4
    <3>2. Ill \in Yields(p.kids[Len(p.kids)], Mapping(p.decls), Sees(p, Len(p.kids)))
      BY <3>1, <2>1, <2>3, <1>3, <1>5, <1>6 DEF Rejected
    <3>3. ~WellTyped(p)
      BY <3>2 DEF WellTyped
    <3>4. QED  BY <3>3, <2>1, <1>1 DEF Rejected, p, k, n
  <2>4. QED  BY <2>2, <2>3
<1>7. CASE m > 1 /\ n.kind = "FUNCTION"
  <2>1. m = 2 /\ m - 1 = 1 /\ n = p.kids[k]
    BY <1>1, <1>7 DEF n
  <2>2. n.kids[1].kind = "BLOCK" /\ DOMAIN n.kids = {1}
    BY <1>1, <1>7, Classes
  <2>3. stack[m].at = 1 /\ Node = n.kids[1]
    BY <2>2, <1>1, <1>7 DEF Slots, ChildOf, n
  <2>4. Opens(stack[2])
    BY <2>1, <2>3, <1>7 DEF Opens, n
  <2>5. EnvAt(2) = Shadowing(EnvAt(2 - 1), n.decls)
    BY <2>1, <2>4, <1>2 DEF EnvFrom, n
  <2>6. EnvAt(1) = Mapping(p.decls) /\ 2 - 1 = 1
    BY <2>1, <1>2, <1>7 DEF EnvFrom, p
  <2>7. Ill \in Yields(n.kids[1], EnvAt(m), Sees(p, k))
    BY <2>2, <2>3, <1>5 DEF Rejected
  <2>8. Ill \in Yields(p.kids[k].kids[1], Shadowing(Mapping(p.decls), p.kids[k].decls), Sees(p, k))
    BY <2>1, <2>5, <2>6, <2>7
  <2>9. ~FunctionOK(p, k)
    BY <2>8 DEF FunctionOK
  <2>10. QED  BY <2>9, <1>7 DEF Rejected, p, k, n
<1>8. CASE m > 1 /\ n.kind # "FUNCTION"
  <2>1. n.kind \notin {"FUNCTION", "PROGRAM"}
    BY <1>1, <1>8
  <2>2. Node.kind \notin {"FUNCTION", "PROGRAM"}
    <3>1. m + 1 \in 1 .. Len(stack) /\ stack[m + 1].node = Node /\ LinkInv
      BY TopFrame DEF JudgedInv
    <3>2. QED  BY <3>1, <1>3, <1>8 DEF LinkInv
  <2>3. Ill \in Yields(Node, EnvAt(m), Sees(p, k))
    BY <2>2, <1>5 DEF Rejected
  <2>4. EnvAt(m) = IF n.kind = "BLOCK" THEN Shadowing(EnvAt(m - 1), n.decls) ELSE EnvAt(m - 1)
    <3>1. n.kind = "BLOCK" => stack[m].at > 0
      <4>1. n.kind = "BLOCK" => DOMAIN n.kids = {1}
        BY <1>1, Classes
      <4>2. QED  BY <4>1, <1>1 DEF Slots
    <3>2. Opens(stack[m]) <=> n.kind = "BLOCK"
      BY <3>1, <2>1 DEF Opens, n
    <3>3. QED  BY <3>2, <1>2, <1>8 DEF EnvFrom, n
  <2>5. \A v \in DOMAIN EnvAt(m - 1) : EnvAt(m - 1)[v] \in Types
    BY <1>2, <1>8 DEF EnvFrom
  <2>6. k \in 0 .. Len(p.kids) /\ stack[m].node = n
    BY <1>1 DEF n
  <2> HIDE DEF EnvAt
  <2>7. Ill \in Yields(n, EnvAt(m - 1), Sees(p, k))
    BY <2>1, <2>3, <2>4, <2>5, <2>6, <1>1, RejectedUp, Zenon
  <2>8. QED  BY <2>1, <2>7 DEF Rejected, p, k, n
<1>9. QED  BY <1>6, <1>7, <1>8

LEMMA JudgedUnwind ==
  ASSUME NEW Trees, WellFormed(Trees), Judgement(Trees), ShapeInv(Trees), JudgedInv, Unwind
  PROVE  JudgedInv'
<1>1. /\ mode = "throw" /\ scopes' = scopes /\ functions' = functions
      /\ stack \in Seq(Frames(Trees)) /\ stack # <<>>
  <2>1. mode = "throw" /\ scopes' = scopes /\ functions' = functions
    BY DEF Unwind, env
  <2>2. QED  BY <2>1, TopFrame DEF ShapeInv
<1>2. PICK m \in Nat : Len(stack) = m + 1 /\ Len(stack) - 1 = m
  <2>1. Len(stack) - 1 \in Nat /\ Len(stack) = (Len(stack) - 1) + 1
    BY <1>1
  <2>2. QED  BY <2>1
<1>3. /\ LinkInv /\ VerdictIsRight /\ FunctionInv /\ stack[1].node = testcases[Len(verdicts) + 1]
      /\ Rejected(Node, EnvAt(m), stack[1].node, stack[1].at)
      /\ thrown.kind = "bad_cast" => NoCast(Node)
  BY <1>1, <1>2 DEF JudgedInv, ThrowInv
<1>4. CASE /\ Len(stack) > 1 /\ stack' = Front(stack) /\ thrown'.kind = thrown.kind
           /\ UNCHANGED <<testcases, verdicts, mode>>
  <2>1. m >= 1 /\ m \in 1 .. m /\ 1 \in 1 .. m /\ m - 1 \in 0 .. m /\ 1 .. m \subseteq 1 .. Len(stack)
    BY <1>2, <1>4
  <2>2. Len(stack') = m /\ \A i \in 1 .. m : stack'[i] = stack[i]
    BY <1>1, <1>2, <1>4, FrontType
  <2>3. /\ \A i \in 0 .. m : EnvAt(i)' = EnvAt(i)
        /\ \A i \in 1 .. m : EnvFrom(i)' <=> EnvFrom(i)
    BY <1>1, <2>2, BelowKept
  <2>4. Top' = stack[m] /\ Node' = stack[m].node
    BY <2>1, <2>2 DEF Top, Node, Last
  <2>5. LinkInv'
    <3>1. ASSUME NEW i \in 1 .. m - 1
          PROVE  stack'[i].at \in Slots(stack'[i].node) /\ stack'[i + 1].node = ChildOf(stack'[i])
      <4>1. i \in 1 .. Len(stack) - 1 /\ i \in 1 .. m /\ i + 1 \in 1 .. m
        BY <1>2
      <4>2. stack[i].at \in Slots(stack[i].node) /\ stack[i + 1].node = ChildOf(stack[i])
        BY <4>1, <1>3 DEF LinkInv
      <4>3. QED  BY <4>1, <4>2, <2>2
    <3>2. ASSUME NEW i \in 1 .. m
          PROVE  /\ stack'[i].node.kind = "FUNCTION" => i = 2
                 /\ stack'[i].at > 0 => EnvFrom(i)'
      BY <2>1, <2>2, <2>3, <1>3 DEF LinkInv
    <3>3. mode' # "return"
      BY <1>1, <1>4
    <3>4. QED  BY <3>1, <3>2, <3>3, <2>2 DEF LinkInv
  <2>6. Rejected(stack[m].node, EnvAt(m - 1), stack[1].node, stack[1].at)
    BY <1>1, <1>2, <1>3, <2>1, ParentRejected
  <2>7. thrown'.kind = "bad_cast" => NoCast(stack[m].node)
    <3>1. /\ stack[m].node \in Trees /\ stack[m].at \in Slots(stack[m].node)
          /\ Node = ChildOf(stack[m])
      BY <1>1, <1>2, <2>1, Parent
    <3>2. NoCast(Node) => NoCast(stack[m].node)
      BY <3>1, NoCastUp
    <3>3. QED  BY <3>2, <1>3, <1>4
  <2>8. ThrowInv'
    <3>1. (Len(stack) - 1)' = m - 1
      BY <2>2
    <3>2. EnvAt(m - 1)' = EnvAt(m - 1)
      BY <2>1, <2>3
    <3>3. EnvAt(Len(stack) - 1)' = EnvAt(m - 1)
      BY <3>1, <3>2 DEF EnvAt
    <3>4. QED  BY <3>3, <2>1, <2>2, <2>4, <2>6, <2>7 DEF ThrowInv
  <2>9. SoFarInv' /\ ResultInv'
    BY <1>1, <1>4 DEF SoFarInv, ResultInv
  <2>10. VerdictIsRight' /\ FunctionInv'
    BY <1>1, <1>3, <1>4, VerdictsKept DEF FunctionInv
  <2>11. QED  BY <2>1, <2>2, <2>5, <2>8, <2>9, <2>10, <1>3, <1>4 DEF JudgedInv
<1>5. CASE /\ Len(stack) = 1
           /\ Verdict(IF thrown.kind = "bad_cast" THEN "terminated" ELSE "reported", thrown.msg)
  <2>1. Node = stack[1].node /\ Node.kind = "PROGRAM"
    BY <1>1, <1>5, TopFrame
  <2>2. ~WellTyped(stack[1].node)
    BY <2>1, <1>3 DEF Rejected
  <2>3. PICK end \in {"reported", "terminated"} :
          Verdict(end, thrown.msg) /\ (end = "terminated" => thrown.kind = "bad_cast")
    BY <1>5
  <2>4. /\ (end = "accepted") = WellTyped(stack[1].node)
        /\ end = "terminated" => NoCast(stack[1].node)
    <3>1. end # "accepted" /\ WellTyped(stack[1].node) \in BOOLEAN
      BY <2>3 DEF WellTyped
    <3>2. QED  BY <3>1, <2>1, <2>2, <2>3, <1>3
  <2>5. mode # "idle"
    BY <1>1
  <2>6. QED  BY <2>3, <2>4, <2>5, <1>1, JudgedVerdict
<1>6. CASE Len(stack) > 1
  <2>0. Len(stack) # 1
    BY <1>2, <1>6
  <2>1. thrown'.kind = thrown.kind
    <3>1. thrown \in [kind : Kinds \cup {"none"}, msg : Messages]
      BY DEF ShapeInv
    <3>2. [thrown EXCEPT !.msg = "undefined"].kind = thrown.kind
      BY <3>1
    <3>3. thrown' \in {[thrown EXCEPT !.msg = "undefined"], thrown}
      BY <2>0 DEF Unwind
    <3>4. QED  BY <3>2, <3>3
  <2>2. stack' = Front(stack) /\ UNCHANGED <<testcases, verdicts, mode>>
    BY <2>0 DEF Unwind
  <2>3. QED  BY <2>1, <2>2, <1>4, <1>6
<1>7. QED  BY <1>5, <1>6 DEF Unwind

-----------------------------------------------------------------------------
(* The steps that leave the environments alone *)

\* The typecheck function of a node without a scope of its own runs, and m
\* others wait.
Checking(Trees, m) ==
  /\ WellFormed(Trees) /\ Judgement(Trees)
  /\ ShapeInv(Trees) /\ EnvInv /\ EnvInv' /\ JudgedInv
  /\ mode \in {"call", "return"} /\ m \in Nat /\ Len(stack) = m + 1
  /\ Node.kind \notin {"PROGRAM", "FUNCTION", "BLOCK"}
  /\ UNCHANGED env

\* What the rules speak of, as the functions see it.
LEMMA Facts ==
  ASSUME NEW Trees, NEW m, Checking(Trees, m)
  PROVE  /\ m \in Nat /\ m >= 1 /\ m \in 1 .. m /\ Top = stack[m + 1] /\ Top.node = Node
         /\ Node \in Trees /\ Top \in Frames(Trees)
         /\ EnvAt(m + 1) = EnvAt(m) /\ functions = FunctionsAt
         /\ \A v : /\ Bound(v) <=> v \in DOMAIN EnvAt(m)
                   /\ Bound(v) => Lookup(v) = EnvAt(m)[v]
         /\ \A v \in DOMAIN EnvAt(m) : EnvAt(m)[v] \in Types
         /\ mode = "return" =>
              /\ Top.at > 0 /\ Top.at \in Slots(Node)
              /\ SoFar(Top, EnvAt(m), stack[1].node, stack[1].at)
<1>1. /\ m \in Nat /\ Len(stack) = m + 1 /\ ShapeInv(Trees) /\ EnvInv /\ JudgedInv
      /\ mode \in {"call", "return"} /\ Node.kind \notin {"PROGRAM", "FUNCTION", "BLOCK"}
      /\ WellFormed(Trees)
  BY DEF Checking
<1>2. /\ Top = stack[m + 1] /\ Top.node = Node /\ Node \in Trees /\ Top \in Frames(Trees)
      /\ Len(stack) # 1 /\ stack \in Seq(Frames(Trees))
  BY <1>1, TopFrame DEF ShapeInv
<1>3. m >= 1 /\ m \in 1 .. m
  BY <1>1, <1>2
<1>4. PathInv /\ Lexical(scopes, stack) /\ Entered(functions, FunctionsOf(stack[1].node, stack[1].at))
  BY <1>1 DEF EnvInv, Known
<1>5. functions = FunctionsAt
  BY <1>1, <1>4, FunctionsSeen DEF JudgedInv, FunctionsAt
<1>6. ~Opens(stack[m + 1])
  BY <1>1, <1>2 DEF Opens
<1>7. Depth(stack, m + 1) = Depth(stack, m) /\ Depth(stack, m + 1) = Len(scopes) /\ Depth(stack, m) \in Nat
  BY <1>1, <1>4, <1>6, DepthNext DEF Lexical
<1>8. EnvAt(m + 1) = EnvAt(m) /\ EnvAt(m) = Visible(scopes, Len(scopes))
  BY <1>7 DEF EnvAt
<1>9. scopes \in Seq(Scopes)
  BY <1>1 DEF ShapeInv
<1>10. \A v : /\ Bound(v) <=> v \in DOMAIN EnvAt(m)
              /\ Bound(v) => Lookup(v) = EnvAt(m)[v]
  BY <1>8, <1>9, LookupVisible
<1>11. \A v \in DOMAIN EnvAt(m) : EnvAt(m)[v] \in Types
  <2>1. EnvFrom(m)
    BY <1>1, <1>3, Parent
  <2>2. QED  BY <2>1 DEF EnvFrom
<1>12. ASSUME mode = "return"
       PROVE  /\ Top.at > 0 /\ Top.at \in Slots(Node)
              /\ SoFar(Top, EnvAt(m), stack[1].node, stack[1].at)
  <2>1. Top.at > 0 /\ Top.at \in Slots(Node)
    BY <1>1, <1>4, <1>12 DEF PathInv, JudgedInv, LinkInv
  <2>2. m + 1 \in 1 .. Len(stack)
    BY <1>1
  <2>3. SoFar(stack[m + 1], EnvAt(m + 1), stack[1].node, stack[1].at)
    BY <2>1, <2>2, <1>1, <1>2, <1>12 DEF JudgedInv, SoFarInv
  <2>4. QED  BY <2>1, <2>3, <1>2, <1>8
<1>13. QED  BY <1>1, <1>2, <1>3, <1>5, <1>8, <1>10, <1>11, <1>12

\* What has come back is what the rules give the child.
LEMMA Came ==
  ASSUME NEW Trees, NEW m, Checking(Trees, m), mode = "return",
         NEW n, n = ChildOf(Top), n.kind # "FUNCTION"
  PROVE  /\ result = Yields(n, EnvAt(m), FunctionsAt)
         /\ Ill \notin result
<1>1. JudgedInv /\ mode = "return" /\ ShapeInv(Trees) /\ Len(stack) = m + 1
  BY DEF Checking
<1>2. EnvAt(m + 1) = EnvAt(m)
  BY Facts
<1>3. result \subseteq Types
  BY <1>1 DEF ShapeInv
<1>4. ResultInv
  BY <1>1 DEF JudgedInv
<1>5. result = Yields(n, EnvAt(Len(stack)), FunctionsAt)
  BY <1>1, <1>4 DEF ResultInv
<1>6. QED  BY <1>1, <1>2, <1>3, <1>5, IllIsNoType

LEMMA Calls ==
  ASSUME NEW Trees, NEW m, Checking(Trees, m),
         NEW f \in Frames(Trees), f.node = Node, f.at \in Slots(Node), f.at > 0,
         NEW n \in Trees, n = ChildOf(f), Call(f, n),
         SoFar(f, EnvAt(m), stack[1].node, stack[1].at)
  PROVE  JudgedInv'
<1>1. /\ m \in Nat /\ Len(stack) = m + 1 /\ ShapeInv(Trees) /\ EnvInv /\ JudgedInv /\ EnvInv'
      /\ mode \in {"call", "return"} /\ Node.kind \notin {"PROGRAM", "FUNCTION", "BLOCK"}
      /\ WellFormed(Trees) /\ scopes' = scopes /\ functions' = functions
  BY DEF Checking, env
<1>2. m >= 1 /\ m # 0 /\ EnvFrom(m) /\ stack \in Seq(Frames(Trees)) /\ stack # <<>>
  <2>1. m >= 1
    BY Facts
  <2>2. mode # "idle"
    BY <1>1
  <2>3. stack # <<>> /\ stack \in Seq(Frames(Trees))
    BY <2>2, <1>1, TopFrame DEF ShapeInv
  <2>4. EnvFrom(m)
    BY <2>1, <2>2, <1>1, Parent
  <2>5. m # 0
    BY <2>1, <1>1
  <2>6. QED  BY <2>1, <2>3, <2>4, <2>5
<1>3. /\ stack'[m + 1] = f /\ \A i \in 1 .. m : stack'[i] = stack[i]
  <2>1. /\ Front(stack) \in Seq(Frames(Trees)) /\ Len(Front(stack)) = m
        /\ \A i \in 1 .. m : Front(stack)[i] = stack[i]
    <3>1. Len(stack) - 1 = m
      BY <1>1
    <3>2. QED  BY <3>1, <1>2, FrontType
  <2>2. Frame(n) \in Frames(Trees)
    BY DEF Frame, Frames
  <2>3. stack' = Append(Append(Front(stack), f), Frame(n))
    BY DEF Call
  <2>4. QED  BY <2>1, <2>2, <2>3
<1>4. ~Opens(f)
  BY <1>1 DEF Opens
<1>5. EnvAt(m + 1)' = EnvAt(m)
  <2>1. Depth(stack', m) = Depth(stack, m)
    BY <1>1, <1>3, DepthSame
  <2>2. Depth(stack', m + 1) = Depth(stack', m)
    BY <1>1, <1>3, <1>4, DepthNext
  <2>3. QED  BY <2>1, <2>2, <1>1 DEF EnvAt
<1>6. EnvAt(m)' = EnvAt(m)
  <2>1. Depth(stack', m) = Depth(stack, m)
    BY <1>1, <1>3, DepthSame
  <2>2. QED  BY <2>1, <1>1 DEF EnvAt
<1>7. EnvFrom(m + 1)'
  <2>1. m + 1 # 1 /\ (m + 1) - 1 = m
    BY <1>1, <1>2
  <2>2. \A v \in DOMAIN EnvAt(m) : EnvAt(m)[v] \in Types
    BY <1>2 DEF EnvFrom
  <2>3. EnvAt((m + 1) - 1)' = EnvAt(m)
    BY <2>1, <1>6
  <2> HIDE DEF EnvAt
  <2>4. QED  BY <2>1, <2>2, <2>3, <1>3, <1>4, <1>5 DEF EnvFrom
<1>8. FunctionInv'
  BY <1>1 DEF JudgedInv, FunctionInv
<1>9. SoFar(f, EnvAt(m + 1)', stack[1].node, IF m = 0 THEN f.at ELSE stack[1].at)
  BY <1>2, <1>5
<1>10. QED  BY <1>1, <1>7, <1>8, <1>9, JudgedCall

LEMMA Returns ==
  ASSUME NEW Trees, NEW m, Checking(Trees, m),
         NEW types, Return(types), types = Yields(Node, EnvAt(m), FunctionsAt)
  PROVE  JudgedInv'
<1>1. /\ m \in Nat /\ Len(stack) = m + 1 /\ ShapeInv(Trees) /\ EnvInv /\ JudgedInv /\ EnvInv'
      /\ mode \in {"call", "return"} /\ Node.kind \notin {"PROGRAM", "FUNCTION", "BLOCK"}
      /\ scopes' = scopes /\ functions' = functions
  BY DEF Checking, env
<1>2. m \in Nat \ {0}
  BY Facts
<1>3. QED  BY <1>1, <1>2, JudgedReturn

LEMMA Throws ==
  ASSUME NEW Trees, NEW m, Checking(Trees, m),
         NEW kind, NEW msg, Throw(kind, msg), Ill \in Yields(Node, EnvAt(m), FunctionsAt),
         kind = "bad_cast" => NoCast(Node)
  PROVE  JudgedInv'
<1>1. /\ m \in Nat /\ Len(stack) = m + 1 /\ ShapeInv(Trees) /\ EnvInv /\ JudgedInv
      /\ mode \in {"call", "return"} /\ Node.kind \notin {"PROGRAM", "FUNCTION", "BLOCK"}
      /\ scopes' = scopes /\ functions' = functions
  BY DEF Checking, env
<1>2. FunctionInv'
  BY <1>1 DEF JudgedInv, FunctionInv
<1>3. Rejected(Node, EnvAt(m), stack[1].node, stack[1].at)
  BY <1>1 DEF Rejected, FunctionsAt
<1>4. QED  BY <1>1, <1>2, <1>3, JudgedThrow

\* The k-th child is called from the frame as it is, or with what it has so far.
LEMMA CallsChild ==
  ASSUME NEW Trees, NEW m, Checking(Trees, m), Node.kind # "BRANCH",
         NEW k \in DOMAIN Node.kids, NEW types \in SUBSET Types,
         NEW f \in {At(k), [At(k) EXCEPT !.acc = types]}, Call(f, Node.kids[k]),
         NEW g, g = f, SoFar(g, EnvAt(m), stack[1].node, stack[1].at)
  PROVE  JudgedInv'
<1>1. ShapeInv(Trees) /\ mode # "idle" /\ WellFormed(Trees)
  BY DEF Checking
<1>2. Node \in Trees
  BY Facts
<1>3. Node.kids \in Seq(Trees)
  BY <1>1, <1>2, Classes
<1>4. k \in Nat /\ k > 0 /\ Node.kids[k] \in Trees
  BY <1>3
<1>5. At(k) \in Frames(Trees) /\ At(k).node = Node /\ At(k).at = k
  BY <1>1, <1>4, TopFrame
<1>6. f \in Frames(Trees) /\ f.node = Node /\ f.at = k
  BY <1>5 DEF Frames
<1>7. f.at \in Slots(Node) /\ f.at > 0 /\ Node.kids[k] = ChildOf(f)
  BY <1>4, <1>6 DEF Slots, ChildOf
<1>8. QED  BY <1>4, <1>6, <1>7, Calls

LEMMA JudgedLeaf ==
  ASSUME NEW Trees, NEW m, Checking(Trees, m), TypecheckLeaf
  PROVE  JudgedInv'
<1>1. PICK kind \in {"NUM", "EMPTY", "SKIP"} : Node.kind = kind /\ Return({TypeOfLeaf[kind]})
  BY DEF TypecheckLeaf, TypeOfLeaf, Enter
<1>2. Node \in Trees /\ Judgement(Trees)
  BY Facts DEF Checking
<1>3. Yields(Node, EnvAt(m), FunctionsAt) = {TypeOfLeaf[kind]}
  BY <1>1, <1>2, Rules DEF TypeOfLeaf
<1>4. QED  BY <1>1, <1>3, Returns

LEMMA JudgedVar ==
  ASSUME NEW Trees, NEW m, Checking(Trees, m), TypecheckVar
  PROVE  JudgedInv'
<1>1. Node \in Trees /\ Judgement(Trees) /\ Node.kind = "VAR"
  BY Facts DEF Checking, TypecheckVar, Enter
<1>2. Yields(Node, EnvAt(m), FunctionsAt)
        = {IF Node.name \in DOMAIN EnvAt(m) THEN EnvAt(m)[Node.name] ELSE Ill}
  BY <1>1, RuleVar
<1>3. /\ Bound(Node.name) <=> Node.name \in DOMAIN EnvAt(m)
      /\ Bound(Node.name) => Lookup(Node.name) = EnvAt(m)[Node.name]
  BY Facts
<1>4. CASE Bound(Node.name) /\ Return({Lookup(Node.name)})
  <2>1. {Lookup(Node.name)} = Yields(Node, EnvAt(m), FunctionsAt)
    BY <1>2, <1>3, <1>4
  <2>2. QED  BY <2>1, <1>4, Returns
<1>5. CASE ~Bound(Node.name) /\ Throw("string", "unbound")
  <2>1. Ill \in Yields(Node, EnvAt(m), FunctionsAt)
    BY <1>2, <1>3, <1>5
  <2>2. QED  BY <2>1, <1>5, Throws
<1>6. QED  BY <1>4, <1>5 DEF TypecheckVar

LEMMA JudgedBinary ==
  ASSUME NEW Trees, NEW m, Checking(Trees, m), TypecheckBinaryExpression
  PROVE  JudgedInv'
<1>1. Node \in Trees /\ Judgement(Trees) /\ Node.kind = "BINARY" /\ DOMAIN Node.kids = {1, 2}
  <2>1. Node \in Trees /\ Judgement(Trees) /\ WellFormed(Trees) /\ Node.kind = "BINARY"
    BY Facts DEF Checking, TypecheckBinaryExpression, Enter, Resumed
  <2>2. QED  BY <2>1, Classes
<1> DEFINE e == EnvAt(m)
           fs == FunctionsAt
<1>2. ASSUME NEW k \in {1, 2}, mode = "return", Top.at = k
      PROVE  result = Yields(Node.kids[k], e, fs)
  <2>1. ChildOf(Top) = Node.kids[k] /\ Node.kids[k].kind # "FUNCTION"
    <3>1. Top.node = Node
      BY Facts
    <3>2. Node.kids[k].kind \in Expressions \cup Statements
      BY <1>1, Classes DEF Checking
    <3>3. QED  BY <3>1, <3>2, <1>1, <1>2 DEF ChildOf, Expressions, Statements
  <2>2. QED  BY <2>1, <1>2, Came
<1>3. ASSUME Top.at = 2, mode = "return" PROVE Yields(Node.kids[1], e, fs) = {"INT"}
  BY <1>1, <1>3, Facts DEF SoFar, FunctionsAt
<1>4. CASE Enter("BINARY") /\ Call(At(1), Node.kids[1])
  <2>1. At(1).node = Node /\ At(1).at = 1
    BY TopFrame DEF Checking
  <2>2. SoFar(At(1), EnvAt(m), stack[1].node, stack[1].at)
    BY <2>1, <1>1 DEF SoFar
  <2>3. QED  BY <2>2, <1>1, <1>4, CallsChild
<1>5. CASE Resumed("BINARY", 1) /\ result = {"INT"} /\ Call(At(2), Node.kids[2])
  <2>1. At(2).node = Node /\ At(2).at = 2
    BY TopFrame DEF Checking
  <2>2. Yields(Node.kids[1], e, fs) = {"INT"}
    BY <1>2, <1>5 DEF Resumed
  <2>3. SoFar(At(2), EnvAt(m), stack[1].node, stack[1].at)
    BY <2>1, <2>2, <1>1 DEF SoFar, FunctionsAt
  <2>4. QED  BY <2>3, <1>1, <1>5, CallsChild
<1>6. CASE Resumed("BINARY", 2) /\ result = {"INT"} /\ Return({"INT"})
  <2>1. Yields(Node.kids[1], e, fs) = {"INT"} /\ Yields(Node.kids[2], e, fs) = {"INT"}
    BY <1>2, <1>3, <1>6 DEF Resumed
  <2>2. Yields(Node, e, fs) = {IF \A k \in DOMAIN Node.kids : Yields(Node.kids[k], e, fs) = {"INT"}
                               THEN "INT" ELSE Ill}
    BY <1>1, RuleBinary
  <2>3. Yields(Node, e, fs) = {"INT"}
    BY <2>1, <2>2, <1>1
  <2>4. QED  BY <2>3, <1>6, Returns
<1>7. ASSUME NEW k \in 1 .. 2, Resumed("BINARY", k), result # {"INT"}, Throw("cstr", "operand")
      PROVE  JudgedInv'
  <2>1. k \in DOMAIN Node.kids /\ Yields(Node.kids[k], e, fs) # {"INT"}
    BY <1>1, <1>2, <1>7 DEF Resumed
  <2> HIDE DEF e, fs
  <2>2. Yields(Node, e, fs) = {Ill}
    BY <2>1, <1>1, BinaryUp, Zenon
  <2>3. Ill \in Yields(Node, EnvAt(m), FunctionsAt)
    BY <2>2 DEF e, fs
  <2>4. QED  BY <2>3, <1>7, Throws
<1>8. QED  BY <1>4, <1>5, <1>6, <1>7 DEF TypecheckBinaryExpression

LEMMA CameChild ==
  ASSUME NEW Trees, NEW m, Checking(Trees, m), mode = "return", Node.kind # "BRANCH"
  PROVE  /\ Top.at \in DOMAIN Node.kids
         /\ result = Yields(Node.kids[Top.at], EnvAt(m), FunctionsAt)
         /\ result \in SUBSET Types
<1>1. Node \in Trees /\ Top.node = Node /\ Top.at \in Slots(Node)
  BY Facts
<1>2. Top.at \in DOMAIN Node.kids /\ ChildOf(Top) = Node.kids[Top.at]
  BY <1>1 DEF Slots, ChildOf
<1>3. Node.kids[Top.at].kind \in Expressions \cup Statements
  BY <1>1, <1>2, Classes DEF Checking
<1>4. Node.kids[Top.at].kind # "FUNCTION"
  BY <1>3 DEF Expressions, Statements
<1>5. result = Yields(Node.kids[Top.at], EnvAt(m), FunctionsAt)
  BY <1>2, <1>4, Came
<1>6. result \in SUBSET Types
  BY DEF Checking, ShapeInv
<1>7. QED  BY <1>2, <1>5, <1>6

LEMMA JudgedReturnStmt ==
  ASSUME NEW Trees, NEW m, Checking(Trees, m), TypecheckReturn
  PROVE  JudgedInv'
<1>1. Node \in Trees /\ Judgement(Trees) /\ Node.kind = "RETURN" /\ DOMAIN Node.kids = {1}
  <2>1. Node \in Trees /\ Judgement(Trees) /\ WellFormed(Trees) /\ Node.kind = "RETURN"
    BY Facts DEF Checking, TypecheckReturn, Enter, Resumed
  <2>2. QED  BY <2>1, Classes
<1>2. CASE Enter("RETURN") /\ Call(At(1), Node.kids[1])
  <2>1. At(1).node = Node /\ At(1).at = 1
    BY TopFrame DEF Checking
  <2>2. SoFar(At(1), EnvAt(m), stack[1].node, stack[1].at)
    BY <2>1, <1>1 DEF SoFar
  <2>3. QED  BY <2>2, <1>1, <1>2, CallsChild
<1>3. CASE Resumed("RETURN", 1) /\ Return(result)
  <2>1. result = Yields(Node.kids[1], EnvAt(m), FunctionsAt)
    BY <1>1, <1>3, CameChild DEF Resumed
  <2>2. result = Yields(Node, EnvAt(m), FunctionsAt)
    BY <2>1, <1>1, Rules
  <2>3. QED  BY <2>2, <1>3, Returns
<1>4. QED  BY <1>2, <1>3 DEF TypecheckReturn

LEMMA JudgedAssignment ==
  ASSUME NEW Trees, NEW m, Checking(Trees, m), TypecheckAssignment
  PROVE  JudgedInv'
<1>1. Node \in Trees /\ Judgement(Trees) /\ Node.kind = "ASSIGN" /\ DOMAIN Node.kids = {1}
  <2>1. Node \in Trees /\ Judgement(Trees) /\ WellFormed(Trees) /\ Node.kind = "ASSIGN"
    BY Facts DEF Checking, TypecheckAssignment, Enter, Resumed
  <2>2. QED  BY <2>1, Classes
<1> DEFINE e == EnvAt(m)
           fs == FunctionsAt
<1>2. Yields(Node, e, fs) = {IF Node.name \in DOMAIN e /\ Yields(Node.kids[1], e, fs) = {e[Node.name]}
                             THEN "NIL" ELSE Ill}
  BY <1>1, RuleAssign
<1>3. /\ Bound(Node.name) <=> Node.name \in DOMAIN e
      /\ Bound(Node.name) => Lookup(Node.name) = e[Node.name]
  BY Facts
<1>4. ASSUME Resumed("ASSIGN", 1) PROVE result = Yields(Node.kids[1], e, fs)
  BY <1>1, <1>4, CameChild DEF Resumed
<1>5. CASE ~Bound(Node.name) /\ Throw("string", "unbound")
  <2>1. Ill \in Yields(Node, EnvAt(m), FunctionsAt)
    BY <1>2, <1>3, <1>5
  <2>2. QED  BY <2>1, <1>5, Throws
<1>6. CASE Enter("ASSIGN") /\ Call(At(1), Node.kids[1])
  <2>1. At(1).node = Node /\ At(1).at = 1
    BY TopFrame DEF Checking
  <2>2. SoFar(At(1), EnvAt(m), stack[1].node, stack[1].at)
    BY <2>1, <1>1 DEF SoFar
  <2>3. QED  BY <2>2, <1>1, <1>6, CallsChild
<1>7. CASE /\ Resumed("ASSIGN", 1) /\ Bound(Node.name)
           /\ result = {Lookup(Node.name)} /\ Return({"NIL"})
  <2>1. Yields(Node.kids[1], e, fs) = {e[Node.name]} /\ Node.name \in DOMAIN e
    BY <1>3, <1>4, <1>7
  <2>2. Yields(Node, e, fs) = {"NIL"}
    BY <2>1, <1>2
  <2>3. QED  BY <2>2, <1>7, Returns
<1>8. CASE /\ Resumed("ASSIGN", 1) /\ Bound(Node.name)
           /\ result # {Lookup(Node.name)} /\ Throw("cstr", "assign")
  <2>1. Yields(Node.kids[1], e, fs) # {e[Node.name]}
    BY <1>3, <1>4, <1>8
  <2>2. Ill \in Yields(Node, EnvAt(m), FunctionsAt)
    BY <2>1, <1>2
  <2>3. QED  BY <2>2, <1>8, Throws
<1>9. QED  BY <1>5, <1>6, <1>7, <1>8 DEF TypecheckAssignment

LEMMA JudgedLoop ==
  ASSUME NEW Trees, NEW m, Checking(Trees, m), TypecheckLoop
  PROVE  JudgedInv'
<1>1. Node \in Trees /\ Judgement(Trees) /\ Node.kind = "LOOP" /\ DOMAIN Node.kids = {1, 2}
  <2>1. Node \in Trees /\ Judgement(Trees) /\ WellFormed(Trees) /\ Node.kind = "LOOP"
    BY Facts DEF Checking, TypecheckLoop, Enter, Resumed
  <2>2. QED  BY <2>1, Classes
<1> DEFINE e == EnvAt(m)
           fs == FunctionsAt
<1>2. Yields(Node, e, fs) = Yields(Node.kids[2], e, fs)
        \cup (IF Yields(Node.kids[1], e, fs) = {"BOOL"} THEN {} ELSE {Ill})
  BY <1>1, RuleLoop
<1>3. ASSUME NEW k \in {1, 2}, Resumed("LOOP", k) PROVE result = Yields(Node.kids[k], e, fs)
  BY <1>1, <1>3, CameChild DEF Resumed
<1>4. ASSUME Resumed("LOOP", 2) PROVE Yields(Node.kids[1], e, fs) = {"BOOL"}
  BY <1>1, <1>4, Facts DEF Resumed, SoFar, FunctionsAt
<1>5. \A k \in {1, 2} : At(k).node = Node /\ At(k).at = k
  BY TopFrame DEF Checking
<1>6. CASE Enter("LOOP") /\ Call(At(1), Node.kids[1])
  <2>1. SoFar(At(1), EnvAt(m), stack[1].node, stack[1].at)
    BY <1>1, <1>5 DEF SoFar
  <2>2. QED  BY <2>1, <1>1, <1>6, CallsChild
<1>7. CASE Resumed("LOOP", 1) /\ result = {"BOOL"} /\ Call(At(2), Node.kids[2])
  <2>1. Yields(Node.kids[1], e, fs) = {"BOOL"}
    BY <1>3, <1>7
  <2>2. SoFar(At(2), EnvAt(m), stack[1].node, stack[1].at)
    BY <2>1, <1>1, <1>5 DEF SoFar, FunctionsAt
  <2>3. QED  BY <2>2, <1>1, <1>7, CallsChild
<1>8. CASE Resumed("LOOP", 1) /\ result # {"BOOL"} /\ Throw("cstr", "condition")
  <2>1. Yields(Node.kids[1], e, fs) # {"BOOL"}
    BY <1>3, <1>8
  <2>2. Ill \in Yields(Node, EnvAt(m), FunctionsAt)
    BY <2>1, <1>2
  <2>3. QED  BY <2>2, <1>8, Throws
<1>9. CASE Resumed("LOOP", 2) /\ Return(result)
  <2>1. result = Yields(Node, e, fs)
    BY <1>2, <1>3, <1>4, <1>9
  <2>2. QED  BY <2>1, <1>9, Returns
<1>10. QED  BY <1>6, <1>7, <1>8, <1>9 DEF TypecheckLoop

LEMMA JudgedFunctionCall ==
  ASSUME NEW Trees, NEW m, Checking(Trees, m), TypecheckFunctionCall
  PROVE  JudgedInv'
<1>1. /\ Node \in Trees /\ Judgement(Trees) /\ Node.kind = "FUNCTIONCALL"
      /\ Node.kids \in Seq(Trees) /\ DOMAIN Node.kids = 1 .. Len(Node.kids)
  <2>1. Node \in Trees /\ Judgement(Trees) /\ WellFormed(Trees) /\ Node.kind = "FUNCTIONCALL"
    BY Facts DEF Checking, TypecheckFunctionCall, Enter, Resumed
  <2>2. Node.kids \in Seq(Trees)
    BY <2>1, Classes
  <2>3. QED  BY <2>1, <2>2
<1> DEFINE e == EnvAt(m)
           fs == FunctionsAt
<1>2. functions = fs
  BY Facts
<1>3. ASSUME NEW k \in 0 .. Len(Node.kids), Node.name \in DOMAIN fs,
             Len(fs[Node.name].params) = Len(Node.kids),
             \A i \in 1 .. k : Yields(Node.kids[i], e, fs) = {fs[Node.name].params[i]},
             NextArgument(k)
      PROVE  JudgedInv'
  <2>1. CASE k = Len(Node.kids)
    <3>1. Return({fs[Node.name].ret})
      BY <2>1, <1>2, <1>3 DEF NextArgument
    <3>2. Yields(Node, e, fs) =
           {IF /\ Node.name \in DOMAIN fs /\ Len(fs[Node.name].params) = Len(Node.kids)
               /\ \A i \in DOMAIN Node.kids : Yields(Node.kids[i], e, fs) = {fs[Node.name].params[i]}
            THEN fs[Node.name].ret ELSE Ill}
      BY <1>1, RuleCall
    <3>3. \A i \in DOMAIN Node.kids : Yields(Node.kids[i], e, fs) = {fs[Node.name].params[i]}
      BY <2>1, <1>1, <1>3
    <3>4. Yields(Node, e, fs) = {fs[Node.name].ret}
      BY <3>2, <3>3, <1>3
    <3>5. QED  BY <3>1, <3>4, Returns
  <2>2. CASE k # Len(Node.kids)
    <3>1. Call(At(k + 1), Node.kids[k + 1])
      BY <2>2, <1>3 DEF NextArgument
    <3>2. k + 1 \in DOMAIN Node.kids /\ k + 1 \in Nat /\ (k + 1) - 1 = k
      BY <2>2, <1>1
    <3>3. At(k + 1).node = Node /\ At(k + 1).at = k + 1
      BY <3>2, TopFrame DEF Checking
    <3>4. SoFar(At(k + 1), EnvAt(m), stack[1].node, stack[1].at)
      BY <3>2, <3>3, <1>1, <1>3 DEF SoFar, FunctionsAt
    <3>5. QED  BY <3>1, <3>2, <3>4, <1>1, CallsChild
  <2>3. QED  BY <2>1, <2>2
<1>4. ASSUME \/ Node.name \notin DOMAIN fs \/ Len(fs[Node.name].params) # Len(Node.kids)
             \/ \E i \in DOMAIN Node.kids : Yields(Node.kids[i], e, fs) # {fs[Node.name].params[i]},
             NEW msg, Throw("string", msg)
      PROVE  JudgedInv'
  <2>1. Ill \in Yields(Node, e, fs)
    <3> HIDE DEF e, fs
    <3>1. Yields(Node, e, fs) = {Ill}
      BY <1>1, <1>4, CallUp, Zenon
    <3>2. QED  BY <3>1
  <2>2. QED  BY <2>1, <1>4, Throws
<1>5. CASE Enter("FUNCTIONCALL") /\ Node.name \notin DOMAIN functions /\ Throw("string", "unbound")
  BY <1>2, <1>4, <1>5
<1>6. CASE /\ Enter("FUNCTIONCALL") /\ Node.name \in DOMAIN functions
           /\ IF Len(functions[Node.name].params) = Len(Node.kids)
              THEN NextArgument(0) ELSE Throw("string", "arity")
  <2>1. 0 \in 0 .. Len(Node.kids) /\ 1 .. 0 = {}
    BY <1>1
  <2>2. CASE Len(functions[Node.name].params) = Len(Node.kids) /\ NextArgument(0)
    BY <2>1, <2>2, <1>2, <1>3, <1>6
  <2>3. CASE Len(functions[Node.name].params) # Len(Node.kids) /\ Throw("string", "arity")
    BY <2>3, <1>2, <1>4
  <2>4. QED  BY <2>2, <2>3, <1>6
<1>7. ASSUME NEW k \in DOMAIN Node.kids, Resumed("FUNCTIONCALL", k),
             IF result = {functions[Node.name].params[k]}
             THEN NextArgument(k) ELSE Throw("string", "argument")
      PROVE  JudgedInv'
  <2>1. result = Yields(Node.kids[k], e, fs)
    BY <1>1, <1>7, CameChild DEF Resumed
  <2>2. /\ Node.name \in DOMAIN fs /\ Len(fs[Node.name].params) = Len(Node.kids)
        /\ \A i \in 1 .. k - 1 : Yields(Node.kids[i], e, fs) = {fs[Node.name].params[i]}
    <3>1. Top.at = k /\ Top.node = Node /\ SoFar(Top, EnvAt(m), stack[1].node, stack[1].at)
      BY <1>7, Facts DEF Resumed
    <3>2. QED  BY <3>1, <1>1 DEF SoFar, FunctionsAt
  <2>3. CASE result = {functions[Node.name].params[k]} /\ NextArgument(k)
    <3>1. k \in 0 .. Len(Node.kids) /\ \A i \in 1 .. k : i \in 1 .. k - 1 \/ i = k
      BY <1>1
    <3>2. \A i \in 1 .. k : Yields(Node.kids[i], e, fs) = {fs[Node.name].params[i]}
      BY <3>1, <2>1, <2>2, <2>3, <1>2
    <3>3. QED  BY <3>1, <3>2, <2>2, <2>3, <1>3
  <2>4. CASE result # {functions[Node.name].params[k]} /\ Throw("string", "argument")
    <3>1. Yields(Node.kids[k], e, fs) # {fs[Node.name].params[k]}
      BY <2>1, <2>4, <1>2
    <3>2. QED  BY <3>1, <2>4, <1>4
  <2>5. QED  BY <2>3, <2>4, <1>7
<1>8. QED  BY <1>5, <1>6, <1>7 DEF TypecheckFunctionCall

LEMMA JudgedSequence ==
  ASSUME NEW Trees, NEW m, Checking(Trees, m), TypecheckSequence
  PROVE  JudgedInv'
<1>1. /\ Node \in Trees /\ Judgement(Trees) /\ Node.kind = "SEQUENCE"
      /\ Node.kids \in Seq(Trees) /\ DOMAIN Node.kids = 1 .. Len(Node.kids)
  <2>1. Node \in Trees /\ Judgement(Trees) /\ WellFormed(Trees) /\ Node.kind = "SEQUENCE"
    BY Facts DEF Checking, TypecheckSequence, Enter, Resumed
  <2>2. Node.kids \in Seq(Trees)
    BY <2>1, Classes
  <2>3. QED  BY <2>1, <2>2
<1> DEFINE e == EnvAt(m)
           fs == FunctionsAt
           Upto(k) == UNION {Yields(Node.kids[i], e, fs) : i \in 1 .. k}
<1>2. ASSUME NEW k \in 0 .. Len(Node.kids), NEW types \in SUBSET Types, types = Upto(k),
             NextStatement(k, types)
      PROVE  JudgedInv'
  <2>1. CASE k = Len(Node.kids)
    <3>1. Return(types)
      BY <2>1, <1>2 DEF NextStatement
    <3>2. Yields(Node, e, fs) = Upto(k)
      BY <2>1, <1>1, Rules
    <3>3. types = Yields(Node, EnvAt(m), FunctionsAt)
      BY <3>2, <1>2
    <3>4. QED  BY <3>1, <3>3, Returns
  <2>2. CASE k # Len(Node.kids)
    <3> DEFINE f == [At(k + 1) EXCEPT !.acc = types]
    <3>1. Call(f, Node.kids[k + 1])
      BY <2>2, <1>2 DEF NextStatement
    <3>2. k + 1 \in DOMAIN Node.kids /\ k + 1 \in Nat /\ (k + 1) - 1 = k
      BY <2>2, <1>1
    <3>3. f.node = Node /\ f.at = k + 1 /\ f.acc = types
      <4>1. At(k + 1) \in Frames(Trees) /\ At(k + 1).node = Node /\ At(k + 1).at = k + 1
        BY <3>2, TopFrame DEF Checking
      <4>2. QED  BY <4>1 DEF Frames
    <3> HIDE DEF f
    <3>4. SoFar(f, EnvAt(m), stack[1].node, stack[1].at)
      BY <3>2, <3>3, <1>1, <1>2 DEF SoFar, FunctionsAt
    <3>5. f \in {At(k + 1), [At(k + 1) EXCEPT !.acc = types]}
      BY DEF f
    <3>6. Node.kind # "BRANCH"
      BY <1>1
    <3>7. QED  BY <3>1, <3>2, <3>4, <3>5, <3>6, CallsChild
  <2>3. QED  BY <2>1, <2>2
<1>3. CASE Enter("SEQUENCE") /\ NextStatement(0, {})
  <2>1. 0 \in 0 .. Len(Node.kids) /\ Upto(0) = {} /\ {} \in SUBSET Types
    BY <1>1
  <2>2. QED  BY <2>1, <1>2, <1>3
<1>4. ASSUME NEW k \in DOMAIN Node.kids, Resumed("SEQUENCE", k),
             NextStatement(k, Top.acc \cup result)
      PROVE  JudgedInv'
  <2>1. result = Yields(Node.kids[k], e, fs) /\ result \in SUBSET Types
    BY <1>1, <1>4, CameChild DEF Resumed
  <2>2. Top.acc = Upto(k - 1) /\ Top.acc \in SUBSET Types
    <3>1. /\ Top.at = k /\ Top.node = Node /\ SoFar(Top, EnvAt(m), stack[1].node, stack[1].at)
          /\ Top \in Frames(Trees)
      BY <1>4, Facts DEF Resumed
    <3>2. QED  BY <3>1, <1>1 DEF SoFar, FunctionsAt, Frames
  <2>3. k \in 0 .. Len(Node.kids) /\ 1 .. k = (1 .. k - 1) \cup {k}
    BY <1>1
  <2>4. Upto(k) = Upto(k - 1) \cup Yields(Node.kids[k], e, fs)
    <3> HIDE DEF e, fs
    <3>1. QED  BY <2>3
  <2>5. Top.acc \cup result \in SUBSET Types /\ Top.acc \cup result = Upto(k)
    BY <2>1, <2>2, <2>4
  <2>6. QED  BY <2>3, <2>5, <1>2, <1>4
<1>5. QED  BY <1>3, <1>4 DEF TypecheckSequence

LEMMA JudgedBranch ==
  ASSUME NEW Trees, NEW m, Checking(Trees, m), TypecheckBranch
  PROVE  JudgedInv'
<1>1. /\ Node \in Trees /\ Judgement(Trees) /\ WellFormed(Trees) /\ Node.kind = "BRANCH"
      /\ Node.kids \in Seq(Trees) /\ DOMAIN Node.kids = {1, 2, 3}
      /\ \A k \in {1, 2, 3} : /\ Node.kids[k] \in Trees
                              /\ Node.kids[k].kind \in Expressions \cup Statements
  <2>1. Node \in Trees /\ Judgement(Trees) /\ WellFormed(Trees) /\ Node.kind = "BRANCH"
    BY Facts DEF Checking, TypecheckBranch, Enter, Resumed
  <2>2. Node.kids \in Seq(Trees) /\ DOMAIN Node.kids = {1, 2, 3}
    BY <2>1, Classes
  <2>3. \A k \in {1, 2, 3} : Node.kids[k].kind \in Expressions \cup Statements
    BY <2>1, <2>2, Classes
  <2>4. QED  BY <2>1, <2>2, <2>3
<1> DEFINE e == EnvAt(m)
           fs == FunctionsAt
           cond == Node.kids[1]
           Operand(k) == Yields(cond.kids[k], e, fs)
           Of(k) == Yields(Node.kids[k], e, fs)
<1>2. ASSUME cond.kind = "BINARY", NEW k \in {1, 2}
      PROVE  cond.kids[k] \in Trees /\ cond.kids[k].kind \in Expressions \cup Statements
  <2>1. cond \in Trees
    BY <1>1
  <2>2. DOMAIN cond.kids = {1, 2} /\ cond.kids \in Seq(Trees)
    BY <2>1, <1>1, <1>2, Classes
  <2>3. cond.kids[k].kind \in Expressions \cup Statements
    BY <2>1, <2>2, <1>1, <1>2, Classes
  <2>4. QED  BY <2>2, <2>3
<1>3. Yields(Node, e, fs) = Of(2) \cup Of(3)
        \cup (IF cond.kind = "BINARY" /\ Operand(1) = Operand(2) THEN Operand(1) \cap {Ill} ELSE {Ill})
  BY <1>1, Rules
<1>4. ASSUME mode = "return"
      PROVE  /\ Top.node = Node /\ cond.kind = "BINARY" /\ Top \in Frames(Trees)
             /\ Top.at = 2 => Top.acc = Operand(1)
             /\ Top.at \in {3, 4} => Operand(1) = Operand(2) /\ Ill \notin Operand(1)
             /\ Top.at = 4 => Top.acc = Of(2)
  <2>1. /\ Top.node = Node /\ Top \in Frames(Trees) /\ Top.at > 0
        /\ SoFar(Top, EnvAt(m), stack[1].node, stack[1].at)
    BY <1>4, Facts
  <2>2. QED  BY <2>1, <1>1 DEF SoFar, FunctionsAt
<1>5. ASSUME mode = "return", NEW k \in 1 .. 4, Top.at = k
      PROVE  /\ result = <<Operand(1), Operand(2), Of(2), Of(3)>>[k]
             /\ Ill \notin result /\ result \in SUBSET Types
  <2> DEFINE n == <<cond.kids[1], cond.kids[2], Node.kids[2], Node.kids[3]>>[k]
  <2>1. ChildOf(Top) = n
    BY <1>1, <1>4, <1>5 DEF ChildOf
  <2>2. n.kind # "FUNCTION"
    <3>1. n \in {cond.kids[1], cond.kids[2], Node.kids[2], Node.kids[3]}
      OBVIOUS
    <3>2. n.kind \in Expressions \cup Statements
      BY <3>1, <1>1, <1>2, <1>4, <1>5
    <3>3. QED  BY <3>2 DEF Expressions, Statements
  <2>3. result = Yields(n, e, fs) /\ Ill \notin result
    <3> HIDE DEF n
    <3>1. QED  BY <2>1, <2>2, <1>5, Came
  <2>4. Yields(n, e, fs) = <<Operand(1), Operand(2), Of(2), Of(3)>>[k]
    OBVIOUS
  <2>5. result \in SUBSET Types
    BY DEF Checking, ShapeInv
  <2>6. QED  BY <2>3, <2>4, <2>5
<1>6. ASSUME NEW k \in 1 .. 4, NEW f \in {At(k), [At(k) EXCEPT !.acc = result]}
      PROVE  /\ f \in Frames(Trees) /\ f.node = Node /\ f.at = k /\ f.at > 0 /\ f.at \in Slots(Node)
             /\ ChildOf(f) = <<cond.kids[1], cond.kids[2], Node.kids[2], Node.kids[3]>>[k]
             /\ f = [At(k) EXCEPT !.acc = result] => f.acc = result
  <2>1. At(k) \in Frames(Trees) /\ At(k).node = Node /\ At(k).at = k
    <3>1. k \in Nat
      OBVIOUS
    <3>2. ShapeInv(Trees) /\ mode # "idle"
      BY DEF Checking
    <3>3. QED  BY <3>1, <3>2, TopFrame
  <2>2. result \in SUBSET Types
    BY DEF Checking, ShapeInv
  <2>3. /\ f \in Frames(Trees) /\ f.node = Node /\ f.at = k
        /\ f = [At(k) EXCEPT !.acc = result] => f.acc = result
    BY <2>1, <2>2 DEF Frames
  <2>4. f.at > 0 /\ f.at \in Slots(Node)
    BY <2>3, <1>1 DEF Slots
  <2>5. ChildOf(f) = <<cond.kids[1], cond.kids[2], Node.kids[2], Node.kids[3]>>[k]
    BY <2>3, <1>1 DEF ChildOf
  <2>6. QED  BY <2>3, <2>4, <2>5
<1>7. ASSUME NEW k \in 1 .. 4, NEW f \in {At(k), [At(k) EXCEPT !.acc = result]}, NEW n \in Trees, n = ChildOf(f),
             Call(f, n), cond.kind = "BINARY",
             k = 2 => f.acc = Operand(1),
             k \in {3, 4} => Operand(1) = Operand(2) /\ Ill \notin Operand(1),
             k = 4 => f.acc = Of(2)
      PROVE  JudgedInv'
  <2>1. f \in Frames(Trees) /\ f.node = Node /\ f.at = k /\ f.at > 0 /\ f.at \in Slots(Node)
    BY <1>6
  <2>2. SoFar(f, EnvAt(m), stack[1].node, stack[1].at)
    BY <2>1, <1>1, <1>7 DEF SoFar, FunctionsAt
  <2>3. Call(f, n) /\ n = ChildOf(f)
    BY <1>7
  <2>4. QED  BY <2>1, <2>2, <2>3, Calls, Zenon
<1>8. CASE Enter("BRANCH") /\ cond.kind = "BINARY" /\ Call(At(1), cond.kids[1])
  <2>1. cond.kids[1] \in Trees
    BY <1>2, <1>8
  <2>2. ChildOf(At(1)) = cond.kids[1]
    BY <1>6
  <2>3. QED  BY <2>1, <2>2, <1>7, <1>8
<1>9. CASE Enter("BRANCH") /\ cond.kind # "BINARY" /\ Throw("bad_cast", "branch")
  <2>1. Ill \in Yields(Node, e, fs)
    BY <1>3, <1>9
  <2>2. NoCast(Node)
    BY <1>1, <1>9 DEF NoCast, Judgement, NodesOf
  <2>3. QED  BY <2>1, <2>2, <1>9, Throws
<1>10. CASE Resumed("BRANCH", 1) /\ Call([At(2) EXCEPT !.acc = result], cond.kids[2])
  <2>1. /\ result = Operand(1) /\ result \in SUBSET Types /\ cond.kind = "BINARY"
        /\ cond.kids[2] \in Trees
    BY <1>2, <1>4, <1>5, <1>10 DEF Resumed
  <2> DEFINE f == [At(2) EXCEPT !.acc = result]
  <2>2. ChildOf(f) = cond.kids[2] /\ f.acc = result
    BY <2>1, <1>6
  <2>3. QED  BY <2>1, <2>2, <1>7, <1>10
<1>11. CASE Resumed("BRANCH", 2) /\ result = Top.acc /\ Call(At(3), Node.kids[2])
  <2>1. /\ result = Operand(2) /\ Top.acc = Operand(1) /\ Ill \notin result
        /\ cond.kind = "BINARY" /\ Node.kids[2] \in Trees
    BY <1>1, <1>4, <1>5, <1>11 DEF Resumed
  <2>2. ChildOf(At(3)) = Node.kids[2]
    BY <1>6
  <2>3. QED  BY <2>1, <2>2, <1>7, <1>11
<1>12. CASE Resumed("BRANCH", 2) /\ result # Top.acc /\ Throw("cstr", "operands")
  <2>1. result = Operand(2) /\ Top.acc = Operand(1)
    BY <1>4, <1>5, <1>12 DEF Resumed
  <2>2. Ill \in Yields(Node, e, fs)
    BY <2>1, <1>3, <1>12
  <2>3. QED  BY <2>2, <1>12, Throws
<1>13. CASE Resumed("BRANCH", 3) /\ Call([At(4) EXCEPT !.acc = result], Node.kids[3])
  <2>1. /\ result = Of(2) /\ result \in SUBSET Types /\ cond.kind = "BINARY"
        /\ Operand(1) = Operand(2) /\ Ill \notin Operand(1) /\ Node.kids[3] \in Trees
    BY <1>1, <1>4, <1>5, <1>13 DEF Resumed
  <2> DEFINE f == [At(4) EXCEPT !.acc = result]
  <2>2. ChildOf(f) = Node.kids[3] /\ f.acc = result
    BY <2>1, <1>6
  <2>3. QED  BY <2>1, <2>2, <1>7, <1>13
<1>14. CASE Resumed("BRANCH", 4) /\ Return(Top.acc \cup result)
  <2>1. /\ result = Of(3) /\ Top.acc = Of(2) /\ cond.kind = "BINARY"
        /\ Operand(1) = Operand(2) /\ Ill \notin Operand(1)
    BY <1>4, <1>5, <1>14 DEF Resumed
  <2>2. Top.acc \cup result = Yields(Node, e, fs)
    <3> HIDE DEF e, fs
    <3>1. Operand(1) \cap {Ill} = {}
      BY <2>1
    <3>2. QED  BY <3>1, <2>1, <1>3
  <2>3. QED  BY <2>2, <1>14, Returns
<1>15. QED
  BY <1>8, <1>9, <1>10, <1>11, <1>12, <1>13, <1>14 DEF TypecheckBranch

-----------------------------------------------------------------------------
(* The steps that open or close a scope *)

\* A function or a block is about to open its scope, or has it open, and m
\* others wait.
Scoped(Trees, m) ==
  /\ WellFormed(Trees) /\ Judgement(Trees)
  /\ ShapeInv(Trees) /\ EnvInv /\ EnvInv' /\ JudgedInv
  /\ mode \in {"call", "return"} /\ m \in Nat /\ Len(stack) = m + 1
  /\ Node.kind \in {"FUNCTION", "BLOCK"}

LEMMA ScopeFacts ==
  ASSUME NEW Trees, NEW m, Scoped(Trees, m)
  PROVE  /\ m \in Nat /\ m \in Nat \ {0} /\ m >= 1 /\ m \in 1 .. m /\ m + 1 # 1 /\ (m + 1) - 1 = m
         /\ stack \in Seq(Frames(Trees)) /\ stack # <<>> /\ scopes \in Seq(Scopes)
         /\ Top = stack[m + 1] /\ Top.node = Node /\ Top \in Frames(Trees)
         /\ Node \in Trees /\ Node.kids \in Seq(Trees) /\ DOMAIN Node.kids = {1} /\ Node.kids[1] \in Trees
         /\ Node.kids[1].kind # "FUNCTION" /\ Node.decls \in Seq(Declarations)
         /\ mode = "call" => Top.at = 0 /\ Len(scopes) = Depth(stack, m)
         /\ mode = "return" =>
              /\ Top.at = 1 /\ Opens(stack[m + 1]) /\ Len(scopes) = Depth(stack, m) + 1
              /\ SoFar(Top, EnvAt(m + 1), stack[1].node, stack[1].at)
              /\ EnvAt(m + 1) = Shadowing(EnvAt(m), Node.decls)
              /\ result = Yields(Node.kids[1], EnvAt(m + 1), FunctionsAt)
              /\ Ill \notin result
         /\ Depth(stack, m) \in Nat
         /\ EnvFrom(m)
         /\ Node.kind = "FUNCTION" =>
              /\ m = 1 /\ Node = stack[1].node.kids[stack[1].at]
              /\ EnvAt(m) = Mapping(stack[1].node.decls)
<1>1. /\ m \in Nat /\ Len(stack) = m + 1 /\ ShapeInv(Trees) /\ EnvInv /\ JudgedInv
      /\ mode \in {"call", "return"} /\ Node.kind \in {"FUNCTION", "BLOCK"}
      /\ WellFormed(Trees) /\ mode # "idle"
  BY DEF Scoped
<1>2. /\ Top = stack[m + 1] /\ Top.node = Node /\ Node \in Trees /\ Top \in Frames(Trees)
      /\ Len(stack) # 1 /\ stack \in Seq(Frames(Trees)) /\ stack # <<>> /\ scopes \in Seq(Scopes)
  BY <1>1, TopFrame DEF ShapeInv
<1>3. m \in Nat \ {0} /\ m >= 1 /\ m \in 1 .. m /\ m + 1 # 1 /\ (m + 1) - 1 = m
  BY <1>1, <1>2
<1>4. /\ Node.kids \in Seq(Trees) /\ DOMAIN Node.kids = {1} /\ Node.decls \in Seq(Declarations)
  <2>1. Node.kids \in Seq(Trees)
    BY <1>1, <1>2, Classes
  <2>2. DOMAIN Node.kids = {1}
    BY <1>1, <1>2, Classes
  <2>3. Node.decls \in Seq(Declarations)
    BY <1>1, <1>2 DEF WellFormed
  <2>4. QED  BY <2>1, <2>2, <2>3
<1>5. Node.kids[1] \in Trees /\ Node.kids[1].kind # "FUNCTION"
  <2>1. Node.kind = "BLOCK" => Node.kids[1].kind \in Expressions \cup Statements
    BY <1>1, <1>2, <1>4, Classes
  <2>2. Node.kind = "FUNCTION" => Node.kids[1].kind = "BLOCK"
    BY <1>1, <1>2, Classes
  <2>3. Node.kids[1].kind # "FUNCTION"
    BY <2>1, <2>2, <1>1 DEF Expressions, Statements
  <2>4. QED  BY <2>3, <1>4
<1>6. PathInv /\ Lexical(scopes, stack)
  BY <1>1 DEF EnvInv
<1>7. /\ Depth(stack, m) \in Nat /\ Len(scopes) = Depth(stack, m + 1)
      /\ Depth(stack, m + 1) = IF Opens(stack[m + 1]) THEN Depth(stack, m) + 1 ELSE Depth(stack, m)
  BY <1>1, <1>6, DepthNext DEF Lexical
<1>8. ASSUME mode = "call" PROVE Top.at = 0 /\ Len(scopes) = Depth(stack, m)
  <2>1. Top.at = 0
    BY <1>6, <1>8 DEF PathInv
  <2>2. ~Opens(stack[m + 1])
    BY <2>1, <1>1, <1>2 DEF Opens
  <2>3. QED  BY <2>1, <2>2, <1>7
<1>9. ASSUME mode = "return"
      PROVE  /\ Top.at = 1 /\ Opens(stack[m + 1]) /\ Len(scopes) = Depth(stack, m) + 1
             /\ SoFar(Top, EnvAt(m + 1), stack[1].node, stack[1].at)
             /\ EnvAt(m + 1) = Shadowing(EnvAt(m), Node.decls)
             /\ result = Yields(Node.kids[1], EnvAt(m + 1), FunctionsAt)
             /\ Ill \notin result
  <2>1. LinkInv /\ SoFarInv /\ ResultInv /\ m + 1 \in 1 .. Len(stack)
    BY <1>1 DEF JudgedInv
  <2>2. Top.at = 1
    BY <2>1, <1>1, <1>4, <1>9 DEF LinkInv, Slots
  <2>3. Opens(stack[m + 1]) /\ stack[m + 1].at > 0
    BY <2>2, <1>1, <1>2 DEF Opens
  <2>4. SoFar(Top, EnvAt(m + 1), stack[1].node, stack[1].at) /\ EnvFrom(m + 1)
    BY <2>1, <2>3, <1>2, <1>9 DEF SoFarInv, LinkInv
  <2>5. EnvAt(m + 1) = Shadowing(EnvAt(m), Node.decls)
    <3>1. EnvAt(m + 1) = Shadowing(EnvAt((m + 1) - 1), stack[m + 1].node.decls)
      BY <2>3, <2>4, <1>3 DEF EnvFrom
    <3>2. QED  BY <3>1, <1>2, <1>3
  <2>6. ChildOf(Top) = Node.kids[1]
    BY <2>2, <1>1, <1>2 DEF ChildOf
  <2>7. result = Yields(Node.kids[1], EnvAt(m + 1), FunctionsAt)
    BY <2>1, <2>6, <1>1, <1>5, <1>9 DEF ResultInv
  <2>8. Ill \notin result
    BY <1>1, IllIsNoType DEF ShapeInv
  <2>9. QED  BY <2>2, <2>3, <2>4, <2>5, <2>7, <2>8, <1>7
<1>10. EnvFrom(m)
  BY <1>1, <1>3, Parent
<1>11. ASSUME Node.kind = "FUNCTION"
       PROVE  /\ m = 1 /\ Node = stack[1].node.kids[stack[1].at]
              /\ EnvAt(m) = Mapping(stack[1].node.decls)
  <2>1. m + 1 \in 1 .. Len(stack) /\ stack[m + 1].node.kind = "FUNCTION"
    BY <1>1, <1>2, <1>11
  <2>2. m + 1 = 2
    BY <2>1, <1>6 DEF PathInv
  <2>3. m = 1
    BY <2>2, <1>1
  <2>4. stack[2].node = stack[1].node.kids[stack[1].at]
    BY <1>1, <1>3, Parent
  <2>5. stack[2].node = Node
    BY <2>2, <1>2
  <2>6. EnvAt(m) = Mapping(stack[1].node.decls)
    BY <2>3, <1>10 DEF EnvFrom
  <2>7. QED  BY <2>3, <2>4, <2>5, <2>6
<1>12. QED  BY <1>1, <1>2, <1>3, <1>4, <1>5, <1>7, <1>8, <1>9, <1>10, <1>11

\* The declarations do not repeat: the child sees them before what is outside.
LEMMA ScopeOpened ==
  ASSUME NEW Trees, NEW m, Scoped(Trees, m), mode = "call",
         scopes' = Append(scopes, Mapping(Node.decls)), Call(At(1), Node.kids[1]),
         FunctionInv', ~Repeats(Node.decls),
         Node.kind = "FUNCTION" => Node.name \notin DOMAIN Sees(stack[1].node, stack[1].at - 1)
  PROVE  JudgedInv'
<1>1. /\ m \in Nat /\ Len(stack) = m + 1 /\ ShapeInv(Trees) /\ EnvInv /\ JudgedInv /\ EnvInv'
      /\ mode \in {"call", "return"} /\ Node.kind \in {"FUNCTION", "BLOCK"} /\ mode # "idle"
  BY DEF Scoped
<1>2. /\ m # 0 /\ m + 1 # 1 /\ (m + 1) - 1 = m
      /\ stack \in Seq(Frames(Trees)) /\ stack # <<>> /\ scopes \in Seq(Scopes)
      /\ Node.kids \in Seq(Trees) /\ DOMAIN Node.kids = {1} /\ Node.kids[1] \in Trees
      /\ Node.decls \in Seq(Declarations) /\ Len(scopes) = Depth(stack, m) /\ Depth(stack, m) \in Nat
  BY ScopeFacts
<1>3. At(1) \in Frames(Trees) /\ At(1).node = Node /\ At(1).at = 1
  BY <1>1, TopFrame
<1>4. /\ stack'[m + 1] = At(1) /\ \A i \in 1 .. m : stack'[i] = stack[i]
  <2>1. /\ Front(stack) \in Seq(Frames(Trees)) /\ Len(Front(stack)) = m
        /\ \A i \in 1 .. m : Front(stack)[i] = stack[i]
    <3>1. Len(stack) - 1 = m
      BY <1>1
    <3>2. QED  BY <3>1, <1>2, FrontType
  <2>2. Frame(Node.kids[1]) \in Frames(Trees)
    BY <1>2 DEF Frame, Frames
  <2>3. stack' = Append(Append(Front(stack), At(1)), Frame(Node.kids[1]))
    BY DEF Call
  <2>4. QED  BY <2>1, <2>2, <2>3, <1>3
<1>5. Opens(At(1)) /\ Opens(stack'[m + 1])
  BY <1>1, <1>3, <1>4 DEF Opens
<1>6. Mapping(Node.decls) \in Scopes
  BY <1>2, MappingType
<1>7. /\ \A j \in 1 .. Depth(stack, m) : scopes'[j] = scopes[j]
      /\ scopes'[Depth(stack, m) + 1] = Mapping(Node.decls)
      /\ scopes' \in Seq(Scopes) /\ Len(scopes') = Depth(stack, m) + 1
  BY <1>2, <1>6
<1>8. EnvAt(m)' = EnvAt(m) /\ Depth(stack', m) = Depth(stack, m)
  BY <1>1, <1>4, <1>7, EnvKept
<1>9. Depth(stack', m + 1) = Depth(stack, m) + 1
  BY <1>1, <1>5, <1>8, DepthNext
<1>10. EnvAt(m + 1)' = Visible(scopes', Depth(stack, m) + 1)
  BY <1>9 DEF EnvAt
<1>11. EnvAt(m + 1)' = Shadowing(EnvAt(m)', Node.decls)
  <2>1. PICK d \in Nat : d = Depth(stack, m)
    BY <1>2
  <2>2. scopes'[d + 1] = Mapping(Node.decls)
    BY <2>1, <1>7
  <2>3. Visible(scopes', d + 1) = Shadowing(Visible(scopes', d), Node.decls)
    BY <2>2, VisibleNext
  <2>4. EnvAt(m)' = Visible(scopes', d)
    BY <2>1, <1>8 DEF EnvAt
  <2>5. QED  BY <2>1, <2>3, <2>4, <1>10
<1>12. \A v \in DOMAIN EnvAt(m + 1)' : EnvAt(m + 1)'[v] \in Types
  <2>1. Depth(stack, m) + 1 \in 0 .. Len(scopes')
    BY <1>2, <1>7
  <2>2. QED  BY <2>1, <1>7, <1>10, VisibleTypes
<1>13. EnvFrom(m + 1)'
  <2>1. EnvAt((m + 1) - 1)' = EnvAt(m)' /\ stack'[m + 1].node = Node
    BY <1>2, <1>3, <1>4
  <2> HIDE DEF EnvAt
  <2>2. QED  BY <2>1, <1>2, <1>5, <1>11, <1>12 DEF EnvFrom
<1>14. SoFar(At(1), EnvAt(m + 1)', stack[1].node, IF m = 0 THEN At(1).at ELSE stack[1].at)
  BY <1>1, <1>2, <1>3 DEF SoFar
<1>15. At(1).at \in Slots(Node) /\ At(1).at > 0 /\ Node.kids[1] = ChildOf(At(1))
  <2>1. Node.kind # "BRANCH"
    BY <1>1
  <2>2. Slots(Node) = {1}
    BY <2>1, <1>2 DEF Slots
  <2>3. ChildOf(At(1)) = Node.kids[1]
    BY <2>1, <1>3 DEF ChildOf
  <2>4. QED  BY <2>2, <2>3, <1>3
<1>16. QED  BY <1>1, <1>2, <1>3, <1>7, <1>13, <1>14, <1>15, JudgedCall

\* exitScope leaves the scopes of the frames below.
LEMMA ScopeClosed ==
  ASSUME NEW Trees, NEW m, Scoped(Trees, m), mode = "return", CloseScope
  PROVE  \A j \in 1 .. Depth(stack, m) : scopes'[j] = scopes[j]
<1>1. scopes \in Seq(Scopes) /\ Len(scopes) = Depth(stack, m) + 1 /\ Depth(stack, m) \in Nat
  BY ScopeFacts
<1>2. scopes # <<>> /\ Len(scopes) - 1 = Depth(stack, m)
  BY <1>1
<1>3. \A j \in 1 .. Len(scopes) - 1 : Front(scopes)[j] = scopes[j]
  BY <1>1, <1>2, FrontType
<1>4. QED  BY <1>2, <1>3 DEF CloseScope

LEMMA JudgedBlock ==
  ASSUME NEW Trees, NEW m, Scoped(Trees, m), TypecheckBlock
  PROVE  JudgedInv'
<1>1. /\ m \in Nat /\ Len(stack) = m + 1 /\ ShapeInv(Trees) /\ EnvInv /\ JudgedInv /\ EnvInv'
      /\ mode \in {"call", "return"} /\ Node.kind = "BLOCK" /\ mode # "idle"
      /\ functions' = functions /\ Judgement(Trees)
  BY DEF Scoped, TypecheckBlock, Enter, Resumed, env
<1>2. FunctionInv'
  BY <1>1 DEF JudgedInv, FunctionInv
<1>3. /\ Node \in Trees /\ m \in Nat \ {0} /\ scopes \in Seq(Scopes)
      /\ Top.node = Node /\ (mode = "call" => Top.at = 0 /\ Len(scopes) = Depth(stack, m))
  BY ScopeFacts
<1>4. Yields(Node, EnvAt(m), FunctionsAt)
        = IF Repeats(Node.decls) THEN {Ill}
          ELSE Yields(Node.kids[1], Shadowing(EnvAt(m), Node.decls), FunctionsAt)
  BY <1>1, <1>3, Rules
<1>5. CASE Enter("BLOCK") /\ OpenScope(Node.kids[1])
  <2>1. CASE Repeats(Node.decls)
    <3>1. Throw("string", "repeat") /\ scopes' = Append(scopes, Mapping(Node.decls))
      BY <2>1, <1>5 DEF OpenScope
    <3>2. Ill \in Yields(Node, EnvAt(m), FunctionsAt)
      BY <2>1, <1>4
    <3>3. Rejected(Node, EnvAt(m), stack[1].node, stack[1].at)
      BY <3>2, <1>1 DEF Rejected, FunctionsAt
    <3>4. Top.at = 0 /\ \A j \in 1 .. Depth(stack, m) : scopes'[j] = scopes[j]
      BY <3>1, <1>3, <1>5 DEF Enter
    <3>5. ~(Top.at > 0)
      BY <3>4
    <3>6. QED  BY <3>1, <3>3, <3>4, <3>5, <1>1, <1>2, JudgedThrow
  <2>2. CASE ~Repeats(Node.decls)
    <3>1. Call(At(1), Node.kids[1]) /\ scopes' = Append(scopes, Mapping(Node.decls)) /\ mode = "call"
      BY <2>2, <1>5 DEF OpenScope, Enter
    <3>2. Node.kind # "FUNCTION"
      BY <1>1
    <3>3. QED  BY <3>1, <3>2, <2>2, <1>2, ScopeOpened
  <2>3. QED  BY <2>1, <2>2
<1>6. CASE Resumed("BLOCK", 1) /\ CloseScope /\ Return(result) /\ UNCHANGED functions
  <2>1. mode = "return"
    BY <1>6 DEF Resumed
  <2>2. /\ result = Yields(Node.kids[1], EnvAt(m + 1), FunctionsAt)
        /\ EnvAt(m + 1) = Shadowing(EnvAt(m), Node.decls)
        /\ SoFar(Top, EnvAt(m + 1), stack[1].node, stack[1].at)
    BY <2>1, ScopeFacts
  <2>3. ~Repeats(Node.decls)
    BY <2>2, <1>1, <1>3 DEF SoFar
  <2>4. result = Yields(Node, EnvAt(m), FunctionsAt) /\ Node.kind # "FUNCTION"
    BY <2>2, <2>3, <1>1, <1>4
  <2>5. \A j \in 1 .. Depth(stack, m) : scopes'[j] = scopes[j]
    BY <2>1, <1>6, ScopeClosed
  <2>6. QED  BY <2>4, <2>5, <1>1, <1>3, <1>6, JudgedReturn
<1>7. QED  BY <1>5, <1>6 DEF TypecheckBlock

\* The types a body may return are at most five.
LEMMA FewTypes == ASSUME NEW T \in SUBSET Types PROVE Cardinality(T) \in Nat
<1>1. Types = {"INT"} \cup {"BOOL"} \cup {"VOID"} \cup {"NIL"} \cup {"CHAR"}
  BY DEF Types
<1>2. /\ IsFiniteSet({"INT"}) /\ IsFiniteSet({"BOOL"}) /\ IsFiniteSet({"VOID"})
      /\ IsFiniteSet({"NIL"}) /\ IsFiniteSet({"CHAR"})
  BY FS_Singleton
<1>3. IsFiniteSet({"INT"} \cup {"BOOL"})
  BY <1>2, FS_Union
<1>4. IsFiniteSet({"INT"} \cup {"BOOL"} \cup {"VOID"})
  BY <1>2, <1>3, FS_Union
<1>5. IsFiniteSet({"INT"} \cup {"BOOL"} \cup {"VOID"} \cup {"NIL"})
  BY <1>2, <1>4, FS_Union
<1>6. IsFiniteSet(Types)
  BY <1>1, <1>2, <1>5, FS_Union
<1>7. QED  BY <1>6, FS_Subset, FS_CardinalityType

LEMMA JudgedFunctionDef ==
  ASSUME NEW Trees, NEW m, Scoped(Trees, m), TypecheckFunctionDef
  PROVE  JudgedInv'
<1> DEFINE p == stack[1].node
           k == stack[1].at
<1>1. /\ m \in Nat /\ Len(stack) = m + 1 /\ ShapeInv(Trees) /\ EnvInv /\ JudgedInv /\ EnvInv'
      /\ mode \in {"call", "return"} /\ Node.kind = "FUNCTION" /\ mode # "idle"
  BY DEF Scoped, TypecheckFunctionDef, Enter, Resumed
<1>2. /\ Node \in Trees /\ m \in Nat \ {0} /\ scopes \in Seq(Scopes)
      /\ Top.node = Node /\ (mode = "call" => Top.at = 0 /\ Len(scopes) = Depth(stack, m))
      /\ Node = p.kids[k] /\ EnvAt(m) = Mapping(p.decls)
  BY <1>1, ScopeFacts
<1>3. FunctionOK(p, k) <=>
        /\ Node.name \notin DOMAIN Sees(p, k - 1) /\ ~Repeats(Node.decls)
        /\ Ill \notin Yields(Node.kids[1], Shadowing(EnvAt(m), Node.decls), Sees(p, k))
        /\ Node.ty \in Yields(Node.kids[1], Shadowing(EnvAt(m), Node.decls), Sees(p, k))
        /\ Cardinality(Yields(Node.kids[1], Shadowing(EnvAt(m), Node.decls), Sees(p, k))) <= 2
  <2> HIDE DEF p, k, EnvAt
  <2>1. QED  BY <1>2 DEF FunctionOK
<1>4. FunctionInv
  BY <1>1 DEF JudgedInv
<1>5. ASSUME mode = "call" PROVE functions = Sees(p, k - 1)
  <2>1. Entered(functions, FunctionsOf(p, k - 1))
    BY <1>1, <1>5 DEF EnvInv, Known
  <2>2. QED  BY <2>1, <1>4, FunctionsSeen
<1>6. ASSUME NEW msg, Throw("string", msg), FunctionInv', ~FunctionOK(p, k),
             \A j \in 1 .. Depth(stack, m) : scopes'[j] = scopes[j], Top.at > 0 => UNCHANGED scopes
      PROVE  JudgedInv'
  <2>1. Rejected(Node, EnvAt(m), stack[1].node, stack[1].at)
    BY <1>1, <1>6 DEF Rejected
  <2>2. QED  BY <2>1, <1>1, <1>6, JudgedThrow
<1>7. CASE Enter("FUNCTION") /\ Node.name \in DOMAIN functions /\ Throw("string", "repeat") /\ UNCHANGED env
  <2>1. ~FunctionOK(p, k)
    BY <1>3, <1>5, <1>7 DEF Enter
  <2>2. scopes' = scopes /\ FunctionInv'
    BY <1>4, <1>7 DEF env, FunctionInv
  <2>3. QED  BY <2>1, <2>2, <1>6, <1>7
<1>8. CASE /\ Enter("FUNCTION") /\ Node.name \notin DOMAIN functions
           /\ functions' = WithFunction(Node) /\ OpenScope(Node.kids[1])
  <2>1. scopes' = Append(scopes, Mapping(Node.decls)) /\ mode = "call"
    BY <1>8 DEF OpenScope, Enter
  <2>2. FunctionInv'
    BY <1>8 DEF FunctionInv, WithFunction
  <2>3. CASE Repeats(Node.decls) /\ Throw("string", "repeat")
    <3>1. ~FunctionOK(p, k)
      BY <2>3, <1>3
    <3>2. Top.at = 0 /\ \A j \in 1 .. Depth(stack, m) : scopes'[j] = scopes[j]
      BY <2>1, <1>2
    <3>3. ~(Top.at > 0)
      BY <3>2
    <3>4. QED  BY <3>1, <3>2, <3>3, <2>2, <2>3, <1>6
  <2>4. CASE ~Repeats(Node.decls) /\ Call(At(1), Node.kids[1])
    <3>1. Node.name \notin DOMAIN Sees(stack[1].node, stack[1].at - 1)
      BY <2>1, <1>5, <1>8
    <3>2. QED  BY <3>1, <2>1, <2>2, <2>4, ScopeOpened
  <2>5. QED  BY <2>3, <2>4, <1>8 DEF OpenScope
<1>9. CASE Resumed("FUNCTION", 1) /\ UNCHANGED functions
  <2>1. mode = "return" /\ functions' = functions /\ FunctionInv'
    BY <1>4, <1>9 DEF Resumed, FunctionInv
  <2>2. /\ result = Yields(Node.kids[1], EnvAt(m + 1), FunctionsAt)
        /\ EnvAt(m + 1) = Shadowing(EnvAt(m), Node.decls)
        /\ SoFar(Top, EnvAt(m + 1), stack[1].node, stack[1].at)
        /\ Ill \notin result
    BY <2>1, ScopeFacts
  <2>3. result = Yields(Node.kids[1], Shadowing(EnvAt(m), Node.decls), Sees(p, k))
    <3> HIDE DEF EnvAt
    <3>1. QED  BY <2>2 DEF FunctionsAt
  <2>4. ~Repeats(Node.decls) /\ Node.name \notin DOMAIN Sees(p, k - 1)
    BY <2>2, <1>1, <1>2 DEF SoFar
  <2>5. FunctionOK(p, k) <=> Node.ty \in result /\ Cardinality(result) <= 2
    <3> HIDE DEF p, k, EnvAt
    <3>1. QED  BY <2>2, <2>3, <2>4, <1>3
  <2>6. Cardinality(result) \in Nat
    BY <1>1, FewTypes DEF ShapeInv
  <2>7. CASE Cardinality(result) > 2 /\ Throw("string", "many") /\ UNCHANGED scopes
    <3>1. ~FunctionOK(p, k)
      BY <2>5, <2>6, <2>7
    <3>2. QED  BY <3>1, <2>1, <2>7, <1>6
  <2>8. CASE Node.ty \notin result /\ Throw("string", "return") /\ UNCHANGED scopes
    <3>1. ~FunctionOK(p, k)
      BY <2>5, <2>8
    <3>2. QED  BY <3>1, <2>1, <2>8, <1>6
  <2>9. CASE Cardinality(result) <= 2 /\ Node.ty \in result /\ CloseScope /\ Return({})
    <3>1. FunctionOK(p, k)
      BY <2>5, <2>9
    <3>2. \A j \in 1 .. Depth(stack, m) : scopes'[j] = scopes[j]
      BY <2>1, <2>9, ScopeClosed
    <3>3. QED  BY <3>1, <3>2, <2>1, <2>9, <1>1, <1>2, JudgedReturn
  <2>10. QED  BY <2>7, <2>8, <2>9, <1>1, <1>9 DEF TypecheckFunctionDef, Enter, Resumed
<1>10. QED  BY <1>7, <1>8, <1>9 DEF TypecheckFunctionDef

\* The program goes on to its next child with the scope of its globals open.
LEMMA ProgramGoesOn ==
  ASSUME NEW Trees, WellFormed(Trees), ShapeInv(Trees), ShapeInv(Trees)', EnvInv', JudgedInv,
         mode \in {"call", "return"}, Node.kind = "PROGRAM", UNCHANGED functions,
         scopes'[1] = Mapping(Node.decls), ~Repeats(Node.decls),
         NEW k \in DOMAIN Node.kids, Call(At(k), Node.kids[k]),
         \A j \in 1 .. k - 1 : FunctionOK(Node, j)
  PROVE  JudgedInv'
<1>1. /\ Len(stack) = 1 /\ Top = stack[1] /\ Top.node = Node /\ Node \in Trees
      /\ stack \in Seq(Frames(Trees)) /\ stack # <<>>
  BY TopFrame DEF ShapeInv
<1>2. Node.kids \in Seq(Trees)
  BY <1>1, Classes
<1>3. k \in Nat /\ k > 0 /\ Node.kids[k] \in Trees
  BY <1>2
<1>4. At(k) \in Frames(Trees) /\ At(k).node = Node /\ At(k).at = k
  BY <1>3, TopFrame
<1>5. Len(stack') = 2 /\ stack'[1] = At(k)
  <2>1. Front(stack) \in Seq(Frames(Trees)) /\ Len(Front(stack)) = 0
    BY <1>1, FrontType
  <2>2. Front(stack) = <<>>
    BY <2>1
  <2>3. stack' = Append(Append(<<>>, At(k)), Frame(Node.kids[k]))
    BY <2>2 DEF Call
  <2>4. QED  BY <2>3
<1>6. Opens(stack'[1]) /\ stack'[1].node = Node
  BY <1>4, <1>5 DEF Opens
<1>7. Depth(stack', 1) = 1
  <2>1. Depth(stack', 0) = 0
    BY DepthNext
  <2>2. Depth(stack', 0 + 1) = Depth(stack', 0) + 1
    BY <1>6, DepthNext
  <2>3. QED  BY <2>1, <2>2
<1>8. EnvAt(1)' = Visible(scopes', 1)
  BY <1>7 DEF EnvAt
<1>9. Visible(scopes', 1) = Mapping(Node.decls)
  BY VisibleFirst
<1>10. \A v \in DOMAIN Mapping(Node.decls) : Mapping(Node.decls)[v] \in Types
  <2>1. Mapping(Node.decls) \in Scopes
    BY <1>1, MappingType DEF WellFormed
  <2> DEFINE map == Mapping(Node.decls)
  <2> HIDE DEF map
  <2>2. map \in Scopes => \A v \in DOMAIN map : map[v] \in Types
    BY DEF Scopes
  <2>3. QED  BY <2>1, <2>2 DEF map
<1>11. EnvFrom(1)'
  <2> HIDE DEF EnvAt
  <2>1. QED  BY <1>6, <1>8, <1>9, <1>10 DEF EnvFrom
<1>12. SoFar(At(k), EnvAt(1)', stack[1].node, At(k).at)
  BY <1>4 DEF SoFar
<1>13. At(k).at \in Slots(Node) /\ At(k).at > 0 /\ Node.kids[k] = ChildOf(At(k))
  BY <1>3, <1>4 DEF Slots, ChildOf
<1>14. FunctionInv'
  BY DEF JudgedInv, FunctionInv
<1>15. Depth(stack, 0) = 0 /\ \A j \in 1 .. 0 : scopes'[j] = scopes[j]
  BY DepthNext
<1>16. 0 \in Nat /\ Len(stack) = 0 + 1 /\ EnvFrom(0 + 1)'
       /\ SoFar(At(k), EnvAt(0 + 1)', stack[1].node, IF 0 = 0 THEN At(k).at ELSE stack[1].at)
       /\ \A j \in 1 .. Depth(stack, 0) : scopes'[j] = scopes[j]
  <2>1. 0 + 1 = 1
    OBVIOUS
  <2> HIDE DEF EnvAt, EnvFrom, SoFar
  <2>2. EnvFrom(0 + 1)'
    BY <2>1, <1>11
  <2>3. SoFar(At(k), EnvAt(0 + 1)', stack[1].node, IF 0 = 0 THEN At(k).at ELSE stack[1].at)
    BY <2>1, <1>12
  <2>4. QED  BY <2>2, <2>3, <1>1, <1>15
<1>17. QED  BY <1>3, <1>4, <1>13, <1>14, <1>16, JudgedCall

LEMMA JudgedProgram ==
  ASSUME NEW Trees, WellFormed(Trees), Judgement(Trees), ShapeInv(Trees), ShapeInv(Trees)',
         EnvInv, EnvInv', JudgedInv, TypecheckProgram
  PROVE  JudgedInv'
<1>1. mode \in {"call", "return"} /\ Node.kind = "PROGRAM" /\ UNCHANGED functions /\ mode # "idle"
  BY DEF TypecheckProgram, Enter, Resumed
<1>2. /\ Len(stack) = 1 /\ Top = stack[1] /\ Top.node = Node /\ Node \in Trees
      /\ stack \in Seq(Frames(Trees)) /\ stack # <<>> /\ Top \in Frames(Trees)
  BY <1>1, TopFrame DEF ShapeInv
<1>3. /\ Node.kids \in Seq(Trees) /\ Len(Node.kids) \in Nat /\ Len(Node.kids) >= 1
      /\ Node.kids[Len(Node.kids)].kind \in Statements
      /\ \A k \in 1 .. Len(Node.kids) - 1 : Node.kids[k].kind = "FUNCTION"
      /\ DOMAIN Node.kids = 1 .. Len(Node.kids)
  <2>1. Node.kids \in Seq(Trees)
    BY <1>1, <1>2, Classes
  <2>2. /\ Len(Node.kids) >= 1 /\ Node.kids[Len(Node.kids)].kind \in Statements
        /\ \A k \in 1 .. Len(Node.kids) - 1 : Node.kids[k].kind = "FUNCTION"
    BY <1>1, <1>2, Classes
  <2>3. QED  BY <2>1, <2>2
<1>4. PathInv /\ Lexical(scopes, stack)
  BY <1>1 DEF EnvInv
<1>5. CASE Enter("PROGRAM") /\ scopes' = <<Mapping(Node.decls)>> /\ Repeats(Node.decls)
           /\ Throw("string", "repeat")
  <2>1. ~WellTyped(Node)
    BY <1>5 DEF WellTyped
  <2>2. Top.at = 0 /\ ~(Top.at > 0)
    BY <1>4, <1>5 DEF PathInv, Enter
  <2>3. Rejected(Node, EnvAt(0), stack[1].node, stack[1].at)
    BY <2>1, <1>1 DEF Rejected
  <2>4. Depth(stack, 0) = 0 /\ Len(stack) = 0 + 1 /\ 0 \in Nat
    BY <1>2, DepthNext
  <2>5. \A j \in 1 .. Depth(stack, 0) : scopes'[j] = scopes[j]
    BY <2>4
  <2>6. FunctionInv'
    BY <1>1 DEF JudgedInv, FunctionInv
  <2>7. QED  BY <2>2, <2>3, <2>4, <2>5, <2>6, <1>1, <1>5, JudgedThrow
<1>6. CASE Enter("PROGRAM") /\ scopes' = <<Mapping(Node.decls)>> /\ ~Repeats(Node.decls)
           /\ Call(At(1), Node.kids[1])
  <2>1. 1 \in DOMAIN Node.kids /\ scopes'[1] = Mapping(Node.decls) /\ 1 .. 1 - 1 = {}
    BY <1>3, <1>6
  <2>2. \A j \in 1 .. 1 - 1 : FunctionOK(Node, j)
    BY <2>1
  <2>3. QED  BY <2>1, <2>2, <1>1, <1>6, ProgramGoesOn
<1>7. ASSUME NEW k \in DOMAIN Node.kids, Resumed("PROGRAM", k), UNCHANGED scopes,
             IF k < Len(Node.kids) THEN Call(At(k + 1), Node.kids[k + 1])
                                   ELSE Verdict("accepted", "none")
      PROVE  JudgedInv'
  <2>1. Top.at = k /\ mode = "return" /\ k > 0 /\ k \in 1 .. Len(Node.kids)
    BY <1>3, <1>7 DEF Resumed
  <2>2. LinkInv /\ SoFarInv /\ ResultInv
    BY <2>1 DEF JudgedInv
  <2>3. SoFar(Top, EnvAt(1), stack[1].node, stack[1].at)
    BY <2>1, <2>2, <1>2 DEF SoFarInv
  <2>4. ~Repeats(Node.decls) /\ \A j \in 1 .. k - 1 : FunctionOK(Node, j)
    BY <2>1, <2>3, <1>1, <1>2 DEF SoFar
  <2>5. ChildOf(Top) = Node.kids[k]
    BY <2>1, <1>1, <1>2 DEF ChildOf
  <2>6. EnvAt(1) = Mapping(Node.decls)
    BY <2>1, <2>2, <1>2 DEF LinkInv, EnvFrom
  <2>7. CASE k < Len(Node.kids)
    <3>1. Node.kids[k].kind = "FUNCTION"
      BY <2>1, <2>7, <1>3
    <3>2. FunctionOK(Node, k)
      BY <3>1, <2>1, <2>2, <2>5 DEF ResultInv
    <3>3. k + 1 \in DOMAIN Node.kids /\ \A j \in 1 .. (k + 1) - 1 : j \in 1 .. k - 1 \/ j = k
      BY <2>1, <2>7, <1>3
    <3>4. \A j \in 1 .. (k + 1) - 1 : FunctionOK(Node, j)
      BY <3>2, <3>3, <2>4
    <3>5. scopes'[1] = Mapping(Node.decls)
      <4>1. Opens(stack[1]) /\ ScopeOf(stack[1]) = Mapping(Node.decls)
        BY <2>1, <1>1, <1>2 DEF Opens, ScopeOf
      <4>2. Depth(stack, 0) = 0 /\ Depth(stack, 0 + 1) = Depth(stack, 0) + 1
        BY <4>1, DepthNext
      <4>3. Depth(stack, 1) = 1
        BY <4>2
      <4>4. scopes[1] = Mapping(Node.decls)
        BY <4>1, <4>3, <1>2, <1>4 DEF Lexical
      <4>5. QED  BY <4>4, <1>7
    <3>6. Call(At(k + 1), Node.kids[k + 1])
      BY <2>7, <1>7
    <3>7. QED  BY <3>3, <3>4, <3>5, <3>6, <2>4, <1>1, ProgramGoesOn
  <2>8. CASE ~(k < Len(Node.kids))
    <3>1. k = Len(Node.kids) /\ Verdict("accepted", "none")
      BY <2>1, <2>8, <1>3, <1>7
    <3>2. ChildOf(Top).kind # "FUNCTION"
      BY <3>1, <2>5, <1>3 DEF Statements
    <3>3. result = Yields(Node.kids[k], EnvAt(1), FunctionsAt)
      BY <3>2, <2>1, <2>2, <2>5, <1>2 DEF ResultInv
    <3>4. FunctionsAt = Sees(Node, k)
      BY <2>1, <1>2 DEF FunctionsAt
    <3>5. Ill \notin result
      BY IllIsNoType DEF ShapeInv
    <3>6. Ill \notin Yields(Node.kids[Len(Node.kids)], Mapping(Node.decls), Sees(Node, Len(Node.kids)))
      BY <3>1, <3>3, <3>4, <3>5, <2>6
    <3>7. WellTyped(Node)
      BY <3>1, <3>6, <2>4 DEF WellTyped
    <3>8. ("accepted" = "accepted") = WellTyped(stack[1].node)
      BY <3>7, <1>2 DEF WellTyped
    <3>9. "accepted" = "terminated" => NoCast(stack[1].node)
      OBVIOUS
    <3>10. QED  BY <3>1, <3>8, <3>9, <1>1, JudgedVerdict
  <2>9. QED  BY <2>7, <2>8
<1>8. QED  BY <1>5, <1>6, <1>7, ProgramCases

-----------------------------------------------------------------------------
(* The theorem *)

LEMMA JudgedInit == ASSUME Init PROVE JudgedInv
<1>1. mode = "idle" /\ verdicts = <<>> /\ functions = NoMapping
  BY DEF Init
<1>2. DOMAIN verdicts = {}
  BY <1>1
<1>3. QED  BY <1>1, <1>2 DEF JudgedInv, VerdictIsRight, Executed, FunctionInv, NoMapping

LEMMA JudgedUnchanged == ASSUME JudgedInv, UNCHANGED vars PROVE JudgedInv'
<1>1. /\ testcases' = testcases /\ verdicts' = verdicts /\ scopes' = scopes
      /\ functions' = functions /\ stack' = stack /\ mode' = mode
      /\ result' = result /\ thrown' = thrown
  BY DEF vars, env
<1>2. VerdictIsRight' /\ FunctionInv'
  BY <1>1, VerdictsKept DEF JudgedInv, FunctionInv
<1>3. \A i : EnvAt(i)' = EnvAt(i)
  BY <1>1 DEF EnvAt
<1>4. LinkInv' <=> LinkInv
  BY <1>1 DEF LinkInv, EnvFrom, EnvAt, Top, Node
<1>5. SoFarInv' <=> SoFarInv
  BY <1>1 DEF SoFarInv, EnvAt
<1>6. ResultInv' <=> ResultInv
  BY <1>1 DEF ResultInv, EnvAt, FunctionsAt, Top, Node
<1>7. ThrowInv' <=> ThrowInv
  BY <1>1 DEF ThrowInv, EnvAt, Top, Node
<1>8. QED  BY <1>1, <1>2, <1>4, <1>5, <1>6, <1>7 DEF JudgedInv

LEMMA JudgedNext ==
  ASSUME NEW Trees, WellFormed(Trees), Judgement(Trees), ShapeInv(Trees), ShapeInv(Trees)',
         EnvInv, EnvInv', JudgedInv, Next
  PROVE  JudgedInv'
<1>1. ASSUME mode \in {"call", "return"}
      PROVE  \E m \in Nat : Len(stack) = m + 1
  <2>1. Len(stack) \in Nat \ {0}
    BY <1>1, TopFrame
  <2>2. Len(stack) - 1 \in Nat /\ Len(stack) = (Len(stack) - 1) + 1
    BY <2>1
  <2>3. QED  BY <2>2
<1>2. ASSUME mode \in {"call", "return"}, Node.kind \notin {"PROGRAM", "FUNCTION", "BLOCK"}, UNCHANGED env
      PROVE  \E m : Checking(Trees, m)
  BY <1>1, <1>2 DEF Checking
<1>3. ASSUME mode \in {"call", "return"}, Node.kind \in {"FUNCTION", "BLOCK"}
      PROVE  \E m : Scoped(Trees, m)
  BY <1>1, <1>3 DEF Scoped
<1>4. CASE TypecheckLeaf
  <2>1. \E m : Checking(Trees, m)
    BY <1>2, <1>4 DEF TypecheckLeaf, TypeOfLeaf, Enter
  <2>2. QED  BY <2>1, <1>4, JudgedLeaf
<1>5. CASE TypecheckVar
  <2>1. \E m : Checking(Trees, m)
    BY <1>2, <1>5 DEF TypecheckVar, Enter
  <2>2. QED  BY <2>1, <1>5, JudgedVar
<1>6. CASE TypecheckBinaryExpression
  <2>1. \E m : Checking(Trees, m)
    BY <1>2, <1>6 DEF TypecheckBinaryExpression, Enter, Resumed
  <2>2. QED  BY <2>1, <1>6, JudgedBinary
<1>7. CASE TypecheckFunctionCall
  <2>1. \E m : Checking(Trees, m)
    BY <1>2, <1>7 DEF TypecheckFunctionCall, Enter, Resumed
  <2>2. QED  BY <2>1, <1>7, JudgedFunctionCall
<1>8. CASE TypecheckAssignment
  <2>1. \E m : Checking(Trees, m)
    BY <1>2, <1>8 DEF TypecheckAssignment, Enter, Resumed
  <2>2. QED  BY <2>1, <1>8, JudgedAssignment
<1>9. CASE TypecheckBranch
  <2>1. \E m : Checking(Trees, m)
    BY <1>2, <1>9 DEF TypecheckBranch, Enter, Resumed
  <2>2. QED  BY <2>1, <1>9, JudgedBranch
<1>10. CASE TypecheckLoop
  <2>1. \E m : Checking(Trees, m)
    BY <1>2, <1>10 DEF TypecheckLoop, Enter, Resumed
  <2>2. QED  BY <2>1, <1>10, JudgedLoop
<1>11. CASE TypecheckSequence
  <2>1. \E m : Checking(Trees, m)
    BY <1>2, <1>11 DEF TypecheckSequence, Enter, Resumed
  <2>2. QED  BY <2>1, <1>11, JudgedSequence
<1>12. CASE TypecheckReturn
  <2>1. \E m : Checking(Trees, m)
    BY <1>2, <1>12 DEF TypecheckReturn, Enter, Resumed
  <2>2. QED  BY <2>1, <1>12, JudgedReturnStmt
<1>13. CASE TypecheckBlock
  <2>1. \E m : Scoped(Trees, m)
    BY <1>3, <1>13 DEF TypecheckBlock, Enter, Resumed
  <2>2. QED  BY <2>1, <1>13, JudgedBlock
<1>14. CASE TypecheckFunctionDef
  <2>1. \E m : Scoped(Trees, m)
    BY <1>3, <1>14 DEF TypecheckFunctionDef, Enter, Resumed
  <2>2. QED  BY <2>1, <1>14, JudgedFunctionDef
<1>15. QED
  BY <1>4, <1>5, <1>6, <1>7, <1>8, <1>9, <1>10, <1>11, <1>12, <1>13, <1>14,
     JudgedProgram, JudgedExecute, JudgedUnwind, JudgedUnchanged DEF Next, Exited

LEMMA JudgedInvariance ==
  ASSUME NEW CONSTANT Trees, WellFormed(Trees), Judgement(Trees)
  PROVE  Spec => [](ShapeInv(Trees) /\ EnvInv /\ JudgedInv)
<1>1. Init => ShapeInv(Trees) /\ EnvInv /\ JudgedInv
  BY TreesShaped, ShapeInit, JudgedInit DEF Init, EnvInv
<1>2. ShapeInv(Trees) /\ EnvInv /\ JudgedInv /\ [Next]_vars => (ShapeInv(Trees) /\ EnvInv /\ JudgedInv)'
  <2> SUFFICES ASSUME ShapeInv(Trees), EnvInv, JudgedInv, [Next]_vars
               PROVE  ShapeInv(Trees)' /\ EnvInv' /\ JudgedInv'
    OBVIOUS
  <2>1. ShapeInv(Trees)'
    BY TreesShaped, ShapeStep
  <2>2. EnvInv'
    BY TreesShaped, EnvNext
  <2>3. JudgedInv'
    BY <2>1, <2>2, JudgedNext, JudgedUnchanged
  <2>4. QED  BY <2>1, <2>2, <2>3
<1>3. QED  BY <1>1, <1>2, PTL DEF Spec


\* Whatever programs main is built with, and whatever was executed before, the
\* checker accepts exactly the programs that the typing rules call well typed:
\* short circuits, the exceptions that are caught and rethrown on the way and
\* the order of an assignment's operands never change a verdict; and the one
\* exception main does not catch needs a branch whose condition is no
\* BinaryExpression (typechecker.cc 90-379, driver.cc 581-598).
THEOREM VerdictsAreRight ==
  ASSUME NEW CONSTANT Trees, WellFormed(Trees), Judgement(Trees)
  PROVE  Spec => []VerdictIsRight
<1>1. JudgedInv => VerdictIsRight
  BY DEF JudgedInv
<1>2. QED  BY <1>1, JudgedInvariance, PTL

-----------------------------------------------------------------------------
(* The loop of main *)

\* A step gives one more verdict, the one the program has by itself, or none.
LEMMA EndsGrow ==
  ASSUME NEW Trees, ShapeInv(Trees), JudgedInv', [Next]_vars, mode # "idle" => ~Terminated
  PROVE  /\ Main!RunNext \/ UNCHANGED Main!vars
         /\ mode' # "idle" => ~Terminated'
<1> DEFINE E(vs) == [i \in DOMAIN vs |-> vs[i].end]
           next  == Len(verdicts) + 1
<1>1. CASE UNCHANGED <<testcases, verdicts>> /\ (mode = "idle" /\ mode' # "idle" => ~Terminated)
  BY <1>1 DEF Main!vars, Executed, Terminated
<1>2. ASSUME NEW end \in Ends, NEW msg, mode # "idle", Verdict(end, msg)
      PROVE  Main!RunNext /\ mode' = "idle"
  <2>1. /\ verdicts \in Seq([end : Ends, msg : Messages]) /\ Len(verdicts) \in Nat
        /\ testcases \in Seq(Roots(Trees)) /\ Len(verdicts) < Len(testcases)
    BY <1>2 DEF ShapeInv
  <2>2. /\ mode' = "idle" /\ testcases' = testcases
        /\ verdicts' = Append(verdicts, [end |-> end, msg |-> msg])
    BY <1>2 DEF Verdict
  <2>3. /\ E(verdicts) \in Seq(Ends) /\ Len(E(verdicts)) = Len(verdicts)
        /\ E(verdicts') = Append(E(verdicts), end)
    <3> DEFINE r == [end |-> end, msg |-> msg]
    <3>1. /\ E(verdicts) = [i \in 1 .. Len(verdicts) |-> verdicts[i].end]
          /\ \A i \in 1 .. Len(verdicts) : verdicts[i].end \in Ends
      <4>1. DOMAIN verdicts = 1 .. Len(verdicts)
        BY <2>1
      <4>2. \A i \in 1 .. Len(verdicts) : verdicts[i] \in [end : Ends, msg : Messages]
        <5> DEFINE V == [end : Ends, msg : Messages]
        <5>1. verdicts \in Seq(V)
          BY <2>1
        <5> HIDE DEF V
        <5>2. \A i \in 1 .. Len(verdicts) : verdicts[i] \in V
          BY <5>1
        <5>3. QED  BY <5>2 DEF V
      <4>3. QED  BY <4>1, <4>2
    <3>2. E(verdicts) \in Seq(Ends) /\ Len(E(verdicts)) = Len(verdicts)
      BY <3>1, <2>1
    <3>3. /\ DOMAIN verdicts' = 1 .. Len(verdicts) + 1
          /\ \A i \in 1 .. Len(verdicts) : verdicts'[i] = verdicts[i]
          /\ verdicts'[Len(verdicts) + 1].end = end
      BY <2>1, <2>2
    <3>4. E(verdicts') = [i \in 1 .. Len(verdicts) + 1 |-> verdicts'[i].end]
      BY <3>3
    <3>5. /\ DOMAIN Append(E(verdicts), end) = 1 .. Len(verdicts) + 1
          /\ \A i \in 1 .. Len(verdicts) : Append(E(verdicts), end)[i] = verdicts[i].end
          /\ Append(E(verdicts), end)[Len(verdicts) + 1] = end
          /\ Append(E(verdicts), end) = [i \in DOMAIN Append(E(verdicts), end) |-> Append(E(verdicts), end)[i]]
      BY <3>1, <3>2, <2>1
    <3> HIDE DEF E
    <3>6. \A i \in 1 .. Len(verdicts) + 1 : E(verdicts')[i] = Append(E(verdicts), end)[i]
      BY <3>3, <3>4, <3>5, <2>1
    <3>7. QED  BY <3>2, <3>4, <3>5, <3>6
  <2>4. verdicts'[next].end = end /\ next \in DOMAIN verdicts'
    BY <2>1, <2>2
  <2>5. /\ (end = "accepted") = WellTyped(testcases[next])
        /\ end = "terminated" =>
             \E n \in Nodes(testcases[next]) : n.kind = "BRANCH" /\ n.kids[1].kind # "BINARY"
    BY <2>2, <2>4 DEF JudgedInv, VerdictIsRight, Executed
  <2>6. end \in EndsOf(testcases[next])
    BY <2>5 DEF EndsOf, Ends
  <2>7. ~Main!Lost
    BY <1>2, <2>1, <2>3 DEF Main!Lost, Main!Last, Loses, Terminated, Executed, Last
  <2> HIDE DEF E
  <2>8. QED  BY <2>1, <2>2, <2>3, <2>6, <2>7 DEF Main!RunNext, Executed, E
<1>3. CASE Execute
  BY <1>3, <1>1 DEF Execute, Done
<1>4. CASE TypecheckProgram
  <2>1. CASE Enter("PROGRAM")
    BY <1>4, <2>1, <1>1 DEF TypecheckProgram, Enter, Throw, Call, Resumed
  <2>2. CASE mode = "return"
    <3>1. UNCHANGED <<testcases, verdicts>> \/ Verdict("accepted", "none")
      BY <1>4, <2>2 DEF TypecheckProgram, Enter, Call
    <3>2. QED  BY <3>1, <2>2, <1>1, <1>2 DEF Ends
  <2>3. QED  BY <1>4, <2>1, <2>2 DEF TypecheckProgram
<1>5. CASE Unwind
  <2>1. mode = "throw"
    BY <1>5 DEF Unwind
  <2>2. \/ UNCHANGED <<testcases, verdicts>>
        \/ \E end \in Ends : \E msg : Verdict(end, msg)
    BY <1>5 DEF Unwind, Ends
  <2>3. QED  BY <2>1, <2>2, <1>1, <1>2
<1>7. CASE TypecheckLeaf \/ TypecheckVar \/ TypecheckBinaryExpression \/ TypecheckReturn \/ TypecheckBlock
  <2>1. mode # "idle" /\ UNCHANGED <<testcases, verdicts>>
    BY <1>7 DEF TypecheckLeaf, TypecheckVar, TypecheckBinaryExpression, TypecheckReturn, TypecheckBlock,
                OpenScope, Enter, Resumed, Call, Return, Throw
  <2>2. QED  BY <2>1, <1>1
<1>8. CASE TypecheckFunctionCall \/ TypecheckAssignment \/ TypecheckBranch
  <2>1. mode # "idle" /\ UNCHANGED <<testcases, verdicts>>
    BY <1>8 DEF TypecheckFunctionCall, NextArgument, TypecheckAssignment, TypecheckBranch,
                Enter, Resumed, Call, Return, Throw
  <2>2. QED  BY <2>1, <1>1
<1>9. CASE TypecheckLoop \/ TypecheckSequence \/ TypecheckFunctionDef
  <2>1. mode # "idle" /\ UNCHANGED <<testcases, verdicts>>
    BY <1>9 DEF TypecheckLoop, TypecheckSequence, NextStatement, TypecheckFunctionDef, OpenScope,
                Enter, Resumed, Call, Return, Throw
  <2>2. QED  BY <2>1, <1>1
<1>10. CASE UNCHANGED vars
  BY <1>10, <1>1 DEF vars
<1>11. QED  BY <1>3, <1>4, <1>5, <1>7, <1>8, <1>9, <1>10 DEF Next, Exited

\* What main does not catch ends it.
Lives == mode # "idle" => ~Terminated

\* main is the loop of Batch: from one program to the next it takes nothing with
\* it but the verdicts, whatever scopes and functions a failed one has left
\* behind (driver.cc 13-24, 579-598).
THEOREM MainRunsEachProgramAlone ==
  ASSUME NEW CONSTANT Trees, WellFormed(Trees), Judgement(Trees)
  PROVE  Spec => ImplementsBatch
<1> DEFINE Inv == ShapeInv(Trees) /\ EnvInv /\ JudgedInv
<1>1. Init => Lives /\ Main!Init
  BY DEF Init, Lives, Main!Init, Executed
<1>2. Lives /\ Inv /\ Inv' /\ [Next]_vars => Lives' /\ [Main!RunNext]_(Main!vars)
  BY EndsGrow DEF Lives
<1>3. Spec => []Inv
  BY JudgedInvariance
<1> HIDE DEF Inv
<1>4. QED
  BY <1>1, <1>2, <1>3, PTL DEF Spec, ImplementsBatch, Main!Spec

-----------------------------------------------------------------------------
(* Induction over trees, by a counterexample of least height *)

\* A nonempty set of numbers has a least one.
LEMMA LeastHeight ==
  ASSUME NEW S, S \subseteq Nat, S # {}
  PROVE  \E m \in S : \A k \in S : m <= k
<1> DEFINE R == OpToRel(<, Nat)
<1>1. IsWellFoundedOn(R, Nat)
  BY NatLessThanWellFounded
<1>2. \A k, m \in Nat : ~(<<k, m>> \in R) => m <= k
  BY DEF OpToRel
<1> HIDE DEF R
<1>3. PICK m \in S : \A k \in S : ~(<<k, m>> \in R)
  BY <1>1, WFMin
<1>4. QED  BY <1>2, <1>3

\* A set that has every node whose children it has, has every tree.
LEMMA TreeInduction ==
  ASSUME NEW Trees, NEW Height, Descends(Height, Trees),
         \A n \in Trees : n.kids \in Seq(Trees),
         NEW Good,
         \A n \in Trees : (\A k \in DOMAIN n.kids : n.kids[k] \in Good) => n \in Good
  PROVE  Trees \subseteq Good
<1>1. SUFFICES ASSUME Trees \ Good # {} PROVE FALSE
  OBVIOUS
<1> DEFINE Heights == {Height[n] : n \in Trees \ Good}
<1>2. Heights \subseteq Nat /\ Heights # {}
  BY <1>1 DEF Descends
<1>3. PICK h \in Heights : \A j \in Heights : h <= j
  BY <1>2, LeastHeight
<1>4. PICK n \in Trees \ Good : h = Height[n]
  BY <1>3
<1>5. ASSUME NEW k \in DOMAIN n.kids PROVE n.kids[k] \in Good
  <2>1. n.kids[k] \in Trees
    BY <1>4
  <2>2. Height[n.kids[k]] < h /\ h \in Nat /\ Height[n.kids[k]] \in Nat
    BY <2>1, <1>4 DEF Descends
  <2>3. n.kids[k] \notin Good => h <= Height[n.kids[k]]
    BY <2>1, <1>3
  <2>4. QED  BY <2>2, <2>3
<1>6. QED  BY <1>4, <1>5

-----------------------------------------------------------------------------
(* What is accepted is closed *)

\* A call has its function and its arguments.
Fits(c, fs) ==
  c.kind = "FUNCTIONCALL" => c.name \in DOMAIN fs /\ Len(fs[c.name].params) = Len(c.kids)
Closed(n, vs, fs) == Free(n) \subseteq vs /\ \A c \in Nodes(n) : Fits(c, fs)

\* A node is closed when its children are, in what it declares for them.
LEMMA ClosedUp ==
  ASSUME NEW Trees, Judgement(Trees), NEW n \in Trees, NEW vs, NEW fs, NEW inner,
         inner \subseteq vs \cup (IF n.kind \in {"BLOCK", "FUNCTION", "PROGRAM"} THEN Declared(n.decls) ELSE {}),
         \A k \in DOMAIN n.kids : Closed(n.kids[k], inner, fs),
         n.kind \in {"VAR", "ASSIGN"} => n.name \in vs,
         Fits(n, fs)
  PROVE  Closed(n, vs, fs)
<1>1. Free(n) = ((IF n.kind \in {"VAR", "ASSIGN"} THEN {n.name} ELSE {}) \cup UNION {Free(n.kids[k]) : k \in DOMAIN n.kids})
                  \ (IF n.kind \in {"BLOCK", "FUNCTION", "PROGRAM"} THEN Declared(n.decls) ELSE {})
  BY DEF Judgement, FreeOf
<1>2. Nodes(n) = {n} \cup UNION {Nodes(n.kids[k]) : k \in DOMAIN n.kids}
  BY DEF Judgement, NodesOf
<1>3. \A k \in DOMAIN n.kids : Free(n.kids[k]) \subseteq inner /\ \A c \in Nodes(n.kids[k]) : Fits(c, fs)
  BY DEF Closed
<1>4. Free(n) \subseteq vs
  BY <1>1, <1>3
<1>5. \A c \in Nodes(n) : Fits(c, fs)
  BY <1>2, <1>3
<1>6. QED  BY <1>4, <1>5 DEF Closed

\* A scope binds what is declared, to types.
LEMMA MappingTypes ==
  ASSUME NEW decls \in Seq(Declarations)
  PROVE  /\ DOMAIN Mapping(decls) \subseteq Declared(decls)
         /\ \A v \in DOMAIN Mapping(decls) : Mapping(decls)[v] \in Types
<1>1. \A v \in DOMAIN Mapping(decls) : Mapping(decls)[v] \in Types
  BY MappingType DEF Scopes
<1>2. DOMAIN Mapping(decls) \subseteq Declared(decls)
  BY DEF Mapping, Mapped, Declared
<1>3. QED  BY <1>1, <1>2

LEMMA ShadowingTypes ==
  ASSUME NEW decls \in Seq(Declarations), NEW e, \A v \in DOMAIN e : e[v] \in Types
  PROVE  /\ \A v \in DOMAIN Shadowing(e, decls) : Shadowing(e, decls)[v] \in Types
         /\ DOMAIN Shadowing(e, decls) \subseteq DOMAIN e \cup Declared(decls)
BY MappingTypes DEF Shadowing

\* Of a node that is well typed: its own demands are met.
LEMMA OwnDemands ==
  ASSUME NEW Trees, WellFormed(Trees), Judgement(Trees), NEW n \in Trees, NEW e, NEW fs,
         n.kind \in Expressions \cup Statements, Ill \notin Yields(n, e, fs)
  PROVE  /\ n.kind \in {"VAR", "ASSIGN"} => n.name \in DOMAIN e
         /\ Fits(n, fs)
<1>1. ASSUME n.kind = "VAR" PROVE n.name \in DOMAIN e
  BY <1>1, RuleVar
<1>2. ASSUME n.kind = "ASSIGN" PROVE n.name \in DOMAIN e
  BY <1>2, RuleAssign
<1>3. ASSUME n.kind = "FUNCTIONCALL"
      PROVE  n.name \in DOMAIN fs /\ Len(fs[n.name].params) = Len(n.kids)
  BY <1>3, CallUp
<1>4. QED  BY <1>1, <1>2, <1>3 DEF Fits

\* Whatever is well typed in an environment is closed in it.
Sound(n, p, k) ==
  n.kind \in Expressions \cup Statements =>
    \A e : (\A v \in DOMAIN e : e[v] \in Types) /\ Ill \notin Yields(n, e, Sees(p, k))
             => Closed(n, DOMAIN e, Sees(p, k))

\* The rules of a node look at its children, and those of a branch at the operands
\* of its condition only: hence the children of children.
LEMMA SoundUp ==
  ASSUME NEW Trees, WellFormed(Trees), Judgement(Trees), NEW p \in Trees, NEW k \in 0 .. Len(p.kids),
         NEW n \in Trees, \A j \in DOMAIN n.kids : /\ Sound(n.kids[j], p, k)
                                                   /\ \A i \in DOMAIN n.kids[j].kids : Sound(n.kids[j].kids[i], p, k)
  PROVE  Sound(n, p, k)
<1> SUFFICES ASSUME n.kind \in Expressions \cup Statements, NEW e, \A v \in DOMAIN e : e[v] \in Types,
                    Ill \notin Yields(n, e, Sees(p, k))
             PROVE  Closed(n, DOMAIN e, Sees(p, k))
  BY DEF Sound
<1> DEFINE fs == Sees(p, k)
           inner == IF n.kind = "BLOCK" THEN Shadowing(e, n.decls) ELSE e
<1>1. n.kind \notin {"FUNCTION", "PROGRAM"} /\ n.decls \in Seq(Declarations) /\ n.kids \in Seq(Trees)
  BY DEF Expressions, Statements, WellFormed
<1>2. ASSUME NEW i \in Slots(n)
      PROVE  Ill \notin Yields(ChildOf([node |-> n, at |-> i]), inner, fs)
  <2> DEFINE f == [node |-> n, at |-> i]
  <2>1. f.node = n /\ f.at \in Slots(n)
    OBVIOUS
  <2> HIDE DEF f
  <2>2. Ill \in Yields(ChildOf(f), inner, fs) => Ill \in Yields(n, e, fs)
    BY <1>1, <2>1, RejectedUp
  <2>3. QED  BY <2>2 DEF f
<1>3. /\ \A v \in DOMAIN inner : inner[v] \in Types
      /\ DOMAIN inner \subseteq DOMAIN e \cup (IF n.kind \in {"BLOCK", "FUNCTION", "PROGRAM"} THEN Declared(n.decls) ELSE {})
  BY <1>1, ShadowingTypes
<1>4. (n.kind \in {"VAR", "ASSIGN"} => n.name \in DOMAIN e) /\ Fits(n, fs)
  BY OwnDemands
<1> HIDE DEF inner, fs
<1>5. \A m \in Trees : Sound(m, p, k) /\ m.kind \in Expressions \cup Statements /\ Ill \notin Yields(m, inner, fs)
        => Closed(m, DOMAIN inner, fs)
  BY <1>3 DEF Sound, fs
<1>6. ASSUME NEW j \in DOMAIN n.kids
      PROVE  Closed(n.kids[j], DOMAIN inner, fs)
  <2>1. n.kids[j] \in Trees /\ n.kids[j].kind \in Expressions \cup Statements
    BY <1>1, Classes
  <2>2. CASE n.kind # "BRANCH"
    <3>1. Ill \notin Yields(n.kids[j], inner, fs)
      BY <1>2, <2>2 DEF Slots, ChildOf
    <3>2. QED  BY <3>1, <2>1, <1>5
  <2>3. CASE n.kind = "BRANCH" /\ j # 1
    <3>1. j \in {2, 3}
      BY <2>3, Classes
    <3>2. j + 1 \in Slots(n) /\ ChildOf([node |-> n, at |-> j + 1]) = n.kids[j]
      BY <3>1, <2>3 DEF Slots, ChildOf
    <3>3. Ill \notin Yields(n.kids[j], inner, fs)
      BY <3>2, <1>2
    <3>4. QED  BY <3>3, <2>1, <1>5
  <2>4. CASE n.kind = "BRANCH" /\ j = 1
    <3> DEFINE c == n.kids[1]
    <3>1. c.kind = "BINARY"
      BY <2>4, Rules DEF fs
    <3>2. DOMAIN c.kids = {1, 2} /\ c.kids \in Seq(Trees) /\ c \in Trees
          /\ \A i \in {1, 2} : c.kids[i].kind \in Expressions \cup Statements
      BY <3>1, <2>1, <2>4, Classes
    <3>3. ASSUME NEW i \in {1, 2} PROVE Closed(c.kids[i], DOMAIN inner, fs)
      <4>1. i \in Slots(n) /\ ChildOf([node |-> n, at |-> i]) = c.kids[i]
        BY <2>4 DEF Slots, ChildOf
      <4>2. Ill \notin Yields(c.kids[i], inner, fs)
        BY <4>1, <1>2
      <4>3. c.kids[i] \in Trees /\ Sound(c.kids[i], p, k)
        BY <3>2, <2>4
      <4>4. QED  BY <4>2, <4>3, <3>2, <1>5
    <3>4. Fits(c, fs)
      BY <3>1 DEF Fits
    <3> HIDE DEF c
    <3>5. Closed(c, DOMAIN inner, fs)
      BY <3>1, <3>2, <3>3, <3>4, ClosedUp
    <3>6. QED  BY <3>5, <2>4 DEF c
  <2>5. QED  BY <2>2, <2>3, <2>4
<1>7. QED  BY <1>3, <1>4, <1>6, ClosedUp DEF fs

\* By induction, of every tree.
LEMMA SoundAll ==
  ASSUME NEW Trees, WellFormed(Trees), Judgement(Trees), NEW Height, Descends(Height, Trees),
         NEW p \in Trees, NEW k \in 0 .. Len(p.kids), NEW n \in Trees
  PROVE  Sound(n, p, k)
<1> DEFINE Good == {m \in Trees : Sound(m, p, k) /\ \A j \in DOMAIN m.kids : Sound(m.kids[j], p, k)}
<1>1. \A m \in Trees : m.kids \in Seq(Trees)
  BY DEF WellFormed
<1>2. ASSUME NEW m \in Trees, \A j \in DOMAIN m.kids : m.kids[j] \in Good
      PROVE  m \in Good
  <2>1. \A j \in DOMAIN m.kids : /\ Sound(m.kids[j], p, k)
                                 /\ \A i \in DOMAIN m.kids[j].kids : Sound(m.kids[j].kids[i], p, k)
    BY <1>2
  <2>2. Sound(m, p, k)
    BY <2>1, SoundUp
  <2>3. QED  BY <2>1, <2>2
<1>3. Trees \subseteq Good
  <2> HIDE DEF Good
  <2>1. QED  BY <1>1, <1>2, TreeInduction
<1>4. QED  BY <1>3

\* What a well-typed program asks of its functions and its statement.
LEMMA ChildrenClosed ==
  ASSUME NEW Trees, WellFormed(Trees), Judgement(Trees), NEW Height, Descends(Height, Trees),
         NEW p \in Trees, p.kind = "PROGRAM", WellTyped(p), NEW k \in DOMAIN p.kids
  PROVE  Closed(p.kids[k], Declared(p.decls), Sees(p, k))
<1> DEFINE e == Mapping(p.decls)
           n == p.kids[k]
           inner == Shadowing(e, n.decls)
           fs == Sees(p, k)
           vs == Declared(p.decls)
<1>1. /\ p.kids \in Seq(Trees) /\ p.decls \in Seq(Declarations) /\ k \in 1 .. Len(p.kids)
      /\ n \in Trees /\ n.decls \in Seq(Declarations) /\ Len(p.kids) \in Nat
      /\ k \in 0 .. Len(p.kids)
  BY DEF WellFormed
<1>2. DOMAIN e \subseteq vs /\ \A v \in DOMAIN e : e[v] \in Types
  BY <1>1, MappingTypes
<1>3. CASE k = Len(p.kids)
  <2>1. Ill \notin Yields(n, e, fs) /\ n.kind \in Statements
    BY <1>1, <1>3, Classes DEF WellTyped
  <2>2. Sound(n, p, k)
    BY <1>1, SoundAll
  <2> HIDE DEF n, e
  <2>3. Closed(n, DOMAIN e, fs)
    BY <2>1, <2>2, <1>2 DEF Sound
  <2>4. QED  BY <2>3, <1>2 DEF Closed, n
<1>4. CASE k # Len(p.kids)
  <2>1. n.kind = "FUNCTION" /\ FunctionOK(p, k)
    BY <1>1, <1>4, Classes DEF WellTyped
  <2>2. Ill \notin Yields(n.kids[1], inner, fs)
    BY <2>1 DEF FunctionOK
  <2>3. DOMAIN n.kids = {1} /\ n.kids[1].kind \in Statements /\ n.kids[1] \in Trees
    BY <1>1, <2>1, Classes DEF Statements
  <2>4. Sound(n.kids[1], p, k)
    BY <1>1, <2>3, SoundAll
  <2>5. /\ \A v \in DOMAIN inner : inner[v] \in Types
        /\ DOMAIN inner \subseteq vs \cup Declared(n.decls)
    <3> HIDE DEF e
    <3>1. DOMAIN inner \subseteq DOMAIN e \cup Declared(n.decls)
      BY <1>1, <1>2, ShadowingTypes
    <3>2. QED  BY <3>1, <1>1, <1>2, ShadowingTypes
  <2> HIDE DEF inner, n, vs, fs
  <2>6. Closed(n.kids[1], DOMAIN inner, fs)
    BY <2>2, <2>3, <2>4, <2>5 DEF Sound, fs
  <2>7. Fits(n, fs)
    BY <2>1 DEF Fits
  <2>8. Closed(n, vs, fs)
    BY <1>1, <2>1, <2>3, <2>5, <2>6, <2>7, ClosedUp
  <2>9. QED  BY <2>8 DEF n, vs, fs
<1>5. QED  BY <1>3, <1>4

\* A function that is seen is there, and has as many parameters as its signature.
LEMMA SeenIsThere ==
  ASSUME NEW Trees, WellFormed(Trees), NEW p \in Trees, NEW k \in 0 .. Len(p.kids),
         NEW g \in DOMAIN Sees(p, k)
  PROVE  \E f \in FunctionsOf(p, k) : f.name = g /\ Len(f.decls) = Len(Sees(p, k)[g].params)
<1> DEFINE f == CHOOSE f \in FunctionsOf(p, k) : f.name = g
<1>1. \E h \in FunctionsOf(p, k) : h.name = g
  BY DEF Sees
<1>2. f \in FunctionsOf(p, k) /\ f.name = g /\ Sees(p, k)[g] = Signature(f)
  BY <1>1 DEF Sees
<1> HIDE DEF f
<1>3. f \in Trees
  <2>1. p.kids \in Seq(Trees)
    BY DEF WellFormed
  <2>2. PICK j \in 1 .. k : f = p.kids[j]
    BY <1>2 DEF FunctionsOf
  <2>3. QED  BY <2>1, <2>2
<1>4. Len([i \in 1 .. Len(f.decls) |-> f.decls[i].ty]) = Len(f.decls)
  BY <1>3 DEF WellFormed
<1>5. QED  BY <1>2, <1>4 DEF Signature

\* ProgramsAreClosed, of one program.
ClosedProgram(p) ==
  /\ Free(p) = {}
  /\ \A k \in DOMAIN p.kids : \A c \in Nodes(p.kids[k]) : c.kind = "FUNCTIONCALL" =>
       \E f \in FunctionsOf(p, k) : f.name = c.name /\ Len(f.decls) = Len(c.kids)

\* The rules are enough for that.
LEMMA WellTypedIsClosed ==
  ASSUME NEW Trees, WellFormed(Trees), Judgement(Trees), NEW Height, Descends(Height, Trees),
         NEW p \in Trees, p.kind = "PROGRAM", WellTyped(p)
  PROVE  ClosedProgram(p)
<1>1. \A k \in DOMAIN p.kids : /\ Free(p.kids[k]) \subseteq Declared(p.decls)
                               /\ \A c \in Nodes(p.kids[k]) : Fits(c, Sees(p, k))
  BY ChildrenClosed DEF Closed
<1>2. Free(p) = {}
  <2>1. Free(p) = (UNION {Free(p.kids[k]) : k \in DOMAIN p.kids}) \ Declared(p.decls)
    BY DEF Judgement, FreeOf
  <2>2. QED  BY <2>1, <1>1
<1>3. ASSUME NEW k \in DOMAIN p.kids, NEW c \in Nodes(p.kids[k]), c.kind = "FUNCTIONCALL"
      PROVE  \E f \in FunctionsOf(p, k) : f.name = c.name /\ Len(f.decls) = Len(c.kids)
  <2>1. c.name \in DOMAIN Sees(p, k) /\ Len(Sees(p, k)[c.name].params) = Len(c.kids)
    BY <1>1, <1>3 DEF Fits
  <2>2. k \in 0 .. Len(p.kids)
    BY DEF WellFormed
  <2>3. QED  BY <2>1, <2>2, SeenIsThere
<1>4. QED  BY <1>2, <1>3 DEF ClosedProgram

\* And so is a verdict.
LEMMA AcceptedIsClosed ==
  ASSUME NEW Trees, WellFormed(Trees), Judgement(Trees), NEW Height, Descends(Height, Trees),
         ShapeInv(Trees), JudgedInv, NEW p \in Accepted
  PROVE  ClosedProgram(p)
<1>1. PICK i \in Executed : p = testcases[i] /\ verdicts[i].end = "accepted"
  BY DEF Accepted
<1>2. WellTyped(p)
  BY <1>1 DEF JudgedInv, VerdictIsRight
<1>3. p \in Roots(Trees)
  <2>1. i \in 1 .. Len(testcases)
    BY DEF ShapeInv, Executed
  <2>2. QED  BY <1>1, <2>1 DEF ShapeInv
<1>4. QED  BY <1>2, <1>3, WellTypedIsClosed DEF Roots

\* Whatever programs main is built with, one that is accepted uses no variable
\* that is not declared around it, and calls no function that is not defined
\* before the call or is the caller, or with another number of arguments, however
\* deep in its blocks, branches and conditions (typechecker.cc 65-74, 210-236,
\* 271-284, 311-377).
THEOREM AcceptedProgramsAreClosed ==
  ASSUME NEW CONSTANT Trees, WellFormed(Trees), Judgement(Trees),
         NEW CONSTANT Height, Descends(Height, Trees)
  PROVE  Spec => []ProgramsAreClosed
<1>1. ShapeInv(Trees) /\ EnvInv /\ JudgedInv => ProgramsAreClosed
  BY AcceptedIsClosed DEF ProgramsAreClosed, ClosedProgram
<1>2. QED  BY <1>1, JudgedInvariance, PTL

-----------------------------------------------------------------------------
(* The rules determine the judgement *)

\* Of a finite tree the rules leave nothing open: whatever operator satisfies
\* them gives the types that Yields gives, in every environment. What the other
\* theorems say of the verdicts they say of one judgement (typechecker.cc 170-332).
THEOREM RulesDetermineTheTypes ==
  ASSUME NEW Trees, WellFormed(Trees), Judgement(Trees), NEW Height, Descends(Height, Trees),
         NEW Y(_, _, _),
         \A n \in Trees : n.kind \in Expressions \cup Statements =>
           \A e, fs : Y(n, e, fs) = YieldsOf(Y, n, e, fs)
  PROVE  \A n \in Trees : n.kind \in Expressions \cup Statements =>
           \A e, fs : Y(n, e, fs) = Yields(n, e, fs)
<1> DEFINE Same(n) == n.kind \in Expressions \cup Statements =>
                        \A e, fs : Y(n, e, fs) = Yields(n, e, fs)
           Good == {n \in Trees : Same(n) /\ \A j \in DOMAIN n.kids : Same(n.kids[j])}
<1>1. ASSUME NEW n \in Trees, \A j \in DOMAIN n.kids : n.kids[j] \in Good,
             n.kind \in Expressions \cup Statements, NEW e, NEW fs
      PROVE  Y(n, e, fs) = Yields(n, e, fs)
  <2>1. Y(n, e, fs) = YieldsOf(Y, n, e, fs) /\ Yields(n, e, fs) = YieldsOf(Yields, n, e, fs)
    BY <1>1 DEF Judgement
  <2>2. \A j \in DOMAIN n.kids : n.kids[j] \in Trees /\ \A d : Y(n.kids[j], d, fs) = Yields(n.kids[j], d, fs)
    <3>1. \A j \in DOMAIN n.kids : n.kids[j] \in Trees /\ n.kids[j].kind \in Expressions \cup Statements
      BY <1>1, Classes DEF Expressions, Statements
    <3>2. QED  BY <3>1, <1>1
  <2>3. ASSUME n.kind = "BRANCH", n.kids[1].kind = "BINARY"
        PROVE  \A i \in {1, 2} : Y(n.kids[1].kids[i], e, fs) = Yields(n.kids[1].kids[i], e, fs)
    <3>1. 1 \in DOMAIN n.kids /\ n.kids[1] \in Trees
      BY <2>2, <2>3, Classes
    <3>2. /\ DOMAIN n.kids[1].kids = {1, 2}
          /\ \A i \in {1, 2} : n.kids[1].kids[i].kind \in Expressions \cup Statements
      BY <3>1, <2>3, Classes
    <3>3. \A i \in DOMAIN n.kids[1].kids : Same(n.kids[1].kids[i])
      BY <3>1, <1>1
    <3>4. QED  BY <3>2, <3>3
  <2>4. CASE n.kind \in {"NUM", "EMPTY", "SKIP", "VAR"}
    BY <2>1, <2>4 DEF YieldsOf
  <2>5. CASE n.kind \in {"BINARY", "FUNCTIONCALL", "SEQUENCE"}
    BY <2>1, <2>2, <2>5 DEF YieldsOf
  <2>6. CASE n.kind \in {"ASSIGN", "RETURN", "BLOCK"}
    <3>1. 1 \in DOMAIN n.kids
      BY <1>1, <2>6, Classes
    <3>2. QED  BY <2>1, <2>2, <2>6, <3>1 DEF YieldsOf
  <2>7. CASE n.kind = "LOOP"
    <3>1. DOMAIN n.kids = {1, 2}
      BY <1>1, <2>7, Classes
    <3>2. QED  BY <2>1, <2>2, <2>7, <3>1 DEF YieldsOf
  <2>8. CASE n.kind = "BRANCH"
    <3>1. DOMAIN n.kids = {1, 2, 3}
      BY <1>1, <2>8, Classes
    <3>2. QED  BY <2>1, <2>2, <2>3, <2>8, <3>1 DEF YieldsOf
  <2>9. QED  BY <1>1, <2>4, <2>5, <2>6, <2>7, <2>8 DEF Expressions, Statements
<1>2. ASSUME NEW n \in Trees, \A j \in DOMAIN n.kids : n.kids[j] \in Good
      PROVE  n \in Good
  BY <1>1, <1>2
<1>3. \A n \in Trees : n.kids \in Seq(Trees)
  BY DEF WellFormed
<1>4. Trees \subseteq Good
  <2> HIDE DEF Good
  <2>1. QED  BY <1>2, <1>3, TreeInduction
<1>5. QED  BY <1>4
=============================================================================
