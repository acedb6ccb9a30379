----------------------------- MODULE YogProofs -----------------------------
(***************************************************************************)
(* Proofs about main: the theorems about the analyser (SemanterProofs and  *)
(* TranslationProofs) and about the interpreter (InterpreterProofs) put    *)
(* together.  What one gives is what the other needs, and main lets        *)
(* nothing else through.  With them yog is shown to implement the meaning  *)
(* of the source program: the code is a translation of the tree, and the   *)
(* interpreter's way through a translation is the way of the source.       *)
(***************************************************************************)
EXTENDS YogProps, SequenceTheorems, WellFoundedInduction, TLAPS

-----------------------------------------------------------------------------
(* The order of the numbers is well-founded, *)
LEMMA NatOrder ==
  \E R : IsWellFoundedOn(R, Nat) /\ \A x, y \in Nat : x < y => <<x, y>> \in R
<1>1. \A x, y \in Nat : x < y => <<x, y>> \in OpToRel(<, Nat)
  BY DEF OpToRel
<1> QED
  BY <1>1, NatLessThanWellFounded

(* which gives induction, without an operator: from the smaller numbers to  *)
(* the greater,                                                             *)
LEMMA FromBelow ==
  ASSUME NEW Bad, Bad \subseteq Nat,
         \A n \in Nat : (\A m \in 0..(n - 1) : m \notin Bad) => n \notin Bad
  PROVE  Bad = {}
<1> SUFFICES ASSUME Bad # {} PROVE FALSE
  OBVIOUS
<1>1. PICK R : IsWellFoundedOn(R, Nat) /\ \A x, y \in Nat : x < y => <<x, y>> \in R
  BY NatOrder
<1>2. PICK n \in Bad : \A m \in Bad : ~ (<<m, n>> \in R)
  <2>1. IsWellFoundedOn(R, Nat)
    BY <1>1
  <2> QED
    BY <2>1, WFMin
<1>3. n \in Nat /\ \A m \in 0..(n - 1) : m \notin Bad
  <2>1. n \in Nat
    OBVIOUS
  <2>2. ASSUME NEW m \in 0..(n - 1)
        PROVE  m \notin Bad
    <3>1. m \in Nat /\ m < n
      BY <2>1
    <3>2. <<m, n>> \in R
      BY <1>1, <2>1, <3>1, Zenon
    <3> QED
      BY <1>2, <3>2
  <2> QED
    BY <2>1, <2>2
<1> QED
  BY <1>3

(* and from the greater ones down. *)
LEMMA FromAbove ==
  ASSUME NEW k \in Nat, NEW Bad, Bad \subseteq 1..k,
         \A n \in 1..k : (\A m \in (n + 1)..k : m \notin Bad) => n \notin Bad
  PROVE  Bad = {}
<1> DEFINE Down == {k - n : n \in Bad}
<1>1. Down \subseteq Nat
  OBVIOUS
<1>2. ASSUME NEW d \in Nat, \A m \in 0..(d - 1) : m \notin Down
      PROVE  d \notin Down
  <2> SUFFICES ASSUME NEW n \in Bad, d = k - n
               PROVE  FALSE
    OBVIOUS
  <2>1. n \in 1..k
    OBVIOUS
  <2>2. ASSUME NEW m \in (n + 1)..k, m \in Bad
        PROVE  FALSE
    <3>1. k - m \in Down
      BY <2>2
    <3>2. k - m \in 0..(d - 1)
      BY <2>1
    <3> QED
      BY <1>2, <3>1, <3>2
  <2> QED
    BY <2>1, <2>2
<1>3. Down = {}
  <2> HIDE DEF Down
  <2> QED
    BY <1>1, <1>2, FromBelow
<1>4. \A n \in Bad : k - n \in Down
  OBVIOUS
<1> QED
  BY <1>3, <1>4

(* A recursion over 0..k: from a start a, with the steps s. *)
Runs(u, k, a, s) ==
  /\ DOMAIN u = 0..k /\ u[0] = a
  /\ \A i \in 1..k : u[i] = s[<<i, u[i - 1]>>]

(* There is a sequence of values that follows a recursion. *)
LEMMA RunsExist ==
  ASSUME NEW k \in Nat, NEW V, NEW a \in V, NEW s \in [(1..k) \X V -> V]
  PROVE  \E u \in [0..k -> V] : Runs(u, k, a, s)
<1> DEFINE Good(n, u) == /\ u[0] = a
                         /\ \A i \in 1..n : i <= k => u[i] = s[<<i, u[i - 1]>>]
           Bad == {n \in Nat : ~ \E u \in [0..k -> V] : Good(n, u)}
<1>1. ASSUME NEW n \in Nat, \A m \in 0..(n - 1) : m \notin Bad
      PROVE  n \notin Bad
  <2>1. CASE n = 0
    <3> DEFINE u == [i \in 0..k |-> a]
    <3>1. u \in [0..k -> V] /\ Good(n, u)
      BY <2>1
    <3> QED
      BY <3>1
  <2>2. CASE n # 0
    <3>1. n - 1 \in 0..(n - 1) /\ n - 1 \in Nat
      BY <2>2
    <3>2. PICK u \in [0..k -> V] : Good(n - 1, u)
      BY <1>1, <3>1
    <3>3. CASE n > k
      <4>1. Good(n, u)
        BY <3>2, <3>3, <2>2
      <4> QED
        BY <4>1
    <3>4. CASE n <= k
      <4> DEFINE w == [u EXCEPT ![n] = s[<<n, u[n - 1]>>]]
      <4>1. n \in 1..k /\ n \in 0..k /\ n - 1 \in 0..k
        BY <2>2, <3>4
      <4>2. u[n - 1] \in V /\ <<n, u[n - 1]>> \in (1..k) \X V
        BY <4>1
      <4>3. s[<<n, u[n - 1]>>] \in V
        BY <4>2
      <4>4. w \in [0..k -> V] /\ w[n] = s[<<n, u[n - 1]>>]
            /\ \A i \in 0..k : i # n => w[i] = u[i]
        BY <4>1, <4>3
      <4> HIDE DEF w
      <4>5. Good(n, w)
        <5>1. w[0] = a
          BY <4>4, <3>2, <2>2
        <5>2. ASSUME NEW i \in 1..n, i <= k
              PROVE  w[i] = s[<<i, w[i - 1]>>]
          <6>1. i - 1 \in 0..k /\ i - 1 # n /\ i \in 0..k
            BY <5>2
          <6>2. w[i - 1] = u[i - 1]
            BY <4>4, <6>1
          <6>3. CASE i = n
            BY <4>4, <6>2, <6>3
          <6>4. CASE i # n
            <7>1. i \in 1..(n - 1)
              BY <6>4
            <7>2. u[i] = s[<<i, u[i - 1]>>]
              BY <7>1, <3>2, <5>2
            <7>3. w[i] = u[i]
              BY <4>4, <6>1, <6>4
            <7> QED
              BY <6>2, <7>2, <7>3
          <6> QED
            BY <6>3, <6>4
        <5> QED
          BY <5>1, <5>2
      <4> QED
        BY <4>4, <4>5
    <3> QED
      BY <3>3, <3>4
  <2> QED
    BY <2>1, <2>2
<1>2. Bad = {}
  <2>1. Bad \subseteq Nat
    OBVIOUS
  <2> HIDE DEF Bad
  <2> QED
    BY <1>1, <2>1, FromBelow
<1>3. PICK u \in [0..k -> V] : Good(k, u)
  BY <1>2
<1>4. Runs(u, k, a, s)
  BY <1>3 DEF Runs
<1> QED
  BY <1>4

(* There is no other. *)
LEMMA RunsOne ==
  ASSUME NEW k \in Nat, NEW a, NEW s, NEW u, NEW w, Runs(u, k, a, s), Runs(w, k, a, s)
  PROVE  \A i \in 0..k : u[i] = w[i]
<1> DEFINE Bad == {i \in Nat : i \in 0..k /\ u[i] # w[i]}
<1>1. ASSUME NEW n \in Nat, \A m \in 0..(n - 1) : m \notin Bad
      PROVE  n \notin Bad
  <2> SUFFICES ASSUME n \in 0..k PROVE u[n] = w[n]
    OBVIOUS
  <2>1. CASE n = 0
    BY <2>1 DEF Runs
  <2>2. CASE n # 0
    <3>1. n - 1 \in 0..(n - 1) /\ n - 1 \in 0..k /\ n \in 1..k /\ n - 1 \in Nat
      BY <2>2
    <3>2. u[n - 1] = w[n - 1]
      BY <1>1, <3>1
    <3> QED
      BY <3>1, <3>2 DEF Runs
  <2> QED
    BY <2>1, <2>2
<1>2. Bad = {}
  <2>1. Bad \subseteq Nat
    OBVIOUS
  <2> HIDE DEF Bad
  <2> QED
    BY <1>1, <2>1, FromBelow
<1> QED
  BY <1>2

(* A recursion over 1..k from above: what it says at n, it says from the    *)
(* values at the greater places.                                           *)
LooksAbove(g, k, V) ==
  /\ g \in [[1..k -> V] \X (1..k) -> V]
  /\ \A e, f \in [1..k -> V] : \A n \in 1..k :
       (\A m \in (n + 1)..k : e[m] = f[m]) => g[<<e, n>>] = g[<<f, n>>]

Solved(g, k, V) == \E f \in [1..k -> V] : \A n \in 1..k : f[n] = g[<<f, n>>]

(* There are values that follow it. *)
LEMMA Descend ==
  ASSUME NEW k \in Nat, NEW V, V # {}, NEW g, LooksAbove(g, k, V)
  PROVE  Solved(g, k, V)
<1> USE DEF LooksAbove
<1> DEFINE Good(d, f) == \A n \in 1..k : n > k - d => f[n] = g[<<f, n>>]
           Bad == {d \in Nat : ~ \E f \in [1..k -> V] : Good(d, f)}
<1>1. ASSUME NEW d \in Nat, \A m \in 0..(d - 1) : m \notin Bad
      PROVE  d \notin Bad
  <2>1. CASE d = 0
    <3>1. PICK v \in V : TRUE
      OBVIOUS
    <3> DEFINE f == [n \in 1..k |-> v]
    <3>2. f \in [1..k -> V] /\ Good(d, f)
      BY <2>1
    <3> QED
      BY <3>2
  <2>2. CASE d # 0
    <3>1. d - 1 \in 0..(d - 1) /\ d - 1 \in Nat
      BY <2>2
    <3>2. PICK f \in [1..k -> V] : Good(d - 1, f)
      BY <1>1, <3>1
    <3>3. CASE d > k
      <4>1. Good(d, f)
        <5> SUFFICES ASSUME NEW n \in 1..k PROVE f[n] = g[<<f, n>>]
          OBVIOUS
        <5>1. n > k - (d - 1)
          BY <3>3
        <5> QED
          BY <3>2, <5>1
      <4> QED
        BY <4>1
    <3>4. CASE d <= k
      <4> DEFINE p == k - d + 1
                 h == [f EXCEPT ![p] = g[<<f, p>>]]
      <4>1. p \in 1..k
        BY <2>2, <3>4
      <4>2. g[<<f, p>>] \in V
        <5>1. <<f, p>> \in [1..k -> V] \X (1..k)
          BY <4>1
        <5> QED
          BY <5>1
      <4> HIDE DEF p
      <4>3. h \in [1..k -> V] /\ h[p] = g[<<f, p>>]
            /\ \A n \in 1..k : n # p => h[n] = f[n]
        BY <4>1, <4>2
      <4> HIDE DEF h
      <4>4. ASSUME NEW n \in 1..k, n >= p
            PROVE  g[<<h, n>>] = g[<<f, n>>]
        <5>1. \A m \in (n + 1)..k : h[m] = f[m]
          BY <4>1, <4>3, <4>4
        <5>2. f \in [1..k -> V] /\ h \in [1..k -> V]
          BY <4>3
        <5> HIDE DEF Good, Bad
        <5> QED
          BY <5>1, <5>2
      <4>5. Good(d, h)
        <5> SUFFICES ASSUME NEW n \in 1..k, n > k - d
                     PROVE  h[n] = g[<<h, n>>]
          OBVIOUS
        <5>1. n >= p /\ (n # p => n > k - (d - 1))
          BY <2>2, <3>4 DEF p
        <5>2. g[<<h, n>>] = g[<<f, n>>]
          BY <4>4, <5>1
        <5>3. CASE n = p
          BY <4>3, <5>2, <5>3
        <5>4. CASE n # p
          <6>1. f[n] = g[<<f, n>>]
            BY <3>2, <5>1, <5>4
          <6> QED
            BY <4>3, <5>2, <5>4, <6>1
        <5> QED
          BY <5>3, <5>4
      <4> QED
        BY <4>3, <4>5
    <3> HIDE DEF Bad
    <3> QED
      BY <3>3, <3>4
  <2> QED
    BY <2>1, <2>2
<1>2. Bad = {}
  <2>1. Bad \subseteq Nat
    OBVIOUS
  <2> HIDE DEF Bad
  <2> QED
    BY <1>1, <2>1, FromBelow
<1>3. PICK f \in [1..k -> V] : Good(k, f)
  BY <1>2
<1>4. \A n \in 1..k : n > k - k
  OBVIOUS
<1>5. \A n \in 1..k : f[n] = g[<<f, n>>]
  BY <1>3, <1>4
<1> QED
  BY <1>5 DEF Solved

-----------------------------------------------------------------------------
(* The tree, as the analyser finds it. *)
Arity(n) == Len(nodes[n].children)
Type(n, i) == nodes[n].children[i].type
Attr(n, i) == nodes[n].children[i].attr
Sub(n, i) == nodes[n].children[i].at

(* Child i of node n is a node of kind nt. *)
HasSub(n, i, nt) ==
  /\ i \in 1..Arity(n) /\ Type(n, i) = nt
  /\ Sub(n, i) \in DOMAIN nodes /\ Sub(n, i) > n /\ nodes[Sub(n, i)].nt = nt

(* Child i is a token of one of these types. *)
HasToken(n, i, types) == i \in 1..Arity(n) /\ Type(n, i) \in types

(* What is assumed of the trees. *)
LEMMA TreesFit ==
  \A t \in Trees : t \in Seq(Node) /\ Analysable(t) /\ Orderly(t)
BY YogAssumption
   DEF Analyser!SemanterAssumption, Analyser!Node, Node, Analyser!Analysable,
       Analysable, Analyser!NonTerminals, NonTerminals, Analyser!Child, Child,
       Analyser!Readable, Readable, Analyser!Follows, Follows,
       Analyser!TokenTypes, TokenTypes, Analyser!Attrs, Attrs, Analyser!Kinds,
       Kinds, Analyser!Has, Has, Analyser!VariablesReadable, VariablesReadable,
       Analyser!Statements, Statements, Analyser!RelOps, RelOps,
       Analyser!ChainReadable, ChainReadable, Analyser!FactorReadable,
       FactorReadable, Analyser!Orderly, Orderly, Analyser!NamedAt, NamedAt,
       Analyser!VisitedAt, VisitedAt, Analyser!Named, Named,
       Analyser!Subtrees, Subtrees, Analyser!NamesIn, NamesIn

(* Every node has a number, a kind and children. *)
LEMMA NodeFacts ==
  ASSUME nodes \in Trees
  PROVE  /\ Len(nodes) \in Nat /\ DOMAIN nodes = 1..Len(nodes)
         /\ nodes \in Seq(Node) /\ 1 \in DOMAIN nodes /\ nodes[1].nt = "source"
         /\ \A n \in DOMAIN nodes :
              /\ n \in Nat /\ nodes[n].nt \in NonTerminals
              /\ nodes[n] \in Node /\ Readable(nodes[n])
              /\ nodes[n].children \in Seq(Child)
              /\ Arity(n) \in Nat /\ DOMAIN nodes[n].children = 1..Arity(n)
<1>1. nodes \in Seq(Node) /\ Analysable(nodes)
  BY TreesFit
<1>2. DOMAIN nodes = 1..Len(nodes) /\ Len(nodes) \in Nat
  BY <1>1, LenProperties
<1>3. \A n \in DOMAIN nodes : nodes[n] \in Node
  BY <1>1, <1>2, ElementOfSeq
<1>4. \A n \in DOMAIN nodes :
        /\ nodes[n].nt \in NonTerminals /\ nodes[n].children \in Seq(Child)
        /\ Readable(nodes[n])
  BY <1>1, <1>3 DEF Node, Analysable
<1>5. \A n \in DOMAIN nodes :
        Arity(n) \in Nat /\ DOMAIN nodes[n].children = 1..Arity(n)
  BY <1>4, LenProperties DEF Arity
<1>6. nodes # << >> /\ nodes[1].nt = "source"
  BY <1>1 DEF Analysable
<1>7. 1 \in DOMAIN nodes
  BY <1>1, <1>2, <1>6, EmptySeq
<1> QED
  BY <1>1, <1>2, <1>3, <1>4, <1>5, <1>6, <1>7

(* A child is what its parent takes it for. *)
LEMMA KidFacts ==
  ASSUME nodes \in Trees, NEW n \in DOMAIN nodes, NEW i \in 1..Arity(n)
  PROVE  Follows(nodes, nodes[n].nt, nodes[n].children[i])
<1>1. Analysable(nodes) /\ i \in DOMAIN nodes[n].children
  BY TreesFit, NodeFacts
<1> QED
  BY <1>1 DEF Analysable

(* A nonterminal child is a node behind its parent. *)
LEMMA SubFacts ==
  ASSUME nodes \in Trees, NEW n \in DOMAIN nodes, NEW i \in 1..Arity(n),
         Type(n, i) \in NonTerminals
  PROVE  HasSub(n, i, Type(n, i))
<1>1. Sub(n, i) \in DOMAIN nodes /\ nodes[Sub(n, i)].nt = Type(n, i)
  BY KidFacts DEF Follows, Sub, Type
<1>2. PICK p : p = <<n, i>>
  OBVIOUS
<1>3. p \in Subtrees(nodes)
  <2>1. i \in DOMAIN nodes[n].children
    BY NodeFacts
  <2>2. p \in {n} \X DOMAIN nodes[n].children /\ p[1] = n /\ p[2] = i
    BY <1>2, <2>1
  <2> QED
    BY <2>2 DEF Subtrees, Type
<1>4. nodes[p[1]].children[p[2]].at > p[1]
  BY <1>3, TreesFit DEF Orderly
<1> QED
  BY <1>1, <1>2, <1>4 DEF HasSub, Sub

(* What every kind of node has at which place. *)
Shaped(n) ==
  /\ nodes[n].nt = "source" =>
       HasSub(n, 2, "variables") /\ HasSub(n, 4, "statements")
  /\ nodes[n].nt = "statements" =>
       \A i \in 1..Arity(n) : Type(n, i) \in Statements /\ HasSub(n, i, Type(n, i))
  /\ nodes[n].nt = "assign" =>
       HasToken(n, 1, {"IDENTIFIER"}) /\ HasSub(n, 3, "expression")
  /\ nodes[n].nt = "input" => HasToken(n, 2, {"IDENTIFIER"})
  /\ nodes[n].nt = "output" => HasSub(n, 2, "expression")
  /\ nodes[n].nt = "branch" =>
       /\ HasSub(n, 3, "condition")
       /\ HasSub(n, 6, "statements") /\ HasSub(n, 8, "statements")
  /\ nodes[n].nt = "loop" =>
       HasSub(n, 3, "condition") /\ HasSub(n, 6, "statements")
  /\ nodes[n].nt = "repeat" =>
       HasSub(n, 2, "statements") /\ HasSub(n, 5, "condition")
  /\ nodes[n].nt = "condition" =>
       /\ HasSub(n, 1, "expression") /\ HasToken(n, 2, RelOps)
       /\ HasSub(n, 3, "expression")

(* What every kind of operand has. *)
ChainShaped(n, operand, operators) ==
  /\ Arity(n) % 2 = 1
  /\ \A i \in 1..Arity(n) : IF i % 2 = 1 THEN HasSub(n, i, operand)
                            ELSE HasToken(n, i, operators)

Composed(n) ==
  /\ nodes[n].nt = "expression" => ChainShaped(n, "term", {"PLUS", "MINUS"})
  /\ nodes[n].nt = "term" => ChainShaped(n, "factor", {"MUL", "DIV"})
  /\ nodes[n].nt = "factor" =>
       /\ HasToken(n, 1, {"LITERAL", "IDENTIFIER", "PLUS", "MINUS", "LPAREN"})
       /\ Type(n, 1) \in {"PLUS", "MINUS"} => HasSub(n, 2, "factor")
       /\ Type(n, 1) = "LPAREN" => HasSub(n, 2, "expression")

(* What Readable says of a place is so. *)
LEMMA PlaceFacts ==
  ASSUME nodes \in Trees, NEW n \in DOMAIN nodes, NEW i \in Nat, NEW types,
         Has(Kinds(nodes[n]), i, types)
  PROVE  /\ HasToken(n, i, types)
         /\ \A nt \in NonTerminals : types = {nt} => HasSub(n, i, nt)
<1>1. Kinds(nodes[n]) = [k \in 1..Arity(n) |-> Type(n, k)]
  BY DEF Kinds, Arity, Type
<1>2. i \in 1..Arity(n) /\ Type(n, i) \in types
  BY <1>1 DEF Has
<1> QED
  BY <1>2, SubFacts DEF HasToken

(* The statements, *)
LEMMA ShapeFacts ==
  ASSUME nodes \in Trees, NEW n \in DOMAIN nodes
  PROVE  Shaped(n)
<1>1. /\ Readable(nodes[n]) /\ DOMAIN nodes[n].children = 1..Arity(n)
      /\ Arity(n) \in Nat
  BY NodeFacts
<1>2. \A i \in Nat : \A types : Has(Kinds(nodes[n]), i, types) =>
        /\ HasToken(n, i, types)
        /\ \A nt \in NonTerminals : types = {nt} => HasSub(n, i, nt)
  BY PlaceFacts
<1>3. {"variables", "statements", "expression", "condition"} \subseteq NonTerminals
      /\ Statements \subseteq NonTerminals
  BY DEF NonTerminals, Statements
<1>4. \A i \in Nat : \A nt \in {"variables", "statements", "expression", "condition"} :
        Has(Kinds(nodes[n]), i, {nt}) => HasSub(n, i, nt)
  BY <1>2, <1>3
<1>5. ASSUME nodes[n].nt = "statements"
      PROVE  \A i \in 1..Arity(n) : Type(n, i) \in Statements /\ HasSub(n, i, Type(n, i))
  <2>1. Kinds(nodes[n]) = [i \in 1..Arity(n) |-> Type(n, i)]
    BY DEF Kinds, Arity, Type
  <2>2. \A i \in 1..Arity(n) : Type(n, i) \in Statements
    BY <1>1, <1>5, <2>1 DEF Readable
  <2> QED
    BY <1>3, <2>2, SubFacts
<1>6. nodes[n].nt = "source" => HasSub(n, 2, "variables") /\ HasSub(n, 4, "statements")
  BY <1>1, <1>4 DEF Readable
<1>7. nodes[n].nt = "assign" =>
        HasToken(n, 1, {"IDENTIFIER"}) /\ HasSub(n, 3, "expression")
  BY <1>1, <1>2, <1>4 DEF Readable
<1>8. /\ nodes[n].nt = "input" => HasToken(n, 2, {"IDENTIFIER"})
      /\ nodes[n].nt = "output" => HasSub(n, 2, "expression")
  BY <1>1, <1>2, <1>4 DEF Readable
<1>9. nodes[n].nt = "branch" =>
        /\ HasSub(n, 3, "condition")
        /\ HasSub(n, 6, "statements") /\ HasSub(n, 8, "statements")
  BY <1>1, <1>4 DEF Readable
<1>10. /\ nodes[n].nt = "loop" =>
            HasSub(n, 3, "condition") /\ HasSub(n, 6, "statements")
       /\ nodes[n].nt = "repeat" =>
            HasSub(n, 2, "statements") /\ HasSub(n, 5, "condition")
  BY <1>1, <1>4 DEF Readable
<1>11. nodes[n].nt = "condition" =>
         /\ HasSub(n, 1, "expression") /\ HasToken(n, 2, RelOps)
         /\ HasSub(n, 3, "expression")
  BY <1>1, <1>2, <1>4 DEF Readable
<1> QED
  BY <1>5, <1>6, <1>7, <1>8, <1>9, <1>10, <1>11 DEF Shaped

(* a chain, *)
LEMMA ChainFacts ==
  ASSUME nodes \in Trees, NEW n \in DOMAIN nodes, NEW operand \in NonTerminals,
         NEW operators, ChainReadable(Kinds(nodes[n]), operand, operators)
  PROVE  ChainShaped(n, operand, operators)
<1>1. Arity(n) \in Nat
  BY NodeFacts
<1>2. /\ Kinds(nodes[n]) = [i \in 1..Arity(n) |-> Type(n, i)]
      /\ Len(Kinds(nodes[n])) = Arity(n)
  BY <1>1 DEF Kinds, Arity, Type
<1>3. Arity(n) % 2 = 1
  BY <1>2 DEF ChainReadable
<1>4. \A i \in 1..Arity(n) : Type(n, i) \in IF i % 2 = 1 THEN {operand} ELSE operators
  BY <1>2 DEF ChainReadable
<1>5. ASSUME NEW i \in 1..Arity(n)
      PROVE  IF i % 2 = 1 THEN HasSub(n, i, operand) ELSE HasToken(n, i, operators)
  BY <1>4, SubFacts DEF HasToken
<1> QED
  BY <1>3, <1>5 DEF ChainShaped

(* and the operands. *)
LEMMA ComposedFacts ==
  ASSUME nodes \in Trees, NEW n \in DOMAIN nodes
  PROVE  Composed(n)
<1>1. Readable(nodes[n])
  BY NodeFacts
<1>2. {"term", "factor", "expression"} \subseteq NonTerminals
  BY DEF NonTerminals
<1>3. nodes[n].nt = "expression" => ChainShaped(n, "term", {"PLUS", "MINUS"})
  BY <1>1, <1>2, ChainFacts DEF Readable
<1>4. nodes[n].nt = "term" => ChainShaped(n, "factor", {"MUL", "DIV"})
  BY <1>1, <1>2, ChainFacts DEF Readable
<1>5. ASSUME nodes[n].nt = "factor"
      PROVE  /\ HasToken(n, 1, {"LITERAL", "IDENTIFIER", "PLUS", "MINUS", "LPAREN"})
             /\ Type(n, 1) \in {"PLUS", "MINUS"} => HasSub(n, 2, "factor")
             /\ Type(n, 1) = "LPAREN" => HasSub(n, 2, "expression")
  <2>1. FactorReadable(Kinds(nodes[n]))
    BY <1>1, <1>5 DEF Readable
  <2>2. \A i \in Nat : \A types : Has(Kinds(nodes[n]), i, types) =>
          /\ HasToken(n, i, types)
          /\ \A nt \in NonTerminals : types = {nt} => HasSub(n, i, nt)
    BY PlaceFacts
  <2>3. CASE Has(Kinds(nodes[n]), 1, {"LITERAL", "IDENTIFIER"})
    BY <2>2, <2>3 DEF HasToken
  <2>4. CASE Has(Kinds(nodes[n]), 1, {"PLUS", "MINUS"})
             /\ Has(Kinds(nodes[n]), 2, {"factor"})
    <3>1. HasToken(n, 1, {"PLUS", "MINUS"}) /\ HasSub(n, 2, "factor")
      BY <1>2, <2>2, <2>4
    <3> QED
      BY <3>1 DEF HasToken
  <2>5. CASE Has(Kinds(nodes[n]), 1, {"LPAREN"})
             /\ Has(Kinds(nodes[n]), 2, {"expression"})
    <3>1. HasToken(n, 1, {"LPAREN"}) /\ HasSub(n, 2, "expression")
      BY <1>2, <2>2, <2>5
    <3> QED
      BY <3>1 DEF HasToken
  <2> QED
    BY <2>1, <2>3, <2>4, <2>5 DEF FactorReadable
<1> QED
  BY <1>3, <1>4, <1>5 DEF Composed

-----------------------------------------------------------------------------
(* What follows the steps of a recursion as long as its values are in V,    *)
Obeys(w, k, V, s) ==
  DOMAIN w = 0..k /\ \A i \in 1..k : w[i - 1] \in V => w[i] = s[<<i, w[i - 1]>>]

(* has its values in V.                                                    *)
LEMMA RunsTyped ==
  ASSUME NEW k \in Nat, NEW V, NEW a \in V, NEW s \in [(1..k) \X V -> V],
         NEW w, w[0] = a, Obeys(w, k, V, s)
  PROVE  Runs(w, k, a, s) /\ \A i \in 0..k : w[i] \in V
<1> USE DEF Obeys
<1> DEFINE Bad == {i \in Nat : i \in 0..k /\ w[i] \notin V}
<1>1. ASSUME NEW n \in Nat, \A m \in 0..(n - 1) : m \notin Bad
      PROVE  n \notin Bad
  <2> SUFFICES ASSUME n \in 0..k PROVE w[n] \in V
    OBVIOUS
  <2>1. CASE n = 0
    BY <2>1
  <2>2. CASE n # 0
    <3>1. n - 1 \in 0..(n - 1) /\ n - 1 \in 0..k /\ n \in 1..k /\ n - 1 \in Nat
      BY <2>2
    <3>2. w[n - 1] \in V
      BY <1>1, <3>1
    <3>3. w[n] = s[<<n, w[n - 1]>>] /\ <<n, w[n - 1]>> \in (1..k) \X V
      BY <3>1, <3>2
    <3> QED
      BY <3>3
  <2> QED
    BY <2>1, <2>2
<1>2. Bad = {}
  <2>1. Bad \subseteq Nat
    OBVIOUS
  <2> HIDE DEF Bad
  <2> QED
    BY <1>1, <2>1, FromBelow
<1>3. \A i \in 0..k : w[i] \in V
  BY <1>2
<1>4. \A i \in 1..k : i - 1 \in 0..k
  OBVIOUS
<1> QED
  BY <1>3, <1>4 DEF Runs

-----------------------------------------------------------------------------
(* Sequences of nodes. *)
Lists == Seq(DOMAIN nodes)

(* The recursions in the definition of Unrolled. *)
UpTo(f, n) ==
  CHOOSE u : u = [i \in 0..Len(nodes[n].children) |->
                    IF i = 0 THEN << >>
                    ELSE LET before == u[i - 1]
                         IN before \o f[nodes[n].children[i].at]]

Sequel(f, n) ==
  CASE nodes[n].nt = "statements" -> UpTo(f, n)[Len(nodes[n].children)]
    [] nodes[n].nt = "repeat"     -> Append(f[Source!Kid(n, 2).at], n)
    [] OTHER                      -> <<n>>

Sequels == CHOOSE f : f = [n \in DOMAIN nodes |-> Sequel(f, n)]

(* Unrolled is the function that Sequels chooses. *)
LEMMA UnrolledIs ==
  ASSUME NEW s PROVE Source!Unrolled(s) = Sequels[s]
BY DEF Source!Unrolled, Sequels, Sequel, UpTo

(* The statements of a list, one after the other. *)
Joins(u, f, n) ==
  /\ DOMAIN u = 0..Arity(n) /\ u[0] = << >>
  /\ \A i \in 0..Arity(n) : u[i] \in Lists
  /\ \A i \in 1..Arity(n) : u[i] = u[i - 1] \o f[Sub(n, i)]

(* The statements of a list of children are joined from left to right. *)
LEMMA UpToJoins ==
  ASSUME nodes \in Trees, NEW n \in DOMAIN nodes, NEW f,
         \A i \in 1..Arity(n) : f[Sub(n, i)] \in Lists
  PROVE  Joins(UpTo(f, n), f, n)
<1> DEFINE k == Arity(n)
           s == [p \in (1..k) \X Lists |-> p[2] \o f[Sub(n, p[1])]]
<1>1. k \in Nat /\ << >> \in Lists
  BY NodeFacts DEF Lists
<1>2. s \in [(1..k) \X Lists -> Lists]
      /\ \A i \in 1..k, v \in Lists : s[<<i, v>>] = v \o f[Sub(n, i)]
  <2>1. \A i \in 1..k, v \in Lists : v \o f[Sub(n, i)] \in Lists
    BY DEF Lists
  <2> QED
    BY <2>1
<1> HIDE DEF s, k
<1>3. PICK u \in [0..k -> Lists] : Runs(u, k, << >>, s)
  BY <1>1, <1>2, RunsExist
<1>4. u = [i \in 0..k |-> IF i = 0 THEN << >> ELSE LET before == u[i - 1]
                                                   IN before \o f[Sub(n, i)]]
  <2>1. \A i \in 0..k : u[i] = IF i = 0 THEN << >> ELSE u[i - 1] \o f[Sub(n, i)]
    <3> TAKE i \in 0..k
    <3>1. CASE i = 0
      BY <1>3, <3>1 DEF Runs
    <3>2. CASE i # 0
      <4>1. i \in 1..k /\ i - 1 \in 0..k
        BY <1>1, <3>2
      <4>2. u[i] = s[<<i, u[i - 1]>>] /\ u[i - 1] \in Lists
        BY <1>3, <4>1 DEF Runs
      <4> QED
        BY <1>2, <3>2, <4>1, <4>2
    <3> QED
      BY <3>1, <3>2
  <2> QED
    BY <2>1
<1> DEFINE w == UpTo(f, n)
<1>5. w = [i \in 0..k |-> IF i = 0 THEN << >> ELSE LET before == w[i - 1]
                                                   IN before \o f[Sub(n, i)]]
  <2>1. \E x : x = [i \in 0..k |-> IF i = 0 THEN << >> ELSE LET before == x[i - 1]
                                                   IN before \o f[Sub(n, i)]]
    BY <1>4
  <2> QED
    BY <2>1, Zenon DEF UpTo, k, Arity, Sub
<1> HIDE DEF w
<1>6. DOMAIN w = 0..k /\ w[0] = << >>
      /\ \A i \in 1..k : w[i] = w[i - 1] \o f[Sub(n, i)]
  <2>1. 0 \in 0..k /\ \A i \in 1..k : i \in 0..k /\ i # 0
    BY <1>1
  <2> QED
    BY <1>5, <2>1
<1>7. \A i \in 1..k : w[i - 1] \in Lists => w[i] = s[<<i, w[i - 1]>>]
  BY <1>2, <1>6
<1>8. \A i \in 0..k : w[i] \in Lists
  <2>1. PICK a \in Lists : a = << >>
    BY <1>1
  <2>2. s \in [(1..k) \X Lists -> Lists] /\ w[0] = a /\ Obeys(w, k, Lists, s)
    BY <1>2, <1>6, <1>7, <2>1 DEF Obeys
  <2> QED
    BY <1>1, <2>2, RunsTyped
<1> QED
  BY <1>6, <1>8 DEF Joins, k, w

(* There is only one way to join them. *)
LEMMA JoinsOne ==
  ASSUME nodes \in Trees, NEW n \in DOMAIN nodes, NEW f, NEW h, NEW u, NEW w,
         Joins(u, f, n), Joins(w, h, n),
         \A i \in 1..Arity(n) : f[Sub(n, i)] = h[Sub(n, i)]
  PROVE  u[Arity(n)] = w[Arity(n)]
<1> DEFINE Bad == {i \in Nat : i \in 0..Arity(n) /\ u[i] # w[i]}
<1>0. Arity(n) \in Nat
  BY NodeFacts
<1>1. ASSUME NEW i \in Nat, \A m \in 0..(i - 1) : m \notin Bad
      PROVE  i \notin Bad
  <2> SUFFICES ASSUME i \in 0..Arity(n) PROVE u[i] = w[i]
    OBVIOUS
  <2>1. CASE i = 0
    BY <2>1 DEF Joins
  <2>2. CASE i # 0
    <3>1. i - 1 \in 0..(i - 1) /\ i - 1 \in 0..Arity(n) /\ i \in 1..Arity(n)
          /\ i - 1 \in Nat
      BY <1>0, <2>2
    <3>2. u[i - 1] = w[i - 1]
      BY <1>1, <3>1
    <3> QED
      BY <3>1, <3>2 DEF Joins
  <2> QED
    BY <2>1, <2>2
<1>2. Bad = {}
  <2>1. Bad \subseteq Nat
    OBVIOUS
  <2> HIDE DEF Bad
  <2> QED
    BY <1>1, <2>1, FromBelow
<1>3. Arity(n) \in 0..Arity(n)
  BY <1>0
<1> QED
  BY <1>2, <1>3, <1>0

(* One step of the recursion. *)
LEMMA SequelFacts ==
  ASSUME nodes \in Trees, NEW n \in DOMAIN nodes, NEW f,
         \A m \in (n + 1)..Len(nodes) : f[m] \in Lists
  PROVE  /\ Sequel(f, n) \in Lists
         /\ \A i \in 1..Arity(n) :
              Type(n, i) \in NonTerminals => f[Sub(n, i)] \in Lists
<1>1. n \in 1..Len(nodes) /\ Len(nodes) \in Nat /\ DOMAIN nodes = 1..Len(nodes)
      /\ Arity(n) \in Nat
  BY NodeFacts
<1>2. \A i \in 1..Arity(n) : Type(n, i) \in NonTerminals =>
        f[Sub(n, i)] \in Lists
  BY <1>1, SubFacts DEF HasSub
<1>3. CASE nodes[n].nt = "statements"
  <2>1. \A i \in 1..Arity(n) : f[Sub(n, i)] \in Lists
    BY <1>2, <1>3, ShapeFacts DEF Shaped, Statements, NonTerminals
  <2>2. Joins(UpTo(f, n), f, n) /\ Arity(n) \in 0..Arity(n)
    BY <1>1, <2>1, UpToJoins
  <2>3. UpTo(f, n)[Arity(n)] \in Lists
    BY <2>2 DEF Joins
  <2> QED
    BY <1>2, <1>3, <2>3 DEF Sequel, Arity
<1>4. CASE nodes[n].nt = "repeat"
  <2>1. f[Sub(n, 2)] \in Lists
    BY <1>2, <1>4, ShapeFacts DEF Shaped, HasSub, NonTerminals
  <2>2. Append(f[Sub(n, 2)], n) \in Lists
    BY <2>1 DEF Lists
  <2> QED
    BY <1>2, <1>4, <2>2 DEF Sequel, Source!Kid, Sub
<1>5. CASE nodes[n].nt \notin {"statements", "repeat"}
  <2>1. <<n>> \in Lists
    BY DEF Lists
  <2> QED
    BY <1>2, <1>5, <2>1 DEF Sequel
<1> QED
  BY <1>3, <1>4, <1>5

(* It looks at nodes that are further behind only. *)
LEMMA SequelLooks ==
  ASSUME nodes \in Trees, NEW n \in DOMAIN nodes, NEW f, NEW h,
         \A m \in (n + 1)..Len(nodes) : f[m] \in Lists /\ f[m] = h[m]
  PROVE  Sequel(f, n) = Sequel(h, n)
<1>1. n \in 1..Len(nodes) /\ Len(nodes) \in Nat /\ DOMAIN nodes = 1..Len(nodes)
  BY NodeFacts
<1>2. \A i \in 1..Arity(n) : Type(n, i) \in NonTerminals =>
        f[Sub(n, i)] \in Lists /\ f[Sub(n, i)] = h[Sub(n, i)]
  BY <1>1, SubFacts DEF HasSub
<1>3. CASE nodes[n].nt = "statements"
  <2>1. \A i \in 1..Arity(n) :
          f[Sub(n, i)] \in Lists /\ f[Sub(n, i)] = h[Sub(n, i)]
    BY <1>2, <1>3, ShapeFacts DEF Shaped, Statements, NonTerminals
  <2>2. Joins(UpTo(f, n), f, n) /\ Joins(UpTo(h, n), h, n)
    BY <2>1, UpToJoins
  <2>3. UpTo(f, n)[Arity(n)] = UpTo(h, n)[Arity(n)]
    BY <2>1, <2>2, JoinsOne
  <2> QED
    BY <1>3, <2>3 DEF Sequel, Arity
<1>4. CASE nodes[n].nt = "repeat"
  <2>1. f[Sub(n, 2)] = h[Sub(n, 2)]
    BY <1>2, <1>4, ShapeFacts DEF Shaped, HasSub, NonTerminals
  <2> QED
    BY <1>4, <2>1 DEF Sequel, Source!Kid, Sub
<1>5. CASE nodes[n].nt \notin {"statements", "repeat"}
  BY <1>5 DEF Sequel
<1> QED
  BY <1>3, <1>4, <1>5

(* So the recursion is one, and ends. *)
LEMMA SequelsFacts ==
  ASSUME nodes \in Trees
  PROVE  \A n \in DOMAIN nodes : Sequels[n] = Sequel(Sequels, n)
                                 /\ Sequels[n] \in Lists
<1> DEFINE k == Len(nodes)
           g == [p \in [1..k -> Lists] \X (1..k) |-> Sequel(p[1], p[2])]
<1>1. k \in Nat /\ DOMAIN nodes = 1..k /\ << >> \in Lists
  BY NodeFacts DEF Lists
<1>2. ASSUME NEW e \in [1..k -> Lists], NEW n \in 1..k
      PROVE  g[<<e, n>>] = Sequel(e, n) /\ g[<<e, n>>] \in Lists
  <2>1. \A m \in (n + 1)..k : e[m] \in Lists
    BY <1>1
  <2> QED
    BY <1>1, <2>1, SequelFacts
<1>3. g \in [[1..k -> Lists] \X (1..k) -> Lists]
  BY <1>2
<1>4. ASSUME NEW e \in [1..k -> Lists], NEW f \in [1..k -> Lists], NEW n \in 1..k,
             \A m \in (n + 1)..k : e[m] = f[m]
      PROVE  g[<<e, n>>] = g[<<f, n>>]
  <2>1. \A m \in (n + 1)..k : e[m] \in Lists /\ e[m] = f[m]
    BY <1>1, <1>4
  <2>2. Sequel(e, n) = Sequel(f, n)
    BY <1>1, <2>1, SequelLooks
  <2> QED
    BY <1>2, <2>2
<1> HIDE DEF g, k
<1>5. PICK f \in [1..k -> Lists] : \A n \in 1..k : f[n] = g[<<f, n>>]
  <2>1. LooksAbove(g, k, Lists)
    BY <1>3, <1>4 DEF LooksAbove
  <2>2. Lists # {} /\ k \in Nat
    BY <1>1
  <2>3. Solved(g, k, Lists)
    BY <2>1, <2>2, Descend
  <2> QED
    BY <2>3 DEF Solved
<1>6. f = [n \in DOMAIN nodes |-> Sequel(f, n)]
  BY <1>1, <1>2, <1>5
<1>7. Sequels = [n \in DOMAIN nodes |-> Sequel(Sequels, n)]
  <2>1. \E h : h = [n \in DOMAIN nodes |-> Sequel(h, n)]
    BY <1>6
  <2> QED
    BY <2>1, Zenon DEF Sequels
<1>8. \A n \in 1..k : Sequels[n] = Sequel(Sequels, n)
  <2> DEFINE w == Sequels
  <2>1. w = [n \in DOMAIN nodes |-> Sequel(w, n)]
    BY <1>7
  <2> HIDE DEF w
  <2>2. \A n \in 1..k : w[n] = Sequel(w, n)
    BY <1>1, <2>1
  <2> QED
    BY <2>2 DEF w
<1> DEFINE Bad == {n \in 1..k : Sequels[n] \notin Lists}
<1>9. ASSUME NEW n \in 1..k, \A m \in (n + 1)..k : m \notin Bad
      PROVE  n \notin Bad
  <2>1. \A m \in (n + 1)..k : Sequels[m] \in Lists
    BY <1>1, <1>9
  <2>2. Sequel(Sequels, n) \in Lists
    BY <1>1, <2>1, SequelFacts DEF k
  <2> QED
    BY <1>8, <2>2
<1>10. Bad = {}
  <2>1. Bad \subseteq 1..k
    OBVIOUS
  <2> HIDE DEF Bad
  <2> QED
    BY <1>1, <1>9, <2>1, FromAbove
<1> QED
  BY <1>1, <1>8, <1>10

(***************************************************************************)
(* What the rest of an execution is made of: a body is the statements in   *)
(* it, a repeat its body and then itself, for its condition.               *)
(***************************************************************************)
LEMMA UnrolledFacts ==
  ASSUME nodes \in Trees, NEW n \in DOMAIN nodes
  PROVE  /\ Source!Unrolled(n) \in Lists
         /\ nodes[n].nt = "statements" =>
              \E u : /\ Joins(u, Sequels, n) /\ Source!Unrolled(n) = u[Arity(n)]
                     /\ \A i \in 1..Arity(n) : Sequels[Sub(n, i)] = Source!Unrolled(Sub(n, i))
         /\ nodes[n].nt = "repeat" =>
              Source!Unrolled(n) = Append(Source!Unrolled(Sub(n, 2)), n)
         /\ nodes[n].nt \notin {"statements", "repeat"} =>
              Source!Unrolled(n) = <<n>>
<1>1. /\ Source!Unrolled(n) = Sequel(Sequels, n) /\ Source!Unrolled(n) \in Lists
      /\ n \in DOMAIN nodes /\ DOMAIN nodes = 1..Len(nodes)
  BY UnrolledIs, SequelsFacts, NodeFacts
<1>2. ASSUME nodes[n].nt = "statements"
      PROVE  \E u : /\ Joins(u, Sequels, n) /\ Source!Unrolled(n) = u[Arity(n)]
                    /\ \A i \in 1..Arity(n) : Sequels[Sub(n, i)] = Source!Unrolled(Sub(n, i))
  <2>1. \A i \in 1..Arity(n) : Sub(n, i) \in DOMAIN nodes
    BY <1>2, ShapeFacts DEF Shaped, HasSub
  <2>2. \A i \in 1..Arity(n) : Sequels[Sub(n, i)] \in Lists
    BY <2>1, SequelsFacts
  <2>3. Joins(UpTo(Sequels, n), Sequels, n)
    BY <2>2, UpToJoins
  <2>4. Source!Unrolled(n) = UpTo(Sequels, n)[Arity(n)]
    BY <1>1, <1>2 DEF Sequel, Arity
  <2> QED
    BY <2>3, <2>4, UnrolledIs
<1>3. nodes[n].nt = "repeat" =>
        Source!Unrolled(n) = Append(Source!Unrolled(Sub(n, 2)), n)
  BY <1>1, UnrolledIs DEF Sequel, Source!Kid, Sub
<1>4. nodes[n].nt \notin {"statements", "repeat"} => Source!Unrolled(n) = <<n>>
  BY <1>1 DEF Sequel
<1> QED
  BY <1>1, <1>2, <1>3, <1>4

-----------------------------------------------------------------------------
(* The recursions in the definition of Cleared. *)
Gather(f, n) ==
  CHOOSE u : u = [i \in 0..Len(nodes[n].children) |->
                    IF i = 0 THEN << >>
                    ELSE LET before == u[i - 1]
                         IN IF nodes[n].children[i].type \in NonTerminals
                            THEN before \o f[nodes[n].children[i].at]
                            ELSE before]

Freeing(f, n) == Append(Gather(f, n)[Len(nodes[n].children)], n)

Freed == CHOOSE f : f = [n \in DOMAIN nodes |-> Freeing(f, n)]

(* What ast_clear frees is what Freed says of the root. *)
LEMMA ClearedIs == Cleared(nodes, 1) = Freed[1]
BY DEF Cleared, Freed, Freeing, Gather

GatherStep(f, n) ==
  [p \in (1..Arity(n)) \X Lists |->
     IF Type(n, p[1]) \in NonTerminals THEN p[2] \o f[Sub(n, p[1])] ELSE p[2]]

(* The nodes below a node, from left to right. *)
LEMMA GatherRuns ==
  ASSUME nodes \in Trees, NEW n \in DOMAIN nodes, NEW f,
         \A i \in 1..Arity(n) : Type(n, i) \in NonTerminals => f[Sub(n, i)] \in Lists
  PROVE  /\ Runs(Gather(f, n), Arity(n), << >>, GatherStep(f, n))
         /\ Gather(f, n)[Arity(n)] \in Lists
<1> DEFINE k == Arity(n)
           s == GatherStep(f, n)
<1>1. k \in Nat /\ << >> \in Lists /\ k \in 0..k
  BY NodeFacts DEF Lists
<1>2. s \in [(1..k) \X Lists -> Lists]
      /\ \A i \in 1..k, v \in Lists :
           s[<<i, v>>] = IF Type(n, i) \in NonTerminals THEN v \o f[Sub(n, i)] ELSE v
  <2>1. \A i \in 1..k, v \in Lists :
          Type(n, i) \in NonTerminals => v \o f[Sub(n, i)] \in Lists
    BY DEF Lists
  <2> QED
    BY <2>1 DEF GatherStep
<1> HIDE DEF s, k
<1>3. PICK a \in Lists : a = << >>
  BY <1>1
<1>4. PICK u \in [0..k -> Lists] : Runs(u, k, a, s)
  BY <1>1, <1>2, RunsExist
<1>5. u = [i \in 0..k |-> IF i = 0 THEN << >> ELSE LET before == u[i - 1]
                            IN IF Type(n, i) \in NonTerminals
                               THEN before \o f[Sub(n, i)] ELSE before]
  <2>1. \A i \in 0..k : u[i] = IF i = 0 THEN << >>
                               ELSE IF Type(n, i) \in NonTerminals
                                    THEN u[i - 1] \o f[Sub(n, i)] ELSE u[i - 1]
    <3> TAKE i \in 0..k
    <3>1. CASE i = 0
      BY <1>3, <1>4, <3>1 DEF Runs
    <3>2. CASE i # 0
      <4>1. i \in 1..k /\ i - 1 \in 0..k
        BY <1>1, <3>2
      <4>2. u[i] = s[<<i, u[i - 1]>>] /\ u[i - 1] \in Lists
        BY <1>4, <4>1 DEF Runs
      <4> QED
        BY <1>2, <3>2, <4>1, <4>2
    <3> QED
      BY <3>1, <3>2
  <2> QED
    BY <2>1
<1> DEFINE w == Gather(f, n)
<1>6. w = [i \in 0..k |-> IF i = 0 THEN << >> ELSE LET before == w[i - 1]
                            IN IF Type(n, i) \in NonTerminals
                               THEN before \o f[Sub(n, i)] ELSE before]
  <2>1. \E x : x = [i \in 0..k |-> IF i = 0 THEN << >> ELSE LET before == x[i - 1]
                            IN IF Type(n, i) \in NonTerminals
                               THEN before \o f[Sub(n, i)] ELSE before]
    BY <1>5
  <2> QED
    BY <2>1, Zenon DEF Gather, k, Arity, Sub, Type
<1> HIDE DEF w
<1>7. DOMAIN w = 0..k /\ w[0] = a
      /\ \A i \in 1..k : w[i] = IF Type(n, i) \in NonTerminals
                                THEN w[i - 1] \o f[Sub(n, i)] ELSE w[i - 1]
  <2>1. 0 \in 0..k /\ \A i \in 1..k : i \in 0..k /\ i # 0
    BY <1>1
  <2> QED
    BY <1>3, <1>6, <2>1
<1>8. \A i \in 1..k : w[i - 1] \in Lists => w[i] = s[<<i, w[i - 1]>>]
  BY <1>2, <1>7
<1>9. Runs(w, k, a, s) /\ \A i \in 0..k : w[i] \in Lists
  <2>1. k \in Nat /\ a \in Lists /\ s \in [(1..k) \X Lists -> Lists]
    BY <1>1, <1>2, <1>3
  <2>2. w[0] = a /\ Obeys(w, k, Lists, s)
    BY <1>7, <1>8 DEF Obeys
  <2> QED
    BY <2>1, <2>2, RunsTyped
<1> QED
  BY <1>1, <1>3, <1>9 DEF k, w, s

(* One step of the recursion. *)
LEMMA FreeingFacts ==
  ASSUME nodes \in Trees, NEW n \in DOMAIN nodes, NEW f,
         \A m \in (n + 1)..Len(nodes) : f[m] \in Lists
  PROVE  /\ Freeing(f, n) \in Lists
         /\ \A h : (\A m \in (n + 1)..Len(nodes) : f[m] = h[m])
                     => Freeing(f, n) = Freeing(h, n)
<1>1. n \in 1..Len(nodes) /\ Len(nodes) \in Nat /\ DOMAIN nodes = 1..Len(nodes)
      /\ Arity(n) \in Nat /\ Arity(n) \in 0..Arity(n)
  BY NodeFacts
<1>2. \A i \in 1..Arity(n) : Type(n, i) \in NonTerminals =>
        Sub(n, i) \in (n + 1)..Len(nodes)
  BY <1>1, SubFacts DEF HasSub
<1>3. /\ Runs(Gather(f, n), Arity(n), << >>, GatherStep(f, n))
      /\ Gather(f, n)[Arity(n)] \in Lists
  <2>1. \A i \in 1..Arity(n) : Type(n, i) \in NonTerminals => f[Sub(n, i)] \in Lists
    BY <1>2
  <2> QED
    BY <2>1, GatherRuns
<1>4. Freeing(f, n) \in Lists
  BY <1>3 DEF Freeing, Arity, Lists
<1>5. ASSUME NEW h, \A m \in (n + 1)..Len(nodes) : f[m] = h[m]
      PROVE  Freeing(f, n) = Freeing(h, n)
  <2>1. \A i \in 1..Arity(n) : Type(n, i) \in NonTerminals =>
          h[Sub(n, i)] = f[Sub(n, i)] /\ h[Sub(n, i)] \in Lists
    BY <1>2, <1>5
  <2>2. Runs(Gather(h, n), Arity(n), << >>, GatherStep(h, n))
    BY <2>1, GatherRuns
  <2>3. GatherStep(h, n) = GatherStep(f, n)
    BY <2>1 DEF GatherStep
  <2>4. \A i \in 0..Arity(n) : Gather(f, n)[i] = Gather(h, n)[i]
    BY <1>1, <1>3, <2>2, <2>3, RunsOne
  <2> QED
    BY <1>1, <2>4 DEF Freeing, Arity
<1> QED
  BY <1>4, <1>5

(* What is freed at the end are nodes. *)
LEMMA ClearedFacts ==
  ASSUME nodes \in Trees
  PROVE  Cleared(nodes, 1) \in Lists
<1> DEFINE k == Len(nodes)
           g == [p \in [1..k -> Lists] \X (1..k) |-> Freeing(p[1], p[2])]
<1>1. k \in Nat /\ DOMAIN nodes = 1..k /\ << >> \in Lists /\ 1 \in 1..k
  BY NodeFacts DEF Lists
<1>2. ASSUME NEW e \in [1..k -> Lists], NEW n \in 1..k
      PROVE  g[<<e, n>>] = Freeing(e, n) /\ g[<<e, n>>] \in Lists
  <2>1. \A m \in (n + 1)..k : e[m] \in Lists
    BY <1>1
  <2> QED
    BY <1>1, <2>1, FreeingFacts
<1>3. g \in [[1..k -> Lists] \X (1..k) -> Lists]
  BY <1>2
<1>4. ASSUME NEW e \in [1..k -> Lists], NEW f \in [1..k -> Lists], NEW n \in 1..k,
             \A m \in (n + 1)..k : e[m] = f[m]
      PROVE  g[<<e, n>>] = g[<<f, n>>]
  <2>1. \A m \in (n + 1)..k : e[m] \in Lists
    BY <1>1
  <2>2. Freeing(e, n) = Freeing(f, n)
    BY <1>1, <1>4, <2>1, FreeingFacts
  <2> QED
    BY <1>2, <2>2
<1> HIDE DEF g, k
<1>5. PICK f \in [1..k -> Lists] : \A n \in 1..k : f[n] = g[<<f, n>>]
  <2>1. LooksAbove(g, k, Lists)
    BY <1>3, <1>4 DEF LooksAbove
  <2>2. Lists # {} /\ k \in Nat
    BY <1>1
  <2>3. Solved(g, k, Lists)
    BY <2>1, <2>2, Descend
  <2> QED
    BY <2>3 DEF Solved
<1>6. f = [n \in DOMAIN nodes |-> Freeing(f, n)]
  BY <1>1, <1>2, <1>5
<1>7. Freed = [n \in DOMAIN nodes |-> Freeing(Freed, n)]
  <2>1. \E h : h = [n \in DOMAIN nodes |-> Freeing(h, n)]
    BY <1>6
  <2> QED
    BY <2>1, Zenon DEF Freed
<1>8. \A n \in 1..k : Freed[n] = Freeing(Freed, n)
  <2> DEFINE w == Freed
  <2>1. w = [n \in DOMAIN nodes |-> Freeing(w, n)]
    BY <1>7
  <2> HIDE DEF w
  <2>2. \A n \in 1..k : w[n] = Freeing(w, n)
    BY <1>1, <2>1
  <2> QED
    BY <2>2 DEF w
<1> DEFINE Bad == {n \in 1..k : Freed[n] \notin Lists}
<1>9. ASSUME NEW n \in 1..k, \A m \in (n + 1)..k : m \notin Bad
      PROVE  n \notin Bad
  <2>1. \A m \in (n + 1)..k : Freed[m] \in Lists
    BY <1>1, <1>9
  <2>2. Freeing(Freed, n) \in Lists
    BY <1>1, <2>1, FreeingFacts DEF k
  <2> QED
    BY <1>8, <2>2
<1>10. Bad = {}
  <2>1. Bad \subseteq 1..k
    OBVIOUS
  <2> HIDE DEF Bad
  <2> QED
    BY <1>1, <1>9, <2>1, FromAbove
<1> QED
  BY <1>1, <1>10, ClearedIs

-----------------------------------------------------------------------------
(***************************************************************************)
(* The interpreter with its proofs.  Run and VM are the same module for    *)
(* the same variables: their definitions say the same.                     *)
(***************************************************************************)
Run == INSTANCE InterpreterProofs WITH Programs <- {}

(* What the code of a tree is. *)
Trans == INSTANCE Translation

(* The interpreter takes no programs but the analyser's. *)
LEMMA SameInterpreterAssumption ==
  Run!InterpreterAssumption = VM!InterpreterAssumption
BY DEF VM!InterpreterAssumption, Run!InterpreterAssumption, VM!Instruction,
       Run!Instruction, VM!Executable, Run!Executable, VM!Int64, Run!Int64,
       VM!Ops, Run!Ops, VM!Operand, Run!Operand, VM!Addressed, Run!Addressed,
       VM!Resolved, Run!Resolved, VM!Straight, Run!Straight, VM!Arithmetic,
       Run!Arithmetic, VM!Unary, Run!Unary, VM!RelOps, Run!RelOps, VM!Jumps,
       Run!Jumps, VM!Unset, Run!Unset, VM!Label, Run!Label, VM!Sources,
       Run!Sources, VM!Computes, Run!Computes, VM!StraightFrom,
       Run!StraightFrom

(* What the interpreter assumes, main assumes. *)
LEMMA RunAssumptions ==
  Run!InterpreterAssumption /\ Run!CodeAssumption /\ Run!AttrAssumption
<1>1. Run!TokenTypes = TokenTypes
  BY DEF TokenTypes, Run!TokenTypes
<1> QED
  BY <1>1, SameInterpreterAssumption, YogAssumption, AttrAssumption,
     CodeAssumption
     DEF Run!CodeAssumption, CodeAssumption, Run!AttrAssumption, AttrAssumption

(* An instruction of the one is an instruction of the other. *)
LEMMA SameExecution == VM!Next = Run!Next
BY DEF VM!Next, Run!Next, VM!ExecuteAssign, Run!ExecuteAssign, VM!ExecuteRead,
       Run!ExecuteRead, VM!ExecuteWrite, Run!ExecuteWrite,
       VM!ExecuteArithmetic, Run!ExecuteArithmetic, VM!ExecuteSign,
       Run!ExecuteSign, VM!ExecuteCompare, Run!ExecuteCompare, VM!ExecuteGoto,
       Run!ExecuteGoto, VM!ExecuteBranch, Run!ExecuteBranch, VM!Clear,
       Run!Clear, VM!Executing, Run!Executing, VM!Fetched, Run!Fetched,
       VM!Current, Run!Current, VM!Onward, Run!Onward, VM!program,
       Run!program, VM!io, Run!io, VM!Saturated, Run!Saturated, VM!Arithmetic,
       Run!Arithmetic, VM!Divide, Run!Divide, VM!Compute, Run!Compute,
       VM!Unary, Run!Unary, VM!Store, Run!Store, VM!Wrapped, Run!Wrapped,
       VM!RelOps, Run!RelOps, VM!Compared, Run!Compared, VM!Temporary,
       Run!Temporary, VM!Uninit, Run!Uninit, VM!Abort, Run!Abort, VM!Traps,
       Run!Traps, VM!Result, Run!Result, VM!Quotient, Run!Quotient,
       VM!Magnitude, Run!Magnitude

-----------------------------------------------------------------------------
(***************************************************************************)
(* Where control is going.  The instruction at place p, *)
(***************************************************************************)
Stands(p, op) == p + 1 \in 1..Len(instrs) /\ instrs[p + 1].op = op
Target(p) == instrs[p + 1].dest.val

(* Places that no goto leads into from outside, *)
Enclosed(S) == \A p \in Nat : Stands(p, "GOTO") /\ Target(p) \in S => p \in S

(* and the places from which gotos, and nothing else, lead to m.           *)
Leads(l, m) == \A S \in SUBSET Nat : m \in S /\ Enclosed(S) => l \in S

(* A place leads to itself, *)
LEMMA LeadsSelf == ASSUME NEW l \in Nat PROVE Leads(l, l)
BY DEF Leads

(* a goto to where its target leads, *)
LEMMA LeadsJump ==
  ASSUME NEW l \in Nat, NEW m \in Nat, Stands(l, "GOTO"), Leads(Target(l), m)
  PROVE  Leads(l, m)
<1> SUFFICES ASSUME NEW S \in SUBSET Nat, m \in S, Enclosed(S)
             PROVE  l \in S
  BY DEF Leads
<1>1. Target(l) \in S
  BY DEF Leads
<1> QED
  BY <1>1 DEF Enclosed

(* and on from there; *)
LEMMA LeadsOn ==
  ASSUME NEW l, NEW m, NEW k, Leads(l, m), Leads(m, k)
  PROVE  Leads(l, k)
BY DEF Leads

(* and what leads to another place is a goto. *)
LEMMA LeadsFirst ==
  ASSUME NEW l \in Nat, NEW m \in Nat, Leads(l, m), l # m
  PROVE  Stands(l, "GOTO") /\ Leads(Target(l), m)
<1> DEFINE S == {m} \cup {p \in Nat : Stands(p, "GOTO") /\ Leads(Target(p), m)}
<1>1. S \in SUBSET Nat /\ m \in S
  OBVIOUS
<1>2. Enclosed(S)
  <2> SUFFICES ASSUME NEW p \in Nat, Stands(p, "GOTO"), Target(p) \in S
               PROVE  Leads(Target(p), m)
    BY DEF Enclosed
  <2>1. CASE Target(p) = m
    BY <2>1, LeadsSelf
  <2>2. CASE Target(p) # m
    <3>1. Target(p) \in Nat /\ Stands(Target(p), "GOTO") /\ Leads(Target(Target(p)), m)
      BY <2>2
    <3> QED
      BY <3>1, LeadsJump
  <2> QED
    BY <2>1, <2>2
<1>3. l \in S
  <2> HIDE DEF S
  <2> QED
    BY <1>1, <1>2 DEF Leads
<1> QED
  BY <1>3

-----------------------------------------------------------------------------
(* Where the code that remains of a statement begins: a repeat stands for   *)
(* its condition.                                                          *)
Entry(t, n) == IF nodes[n].nt = "repeat" THEN t.from[Sub(n, 5)] ELSE t.from[n]

Leaving(t, l, s, i) == IF i = 0 THEN l ELSE t.to[s[i]]
Coming(t, s, m, i) == IF i = Len(s) THEN m ELSE Entry(t, s[i + 1])

(* From l through the statements of s to m: each leads to the next.        *)
Path(t, l, s, m) ==
  \A i \in 0..Len(s) : Leads(Leaving(t, l, s, i), Coming(t, s, m, i))

(* Without a statement, *)
LEMMA PathNone ==
  ASSUME NEW t, NEW l, NEW m, Leads(l, m) PROVE Path(t, l, << >>, m)
BY DEF Path, Leaving, Coming

(* with one, *)
LEMMA PathOne ==
  ASSUME NEW t, NEW l, NEW m, NEW n, Leads(l, Entry(t, n)), Leads(t.to[n], m)
  PROVE  Path(t, l, <<n>>, m)
<1>1. Len(<<n>>) = 1 /\ <<n>>[1] = n
  OBVIOUS
<1>2. ASSUME NEW i \in 0..1
      PROVE  Leads(Leaving(t, l, <<n>>, i), Coming(t, <<n>>, m, i))
  <2>1. CASE i = 0
    <3>1. Leaving(t, l, <<n>>, 0) = l /\ Coming(t, <<n>>, m, 0) = Entry(t, n)
      BY <1>1 DEF Leaving, Coming
    <3> QED
      BY <2>1, <3>1
  <2>2. CASE i = 1
    <3>1. Leaving(t, l, <<n>>, 1) = t.to[n] /\ Coming(t, <<n>>, m, 1) = m
      BY <1>1 DEF Leaving, Coming
    <3> QED
      BY <2>2, <3>1
  <2> QED
    BY <2>1, <2>2
<1> QED
  BY <1>1, <1>2 DEF Path

(* and one path behind another. *)
LEMMA PathJoin ==
  ASSUME NEW t, NEW l, NEW m, NEW k, NEW s \in Lists, NEW r \in Lists,
         Path(t, l, s, m), Path(t, m, r, k)
  PROVE  Path(t, l, s \o r, k)
<1>1. /\ Len(s) \in Nat /\ Len(r) \in Nat /\ Len(s \o r) = Len(s) + Len(r)
      /\ \A i \in 1..Len(s) : (s \o r)[i] = s[i]
      /\ \A i \in 1..Len(r) : (s \o r)[Len(s) + i] = r[i]
  BY LenProperties DEF Lists
<1>2. PICK c : c = s \o r
  OBVIOUS
<1>3. ASSUME NEW i \in 0..Len(c)
      PROVE  Leads(Leaving(t, l, c, i), Coming(t, c, k, i))
  <2>1. CASE i < Len(s)
    <3>1. i \in 0..Len(s) /\ i # Len(c) /\ i # Len(s) /\ i + 1 \in 1..Len(s)
          /\ (i # 0 => i \in 1..Len(s))
      BY <1>1, <1>2, <2>1
    <3>2. Leaving(t, l, c, i) = Leaving(t, l, s, i)
          /\ Coming(t, c, k, i) = Coming(t, s, m, i)
      BY <1>1, <1>2, <3>1 DEF Leaving, Coming
    <3> QED
      BY <3>1, <3>2 DEF Path
  <2>2. CASE i > Len(s)
    <3>1. PICK j \in 1..Len(r) : i = Len(s) + j
      <4>1. i - Len(s) \in 1..Len(r) /\ i = Len(s) + (i - Len(s))
        BY <1>1, <1>2, <2>2
      <4> QED
        BY <4>1
    <3>0. Len(c) = Len(s) + Len(r) /\ c[i] = r[j]
      BY <1>1, <1>2, <3>1
    <3>2. j \in 0..Len(r) /\ j # 0 /\ i # 0
          /\ (i = Len(c) <=> j = Len(r))
          /\ (j # Len(r) => j + 1 \in 1..Len(r) /\ i + 1 = Len(s) + (j + 1))
      BY <1>1, <3>0, <3>1
    <3>3. j # Len(r) => c[i + 1] = r[j + 1]
      BY <1>1, <1>2, <3>2
    <3>4. Leaving(t, l, c, i) = Leaving(t, m, r, j)
          /\ Coming(t, c, k, i) = Coming(t, r, k, j)
      BY <3>0, <3>2, <3>3 DEF Leaving, Coming
    <3> QED
      BY <3>2, <3>4 DEF Path
  <2>3. CASE i = Len(s)
    <3>1. i \in 0..Len(s) /\ 0 \in 0..Len(r) /\ (i # 0 => i \in 1..Len(s))
          /\ (i = Len(c) <=> 0 = Len(r))
          /\ (0 # Len(r) => 1 \in 1..Len(r) /\ i + 1 = Len(s) + 1)
      BY <1>1, <1>2, <2>3
    <3>2. 0 # Len(r) => c[i + 1] = r[1]
      BY <1>1, <1>2, <3>1
    <3>3. Leaving(t, l, c, i) = Leaving(t, l, s, i) /\ Coming(t, s, m, i) = m
      BY <1>1, <1>2, <2>3, <3>1 DEF Leaving, Coming
    <3>4. Leaving(t, m, r, 0) = m /\ Coming(t, c, k, i) = Coming(t, r, k, 0)
      BY <3>1, <3>2 DEF Leaving, Coming
    <3>5. Leads(Leaving(t, l, c, i), m)
      BY <3>1, <3>3 DEF Path
    <3>6. Leads(m, Coming(t, c, k, i))
      BY <3>1, <3>4 DEF Path
    <3> QED
      BY <3>5, <3>6, LeadsOn
  <2> QED
    BY <1>1, <1>2, <2>1, <2>2, <2>3
<1> QED
  BY <1>2, <1>3 DEF Path

(* A path may begin earlier, *)
LEMMA PathBefore ==
  ASSUME NEW t, NEW l, NEW m, NEW k, NEW s \in Lists, Leads(l, m), Path(t, m, s, k)
  PROVE  Path(t, l, s, k)
<1>1. << >> \in Lists /\ << >> \o s = s
  BY DEF Lists
<1>2. Path(t, l, << >>, m)
  BY PathNone
<1>3. PICK e \in Lists : e = << >>
  BY <1>1
<1>4. Path(t, l, e \o s, k)
  BY <1>2, <1>3, PathJoin
<1> QED
  BY <1>1, <1>3, <1>4

(* or end later. *)
LEMMA PathBehind ==
  ASSUME NEW t, NEW l, NEW m, NEW k, NEW s \in Lists, Path(t, l, s, m), Leads(m, k)
  PROVE  Path(t, l, s, k)
<1>1. << >> \in Lists /\ s \o << >> = s
  BY DEF Lists
<1>2. Path(t, m, << >>, k)
  BY PathNone
<1>3. PICK e \in Lists : e = << >>
  BY <1>1
<1>4. Path(t, l, s \o e, k)
  BY <1>2, <1>3, PathJoin
<1> QED
  BY <1>1, <1>3, <1>4

(* Its first statement, and what is behind it. *)
LEMMA PathHead ==
  ASSUME NEW t, NEW l, NEW k, NEW s \in Lists, s # << >>, Path(t, l, s, k)
  PROVE  /\ Head(s) \in DOMAIN nodes /\ Tail(s) \in Lists
         /\ s = <<Head(s)>> \o Tail(s)
         /\ Leads(l, Entry(t, Head(s))) /\ Path(t, t.to[Head(s)], Tail(s), k)
<1>1. Head(s) \in DOMAIN nodes /\ Tail(s) \in Lists /\ s = <<Head(s)>> \o Tail(s)
  BY DEF Lists
<1>2. /\ Len(s) \in Nat /\ Len(s) >= 1 /\ Len(Tail(s)) = Len(s) - 1
      /\ s[1] = Head(s) /\ \A i \in 1..Len(Tail(s)) : Tail(s)[i] = s[i + 1]
  BY DEF Lists
<1>3. PICK r : r = Tail(s)
  OBVIOUS
<1>4. Leads(l, Entry(t, Head(s)))
  <2>1. 0 \in 0..Len(s) /\ 0 # Len(s)
    BY <1>2
  <2>2. Leaving(t, l, s, 0) = l /\ Coming(t, s, k, 0) = Entry(t, Head(s))
    BY <1>2, <2>1 DEF Leaving, Coming
  <2> QED
    BY <2>1, <2>2 DEF Path
<1>0. Len(r) = Len(s) - 1 /\ \A i \in 1..Len(r) : r[i] = s[i + 1]
  BY <1>2, <1>3
<1>5. ASSUME NEW i \in 0..Len(r)
      PROVE  Leads(Leaving(t, t.to[Head(s)], r, i), Coming(t, r, k, i))
  <2>1. i + 1 \in 0..Len(s) /\ i + 1 # 0 /\ (i = Len(r) <=> i + 1 = Len(s))
        /\ (i # 0 => i \in 1..Len(r)) /\ (i # Len(r) => i + 1 \in 1..Len(r))
    BY <1>0, <1>2
  <2>2. (i # 0 => r[i] = s[i + 1]) /\ (i # Len(r) => r[i + 1] = s[(i + 1) + 1])
    BY <1>0, <2>1
  <2>3. Leaving(t, t.to[Head(s)], r, i) = Leaving(t, l, s, i + 1)
    <3>1. Leaving(t, l, s, i + 1) = t.to[s[i + 1]]
      BY <2>1 DEF Leaving
    <3>2. CASE i = 0
      BY <1>2, <3>1, <3>2 DEF Leaving
    <3>3. CASE i # 0
      BY <2>2, <3>1, <3>3 DEF Leaving
    <3> QED
      BY <3>2, <3>3
  <2>4. Coming(t, r, k, i) = Coming(t, s, k, i + 1)
    BY <2>1, <2>2 DEF Coming
  <2> QED
    BY <2>1, <2>3, <2>4 DEF Path
<1> QED
  BY <1>1, <1>3, <1>4, <1>5 DEF Path

-----------------------------------------------------------------------------
(***************************************************************************)
(* The code of the tree.  The translation t is that of the theorem of      *)
(* TranslationProofs, and no name in the tree is missing.                  *)
(***************************************************************************)
Compiled(t) ==
  /\ nodes \in Trees /\ ~Repaired(nodes) /\ instrs \in Seq(Trans!Instruction)
  /\ t \in Trans!Translations(nodes) /\ t.from[1] = 0 /\ t.to[1] = Len(instrs)
  /\ \A n \in DOMAIN nodes : Trans!Translates(nodes, instrs, t, n)

Makes(p, op, o, q, d) ==
  /\ Stands(p, op) /\ instrs[p + 1].src1 = o /\ instrs[p + 1].src2 = q
  /\ instrs[p + 1].dest = d

Tests(p, o, l) == Stands(p, "BRANCH") /\ instrs[p + 1].src1 = o /\ Target(p) = l
Leaps(p, l) == Stands(p, "GOTO") /\ Target(p) = l

(* The last instruction of a statement that it cannot do without: it       *)
(* completes the statement, or decides it.                                 *)
Last(t, n) ==
  CASE nodes[n].nt = "assign" -> t.to[Sub(n, 3)]
    [] nodes[n].nt = "output" -> t.to[Sub(n, 2)]
    [] nodes[n].nt \in {"branch", "loop"} -> t.to[Sub(n, 3)]
    [] nodes[n].nt = "repeat" -> t.to[Sub(n, 5)]
    [] OTHER -> t.from[n]

LaidList(t, n) ==
  /\ \A i \in 1..Arity(n) :
       t.from[Sub(n, i)] = IF i = 1 THEN t.from[n] ELSE t.to[Sub(n, i - 1)]
  /\ t.to[n] = IF Arity(n) = 0 THEN t.from[n] ELSE t.to[Sub(n, Arity(n))]

LaidAssign(t, n) ==
  /\ t.from[Sub(n, 3)] = t.from[n] /\ t.to[n] = Last(t, n) + 1
  /\ Stands(Last(t, n), "ASSIGN")
  /\ instrs[Last(t, n) + 1].src1 = t.opd[Sub(n, 3)]
  /\ instrs[Last(t, n) + 1].dest.val = Attr(n, 1)

LaidInput(t, n) ==
  /\ t.to[n] = t.from[n] + 1 /\ Stands(Last(t, n), "READ")
  /\ instrs[Last(t, n) + 1].dest.val = Attr(n, 2)

LaidOutput(t, n) ==
  /\ t.from[Sub(n, 2)] = t.from[n] /\ t.to[n] = Last(t, n) + 1
  /\ Stands(Last(t, n), "WRITE")
  /\ instrs[Last(t, n) + 1].src1 = t.opd[Sub(n, 2)]

LaidBranch(t, n) ==
  /\ t.from[Sub(n, 3)] = t.from[n]
  /\ Tests(Last(t, n), t.opd[Sub(n, 3)], t.from[Sub(n, 6)])
  /\ t.from[Sub(n, 8)] = Last(t, n) + 1
  /\ Leaps(t.to[Sub(n, 8)], t.to[n]) /\ t.to[n] = t.to[Sub(n, 6)]

LaidLoop(t, n) ==
  /\ t.from[Sub(n, 3)] = t.from[n]
  /\ Tests(Last(t, n), t.opd[Sub(n, 3)], t.from[Sub(n, 6)])
  /\ Leaps(Last(t, n) + 1, t.to[n])
  /\ Leaps(t.to[Sub(n, 6)], t.from[n])

LaidRepeat(t, n) ==
  /\ t.from[Sub(n, 2)] = t.from[n] /\ t.from[Sub(n, 5)] = t.to[Sub(n, 2)]
  /\ Tests(Last(t, n), t.opd[Sub(n, 5)], t.from[n])
  /\ t.to[n] = Last(t, n) + 1

LaidCondition(t, n) ==
  /\ t.from[Sub(n, 1)] = t.from[n] /\ t.from[Sub(n, 3)] = t.to[Sub(n, 1)]
  /\ Makes(t.to[Sub(n, 3)], Type(n, 2), t.opd[Sub(n, 1)], t.opd[Sub(n, 3)],
           t.opd[n])
  /\ t.opd[n].type = "TEMPORARY" /\ t.to[n] = t.to[Sub(n, 3)] + 1

ChainEnd(t, n, k) == IF k = 1 THEN t.to[Sub(n, 1)] ELSE t.to[Sub(n, k)] + 1

ChainValue(t, n, k) ==
  IF k = 1 THEN t.opd[Sub(n, 1)] ELSE instrs[t.to[Sub(n, k)] + 1].dest

LaidLink(t, n, k) ==
  /\ t.from[Sub(n, k)] = ChainEnd(t, n, k - 2)
  /\ Makes(t.to[Sub(n, k)], Trans!OpOf[Type(n, k - 1)], ChainValue(t, n, k - 2),
           t.opd[Sub(n, k)], ChainValue(t, n, k))
  /\ ChainValue(t, n, k).type = "TEMPORARY"

LaidChain(t, n) ==
  /\ t.from[Sub(n, 1)] = t.from[n]
  /\ \A k \in 2..Arity(n) : k % 2 = 1 => LaidLink(t, n, k)
  /\ t.to[n] = ChainEnd(t, n, Arity(n)) /\ t.opd[n] = ChainValue(t, n, Arity(n))

LaidFactor(t, n) ==
  /\ Type(n, 1) = "LITERAL" =>
       t.to[n] = t.from[n] /\ t.opd[n] = Literal(Attr(n, 1))
  /\ Type(n, 1) = "IDENTIFIER" =>
       t.to[n] = t.from[n] /\ t.opd[n] = Symbol(Attr(n, 1))
  /\ Type(n, 1) = "LPAREN" =>
       /\ t.from[Sub(n, 2)] = t.from[n] /\ t.to[n] = t.to[Sub(n, 2)]
       /\ t.opd[n] = t.opd[Sub(n, 2)]
  /\ Type(n, 1) \in {"PLUS", "MINUS"} =>
       /\ t.from[Sub(n, 2)] = t.from[n] /\ t.to[n] = t.to[Sub(n, 2)] + 1
       /\ Stands(t.to[Sub(n, 2)], Trans!SignOf[Type(n, 1)])
       /\ instrs[t.to[Sub(n, 2)] + 1].src1 = t.opd[Sub(n, 2)]
       /\ instrs[t.to[Sub(n, 2)] + 1].dest = t.opd[n]
       /\ t.opd[n].type = "TEMPORARY"

(* Where the code of a node is. *)
LEMMA CompiledPlaces ==
  ASSUME NEW t, Compiled(t), NEW n \in DOMAIN nodes
  PROVE  /\ t.from[n] \in Nat /\ t.to[n] \in Nat /\ t.from[n] <= t.to[n]
         /\ t.to[n] <= Len(instrs) /\ Len(instrs) \in Nat
         /\ DOMAIN instrs = 1..Len(instrs)
         /\ nodes \in Trees /\ t.opd[n] \in Trans!Operand
         /\ Trans!Translates(nodes, instrs, t, n)
<1>1. t \in Trans!Translations(nodes) /\ Trans!Translates(nodes, instrs, t, n)
      /\ instrs \in Seq(Trans!Instruction) /\ nodes \in Trees
  BY DEF Compiled
<1>2. t.from[n] \in Nat /\ t.to[n] \in Nat /\ t.opd[n] \in Trans!Operand
  BY <1>1 DEF Trans!Translations
<1>3. t.from[n] <= t.to[n] /\ t.to[n] <= Len(instrs)
  BY <1>1 DEF Trans!Translates
<1>4. Len(instrs) \in Nat /\ DOMAIN instrs = 1..Len(instrs)
  BY <1>1, LenProperties
<1> QED
  BY <1>1, <1>2, <1>3, <1>4

(* What is put there stands there. *)
LEMMA PutFacts ==
  ASSUME NEW p, NEW op, NEW o, NEW q, NEW d,
         Trans!Puts(instrs, p, Trans!Instr(op, o, q, d))
  PROVE  Makes(p, op, o, q, d)
BY DEF Trans!Puts, Trans!Instr, Makes, Stands

(* A jump that the translation puts somewhere is one that leaps. *)
LEMMA PutJump ==
  ASSUME NEW p, NEW l, Trans!Puts(instrs, p, Trans!Jump(l))
  PROVE  Leaps(p, l)
BY DEF Trans!Puts, Trans!Jump, Trans!Instr, Trans!Label, Leaps, Stands, Target

(* A branch that the translation puts somewhere tests its operand. *)
LEMMA PutTest ==
  ASSUME NEW p, NEW o, NEW l, Trans!Puts(instrs, p, Trans!Test(o, l))
  PROVE  Tests(p, o, l)
BY DEF Trans!Puts, Trans!Test, Trans!Instr, Trans!Label, Tests, Stands, Target

(* A name of the tree is there. *)
LEMMA NamesThere ==
  ASSUME nodes \in Trees, ~Repaired(nodes),
         NEW n \in DOMAIN nodes, NEW i \in 1..Arity(n),
         Type(n, i) \in {"IDENTIFIER", "LITERAL"}
  PROVE  /\ Attr(n, i) # NULL
         /\ Type(n, i) = "IDENTIFIER" => Attr(n, i) \in Names
         /\ Type(n, i) = "LITERAL" => Attr(n, i) \in Literals
<1>1. nodes \in Trees /\ ~Repaired(nodes)
  OBVIOUS
<1>2. i \in DOMAIN nodes[n].children
  BY <1>1, NodeFacts
<1>3. Attr(n, i) # NULL
  <2>1. nodes[n].children[i].type \in {"IDENTIFIER", "LITERAL"}
    BY DEF Type
  <2>2. nodes[n].children[i].attr # NULL
    BY <1>1, <1>2, <2>1 DEF Repaired
  <2> QED
    BY <2>2 DEF Attr
<1>4. /\ Type(n, i) = "IDENTIFIER" => Attr(n, i) \in Names \cup {NULL}
      /\ Type(n, i) = "LITERAL" => Attr(n, i) \in Literals \cup {NULL}
  BY <1>1, <1>2, KidFacts DEF Follows, Attr, Type
<1> QED
  BY <1>3, <1>4

(* The code of the statements, *)
LEMMA StatementCode ==
  ASSUME NEW t, Compiled(t), NEW n \in DOMAIN nodes
  PROVE  /\ nodes[n].nt = "assign" => LaidAssign(t, n)
         /\ nodes[n].nt = "input" => LaidInput(t, n)
         /\ nodes[n].nt = "output" => LaidOutput(t, n)
         /\ nodes[n].nt = "branch" => LaidBranch(t, n)
         /\ nodes[n].nt = "loop" => LaidLoop(t, n)
         /\ nodes[n].nt = "repeat" => LaidRepeat(t, n)
<1> USE DEF Trans!From, Trans!To, Trans!Opd, Trans!Sub, Sub
<1>1. Trans!Translates(nodes, instrs, t, n) /\ nodes \in Trees
  BY CompiledPlaces
<1>2. ASSUME nodes[n].nt = "assign" PROVE LaidAssign(t, n)
  <2>1. Trans!TranslatesAssign(nodes, instrs, t, n) /\ Last(t, n) = t.to[Sub(n, 3)]
    BY <1>1, <1>2 DEF Trans!Translates, Last
  <2>2. Makes(Last(t, n), "ASSIGN", t.opd[Sub(n, 3)], Trans!Unset, Trans!Symbol(Attr(n, 1)))
    BY <2>1, PutFacts DEF Trans!TranslatesAssign, Trans!Attr, Attr
  <2> QED
    <3>1. t.from[Sub(n, 3)] = t.from[n] /\ t.to[n] = Last(t, n) + 1
      BY <2>1 DEF Trans!TranslatesAssign
    <3>2. /\ Stands(Last(t, n), "ASSIGN")
          /\ instrs[Last(t, n) + 1].src1 = t.opd[Sub(n, 3)]
          /\ instrs[Last(t, n) + 1].dest = Trans!Symbol(Attr(n, 1))
      BY <2>2 DEF Makes
    <3>3. instrs[Last(t, n) + 1].dest.val = Attr(n, 1)
      BY <3>2 DEF Trans!Symbol
    <3> QED
      BY <3>1, <3>2, <3>3 DEF LaidAssign
<1>3. ASSUME nodes[n].nt = "input" PROVE LaidInput(t, n)
  <2>1. Trans!TranslatesInput(nodes, instrs, t, n) /\ Last(t, n) = t.from[n]
    <3>1. Trans!TranslatesInput(nodes, instrs, t, n)
      BY <1>1, <1>3 DEF Trans!Translates
    <3>2. Last(t, n) = t.from[n]
      BY <1>3 DEF Last
    <3> QED
      BY <3>1, <3>2
  <2>2. Attr(n, 2) # NULL
    <3>1. Shaped(n)
      BY <1>1, ShapeFacts
    <3>2. HasToken(n, 2, {"IDENTIFIER"})
      BY <1>3, <3>1 DEF Shaped
    <3>3. 2 \in 1..Arity(n) /\ Type(n, 2) \in {"IDENTIFIER", "LITERAL"}
      BY <3>2 DEF HasToken
    <3> QED
      BY <3>3, NamesThere DEF Compiled
  <2>3. /\ t.to[n] = t.from[n] + 1
        /\ Makes(Last(t, n), "READ", Trans!Unset, Trans!Unset, Trans!Symbol(Attr(n, 2)))
    BY <2>1, <2>2, PutFacts DEF Trans!TranslatesInput, Trans!Attr, Attr
  <2> QED
    BY <2>3 DEF LaidInput, Makes, Trans!Symbol
<1>4. ASSUME nodes[n].nt = "output" PROVE LaidOutput(t, n)
  <2>1. Trans!TranslatesOutput(nodes, instrs, t, n) /\ Last(t, n) = t.to[Sub(n, 2)]
    BY <1>1, <1>4 DEF Trans!Translates, Last
  <2>2. Makes(Last(t, n), "WRITE", t.opd[Sub(n, 2)], Trans!Unset, Trans!Unset)
    BY <2>1, PutFacts DEF Trans!TranslatesOutput
  <2> QED
    BY <2>1, <2>2 DEF LaidOutput, Makes, Trans!TranslatesOutput
<1>5. ASSUME nodes[n].nt = "branch" PROVE LaidBranch(t, n)
  <2>1. Trans!TranslatesBranch(nodes, instrs, t, n) /\ Last(t, n) = t.to[Sub(n, 3)]
    BY <1>1, <1>5 DEF Trans!Translates, Last
  <2>2. Leaps(t.to[Sub(n, 8)], t.to[n])
    BY <2>1, PutJump DEF Trans!TranslatesBranch
  <2>3. Tests(Last(t, n), t.opd[Sub(n, 3)], t.from[Sub(n, 6)])
    BY <2>1, PutTest DEF Trans!TranslatesBranch
  <2> QED
    BY <2>1, <2>2, <2>3 DEF LaidBranch, Trans!TranslatesBranch
<1>6. ASSUME nodes[n].nt = "loop" PROVE LaidLoop(t, n)
  <2>1. Trans!TranslatesLoop(nodes, instrs, t, n) /\ Last(t, n) = t.to[Sub(n, 3)]
    BY <1>1, <1>6 DEF Trans!Translates, Last
  <2>2. Leaps(Last(t, n) + 1, t.to[n]) /\ Leaps(t.to[Sub(n, 6)], t.from[n])
    BY <2>1, PutJump DEF Trans!TranslatesLoop
  <2>3. Tests(Last(t, n), t.opd[Sub(n, 3)], t.from[Sub(n, 6)])
    BY <2>1, PutTest DEF Trans!TranslatesLoop
  <2> QED
    BY <2>1, <2>2, <2>3 DEF LaidLoop, Trans!TranslatesLoop
<1>7. ASSUME nodes[n].nt = "repeat" PROVE LaidRepeat(t, n)
  <2>1. Trans!TranslatesRepeat(nodes, instrs, t, n) /\ Last(t, n) = t.to[Sub(n, 5)]
    BY <1>1, <1>7 DEF Trans!Translates, Last
  <2>2. Tests(Last(t, n), t.opd[Sub(n, 5)], t.from[n])
    BY <2>1, PutTest DEF Trans!TranslatesRepeat
  <2> QED
    BY <2>1, <2>2 DEF LaidRepeat, Trans!TranslatesRepeat
<1> QED
  BY <1>2, <1>3, <1>4, <1>5, <1>6, <1>7

(* of the lists, *)
LEMMA ListCode ==
  ASSUME NEW t, Compiled(t), NEW n \in DOMAIN nodes
  PROVE  /\ nodes[n].nt = "statements" => LaidList(t, n)
         /\ nodes[n].nt = "source" =>
              /\ t.from[Sub(n, 4)] = t.from[n] /\ t.to[Sub(n, 4)] = t.to[n]
<1> USE DEF Trans!From, Trans!To, Trans!Opd, Trans!Sub, Sub
<1>1. Trans!Translates(nodes, instrs, t, n) /\ nodes \in Trees /\ Arity(n) \in Nat
  BY CompiledPlaces, NodeFacts
<1>2. ASSUME nodes[n].nt = "statements" PROVE LaidList(t, n)
  <2>1. Trans!Arity(nodes, n) = Arity(n)
    BY DEF Trans!Arity, Arity
  <2>2. /\ Trans!ListUpTo(nodes, t, n, Arity(n))
        /\ t.to[n] = Trans!ListEnd(nodes, t, n, Arity(n))
    BY <1>1, <1>2, <2>1 DEF Trans!Translates
  <2>3. \A i \in 1..Arity(n) : t.from[Sub(n, i)] = Trans!ListEnd(nodes, t, n, i - 1)
    BY <2>2 DEF Trans!ListUpTo
  <2>4. \A i \in Nat : Trans!ListEnd(nodes, t, n, i)
                       = IF i = 0 THEN t.from[n] ELSE t.to[Sub(n, i)]
    BY DEF Trans!ListEnd
  <2>5. ASSUME NEW i \in 1..Arity(n)
        PROVE  t.from[Sub(n, i)] = IF i = 1 THEN t.from[n] ELSE t.to[Sub(n, i - 1)]
    <3>1. i - 1 \in Nat /\ (i - 1 = 0 <=> i = 1)
      BY <1>1
    <3> QED
      BY <2>3, <2>4, <3>1
  <2> QED
    BY <1>1, <2>2, <2>4, <2>5 DEF LaidList
<1>3. ASSUME nodes[n].nt = "source"
      PROVE  t.from[Sub(n, 4)] = t.from[n] /\ t.to[Sub(n, 4)] = t.to[n]
  <2>1. Trans!TranslatesSource(nodes, t, n)
    BY <1>1, <1>3 DEF Trans!Translates
  <2>2. Sub(n, 2) \in DOMAIN nodes /\ nodes[Sub(n, 2)].nt = "variables"
    BY <1>1, <1>3, ShapeFacts DEF Shaped, HasSub
  <2>3. Trans!Translates(nodes, instrs, t, Sub(n, 2))
    BY <2>2, CompiledPlaces
  <2>4. t.to[Sub(n, 2)] = t.from[Sub(n, 2)]
    BY <2>2, <2>3 DEF Trans!Translates
  <2> QED
    BY <2>1, <2>4 DEF Trans!TranslatesSource
<1> QED
  BY <1>2, <1>3

(* of the conditions and of the operands. *)
LEMMA OperandCode ==
  ASSUME NEW t, Compiled(t), NEW n \in DOMAIN nodes
  PROVE  /\ nodes[n].nt = "condition" => LaidCondition(t, n)
         /\ nodes[n].nt \in {"expression", "term"} => LaidChain(t, n)
         /\ nodes[n].nt = "factor" => LaidFactor(t, n)
<1> USE DEF Trans!From, Trans!To, Trans!Opd, Trans!Sub, Sub
<1>1. Trans!Translates(nodes, instrs, t, n) /\ nodes \in Trees /\ Arity(n) \in Nat
  BY CompiledPlaces, NodeFacts
<1>2. ASSUME nodes[n].nt = "condition" PROVE LaidCondition(t, n)
  <2>1. Trans!TranslatesCondition(nodes, instrs, t, n)
    BY <1>1, <1>2 DEF Trans!Translates
  <2>2. Makes(t.to[Sub(n, 3)], Type(n, 2), t.opd[Sub(n, 1)], t.opd[Sub(n, 3)], t.opd[n])
    BY <2>1, PutFacts DEF Trans!TranslatesCondition, Trans!Word, Type
  <2> QED
    BY <2>1, <2>2 DEF LaidCondition, Trans!TranslatesCondition
<1>3. ASSUME nodes[n].nt \in {"expression", "term"} PROVE LaidChain(t, n)
  <2>1. Trans!Arity(nodes, n) = Arity(n)
    BY DEF Trans!Arity, Arity
  <2>2. Trans!TranslatesChain(nodes, instrs, t, n)
    <3>1. CASE nodes[n].nt = "expression"
      BY <1>1, <3>1 DEF Trans!Translates
    <3>2. CASE nodes[n].nt = "term"
      BY <1>1, <3>2 DEF Trans!Translates
    <3> QED
      BY <1>3, <3>1, <3>2
  <2>3. /\ Trans!ChainUpTo(nodes, instrs, t, n, Arity(n))
        /\ t.to[n] = Trans!End(nodes, t, n, Arity(n))
        /\ t.opd[n] = Trans!Value(nodes, instrs, t, n, Arity(n))
    BY <2>1, <2>2 DEF Trans!TranslatesChain
  <2>4. \A k : /\ Trans!End(nodes, t, n, k) = ChainEnd(t, n, k)
               /\ Trans!Value(nodes, instrs, t, n, k) = ChainValue(t, n, k)
    BY DEF Trans!End, ChainEnd, Trans!Value, ChainValue
  <2>5. ASSUME NEW k \in 2..Arity(n), k % 2 = 1
        PROVE  LaidLink(t, n, k)
    <3>1. Trans!Combines(nodes, instrs, t, n, k)
      BY <2>3, <2>5 DEF Trans!ChainUpTo
    <3>2. /\ t.from[Sub(n, k)] = ChainEnd(t, n, k - 2)
          /\ ChainValue(t, n, k).type = "TEMPORARY"
          /\ Trans!Puts(instrs, t.to[Sub(n, k)],
               Trans!Instr(Trans!OpOf[Type(n, k - 1)], ChainValue(t, n, k - 2),
                         t.opd[Sub(n, k)], ChainValue(t, n, k)))
      BY <2>4, <3>1 DEF Trans!Combines, Trans!Word, Type
    <3> QED
      BY <3>2, PutFacts DEF LaidLink
  <2>6. Arity(n) >= 1
    <3>1. Arity(n) % 2 = 1
      BY <1>1, <1>3, ComposedFacts DEF Composed, ChainShaped
    <3> QED
      BY <1>1, <3>1
  <2>7. t.from[Sub(n, 1)] = t.from[n]
    BY <2>3, <2>6 DEF Trans!ChainUpTo
  <2> QED
    BY <2>3, <2>4, <2>5, <2>7 DEF LaidChain
<1>4. ASSUME nodes[n].nt = "factor" PROVE LaidFactor(t, n)
  <2>1. Trans!TranslatesFactor(nodes, instrs, t, n)
    BY <1>1, <1>4 DEF Trans!Translates
  <2>2. 1 \in 1..Arity(n)
    BY <1>1, <1>4, ComposedFacts DEF Composed, HasToken
  <2>3. Trans!Word(nodes, n, 1) = Type(n, 1) /\ Trans!Attr(nodes, n, 1) = Attr(n, 1)
    BY DEF Trans!Word, Type, Trans!Attr, Attr
  <2>4. ASSUME Type(n, 1) = "LITERAL"
        PROVE  t.to[n] = t.from[n] /\ t.opd[n] = Literal(Attr(n, 1))
    <3>1. Trans!ValueOf(nodes[n].children[1]) = Attr(n, 1)
      BY <2>2, <2>4, NamesThere DEF Compiled, Trans!ValueOf, Attr
    <3> QED
      BY <2>1, <2>3, <2>4, <3>1 DEF Trans!TranslatesFactor, Trans!Literal, Literal
  <2>5. Type(n, 1) = "IDENTIFIER" =>
          t.to[n] = t.from[n] /\ t.opd[n] = Symbol(Attr(n, 1))
    BY <2>1, <2>3 DEF Trans!TranslatesFactor, Trans!Symbol, Symbol
  <2>6. Type(n, 1) = "LPAREN" =>
          /\ t.from[Sub(n, 2)] = t.from[n] /\ t.to[n] = t.to[Sub(n, 2)]
          /\ t.opd[n] = t.opd[Sub(n, 2)]
    BY <2>1, <2>3 DEF Trans!TranslatesFactor
  <2>7. ASSUME Type(n, 1) \in {"PLUS", "MINUS"}
        PROVE  /\ t.from[Sub(n, 2)] = t.from[n] /\ t.to[n] = t.to[Sub(n, 2)] + 1
               /\ Stands(t.to[Sub(n, 2)], Trans!SignOf[Type(n, 1)])
               /\ instrs[t.to[Sub(n, 2)] + 1].src1 = t.opd[Sub(n, 2)]
               /\ instrs[t.to[Sub(n, 2)] + 1].dest = t.opd[n]
               /\ t.opd[n].type = "TEMPORARY"
    <3>1. /\ t.from[Sub(n, 2)] = t.from[n] /\ t.to[n] = t.to[Sub(n, 2)] + 1
          /\ t.opd[n].type = "TEMPORARY"
          /\ Trans!Puts(instrs, t.to[Sub(n, 2)],
               Trans!Instr(Trans!SignOf[Type(n, 1)], t.opd[Sub(n, 2)], Trans!Unset, t.opd[n]))
      BY <2>1, <2>3, <2>7 DEF Trans!TranslatesFactor
    <3>2. Makes(t.to[Sub(n, 2)], Trans!SignOf[Type(n, 1)], t.opd[Sub(n, 2)], Trans!Unset,
                t.opd[n])
      BY <3>1, PutFacts
    <3> QED
      BY <3>1, <3>2 DEF Makes
  <2> QED
    BY <2>4, <2>5, <2>6, <2>7 DEF LaidFactor
<1> QED
  BY <1>2, <1>3, <1>4

-----------------------------------------------------------------------------
(* What the width of the numbers is, for main and for the interpreter. *)
LEMMA Width ==
  /\ MaxInt \in Nat /\ MaxInt > 0 /\ DivTraps \in BOOLEAN /\ Inputs \subseteq Int
  /\ Source!Int64 = Run!Int64 /\ Source!Int64 = (-MaxInt - 1)..MaxInt
  /\ Literals \subseteq Source!Int64 /\ Garbage \subseteq Source!Int64
  /\ NULL \notin Source!Int64 /\ Run!Uninit = NULL
BY RunAssumptions DEF Run!InterpreterAssumption, Source!Int64, Run!Int64, Run!Uninit

(* A multiple. *)
LEMMA Multiple ==
  ASSUME NEW m \in Nat, m > 0, NEW n \in Int
  PROVE  /\ n \div m \in Int /\ n % m \in 0..(m - 1)
         /\ n = m * (n \div m) + (n % m)
OBVIOUS

(* Between -m and m there is no multiple of m but 0. *)
LEMMA SmallMultiple ==
  ASSUME NEW m \in Nat, m > 0, NEW a \in Int, -m < m * a, m * a < m
  PROVE  a = 0
<1>1. CASE a >= 1
  <2>1. m * a >= m
    BY <1>1
  <2> QED
    BY <2>1
<1>2. CASE a <= -1
  <2>1. m * a <= -m
    BY <1>2
  <2> QED
    BY <2>1
<1> QED
  BY <1>1, <1>2

(* Of the numbers in 64 bits one is congruent to a number; *)
LEMMA OneCongruent ==
  ASSUME NEW n \in Int, NEW v \in Source!Int64, (v - n) % (2 * MaxInt + 2) = 0
  PROVE  Source!Congruent(n) = v
<1> DEFINE m == 2 * MaxInt + 2
<1>1. m \in Nat /\ m > 0 /\ Source!Int64 = (-MaxInt - 1)..MaxInt /\ MaxInt \in Nat
  BY Width
<1>2. ASSUME NEW w \in Source!Int64, (w - n) % m = 0
      PROVE  w = v
  <2>1. v \in Int /\ w \in Int /\ w - v < m /\ -m < w - v
    BY <1>1
  <2> HIDE DEF m
  <2>2. v - n = m * ((v - n) \div m) /\ (v - n) \div m \in Int
    BY <1>1, <2>1, Multiple DEF m
  <2>3. w - n = m * ((w - n) \div m) /\ (w - n) \div m \in Int
    BY <1>1, <1>2, <2>1, Multiple
  <2>4. PICK a \in Int, b \in Int : v - n = m * a /\ w - n = m * b
    BY <2>2, <2>3
  <2>5. w - v = m * b - m * a
    BY <2>1, <2>4
  <2>6. m * b - m * a = m * (b - a)
    BY <1>1
  <2>7. b - a \in Int /\ m * (b - a) < m /\ -m < m * (b - a)
    BY <2>1, <2>5, <2>6
  <2>8. b - a = 0
    BY <1>1, <2>7, SmallMultiple
  <2>9. b = a
    BY <2>8
  <2> QED
    BY <1>1, <2>1, <2>4, <2>9
<1>3. \A w \in Source!Int64 : (w - n) % (2 * MaxInt + 2) = 0 => w = v
  BY <1>2
<1> QED
  BY <1>3, Zenon DEF Source!Congruent

(* and it is this one that the machine keeps. *)
LEMMA WrappedIsCongruent ==
  ASSUME NEW n \in Int
  PROVE  /\ Run!Wrapped(n) = Source!Congruent(n)
         /\ Source!Congruent(n) \in Source!Int64
<1> DEFINE m == 2 * MaxInt + 2
           r == (n + MaxInt + 1) % m
           v == r - MaxInt - 1
<1>1. m \in Nat /\ m > 0 /\ MaxInt \in Nat
  BY Width
<1>2. Run!Wrapped(n) = v
  BY DEF Run!Wrapped
<1>3. v \in Source!Int64
  BY <1>2, Run!WrappedInt64, RunAssumptions, Width
<1>4. (v - n) % m = 0
  <2>1. n + MaxInt + 1 \in Int
    BY <1>1
  <2> HIDE DEF m
  <2>2. PICK q \in Int : n + MaxInt + 1 = m * q + r /\ r \in Int
    BY <1>1, <2>1, Multiple
  <2> HIDE DEF r
  <2>3. v - n = -(m * q)
    BY <1>1, <2>2
  <2>4. -(m * q) = m * (-q) /\ -q \in Int
    BY <1>1
  <2>5. \A k \in Int : (m * k) % m = 0
    <3> TAKE k \in Int
    <3>1. m * k \in Int
      BY <1>1
    <3>2. PICK c \in Int, d \in 0..(m - 1) : m * k = m * c + d /\ (m * k) % m = d
      BY <1>1, <3>1, Multiple
    <3>3. d = m * (k - c)
      BY <1>1, <3>2
    <3>4. k - c \in Int /\ -m < m * (k - c) /\ m * (k - c) < m
      BY <1>1, <3>2, <3>3
    <3>5. k - c = 0
      BY <1>1, <3>4, SmallMultiple
    <3> QED
      BY <1>1, <3>2, <3>3, <3>5
  <2> QED
    BY <2>3, <2>4, <2>5
<1> HIDE DEF m, v
<1>5. Source!Congruent(n) = v
  BY <1>3, <1>4, OneCongruent DEF m
<1> QED
  BY <1>2, <1>3, <1>5

(* A number in 64 bits is kept as it is. *)
LEMMA CongruentSelf == ASSUME NEW n \in Source!Int64 PROVE Source!Congruent(n) = n
<1>1. n \in Int /\ n - n = 0 /\ 0 % (2 * MaxInt + 2) = 0
  <2>1. 2 * MaxInt + 2 \in Nat /\ 2 * MaxInt + 2 > 0 /\ n \in Int
    BY Width
  <2> QED
    BY <2>1
<1> QED
  BY <1>1, OneCongruent

(* What a division leaves over, in the signs of its operands. *)
Divides(q, l, r) ==
  Source!Size(l - q * r) < Source!Size(r) /\ (l - q * r) * l >= 0

(* What C computes divides. *)
LEMMA QuotientDivides ==
  ASSUME NEW l \in Source!Int64, NEW r \in Source!Int64, r # 0
  PROVE  /\ Run!Quotient(l, r) \in (-MaxInt - 1)..(MaxInt + 1)
         /\ Divides(Run!Quotient(l, r), l, r)
         /\ Run!Quotient(l, r) \notin Source!Int64 <=> l = -MaxInt - 1 /\ r = -1
<1>1. MaxInt \in Nat /\ l \in -MaxInt - 1..MaxInt /\ r \in -MaxInt - 1..MaxInt
  BY Width
<1>2. PICK a \in Nat, b \in Nat :
        /\ a = Run!Magnitude(l) /\ b = Run!Magnitude(r) /\ b > 0
        /\ l = (IF l < 0 THEN -a ELSE a) /\ r = (IF r < 0 THEN -b ELSE b)
        /\ a <= MaxInt + 1
  <2>1. Run!Magnitude(l) \in Nat /\ Run!Magnitude(r) \in Nat /\ Run!Magnitude(r) > 0
        /\ l = (IF l < 0 THEN -Run!Magnitude(l) ELSE Run!Magnitude(l))
        /\ r = (IF r < 0 THEN -Run!Magnitude(r) ELSE Run!Magnitude(r))
        /\ Run!Magnitude(l) <= MaxInt + 1
    BY <1>1 DEF Run!Magnitude
  <2> QED
    BY <2>1
<1>3. PICK d \in Nat, e \in 0..(b - 1) : a = b * d + e /\ a \div b = d
  <2>1. a \div b \in Int /\ a % b \in 0..(b - 1) /\ a = b * (a \div b) + (a % b)
    BY <1>2, Multiple
  <2>2. a \div b >= 0
    BY <1>2
  <2> QED
    BY <2>1, <2>2
<1>4. d <= a
  <2>1. b * d >= d
    BY <1>2
  <2> QED
    BY <1>2, <1>3, <2>1
<1>5. PICK q \in Int : q = Run!Quotient(l, r) /\ q = IF (l < 0) = (r < 0) THEN d ELSE -d
  BY <1>2, <1>3 DEF Run!Quotient
<1>6. q \in (-MaxInt - 1)..(MaxInt + 1)
  BY <1>1, <1>2, <1>4, <1>5
<1>7. l - q * r = IF l < 0 THEN -e ELSE e
  <2>1. q * r = IF l < 0 THEN -(b * d) ELSE b * d
    <3>1. CASE l < 0 /\ r < 0
      <4>1. q = d /\ r = -b
        BY <1>2, <1>5, <3>1
      <4>2. d * (-b) = -(b * d)
        OBVIOUS
      <4> QED
        BY <3>1, <4>1, <4>2
    <3>2. CASE l < 0 /\ ~(r < 0)
      <4>1. q = -d /\ r = b
        BY <1>2, <1>5, <3>2
      <4>2. (-d) * b = -(b * d)
        OBVIOUS
      <4> QED
        BY <3>2, <4>1, <4>2
    <3>3. CASE ~(l < 0) /\ r < 0
      <4>1. q = -d /\ r = -b
        BY <1>2, <1>5, <3>3
      <4>2. (-d) * (-b) = b * d
        OBVIOUS
      <4> QED
        BY <3>3, <4>1, <4>2
    <3>4. CASE ~(l < 0) /\ ~(r < 0)
      <4>1. q = d /\ r = b
        BY <1>2, <1>5, <3>4
      <4>2. d * b = b * d
        OBVIOUS
      <4> QED
        BY <3>4, <4>1, <4>2
    <3> QED
      BY <3>1, <3>2, <3>3, <3>4
  <2>2. PICK p \in Int : p = b * d
    OBVIOUS
  <2>3. q * r = (IF l < 0 THEN -p ELSE p) /\ a = p + e
    BY <1>3, <2>1, <2>2
  <2> QED
    BY <1>2, <2>3
<1>8. Divides(q, l, r)
  <2>1. PICK x \in Int : x = l - q * r
    BY <1>1
  <2>2. x = IF l < 0 THEN -e ELSE e
    BY <1>7, <2>1
  <2>3. Source!Size(x) = e /\ Source!Size(r) = b
    BY <1>2, <2>2 DEF Source!Size
  <2>4. x * l >= 0
    <3>1. CASE l < 0
      <4>1. x = -e /\ l = -a /\ (-e) * (-a) = e * a /\ e * a >= 0
        BY <1>2, <2>2, <3>1
      <4> QED
        BY <4>1
    <3>2. CASE ~(l < 0)
      <4>1. x = e /\ l = a /\ e * a >= 0
        BY <1>2, <2>2, <3>2
      <4> QED
        BY <4>1
    <3> QED
      BY <3>1, <3>2
  <2> QED
    BY <2>1, <2>3, <2>4 DEF Divides
<1>9. q \notin Source!Int64 <=> l = -MaxInt - 1 /\ r = -1
  <2>1. q \notin Source!Int64 <=> q = MaxInt + 1
    BY <1>1, <1>6, Width
  <2>2. ASSUME q = MaxInt + 1
        PROVE  l = -MaxInt - 1 /\ r = -1
    <3>1. d = MaxInt + 1 /\ (l < 0) = (r < 0)
      BY <1>1, <1>5, <2>2
    <3>2. a = MaxInt + 1
      BY <1>2, <1>4, <3>1
    <3>3. b = 1
      <4> SUFFICES ASSUME b >= 2 PROVE FALSE
        BY <1>2
      <4>1. b * d >= 2 * d
        OBVIOUS
      <4> QED
        BY <1>1, <1>3, <3>1, <3>2, <4>1
    <3> QED
      BY <1>1, <1>2, <3>1, <3>2, <3>3
  <2>3. ASSUME l = -MaxInt - 1, r = -1
        PROVE  q = MaxInt + 1
    <3>1. a = MaxInt + 1 /\ b = 1 /\ l < 0 /\ r < 0
      BY <1>1, <1>2, <2>3
    <3>2. d = a
      BY <1>3, <3>1
    <3> QED
      BY <1>5, <3>1, <3>2
  <2> QED
    BY <2>1, <2>2, <2>3
<1> QED
  BY <1>5, <1>6, <1>8, <1>9

(* Nothing else does. *)
LEMMA DividesOne ==
  ASSUME NEW l \in Int, NEW r \in Int, r # 0, NEW p \in Int, NEW q \in Int,
         Divides(p, l, r), Divides(q, l, r)
  PROVE  p = q
<1>1. PICK x \in Int, y \in Int : x = l - p * r /\ y = l - q * r
  OBVIOUS
<1>2. PICK b \in Nat : b > 0 /\ b = Source!Size(r) /\ (r = b \/ r = -b)
  <2>1. Source!Size(r) \in Nat /\ Source!Size(r) > 0
        /\ (r = Source!Size(r) \/ r = -Source!Size(r))
    BY DEF Source!Size
  <2> QED
    BY <2>1
<1>3. -b < x /\ x < b /\ -b < y /\ y < b
  BY <1>1, <1>2 DEF Divides, Source!Size
<1>4. x * l >= 0 /\ y * l >= 0
  BY <1>1 DEF Divides
<1>5. \A z \in Int : z * l >= 0 => (l > 0 => z >= 0) /\ (l < 0 => z <= 0)
  OBVIOUS
<1>6. x - y = r * (q - p)
  <2>1. r * (q - p) = r * q - r * p /\ r * q = q * r /\ r * p = p * r
    OBVIOUS
  <2> QED
    BY <1>1, <2>1
<1>7. CASE l # 0
  <2>1. -b < x - y /\ x - y < b
    BY <1>3, <1>4, <1>5, <1>7
  <2>2. PICK c \in Int : (c = q - p \/ c = p - q) /\ b * c = x - y
    <3>1. CASE r = b
      <4>1. q - p \in Int /\ b * (q - p) = x - y
        BY <1>6, <3>1
      <4> QED
        BY <4>1
    <3>2. CASE r = -b
      <4>1. (-b) * (q - p) = b * (p - q)
        OBVIOUS
      <4> QED
        BY <1>6, <3>2, <4>1
    <3> QED
      BY <1>2, <3>1, <3>2
  <2>3. c = 0
    BY <1>2, <2>1, <2>2, SmallMultiple
  <2> QED
    BY <2>2, <2>3
<1>8. CASE l = 0
  <2>1. ASSUME NEW n \in Int, NEW z \in Int, z = l - n * r, -b < z, z < b
        PROVE  n = 0
    <3>1. PICK c \in Int : (c = n \/ c = -n) /\ b * c = z
      <4>1. z = -(n * r)
        BY <1>8, <2>1
      <4>2. CASE r = b
        <5>1. -(n * b) = b * (-n)
          OBVIOUS
        <5> QED
          BY <4>1, <4>2, <5>1
      <4>3. CASE r = -b
        <5>1. -(n * (-b)) = b * n
          OBVIOUS
        <5> QED
          BY <4>1, <4>3, <5>1
      <4> QED
        BY <1>2, <4>2, <4>3
    <3>2. c = 0
      BY <1>2, <2>1, <3>1, SmallMultiple
    <3> QED
      BY <3>1, <3>2
  <2>2. p = 0 /\ q = 0
    BY <1>1, <1>3, <2>1
  <2> QED
    BY <2>2
<1> QED
  BY <1>7, <1>8

(* The quotient of the machine is the one that is rounded towards zero. *)
LEMMA QuotientIsTruncated ==
  ASSUME NEW l \in Source!Int64, NEW r \in Source!Int64, r # 0
  PROVE  /\ Run!Quotient(l, r) = Source!Truncated(l, r)
         /\ Source!Truncated(l, r) \in Int
         /\ Source!Truncated(l, r) \notin Source!Int64
               <=> l = -MaxInt - 1 /\ r = -1
<1> DEFINE q == Run!Quotient(l, r)
           Range0 == (-MaxInt - 1)..(MaxInt + 1)
<1>1. q \in Range0 /\ Divides(q, l, r)
      /\ (q \notin Source!Int64 <=> l = -MaxInt - 1 /\ r = -1)
  BY QuotientDivides
<1>2. l \in Int /\ r \in Int /\ Range0 \subseteq Int
  BY Width
<1> HIDE DEF q, Range0
<1>3. \A p \in Range0 : Divides(p, l, r) => p = q
  BY <1>1, <1>2, DividesOne
<1>4. Source!Truncated(l, r) = CHOOSE p \in Range0 : Divides(p, l, r)
  BY DEF Source!Truncated, Range0, Divides
<1>5. Source!Truncated(l, r) = q
  BY <1>1, <1>3, <1>4, Zenon
<1> QED
  BY <1>1, <1>2, <1>5 DEF q

-----------------------------------------------------------------------------
(* The outcomes, and the words that combine them. *)
Results == [fault : {"none"}, val : Source!Int64]
             \cup [fault : {"failed", "trapped"}, val : {0}]

Combining == {"PLUS", "MINUS", "MUL", "DIV"}

(* A number is an outcome, a fault is one, and there are no others. *)
LEMMA ResultFacts ==
  /\ \A v \in Source!Int64 : Source!Number(v) \in Results
  /\ \A f \in {"failed", "trapped"} : Source!Fault(f) \in Results
  /\ \A x \in Results : /\ x.fault \in {"none", "failed", "trapped"}
                        /\ x.val \in Source!Int64
                        /\ x.fault = "none" => x = Source!Number(x.val)
                        /\ x.fault # "none" => x = Source!Fault(x.fault)
  /\ \A v : Source!Number(v).fault = "none" /\ Source!Number(v).val = v
  /\ \A f : Source!Fault(f).fault = f
<1>1. 0 \in Source!Int64
  BY Width
<1> QED
  BY <1>1 DEF Results, Source!Number, Source!Fault

(* The operation of two numbers is what the machine computes. *)
LEMMA NumbersCombined ==
  ASSUME NEW w \in Combining, NEW l \in Source!Int64, NEW r \in Source!Int64
  PROVE  LET op == Trans!OpOf[w]
             x == Source!Operation(w, Source!Number(l), Source!Number(r))
         IN /\ op \in Run!Arithmetic
            /\ op = "DIV" /\ r = 0 => x = Source!Fault("failed")
            /\ op = "DIV" /\ r # 0 /\ Run!Traps(l, r) => x = Source!Fault("trapped")
            /\ (op = "DIV" => r # 0 /\ ~Run!Traps(l, r)) =>
                 x = Source!Number(Run!Wrapped(Run!Result(op, l, r)))
            /\ x \in Results
<1> DEFINE op == Trans!OpOf[w]
           a == Source!Number(l)
           b == Source!Number(r)
           x == Source!Operation(w, a, b)
<1>1. l \in Int /\ r \in Int
  BY Width
<1>2. a.fault = "none" /\ b.fault = "none" /\ a.val = l /\ b.val = r
  BY ResultFacts
<1>3. \A n \in Int : /\ Source!Number(Source!Congruent(n)) = Source!Number(Run!Wrapped(n))
                     /\ Source!Number(Source!Congruent(n)) \in Results
  BY WrappedIsCongruent, ResultFacts
<1>4. /\ Trans!OpOf["PLUS"] = "ADD" /\ Trans!OpOf["MINUS"] = "SUB"
      /\ Trans!OpOf["MUL"] = "MUL" /\ Trans!OpOf["DIV"] = "DIV"
  BY DEF Trans!OpOf
<1> HIDE DEF a, b
<1>5. CASE w = "PLUS"
  <2>1. x = Source!Number(Source!Congruent(l + r)) /\ l + r \in Int
    BY <1>1, <1>2, <1>5 DEF Source!Operation
  <2>2. op = "ADD" /\ op \in Run!Arithmetic /\ Run!Result(op, l, r) = l + r
    BY <1>4, <1>5 DEF Run!Result, Run!Arithmetic
  <2> HIDE DEF op, x
  <2> QED
    BY <1>3, <2>1, <2>2 DEF op, x, a, b
<1>6. CASE w = "MINUS"
  <2>1. x = Source!Number(Source!Congruent(l - r)) /\ l - r \in Int
    BY <1>1, <1>2, <1>6 DEF Source!Operation
  <2>2. op = "SUB" /\ op \in Run!Arithmetic /\ Run!Result(op, l, r) = l - r
    BY <1>4, <1>6 DEF Run!Result, Run!Arithmetic
  <2> HIDE DEF op, x
  <2> QED
    BY <1>3, <2>1, <2>2 DEF op, x, a, b
<1>7. CASE w = "MUL"
  <2>1. x = Source!Number(Source!Congruent(l * r)) /\ l * r \in Int
    BY <1>1, <1>2, <1>7 DEF Source!Operation
  <2>2. op = "MUL" /\ op \in Run!Arithmetic /\ Run!Result(op, l, r) = l * r
    BY <1>4, <1>7 DEF Run!Result, Run!Arithmetic
  <2> HIDE DEF op, x
  <2> QED
    BY <1>3, <2>1, <2>2 DEF op, x, a, b
<1>8. CASE w = "DIV"
  <2>1. x = IF r = 0 THEN Source!Fault("failed")
            ELSE IF Source!Truncated(l, r) \notin Source!Int64 /\ DivTraps
                 THEN Source!Fault("trapped")
                 ELSE Source!Number(Source!Congruent(Source!Truncated(l, r)))
    BY <1>2, <1>8 DEF Source!Operation
  <2>2. op = "DIV" /\ op \in Run!Arithmetic /\ Run!Result(op, l, r) = Run!Quotient(l, r)
    BY <1>4, <1>8 DEF Run!Result, Run!Arithmetic
  <2>3. r # 0 => /\ Run!Quotient(l, r) = Source!Truncated(l, r)
                 /\ Source!Truncated(l, r) \in Int
                 /\ Run!Traps(l, r) <=>
                      Source!Truncated(l, r) \notin Source!Int64 /\ DivTraps
    BY QuotientIsTruncated DEF Run!Traps
  <2> HIDE DEF op, x
  <2>4. CASE r = 0
    <3>1. x = Source!Fault("failed") /\ x \in Results
      BY <2>1, <2>4, ResultFacts
    <3> QED
      BY <2>2, <2>4, <3>1 DEF op, x, a, b
  <2>5. CASE r # 0 /\ Run!Traps(l, r)
    <3>1. x = Source!Fault("trapped") /\ x \in Results
      BY <2>1, <2>3, <2>5, ResultFacts
    <3> QED
      BY <2>2, <2>5, <3>1 DEF op, x, a, b
  <2>6. CASE r # 0 /\ ~Run!Traps(l, r)
    <3>1. x = Source!Number(Run!Wrapped(Run!Result(op, l, r))) /\ x \in Results
      BY <1>3, <2>1, <2>2, <2>3, <2>6
    <3> QED
      BY <2>2, <2>6, <3>1 DEF op, x, a, b
  <2> QED
    BY <2>4, <2>5, <2>6
<1> QED
  BY <1>5, <1>6, <1>7, <1>8 DEF Combining

(* A fault is passed on, the one of the left operand first. *)
LEMMA OutcomesCombined ==
  ASSUME NEW w \in Combining, NEW l \in Results, NEW r \in Results
  PROVE  /\ Source!Operation(w, l, r) \in Results
         /\ l.fault # "none" => Source!Operation(w, l, r) = l
         /\ l.fault = "none" /\ r.fault # "none" => Source!Operation(w, l, r) = r
<1>1. l.fault # "none" => Source!Operation(w, l, r) = l
  BY DEF Source!Operation
<1>2. l.fault = "none" /\ r.fault # "none" => Source!Operation(w, l, r) = r
  BY DEF Source!Operation
<1>3. ASSUME l.fault = "none", r.fault = "none"
      PROVE  Source!Operation(w, l, r) \in Results
  <2>1. l = Source!Number(l.val) /\ r = Source!Number(r.val)
        /\ l.val \in Source!Int64 /\ r.val \in Source!Int64
    BY <1>3, ResultFacts
  <2>2. PICK m \in Source!Int64, n \in Source!Int64 :
          l = Source!Number(m) /\ r = Source!Number(n)
    BY <2>1
  <2>3. Source!Operation(w, Source!Number(m), Source!Number(n)) \in Results
    BY NumbersCombined
  <2> QED
    BY <2>2, <2>3
<1> QED
  BY <1>1, <1>2, <1>3

(* The signs are a sum and a difference with zero. *)
LEMMA SignsCombined ==
  ASSUME NEW v \in Source!Int64
  PROVE  /\ Source!Operation("PLUS", Source!Number(0), Source!Number(v)) = Source!Number(v)
         /\ Source!Operation("MINUS", Source!Number(0), Source!Number(v))
              = Source!Number(Run!Wrapped(-v))
         /\ Run!Wrapped(-v) \in Source!Int64
<1>1. v \in Int /\ 0 + v = v /\ 0 - v = -v /\ -v \in Int
  BY Width
<1>2. /\ Source!Number(0).fault = "none" /\ Source!Number(0).val = 0
      /\ Source!Number(v).fault = "none" /\ Source!Number(v).val = v
  BY ResultFacts
<1>3. Source!Operation("PLUS", Source!Number(0), Source!Number(v))
        = Source!Number(Source!Congruent(v))
  BY <1>1, <1>2 DEF Source!Operation
<1>4. Source!Operation("MINUS", Source!Number(0), Source!Number(v))
        = Source!Number(Source!Congruent(-v))
  BY <1>1, <1>2 DEF Source!Operation
<1> QED
  BY <1>1, <1>3, <1>4, CongruentSelf, WrappedIsCongruent

-----------------------------------------------------------------------------
(* A program without a missing name, and numbers in its variables. *)
Sane ==
  /\ nodes \in Trees /\ ~Repaired(nodes)
  /\ value \in [Names -> Source!Int64]

Half(n) == Arity(n) \div 2

(* The places of a chain. *)
LEMMA HalfFacts ==
  ASSUME nodes \in Trees, NEW n \in DOMAIN nodes,
         nodes[n].nt \in {"expression", "term"}
  PROVE  /\ Half(n) \in Nat /\ Arity(n) = 2 * Half(n) + 1
         /\ \A j \in 1..Half(n) : 2 * j \in 1..Arity(n) /\ Type(n, 2 * j) \in Combining
         /\ \A j \in 0..Half(n) :
              /\ 2 * j + 1 \in 1..Arity(n) /\ Sub(n, 2 * j + 1) \in Source!Expressions
              /\ Sub(n, 2 * j + 1) > n /\ Sub(n, 2 * j + 1) \in (n + 1)..Len(nodes)
              /\ nodes[Sub(n, 2 * j + 1)].nt \in {"term", "factor"}
<1>1. Arity(n) \in Nat /\ n \in Nat /\ Len(nodes) \in Nat /\ DOMAIN nodes = 1..Len(nodes)
  BY NodeFacts
<1>2. PICK operand, operators : /\ ChainShaped(n, operand, operators)
                                /\ operand \in {"term", "factor"}
                                /\ operators \subseteq Combining
  <2>1. Composed(n)
    BY ComposedFacts
  <2>2. CASE nodes[n].nt = "expression"
    BY <2>1, <2>2 DEF Composed, Combining
  <2>3. CASE nodes[n].nt = "term"
    BY <2>1, <2>3 DEF Composed, Combining
  <2> QED
    BY <2>2, <2>3
<1>3. Arity(n) % 2 = 1
  BY <1>2 DEF ChainShaped
<1>4. Half(n) \in Nat /\ Arity(n) = 2 * Half(n) + 1
  BY <1>1, <1>3 DEF Half
<1>5. ASSUME NEW j \in 1..Half(n)
      PROVE  2 * j \in 1..Arity(n) /\ Type(n, 2 * j) \in Combining
  <2>1. 2 * j \in 1..Arity(n) /\ (2 * j) % 2 # 1
    BY <1>4
  <2>2. HasToken(n, 2 * j, operators)
    BY <1>2, <2>1 DEF ChainShaped
  <2> QED
    BY <1>2, <2>1, <2>2 DEF HasToken
<1>6. ASSUME NEW j \in 0..Half(n)
      PROVE  /\ 2 * j + 1 \in 1..Arity(n) /\ Sub(n, 2 * j + 1) \in Source!Expressions
             /\ Sub(n, 2 * j + 1) > n /\ Sub(n, 2 * j + 1) \in (n + 1)..Len(nodes)
             /\ nodes[Sub(n, 2 * j + 1)].nt \in {"term", "factor"}
  <2>1. 2 * j + 1 \in 1..Arity(n) /\ (2 * j + 1) % 2 = 1
    BY <1>4
  <2>2. HasSub(n, 2 * j + 1, operand)
    BY <1>2, <2>1 DEF ChainShaped
  <2>3. /\ Sub(n, 2 * j + 1) \in DOMAIN nodes /\ Sub(n, 2 * j + 1) > n
        /\ nodes[Sub(n, 2 * j + 1)].nt \in {"term", "factor"}
    BY <1>2, <2>2 DEF HasSub
  <2> QED
    BY <1>1, <2>1, <2>3 DEF Source!Expressions
<1> QED
  BY <1>4, <1>5, <1>6

-----------------------------------------------------------------------------
(* The recursions in the definition of Outcome. *)
Part(f, n) ==
  CHOOSE u : u = [j \in 0..(Len(nodes[n].children) \div 2) |->
                    IF j = 0 THEN f[nodes[n].children[1].at]
                    ELSE LET before == u[j - 1]
                         IN Source!Operation(nodes[n].children[2 * j].type, before,
                                             f[nodes[n].children[2 * j + 1].at])]

Worth(f, n) ==
  CASE nodes[n].nt \in {"expression", "term"} ->
         Part(f, n)[Len(nodes[n].children) \div 2]
    [] nodes[n].nt = "factor" ->
         CASE Type(n, 1) = "LITERAL"    -> Source!Number(Attr(n, 1))
           [] Type(n, 1) = "IDENTIFIER" -> Source!Number(value[Attr(n, 1)])
           [] Type(n, 1) = "LPAREN"     -> f[Sub(n, 2)]
           [] Type(n, 1) \in {"PLUS", "MINUS"} ->
                Source!Operation(Type(n, 1), Source!Number(0), f[Sub(n, 2)])

Worths == CHOOSE f : f = [n \in Source!Expressions |-> Worth(f, n)]

(* Outcome is the function that Worths chooses. *)
LEMMA OutcomeIs ==
  ASSUME NEW s PROVE Source!Outcome(s) = Worths[s]
BY DEF Source!Outcome, Worths, Worth, Part, Type, Attr, Sub

PartStep(f, n) ==
  [p \in (1..Half(n)) \X Results |->
     Source!Operation(Type(n, 2 * p[1]), p[2], f[Sub(n, 2 * p[1] + 1)])]

(* The outcomes of a chain, from left to right. *)
LEMMA PartRuns ==
  ASSUME nodes \in Trees, NEW n \in DOMAIN nodes, NEW f,
         nodes[n].nt \in {"expression", "term"},
         \A j \in 0..Half(n) : f[Sub(n, 2 * j + 1)] \in Results
  PROVE  /\ Runs(Part(f, n), Half(n), f[Sub(n, 1)], PartStep(f, n))
         /\ \A j \in 0..Half(n) : Part(f, n)[j] \in Results
         /\ \A j \in 1..Half(n) :
              Part(f, n)[j] = Source!Operation(Type(n, 2 * j), Part(f, n)[j - 1],
                                               f[Sub(n, 2 * j + 1)])
<1> DEFINE k == Half(n)
           s == PartStep(f, n)
<1>1. /\ k \in Nat /\ f[Sub(n, 1)] \in Results
      /\ \A j \in 1..k : Type(n, 2 * j) \in Combining /\ f[Sub(n, 2 * j + 1)] \in Results
  <2>1. Half(n) \in Nat /\ 0 \in 0..Half(n) /\ 2 * 0 + 1 = 1
        /\ \A j \in 1..Half(n) : j \in 0..Half(n)
    BY HalfFacts
  <2> QED
    BY <2>1, HalfFacts
<1>2. s \in [(1..k) \X Results -> Results]
      /\ \A j \in 1..k, v \in Results :
           s[<<j, v>>] = Source!Operation(Type(n, 2 * j), v, f[Sub(n, 2 * j + 1)])
  <2>1. \A j \in 1..k, v \in Results :
          Source!Operation(Type(n, 2 * j), v, f[Sub(n, 2 * j + 1)]) \in Results
    BY <1>1, OutcomesCombined
  <2> QED
    BY <2>1 DEF PartStep
<1>3. PICK a \in Results : a = f[Sub(n, 1)]
  BY <1>1
<1> HIDE DEF s, k
<1>4. PICK u \in [0..k -> Results] : Runs(u, k, a, s)
  BY <1>1, <1>2, RunsExist
<1>5. u = [j \in 0..k |-> IF j = 0 THEN a ELSE LET before == u[j - 1]
             IN Source!Operation(Type(n, 2 * j), before, f[Sub(n, 2 * j + 1)])]
  <2>1. \A j \in 0..k : u[j] = IF j = 0 THEN a ELSE
             Source!Operation(Type(n, 2 * j), u[j - 1], f[Sub(n, 2 * j + 1)])
    <3> TAKE j \in 0..k
    <3>1. CASE j = 0
      BY <1>4, <3>1 DEF Runs
    <3>2. CASE j # 0
      <4>1. j \in 1..k /\ j - 1 \in 0..k
        BY <1>1, <3>2
      <4>2. u[j] = s[<<j, u[j - 1]>>] /\ u[j - 1] \in Results
        BY <1>4, <4>1 DEF Runs
      <4> QED
        BY <1>2, <3>2, <4>1, <4>2
    <3> QED
      BY <3>1, <3>2
  <2> QED
    BY <2>1
<1> DEFINE w == Part(f, n)
<1>6. w = [j \in 0..k |-> IF j = 0 THEN a ELSE LET before == w[j - 1]
             IN Source!Operation(Type(n, 2 * j), before, f[Sub(n, 2 * j + 1)])]
  <2>1. \E x : x = [j \in 0..k |-> IF j = 0 THEN a ELSE LET before == x[j - 1]
             IN Source!Operation(Type(n, 2 * j), before, f[Sub(n, 2 * j + 1)])]
    BY <1>5
  <2> QED
    BY <1>3, <2>1, Zenon DEF Part, k, Half, Arity, Sub, Type
<1> HIDE DEF w
<1>7. DOMAIN w = 0..k /\ w[0] = a
      /\ \A j \in 1..k : w[j] = Source!Operation(Type(n, 2 * j), w[j - 1],
                                                 f[Sub(n, 2 * j + 1)])
  <2>1. 0 \in 0..k /\ \A j \in 1..k : j \in 0..k /\ j # 0
    BY <1>1
  <2> QED
    BY <1>6, <2>1
<1>8. \A j \in 1..k : w[j - 1] \in Results => w[j] = s[<<j, w[j - 1]>>]
  BY <1>2, <1>7
<1>9. Runs(w, k, a, s) /\ \A j \in 0..k : w[j] \in Results
  <2>1. k \in Nat /\ a \in Results /\ s \in [(1..k) \X Results -> Results]
    BY <1>1, <1>2
  <2>2. w[0] = a /\ Obeys(w, k, Results, s)
    BY <1>7, <1>8 DEF Obeys
  <2> QED
    BY <2>1, <2>2, RunsTyped
<1> QED
  BY <1>3, <1>7, <1>9 DEF k, w, s

(* What is in a factor. *)
LEMMA FactorFacts ==
  ASSUME Sane, NEW n \in DOMAIN nodes, nodes[n].nt = "factor"
  PROVE  /\ Type(n, 1) \in {"LITERAL", "IDENTIFIER", "LPAREN", "PLUS", "MINUS"}
         /\ Type(n, 1) = "LITERAL" => Attr(n, 1) \in Source!Int64
         /\ Type(n, 1) = "IDENTIFIER" =>
              Attr(n, 1) \in Names /\ value[Attr(n, 1)] \in Source!Int64
         /\ Type(n, 1) \in {"LPAREN", "PLUS", "MINUS"} =>
              /\ Sub(n, 2) \in (n + 1)..Len(nodes)
              /\ Sub(n, 2) \in Source!Expressions
<1>1. Composed(n) /\ DOMAIN nodes = 1..Len(nodes) /\ Len(nodes) \in Nat /\ n \in Nat
  BY ComposedFacts, NodeFacts DEF Sane
<1>2. HasToken(n, 1, {"LITERAL", "IDENTIFIER", "PLUS", "MINUS", "LPAREN"})
      /\ (Type(n, 1) \in {"PLUS", "MINUS"} => HasSub(n, 2, "factor"))
      /\ (Type(n, 1) = "LPAREN" => HasSub(n, 2, "expression"))
  BY <1>1 DEF Composed
<1>3. 1 \in 1..Arity(n)
      /\ Type(n, 1) \in {"LITERAL", "IDENTIFIER", "LPAREN", "PLUS", "MINUS"}
  BY <1>2 DEF HasToken
<1>4. Type(n, 1) \in {"LPAREN", "PLUS", "MINUS"} =>
        /\ Sub(n, 2) \in DOMAIN nodes /\ Sub(n, 2) > n
        /\ nodes[Sub(n, 2)].nt \in {"factor", "expression"}
  BY <1>2 DEF HasSub
<1>5. Type(n, 1) \in {"LPAREN", "PLUS", "MINUS"} =>
        Sub(n, 2) \in (n + 1)..Len(nodes) /\ Sub(n, 2) \in Source!Expressions
  BY <1>1, <1>4 DEF Source!Expressions
<1>6. Type(n, 1) = "LITERAL" => Attr(n, 1) \in Source!Int64
  BY <1>3, NamesThere, Width DEF Sane
<1>7. Type(n, 1) = "IDENTIFIER" => Attr(n, 1) \in Names
  BY <1>3, NamesThere DEF Sane
<1> QED
  BY <1>3, <1>5, <1>6, <1>7 DEF Sane

Typed(f, n) ==
  \A m \in (n + 1)..Len(nodes) : m \in Source!Expressions => f[m] \in Results

Agree(f, h, n) ==
  \A m \in (n + 1)..Len(nodes) : m \in Source!Expressions => f[m] = h[m]

(* One step of the recursion: it looks at nodes that are further behind. *)
LEMMA WorthFacts ==
  ASSUME Sane, NEW n \in Source!Expressions, NEW f, Typed(f, n)
  PROVE  Worth(f, n) \in Results /\ \A h : Agree(f, h, n) => Worth(f, n) = Worth(h, n)
<1>1. n \in DOMAIN nodes /\ nodes[n].nt \in {"expression", "term", "factor"}
      /\ nodes \in Trees
  BY DEF Source!Expressions, Sane
<1>2. CASE nodes[n].nt \in {"expression", "term"}
  <2>1. Half(n) \in Nat /\ Half(n) \in 0..Half(n) /\ Half(n) = Len(nodes[n].children) \div 2
    <3>1. Half(n) \in Nat
      BY <1>1, <1>2, HalfFacts
    <3>2. Half(n) = Len(nodes[n].children) \div 2
      BY DEF Half, Arity
    <3>3. Half(n) \in 0..Half(n)
      BY <3>1
    <3> QED
      BY <3>1, <3>2, <3>3
  <2>2. \A j \in 0..Half(n) : Sub(n, 2 * j + 1) \in (n + 1)..Len(nodes)
                                /\ Sub(n, 2 * j + 1) \in Source!Expressions
    BY <1>1, <1>2, HalfFacts
  <2>3. \A j \in 0..Half(n) : f[Sub(n, 2 * j + 1)] \in Results
    BY <2>2 DEF Typed
  <2>4. /\ Runs(Part(f, n), Half(n), f[Sub(n, 1)], PartStep(f, n))
        /\ Part(f, n)[Half(n)] \in Results
    <3>1. \A j \in 0..Half(n) : Part(f, n)[j] \in Results
      BY <1>1, <1>2, <2>3, PartRuns
    <3>2. Runs(Part(f, n), Half(n), f[Sub(n, 1)], PartStep(f, n))
      BY <1>1, <1>2, <2>3, PartRuns
    <3>3. Half(n) \in 0..Half(n)
      BY <2>1
    <3> QED
      BY <3>1, <3>2, <3>3
  <2>5. \A h : Worth(h, n) = Part(h, n)[Half(n)]
    BY <1>2, <2>1 DEF Worth
  <2>6. ASSUME NEW h, Agree(f, h, n)
        PROVE  Part(f, n)[Half(n)] = Part(h, n)[Half(n)]
    <3>1. \A j \in 0..Half(n) : h[Sub(n, 2 * j + 1)] = f[Sub(n, 2 * j + 1)]
      BY <2>2, <2>6 DEF Agree
    <3>2. \A j \in 0..Half(n) : h[Sub(n, 2 * j + 1)] \in Results
      BY <2>3, <3>1
    <3>3. Runs(Part(h, n), Half(n), h[Sub(n, 1)], PartStep(h, n))
      BY <1>1, <1>2, <3>2, PartRuns
    <3>4. h[Sub(n, 1)] = f[Sub(n, 1)]
      <4>1. Half(n) \in Nat
        BY <1>1, <1>2, HalfFacts
      <4>2. 0 \in 0..Half(n) /\ 2 * 0 + 1 = 1
        BY <4>1
      <4> QED
        BY <3>1, <4>2
    <3>5. PartStep(h, n) = PartStep(f, n)
      <4>1. \A j \in 1..Half(n) : j \in 0..Half(n)
        OBVIOUS
      <4>2. \A p \in (1..Half(n)) \X Results :
              f[Sub(n, 2 * p[1] + 1)] = h[Sub(n, 2 * p[1] + 1)]
        BY <3>1, <4>1
      <4> QED
        BY <4>2 DEF PartStep
    <3>6. Runs(Part(h, n), Half(n), f[Sub(n, 1)], PartStep(f, n))
      BY <3>3, <3>4, <3>5
    <3> QED
      <4>1. Half(n) \in Nat
        BY <1>1, <1>2, HalfFacts
      <4>2. \A j \in 0..Half(n) : Part(f, n)[j] = Part(h, n)[j]
        BY <2>4, <3>6, <4>1, RunsOne
      <4>3. Half(n) \in 0..Half(n)
        BY <4>1
      <4> QED
        BY <4>2, <4>3
  <2> QED
    BY <2>4, <2>5, <2>6
<1>3. CASE nodes[n].nt = "factor"
  <2>1. Type(n, 1) \in {"LITERAL", "IDENTIFIER", "LPAREN", "PLUS", "MINUS"}
    BY <1>1, <1>3, FactorFacts
  <2>2. CASE Type(n, 1) = "LITERAL"
    <3>1. Attr(n, 1) \in Source!Int64
      BY <1>1, <1>3, <2>2, FactorFacts
    <3>2. \A h : Worth(h, n) = Source!Number(Attr(n, 1))
      BY <1>3, <2>2 DEF Worth
    <3> QED
      BY <3>1, <3>2, ResultFacts
  <2>3. CASE Type(n, 1) = "IDENTIFIER"
    <3>1. value[Attr(n, 1)] \in Source!Int64
      BY <1>1, <1>3, <2>3, FactorFacts
    <3>2. \A h : Worth(h, n) = Source!Number(value[Attr(n, 1)])
      BY <1>3, <2>3 DEF Worth
    <3> QED
      BY <3>1, <3>2, ResultFacts
  <2>4. Type(n, 1) \in {"LPAREN", "PLUS", "MINUS"} =>
          /\ f[Sub(n, 2)] \in Results
          /\ \A h : Agree(f, h, n) => f[Sub(n, 2)] = h[Sub(n, 2)]
    <3>1. Type(n, 1) \in {"LPAREN", "PLUS", "MINUS"} =>
            Sub(n, 2) \in (n + 1)..Len(nodes) /\ Sub(n, 2) \in Source!Expressions
      BY <1>1, <1>3, FactorFacts
    <3> QED
      BY <3>1 DEF Typed, Agree
  <2>5. CASE Type(n, 1) = "LPAREN"
    <3>1. \A h : Worth(h, n) = h[Sub(n, 2)]
      BY <1>3, <2>5 DEF Worth
    <3> QED
      BY <2>4, <2>5, <3>1
  <2>6. CASE Type(n, 1) \in {"PLUS", "MINUS"}
    <3>1. \A h : Worth(h, n) = Source!Operation(Type(n, 1), Source!Number(0), h[Sub(n, 2)])
      <4>1. CASE Type(n, 1) = "PLUS"
        BY <1>3, <4>1 DEF Worth
      <4>2. CASE Type(n, 1) = "MINUS"
        BY <1>3, <4>2 DEF Worth
      <4> QED
        BY <2>6, <4>1, <4>2
    <3>2. Source!Number(0) \in Results /\ Type(n, 1) \in Combining
      BY <2>6, Width, ResultFacts DEF Combining
    <3>3. Source!Operation(Type(n, 1), Source!Number(0), f[Sub(n, 2)]) \in Results
      BY <2>4, <2>6, <3>2, OutcomesCombined
    <3> QED
      BY <2>4, <2>6, <3>1, <3>3
  <2> QED
    BY <2>1, <2>2, <2>3, <2>5, <2>6
<1> QED
  BY <1>1, <1>2, <1>3

(* So the recursion is one, and ends. *)
LEMMA WorthsFacts ==
  ASSUME Sane
  PROVE  \A n \in Source!Expressions : Worths[n] = Worth(Worths, n) /\ Worths[n] \in Results
<1> DEFINE k == Len(nodes)
           X == Source!Expressions
           none == Source!Number(0)
           g == [p \in [1..k -> Results] \X (1..k) |->
                   IF p[2] \in X THEN Worth(p[1], p[2]) ELSE none]
<1>1. k \in Nat /\ DOMAIN nodes = 1..k /\ none \in Results /\ X \subseteq 1..k
  <2>1. 0 \in Source!Int64
    BY Width
  <2>2. nodes \in Trees
    BY DEF Sane
  <2> QED
    BY <2>1, <2>2, NodeFacts, ResultFacts DEF Source!Expressions
<1>2. ASSUME NEW e \in [1..k -> Results], NEW n \in 1..k
      PROVE  /\ g[<<e, n>>] = IF n \in X THEN Worth(e, n) ELSE none
             /\ g[<<e, n>>] \in Results
  <2>1. Typed(e, n)
    BY <1>1 DEF Typed
  <2>2. n \in X => Worth(e, n) \in Results
    BY <2>1, WorthFacts
  <2> QED
    BY <1>1, <2>2
<1>3. g \in [[1..k -> Results] \X (1..k) -> Results]
  BY <1>2
<1>4. ASSUME NEW e \in [1..k -> Results], NEW f \in [1..k -> Results], NEW n \in 1..k,
             \A m \in (n + 1)..k : e[m] = f[m]
      PROVE  g[<<e, n>>] = g[<<f, n>>]
  <2>1. Typed(e, n) /\ Agree(e, f, n)
    BY <1>1, <1>4 DEF Typed, Agree
  <2>2. n \in X => Worth(e, n) = Worth(f, n)
    BY <2>1, WorthFacts
  <2> QED
    BY <1>2, <2>2
<1> HIDE DEF g, k, X, none
<1>5. PICK f \in [1..k -> Results] : \A n \in 1..k : f[n] = g[<<f, n>>]
  <2>1. LooksAbove(g, k, Results)
    BY <1>3, <1>4 DEF LooksAbove
  <2>2. Results # {} /\ k \in Nat
    BY <1>1
  <2>3. Solved(g, k, Results)
    BY <2>1, <2>2, Descend
  <2> QED
    BY <2>3 DEF Solved
<1>6. PICK h : h = [n \in X |-> f[n]]
  OBVIOUS
<1>7. h = [n \in X |-> Worth(h, n)]
  <2>1. ASSUME NEW n \in X
        PROVE  f[n] = Worth(h, n)
    <3>1. Typed(f, n) /\ Agree(f, h, n)
      BY <1>1, <1>6 DEF Typed, Agree, k, X
    <3>2. Worth(f, n) = Worth(h, n)
      BY <3>1, WorthFacts DEF X
    <3> QED
      BY <1>1, <1>2, <1>5, <3>2
  <2> QED
    BY <1>6, <2>1
<1>8. Worths = [n \in X |-> Worth(Worths, n)]
  <2>1. \E x : x = [n \in X |-> Worth(x, n)]
    BY <1>7
  <2> QED
    BY <2>1, Zenon DEF Worths, X
<1>9. \A n \in X : Worths[n] = Worth(Worths, n)
  <2> DEFINE w == Worths
  <2>1. w = [n \in X |-> Worth(w, n)]
    BY <1>8
  <2> HIDE DEF w
  <2>2. \A n \in X : w[n] = Worth(w, n)
    BY <2>1
  <2> QED
    BY <2>2 DEF w
<1> DEFINE Bad == {n \in 1..k : n \in X /\ Worths[n] \notin Results}
<1>10. ASSUME NEW n \in 1..k, \A m \in (n + 1)..k : m \notin Bad
      PROVE  n \notin Bad
  <2>1. Typed(Worths, n)
    BY <1>1, <1>10 DEF Typed, k, X
  <2>2. n \in X => Worth(Worths, n) \in Results
    BY <2>1, WorthFacts DEF X
  <2> QED
    BY <1>9, <2>2
<1>11. Bad = {}
  <2>1. Bad \subseteq 1..k
    OBVIOUS
  <2> HIDE DEF Bad
  <2> QED
    BY <1>1, <1>10, <2>1, FromAbove
<1> QED
  BY <1>1, <1>9, <1>11 DEF X

(* The outcomes of a chain, from left to right. *)
Adds(u, n) ==
  /\ u[0] = Source!Outcome(Sub(n, 1))
  /\ \A j \in 0..Half(n) : u[j] \in Results
  /\ \A j \in 1..Half(n) :
       u[j] = Source!Operation(Type(n, 2 * j), u[j - 1],
                               Source!Outcome(Sub(n, 2 * j + 1)))

(***************************************************************************)
(* What the outcome of an expression is made of.                           *)
(***************************************************************************)
LEMMA OutcomeFacts ==
  ASSUME Sane, NEW n \in Source!Expressions
  PROVE  /\ Source!Outcome(n) \in Results
         /\ nodes[n].nt \in {"expression", "term"} =>
              \E u : Adds(u, n) /\ Source!Outcome(n) = u[Half(n)]
         /\ nodes[n].nt = "factor" =>
              /\ Type(n, 1) = "LITERAL" =>
                   Source!Outcome(n) = Source!Number(Attr(n, 1))
              /\ Type(n, 1) = "IDENTIFIER" =>
                   Source!Outcome(n) = Source!Number(value[Attr(n, 1)])
              /\ Type(n, 1) = "LPAREN" => Source!Outcome(n) = Source!Outcome(Sub(n, 2))
              /\ Type(n, 1) \in {"PLUS", "MINUS"} =>
                   Source!Outcome(n) = Source!Operation(Type(n, 1), Source!Number(0),
                                                        Source!Outcome(Sub(n, 2)))
<1>1. /\ Source!Outcome(n) = Worth(Worths, n) /\ Source!Outcome(n) \in Results
      /\ n \in DOMAIN nodes /\ nodes \in Trees
      /\ \A m : Worths[m] = Source!Outcome(m)
      /\ \A m \in Source!Expressions : Worths[m] \in Results
  BY OutcomeIs, WorthsFacts DEF Sane, Source!Expressions
<1>2. ASSUME nodes[n].nt \in {"expression", "term"}
      PROVE  \E u : Adds(u, n) /\ Source!Outcome(n) = u[Half(n)]
  <2>1. \A j \in 0..Half(n) : Worths[Sub(n, 2 * j + 1)] \in Results
    BY <1>1, <1>2, HalfFacts
  <2>2. /\ Runs(Part(Worths, n), Half(n), Worths[Sub(n, 1)], PartStep(Worths, n))
        /\ \A j \in 0..Half(n) : Part(Worths, n)[j] \in Results
        /\ \A j \in 1..Half(n) :
             Part(Worths, n)[j]
               = Source!Operation(Type(n, 2 * j), Part(Worths, n)[j - 1],
                                  Worths[Sub(n, 2 * j + 1)])
    BY <1>1, <1>2, <2>1, PartRuns
  <2>3. PICK u : u = Part(Worths, n)
    OBVIOUS
  <2>4. u[0] = Source!Outcome(Sub(n, 1))
    BY <1>1, <2>2, <2>3 DEF Runs
  <2>5. Adds(u, n)
    BY <1>1, <2>2, <2>3, <2>4 DEF Adds
  <2>6. Source!Outcome(n) = u[Half(n)]
    BY <1>1, <1>2, <2>3 DEF Worth, Half, Arity
  <2> QED
    BY <2>5, <2>6
<1>3. ASSUME nodes[n].nt = "factor"
      PROVE  /\ Type(n, 1) = "LITERAL" =>
                  Source!Outcome(n) = Source!Number(Attr(n, 1))
             /\ Type(n, 1) = "IDENTIFIER" =>
                  Source!Outcome(n) = Source!Number(value[Attr(n, 1)])
             /\ Type(n, 1) = "LPAREN" => Source!Outcome(n) = Source!Outcome(Sub(n, 2))
             /\ Type(n, 1) \in {"PLUS", "MINUS"} =>
                  Source!Outcome(n) = Source!Operation(Type(n, 1), Source!Number(0),
                                                       Source!Outcome(Sub(n, 2)))
  <2>1. CASE Type(n, 1) = "LITERAL"
    BY <1>1, <1>3, <2>1 DEF Worth
  <2>2. CASE Type(n, 1) = "IDENTIFIER"
    BY <1>1, <1>3, <2>2 DEF Worth
  <2>3. CASE Type(n, 1) = "LPAREN"
    BY <1>1, <1>3, <2>3 DEF Worth
  <2>4. CASE Type(n, 1) = "PLUS"
    BY <1>1, <1>3, <2>4 DEF Worth
  <2>5. CASE Type(n, 1) = "MINUS"
    BY <1>1, <1>3, <2>5 DEF Worth
  <2> QED
    BY <2>1, <2>2, <2>3, <2>4, <2>5
<1> QED
  BY <1>1, <1>2, <1>3

-----------------------------------------------------------------------------
(* The code of a chain, operand by operand. *)
CEnd(t, n, j) == ChainEnd(t, n, 2 * j + 1)
CVal(t, n, j) == ChainValue(t, n, 2 * j + 1)

Linked(t, n, j) ==
  LET kid == Sub(n, 2 * j + 1)
  IN /\ t.from[kid] = CEnd(t, n, j - 1) /\ CEnd(t, n, j) = t.to[kid] + 1
     /\ Makes(t.to[kid], Trans!OpOf[Type(n, 2 * j)], CVal(t, n, j - 1), t.opd[kid],
              CVal(t, n, j))
     /\ CVal(t, n, j).type = "TEMPORARY"

(* In the code of a chain the parts stand one behind the other. *)
LEMMA Links ==
  ASSUME NEW t, Compiled(t), NEW n \in DOMAIN nodes,
         nodes[n].nt \in {"expression", "term"}
  PROVE  /\ Half(n) \in Nat
         /\ t.from[Sub(n, 1)] = t.from[n] /\ CEnd(t, n, 0) = t.to[Sub(n, 1)]
         /\ CVal(t, n, 0) = t.opd[Sub(n, 1)]
         /\ \A j \in 1..Half(n) : Linked(t, n, j)
         /\ \A j \in 0..Half(n) : CEnd(t, n, j) \in Nat /\ CEnd(t, n, j) >= t.from[n]
         /\ t.to[n] = CEnd(t, n, Half(n)) /\ t.opd[n] = CVal(t, n, Half(n))
<1>1. nodes \in Trees
  BY DEF Compiled
<1>2. Half(n) \in Nat /\ Arity(n) = 2 * Half(n) + 1
  BY <1>1, HalfFacts
<1>3. LaidChain(t, n)
  BY OperandCode
<1>4. /\ t.from[Sub(n, 1)] = t.from[n]
      /\ t.to[n] = CEnd(t, n, Half(n)) /\ t.opd[n] = CVal(t, n, Half(n))
  BY <1>2, <1>3 DEF LaidChain, CEnd, CVal
<1>5. CEnd(t, n, 0) = t.to[Sub(n, 1)] /\ CVal(t, n, 0) = t.opd[Sub(n, 1)]
  <2>1. 2 * 0 + 1 = 1
    OBVIOUS
  <2> QED
    BY <2>1 DEF CEnd, CVal, ChainEnd, ChainValue
<1>6. ASSUME NEW j \in 1..Half(n)
      PROVE  Linked(t, n, j)
  <2>1. /\ 2 * j + 1 \in 2..Arity(n) /\ (2 * j + 1) % 2 = 1 /\ 2 * j + 1 # 1
        /\ 2 * j + 1 - 1 = 2 * j /\ 2 * j + 1 - 2 = 2 * (j - 1) + 1
    BY <1>2
  <2>2. LaidLink(t, n, 2 * j + 1)
    BY <1>3, <2>1 DEF LaidChain
  <2>3. PICK k : k = 2 * j + 1
    OBVIOUS
  <2>4. LaidLink(t, n, k) /\ k # 1 /\ k - 1 = 2 * j /\ k - 2 = 2 * (j - 1) + 1
    BY <2>1, <2>2, <2>3
  <2>5. CEnd(t, n, j) = t.to[Sub(n, k)] + 1
    BY <2>3, <2>4 DEF CEnd, ChainEnd
  <2>6. /\ t.from[Sub(n, k)] = CEnd(t, n, j - 1)
        /\ Makes(t.to[Sub(n, k)], Trans!OpOf[Type(n, 2 * j)], CVal(t, n, j - 1),
                 t.opd[Sub(n, k)], CVal(t, n, j))
        /\ CVal(t, n, j).type = "TEMPORARY"
    BY <2>3, <2>4 DEF LaidLink, CEnd, CVal
  <2> QED
    BY <2>3, <2>5, <2>6 DEF Linked
<1>7. \A j \in 0..Half(n) : /\ t.from[Sub(n, 2 * j + 1)] \in Nat
                            /\ t.to[Sub(n, 2 * j + 1)] \in Nat
                            /\ t.from[Sub(n, 2 * j + 1)] <= t.to[Sub(n, 2 * j + 1)]
  BY <1>1, HalfFacts, CompiledPlaces DEF Source!Expressions
<1> DEFINE Bad == {j \in Nat : j \in 0..Half(n) /\
                     ~(CEnd(t, n, j) \in Nat /\ CEnd(t, n, j) >= t.from[n])}
<1>8. ASSUME NEW j \in Nat, \A i \in 0..(j - 1) : i \notin Bad
      PROVE  j \notin Bad
  <2> SUFFICES ASSUME j \in 0..Half(n)
               PROVE  CEnd(t, n, j) \in Nat /\ CEnd(t, n, j) >= t.from[n]
    OBVIOUS
  <2>1. CASE j = 0
    <3>1. t.from[Sub(n, 1)] \in Nat /\ t.to[Sub(n, 1)] \in Nat
          /\ t.from[Sub(n, 1)] <= t.to[Sub(n, 1)]
      <4>1. 2 * 0 + 1 = 1 /\ 0 \in 0..Half(n)
        BY <1>2
      <4> QED
        BY <1>7, <4>1
    <3> QED
      BY <1>4, <1>5, <2>1, <3>1
  <2>2. CASE j # 0
    <3>1. j - 1 \in 0..(j - 1) /\ j - 1 \in 0..Half(n) /\ j \in 1..Half(n) /\ j - 1 \in Nat
      BY <1>2, <2>2
    <3>2. CEnd(t, n, j - 1) \in Nat /\ CEnd(t, n, j - 1) >= t.from[n]
      BY <1>8, <3>1
    <3>3. /\ t.from[Sub(n, 2 * j + 1)] = CEnd(t, n, j - 1)
          /\ CEnd(t, n, j) = t.to[Sub(n, 2 * j + 1)] + 1
      BY <1>6, <3>1 DEF Linked
    <3>4. t.from[n] \in Nat
      BY CompiledPlaces
    <3> QED
      BY <1>7, <3>1, <3>2, <3>3, <3>4
  <2> QED
    BY <2>1, <2>2
<1>9. Bad = {}
  <2>1. Bad \subseteq Nat
    OBVIOUS
  <2> HIDE DEF Bad
  <2> QED
    BY <1>8, <2>1, FromBelow
<1>10. \A j \in 0..Half(n) : j \in Nat
  BY <1>2
<1> QED
  BY <1>2, <1>4, <1>5, <1>6, <1>9, <1>10

-----------------------------------------------------------------------------
(* All the instructions of a node compute. *)
Calculates(p) == p + 1 \in DOMAIN instrs /\ Computes(instrs[p + 1])

Computing(t, n) == \A p \in t.from[n]..(t.to[n] - 1) : Calculates(p)

(* An instruction that makes a temporary calculates. *)
LEMMA MakesCalculates ==
  ASSUME NEW t, Compiled(t), NEW p, NEW op \in Arithmetic \cup Unary \cup RelOps, Stands(p, op)
  PROVE  Calculates(p)
<1>1. instrs \in Seq(Trans!Instruction)
  BY DEF Compiled
<1>2. DOMAIN instrs = 1..Len(instrs)
  BY <1>1, LenProperties
<1> QED
  BY <1>2 DEF Stands, Calculates, Computes

(* Those of an operand, *)
LEMMA OperandComputes ==
  ASSUME NEW t, Compiled(t)
  PROVE  \A n \in Source!Expressions : Computing(t, n)
<1> DEFINE k == Len(nodes)
           Bad == {n \in 1..k : n \in Source!Expressions /\ ~Computing(t, n)}
<1>1. nodes \in Trees /\ k \in Nat /\ DOMAIN nodes = 1..k
  BY NodeFacts DEF Compiled
<1>2. ASSUME NEW n \in 1..k, \A m \in (n + 1)..k : m \notin Bad
      PROVE  n \notin Bad
  <2> SUFFICES ASSUME n \in Source!Expressions, NEW p \in t.from[n]..(t.to[n] - 1)
               PROVE  Calculates(p)
    BY DEF Computing
  <2>1. n \in DOMAIN nodes /\ nodes[n].nt \in {"expression", "term", "factor"}
    BY <1>1 DEF Source!Expressions
  <2>2. \A m \in (n + 1)..k : m \in Source!Expressions => Computing(t, m)
    <3> SUFFICES ASSUME NEW m \in (n + 1)..k, m \in Source!Expressions
                 PROVE  Computing(t, m)
      OBVIOUS
    <3>1. m \in 1..k
      OBVIOUS
    <3> QED
      BY <1>2, <3>1
  <2>3. t.from[n] \in Nat /\ t.to[n] \in Nat /\ p \in Nat
    BY <2>1, CompiledPlaces
  <2> HIDE DEF Bad, k
  <2>4. CASE nodes[n].nt \in {"expression", "term"}
    <3> DEFINE Missed == {j \in Nat : j \in 0..Half(n) /\ p < CEnd(t, n, j)
                                      /\ ~Calculates(p)}
    <3>0. /\ Half(n) \in Nat /\ \A j \in 0..Half(n) : CEnd(t, n, j) \in Nat
          /\ t.from[Sub(n, 1)] = t.from[n] /\ CEnd(t, n, 0) = t.to[Sub(n, 1)]
          /\ \A j \in 1..Half(n) : Linked(t, n, j)
          /\ t.to[n] = CEnd(t, n, Half(n))
      BY <2>1, <2>4, Links
    <3>1. \A j \in 0..Half(n) : Computing(t, Sub(n, 2 * j + 1))
      BY <1>1, <2>1, <2>2, <2>4, HalfFacts DEF k
    <3>2. ASSUME NEW j \in Nat, \A i \in 0..(j - 1) : i \notin Missed
          PROVE  j \notin Missed
      <4> SUFFICES ASSUME j \in 0..Half(n), p < CEnd(t, n, j)
                   PROVE  Calculates(p)
        OBVIOUS
      <4>1. CASE j = 0
        <5>1. Computing(t, Sub(n, 1))
          <6>1. 2 * 0 + 1 = 1 /\ 0 \in 0..Half(n)
            BY <3>0
          <6> QED
            BY <3>1, <6>1
        <5>2. p \in t.from[Sub(n, 1)]..(t.to[Sub(n, 1)] - 1)
          BY <2>3, <3>0, <4>1
        <5> QED
          BY <5>1, <5>2 DEF Computing
      <4>2. CASE j # 0
        <5>1. j - 1 \in 0..(j - 1) /\ j - 1 \in 0..Half(n) /\ j \in 1..Half(n) /\ j - 1 \in Nat
          BY <3>0, <4>2
        <5>2. CASE p < CEnd(t, n, j - 1)
          BY <3>2, <5>1, <5>2
        <5>3. CASE p >= CEnd(t, n, j - 1)
          <6>1. PICK kid : kid = Sub(n, 2 * j + 1)
            OBVIOUS
          <6>2. /\ t.from[kid] = CEnd(t, n, j - 1) /\ CEnd(t, n, j) = t.to[kid] + 1
                /\ Stands(t.to[kid], Trans!OpOf[Type(n, 2 * j)])
            BY <3>0, <5>1, <6>1 DEF Linked, Makes
          <6>3. t.to[kid] \in Nat /\ t.from[kid] \in Nat
            BY <1>1, <2>1, <2>4, <6>1, HalfFacts, CompiledPlaces DEF Source!Expressions
          <6>4. CASE p < t.to[kid]
            <7>1. p \in t.from[kid]..(t.to[kid] - 1)
              BY <2>3, <5>3, <6>2, <6>3, <6>4
            <7>2. Computing(t, kid)
              BY <3>1, <6>1
            <7> QED
              BY <7>1, <7>2 DEF Computing
          <6>5. CASE p = t.to[kid]
            <7>1. Type(n, 2 * j) \in Combining
              BY <1>1, <2>1, <2>4, <5>1, HalfFacts
            <7>2. Trans!OpOf[Type(n, 2 * j)] \in Arithmetic
              BY <7>1 DEF Combining, Trans!OpOf, Arithmetic
            <7> QED
              BY <6>2, <6>5, <7>2, MakesCalculates
          <6>6. p < t.to[kid] \/ p = t.to[kid]
            BY <2>3, <6>2, <6>3
          <6> QED
            BY <6>4, <6>5, <6>6
        <5>4. CEnd(t, n, j - 1) \in Nat
          BY <3>0, <5>1
        <5> QED
          BY <2>3, <5>2, <5>3, <5>4
      <4> QED
        BY <4>1, <4>2
    <3>3. Missed = {}
      <4>1. Missed \subseteq Nat
        OBVIOUS
      <4> HIDE DEF Missed
      <4> QED
        BY <3>2, <4>1, FromBelow
    <3>4. Half(n) \in 0..Half(n) /\ p < CEnd(t, n, Half(n))
      BY <2>3, <3>0
    <3> QED
      BY <3>0, <3>3, <3>4
  <2>5. CASE nodes[n].nt = "factor"
    <3>1. /\ LaidFactor(t, n) /\ Composed(n)
      BY <1>1, <2>1, <2>5, OperandCode, ComposedFacts
    <3>2. Type(n, 1) \in {"LITERAL", "IDENTIFIER", "PLUS", "MINUS", "LPAREN"}
      BY <2>5, <3>1 DEF Composed, HasToken
    <3>3. CASE Type(n, 1) \in {"LITERAL", "IDENTIFIER"}
      BY <2>3, <3>1, <3>3 DEF LaidFactor
    <3>4. ASSUME Type(n, 1) \in {"PLUS", "MINUS", "LPAREN"}
          PROVE  Computing(t, Sub(n, 2)) /\ t.to[Sub(n, 2)] \in Nat
      <4>1. Sub(n, 2) \in DOMAIN nodes /\ Sub(n, 2) > n
            /\ nodes[Sub(n, 2)].nt \in {"expression", "factor"}
        BY <2>5, <3>1, <3>4 DEF Composed, HasSub
      <4>2. Sub(n, 2) \in (n + 1)..k /\ Sub(n, 2) \in Source!Expressions
        BY <1>1, <2>1, <4>1 DEF Source!Expressions
      <4> QED
        BY <2>2, <4>1, <4>2, CompiledPlaces
    <3>5. CASE Type(n, 1) = "LPAREN"
      <4>1. t.from[Sub(n, 2)] = t.from[n] /\ t.to[n] = t.to[Sub(n, 2)]
        BY <3>1, <3>5 DEF LaidFactor
      <4> QED
        BY <3>4, <3>5, <4>1 DEF Computing
    <3>6. CASE Type(n, 1) \in {"PLUS", "MINUS"}
      <4>1. /\ t.from[Sub(n, 2)] = t.from[n] /\ t.to[n] = t.to[Sub(n, 2)] + 1
            /\ Stands(t.to[Sub(n, 2)], Trans!SignOf[Type(n, 1)])
        BY <3>1, <3>6 DEF LaidFactor
      <4>2. CASE p = t.to[Sub(n, 2)]
        <5>1. Trans!SignOf[Type(n, 1)] \in Unary
          BY <3>6 DEF Trans!SignOf, Unary
        <5> QED
          BY <4>1, <4>2, <5>1, MakesCalculates
      <4>3. CASE p # t.to[Sub(n, 2)]
        <5>1. p \in t.from[Sub(n, 2)]..(t.to[Sub(n, 2)] - 1)
          BY <2>3, <3>4, <3>6, <4>1, <4>3
        <5> QED
          BY <3>4, <3>6, <5>1 DEF Computing
      <4> QED
        BY <4>2, <4>3
    <3> QED
      BY <3>2, <3>3, <3>5, <3>6
  <2> QED
    BY <2>1, <2>4, <2>5
<1>3. Bad = {}
  <2>1. Bad \subseteq 1..k
    OBVIOUS
  <2> HIDE DEF Bad, k
  <2> QED
    BY <1>1, <1>2, <2>1, FromAbove
<1>4. Source!Expressions \subseteq 1..k
  BY <1>1 DEF Source!Expressions
<1> QED
  BY <1>3, <1>4

-----------------------------------------------------------------------------
(* The number that an operand stands for. *)
Val(o) ==
  CASE o.type = "TEMPORARY" -> temporary[o.val]
    [] o.type = "SYMBOL"    -> value[o.val]
    [] OTHER                -> o.val

(* An operand stands for an outcome that is a number. *)
Right(o, x) == x.fault = "none" /\ Val(o) = x.val

(* An instruction has computed what its operands say. *)
Settles(i) ==
  LET l == Val(i.src1)
      r == Val(i.src2)
  IN /\ i.op \in Arithmetic =>
          /\ i.op = "DIV" => r # 0 /\ ~Run!Traps(l, r)
          /\ Val(i.dest) = Run!Wrapped(Run!Result(i.op, l, r))
     /\ i.op = "PLS" => Val(i.dest) = l
     /\ i.op = "NEG" => Val(i.dest) = Run!Wrapped(-l)
     /\ i.op \in RelOps => Val(i.dest) = IF Run!Compared(i.op, l, r) THEN 1 ELSE 0

Settled(q) == Settles(instrs[q + 1])

(* Those from l to p have. *)
Done(l, p) == \A q \in l..(p - 1) : Settled(q)

(* And this one cannot. *)
Aborts(p, f) ==
  LET l == Val(instrs[p + 1].src1)
      r == Val(instrs[p + 1].src2)
  IN /\ Stands(p, "DIV")
     /\ \/ r = 0 /\ f = "failed"
        \/ r # 0 /\ Run!Traps(l, r) /\ f = "trapped"

(* An outcome that an operand stands for. *)
LEMMA RightNumber ==
  ASSUME NEW o, NEW x \in Results, Right(o, x)
  PROVE  Val(o) \in Source!Int64 /\ x = Source!Number(Val(o))
BY ResultFacts DEF Right

(* A literal and a variable stand for themselves. *)
LEMMA RightAtOnce ==
  /\ \A v : Right(Literal(v), Source!Number(v))
  /\ \A x : Right(Symbol(x), Source!Number(value[x]))
BY ResultFacts DEF Right, Val, Literal, Symbol

(* The result of an instruction is the outcome of the operation. *)
LEMMA OperationRight ==
  ASSUME NEW p, NEW w \in Combining, NEW a, NEW b, NEW d,
         Makes(p, Trans!OpOf[w], a, b, d), NEW x \in Results, NEW y \in Results,
         Right(a, x), Right(b, y)
  PROVE  /\ Settled(p) => Right(d, Source!Operation(w, x, y))
         /\ \A f \in {"failed", "trapped"} :
              Aborts(p, f) => Source!Operation(w, x, y) = Source!Fault(f)
<1>1. /\ Val(a) \in Source!Int64 /\ x = Source!Number(Val(a))
      /\ Val(b) \in Source!Int64 /\ y = Source!Number(Val(b))
  BY RightNumber
<1>2. PICK l \in Source!Int64, r \in Source!Int64 : l = Val(a) /\ r = Val(b)
  BY <1>1
<1>3. PICK op, z : op = Trans!OpOf[w] /\ z = Source!Operation(w, x, y)
  OBVIOUS
<1>4. /\ op \in Run!Arithmetic
      /\ op = "DIV" /\ r = 0 => z = Source!Fault("failed")
      /\ op = "DIV" /\ r # 0 /\ Run!Traps(l, r) => z = Source!Fault("trapped")
      /\ (op = "DIV" => r # 0 /\ ~Run!Traps(l, r)) =>
           z = Source!Number(Run!Wrapped(Run!Result(op, l, r)))
  BY <1>1, <1>2, <1>3, NumbersCombined
<1>5. /\ instrs[p + 1].op = op /\ instrs[p + 1].src1 = a /\ instrs[p + 1].src2 = b
      /\ instrs[p + 1].dest = d
  BY <1>3 DEF Makes, Stands
<1>6. op \in Arithmetic
  BY <1>4 DEF Run!Arithmetic, Arithmetic
<1>7. ASSUME Settled(p) PROVE Right(d, z)
  <2>1. /\ op = "DIV" => r # 0 /\ ~Run!Traps(l, r)
        /\ Val(d) = Run!Wrapped(Run!Result(op, l, r))
    BY <1>2, <1>5, <1>6, <1>7 DEF Settled, Settles
  <2>2. z = Source!Number(Val(d))
    BY <1>4, <2>1
  <2> QED
    BY <2>2, ResultFacts DEF Right
<1>8. ASSUME NEW f, Aborts(p, f) PROVE z = Source!Fault(f)
  <2>1. /\ op = "DIV"
        /\ \/ r = 0 /\ f = "failed"
           \/ r # 0 /\ Run!Traps(l, r) /\ f = "trapped"
    BY <1>2, <1>5, <1>8 DEF Aborts, Stands
  <2> QED
    BY <1>4, <2>1
<1> QED
  BY <1>3, <1>7, <1>8

(* What cannot be computed has no other outcome. *)
LEMMA OperationFails ==
  ASSUME NEW p, NEW w \in Combining, NEW a, NEW b, NEW d,
         Makes(p, Trans!OpOf[w], a, b, d), NEW x \in Results, NEW y \in Results,
         Right(a, x), Right(b, y), NEW f \in {"failed", "trapped"}, Aborts(p, f)
  PROVE  Source!Operation(w, x, y) = Source!Fault(f)
BY OperationRight

(* And that of a sign. *)
LEMMA SignRight ==
  ASSUME NEW p, NEW w \in {"PLUS", "MINUS"}, NEW o, NEW d,
         Stands(p, Trans!SignOf[w]), instrs[p + 1].src1 = o, instrs[p + 1].dest = d,
         NEW x \in Results, Right(o, x), Settled(p)
  PROVE  Right(d, Source!Operation(w, Source!Number(0), x))
<1>1. PICK v \in Source!Int64 : v = Val(o) /\ x = Source!Number(v)
  BY RightNumber
<1>2. CASE w = "PLUS"
  <2>1. instrs[p + 1].op = "PLS"
    BY <1>2 DEF Stands, Trans!SignOf
  <2>2. Val(d) = v
    BY <1>1, <2>1 DEF Settled, Settles
  <2>3. Source!Operation("PLUS", Source!Number(0), x) = Source!Number(v)
    BY <1>1, SignsCombined
  <2> QED
    BY <1>2, <2>2, <2>3, ResultFacts DEF Right
<1>3. CASE w = "MINUS"
  <2>1. instrs[p + 1].op = "NEG"
    BY <1>3 DEF Stands, Trans!SignOf
  <2>2. Val(d) = Run!Wrapped(-v)
    BY <1>1, <2>1 DEF Settled, Settles
  <2>3. Source!Operation("MINUS", Source!Number(0), x) = Source!Number(Run!Wrapped(-v))
    BY <1>1, SignsCombined
  <2> QED
    BY <1>3, <2>2, <2>3, ResultFacts DEF Right
<1> QED
  BY <1>2, <1>3

-----------------------------------------------------------------------------
(* The code of an expression is among that from l to p, *)
Within(t, n, l, p) == l <= t.from[n] /\ t.to[n] <= p

(* and has been executed. *)
Evaluated(t, n, l, p) ==
  Within(t, n, l, p) => Right(t.opd[n], Source!Outcome(n))

(* The operands of a chain as far as it has been executed. *)
LEMMA PrefixRight ==
  ASSUME Sane, NEW t, Compiled(t), NEW n \in DOMAIN nodes,
         nodes[n].nt \in {"expression", "term"}, NEW u, Adds(u, n),
         NEW l \in Nat, NEW p \in Nat, l <= t.from[n], Done(l, p),
         \A j \in 0..Half(n) : Evaluated(t, Sub(n, 2 * j + 1), l, p)
  PROVE  \A j \in 0..Half(n) : CEnd(t, n, j) <= p => Right(CVal(t, n, j), u[j])
<1>1. /\ Half(n) \in Nat
      /\ t.from[Sub(n, 1)] = t.from[n] /\ CEnd(t, n, 0) = t.to[Sub(n, 1)]
      /\ CVal(t, n, 0) = t.opd[Sub(n, 1)]
      /\ \A j \in 1..Half(n) : Linked(t, n, j)
      /\ \A j \in 0..Half(n) : CEnd(t, n, j) \in Nat /\ CEnd(t, n, j) >= t.from[n]
  BY Links
<1>2. t.from[n] \in Nat
  BY CompiledPlaces
<1>3. \A j \in 0..Half(n) : /\ Sub(n, 2 * j + 1) \in Source!Expressions
                            /\ Sub(n, 2 * j + 1) \in DOMAIN nodes
  BY HalfFacts DEF Sane, Source!Expressions
<1> DEFINE Bad == {j \in Nat : j \in 0..Half(n) /\ CEnd(t, n, j) <= p
                                 /\ ~Right(CVal(t, n, j), u[j])}
<1>4. ASSUME NEW j \in Nat, \A i \in 0..(j - 1) : i \notin Bad
      PROVE  j \notin Bad
  <2> SUFFICES ASSUME j \in 0..Half(n), CEnd(t, n, j) <= p
               PROVE  Right(CVal(t, n, j), u[j])
    OBVIOUS
  <2>1. CASE j = 0
    <3>1. Evaluated(t, Sub(n, 1), l, p)
      <4>1. 2 * 0 + 1 = 1 /\ 0 \in 0..Half(n)
        BY <1>1
      <4> QED
        BY <4>1
    <3>2. Within(t, Sub(n, 1), l, p)
      BY <1>1, <2>1 DEF Within
    <3> QED
      BY <1>1, <2>1, <3>1, <3>2 DEF Evaluated, Adds
  <2>2. CASE j # 0
    <3>1. j - 1 \in 0..(j - 1) /\ j - 1 \in 0..Half(n) /\ j \in 1..Half(n) /\ j - 1 \in Nat
      BY <1>1, <2>2
    <3>2. PICK kid : kid = Sub(n, 2 * j + 1)
      OBVIOUS
    <3>3. /\ t.from[kid] = CEnd(t, n, j - 1) /\ CEnd(t, n, j) = t.to[kid] + 1
          /\ Makes(t.to[kid], Trans!OpOf[Type(n, 2 * j)], CVal(t, n, j - 1), t.opd[kid],
                   CVal(t, n, j))
      BY <1>1, <3>1, <3>2 DEF Linked
    <3>4. /\ t.from[kid] \in Nat /\ t.to[kid] \in Nat /\ t.from[kid] <= t.to[kid]
          /\ kid \in Source!Expressions
      BY <1>3, <3>2, CompiledPlaces
    <3>5. CEnd(t, n, j - 1) <= p /\ CEnd(t, n, j - 1) >= l /\ t.to[kid] \in l..(p - 1)
      BY <1>1, <1>2, <3>1, <3>3, <3>4
    <3>6. Right(CVal(t, n, j - 1), u[j - 1])
      BY <1>4, <3>1, <3>5
    <3>7. Right(t.opd[kid], Source!Outcome(kid))
      <4>1. Within(t, kid, l, p)
        BY <3>3, <3>4, <3>5 DEF Within
      <4>2. Evaluated(t, kid, l, p)
        BY <3>2
      <4> QED
        BY <4>1, <4>2 DEF Evaluated
    <3>8. Settled(t.to[kid])
      BY <3>5 DEF Done
    <3>9. Type(n, 2 * j) \in Combining
      BY <3>1, HalfFacts DEF Sane
    <3>10. /\ u[j - 1] \in Results /\ Source!Outcome(kid) \in Results
           /\ u[j] = Source!Operation(Type(n, 2 * j), u[j - 1], Source!Outcome(kid))
      BY <3>1, <3>2, <3>4, OutcomeFacts DEF Adds
    <3> QED
      BY <3>3, <3>6, <3>7, <3>8, <3>9, <3>10, OperationRight
  <2> QED
    BY <2>1, <2>2
<1>5. Bad = {}
  <2>1. Bad \subseteq Nat
    OBVIOUS
  <2> HIDE DEF Bad
  <2> QED
    BY <1>4, <2>1, FromBelow
<1>6. \A j \in 0..Half(n) : j \in Nat
  BY <1>1
<1> QED
  BY <1>5, <1>6

(* Every expression that has been executed has its outcome in its operand. *)
LEMMA AllEvaluated ==
  ASSUME Sane, NEW t, Compiled(t), NEW l \in Nat, NEW p \in Nat, Done(l, p)
  PROVE  \A n \in Source!Expressions : Evaluated(t, n, l, p)
<1> DEFINE k == Len(nodes)
           Bad == {n \in 1..k : n \in Source!Expressions /\ ~Evaluated(t, n, l, p)}
<1>1. nodes \in Trees /\ k \in Nat /\ DOMAIN nodes = 1..k
  BY NodeFacts DEF Compiled
<1>2. ASSUME NEW n \in 1..k, \A m \in (n + 1)..k : m \notin Bad
      PROVE  n \notin Bad
  <2> SUFFICES ASSUME n \in Source!Expressions, Within(t, n, l, p)
               PROVE  Right(t.opd[n], Source!Outcome(n))
    BY DEF Evaluated
  <2>1. n \in DOMAIN nodes /\ nodes[n].nt \in {"expression", "term", "factor"}
    BY <1>1 DEF Source!Expressions
  <2>2. \A m \in (n + 1)..k : m \in Source!Expressions => Evaluated(t, m, l, p)
    <3> SUFFICES ASSUME NEW m \in (n + 1)..k, m \in Source!Expressions
                 PROVE  Evaluated(t, m, l, p)
      OBVIOUS
    <3>1. m \in 1..k
      OBVIOUS
    <3> QED
      BY <1>2, <3>1
  <2>3. /\ t.from[n] \in Nat /\ t.to[n] \in Nat
        /\ l <= t.from[n] /\ t.to[n] <= p
    BY <2>1, CompiledPlaces DEF Within
  <2> HIDE DEF Bad, k
  <2>4. CASE nodes[n].nt \in {"expression", "term"}
    <3>1. PICK u : Adds(u, n) /\ Source!Outcome(n) = u[Half(n)]
      BY <2>4, OutcomeFacts
    <3>2. \A j \in 0..Half(n) : Evaluated(t, Sub(n, 2 * j + 1), l, p)
      BY <1>1, <2>1, <2>2, <2>4, HalfFacts DEF k
    <3>3. \A j \in 0..Half(n) : CEnd(t, n, j) <= p => Right(CVal(t, n, j), u[j])
      BY <2>1, <2>3, <2>4, <3>1, <3>2, PrefixRight
    <3>4. t.to[n] = CEnd(t, n, Half(n)) /\ t.opd[n] = CVal(t, n, Half(n)) /\ Half(n) \in Nat
      BY <2>1, <2>4, Links
    <3>5. Half(n) \in 0..Half(n)
      BY <3>4
    <3> QED
      BY <2>3, <3>1, <3>3, <3>4, <3>5
  <2>5. CASE nodes[n].nt = "factor"
    <3>1. LaidFactor(t, n)
      BY <2>1, <2>5, OperandCode
    <3>2. /\ Type(n, 1) \in {"LITERAL", "IDENTIFIER", "LPAREN", "PLUS", "MINUS"}
          /\ Type(n, 1) \in {"LPAREN", "PLUS", "MINUS"} =>
               /\ Sub(n, 2) \in (n + 1)..k
               /\ Sub(n, 2) \in Source!Expressions
      BY <2>1, <2>5, FactorFacts DEF k
    <3>3. Type(n, 1) \in {"LPAREN", "PLUS", "MINUS"} =>
            Evaluated(t, Sub(n, 2), l, p) /\ Source!Outcome(Sub(n, 2)) \in Results
      BY <2>2, <3>2, OutcomeFacts
    <3>4. CASE Type(n, 1) = "LITERAL"
      <4>1. t.opd[n] = Literal(Attr(n, 1))
        BY <3>1, <3>4 DEF LaidFactor
      <4>2. Source!Outcome(n) = Source!Number(Attr(n, 1))
        BY <2>5, <3>4, OutcomeFacts
      <4> QED
        BY <4>1, <4>2, RightAtOnce
    <3>5. CASE Type(n, 1) = "IDENTIFIER"
      <4>1. t.opd[n] = Symbol(Attr(n, 1))
        BY <3>1, <3>5 DEF LaidFactor
      <4>2. Source!Outcome(n) = Source!Number(value[Attr(n, 1)])
        BY <2>5, <3>5, OutcomeFacts
      <4> QED
        BY <4>1, <4>2, RightAtOnce
    <3>6. CASE Type(n, 1) = "LPAREN"
      <4>1. /\ t.from[Sub(n, 2)] = t.from[n] /\ t.to[n] = t.to[Sub(n, 2)]
            /\ t.opd[n] = t.opd[Sub(n, 2)]
        BY <3>1, <3>6 DEF LaidFactor
      <4>2. Source!Outcome(n) = Source!Outcome(Sub(n, 2))
        BY <2>5, <3>6, OutcomeFacts
      <4> QED
        BY <2>3, <3>3, <3>6, <4>1, <4>2 DEF Evaluated, Within
    <3>7. CASE Type(n, 1) \in {"PLUS", "MINUS"}
      <4>1. PICK kid : kid = Sub(n, 2)
        OBVIOUS
      <4>2. /\ t.from[kid] = t.from[n] /\ t.to[n] = t.to[kid] + 1
            /\ Stands(t.to[kid], Trans!SignOf[Type(n, 1)])
            /\ instrs[t.to[kid] + 1].src1 = t.opd[kid]
            /\ instrs[t.to[kid] + 1].dest = t.opd[n]
        BY <3>1, <3>7, <4>1 DEF LaidFactor
      <4>3. Source!Outcome(n) = Source!Operation(Type(n, 1), Source!Number(0),
                                                 Source!Outcome(kid))
        BY <2>5, <3>7, <4>1, OutcomeFacts
      <4>4. kid \in DOMAIN nodes
        BY <3>2, <3>7, <4>1 DEF Source!Expressions
      <4>5. t.to[kid] \in Nat /\ t.from[kid] \in Nat /\ t.from[kid] <= t.to[kid]
        BY <4>4, CompiledPlaces
      <4>6. t.to[kid] <= p /\ t.to[kid] \in l..(p - 1)
        BY <2>3, <4>2, <4>5
      <4>7. Right(t.opd[kid], Source!Outcome(kid))
        BY <2>3, <3>3, <3>7, <4>1, <4>2, <4>6 DEF Evaluated, Within
      <4>8. Settled(t.to[kid])
        BY <4>6 DEF Done
      <4> QED
        BY <3>3, <3>7, <4>1, <4>2, <4>3, <4>7, <4>8, SignRight
    <3> QED
      BY <3>2, <3>4, <3>5, <3>6, <3>7
  <2> QED
    BY <2>1, <2>4, <2>5
<1>3. Bad = {}
  <2>1. Bad \subseteq 1..k
    OBVIOUS
  <2> HIDE DEF Bad, k
  <2> QED
    BY <1>1, <1>2, <2>1, FromAbove
<1>4. Source!Expressions \subseteq 1..k
  BY <1>1 DEF Source!Expressions
<1> QED
  BY <1>3, <1>4

-----------------------------------------------------------------------------
(* A division that cannot be done ends the evaluation of the expression    *)
(* that it is in.                                                          *)
Fails(t, n, l, p, f) ==
  l <= t.from[n] /\ p \in t.from[n]..(t.to[n] - 1)
    => Source!Outcome(n) = Source!Fault(f)

(* When the instruction at p ends the process, then every expression whose
   code holds p has that end as its outcome. *)
LEMMA AllFail ==
  ASSUME Sane, NEW t, Compiled(t), NEW l \in Nat, NEW p \in Nat, Done(l, p),
         NEW f \in {"failed", "trapped"}, Aborts(p, f)
  PROVE  \A n \in Source!Expressions : Fails(t, n, l, p, f)
<1> DEFINE k == Len(nodes)
           Bad == {n \in 1..k : n \in Source!Expressions /\ ~Fails(t, n, l, p, f)}
<1>1. nodes \in Trees /\ k \in Nat /\ DOMAIN nodes = 1..k
  BY NodeFacts DEF Compiled
<1>0. Source!Fault(f) \in Results /\ Source!Fault(f).fault # "none"
  BY ResultFacts
<1>2. ASSUME NEW n \in 1..k, \A m \in (n + 1)..k : m \notin Bad
      PROVE  n \notin Bad
  <2> SUFFICES ASSUME n \in Source!Expressions, l <= t.from[n],
                      p \in t.from[n]..(t.to[n] - 1)
               PROVE  Source!Outcome(n) = Source!Fault(f)
    BY DEF Fails
  <2>1. n \in DOMAIN nodes /\ nodes[n].nt \in {"expression", "term", "factor"}
    BY <1>1 DEF Source!Expressions
  <2>2. \A m \in (n + 1)..k : m \in Source!Expressions => Fails(t, m, l, p, f)
    <3> SUFFICES ASSUME NEW m \in (n + 1)..k, m \in Source!Expressions
                 PROVE  Fails(t, m, l, p, f)
      OBVIOUS
    <3>1. m \in 1..k
      OBVIOUS
    <3> QED
      BY <1>2, <3>1
  <2>3. t.from[n] \in Nat /\ t.to[n] \in Nat
    BY <2>1, CompiledPlaces
  <2> HIDE DEF Bad, k
  <2>4. CASE nodes[n].nt \in {"expression", "term"}
    <3>1. PICK u : Adds(u, n) /\ Source!Outcome(n) = u[Half(n)]
      BY <2>4, OutcomeFacts
    <3>2. \A j \in 0..Half(n) : /\ Fails(t, Sub(n, 2 * j + 1), l, p, f)
                                /\ Sub(n, 2 * j + 1) \in Source!Expressions
                                /\ Sub(n, 2 * j + 1) \in DOMAIN nodes
      BY <1>1, <2>1, <2>2, <2>4, HalfFacts DEF k, Source!Expressions
    <3>3. \A j \in 0..Half(n) : CEnd(t, n, j) <= p => Right(CVal(t, n, j), u[j])
      <4>1. \A j \in 0..Half(n) : Evaluated(t, Sub(n, 2 * j + 1), l, p)
        BY <3>2, AllEvaluated
      <4> QED
        BY <2>1, <2>3, <2>4, <3>1, <4>1, PrefixRight
    <3>4. /\ Half(n) \in Nat /\ t.to[n] = CEnd(t, n, Half(n))
          /\ t.from[Sub(n, 1)] = t.from[n] /\ CEnd(t, n, 0) = t.to[Sub(n, 1)]
          /\ \A j \in 1..Half(n) : Linked(t, n, j)
          /\ \A j \in 0..Half(n) : CEnd(t, n, j) \in Nat /\ CEnd(t, n, j) >= t.from[n]
      BY <2>1, <2>4, Links
    <3> DEFINE Odd == {j \in Nat : j \in 0..Half(n) /\ p < CEnd(t, n, j)
                                     /\ u[j] # Source!Fault(f)}
    <3>5. ASSUME NEW j \in Nat, \A i \in 0..(j - 1) : i \notin Odd
          PROVE  j \notin Odd
      <4> SUFFICES ASSUME j \in 0..Half(n), p < CEnd(t, n, j)
                   PROVE  u[j] = Source!Fault(f)
        OBVIOUS
      <4>1. CASE j = 0
        <5>1. Fails(t, Sub(n, 1), l, p, f)
          <6>1. 2 * 0 + 1 = 1 /\ 0 \in 0..Half(n)
            BY <3>4
          <6> QED
            BY <3>2, <6>1
        <5>2. l <= t.from[Sub(n, 1)] /\ p \in t.from[Sub(n, 1)]..(t.to[Sub(n, 1)] - 1)
          <6>1. CEnd(t, n, 0) \in Nat /\ p < CEnd(t, n, 0)
            BY <3>4, <4>1
          <6> QED
            BY <2>3, <3>4, <6>1
        <5> QED
          BY <3>1, <4>1, <5>1, <5>2 DEF Fails, Adds
      <4>2. CASE j # 0
        <5>1. j - 1 \in 0..(j - 1) /\ j - 1 \in 0..Half(n) /\ j \in 1..Half(n) /\ j - 1 \in Nat
          BY <3>4, <4>2
        <5>2. PICK kid : kid = Sub(n, 2 * j + 1)
          OBVIOUS
        <5>3. /\ t.from[kid] = CEnd(t, n, j - 1) /\ CEnd(t, n, j) = t.to[kid] + 1
              /\ Makes(t.to[kid], Trans!OpOf[Type(n, 2 * j)], CVal(t, n, j - 1), t.opd[kid],
                       CVal(t, n, j))
          BY <3>4, <5>1, <5>2 DEF Linked
        <5>4. /\ t.from[kid] \in Nat /\ t.to[kid] \in Nat /\ t.from[kid] <= t.to[kid]
              /\ kid \in Source!Expressions /\ Fails(t, kid, l, p, f)
          BY <3>2, <5>2, CompiledPlaces
        <5>5. Type(n, 2 * j) \in Combining
          BY <2>1, <2>4, <5>1, HalfFacts DEF Sane
        <5>6. /\ u[j - 1] \in Results /\ Source!Outcome(kid) \in Results
              /\ u[j] = Source!Operation(Type(n, 2 * j), u[j - 1], Source!Outcome(kid))
          BY <3>1, <5>1, <5>2, <5>4, OutcomeFacts DEF Adds
        <5>7. CEnd(t, n, j - 1) \in Nat /\ CEnd(t, n, j - 1) >= t.from[n]
          BY <3>4, <5>1
        <5>8. CASE p < CEnd(t, n, j - 1)
          <6>1. u[j - 1] = Source!Fault(f)
            BY <3>5, <5>1, <5>8
          <6> QED
            BY <1>0, <5>5, <5>6, <6>1, OutcomesCombined
        <5>9. CASE p >= CEnd(t, n, j - 1)
          <6>1. Right(CVal(t, n, j - 1), u[j - 1])
            BY <3>3, <5>1, <5>7, <5>9
          <6>2. CASE p < t.to[kid]
            <7>1. Source!Outcome(kid) = Source!Fault(f)
              <8>1. l <= t.from[kid] /\ p \in t.from[kid]..(t.to[kid] - 1)
                BY <2>3, <5>3, <5>4, <5>7, <5>9, <6>2
              <8> QED
                BY <5>4, <8>1 DEF Fails
            <7>2. u[j - 1].fault = "none"
              BY <6>1 DEF Right
            <7> QED
              BY <1>0, <5>5, <5>6, <7>1, <7>2, OutcomesCombined
          <6>3. CASE p >= t.to[kid]
            <7>1. p = t.to[kid] /\ l <= t.from[kid]
              BY <2>3, <5>3, <5>4, <5>7, <6>3
            <7>2. Evaluated(t, kid, l, p)
              BY <5>4, AllEvaluated
            <7>3. Right(t.opd[kid], Source!Outcome(kid))
              BY <5>4, <7>1, <7>2 DEF Evaluated, Within
            <7> QED
              <8>1. PICK q : q = t.to[kid]
                OBVIOUS
              <8>2. Makes(q, Trans!OpOf[Type(n, 2 * j)], CVal(t, n, j - 1), t.opd[kid],
                          CVal(t, n, j)) /\ Aborts(q, f)
                BY <5>3, <7>1, <8>1
              <8>3. PICK w \in Combining, x \in Results, y \in Results :
                      w = Type(n, 2 * j) /\ x = u[j - 1] /\ y = Source!Outcome(kid)
                BY <5>5, <5>6
              <8>5. /\ Right(CVal(t, n, j - 1), x) /\ Right(t.opd[kid], y)
                    /\ Makes(q, Trans!OpOf[w], CVal(t, n, j - 1), t.opd[kid], CVal(t, n, j))
                BY <6>1, <7>3, <8>2, <8>3
              <8>6. PICK a, b, d : Right(a, x) /\ Right(b, y) /\ Makes(q, Trans!OpOf[w], a, b, d)
                BY <8>5
              <8>4. Source!Operation(w, x, y) = Source!Fault(f)
                BY <8>2, <8>6, OperationFails
              <8> QED
                BY <5>6, <8>2, <8>3, <8>4
          <6> QED
            BY <5>4, <6>2, <6>3
        <5> QED
          BY <5>7, <5>8, <5>9
      <4> QED
        BY <4>1, <4>2
    <3>6. Odd = {}
      <4>1. Odd \subseteq Nat
        OBVIOUS
      <4> HIDE DEF Odd
      <4> QED
        BY <3>5, <4>1, FromBelow
    <3>7. Half(n) \in 0..Half(n) /\ p < CEnd(t, n, Half(n))
      BY <2>3, <3>4
    <3> QED
      BY <3>1, <3>4, <3>6, <3>7
  <2>5. CASE nodes[n].nt = "factor"
    <3>1. LaidFactor(t, n)
      BY <2>1, <2>5, OperandCode
    <3>2. /\ Type(n, 1) \in {"LITERAL", "IDENTIFIER", "LPAREN", "PLUS", "MINUS"}
          /\ Type(n, 1) \in {"LPAREN", "PLUS", "MINUS"} =>
               /\ Sub(n, 2) \in (n + 1)..k
               /\ Sub(n, 2) \in Source!Expressions
      BY <2>1, <2>5, FactorFacts DEF k
    <3>3. PICK kid : kid = Sub(n, 2)
      OBVIOUS
    <3>4. Type(n, 1) \in {"LPAREN", "PLUS", "MINUS"} =>
            Fails(t, kid, l, p, f) /\ t.to[kid] \in Nat
      <4>1. kid \in Source!Expressions => kid \in DOMAIN nodes
        BY DEF Source!Expressions
      <4> QED
        BY <2>2, <3>2, <3>3, <4>1, CompiledPlaces
    <3>5. CASE Type(n, 1) \in {"LITERAL", "IDENTIFIER"}
      <4>1. t.to[n] = t.from[n]
        BY <3>1, <3>5 DEF LaidFactor
      <4> QED
        BY <2>3, <4>1
    <3>6. CASE Type(n, 1) = "LPAREN"
      <4>1. t.from[kid] = t.from[n] /\ t.to[n] = t.to[kid]
        BY <3>1, <3>3, <3>6 DEF LaidFactor
      <4>2. Source!Outcome(n) = Source!Outcome(kid)
        BY <2>5, <3>3, <3>6, OutcomeFacts
      <4> QED
        BY <3>4, <3>6, <4>1, <4>2 DEF Fails
    <3>7. CASE Type(n, 1) \in {"PLUS", "MINUS"}
      <4>1. /\ t.from[kid] = t.from[n] /\ t.to[n] = t.to[kid] + 1
            /\ Stands(t.to[kid], Trans!SignOf[Type(n, 1)])
        BY <3>1, <3>3, <3>7 DEF LaidFactor
      <4>2. p # t.to[kid]
        <5>1. Trans!SignOf[Type(n, 1)] \in {"PLS", "NEG"}
          BY <3>7 DEF Trans!SignOf
        <5> QED
          BY <4>1, <5>1 DEF Stands, Aborts
      <4>3. p \in t.from[kid]..(t.to[kid] - 1)
        BY <2>3, <3>4, <3>7, <4>1, <4>2
      <4>4. Source!Outcome(kid) = Source!Fault(f)
        BY <3>4, <3>7, <4>1, <4>3 DEF Fails
      <4>5. Source!Outcome(n) = Source!Operation(Type(n, 1), Source!Number(0),
                                                 Source!Outcome(kid))
        BY <2>5, <3>3, <3>7, OutcomeFacts
      <4>6. /\ Type(n, 1) \in Combining /\ Source!Number(0) \in Results
            /\ Source!Number(0).fault = "none"
        BY <3>7, Width, ResultFacts DEF Combining
      <4> QED
        BY <1>0, <4>4, <4>5, <4>6, OutcomesCombined
    <3> QED
      BY <3>2, <3>5, <3>6, <3>7
  <2> QED
    BY <2>1, <2>4, <2>5
<1>3. Bad = {}
  <2>1. Bad \subseteq 1..k
    OBVIOUS
  <2> HIDE DEF Bad, k
  <2> QED
    BY <1>1, <1>2, <2>1, FromAbove
<1>4. Source!Expressions \subseteq 1..k
  BY <1>1 DEF Source!Expressions
<1> QED
  BY <1>3, <1>4

-----------------------------------------------------------------------------
(* What a statement asks for before it is done or decided, *)
Asking == {"assign", "output", "branch", "loop", "repeat"}

Asked(n) ==
  CASE nodes[n].nt = "output" -> Sub(n, 2)
    [] nodes[n].nt \in {"assign", "branch", "loop"} -> Sub(n, 3)
    [] nodes[n].nt = "repeat" -> Sub(n, 5)

Questions == Source!Expressions \cup {n \in DOMAIN nodes : nodes[n].nt = "condition"}

(* and what the answer is. *)
Meant(x) ==
  IF nodes[x].nt = "condition" THEN Source!Decision(x) ELSE Source!Outcome(x)

(* A decision is a comparison of two outcomes. *)
LEMMA DecisionFacts ==
  ASSUME Sane, NEW c \in DOMAIN nodes, nodes[c].nt = "condition"
  PROVE  /\ Sub(c, 1) \in Source!Expressions /\ Sub(c, 3) \in Source!Expressions
         /\ Type(c, 2) \in RelOps
         /\ LET l == Source!Outcome(Sub(c, 1))
                r == Source!Outcome(Sub(c, 3))
            IN /\ l \in Results /\ r \in Results
               /\ l.fault # "none" => Source!Decision(c) = l
               /\ l.fault = "none" /\ r.fault # "none" => Source!Decision(c) = r
               /\ l.fault = "none" /\ r.fault = "none" =>
                    Source!Decision(c) =
                      Source!Number(IF Run!Compared(Type(c, 2), l.val, r.val) THEN 1 ELSE 0)
<1>1. HasSub(c, 1, "expression") /\ HasToken(c, 2, RelOps) /\ HasSub(c, 3, "expression")
  BY ShapeFacts DEF Sane, Shaped
<1>2. Sub(c, 1) \in Source!Expressions /\ Sub(c, 3) \in Source!Expressions
      /\ Type(c, 2) \in RelOps
  BY <1>1 DEF HasSub, HasToken, Source!Expressions
<1>3. PICK l \in Results, r \in Results :
        l = Source!Outcome(Sub(c, 1)) /\ r = Source!Outcome(Sub(c, 3))
  BY <1>2, OutcomeFacts
<1>4. /\ Source!Outcome(Source!Kid(c, 1).at) = l
      /\ Source!Outcome(Source!Kid(c, 3).at) = r
      /\ Source!Kid(c, 2).type = Type(c, 2)
  BY <1>3 DEF Source!Kid, Sub, Type
<1>5. l.fault # "none" => Source!Decision(c) = l
  BY <1>4 DEF Source!Decision
<1>6. l.fault = "none" /\ r.fault # "none" => Source!Decision(c) = r
  BY <1>4 DEF Source!Decision
<1>7. ASSUME l.fault = "none", r.fault = "none"
      PROVE  Source!Decision(c) =
               Source!Number(IF Run!Compared(Type(c, 2), l.val, r.val) THEN 1 ELSE 0)
  <2>1. CASE Type(c, 2) = "EQ"
    BY <1>4, <1>7, <2>1 DEF Source!Decision, Run!Compared
  <2>2. CASE Type(c, 2) = "NEQ"
    BY <1>4, <1>7, <2>2 DEF Source!Decision, Run!Compared
  <2>3. CASE Type(c, 2) = "LT"
    BY <1>4, <1>7, <2>3 DEF Source!Decision, Run!Compared
  <2>4. CASE Type(c, 2) = "LTE"
    BY <1>4, <1>7, <2>4 DEF Source!Decision, Run!Compared
  <2>5. CASE Type(c, 2) = "GT"
    BY <1>4, <1>7, <2>5 DEF Source!Decision, Run!Compared
  <2>6. CASE Type(c, 2) = "GTE"
    BY <1>4, <1>7, <2>6 DEF Source!Decision, Run!Compared
  <2> QED
    BY <1>2, <2>1, <2>2, <2>3, <2>4, <2>5, <2>6 DEF RelOps
<1> QED
  BY <1>2, <1>3, <1>5, <1>6, <1>7

(* The answer is an outcome; that of a condition is 0 or 1. *)
LEMMA AnswerFacts ==
  ASSUME Sane, NEW x \in Questions
  PROVE  /\ Meant(x) \in Results
         /\ nodes[x].nt = "condition" /\ Meant(x).fault = "none" => Meant(x).val \in {0, 1}
<1>1. CASE x \in Source!Expressions
  BY <1>1, OutcomeFacts DEF Meant, Source!Expressions
<1>2. CASE x \in DOMAIN nodes /\ nodes[x].nt = "condition"
  <2>1. PICK l \in Results, r \in Results :
          /\ l.fault # "none" => Source!Decision(x) = l
          /\ l.fault = "none" /\ r.fault # "none" => Source!Decision(x) = r
          /\ l.fault = "none" /\ r.fault = "none" =>
               \E v \in {0, 1} : Source!Decision(x) = Source!Number(v)
    BY <1>2, DecisionFacts
  <2>2. \A v \in {0, 1} : v \in Source!Int64
    BY Width
  <2>3. Source!Decision(x) \in Results
        /\ (Source!Decision(x).fault = "none" => Source!Decision(x).val \in {0, 1})
    BY <2>1, <2>2, ResultFacts
  <2> QED
    BY <1>2, <2>3 DEF Meant
<1> QED
  BY <1>1, <1>2 DEF Questions

(* Once its code has been executed, it is in the operand; *)
LEMMA AnswerRight ==
  ASSUME Sane, NEW t, Compiled(t), NEW l \in Nat, NEW p \in Nat, Done(l, p),
         NEW x \in Questions, Within(t, x, l, p)
  PROVE  Right(t.opd[x], Meant(x))
<1>1. CASE x \in Source!Expressions
  BY <1>1, AllEvaluated DEF Evaluated, Meant, Source!Expressions
<1>2. CASE x \in DOMAIN nodes /\ nodes[x].nt = "condition"
  <2>1. LaidCondition(t, x)
    BY <1>2, OperandCode
  <2>2. PICK a, b : a = Sub(x, 1) /\ b = Sub(x, 3)
    OBVIOUS
  <2>3. a \in Source!Expressions /\ b \in Source!Expressions /\ Type(x, 2) \in RelOps
    BY <1>2, <2>2, DecisionFacts
  <2>4. /\ a \in DOMAIN nodes /\ b \in DOMAIN nodes
    BY <2>3 DEF Source!Expressions
  <2>5. /\ t.from[a] \in Nat /\ t.to[a] \in Nat /\ t.from[a] <= t.to[a]
        /\ t.from[b] \in Nat /\ t.to[b] \in Nat /\ t.from[b] <= t.to[b]
        /\ t.from[x] \in Nat /\ t.to[x] \in Nat
    BY <1>2, <2>4, CompiledPlaces
  <2>6. /\ t.from[a] = t.from[x] /\ t.from[b] = t.to[a] /\ t.to[x] = t.to[b] + 1
        /\ Makes(t.to[b], Type(x, 2), t.opd[a], t.opd[b], t.opd[x])
    BY <2>1, <2>2 DEF LaidCondition
  <2>7. Within(t, a, l, p) /\ Within(t, b, l, p) /\ t.to[b] \in l..(p - 1)
    BY <2>5, <2>6 DEF Within
  <2>8. /\ Right(t.opd[a], Source!Outcome(a)) /\ Right(t.opd[b], Source!Outcome(b))
        /\ Settled(t.to[b])
    BY <2>3, <2>7, AllEvaluated DEF Evaluated, Done
  <2>9. Source!Decision(x) =
          Source!Number(IF Run!Compared(Type(x, 2), Source!Outcome(a).val,
                                        Source!Outcome(b).val) THEN 1 ELSE 0)
    BY <1>2, <2>2, <2>8, DecisionFacts DEF Right
  <2>10. Val(t.opd[x]) = IF Run!Compared(Type(x, 2), Val(t.opd[a]), Val(t.opd[b]))
                         THEN 1 ELSE 0
    BY <2>3, <2>6, <2>8 DEF Makes, Stands, Settled, Settles
  <2>11. /\ Val(t.opd[a]) = Source!Outcome(a).val /\ Val(t.opd[b]) = Source!Outcome(b).val
    BY <2>8 DEF Right
  <2>12. Source!Decision(x) = Source!Number(Val(t.opd[x]))
    BY <2>9, <2>10, <2>11
  <2> QED
    BY <1>2, <2>12, ResultFacts DEF Right, Meant
<1> QED
  BY <1>1, <1>2 DEF Questions

(* a division that cannot be done is the answer. *)
LEMMA AnswerFails ==
  ASSUME Sane, NEW t, Compiled(t), NEW l \in Nat, NEW p \in Nat, Done(l, p),
         NEW f \in {"failed", "trapped"}, Aborts(p, f),
         NEW x \in Questions, l <= t.from[x], p \in t.from[x]..(t.to[x] - 1)
  PROVE  Meant(x) = Source!Fault(f)
<1>1. CASE x \in Source!Expressions
  BY <1>1, AllFail DEF Fails, Meant, Source!Expressions
<1>2. CASE x \in DOMAIN nodes /\ nodes[x].nt = "condition"
  <2>1. LaidCondition(t, x)
    BY <1>2, OperandCode
  <2>2. PICK a, b : a = Sub(x, 1) /\ b = Sub(x, 3)
    OBVIOUS
  <2>3. a \in Source!Expressions /\ b \in Source!Expressions /\ Type(x, 2) \in RelOps
    BY <1>2, <2>2, DecisionFacts
  <2>4. /\ a \in DOMAIN nodes /\ b \in DOMAIN nodes
    BY <2>3 DEF Source!Expressions
  <2>5. /\ t.from[a] \in Nat /\ t.to[a] \in Nat /\ t.from[a] <= t.to[a]
        /\ t.from[b] \in Nat /\ t.to[b] \in Nat /\ t.from[b] <= t.to[b]
        /\ t.from[x] \in Nat /\ t.to[x] \in Nat
    BY <1>2, <2>4, CompiledPlaces
  <2>6. /\ t.from[a] = t.from[x] /\ t.from[b] = t.to[a] /\ t.to[x] = t.to[b] + 1
        /\ Stands(t.to[b], Type(x, 2))
    BY <2>1, <2>2 DEF LaidCondition, Makes
  <2>7. p # t.to[b]
    BY <2>3, <2>6 DEF Stands, Aborts, RelOps
  <2>8. Fails(t, a, l, p, f) /\ Fails(t, b, l, p, f) /\ Evaluated(t, a, l, p)
    BY <2>3, AllFail, AllEvaluated
  <2>9. CASE p < t.to[a]
    <3>1. Source!Outcome(a) = Source!Fault(f)
      BY <2>5, <2>6, <2>8, <2>9 DEF Fails
    <3>2. Source!Outcome(a).fault # "none"
      BY <3>1, ResultFacts
    <3> QED
      BY <1>2, <2>2, <3>1, <3>2, DecisionFacts DEF Meant
  <2>10. CASE p >= t.to[a]
    <3>1. Source!Outcome(b) = Source!Fault(f)
      BY <2>5, <2>6, <2>7, <2>8, <2>10 DEF Fails
    <3>2. Source!Outcome(b).fault # "none"
      BY <3>1, ResultFacts
    <3>3. Source!Outcome(a).fault = "none"
      BY <2>5, <2>6, <2>8, <2>10 DEF Evaluated, Within, Right
    <3> QED
      BY <1>2, <2>2, <3>1, <3>2, <3>3, DecisionFacts DEF Meant
  <2> QED
    BY <2>5, <2>9, <2>10
<1> QED
  BY <1>1, <1>2 DEF Questions

(* All its code computes. *)
LEMMA AnswerComputes ==
  ASSUME Sane, NEW t, Compiled(t), NEW x \in Questions
  PROVE  Computing(t, x)
<1>1. CASE x \in Source!Expressions
  BY <1>1, OperandComputes
<1>2. CASE x \in DOMAIN nodes /\ nodes[x].nt = "condition"
  <2> SUFFICES ASSUME NEW p \in t.from[x]..(t.to[x] - 1)
               PROVE  Calculates(p)
    BY DEF Computing
  <2>1. LaidCondition(t, x)
    BY <1>2, OperandCode
  <2>2. PICK a, b : a = Sub(x, 1) /\ b = Sub(x, 3)
    OBVIOUS
  <2>3. a \in Source!Expressions /\ b \in Source!Expressions /\ Type(x, 2) \in RelOps
    BY <1>2, <2>2, DecisionFacts
  <2>4. /\ a \in DOMAIN nodes /\ b \in DOMAIN nodes
    BY <2>3 DEF Source!Expressions
  <2>5. /\ t.from[a] \in Nat /\ t.to[a] \in Nat /\ t.from[a] <= t.to[a]
        /\ t.from[b] \in Nat /\ t.to[b] \in Nat /\ t.from[b] <= t.to[b]
        /\ t.from[x] \in Nat /\ t.to[x] \in Nat
    BY <1>2, <2>4, CompiledPlaces
  <2>6. /\ t.from[a] = t.from[x] /\ t.from[b] = t.to[a] /\ t.to[x] = t.to[b] + 1
        /\ Stands(t.to[b], Type(x, 2))
    BY <2>1, <2>2 DEF LaidCondition, Makes
  <2>7. Computing(t, a) /\ Computing(t, b)
    BY <2>3, OperandComputes
  <2>8. CASE p = t.to[b]
    BY <2>3, <2>6, <2>8, MakesCalculates
  <2>9. p \in t.from[a]..(t.to[a] - 1) \/ p \in t.from[b]..(t.to[b] - 1) \/ p = t.to[b]
    BY <2>5, <2>6
  <2> QED
    BY <2>7, <2>8, <2>9 DEF Computing
<1> QED
  BY <1>1, <1>2 DEF Questions

-----------------------------------------------------------------------------
(* What can be to do. *)
Works == Seq({n \in DOMAIN nodes : nodes[n].nt \in Statements})

(* One work, or two works one after the other, or a part of one. *)
LEMMA WorksJoin ==
  /\ << >> \in Works
  /\ \A n \in DOMAIN nodes : nodes[n].nt \in Statements => <<n>> \in Works
  /\ \A s, r \in Works : s \o r \in Works
  /\ \A s \in Works : /\ s \in Lists
                      /\ s # << >> => /\ Tail(s) \in Works /\ Head(s) \in DOMAIN nodes
                                      /\ nodes[Head(s)].nt \in Statements
<1>1. PICK W : W = {n \in DOMAIN nodes : nodes[n].nt \in Statements}
  OBVIOUS
<1>2. /\ << >> \in Seq(W) /\ \A n \in W : <<n>> \in Seq(W)
      /\ \A s, r \in Seq(W) : s \o r \in Seq(W)
      /\ \A s \in Seq(W) : s # << >> => Tail(s) \in Seq(W) /\ Head(s) \in W
  OBVIOUS
<1>3. \A s \in Seq(W) : s \in Lists
  <2>1. \A D : W \subseteq D => Seq(W) \subseteq Seq(D)
    OBVIOUS
  <2> QED
    BY <1>1, <2>1 DEF Lists
<1> QED
  BY <1>1, <1>2, <1>3 DEF Works

(* The code of a statement, or of a list, is a path through its statements. *)
Paved(t, n) ==
  Path(t, t.from[n], Source!Unrolled(n), t.to[n]) /\ Source!Unrolled(n) \in Works

(* The code of every statement is a path through the statements it stands for. *)
LEMMA AllPaved ==
  ASSUME NEW t, Compiled(t)
  PROVE  \A n \in DOMAIN nodes : nodes[n].nt \in Statements \cup {"statements"} => Paved(t, n)
<1> DEFINE k == Len(nodes)
           Bad == {n \in 1..k : /\ nodes[n].nt \in Statements \cup {"statements"}
                                /\ ~Paved(t, n)}
<1>1. nodes \in Trees /\ k \in Nat /\ DOMAIN nodes = 1..k
  BY NodeFacts DEF Compiled
<1>2. ASSUME NEW n \in 1..k, \A m \in (n + 1)..k : m \notin Bad
      PROVE  n \notin Bad
  <2> SUFFICES ASSUME nodes[n].nt \in Statements \cup {"statements"}
               PROVE  Paved(t, n)
    OBVIOUS
  <2>1. n \in DOMAIN nodes /\ n \in Nat
    BY <1>1
  <2>2. \A m \in DOMAIN nodes : m > n /\ nodes[m].nt \in Statements \cup {"statements"}
                                  => Paved(t, m)
    <3> SUFFICES ASSUME NEW m \in DOMAIN nodes, m > n,
                        nodes[m].nt \in Statements \cup {"statements"}
                 PROVE  Paved(t, m)
      OBVIOUS
    <3>1. m \in 1..k /\ m \in (n + 1)..k
      BY <1>1
    <3> QED
      BY <1>2, <3>1
  <2>3. /\ t.from[n] \in Nat /\ t.to[n] \in Nat
        /\ Leads(t.from[n], t.from[n]) /\ Leads(t.to[n], t.to[n])
    BY <2>1, CompiledPlaces, LeadsSelf
  <2> HIDE DEF Bad, k
  <2>4. CASE nodes[n].nt = "statements"
    <3>1. PICK u : /\ Joins(u, Sequels, n) /\ Source!Unrolled(n) = u[Arity(n)]
                   /\ \A i \in 1..Arity(n) : Sequels[Sub(n, i)] = Source!Unrolled(Sub(n, i))
      BY <1>1, <2>1, <2>4, UnrolledFacts
    <3>2. Arity(n) \in Nat
      BY <1>1, <2>1, NodeFacts
    <3> DEFINE End(i) == IF i = 0 THEN t.from[n] ELSE t.to[Sub(n, i)]
               Odd == {i \in Nat : i \in 0..Arity(n) /\
                         ~(Path(t, t.from[n], u[i], End(i)) /\ u[i] \in Works)}
    <3>3. ASSUME NEW i \in Nat, \A j \in 0..(i - 1) : j \notin Odd
          PROVE  i \notin Odd
      <4> SUFFICES ASSUME i \in 0..Arity(n)
                   PROVE  Path(t, t.from[n], u[i], End(i)) /\ u[i] \in Works
        OBVIOUS
      <4>1. CASE i = 0
        <5>1. u[0] = << >> /\ End(0) = t.from[n]
          BY <3>1 DEF Joins
        <5> QED
          BY <2>3, <4>1, <5>1, PathNone, WorksJoin
      <4>2. CASE i # 0
        <5>1. i - 1 \in 0..(i - 1) /\ i - 1 \in 0..Arity(n) /\ i \in 1..Arity(n) /\ i - 1 \in Nat
          BY <3>2, <4>2
        <5>2. Path(t, t.from[n], u[i - 1], End(i - 1)) /\ u[i - 1] \in Works
          BY <3>3, <5>1
        <5>3. PICK kid : kid = Sub(n, i)
          OBVIOUS
        <5>4. /\ nodes[kid].nt \in Statements /\ kid \in DOMAIN nodes /\ kid > n
          BY <1>1, <2>1, <2>4, <5>1, <5>3, ShapeFacts DEF Shaped, HasSub
        <5>5. Paved(t, kid)
          BY <2>2, <5>4
        <5>6. t.from[kid] = IF i = 1 THEN t.from[n] ELSE t.to[Sub(n, i - 1)]
          BY <2>1, <2>4, <5>1, <5>3, ListCode DEF LaidList
        <5>7. t.from[kid] = End(i - 1) /\ t.to[kid] = End(i)
          BY <4>2, <5>1, <5>3, <5>6
        <5>8. u[i] = u[i - 1] \o Source!Unrolled(kid) /\ u[i - 1] \in Lists
          BY <3>1, <5>1, <5>3 DEF Joins
        <5>9. Source!Unrolled(kid) \in Lists /\ Source!Unrolled(kid) \in Works
          BY <1>1, <5>4, <5>5, UnrolledFacts DEF Paved
        <5> HIDE DEF End
        <5>10. Path(t, End(i - 1), Source!Unrolled(kid), End(i))
          BY <5>5, <5>7 DEF Paved
        <5>11. u[i] \in Works
          BY <5>2, <5>8, <5>9, WorksJoin
        <5>12. Path(t, t.from[n], u[i], End(i))
          BY <5>2, <5>8, <5>9, <5>10, PathJoin
        <5> QED
          BY <5>11, <5>12
      <4> QED
        BY <4>1, <4>2
    <3>4. Odd = {}
      <4>1. Odd \subseteq Nat
        OBVIOUS
      <4> HIDE DEF Odd
      <4> QED
        BY <3>3, <4>1, FromBelow
    <3>5. Path(t, t.from[n], u[Arity(n)], End(Arity(n))) /\ u[Arity(n)] \in Works
      <4>1. Arity(n) \in 0..Arity(n)
        BY <3>2
      <4> QED
        BY <3>2, <3>4, <4>1
    <3>6. t.to[n] = End(Arity(n))
      BY <2>1, <2>4, ListCode DEF LaidList
    <3> HIDE DEF End
    <3> QED
      BY <3>1, <3>5, <3>6 DEF Paved
  <2>5. CASE nodes[n].nt = "repeat"
    <3>1. PICK kid : kid = Sub(n, 2)
      OBVIOUS
    <3>2. kid \in DOMAIN nodes /\ kid > n /\ nodes[kid].nt = "statements"
      BY <1>1, <2>1, <2>5, <3>1, ShapeFacts DEF Shaped, HasSub
    <3>3. Paved(t, kid)
      BY <2>2, <3>2
    <3>4. t.from[kid] = t.from[n] /\ t.from[Sub(n, 5)] = t.to[kid]
      BY <2>1, <2>5, <3>1, StatementCode DEF LaidRepeat
    <3>5. PICK s \in Lists : s = Source!Unrolled(kid)
      BY <1>1, <3>2, UnrolledFacts
    <3>6. Source!Unrolled(n) = s \o <<n>>
      <4>1. Source!Unrolled(n) = Append(s, n)
        BY <1>1, <2>1, <2>5, <3>1, <3>5, UnrolledFacts
      <4> QED
        BY <2>1, <4>1 DEF Lists
    <3>7. Path(t, t.from[n], s, t.to[kid])
      BY <3>3, <3>4, <3>5 DEF Paved
    <3>8. Path(t, t.to[kid], <<n>>, t.to[n])
      <4>1. Leads(t.to[kid], Entry(t, n))
        BY <2>5, <3>2, <3>4, CompiledPlaces, LeadsSelf DEF Entry
      <4> QED
        BY <2>3, <4>1, PathOne
    <3>9. PICK r \in Lists : r = <<n>> /\ r \in Works
      <4>1. nodes[n].nt \in Statements
        BY <2>5 DEF Statements
      <4>2. <<n>> \in Works
        BY <2>1, <4>1, WorksJoin
      <4>3. <<n>> \in Lists
        BY <4>2, WorksJoin
      <4> QED
        BY <4>2, <4>3
    <3>11. s \in Works
      BY <3>3, <3>5 DEF Paved
    <3>12. s \o r \in Works
      BY <3>9, <3>11, WorksJoin
    <3>10. Path(t, t.from[n], s \o r, t.to[n])
      BY <3>7, <3>8, <3>9, PathJoin
    <3> QED
      BY <3>6, <3>9, <3>10, <3>12 DEF Paved
  <2>6. CASE nodes[n].nt \notin {"statements", "repeat"}
    <3>1. Source!Unrolled(n) = <<n>>
      BY <1>1, <2>1, <2>6, UnrolledFacts
    <3>2. Entry(t, n) = t.from[n]
      BY <2>6 DEF Entry
    <3>3. Source!Unrolled(n) \in Works
      BY <2>1, <2>6, <3>1, WorksJoin
    <3> QED
      BY <2>3, <3>1, <3>2, <3>3, PathOne DEF Paved
  <2> QED
    BY <2>4, <2>5, <2>6
<1>3. Bad = {}
  <2>1. Bad \subseteq 1..k
    OBVIOUS
  <2> HIDE DEF Bad, k
  <2> QED
    BY <1>1, <1>2, <2>1, FromAbove
<1> QED
  BY <1>1, <1>3

-----------------------------------------------------------------------------
(***************************************************************************)
(* The instructions that compute.                                          *)
(***************************************************************************)

(* What an instruction reads is the number that its operand stands for. *)
LEMMA FetchedIsVal ==
  ASSUME Run!IInv, NEW ops, Run!Executing(ops), NEW o \in Run!Sources(Run!Current)
  PROVE  Run!Fetched(o) = {Val(o)} /\ Val(o) \in Source!Int64
<1>1. o.type \in {"TEMPORARY", "LITERAL", "SYMBOL"}
      /\ (o.type = "TEMPORARY" => temporary[o.val] # Run!Uninit)
  <2>1. Run!TemporariesComputed /\ status = "running" /\ pc < Len(instrs)
    BY Run!ReadyComputed, RunAssumptions DEF Run!Executing
  <2>2. Run!Current = instrs[pc + 1] /\ pc + 1 \in DOMAIN instrs
    BY Run!CurrentProps, RunAssumptions
  <2>3. Run!Addressed(instrs, tmp_cnt)
    BY DEF Run!IInv, Run!Executable
  <2>4. o.type \in {"TEMPORARY", "LITERAL", "SYMBOL"}
    BY <2>2, <2>3 DEF Run!Addressed
  <2> QED
    BY <2>1, <2>4 DEF Run!TemporariesComputed
<1>2. Run!Fetched(o) = {Val(o)}
  BY <1>1 DEF Run!Fetched, Val
<1>3. Val(o) \in Run!Int64
  BY <1>2, Run!FetchedInt64, RunAssumptions
<1> QED
  BY <1>2, <1>3, Width

(* The instructions of the three modules are the same. *)
LEMMA SameSources ==
  /\ \A i : Run!Sources(i) = Sources(i) /\ Run!Computes(i) = Computes(i)
  /\ \A i : Trans!Computes(i) = Computes(i)
  /\ Run!Arithmetic = Arithmetic /\ Run!Unary = Unary /\ Run!RelOps = RelOps
BY DEF Run!Sources, Sources, Run!Computes, Computes, Trans!Computes, Run!Arithmetic,
       Arithmetic, Trans!Arithmetic, Run!Unary, Unary, Trans!Unary, Run!RelOps, RelOps,
       Trans!RelOps

(* The operands of the code. *)
LEMMA CodeOperands ==
  ASSUME Run!IInv, NEW k \in DOMAIN instrs
  PROVE  /\ k \in Nat /\ instrs[k] \in Run!Instruction
         /\ \A o \in Sources(instrs[k]) \cup {instrs[k].dest} :
              o.type = "TEMPORARY" => o = Temporary(o.val) /\ o.val \in Nat
         /\ Computes(instrs[k]) =>
              instrs[k].dest.type = "TEMPORARY" /\ instrs[k].dest.val \in 0..(tmp_cnt - 1)
<1>1. instrs \in Seq(Run!Instruction) /\ Run!Addressed(instrs, tmp_cnt) /\ tmp_cnt \in Nat
  BY DEF Run!IInv, Run!Executable, Run!TypeOK
<1>2. k \in Nat /\ instrs[k] \in Run!Instruction
  BY <1>1, ElementOfSeq, LenProperties
<1>3. Sources(instrs[k]) \cup {instrs[k].dest} \subseteq Run!Operand
  BY <1>2 DEF Run!Instruction, Sources
<1>4. \A o \in Run!Operand : o.type = "TEMPORARY" => o = Temporary(o.val) /\ o.val \in Nat
  BY Run!OperandTypes, RunAssumptions DEF Run!Temporary, Temporary
<1>5. Computes(instrs[k]) =>
        instrs[k].dest.type = "TEMPORARY" /\ instrs[k].dest.val < tmp_cnt
  BY <1>1, SameSources DEF Run!Addressed
<1>6. Computes(instrs[k]) => instrs[k].dest.val \in 0..(tmp_cnt - 1)
  BY <1>1, <1>3, <1>4, <1>5
<1> QED
  BY <1>2, <1>3, <1>4, <1>5, <1>6

(***************************************************************************)
(* A result that is stored is there, and nothing changes that has been     *)
(* computed or read before.                                                *)
(***************************************************************************)
LEMMA StoreChanges ==
  ASSUME Run!IInv, Trans!ComputedOnce, NEW ops, Run!Executing(ops), Computes(Run!Current),
         NEW v \in Source!Int64, Run!Store(v), UNCHANGED value
  PROVE  /\ \A o : o = Run!Current.dest => Val(o)' = v
         /\ \A k \in DOMAIN instrs : \A o : k <= pc + 1 /\ o \in Sources(instrs[k])
                                          => Val(o)' = Val(o)
         /\ \A k \in DOMAIN instrs : \A o : k < pc + 1 /\ Computes(instrs[k])
                                          /\ o = instrs[k].dest => Val(o)' = Val(o)
<1>1. /\ pc + 1 \in DOMAIN instrs /\ Run!Current = instrs[pc + 1] /\ pc \in Nat
      /\ temporary \in [0..(tmp_cnt - 1) -> Run!Int64 \cup {Run!Uninit}]
  BY Run!CurrentProps, RunAssumptions
<1>2. PICK d : d = instrs[pc + 1].dest
  OBVIOUS
<1>3. /\ d.type = "TEMPORARY" /\ d.val \in 0..(tmp_cnt - 1) /\ d = Temporary(d.val)
      /\ temporary' = [temporary EXCEPT ![d.val] = v]
  BY <1>1, <1>2, CodeOperands DEF Run!Store
<1>4. Val(d)' = v
  BY <1>1, <1>3 DEF Val
<1>5. ASSUME NEW o, o.type = "TEMPORARY" => o = Temporary(o.val), o # d
      PROVE  Val(o)' = Val(o)
  <2>1. o.type = "TEMPORARY" => temporary'[o.val] = temporary[o.val]
    BY <1>1, <1>3, <1>5
  <2> QED
    BY <2>1 DEF Val
<1>6. ASSUME NEW k \in DOMAIN instrs, NEW o, k <= pc + 1, o \in Sources(instrs[k])
      PROVE  Val(o)' = Val(o)
  <2>1. o.type = "TEMPORARY" => o = Temporary(o.val)
    BY <1>6, CodeOperands
  <2>2. o # d
    <3> SUFFICES ASSUME o = d PROVE FALSE
      OBVIOUS
    <3>1. Run!Straight(instrs) /\ o \in Run!Sources(instrs[k])
      BY <1>6, SameSources DEF Run!IInv, Run!Executable
    <3>2. PICK j \in 1..(k - 1) : \A m \in DOMAIN instrs : instrs[m].dest = o => m = j
      BY <1>3, <3>1 DEF Run!Straight
    <3>3. pc + 1 = j
      BY <1>1, <1>2, <3>2
    <3>4. k \in Nat
      BY CodeOperands
    <3> QED
      BY <1>1, <1>6, <3>3, <3>4
  <2> QED
    BY <1>5, <2>1, <2>2
<1>7. ASSUME NEW k \in DOMAIN instrs, NEW o, k < pc + 1, Computes(instrs[k]),
             o = instrs[k].dest
      PROVE  Val(o)' = Val(o)
  <2>1. o.type = "TEMPORARY" => o = Temporary(o.val)
    BY <1>7, CodeOperands
  <2>2. o # d
    <3>1. Trans!Computes(instrs[k]) /\ Trans!Computes(instrs[pc + 1])
      BY <1>1, <1>7, SameSources
    <3>2. k # pc + 1
      BY <1>1, <1>7, CodeOperands
    <3> QED
      BY <1>1, <1>2, <1>7, <3>1, <3>2 DEF Trans!ComputedOnce
  <2> QED
    BY <1>5, <2>1, <2>2
<1> QED
  BY <1>1, <1>2, <1>4, <1>6, <1>7

(* The result v of the instruction i is what its operands say. *)
Confirms(i, v) ==
  (\A o \in Sources(i) : Val(o)' = Val(o)) /\ Val(i.dest)' = v => Settles(i)'

(* So what was settled stays so. *)
LEMMA StoreSettles ==
  ASSUME Run!IInv, Trans!ComputedOnce, NEW ops, Run!Executing(ops), Computes(Run!Current),
         NEW v \in Source!Int64, Run!Store(v), UNCHANGED <<value, instrs>>,
         NEW l \in Nat, Done(l, pc), NEW p, p = pc,
         NEW c, c = instrs[p + 1], Confirms(c, v)
PROVE  \A q \in l..p : Settled(q)'
<1>1. /\ pc + 1 \in DOMAIN instrs /\ Run!Current = instrs[pc + 1] /\ pc \in Nat
      /\ pc + 1 \in 0..Len(instrs)
      /\ instrs \in Seq(Run!Instruction)
  BY Run!CurrentProps, RunAssumptions DEF Run!IInv, Run!TypeOK
<1>2. DOMAIN instrs = 1..Len(instrs) /\ Len(instrs) \in Nat
  BY <1>1, LenProperties
<1> SUFFICES ASSUME NEW q \in l..p PROVE Settled(q)'
  OBVIOUS
<1>3. q + 1 \in DOMAIN instrs /\ q + 1 <= pc + 1 /\ q \in Nat
  BY <1>1, <1>2
<1>4. PICK i : i = instrs[q + 1]
  OBVIOUS
<1>5. \A o \in Sources(i) : Val(o)' = Val(o)
  BY <1>3, <1>4, StoreChanges
<1>6. CASE q = p
  <2>1. PICK o : o = i.dest
    OBVIOUS
  <2>2. o = Run!Current.dest
    BY <1>1, <1>4, <1>6, <2>1
  <2>3. Val(o)' = v
    BY <2>2, StoreChanges
  <2>4. Settles(i)'
    <3>1. i = c
      BY <1>4, <1>6
    <3>2. Confirms(i, v)
      BY <3>1
    <3>3. Val(i.dest)' = v
      BY <2>1, <2>3
    <3> QED
      BY <1>5, <3>2, <3>3 DEF Confirms
  <2> QED
    BY <1>4, <2>4 DEF Settled
<1>7. CASE q < p
  <2>1. Settles(i)
    BY <1>1, <1>4, <1>7 DEF Done, Settled
  <2>2. PICK o : o = i.dest
    OBVIOUS
  <2>3. Computes(i) => Val(o)' = Val(o)
    <3>1. q + 1 < pc + 1
      BY <1>1, <1>7
    <3> QED
      BY <1>3, <1>4, <2>2, <3>1, StoreChanges
  <2>4. Settles(i)'
    <3>1. CASE i.op \in Arithmetic \cup RelOps
      <4>0. i.op \notin Unary \cup {"ASSIGN", "WRITE", "BRANCH"} /\ Computes(i)
        BY <3>1 DEF Arithmetic, RelOps, Unary, Computes
      <4>3. i.src1 \in Sources(i) /\ i.src2 \in Sources(i)
        BY <3>1, <4>0 DEF Sources
      <4>4. Val(i.dest)' = Val(i.dest)
        BY <2>2, <2>3, <4>0
      <4>1. Val(i.src1)' = Val(i.src1) /\ Val(i.src2)' = Val(i.src2) /\ Val(i.dest)' = Val(i.dest)
        BY <1>5, <4>3, <4>4
      <4>2. i.op \notin {"PLS", "NEG"}
        BY <3>1 DEF Arithmetic, RelOps
      <4> QED
        BY <2>1, <4>1, <4>2 DEF Settles
    <3>2. CASE i.op \in Unary
      <4>1. i.op \notin Arithmetic \cup RelOps
        BY <3>2 DEF Arithmetic, RelOps, Unary
      <4>2. Val(i.src1)' = Val(i.src1) /\ Val(i.dest)' = Val(i.dest)
        <5>1. i.src1 \in Sources(i) /\ Computes(i)
          BY <3>2, <4>1 DEF Sources, Computes
        <5>2. Val(i.dest)' = Val(i.dest)
          BY <2>2, <2>3, <5>1
        <5> QED
          BY <1>5, <5>1, <5>2
      <4> QED
        BY <2>1, <4>1, <4>2 DEF Settles
    <3>3. CASE i.op \notin Arithmetic \cup RelOps \cup Unary
      BY <3>3 DEF Settles, Unary
    <3> QED
      BY <3>1, <3>2, <3>3
  <2> QED
    BY <1>4, <2>4 DEF Settled
<1> QED
  BY <1>1, <1>6, <1>7

-----------------------------------------------------------------------------
(* An instruction that computes goes on to the next, *)
Advances(l, p) ==
  /\ pc' = p + 1 /\ status' = status /\ UNCHANGED <<instrs, value, input, output>>
  /\ \A q \in l..p : Settled(q)'

(* or ends the process. *)
Stops(p) ==
  \E f \in {"failed", "trapped"} :
    Aborts(p, f) /\ status' = f /\ UNCHANGED <<instrs, value, input, output>>

(* What is executed. *)
LEMMA HereFacts ==
  ASSUME Run!IInv, NEW ops, Run!Executing(ops)
  PROVE  /\ Run!Current = instrs[pc + 1] /\ pc + 1 \in DOMAIN instrs /\ pc \in Nat
         /\ pc + 1 \in 1..Len(instrs) /\ Run!Current \in Run!Instruction
         /\ Run!Current.op \in ops /\ status = "running"
<1>1. /\ Run!Current = instrs[pc + 1] /\ pc + 1 \in DOMAIN instrs /\ pc \in Nat
      /\ Run!Current.op \in ops /\ status = "running" /\ Run!Current \in Run!Instruction
      /\ instrs \in Seq(Run!Instruction)
  BY Run!CurrentProps, RunAssumptions DEF Run!IInv, Run!TypeOK
<1>2. DOMAIN instrs = 1..Len(instrs)
  BY <1>1, LenProperties
<1> QED
  BY <1>1, <1>2

(* A result that is what the operands say. *)
LEMMA Advancing ==
  ASSUME Run!IInv, Trans!ComputedOnce, NEW ops, Run!Executing(ops), Computes(Run!Current),
         NEW v \in Source!Int64, Run!Store(v), Run!Onward,
         UNCHANGED <<instrs, value, input, output, status>>,
         NEW l \in Nat, NEW p, p = pc, Done(l, p), NEW i, i = instrs[p + 1], Confirms(i, v)
  PROVE  Advances(l, p)
<1>1. \A q \in l..p : Settled(q)'
  BY StoreSettles
<1> QED
  BY <1>1 DEF Advances, Run!Onward

(* A step of execute_add to execute_div settles its place, or ends the process. *)
LEMMA ArithmeticSettles ==
  ASSUME Run!IInv, Trans!ComputedOnce, Run!ExecuteArithmetic,
         NEW l \in Nat, NEW p, p = pc, Done(l, p)
  PROVE  Advances(l, p) \/ Stops(p)
<1>1. /\ Run!Executing(Run!Arithmetic) /\ UNCHANGED <<instrs, value, input, output>>
  BY DEF Run!ExecuteArithmetic, Run!program, Run!io
<1>2. PICK i : i = Run!Current
  OBVIOUS
<1>3. /\ i = instrs[p + 1] /\ i.op \in Arithmetic /\ Computes(i) /\ Sources(i) = {i.src1, i.src2}
      /\ Run!Sources(Run!Current) = {i.src1, i.src2}
      /\ Stands(p, i.op)
  <2>1. i = instrs[p + 1] /\ i.op \in Arithmetic /\ p + 1 \in 1..Len(instrs)
    BY <1>1, <1>2, HereFacts, SameSources
  <2>2. i.op \notin Unary \cup {"ASSIGN", "WRITE", "BRANCH"}
    BY <2>1 DEF Arithmetic, Unary
  <2>3. Sources(i) = {i.src1, i.src2}
    BY <2>1, <2>2 DEF Sources
  <2> QED
    BY <1>2, <2>1, <2>3, SameSources DEF Computes, Stands
<1>4. PICK a, b : /\ a = Val(i.src1) /\ b = Val(i.src2)
                  /\ a \in Source!Int64 /\ b \in Source!Int64
                  /\ Run!Fetched(i.src1) = {a} /\ Run!Fetched(i.src2) = {b}
  BY <1>1, <1>3, FetchedIsVal
<1>5. IF i.op = "DIV" THEN Run!Divide(a, b) ELSE Run!Compute(a, b)
  BY <1>2, <1>4 DEF Run!ExecuteArithmetic
<1>6. CASE i.op = "DIV" /\ b = 0 /\ Run!Abort("failed")
  <2>1. Aborts(p, "failed")
    BY <1>3, <1>4, <1>6 DEF Aborts
  <2> QED
    BY <1>1, <1>6, <2>1 DEF Stops, Run!Abort
<1>7. CASE i.op = "DIV" /\ b # 0 /\ Run!Traps(a, b) /\ Run!Abort("trapped")
  <2>1. Aborts(p, "trapped")
    BY <1>3, <1>4, <1>7 DEF Aborts
  <2> QED
    BY <1>1, <1>7, <2>1 DEF Stops, Run!Abort
<1>8. CASE Run!Compute(a, b) /\ (i.op = "DIV" => b # 0 /\ ~Run!Traps(a, b))
  <2>1. PICK v : v = Run!Wrapped(Run!Result(i.op, a, b))
    OBVIOUS
  <2>2. v \in Source!Int64
    <3>1. Run!Result(i.op, a, b) \in Int
      <4>1. a \in Int /\ b \in Int
        BY <1>4, Width
      <4> QED
        BY <1>3, <1>8, <4>1, Run!ResultInt, RunAssumptions, SameSources
    <3> QED
      BY <2>1, <3>1, Run!WrappedInt64, RunAssumptions, Width
  <2>3. Run!Store(v) /\ Run!Onward /\ UNCHANGED status
    BY <1>2, <1>8, <2>1 DEF Run!Compute
  <2>5. Confirms(i, v)
    <3> SUFFICES ASSUME \A o \in Sources(i) : Val(o)' = Val(o), Val(i.dest)' = v
                 PROVE  Settles(i)'
      BY DEF Confirms
    <3>1. Val(i.src1)' = a /\ Val(i.src2)' = b
      BY <1>3, <1>4
    <3>2. i.op \notin {"PLS", "NEG"} \cup RelOps
      BY <1>3 DEF Arithmetic, RelOps
    <3>3. Run!Traps(a, b)' = Run!Traps(a, b)
          /\ Run!Wrapped(Run!Result(i.op, a, b))' = Run!Wrapped(Run!Result(i.op, a, b))
      BY DEF Run!Traps, Run!Wrapped, Run!Result, Run!Quotient, Run!Magnitude
    <3> QED
      BY <1>8, <2>1, <3>1, <3>2 DEF Settles
  <2>6. Computes(Run!Current)
    BY <1>2, <1>3
  <2>7. UNCHANGED <<instrs, value, input, output, status>>
    BY <1>1, <2>3
  <2> QED
    BY <1>1, <1>3, <2>2, <2>3, <2>5, <2>6, <2>7, Advancing
<1> QED
  BY <1>5, <1>6, <1>7, <1>8 DEF Run!Divide

(* A step of execute_pls or execute_neg settles its place. *)
LEMMA SignSettles ==
  ASSUME Run!IInv, Trans!ComputedOnce, Run!ExecuteSign,
         NEW l \in Nat, NEW p, p = pc, Done(l, p)
  PROVE  Advances(l, p)
<1>1. /\ Run!Executing(Run!Unary) /\ UNCHANGED <<instrs, value, input, output, status>>
      /\ Run!Onward
  BY DEF Run!ExecuteSign, Run!program, Run!io
<1>2. PICK i : i = Run!Current
  OBVIOUS
<1>3. i = instrs[p + 1] /\ i.op \in Unary
  BY <1>1, <1>2, HereFacts, SameSources
<1>4. i.op \notin Arithmetic \cup RelOps
  BY <1>3 DEF Arithmetic, RelOps, Unary
<1>5. Computes(i) /\ Sources(i) = {i.src1} /\ Run!Sources(Run!Current) = {i.src1}
  BY <1>2, <1>3, <1>4, SameSources DEF Computes, Sources
<1>6. PICK a : a = Val(i.src1) /\ a \in Source!Int64 /\ Run!Fetched(i.src1) = {a}
  BY <1>1, <1>5, FetchedIsVal
<1>7. PICK v : v = IF i.op = "NEG" THEN Run!Wrapped(-a) ELSE a
  OBVIOUS
<1>8. Run!Store(v)
  BY <1>2, <1>6, <1>7 DEF Run!ExecuteSign
<1>9. v \in Source!Int64
  BY <1>6, <1>7, SignsCombined
<1>11. Confirms(i, v)
  <2> SUFFICES ASSUME \A o \in Sources(i) : Val(o)' = Val(o), Val(i.dest)' = v
               PROVE  Settles(i)'
    BY DEF Confirms
  <2>1. Val(i.src1)' = a
    BY <1>5, <1>6
  <2> QED
    BY <1>4, <1>7, <2>1 DEF Settles
<1>12. Computes(Run!Current)
  BY <1>2, <1>5
<1> QED
  BY <1>1, <1>3, <1>8, <1>9, <1>11, <1>12, Advancing

(* A step of execute_eq to execute_gte settles its place. *)
LEMMA CompareSettles ==
  ASSUME Run!IInv, Trans!ComputedOnce, Run!ExecuteCompare,
         NEW l \in Nat, NEW p, p = pc, Done(l, p)
  PROVE  Advances(l, p)
<1>1. /\ Run!Executing(Run!RelOps) /\ UNCHANGED <<instrs, value, input, output, status>>
      /\ Run!Onward
  BY DEF Run!ExecuteCompare, Run!program, Run!io
<1>2. PICK i : i = Run!Current
  OBVIOUS
<1>3. /\ i = instrs[p + 1] /\ i.op \in RelOps /\ Computes(i) /\ Sources(i) = {i.src1, i.src2}
      /\ Run!Sources(Run!Current) = {i.src1, i.src2}
  <2>1. i = instrs[p + 1] /\ i.op \in RelOps
    BY <1>1, <1>2, HereFacts, SameSources
  <2>2. i.op \notin Unary \cup {"ASSIGN", "WRITE", "BRANCH"}
    BY <2>1 DEF RelOps, Unary
  <2>3. Sources(i) = {i.src1, i.src2}
    BY <2>1, <2>2 DEF Sources
  <2> QED
    BY <1>2, <2>1, <2>3, SameSources DEF Computes
<1>4. PICK a, b : /\ a = Val(i.src1) /\ b = Val(i.src2)
                  /\ Run!Fetched(i.src1) = {a} /\ Run!Fetched(i.src2) = {b}
  BY <1>1, <1>3, FetchedIsVal
<1>5. PICK v : v = IF Run!Compared(i.op, a, b) THEN 1 ELSE 0
  OBVIOUS
<1>6. Run!Store(v)
  BY <1>2, <1>4, <1>5 DEF Run!ExecuteCompare
<1>7. v \in Source!Int64
  <2>1. 0 \in Source!Int64 /\ 1 \in Source!Int64
    BY Width
  <2> QED
    BY <1>5, <2>1
<1>9. Confirms(i, v)
  <2> SUFFICES ASSUME \A o \in Sources(i) : Val(o)' = Val(o), Val(i.dest)' = v
               PROVE  Settles(i)'
    BY DEF Confirms
  <2>1. Val(i.src1)' = a /\ Val(i.src2)' = b
    BY <1>3, <1>4
  <2>2. i.op \notin Arithmetic \cup {"PLS", "NEG"}
    BY <1>3 DEF Arithmetic, RelOps
  <2> QED
    BY <1>5, <2>1, <2>2 DEF Settles
<1>10. Computes(Run!Current)
  BY <1>2, <1>3
<1> QED
  BY <1>1, <1>3, <1>6, <1>7, <1>9, <1>10, Advancing

(* An instruction that computes does one of the two. *)
LEMMA ComputingStep ==
  ASSUME Run!IInv, Trans!ComputedOnce, Run!Next, NEW l \in Nat, NEW p, p = pc,
         Done(l, p), Calculates(p)
  PROVE  /\ Advances(l, p) \/ Stops(p)
         /\ \A ops : Run!Executing(ops) => ops \cap {"ASSIGN", "READ", "WRITE", "BRANCH"}
                                            # ops
<1>1. p + 1 \in DOMAIN instrs /\ instrs[p + 1].op \in Arithmetic \cup RelOps \cup Unary
      /\ instrs \in Seq(Run!Instruction) /\ pc \in Nat
  BY DEF Calculates, Computes, Run!IInv, Run!TypeOK
<1>2. pc < Len(instrs) /\ Run!Current = instrs[p + 1]
  <2>1. DOMAIN instrs = 1..Len(instrs) /\ Len(instrs) \in Nat
    BY <1>1, LenProperties
  <2> QED
    BY <1>1, <2>1 DEF Run!Current
<1>3. ~Run!Clear
  BY <1>1, <1>2, LenProperties DEF Run!Clear
<1>4. Run!Current.op \notin {"ASSIGN", "READ", "WRITE", "BRANCH", "GOTO"}
  BY <1>1, <1>2 DEF Arithmetic, RelOps, Unary
<1>5. Run!ExecuteArithmetic \/ Run!ExecuteSign \/ Run!ExecuteCompare
  BY <1>3, <1>4 DEF Run!Next, Run!ExecuteAssign, Run!ExecuteRead, Run!ExecuteWrite,
                    Run!ExecuteGoto, Run!ExecuteBranch, Run!Executing
<1>6. Advances(l, p) \/ Stops(p)
  BY <1>5, ArithmeticSettles, SignSettles, CompareSettles
<1> QED
  BY <1>4, <1>6 DEF Run!Executing

-----------------------------------------------------------------------------
(***************************************************************************)
(* Where the execution is.                                                 *)
(***************************************************************************)

(* From place l through the statements of s to the end of the code, *)
Course(t, l, s) == Path(t, l, s, Len(instrs))

(* or in the code of the first statement, which it does not leave before   *)
(* the statement is completed or decided.                                  *)
Amid(t, n) ==
  /\ Course(t, t.to[n], Tail(todo))
  /\ pc \in Entry(t, n)..Last(t, n) /\ Done(Entry(t, n), pc)

OnCourse(t) ==
  /\ todo \in Works /\ pc \in Nat
  /\ Course(t, pc, todo) \/ (todo # << >> /\ Amid(t, Head(todo)))

(* Where the code of a statement is. *)
LEMMA StatementPlaces ==
  ASSUME NEW t, Compiled(t), NEW n \in DOMAIN nodes, nodes[n].nt \in Statements
  PROVE  /\ Entry(t, n) \in Nat /\ Last(t, n) \in Nat /\ Entry(t, n) <= Last(t, n)
         /\ nodes[n].nt \in Asking =>
              /\ Asked(n) \in Questions
              /\ Entry(t, n) = t.from[Asked(n)] /\ Last(t, n) = t.to[Asked(n)]
              /\ nodes[n].nt \in Source!Decisions => nodes[Asked(n)].nt = "condition"
         /\ nodes[n].nt = "input" => Entry(t, n) = Last(t, n)
<1>1. nodes \in Trees /\ Shaped(n)
  BY ShapeFacts DEF Compiled
<1>2. CASE nodes[n].nt = "input"
  BY <1>2, CompiledPlaces DEF Entry, Last, Asking
<1>3. CASE nodes[n].nt \in Asking
  <2>1. PICK x : x = Asked(n)
    OBVIOUS
  <2>2. /\ x \in DOMAIN nodes
        /\ nodes[n].nt \in {"assign", "output"} => nodes[x].nt = "expression"
        /\ nodes[n].nt \in {"branch", "loop", "repeat"} => nodes[x].nt = "condition"
    <3>1. CASE nodes[n].nt = "assign"
      BY <1>1, <2>1, <3>1 DEF Asked, Shaped, HasSub
    <3>2. CASE nodes[n].nt = "output"
      BY <1>1, <2>1, <3>2 DEF Asked, Shaped, HasSub
    <3>3. CASE nodes[n].nt = "branch"
      BY <1>1, <2>1, <3>3 DEF Asked, Shaped, HasSub
    <3>4. CASE nodes[n].nt = "loop"
      BY <1>1, <2>1, <3>4 DEF Asked, Shaped, HasSub
    <3>5. CASE nodes[n].nt = "repeat"
      BY <1>1, <2>1, <3>5 DEF Asked, Shaped, HasSub
    <3> QED
      BY <1>3, <3>1, <3>2, <3>3, <3>4, <3>5 DEF Asking
  <2>3. x \in Questions
    BY <1>3, <2>2 DEF Questions, Source!Expressions, Asking
  <2>4. Entry(t, n) = t.from[x] /\ Last(t, n) = t.to[x]
    <3>1. CASE nodes[n].nt = "assign"
      BY <2>1, <3>1, StatementCode DEF Entry, Last, Asked, LaidAssign
    <3>2. CASE nodes[n].nt = "output"
      BY <2>1, <3>2, StatementCode DEF Entry, Last, Asked, LaidOutput
    <3>3. CASE nodes[n].nt = "branch"
      BY <2>1, <3>3, StatementCode DEF Entry, Last, Asked, LaidBranch
    <3>4. CASE nodes[n].nt = "loop"
      BY <2>1, <3>4, StatementCode DEF Entry, Last, Asked, LaidLoop
    <3>5. CASE nodes[n].nt = "repeat"
      BY <2>1, <3>5 DEF Entry, Last, Asked
    <3> QED
      BY <1>3, <3>1, <3>2, <3>3, <3>4, <3>5 DEF Asking
  <2>5. t.from[x] \in Nat /\ t.to[x] \in Nat /\ t.from[x] <= t.to[x]
    BY <2>2, CompiledPlaces
  <2>6. nodes[n].nt # "input"
    BY <1>3 DEF Asking
  <2> QED
    BY <2>1, <2>2, <2>3, <2>4, <2>5, <2>6 DEF Source!Decisions
<1> QED
  BY <1>2, <1>3 DEF Statements, Asking

(* A course begins with its first statement. *)
LEMMA CourseBegins ==
  ASSUME NEW t, NEW s \in Works, s # << >>, NEW l, Leads(l, Entry(t, Head(s))),
         NEW e \in Nat, e = t.to[Head(s)], Course(t, e, Tail(s))
  PROVE  Course(t, l, s)
<1>1. PICK n : n = Head(s)
  OBVIOUS
<1>2. n \in DOMAIN nodes /\ nodes[n].nt \in Statements /\ Tail(s) \in Works /\ s \in Lists
  BY <1>1, WorksJoin
<1>3. PICK r \in Lists, h \in Lists : r = Tail(s) /\ h = <<n>>
  BY <1>2, WorksJoin
<1>4. Path(t, l, h, e)
  BY <1>1, <1>3, LeadsSelf, PathOne
<1>5. Path(t, e, r, Len(instrs))
  BY <1>3 DEF Course
<1>6. s = h \o r
  BY <1>1, <1>2, <1>3 DEF Lists
<1> QED
  BY <1>4, <1>5, <1>6, PathJoin DEF Course

(***************************************************************************)
(* Where the execution can be: at the end, at a goto, or in the code of    *)
(* the next statement.                                                     *)
(***************************************************************************)
LEMMA Standing ==
  ASSUME NEW t, Compiled(t), OnCourse(t)
  PROVE  \/ todo = << >> /\ pc = Len(instrs)
         \/ Stands(pc, "GOTO") /\ Course(t, Target(pc), todo)
         \/ todo # << >> /\ Amid(t, Head(todo))
<1>1. todo \in Works /\ todo \in Lists /\ pc \in Nat /\ Len(instrs) \in Nat
  BY WorksJoin, LenProperties DEF OnCourse, Compiled
<1>2. PICK p \in Nat, k \in Nat : p = pc /\ k = Len(instrs)
  BY <1>1
<1>3. CASE todo = << >> /\ Course(t, pc, todo)
  <2>1. Leads(p, k)
    <3>1. 0 \in 0..Len(todo) /\ 0 = Len(todo)
      BY <1>3
    <3>2. Leaving(t, p, todo, 0) = p /\ Coming(t, todo, k, 0) = k
      BY <3>1 DEF Leaving, Coming
    <3> QED
      BY <1>2, <1>3, <3>1, <3>2 DEF Course, Path
  <2>2. CASE p = k
    BY <1>2, <1>3, <2>2
  <2>3. CASE p # k
    <3>1. Stands(p, "GOTO") /\ Leads(Target(p), k)
      BY <2>1, <2>3, LeadsFirst
    <3>2. PICK g : g = Target(p)
      OBVIOUS
    <3>3. Path(t, g, << >>, k)
      BY <3>1, <3>2, PathNone
    <3> QED
      BY <1>2, <1>3, <3>1, <3>2, <3>3 DEF Course
  <2> QED
    BY <2>2, <2>3
<1>4. CASE todo # << >> /\ Course(t, pc, todo)
  <2>1. PICK s \in Works, n \in DOMAIN nodes :
          s = todo /\ s # << >> /\ n = Head(s) /\ Path(t, p, s, k)
    BY <1>1, <1>2, <1>4, WorksJoin DEF Course
  <2>2. n \in DOMAIN nodes /\ nodes[n].nt \in Statements /\ s \in Lists
    BY <2>1, WorksJoin
  <2>3. Leads(p, Entry(t, n)) /\ Path(t, t.to[n], Tail(s), k)
    BY <2>1, <2>2, PathHead
  <2>4. PICK e \in Nat, m \in Nat, o \in Nat :
          e = Entry(t, n) /\ m = t.to[n] /\ o = Last(t, n) /\ e <= o
    BY <2>2, StatementPlaces, CompiledPlaces
  <2>5. Course(t, m, Tail(s))
    BY <1>2, <2>3, <2>4 DEF Course
  <2>6. CASE p = e
    <3>1. Done(e, p)
      BY <2>4, <2>6 DEF Done
    <3> QED
      BY <1>2, <2>1, <2>4, <2>5, <2>6, <3>1 DEF Amid
  <2>7. CASE p # e
    <3>1. Stands(p, "GOTO") /\ Leads(Target(p), e)
      BY <2>3, <2>4, <2>7, LeadsFirst
    <3>2. PICK g : g = Target(p)
      OBVIOUS
    <3>3. Course(t, g, s)
      BY <2>1, <2>4, <2>5, <3>1, <3>2, CourseBegins
    <3> QED
      BY <1>2, <2>1, <3>1, <3>2, <3>3
  <2> QED
    BY <2>6, <2>7
<1> QED
  BY <1>3, <1>4 DEF OnCourse

(* A list, and then the rest. *)
LEMMA CourseAfter ==
  ASSUME NEW t, Compiled(t), NEW x \in DOMAIN nodes,
         nodes[x].nt \in Statements \cup {"statements"},
         NEW s \in Works, NEW k \in Nat, Leads(t.to[x], k), Course(t, k, s)
  PROVE  /\ Course(t, t.from[x], Source!Unrolled(x) \o s)
         /\ Source!Unrolled(x) \o s \in Works
<1>1. Paved(t, x)
  BY AllPaved
<1>2. PICK u \in Works : u = Source!Unrolled(x) /\ Path(t, t.from[x], u, t.to[x])
  BY <1>1 DEF Paved
<1>3. u \in Lists /\ s \in Lists /\ u \o s \in Works
  BY WorksJoin
<1>4. PICK a, b, c : a = t.from[x] /\ b = t.to[x] /\ c = Len(instrs)
  OBVIOUS
<1>5. Path(t, a, u, k)
  BY <1>2, <1>3, <1>4, PathBehind
<1>6. Path(t, k, s, c)
  BY <1>4 DEF Course
<1>7. Path(t, a, u \o s, c)
  BY <1>3, <1>5, <1>6, PathJoin
<1> QED
  BY <1>2, <1>3, <1>4, <1>7 DEF Course

(***************************************************************************)
(* Behind a decision, the course is that of the statements that are chosen.*)
(***************************************************************************)
LEMMA Continues ==
  ASSUME NEW t, Compiled(t), todo \in Works, todo # << >>, NEW n, n = Head(todo),
         Course(t, t.to[n], Tail(todo)), nodes[n].nt \in Source!Decisions,
         NEW holds \in BOOLEAN
  PROVE  /\ Course(t, IF holds THEN Target(Last(t, n)) ELSE Last(t, n) + 1,
                   Source!Chosen(holds))
         /\ Source!Chosen(holds) \in Works
<1>1. /\ n \in DOMAIN nodes /\ nodes[n].nt \in Statements
      /\ Tail(todo) \in Works /\ Tail(todo) \in Lists
  BY WorksJoin
<1>2. PICK r \in Works, s \in Works : r = Tail(todo) /\ s = todo /\ r \in Lists
  BY <1>1
<1>3. /\ nodes \in Trees /\ Shaped(n) /\ Source!Now = n /\ Source!Kind = nodes[n].nt
  BY <1>1, ShapeFacts DEF Compiled, Source!Now, Source!Kind
<1>4. PICK e \in Nat, f \in Nat : e = t.to[n] /\ f = t.from[n]
  BY <1>1, CompiledPlaces
<1>5. Course(t, e, r)
  BY <1>2, <1>4
<1>6. CASE nodes[n].nt = "branch"
  <2>1. LaidBranch(t, n)
    BY <1>1, <1>6, StatementCode
  <2>2. PICK a, b : a = Sub(n, 6) /\ b = Sub(n, 8)
    OBVIOUS
  <2>3. /\ a \in DOMAIN nodes /\ b \in DOMAIN nodes
        /\ nodes[a].nt = "statements" /\ nodes[b].nt = "statements"
    BY <1>3, <1>6, <2>2 DEF Shaped, HasSub
  <2>4. t.to[a] \in Nat /\ t.to[b] \in Nat
    BY <2>3, CompiledPlaces
  <2>5. /\ t.to[a] = e /\ Stands(t.to[b], "GOTO") /\ Target(t.to[b]) = e
        /\ Target(Last(t, n)) = t.from[a] /\ t.from[b] = Last(t, n) + 1
    BY <1>4, <2>1, <2>2 DEF LaidBranch, Leaps, Tests
  <2>6. Leads(t.to[a], e) /\ Leads(t.to[b], e)
    <3>1. PICK j \in Nat : j = t.to[b]
      BY <2>4
    <3>2. Leads(e, e)
      BY LeadsSelf
    <3>3. Leads(j, e)
      BY <2>5, <3>1, <3>2, LeadsJump
    <3> QED
      BY <2>5, <3>1, <3>2, <3>3
  <2>7. /\ Course(t, t.from[a], Source!Unrolled(a) \o r)
        /\ Source!Unrolled(a) \o r \in Works
    BY <1>5, <2>3, <2>6, CourseAfter
  <2>8. /\ Course(t, t.from[b], Source!Unrolled(b) \o r)
        /\ Source!Unrolled(b) \o r \in Works
    BY <1>5, <2>3, <2>6, CourseAfter
  <2>9. Source!Chosen(holds) = Source!Unrolled(IF holds THEN a ELSE b) \o r
    BY <1>2, <1>3, <1>6, <2>2 DEF Source!Chosen, Source!Kid, Sub
  <2> QED
    BY <2>5, <2>7, <2>8, <2>9
<1>7. CASE nodes[n].nt = "loop"
  <2>1. LaidLoop(t, n)
    BY <1>1, <1>7, StatementCode
  <2>2. PICK a : a = Sub(n, 6)
    OBVIOUS
  <2>3. a \in DOMAIN nodes /\ nodes[a].nt = "statements"
    BY <1>3, <1>7, <2>2 DEF Shaped, HasSub
  <2>4. PICK j \in Nat, q \in Nat : j = t.to[a] /\ q = Last(t, n) + 1
    BY <1>1, <2>3, CompiledPlaces, StatementPlaces
  <2>5. /\ Stands(j, "GOTO") /\ Target(j) = f /\ Stands(q, "GOTO") /\ Target(q) = e
        /\ Target(Last(t, n)) = t.from[a]
    BY <1>4, <2>1, <2>2, <2>4 DEF LaidLoop, Leaps, Tests
  <2>6. Leads(f, f) /\ Leads(j, f) /\ Leads(q, e)
    BY <2>5, LeadsSelf, LeadsJump
  <2>7. Course(t, f, s)
    <3>1. Leads(f, Entry(t, n))
      BY <1>4, <1>7, <2>6 DEF Entry
    <3> QED
      BY <1>2, <1>4, <1>5, <3>1, CourseBegins
  <2>8. /\ Course(t, t.from[a], Source!Unrolled(a) \o s)
        /\ Source!Unrolled(a) \o s \in Works
    BY <2>3, <2>4, <2>6, <2>7, CourseAfter
  <2>9. Course(t, q, r)
    <3>1. PICK k : k = Len(instrs)
      OBVIOUS
    <3>2. Path(t, e, r, k)
      BY <1>5, <3>1 DEF Course
    <3>3. Path(t, q, r, k)
      BY <1>2, <2>6, <3>2, PathBefore
    <3> QED
      BY <3>1, <3>3 DEF Course
  <2>10. Source!Chosen(holds) = IF holds THEN Source!Unrolled(a) \o s ELSE r
    BY <1>2, <1>3, <1>7, <2>2 DEF Source!Chosen, Source!Kid, Sub
  <2> QED
    BY <2>4, <2>5, <2>8, <2>9, <2>10
<1>8. CASE nodes[n].nt = "repeat"
  <2>1. Target(Last(t, n)) = f /\ Last(t, n) + 1 = e
    BY <1>1, <1>4, <1>8, StatementCode DEF LaidRepeat, Tests
  <2>2. /\ Course(t, f, Source!Unrolled(n) \o r)
        /\ Source!Unrolled(n) \o r \in Works
    BY <1>1, <1>4, <1>5, LeadsSelf, CourseAfter
  <2>3. Source!Chosen(holds) = IF holds THEN Source!Unrolled(n) \o r ELSE r
    BY <1>2, <1>3, <1>8 DEF Source!Chosen
  <2> QED
    BY <1>5, <2>1, <2>2, <2>3
<1> QED
  BY <1>6, <1>7, <1>8 DEF Source!Decisions

-----------------------------------------------------------------------------
(* The tree and the code stay, and so does a course through them. *)
LEMMA CourseKept ==
  ASSUME UNCHANGED <<nodes, instrs>>, NEW t, NEW l, NEW s, Course(t, l, s)
  PROVE  Course(t, l, s)'
BY DEF Course, Path, Leads, Enclosed, Stands, Target, Leaving, Coming, Entry, Sub

(* A translation stays one while tree and code stay. *)
LEMMA CompiledKept ==
  ASSUME UNCHANGED <<nodes, instrs>>, NEW t, Compiled(t)
  PROVE  Compiled(t)'
BY DEF Compiled, Repaired

(* So do the sequences of statements. *)
LEMMA WorksKept == ASSUME UNCHANGED nodes PROVE Works' = Works
BY DEF Works

(* On the way with t. *)
Going(t) ==
  /\ Run!IInv /\ Trans!ComputedOnce /\ Sane /\ Compiled(t) /\ OnCourse(t)
  /\ phase = "execute" /\ status = "running" /\ Execute

(* What a step of main is for its user. *)
Means == Source!Next \/ UNCHANGED Source!vars

(* What an instruction leaves alone. *)
LEMMA GoingFacts ==
  ASSUME NEW t, Going(t)
  PROVE  /\ UNCHANGED <<nodes, instrs, parsed>> /\ Run!Next
         /\ phase' = IF status' = "finished" THEN "cleanup" ELSE "execute"
         /\ MeaningStatus = "running"
         /\ status' \in {"running", "failed", "trapped", "finished"} => MeaningStatus' = status'
         /\ todo' = Followed
         /\ turn' = IF VM!Executing({"BRANCH"}) THEN ~turn ELSE turn
         /\ todo \in Works /\ pc \in Nat
         /\ Len(instrs) \in Nat /\ DOMAIN instrs = 1..Len(instrs)
<1>1. /\ UNCHANGED <<analysis, parsed>> /\ Run!Next
      /\ phase = "execute" /\ status = "running"
      /\ phase' = IF status' = "finished" THEN "cleanup" ELSE "execute"
      /\ todo' = Followed /\ Compiled(t) /\ OnCourse(t)
      /\ turn' = IF VM!Executing({"BRANCH"}) THEN ~turn ELSE turn
  BY SameExecution DEF Going, Execute, Main
<1>2. UNCHANGED <<nodes, parsed>>
  BY <1>1 DEF analysis
<1>3. UNCHANGED instrs
  BY <1>1 DEF Run!Next, Run!ExecuteAssign, Run!ExecuteRead, Run!ExecuteWrite,
              Run!ExecuteArithmetic, Run!Divide, Run!Compute, Run!Abort,
              Run!ExecuteSign, Run!ExecuteCompare, Run!ExecuteGoto,
              Run!ExecuteBranch, Run!Clear, Run!program
<1>4. instrs \in Seq(Trans!Instruction) /\ todo \in Works /\ pc \in Nat
  BY <1>1 DEF Compiled, OnCourse
<1>5. Len(instrs) \in Nat /\ DOMAIN instrs = 1..Len(instrs)
  BY <1>4, LenProperties
<1>6. MeaningStatus = "running"
  BY <1>1 DEF MeaningStatus
<1>7. status' \in {"running", "failed", "trapped", "finished"} => MeaningStatus' = status'
  <2>1. CASE status' = "finished"
    BY <1>1, <2>1 DEF MeaningStatus
  <2>2. CASE status' # "finished"
    BY <1>1, <2>2 DEF MeaningStatus
  <2> QED
    BY <2>1, <2>2
<1> QED
  BY <1>1, <1>2, <1>3, <1>4, <1>5, <1>6, <1>7

(* Which instruction is executed, if pc is at p. *)
LEMMA AtFacts ==
  ASSUME NEW t, Going(t), NEW op, Stands(pc, op), NEW ops
  PROVE  /\ op \in ops => Run!Executing(ops) /\ VM!Executing(ops)
         /\ op \notin ops => ~Run!Executing(ops) /\ ~VM!Executing(ops)
         /\ ~Run!Clear
         /\ Run!Current = instrs[pc + 1] /\ VM!Current = instrs[pc + 1]
<1>1. pc < Len(instrs) /\ instrs[pc + 1].op = op /\ status = "running"
  BY GoingFacts DEF Stands, Going
<1>2. pc \in Nat /\ Len(instrs) \in Nat
  BY GoingFacts
<1> QED
  BY <1>1, <1>2 DEF Run!Executing, VM!Executing, Run!Current, VM!Current, Run!Clear

(* The end. *)
LEMMA EndStep ==
  ASSUME NEW t, Going(t), todo = << >>, pc = Len(instrs)
  PROVE  Source!End /\ status' = "finished" /\ todo' \in Works
<1>1. /\ \A ops : ~Run!Executing(ops) /\ ~VM!Executing(ops)
  BY GoingFacts DEF Run!Executing, VM!Executing
<1>2. Run!Clear
  BY <1>1, GoingFacts DEF Run!Next, Run!ExecuteAssign, Run!ExecuteRead,
        Run!ExecuteWrite, Run!ExecuteArithmetic, Run!ExecuteSign,
        Run!ExecuteCompare, Run!ExecuteGoto, Run!ExecuteBranch
<1>3. status' = "finished" /\ UNCHANGED <<value, input, output>>
  BY <1>2 DEF Run!Clear, Run!io
<1>4. todo' = todo /\ turn' = turn
  BY <1>1, GoingFacts DEF Followed
<1>5. MeaningStatus = "running" /\ MeaningStatus' = "finished"
  BY <1>3, GoingFacts
<1>6. Source!End
  BY <1>3, <1>4, <1>5, GoingFacts DEF Source!End, Source!program
<1> QED
  BY <1>3, <1>4, <1>6, GoingFacts

(* A goto. *)
LEMMA JumpStep ==
  ASSUME NEW t, Going(t), Stands(pc, "GOTO"), Course(t, Target(pc), todo)
  PROVE  UNCHANGED Source!vars /\ status' = "running" /\ OnCourse(t)'
<1>1. Run!ExecuteGoto
  BY AtFacts, GoingFacts DEF Run!Next, Run!ExecuteAssign, Run!ExecuteRead,
        Run!ExecuteWrite, Run!ExecuteArithmetic, Run!ExecuteSign, Run!Arithmetic,
        Run!Unary, Run!RelOps, Run!ExecuteCompare, Run!ExecuteBranch
<1>2. /\ pc' = instrs[pc + 1].dest.val /\ status' = "running"
      /\ UNCHANGED <<value, input, output>>
  BY <1>1, AtFacts DEF Run!ExecuteGoto, Run!io, Going
<1>3. todo' = todo /\ turn' = turn
  BY AtFacts, GoingFacts DEF Followed
<1>4. PICK l, s : l = Target(pc) /\ s = todo
  OBVIOUS
<1>5. pc' = l /\ todo' = s /\ Course(t, l, s)
  BY <1>2, <1>3, <1>4 DEF Target
<1>6. Course(t, l, s)'
  BY <1>5, CourseKept, GoingFacts
<1>7. todo' \in Works'
  BY <1>3, WorksKept, GoingFacts
<1>8. pc' \in Nat
  <2>1. Run!IInv /\ pc + 1 \in DOMAIN instrs /\ instrs[pc + 1].op = "GOTO"
    BY GoingFacts DEF Stands, Going
  <2>2. Run!Resolved(instrs) /\ "GOTO" \in Run!Jumps
    BY <2>1 DEF Run!IInv, Run!Executable, Run!Jumps
  <2>3. instrs[pc + 1].dest.val \in 0..Len(instrs)
    BY <2>1, <2>2 DEF Run!Resolved
  <2> QED
    BY <1>2, <2>3, GoingFacts
<1>9. OnCourse(t)'
  BY <1>5, <1>6, <1>7, <1>8 DEF OnCourse
<1>10. UNCHANGED Source!vars
  BY <1>2, <1>3, GoingFacts DEF Source!vars
<1> QED
  BY <1>2, <1>9, <1>10

-----------------------------------------------------------------------------
(* The step that follows the course from place l through s. *)
LEMMA OnwardCourse ==
  ASSUME UNCHANGED <<nodes, instrs>>, NEW t, NEW l \in Nat, NEW s \in Works,
         Course(t, l, s), pc' = l, todo' = s
  PROVE  OnCourse(t)'
<1>1. Course(t, l, s)'
  BY CourseKept
<1>2. todo' \in Works'
  BY WorksKept
<1> QED
  BY <1>1, <1>2 DEF OnCourse

(* The statement that is to be executed, and what it asks for. *)
LEMMA NowFacts ==
  ASSUME nodes \in Trees, todo \in Works, todo # << >>, NEW n, n = Head(todo)
  PROVE  /\ n \in DOMAIN nodes /\ nodes[n].nt \in Statements
         /\ Tail(todo) \in Works
         /\ Source!Now = n /\ Source!Kind = nodes[n].nt
         /\ nodes[n].nt \in Asking => Source!Depends = Meant(Asked(n))
<1>1. /\ n \in DOMAIN nodes /\ nodes[n].nt \in Statements /\ Tail(todo) \in Works
      /\ Source!Now = n /\ Source!Kind = nodes[n].nt
  BY WorksJoin DEF Source!Now, Source!Kind
<1>2. Shaped(n)
  BY <1>1, ShapeFacts
<1>3. CASE nodes[n].nt = "assign"
  BY <1>1, <1>2, <1>3 DEF Source!Depends, Source!Kid, Asked, Meant, Sub, Shaped, HasSub
<1>4. CASE nodes[n].nt = "output"
  BY <1>1, <1>2, <1>4 DEF Source!Depends, Source!Kid, Asked, Meant, Sub, Shaped, HasSub
<1>5. CASE nodes[n].nt = "branch"
  BY <1>1, <1>2, <1>5 DEF Source!Depends, Source!Kid, Asked, Meant, Sub, Shaped, HasSub
<1>6. CASE nodes[n].nt = "loop"
  BY <1>1, <1>2, <1>6 DEF Source!Depends, Source!Kid, Asked, Meant, Sub, Shaped, HasSub
<1>7. CASE nodes[n].nt = "repeat"
  BY <1>1, <1>2, <1>7 DEF Source!Depends, Source!Kid, Asked, Meant, Sub, Shaped, HasSub
<1> QED
  BY <1>1, <1>3, <1>4, <1>5, <1>6, <1>7 DEF Asking

(* The code of a statement stays where it is. *)
LEMMA PlacesKept ==
  ASSUME UNCHANGED nodes, NEW t, NEW n
  PROVE  Entry(t, n)' = Entry(t, n) /\ Last(t, n)' = Last(t, n)
BY DEF Entry, Last, Sub

(* As long as what the statement asks for is computed, nothing happens; and *)
(* then, perhaps, the division fails.                                      *)
LEMMA EvaluationStep ==
  ASSUME NEW t, Going(t), todo # << >>, NEW n, n = Head(todo), Amid(t, n),
         pc # Last(t, n)
  PROVE  Means /\ todo' \in Works /\ (status' = "running" => OnCourse(t)')
<1>1. /\ nodes \in Trees /\ todo \in Works /\ Compiled(t) /\ Sane
      /\ Run!IInv /\ Trans!ComputedOnce
  BY GoingFacts DEF Going, Sane
<1>2. PICK p \in Nat, l \in Nat, m \in Nat :
        p = pc /\ l = Entry(t, n) /\ m = Last(t, n) /\ p \in l..m /\ Done(l, p)
  BY <1>1, GoingFacts, NowFacts, StatementPlaces DEF Amid
<1>3. p + 1 \in l..m
  BY <1>2
<1>4. nodes[n].nt \in Asking
  BY <1>1, <1>2, NowFacts, StatementPlaces DEF Statements, Asking
<1>5. PICK x \in Questions : x = Asked(n) /\ l = t.from[x] /\ m = t.to[x]
  BY <1>1, <1>2, <1>4, NowFacts, StatementPlaces
<1>6. Calculates(p)
  BY <1>1, <1>2, <1>3, <1>5, AnswerComputes DEF Computing
<1>7. Advances(l, p) \/ Stops(p)
  BY <1>1, <1>2, <1>6, GoingFacts, ComputingStep
<1>8. todo' = todo /\ turn' = turn
  <2>1. \A ops : Run!Executing(ops) => ops \cap {"ASSIGN", "READ", "WRITE", "BRANCH"} # ops
    BY <1>1, <1>2, <1>6, GoingFacts, ComputingStep
  <2>2. ~Run!Executing({"ASSIGN", "READ", "WRITE"}) /\ ~Run!Executing({"BRANCH"})
    BY <2>1
  <2>3. ~VM!Executing({"ASSIGN", "READ", "WRITE"}) /\ ~VM!Executing({"BRANCH"})
    BY <2>2 DEF VM!Executing, Run!Executing, VM!Current, Run!Current
  <2> QED
    BY <2>3, GoingFacts DEF Followed
<1>9. CASE Advances(l, p)
  <2>1. /\ status' = "running" /\ pc' = p + 1 /\ UNCHANGED <<value, input, output>>
        /\ \A q \in l..p : Settled(q)'
    BY <1>9 DEF Advances, Going
  <2>2. UNCHANGED Source!vars
    BY <1>8, <2>1, GoingFacts DEF Source!vars
  <2>3. PICK k, e, s : k = p + 1 /\ e = t.to[n] /\ s = Tail(todo)
    OBVIOUS
  <2>4. Course(t, e, s)'
    BY <2>3, CourseKept, GoingFacts DEF Amid
  <2>5. Done(l, k)'
    BY <2>1, <2>3 DEF Done
  <2>6. Entry(t, n)' = l /\ Last(t, n)' = m
    BY <1>2, PlacesKept, GoingFacts
  <2>7. Amid(t, n)'
    BY <1>3, <1>8, <2>1, <2>3, <2>4, <2>5, <2>6 DEF Amid
  <2>8. todo' \in Works' /\ pc' \in Nat
    BY <1>1, <1>8, <2>1, WorksKept, GoingFacts
  <2>9. OnCourse(t)'
    BY <1>8, <2>7, <2>8 DEF OnCourse
  <2> QED
    BY <1>1, <1>8, <2>2, <2>9 DEF Means
<1>10. CASE Stops(p)
  <2>1. PICK f \in {"failed", "trapped"} :
          Aborts(p, f) /\ status' = f /\ UNCHANGED <<value, input, output>>
    BY <1>10 DEF Stops
  <2>2. l <= t.from[x] /\ p \in t.from[x]..(t.to[x] - 1)
    BY <1>2, <1>3, <1>5
  <2>3. Meant(x) = Source!Fault(f)
    BY <1>1, <1>2, <2>1, <2>2, AnswerFails
  <2>4. Source!Depends.fault = f
    BY <1>1, <1>4, <1>5, <2>3, NowFacts, ResultFacts
  <2>5. Source!At({"assign", "output"} \cup Source!Decisions)
    BY <1>1, <1>4, NowFacts, GoingFacts DEF Source!At, Source!Decisions, Asking
  <2>6. MeaningStatus' = f
    BY <2>1, GoingFacts
  <2>7. Source!Fail
    BY <1>8, <2>1, <2>4, <2>5, <2>6, GoingFacts DEF Source!Fail, Source!program
  <2> QED
    BY <1>1, <1>8, <2>1, <2>7 DEF Means, Source!Next
<1> QED
  BY <1>7, <1>9, <1>10

(* At the last instruction of a statement, the answer is there. *)
LEMMA Answered ==
  ASSUME NEW t, Going(t), todo # << >>, NEW n, n = Head(todo), Amid(t, n),
         pc = Last(t, n), nodes[n].nt \in Asking
  PROVE  /\ Right(t.opd[Asked(n)], Source!Depends) /\ Source!Depends \in Results
         /\ nodes[n].nt \in Source!Decisions => Source!Depends.val \in {0, 1}
<1>1. /\ nodes \in Trees /\ todo \in Works /\ Compiled(t) /\ Sane
  BY GoingFacts DEF Going, Sane
<1>2. PICK p \in Nat, l \in Nat : p = pc /\ l = Entry(t, n) /\ Done(l, p)
  BY <1>1, GoingFacts, NowFacts, StatementPlaces DEF Amid
<1>3. PICK x \in Questions : /\ x = Asked(n) /\ l = t.from[x] /\ p = t.to[x]
                             /\ nodes[n].nt \in Source!Decisions => nodes[x].nt = "condition"
  BY <1>1, <1>2, NowFacts, StatementPlaces
<1>4. Within(t, x, l, p)
  BY <1>2, <1>3 DEF Within
<1>5. Right(t.opd[x], Meant(x))
  BY <1>1, <1>2, <1>4, AnswerRight
<1>6. Source!Depends = Meant(x)
  BY <1>1, <1>3, NowFacts
<1>7. Meant(x).fault = "none"
  BY <1>5 DEF Right
<1> QED
  BY <1>1, <1>3, <1>5, <1>6, <1>7, AnswerFacts

(* What the last instruction of a statement fetches. *)
LEMMA Fetches ==
  ASSUME NEW t, Going(t), todo # << >>, NEW n, n = Head(todo), Amid(t, n),
         pc = Last(t, n), nodes[n].nt \in Asking,
         NEW op \in {"ASSIGN", "WRITE", "BRANCH"}, Stands(pc, op),
         instrs[pc + 1].src1 = t.opd[Asked(n)]
  PROVE  /\ Run!Fetched(Run!Current.src1) = {Source!Depends.val}
         /\ Val(instrs[pc + 1].src1) = Source!Depends.val
         /\ Source!Depends.val \in Source!Int64 /\ Source!Depends.fault = "none"
<1>1. Run!IInv /\ Run!Executing({op})
  BY AtFacts DEF Going
<1>2. PICK o, i : o = t.opd[Asked(n)] /\ i = Run!Current /\ i.src1 = o /\ i.op = op
  BY AtFacts DEF Stands
<1>3. o \in Run!Sources(Run!Current)
  <2>1. i.op \notin Arithmetic \cup RelOps
    BY <1>2 DEF Arithmetic, RelOps
  <2>2. Sources(i) = {i.src1}
    BY <1>2, <2>1 DEF Sources
  <2> QED
    BY <1>2, <2>2, SameSources
<1>4. Run!Fetched(o) = {Val(o)}
  BY <1>1, <1>3, FetchedIsVal
<1>5. Val(o) = Source!Depends.val /\ Source!Depends.fault = "none"
  BY <1>2, Answered DEF Right
<1>6. Source!Depends.val \in Source!Int64
  BY Answered, ResultFacts
<1> QED
  BY <1>2, <1>4, <1>5, <1>6

-----------------------------------------------------------------------------
(* The execution goes on, as its user sees. *)
Proceeds(t) ==
  Source!Next /\ status' = "running" /\ todo' \in Works /\ OnCourse(t)'

(* ASSIGN *)
LEMMA AssignFollowed ==
  ASSUME NEW t, Going(t), todo # << >>, NEW n, n = Head(todo), Amid(t, n),
         pc = Last(t, n), nodes[n].nt = "assign"
  PROVE  Proceeds(t)
<1>1. /\ nodes \in Trees /\ todo \in Works /\ Compiled(t) /\ Sane
  BY GoingFacts DEF Going, Sane
<1>2. n \in DOMAIN nodes /\ Tail(todo) \in Works /\ Source!Now = n /\ Source!Kind = "assign"
  BY <1>1, NowFacts
<1>3. LaidAssign(t, n) /\ nodes[n].nt \in Asking /\ Asked(n) = Sub(n, 3)
  BY <1>1, <1>2, StatementCode DEF Asking, Asked
<1>4. PICK p \in Nat, e \in Nat, s \in Works :
        p = pc /\ e = t.to[n] /\ s = Tail(todo) /\ e = p + 1 /\ Course(t, e, s)
  BY <1>1, <1>2, <1>3, GoingFacts, CompiledPlaces DEF LaidAssign, Amid
<1>5. /\ Stands(pc, "ASSIGN") /\ instrs[pc + 1].src1 = t.opd[Asked(n)]
      /\ instrs[pc + 1].dest.val = Source!Kid(n, 1).attr
  BY <1>3 DEF LaidAssign, Attr, Source!Kid
<1>6. Run!Fetched(Run!Current.src1) = {Source!Depends.val} /\ Source!Depends.fault = "none"
  BY <1>3, <1>5, Fetches
<1>7. Run!ExecuteAssign
  BY <1>5, AtFacts, GoingFacts DEF Run!Next, Run!ExecuteGoto, Run!ExecuteRead,
        Run!ExecuteWrite, Run!ExecuteArithmetic, Run!ExecuteSign, Run!Arithmetic,
        Run!Unary, Run!RelOps, Run!ExecuteCompare, Run!ExecuteBranch
<1>8. /\ value' = [value EXCEPT ![Source!Kid(n, 1).attr] = Source!Depends.val]
      /\ pc' = p + 1 /\ status' = "running" /\ UNCHANGED <<input, output>>
  BY <1>4, <1>5, <1>6, <1>7, AtFacts DEF Run!ExecuteAssign, Run!io, Run!Onward, Going
<1>9. todo' = Tail(todo) /\ turn' = turn
  BY <1>5, AtFacts, GoingFacts DEF Followed
<1>10. OnCourse(t)'
  BY <1>4, <1>8, <1>9, OnwardCourse, GoingFacts
<1>11. Source!At({"assign"})
  BY <1>2, GoingFacts DEF Source!At
<1>12. Source!Assign
  BY <1>2, <1>6, <1>8, <1>9, <1>11, GoingFacts DEF Source!Assign, Source!program
<1> QED
  BY <1>2, <1>8, <1>9, <1>10, <1>12 DEF Proceeds, Source!Next

(* WRITE *)
LEMMA OutputFollowed ==
  ASSUME NEW t, Going(t), todo # << >>, NEW n, n = Head(todo), Amid(t, n),
         pc = Last(t, n), nodes[n].nt = "output"
  PROVE  Proceeds(t)
<1>1. /\ nodes \in Trees /\ todo \in Works /\ Compiled(t) /\ Sane
  BY GoingFacts DEF Going, Sane
<1>2. n \in DOMAIN nodes /\ Tail(todo) \in Works /\ Source!Now = n /\ Source!Kind = "output"
  BY <1>1, NowFacts
<1>3. LaidOutput(t, n) /\ nodes[n].nt \in Asking /\ Asked(n) = Sub(n, 2)
  BY <1>1, <1>2, StatementCode DEF Asking, Asked
<1>4. PICK p \in Nat, e \in Nat, s \in Works :
        p = pc /\ e = t.to[n] /\ s = Tail(todo) /\ e = p + 1 /\ Course(t, e, s)
  BY <1>1, <1>2, <1>3, GoingFacts, CompiledPlaces DEF LaidOutput, Amid
<1>5. Stands(pc, "WRITE") /\ instrs[pc + 1].src1 = t.opd[Asked(n)]
  BY <1>3 DEF LaidOutput
<1>6. Run!Fetched(Run!Current.src1) = {Source!Depends.val} /\ Source!Depends.fault = "none"
  BY <1>3, <1>5, Fetches
<1>7. Run!ExecuteWrite
  BY <1>5, AtFacts, GoingFacts DEF Run!Next, Run!ExecuteGoto, Run!ExecuteRead,
        Run!ExecuteAssign, Run!ExecuteArithmetic, Run!ExecuteSign, Run!Arithmetic,
        Run!Unary, Run!RelOps, Run!ExecuteCompare, Run!ExecuteBranch
<1>8. /\ output' = [val |-> Source!Depends.val, odd |-> ~output.odd]
      /\ pc' = p + 1 /\ status' = "running" /\ UNCHANGED <<value, input>>
  BY <1>4, <1>6, <1>7 DEF Run!ExecuteWrite, Run!Onward, Going
<1>9. todo' = Tail(todo) /\ turn' = turn
  BY <1>5, AtFacts, GoingFacts DEF Followed
<1>10. OnCourse(t)'
  BY <1>4, <1>8, <1>9, OnwardCourse, GoingFacts
<1>11. Source!At({"output"})
  BY <1>2, GoingFacts DEF Source!At
<1>12. Source!Output
  BY <1>6, <1>8, <1>9, <1>11, GoingFacts DEF Source!Output, Source!program
<1> QED
  BY <1>2, <1>8, <1>9, <1>10, <1>12 DEF Proceeds, Source!Next

(* The machine keeps the nearest number. *)
LEMMA SaturatedNearest ==
  ASSUME NEW n \in Inputs
  PROVE  /\ Run!Saturated(n) \in Source!Int64
         /\ \A w \in Source!Int64 :
              Source!Size(n - Run!Saturated(n)) <= Source!Size(n - w)
<1>1. n \in Int /\ MaxInt \in Nat /\ Source!Int64 = (-MaxInt - 1)..MaxInt
  BY Width
<1>2. PICK v : v = Run!Saturated(n)
  OBVIOUS
<1>3. v = IF n > MaxInt THEN MaxInt ELSE IF n < -MaxInt - 1 THEN -MaxInt - 1 ELSE n
  BY <1>2 DEF Run!Saturated
<1>4. v \in Source!Int64
  BY <1>1, <1>3
<1>5. ASSUME NEW w \in Source!Int64
      PROVE  Source!Size(n - v) <= Source!Size(n - w)
  BY <1>1, <1>3 DEF Source!Size
<1> QED
  BY <1>2, <1>4, <1>5

(* READ *)
LEMMA InputFollowed ==
  ASSUME NEW t, Going(t), todo # << >>, NEW n, n = Head(todo), Amid(t, n),
         pc = Last(t, n), nodes[n].nt = "input"
  PROVE  Proceeds(t)
<1>1. /\ nodes \in Trees /\ todo \in Works /\ Compiled(t) /\ Sane
  BY GoingFacts DEF Going, Sane
<1>2. n \in DOMAIN nodes /\ Tail(todo) \in Works /\ Source!Now = n /\ Source!Kind = "input"
  BY <1>1, NowFacts
<1>3. LaidInput(t, n) /\ Last(t, n) = t.from[n]
  BY <1>1, <1>2, StatementCode DEF Last
<1>4. PICK p \in Nat, e \in Nat, s \in Works :
        p = pc /\ e = t.to[n] /\ s = Tail(todo) /\ e = p + 1 /\ Course(t, e, s)
  BY <1>1, <1>2, <1>3, GoingFacts, CompiledPlaces DEF LaidInput, Amid
<1>5. Stands(pc, "READ") /\ instrs[pc + 1].dest.val = Source!Kid(n, 2).attr
  BY <1>3 DEF LaidInput, Attr, Source!Kid
<1>7. Run!ExecuteRead
  BY <1>5, AtFacts, GoingFacts DEF Run!Next, Run!ExecuteGoto, Run!ExecuteWrite,
        Run!ExecuteAssign, Run!ExecuteArithmetic, Run!ExecuteSign, Run!Arithmetic,
        Run!Unary, Run!RelOps, Run!ExecuteCompare, Run!ExecuteBranch
<1>8. pc' = p + 1 /\ status' = "running" /\ UNCHANGED output
  BY <1>4, <1>7 DEF Run!ExecuteRead, Run!Onward, Going
<1>9. todo' = Tail(todo) /\ turn' = turn
  BY <1>5, AtFacts, GoingFacts DEF Followed
<1>10. OnCourse(t)'
  BY <1>4, <1>8, <1>9, OnwardCourse, GoingFacts
<1>11. Source!At({"input"})
  BY <1>2, GoingFacts DEF Source!At
<1>12. Source!Input
  <2>1. CASE input' \in {input, "stuck"} /\ UNCHANGED value
    BY <1>8, <1>9, <1>11, <2>1, GoingFacts DEF Source!Input, Source!program
  <2>2. CASE ~(input' \in {input, "stuck"} /\ UNCHANGED value)
    <3>1. PICK k \in Inputs :
            /\ input = "open" /\ UNCHANGED input
            /\ value' = [value EXCEPT ![Source!Kid(n, 2).attr] = Run!Saturated(k)]
      BY <1>5, <1>7, <2>2, AtFacts DEF Run!ExecuteRead
    <3>2. \E v \in Source!Int64 :
            /\ \A w \in Source!Int64 : Source!Size(k - v) <= Source!Size(k - w)
            /\ value' = [value EXCEPT ![Source!Kid(n, 2).attr] = v]
      BY <3>1, SaturatedNearest
    <3> QED
      BY <1>2, <1>8, <1>9, <1>11, <3>1, <3>2, GoingFacts DEF Source!Input, Source!program
  <2> QED
    BY <2>1, <2>2
<1> QED
  BY <1>2, <1>8, <1>9, <1>10, <1>12 DEF Proceeds, Source!Next

(* BRANCH *)
LEMMA DecisionFollowed ==
  ASSUME NEW t, Going(t), todo # << >>, NEW n, n = Head(todo), Amid(t, n),
         pc = Last(t, n), nodes[n].nt \in Source!Decisions
  PROVE  Proceeds(t)
<1>1. /\ nodes \in Trees /\ todo \in Works /\ Compiled(t) /\ Sane /\ Run!IInv
  BY GoingFacts DEF Going, Sane
<1>2. n \in DOMAIN nodes /\ Source!Now = n /\ Source!Kind = nodes[n].nt
  BY <1>1, NowFacts
<1>3. nodes[n].nt \in Asking
  BY DEF Asking, Source!Decisions
<1>4. Stands(pc, "BRANCH") /\ instrs[pc + 1].src1 = t.opd[Asked(n)]
  <2>1. CASE nodes[n].nt = "branch"
    BY <1>1, <1>2, <2>1, StatementCode DEF LaidBranch, Tests, Asked
  <2>2. CASE nodes[n].nt = "loop"
    BY <1>1, <1>2, <2>2, StatementCode DEF LaidLoop, Tests, Asked
  <2>3. CASE nodes[n].nt = "repeat"
    BY <1>1, <1>2, <2>3, StatementCode DEF LaidRepeat, Tests, Asked
  <2> QED
    BY <2>1, <2>2, <2>3 DEF Source!Decisions
<1>5. PICK o : o = instrs[pc + 1].src1
  OBVIOUS
<1>6. /\ Run!Fetched(o) = {Source!Depends.val} /\ Val(o) = Source!Depends.val
      /\ Source!Depends.fault = "none" /\ Source!Depends.val \in {0, 1}
  BY <1>3, <1>4, <1>5, AtFacts, Fetches, Answered
<1>7. o.type = "TEMPORARY" /\ o = Temporary(o.val)
  <2>1. pc + 1 \in DOMAIN instrs /\ instrs[pc + 1].op = "BRANCH"
    BY <1>4, GoingFacts DEF Stands
  <2>2. Run!Addressed(instrs, tmp_cnt)
    BY <1>1 DEF Run!IInv, Run!Executable
  <2>3. o.type = "TEMPORARY"
    BY <1>5, <2>1, <2>2 DEF Run!Addressed
  <2>4. PICK i : i = instrs[pc + 1]
    OBVIOUS
  <2>5. o \in Sources(i)
    <3>1. i.op \notin Arithmetic \cup RelOps
      BY <2>1, <2>4 DEF Arithmetic, RelOps
    <3> QED
      BY <1>5, <2>1, <2>4, <3>1 DEF Sources
  <2> QED
    BY <1>1, <2>1, <2>3, <2>4, <2>5, CodeOperands
<1>8. temporary[o.val] = Source!Depends.val
  BY <1>6, <1>7 DEF Val
<1>9. PICK h \in BOOLEAN : h <=> Source!Depends.val = 1
  OBVIOUS
<1>10. Run!ExecuteBranch
  BY <1>4, AtFacts, GoingFacts DEF Run!Next, Run!ExecuteGoto, Run!ExecuteWrite,
        Run!ExecuteAssign, Run!ExecuteArithmetic, Run!ExecuteSign, Run!Arithmetic,
        Run!Unary, Run!RelOps, Run!ExecuteCompare, Run!ExecuteRead
<1>11. PICK p \in Nat : p = pc
  BY GoingFacts
<1>12. /\ pc' = IF h THEN Target(p) ELSE p + 1
       /\ status' = "running" /\ UNCHANGED <<value, input, output>>
  <2>1. Run!Current = instrs[pc + 1]
    BY <1>4, AtFacts
  <2>2. Run!Temporary(o.val) = o
    BY <1>7 DEF Run!Temporary, Temporary
  <2>3. \E v \in {Source!Depends.val} : pc' = IF v # 0 THEN Target(p) ELSE p + 1
    BY <1>5, <1>6, <1>10, <1>11, <2>1, <2>2 DEF Run!ExecuteBranch, Target
  <2> QED
    BY <1>6, <1>9, <1>10, <2>3 DEF Run!ExecuteBranch, Run!io, Going
<1>13. todo' = Source!Chosen(h) /\ turn' = ~turn
  <2>1. todo' = Source!Chosen(temporary[o.val] # 0)
    BY <1>4, <1>5, AtFacts, GoingFacts DEF Followed
  <2>2. (temporary[o.val] # 0) = h
    BY <1>6, <1>8, <1>9
  <2>3. turn' = ~turn
    BY <1>4, AtFacts, GoingFacts
  <2> QED
    BY <2>1, <2>2, <2>3
<1>14. /\ Course(t, IF h THEN Target(Last(t, n)) ELSE Last(t, n) + 1, Source!Chosen(h))
       /\ Source!Chosen(h) \in Works
  BY <1>1, Continues DEF Amid
<1>15. PICK l, s : /\ l = IF h THEN Target(p) ELSE p + 1
                   /\ s = Source!Chosen(h) /\ s \in Works /\ Course(t, l, s)
  BY <1>11, <1>14
<1>16. l \in Nat
  <2>1. Run!Resolved(instrs) /\ "BRANCH" \in Run!Jumps
    BY <1>1 DEF Run!IInv, Run!Executable, Run!Jumps
  <2>2. Target(p) \in Nat
    BY <1>4, <1>11, <2>1, GoingFacts DEF Run!Resolved, Target, Stands
  <2> QED
    BY <1>15, <2>2
<1>17. OnCourse(t)'
  BY <1>12, <1>13, <1>15, <1>16, OnwardCourse, GoingFacts
<1>18. Source!At(Source!Decisions)
  BY <1>2, GoingFacts DEF Source!At
<1>19. Source!Decide
  <2>1. todo' = Source!Chosen(Source!Depends.val = 1) /\ turn' = (~turn)
    BY <1>9, <1>13
  <2> QED
    BY <1>6, <1>12, <1>18, <2>1, GoingFacts DEF Source!Decide, Source!program
<1> QED
  BY <1>12, <1>13, <1>15, <1>17, <1>19 DEF Proceeds, Source!Next

-----------------------------------------------------------------------------
(***************************************************************************)
(* An instruction is a step of the source program, or none that its user   *)
(* sees.                                                                   *)
(***************************************************************************)
LEMMA GoingStep ==
  ASSUME NEW t, Going(t)
  PROVE  Means /\ todo' \in Works /\ (status' = "running" => OnCourse(t)')
<1>1. Compiled(t) /\ OnCourse(t) /\ nodes \in Trees /\ todo \in Works
  BY GoingFacts DEF Going, Sane
<1>2. CASE todo = << >> /\ pc = Len(instrs)
  BY <1>2, EndStep DEF Means, Source!Next
<1>3. CASE Stands(pc, "GOTO") /\ Course(t, Target(pc), todo)
  <2>1. todo' = todo
    BY <1>3, JumpStep DEF Source!vars
  <2> QED
    BY <1>1, <1>3, <2>1, JumpStep DEF Means
<1>4. CASE todo # << >> /\ Amid(t, Head(todo))
  <2>1. PICK n \in DOMAIN nodes : n = Head(todo) /\ nodes[n].nt \in Statements
    BY <1>1, <1>4, WorksJoin
  <2>2. CASE pc # Last(t, n)
    BY <1>4, <2>1, <2>2, EvaluationStep
  <2>3. CASE pc = Last(t, n) /\ nodes[n].nt = "assign"
    BY <1>4, <2>1, <2>3, AssignFollowed DEF Proceeds, Means
  <2>4. CASE pc = Last(t, n) /\ nodes[n].nt = "input"
    BY <1>4, <2>1, <2>4, InputFollowed DEF Proceeds, Means
  <2>5. CASE pc = Last(t, n) /\ nodes[n].nt = "output"
    BY <1>4, <2>1, <2>5, OutputFollowed DEF Proceeds, Means
  <2>6. CASE pc = Last(t, n) /\ nodes[n].nt \in Source!Decisions
    BY <1>4, <2>1, <2>6, DecisionFollowed DEF Proceeds, Means
  <2> QED
    BY <2>1, <2>2, <2>3, <2>4, <2>5, <2>6 DEF Statements, Source!Decisions
<1> QED
  BY <1>1, <1>2, <1>3, <1>4, Standing

-----------------------------------------------------------------------------
(***************************************************************************)
(* The analyser with its proofs: Sem and Analyser are the same module for  *)
(* the same variables, too.                                                *)
(***************************************************************************)
Sem == INSTANCE TranslationProofs

(* The analyser with its proofs assumes what the analyser in main does. *)
LEMMA SameSemanterAssumption ==
  Sem!SemanterAssumption = Analyser!SemanterAssumption
BY DEF Analyser!SemanterAssumption, Sem!SemanterAssumption, Analyser!Node,
       Sem!Node, Analyser!Analysable, Sem!Analysable, Analyser!NonTerminals,
       Sem!NonTerminals, Analyser!Child, Sem!Child, Analyser!Readable,
       Sem!Readable, Analyser!Follows, Sem!Follows, Analyser!TokenTypes,
       Sem!TokenTypes, Analyser!Attrs, Sem!Attrs, Analyser!Kinds, Sem!Kinds,
       Analyser!Has, Sem!Has, Analyser!VariablesReadable,
       Sem!VariablesReadable, Analyser!Statements, Sem!Statements,
       Analyser!RelOps, Sem!RelOps, Analyser!ChainReadable, Sem!ChainReadable,
       Analyser!FactorReadable, Sem!FactorReadable,
       Analyser!Orderly, Sem!Orderly, Analyser!NamedAt, Sem!NamedAt,
       Analyser!VisitedAt, Sem!VisitedAt, Analyser!Named, Sem!Named,
       Analyser!Subtrees, Sem!Subtrees, Analyser!NamesIn, Sem!NamesIn

(* What the analyser assumes, main assumes. *)
LEMMA SameAssumptions ==
  /\ Sem!SemanterAssumption /\ Sem!CodeAssumption /\ Sem!AttrAssumption
  /\ Run!InterpreterAssumption /\ Run!CodeAssumption /\ Run!AttrAssumption
<1>1. Sem!TokenTypes = TokenTypes
  BY DEF TokenTypes, Sem!TokenTypes
<1> QED
  BY <1>1, SameSemanterAssumption, RunAssumptions, YogAssumption,
     AttrAssumption, CodeAssumption
     DEF Sem!CodeAssumption, CodeAssumption, Sem!AttrAssumption, AttrAssumption

(* A step of the one is a step of the other. *)
LEMMA SameAnalysis == Analyser!Next = Sem!Next
BY DEF Analyser!Next, Sem!Next, Analyser!AnalyseSource, Sem!AnalyseSource,
       Analyser!AnalyseVariables, Sem!AnalyseVariables,
       Analyser!AnalyseStatements, Sem!AnalyseStatements,
       Analyser!AnalyseAssign, Sem!AnalyseAssign, Analyser!AnalyseInput,
       Sem!AnalyseInput, Analyser!AnalyseOutput, Sem!AnalyseOutput,
       Analyser!AnalyseBranch, Sem!AnalyseBranch, Analyser!AnalyseLoop,
       Sem!AnalyseLoop, Analyser!AnalyseRepeat, Sem!AnalyseRepeat,
       Analyser!AnalyseExpression, Sem!AnalyseExpression,
       Analyser!AnalyseTerm, Sem!AnalyseTerm, Analyser!AnalyseFactor,
       Sem!AnalyseFactor, Analyser!AnalyseCondition, Sem!AnalyseCondition,
       Analyser!Done, Sem!Done, Analyser!In, Sem!In, Analyser!Self, Sem!Self,
       Analyser!Calling, Sem!Calling, Analyser!Onward, Sem!Onward,
       Analyser!Kids, Sem!Kids, Analyser!Returned, Sem!Returned,
       Analyser!OnlyCalls, Sem!OnlyCalls, Analyser!Stepping, Sem!Stepping,
       Analyser!DeclaredBy, Sem!DeclaredBy, Analyser!memory, Sem!memory,
       Analyser!At, Sem!At, Analyser!Usable, Sem!Usable, Analyser!Complaints,
       Sem!Complaints, Analyser!Add, Sem!Add, Analyser!Instr, Sem!Instr,
       Analyser!Unset, Sem!Unset, Analyser!Symbol, Sem!Symbol,
       Analyser!Branch, Sem!Branch, Analyser!Pointing, Sem!Pointing,
       Analyser!Enlarge, Sem!Enlarge, Analyser!Patched, Sem!Patched,
       Analyser!Goto, Sem!Goto, Analyser!AnalyseChain, Sem!AnalyseChain,
       Analyser!Returning, Sem!Returning, Analyser!Literal, Sem!Literal,
       Analyser!ValueOf, Sem!ValueOf, Analyser!AddTemporary, Sem!AddTemporary,
       Analyser!SignOf, Sem!SignOf, Analyser!Temporary, Sem!Temporary,
       Analyser!Analysed, Sem!Analysed, Analyser!vars, Sem!vars, Analyser!Top,
       Sem!Top, Analyser!Begin, Sem!Begin, Analyser!Label, Sem!Label,
       Analyser!LastAdded, Sem!LastAdded, Analyser!OpOf, Sem!OpOf

(* Main starts where the analyser does. *)
LEMMA SameInit == Analyser!Init = Sem!Init
BY DEF Analyser!Init, Sem!Init, Analyser!Begin, Sem!Begin

(* What the analyser makes executable is executable for the interpreter. *)
LEMMA SameExecutable ==
  /\ Sem!Executable(instrs, tmp_cnt) = Executable(instrs, tmp_cnt)
  /\ Run!Executable(instrs, tmp_cnt) = Executable(instrs, tmp_cnt)
<1>1. Sem!Executable(instrs, tmp_cnt) = Executable(instrs, tmp_cnt)
  BY DEF Executable, Sem!Executable, Addressed, Sem!Addressed, Resolved,
       Sem!Resolved, Straight, Sem!Straight, Sources, Sem!Sources, Computes,
       Sem!Computes, Jumps, Sem!Jumps, StraightFrom, Sem!StraightFrom,
       Arithmetic, Sem!Arithmetic, RelOps, Sem!RelOps, Unary, Sem!Unary
<1>2. Run!Executable(instrs, tmp_cnt) = Executable(instrs, tmp_cnt)
  BY DEF Executable, Run!Executable, Addressed, Run!Addressed, Resolved,
       Run!Resolved, Straight, Run!Straight, Sources, Run!Sources, Computes,
       Run!Computes, Jumps, Run!Jumps, StraightFrom, Run!StraightFrom,
       Arithmetic, Run!Arithmetic, RelOps, Run!RelOps, Unary, Run!Unary
<1> QED
  BY <1>1, <1>2

(* Trans and Sem are the same module too. *)
LEMMA SameCode ==
  /\ Trans!Instruction = Sem!Instruction
  /\ Trans!Translations(nodes) = Sem!Translations(nodes)
  /\ Sem!ComputedOnce => Trans!ComputedOnce
BY
   DEF Trans!Translations, Sem!Translations, Trans!Instruction,
       Sem!Instruction, Trans!Operand, Sem!Operand, Trans!Ops, Sem!Ops,
       Trans!Arithmetic, Sem!Arithmetic, Trans!Unary, Sem!Unary, Trans!RelOps,
       Sem!RelOps, Trans!Jumps, Sem!Jumps, Trans!Unset, Sem!Unset,
       Trans!Label, Sem!Label, Trans!ComputedOnce, Sem!ComputedOnce,
       Trans!Computes, Sem!Computes

(* A translation for the one is a translation for the other. *)
LEMMA SameTranslation ==
  ASSUME NEW t, NEW n, Sem!Translates(nodes, instrs, t, n)
  PROVE  Trans!Translates(nodes, instrs, t, n)
BY
   DEF Trans!Translates, Sem!Translates, Trans!TranslatesSource,
       Sem!TranslatesSource, Trans!TranslatesAssign, Sem!TranslatesAssign,
       Trans!TranslatesInput, Sem!TranslatesInput, Trans!TranslatesOutput,
       Sem!TranslatesOutput, Trans!TranslatesBranch, Sem!TranslatesBranch,
       Trans!TranslatesLoop, Sem!TranslatesLoop, Trans!TranslatesRepeat,
       Sem!TranslatesRepeat, Trans!TranslatesCondition,
       Sem!TranslatesCondition, Trans!TranslatesChain, Sem!TranslatesChain,
       Trans!TranslatesFactor, Sem!TranslatesFactor, Trans!ChainUpTo,
       Sem!ChainUpTo, Trans!Combines, Sem!Combines, Trans!Value, Sem!Value,
       Trans!End, Sem!End, Trans!ListUpTo, Sem!ListUpTo, Trans!ListEnd,
       Sem!ListEnd, Trans!Test, Sem!Test, Trans!Jump, Sem!Jump, Trans!Puts,
       Sem!Puts, Trans!Arity, Sem!Arity, Trans!Attr, Sem!Attr, Trans!Word,
       Sem!Word, Trans!Opd, Sem!Opd, Trans!To, Sem!To, Trans!From, Sem!From,
       Trans!Sub, Sem!Sub, Trans!OpOf, Sem!OpOf, Trans!SignOf, Sem!SignOf,
       Trans!ValueOf, Sem!ValueOf, Trans!Instr, Sem!Instr, Trans!Label,
       Sem!Label, Trans!Symbol, Sem!Symbol, Trans!Literal, Sem!Literal,
       Trans!Unset, Sem!Unset

(* What the interpreter finds when it starts. *)
Idle ==
  /\ value \in [Names -> VM!Int64] /\ input \in {"open", "stuck"}
  /\ output \in [val : VM!Int64, odd : BOOLEAN]

(* The analyser's invariant holds until the list is cleared; the            *)
(* interpreter runs when main has found no error, and, when the list has    *)
(* not moved, with its own invariant.                                       *)
MainInv ==
  /\ phase # "returned" => Sem!LabelInv
  /\ phase \in {"open", "analyse"} => Idle
  /\ phase = "execute" => Analyser!Analysed /\ NoErrors
  /\ phase = "execute" /\ block = 0 => Run!IInv

-----------------------------------------------------------------------------
(* What the analyser has accepted can be run, if the list has not moved. *)
LEMMA Trusted ==
  ASSUME Sem!LabelInv, Analyser!Analysed, NoErrors, block = 0
  PROVE  Executable(instrs, tmp_cnt)
BY Sem!AcceptedCode, SameExecutable, SameAssumptions
   DEF Analyser!Analysed, Sem!Analysed, Sem!InPlace, NoErrors

(* The instructions of the two modules are the same. *)
LEMMA SameInstructions ==
  Sem!Instruction = Run!Instruction /\ Run!Int64 = VM!Int64
BY DEF Sem!Instruction, Run!Instruction, Sem!Ops, Run!Ops, Sem!Operand,
       Run!Operand, Sem!Arithmetic, Run!Arithmetic, Sem!Unary, Run!Unary,
       Sem!RelOps, Run!RelOps, Sem!Jumps, Run!Jumps, Sem!Unset, Run!Unset,
       Sem!Label, Run!Label, Run!Int64, VM!Int64

(* Nothing happens to the tree, the errors and the code. *)
LEMMA AnalysisKept ==
  ASSUME Sem!LabelInv, UNCHANGED <<analysis, instrs, tmp_cnt>>
  PROVE  Sem!LabelInv'
<1>1. UNCHANGED Sem!vars
  BY DEF analysis, Sem!vars
<1> QED
  BY <1>1, Sem!InvStep, SameAssumptions

(* The interpreter as interpreter_init leaves it. *)
LEMMA StartStep == ASSUME MainInv, Start PROVE MainInv'
<1>1. /\ phase = "analyse" /\ phase' = "execute"
      /\ Analyser!Analysed /\ NoErrors /\ Sem!LabelInv /\ Idle
      /\ UNCHANGED <<analysis, instrs, tmp_cnt, value, input, output, parsed>>
      /\ pc' = 0 /\ temporary' = VM!Fresh(tmp_cnt) /\ status' = "running"
  BY DEF Start, Main, MainInv
<1>2. Sem!LabelInv'
  BY <1>1, AnalysisKept
<1>3. Analyser!Analysed' /\ NoErrors'
  BY <1>1 DEF Analyser!Analysed, NoErrors, analysis
<1>4. ASSUME block' = 0
      PROVE  Run!IInv'
  <2>1. block = 0 /\ Executable(instrs, tmp_cnt)
    BY <1>1, <1>4, Trusted DEF analysis
  <2>2. Run!Executable(instrs, tmp_cnt)'
    BY <1>1, <2>1, SameExecutable DEF Executable
  <2>3. instrs \in Seq(Run!Instruction) /\ tmp_cnt \in Nat
    BY <1>1, SameInstructions
       DEF Sem!LabelInv, Sem!CodeInv, Sem!FrameInv, Sem!TypeOK
  <2>4. Len(instrs) \in Nat /\ DOMAIN instrs = 1..Len(instrs)
    BY <2>3, LenProperties
  <2>5. temporary' \in [0..(tmp_cnt - 1) -> VM!Int64 \cup {Run!Uninit}]
    BY <1>1 DEF VM!Fresh, VM!Uninit, Run!Uninit
  <2>6. Run!TypeOK'
    BY <1>1, <2>3, <2>4, <2>5, SameInstructions DEF Run!TypeOK, Idle
  <2>7. Run!Ready'
    BY <1>1, <2>4 DEF Run!Ready
  <2> QED
    BY <2>2, <2>6, <2>7 DEF Run!IInv
<1> QED
  BY <1>1, <1>2, <1>3, <1>4 DEF MainInv

(* An instruction keeps the code, and is one of InterpreterProofs. *)
LEMMA ExecuteStep == ASSUME MainInv, Execute PROVE MainInv'
<1>1. /\ phase = "execute" /\ phase' \in {"execute", "cleanup"}
      /\ Analyser!Analysed /\ NoErrors /\ Sem!LabelInv
      /\ UNCHANGED <<analysis, parsed>>
      /\ Run!Next /\ (block = 0 => Run!IInv)
  BY SameExecution DEF Execute, Main, MainInv
<1>2. UNCHANGED <<instrs, tmp_cnt>>
  BY <1>1 DEF Run!Next, Run!ExecuteAssign, Run!ExecuteRead, Run!ExecuteWrite,
              Run!ExecuteArithmetic, Run!Divide, Run!Compute, Run!Abort,
              Run!ExecuteSign, Run!ExecuteCompare, Run!ExecuteGoto,
              Run!ExecuteBranch, Run!Clear, Run!program
<1>3. Sem!LabelInv'
  BY <1>1, <1>2, AnalysisKept
<1>4. Analyser!Analysed' /\ NoErrors'
  BY <1>1 DEF Analyser!Analysed, NoErrors, analysis
<1>5. block' = 0 => Run!IInv'
  BY <1>1, Run!NextIInv, SameAssumptions DEF analysis
<1> QED
  BY <1>1, <1>3, <1>4, <1>5 DEF MainInv

(* The analyser goes on until it has analysed the tree. *)
LEMMA AnalyseStep == ASSUME MainInv, Analyse PROVE MainInv'
<1>1. /\ phase = "analyse" /\ phase' = "analyse" /\ Sem!LabelInv /\ Idle
      /\ Sem!Next /\ UNCHANGED execution
  BY SameAnalysis DEF Analyse, Main, MainInv
<1>2. Sem!LabelInv'
  BY <1>1, Sem!InvStep, SameAssumptions
<1>3. Idle'
  BY <1>1 DEF Idle, execution
<1> QED
  BY <1>1, <1>2, <1>3 DEF MainInv

(* The steps between the phases, and the end. *)
LEMMA OtherSteps ==
  ASSUME MainInv, Open \/ Refuse \/ Shown \/ Cleanup \/ UNCHANGED vars
  PROVE  MainInv'
<1>1. CASE Cleanup
  BY <1>1 DEF Cleanup, Main, MainInv
<1>2. CASE UNCHANGED vars
  <2>1. /\ UNCHANGED <<analysis, instrs, tmp_cnt>> /\ UNCHANGED execution
        /\ UNCHANGED <<phase, parsed>> /\ UNCHANGED <<errs, stack, block>>
    BY <1>2 DEF vars, analysis
  <2>2. phase' # "returned" => Sem!LabelInv'
    BY <2>1, AnalysisKept DEF MainInv
  <2>3. Idle' = Idle /\ NoErrors' = NoErrors
        /\ Analyser!Analysed' = Analyser!Analysed
    BY <2>1 DEF Idle, execution, NoErrors, Analyser!Analysed
  <2>4. phase' = "execute" /\ block' = 0 => Run!IInv'
    <3>1. UNCHANGED Run!vars
      BY <2>1 DEF Run!vars, execution
    <3> QED
      BY <2>1, <3>1, Run!NextIInv, SameAssumptions DEF MainInv
  <2> QED
    BY <2>1, <2>2, <2>3, <2>4 DEF MainInv
<1>3. CASE Open \/ Refuse \/ Shown
  <2>1. /\ UNCHANGED <<analysis, instrs, tmp_cnt>> /\ UNCHANGED execution
        /\ phase # "returned" /\ phase' # "execute"
        /\ phase' \in {"open", "analyse"} => phase \in {"open", "analyse"}
    BY <1>3 DEF Open, Refuse, Shown, Main
  <2>2. Sem!LabelInv'
    BY <2>1, AnalysisKept DEF MainInv
  <2>3. Idle' = Idle
    BY <2>1 DEF Idle, execution
  <2> QED
    BY <2>1, <2>2, <2>3 DEF MainInv
<1> QED
  BY <1>1, <1>2, <1>3

(* Main starts with nothing analysed and nothing computed. *)
LEMMA InitMain == Init => MainInv
<1> SUFFICES ASSUME Init PROVE MainInv
  OBVIOUS
<1>1. Sem!LabelInv
  BY SameInit, SameAssumptions, Sem!InitInv DEF Init
<1>2. Idle
  <2>1. 0 \in VM!Int64 /\ Garbage \subseteq VM!Int64
    BY YogAssumption DEF VM!InterpreterAssumption, VM!Int64
  <2> QED
    BY <2>1 DEF Init, Idle
<1> QED
  BY <1>1, <1>2 DEF Init, MainInv

(* So the invariant holds of every run of yog. *)
LEMMA AlwaysMainInv == Spec => []MainInv
<1>1. MainInv /\ [Next]_vars => MainInv'
  BY StartStep, ExecuteStep, AnalyseStep, OtherSteps DEF Next
<1> QED
  BY <1>1, InitMain, PTL DEF Spec

(***************************************************************************)
(* For every program, every width of the numbers and every user: main runs *)
(* the interpreter only on code without an error in it, which is code that *)
(* can be run without a check, unless the instruction list has moved.      *)
(***************************************************************************)
THEOREM CodeAlwaysTrusted == Spec => [](block = 0 => CodeTrusted)
<1>1. MainInv => (block = 0 => CodeTrusted)
  BY Trusted DEF MainInv, CodeTrusted, NoErrors
<1> QED
  BY <1>1, AlwaysMainInv, PTL

(***************************************************************************)
(* And so the interpreter, which checks nothing, stays inside its code and *)
(* its temporaries, and reads no temporary that was not computed.          *)
(***************************************************************************)
THEOREM RunsAlwaysSafe ==
  Spec => [](phase = "execute" /\ block = 0
               => Run!TypeOK /\ Run!TemporariesComputed)
<1>1. MainInv => (phase = "execute" /\ block = 0
                    => Run!TypeOK /\ Run!TemporariesComputed)
  BY Run!ReadyComputed, SameAssumptions DEF MainInv, Run!IInv
<1> QED
  BY <1>1, AlwaysMainInv, PTL

-----------------------------------------------------------------------------
(* The program is accepted exactly if it has a meaning. *)
LEMMA AcceptedHasMeaning ==
  ASSUME nodes \in Trees, Repaired(nodes) => parsed # 0, parsed \in Nat,
         Sem!FrameInv, Sem!NamesInv, Analyser!Analysed
  PROVE  NoErrors <=> Source!Meaningful
<1>1. /\ \A p \in Sem!Identifiers : /\ p[1] \in DOMAIN nodes
                                    /\ p[2] \in DOMAIN nodes[p[1]].children
                                    /\ nodes[p[1]].children[p[2]].type = "IDENTIFIER"
                                    /\ nodes[p[1]].children[p[2]].attr # NULL
  BY DEF Sem!Identifiers, Sem!NamesIn, Sem!Named
<1>2. ASSUME NEW p \in Sem!Identifiers, NEW c, c = nodes[p[1]].children[p[2]]
      PROVE  /\ p \in Sem!Declarations => c \in Source!Identifiers(TRUE)
             /\ p \in Sem!Uses => c \in Source!Identifiers(FALSE)
  BY <1>1, <1>2 DEF Sem!Declarations, Sem!Uses, Source!Identifiers
<1>3. ASSUME parsed = 0, NEW where \in BOOLEAN, NEW c \in Source!Identifiers(where)
      PROVE  \E p \in Sem!Identifiers :
               /\ c = nodes[p[1]].children[p[2]]
               /\ IF where THEN p \in Sem!Declarations ELSE p \in Sem!Uses
  <2>0. PICK n \in DOMAIN nodes :
          /\ c \in {nodes[n].children[i] : i \in DOMAIN nodes[n].children}
          /\ c.type = "IDENTIFIER" /\ where = (nodes[n].nt = "variables")
    BY <1>3 DEF Source!Identifiers
  <2>1. PICK i \in DOMAIN nodes[n].children : c = nodes[n].children[i]
    BY <2>0
  <2>2. c.attr # NULL
    BY <1>3, <2>0, <2>1 DEF Repaired
  <2>3. PICK p : p = <<n, i>>
    OBVIOUS
  <2>4. p[1] = n /\ p[2] = i
    BY <2>3
  <2>5. p \in Sem!Identifiers
    BY <2>0, <2>1, <2>2, <2>3, <2>4 DEF Sem!Identifiers, Sem!NamesIn, Sem!Named
  <2>6. p \in Sem!Declarations <=> where
    BY <2>0, <2>4, <2>5 DEF Sem!Declarations
  <2>7. IF where THEN p \in Sem!Declarations ELSE p \in Sem!Uses
    BY <2>5, <2>6 DEF Sem!Uses
  <2> QED
    BY <2>1, <2>4, <2>5, <2>7
<1>4. ASSUME NoErrors
      PROVE  Source!Meaningful
  <2>1. /\ \A p \in Sem!Uses : \E q \in Sem!Declarations : Sem!Name(p) = Sem!Name(q)
        /\ \A p, q \in Sem!Declarations : Sem!Name(p) = Sem!Name(q) => p = q
        /\ parsed = 0
    BY <1>4, Sem!NamesAccepted, SameAssumptions
       DEF NoErrors, Sem!AcceptedIsDeclared, Sem!Analysed, Analyser!Analysed
  <2>2. ASSUME NEW c \in Source!Identifiers(TRUE), NEW d \in Source!Identifiers(TRUE),
               c.attr = d.attr
        PROVE  c = d
    <3>1. PICK p \in Sem!Declarations : c = nodes[p[1]].children[p[2]]
      BY <1>3, <2>1
    <3>2. PICK q \in Sem!Declarations : d = nodes[q[1]].children[q[2]]
      BY <1>3, <2>1
    <3> QED
      BY <2>1, <2>2, <3>1, <3>2 DEF Sem!Name
  <2>3. ASSUME NEW c \in Source!Identifiers(FALSE)
        PROVE  \E d \in Source!Identifiers(TRUE) : c.attr = d.attr
    <3>1. PICK p \in Sem!Uses : c = nodes[p[1]].children[p[2]]
      BY <1>3, <2>1
    <3>2. PICK q \in Sem!Declarations : Sem!Name(p) = Sem!Name(q)
      BY <2>1
    <3>3. q \in Sem!Identifiers
      BY DEF Sem!Declarations
    <3>4. PICK d : d = nodes[q[1]].children[q[2]]
      OBVIOUS
    <3>5. d \in Source!Identifiers(TRUE)
      BY <1>2, <3>3, <3>4
    <3> QED
      BY <3>1, <3>2, <3>4, <3>5 DEF Sem!Name
  <2> QED
    BY <2>1, <2>2, <2>3 DEF Source!Meaningful, Source!WellDeclared
<1>5. ASSUME Source!Meaningful
      PROVE  NoErrors
  <2>1. /\ parsed = 0
        /\ \A c, d \in Source!Identifiers(TRUE) : c.attr = d.attr => c = d
        /\ \A c \in Source!Identifiers(FALSE) :
             \E d \in Source!Identifiers(TRUE) : c.attr = d.attr
    BY <1>5 DEF Source!Meaningful, Source!WellDeclared
  <2>2. SUFFICES ASSUME errs # << >> PROVE FALSE
    BY <2>1 DEF NoErrors
  <2>3. errs \in Seq(Sem!SemanticError)
    BY DEF Sem!FrameInv, Sem!TypeOK
  <2>4. 1 \in DOMAIN errs /\ errs[1].kind \in {"UNDECLARED_VAR", "MULTIPLE_DECL"}
    <3>1. Len(errs) \in Nat /\ DOMAIN errs = 1..Len(errs) /\ Len(errs) # 0
      BY <2>2, <2>3, LenProperties, EmptySeq
    <3>2. 1 \in DOMAIN errs
      BY <3>1
    <3>3. errs[1] \in Sem!SemanticError
      BY <2>3, <3>1, <3>2, ElementOfSeq
    <3> QED
      BY <3>2, <3>3 DEF Sem!SemanticError
  <2>5. Sem!Justified(errs[1])
    BY <2>4 DEF Sem!NamesInv, Sem!Accounted
  <2>6. CASE errs[1].kind = "UNDECLARED_VAR"
    <3>1. PICK p \in Sem!Uses : \A q \in Sem!Declarations : Sem!Name(q) # Sem!Name(p)
      BY <2>5, <2>6 DEF Sem!Justified
    <3>2. PICK c : c = nodes[p[1]].children[p[2]]
      OBVIOUS
    <3>3. c \in Source!Identifiers(FALSE)
      BY <1>2, <3>2 DEF Sem!Uses
    <3>4. PICK d \in Source!Identifiers(TRUE) : c.attr = d.attr
      BY <2>1, <3>3
    <3>5. PICK q \in Sem!Declarations : d = nodes[q[1]].children[q[2]]
      BY <1>3, <2>1
    <3> QED
      BY <3>1, <3>2, <3>4, <3>5 DEF Sem!Name
  <2>7. CASE errs[1].kind = "MULTIPLE_DECL"
    <3>1. PICK p \in Sem!Declarations, q \in Sem!Declarations :
            Sem!Name(p) = Sem!Name(q) /\ Sem!Loc(q) < Sem!Loc(p)
      BY <2>5, <2>7 DEF Sem!Justified
    <3>2. PICK c, d : c = nodes[p[1]].children[p[2]] /\ d = nodes[q[1]].children[q[2]]
      OBVIOUS
    <3>3. p \in Sem!Identifiers /\ q \in Sem!Identifiers
      BY DEF Sem!Declarations
    <3>4. c \in Source!Identifiers(TRUE) /\ d \in Source!Identifiers(TRUE)
      BY <1>2, <3>2, <3>3
    <3>5. c = d
      BY <2>1, <3>1, <3>2, <3>4 DEF Sem!Name
    <3>6. Sem!Loc(p) \in Nat /\ Sem!Loc(p) = Sem!Loc(q)
      <4>1. c \in Child
        BY <1>1, <3>2, <3>3, NodeFacts, ElementOfSeq
      <4> QED
        BY <3>2, <3>5, <4>1 DEF Sem!Loc, Child
    <3> QED
      BY <3>1, <3>6
  <2> QED
    BY <2>4, <2>6, <2>7
<1> QED
  BY <1>4, <1>5

-----------------------------------------------------------------------------
(* What the variables of main are between the phases. *)
PhaseInv ==
  /\ nodes \in Trees
  /\ parsed \in Nat /\ (Repaired(nodes) => parsed # 0)
  /\ phase \in {"open", "analyse", "execute", "show", "cleanup", "returned"}
  /\ exit \in {-1, 0, 1, 2}
  /\ status \in {"none", "running", "failed", "trapped", "finished"}
  /\ phase \in {"open", "analyse", "show"} => status = "none" /\ todo = << >>
  /\ phase \in {"cleanup", "returned"} /\ status # "none" => pc = 0
  /\ phase = "returned" => instrs \in Seq(Sem!Instruction)
  /\ freed \in Lists /\ turn \in BOOLEAN

(* Where the execution is, when the list has not moved. *)
PlaceInv ==
  block = 0 =>
    /\ value \in [Names -> VM!Int64] /\ todo \in Lists
    /\ phase = "execute" /\ status = "running" => \E t : Compiled(t) /\ OnCourse(t)

(* The analyser's part. *)
TreeInv == phase # "returned" => Sem!FlowInv /\ Sem!NamesInv /\ Sem!TranslationInv

CourseInv == MainInv /\ PhaseInv /\ PlaceInv /\ TreeInv

-----------------------------------------------------------------------------
(* The analyser does what it does whatever main does besides. *)
LEMMA TreeKept ==
  ASSUME MainInv, TreeInv, phase # "returned",
         Sem!Next \/ UNCHANGED <<analysis, instrs, tmp_cnt>>
  PROVE  Sem!FlowInv' /\ Sem!NamesInv' /\ Sem!TranslationInv' /\ UNCHANGED nodes
<1>1. [Sem!Next]_(Sem!vars)
  BY DEF analysis, Sem!vars
<1>2. /\ Sem!LabelInv /\ Sem!FrameInv /\ Sem!TestsHoldTemporaries /\ Sem!PointersAtJumps
      /\ Sem!FlowInv /\ Sem!NamesInv /\ Sem!TranslationInv
  BY DEF MainInv, TreeInv, Sem!LabelInv, Sem!CodeInv
<1>3. Sem!FlowInv'
  BY <1>1, <1>2, Sem!FlowInvStep, SameAssumptions
<1>4. Sem!NamesInv'
  BY <1>1, <1>2, Sem!NamesStep, SameAssumptions
<1>5. Sem!TranslationInv'
  BY <1>1, <1>2, Sem!TranslationStep, SameAssumptions
<1>6. UNCHANGED nodes
  BY <1>1, <1>2, Sem!NextStep, SameAssumptions DEF Sem!AnalyserStep
<1> QED
  BY <1>3, <1>4, <1>5, <1>6

(* What an instruction does to the state of the interpreter. *)
LEMMA ExecuteFacts ==
  ASSUME Execute
  PROVE  /\ phase = "execute" /\ status = "running"
         /\ UNCHANGED <<analysis, instrs, tmp_cnt, parsed, exit, freed>>
         /\ status' \in {"running", "failed", "trapped", "finished"}
         /\ phase' = IF status' = "finished" THEN "cleanup" ELSE "execute"
         /\ status' = "finished" => pc' = 0
         /\ turn \in BOOLEAN => turn' \in BOOLEAN
<1>1. /\ phase = "execute" /\ UNCHANGED <<analysis, parsed, exit, freed>> /\ Run!Next
      /\ phase' = IF status' = "finished" THEN "cleanup" ELSE "execute"
      /\ turn' \in {turn, ~turn}
  BY SameExecution DEF Execute, Main
<1>2. CASE Run!Clear
  BY <1>1, <1>2 DEF Run!Clear, Run!program
<1>3. CASE Run!ExecuteArithmetic
  <2>1. status = "running" /\ UNCHANGED <<instrs, tmp_cnt>>
    BY <1>3 DEF Run!ExecuteArithmetic, Run!Executing, Run!program
  <2>2. status' \in {"running", "failed", "trapped"}
    BY <1>3, <2>1 DEF Run!ExecuteArithmetic, Run!Divide, Run!Compute, Run!Abort
  <2> QED
    BY <1>1, <2>1, <2>2
<1>4. CASE ~Run!Clear /\ ~Run!ExecuteArithmetic
  <2>1. status = "running" /\ UNCHANGED <<instrs, tmp_cnt, status>>
    BY <1>1, <1>4 DEF Run!Next, Run!ExecuteAssign, Run!ExecuteRead, Run!ExecuteWrite,
              Run!ExecuteSign, Run!ExecuteCompare, Run!ExecuteGoto,
              Run!ExecuteBranch, Run!program, Run!Executing
  <2> QED
    BY <1>1, <2>1
<1> QED
  BY <1>2, <1>3, <1>4

(* The code of an accepted program is that of its tree, *)
LEMMA StartCompiled ==
  ASSUME MainInv, PhaseInv, TreeInv, phase = "analyse", Analyser!Analysed, NoErrors,
         block = 0
  PROVE  \E t : Compiled(t)
<1>1. Sem!LabelInv /\ Sem!NamesInv /\ Sem!TranslationInv
  BY DEF MainInv, TreeInv
<1>2. Sem!CodeTranslates
  BY <1>1, Sem!TranslatedWhole, SameAssumptions
<1>3. \E t \in Sem!Translations(nodes) :
        /\ t.from[1] = 0 /\ t.to[1] = Len(instrs)
        /\ \A n \in DOMAIN nodes : Sem!Translates(nodes, instrs, t, n)
  BY <1>2 DEF Sem!CodeTranslates, Sem!Analysed, Analyser!Analysed, NoErrors, Sem!InPlace
<1>4. instrs \in Seq(Trans!Instruction)
  BY <1>1, SameCode DEF Sem!LabelInv, Sem!CodeInv, Sem!FrameInv, Sem!TypeOK
<1>5. nodes \in Trees /\ ~Repaired(nodes)
  BY DEF PhaseInv, NoErrors
<1>6. PICK t \in Trans!Translations(nodes) :
        /\ t.from[1] = 0 /\ t.to[1] = Len(instrs)
        /\ \A n \in DOMAIN nodes : Sem!Translates(nodes, instrs, t, n)
  BY <1>3, SameCode
<1>7. \A n \in DOMAIN nodes : Trans!Translates(nodes, instrs, t, n)
  BY <1>6, SameTranslation
<1> QED
  BY <1>4, <1>5, <1>6, <1>7 DEF Compiled

(* and begins where the statements begin. *)
LEMMA StartCourse ==
  ASSUME NEW t, Compiled(t)
  PROVE  /\ Course(t, 0, Source!Unrolled(nodes[1].children[4].at))
         /\ Source!Unrolled(nodes[1].children[4].at) \in Works
<1>1. nodes \in Trees /\ t.from[1] = 0 /\ t.to[1] = Len(instrs)
  BY DEF Compiled
<1>2. 1 \in DOMAIN nodes /\ nodes[1].nt = "source"
  BY <1>1, NodeFacts
<1>3. PICK s : s = Sub(1, 4)
  OBVIOUS
<1>4. s \in DOMAIN nodes /\ nodes[s].nt = "statements"
  BY <1>1, <1>2, <1>3, ShapeFacts DEF Shaped, HasSub
<1>5. t.from[s] = 0 /\ t.to[s] = Len(instrs)
  BY <1>1, <1>2, <1>3, ListCode
<1>6. Paved(t, s)
  BY <1>4, AllPaved
<1> QED
  BY <1>3, <1>5, <1>6 DEF Paved, Course, Sub

(* What there is to do at the start. *)
LEMMA StartLists ==
  ASSUME nodes \in Trees
  PROVE  Source!Unrolled(nodes[1].children[4].at) \in Lists
<1>1. 1 \in DOMAIN nodes /\ nodes[1].nt = "source"
  BY NodeFacts
<1>2. Sub(1, 4) \in DOMAIN nodes
  BY <1>1, ShapeFacts DEF Shaped, HasSub
<1> QED
  BY <1>2, UnrolledFacts DEF Sub

(* A state that follows its course: what an instruction needs. *)
LEMMA GoingThere ==
  ASSUME CourseInv, Execute, block = 0
  PROVE  \E t : Going(t)
<1>1. phase = "execute" /\ status = "running"
  BY ExecuteFacts
<1>2. PICK t : Compiled(t) /\ OnCourse(t)
  BY <1>1 DEF CourseInv, PlaceInv
<1>3. Run!IInv /\ NoErrors /\ Sem!LabelInv
  BY <1>1 DEF CourseInv, MainInv
<1>4. Trans!ComputedOnce
  BY <1>3, SameCode DEF Sem!LabelInv, Sem!CodeInv
<1>5. Sane
  BY <1>3, Width DEF Sane, Run!IInv, Run!TypeOK, CourseInv, PhaseInv, NoErrors
<1> QED
  BY <1>1, <1>2, <1>3, <1>4, <1>5 DEF Going

-----------------------------------------------------------------------------
(* A name that is missing stays so. *)
LEMMA RepairedKept ==
  ASSUME UNCHANGED nodes PROVE Repaired(nodes)' = Repaired(nodes) /\ Lists' = Lists
BY DEF Repaired, Lists

(* An instruction. *)
LEMMA ExecuteCourse ==
  ASSUME CourseInv, Execute
  PROVE  PhaseInv' /\ PlaceInv' /\ TreeInv' /\ (block = 0 => Means)
<1>1. /\ phase = "execute" /\ status = "running"
      /\ UNCHANGED <<analysis, instrs, tmp_cnt, parsed, exit, freed>>
      /\ UNCHANGED <<nodes, block>>
      /\ status' \in {"running", "failed", "trapped", "finished"}
      /\ phase' = IF status' = "finished" THEN "cleanup" ELSE "execute"
      /\ status' = "finished" => pc' = 0
      /\ turn \in BOOLEAN => turn' \in BOOLEAN
  BY ExecuteFacts DEF analysis
<1>2. PhaseInv'
  BY <1>1, RepairedKept DEF CourseInv, PhaseInv
<1>3. TreeInv'
  BY <1>1, TreeKept DEF CourseInv, TreeInv
<1>4. ASSUME block = 0
      PROVE  Means /\ PlaceInv'
  <2>1. PICK t : Going(t)
    BY <1>4, GoingThere
  <2>2. Means /\ todo' \in Works /\ (status' = "running" => OnCourse(t)')
    BY <2>1, GoingStep
  <2>3. Compiled(t)'
    BY <1>1, <2>1, CompiledKept DEF Going
  <2>4. status' = "running" => \E c : (Compiled(c) /\ OnCourse(c))'
    BY <2>2, <2>3
  <2>5. todo' \in Lists'
    BY <1>1, <2>2, WorksJoin, RepairedKept
  <2>6. value' \in [Names -> VM!Int64]
    <3>1. [Run!Next]_(Run!vars) /\ Run!IInv
      BY <2>1, GoingFacts DEF Going
    <3>2. Run!IInv'
      BY <3>1, Run!NextIInv, SameAssumptions
    <3> QED
      BY <3>2, SameInstructions DEF Run!IInv, Run!TypeOK
  <2> QED
    BY <2>2, <2>4, <2>5, <2>6 DEF PlaceInv
<1> QED
  BY <1>1, <1>2, <1>3, <1>4 DEF PlaceInv

(* interpreter_init *)
LEMMA StartsCourse ==
  ASSUME CourseInv, Start
  PROVE  PhaseInv' /\ PlaceInv' /\ TreeInv' /\ Means
<1>1. /\ phase = "analyse" /\ phase' = "execute" /\ Analyser!Analysed /\ NoErrors
      /\ UNCHANGED <<analysis, instrs, tmp_cnt, value, input, output, parsed, exit, freed>>
      /\ UNCHANGED <<nodes, block, turn>>
      /\ pc' = 0 /\ status' = "running"
      /\ todo' = Source!Unrolled(nodes[1].children[4].at)
  BY DEF Start, Main, analysis
<1>2. PhaseInv'
  BY <1>1, RepairedKept DEF CourseInv, PhaseInv
<1>3. TreeInv'
  BY <1>1, TreeKept DEF CourseInv, TreeInv
<1>4. nodes \in Trees /\ Sem!FrameInv /\ Sem!NamesInv /\ Idle
  BY <1>1 DEF CourseInv, PhaseInv, MainInv, TreeInv, Sem!LabelInv, Sem!CodeInv
<1>5. PlaceInv'
  <2>1. value' \in [Names -> VM!Int64] /\ todo' \in Lists'
    BY <1>1, <1>4, StartLists, RepairedKept DEF Idle
  <2>2. ASSUME block = 0
        PROVE  \E c : (Compiled(c) /\ OnCourse(c))'
    <3>1. PICK t : Compiled(t)
      BY <1>1, <2>2, StartCompiled DEF CourseInv
    <3>2. PICK s \in Works : s = todo' /\ Course(t, 0, s)
      BY <1>1, <3>1, StartCourse
    <3>3. OnCourse(t)'
      BY <1>1, <3>2, OnwardCourse
    <3>4. Compiled(t)'
      BY <1>1, <3>1, CompiledKept
    <3> QED
      BY <3>3, <3>4
  <2> QED
    BY <1>1, <2>1, <2>2 DEF PlaceInv
<1>6. Source!Start
  <2>1. Source!Meaningful
    BY <1>1, <1>4, AcceptedHasMeaning DEF CourseInv, PhaseInv
  <2>2. MeaningStatus = "ready" /\ MeaningStatus' = "running"
    BY <1>1 DEF MeaningStatus
  <2> QED
    BY <1>1, <2>1, <2>2 DEF Source!Start, Source!program, Source!Kid
<1> QED
  BY <1>2, <1>3, <1>5, <1>6 DEF Means, Source!Next

(* error_list_show *)
LEMMA RefuseCourse ==
  ASSUME CourseInv, Refuse
  PROVE  PhaseInv' /\ PlaceInv' /\ TreeInv' /\ Means
<1>1. /\ phase = "analyse" /\ phase' = "show" /\ Analyser!Analysed /\ ~NoErrors
      /\ UNCHANGED <<analysis, instrs, tmp_cnt, execution, parsed, exit, freed, todo, turn>>
      /\ UNCHANGED <<nodes, block, value, input, output, status>>
  BY DEF Refuse, Main, analysis, execution, history
<1>2. PhaseInv'
  BY <1>1, RepairedKept DEF CourseInv, PhaseInv
<1>3. TreeInv'
  BY <1>1, TreeKept DEF CourseInv, TreeInv
<1>4. Sem!FrameInv /\ Sem!NamesInv
  BY <1>1 DEF CourseInv, MainInv, TreeInv, Sem!LabelInv, Sem!CodeInv
<1>5. PlaceInv'
  BY <1>1, RepairedKept DEF CourseInv, PlaceInv
<1>6. ~Source!Meaningful
  BY <1>1, <1>4, AcceptedHasMeaning DEF CourseInv, PhaseInv
<1>7. MeaningStatus = "ready" /\ MeaningStatus' = "refused"
  BY <1>1 DEF MeaningStatus
<1>8. Source!Refuse
  BY <1>1, <1>6, <1>7 DEF Source!Refuse, Source!program
<1> QED
  BY <1>2, <1>3, <1>5, <1>8 DEF Means, Source!Next

(* The analysis goes on. *)
LEMMA AnalyseCourse ==
  ASSUME CourseInv, Analyse
  PROVE  PhaseInv' /\ PlaceInv' /\ TreeInv' /\ Means
<1>1. /\ phase = "analyse" /\ phase' = "analyse" /\ Sem!Next
      /\ UNCHANGED <<execution, parsed, exit, freed, todo, turn>>
      /\ UNCHANGED <<value, input, output, status>>
  BY SameAnalysis DEF Analyse, Main, execution, history
<1>2. TreeInv' /\ UNCHANGED nodes
  BY <1>1, TreeKept DEF CourseInv, TreeInv
<1>3. PhaseInv'
  BY <1>1, <1>2, RepairedKept DEF CourseInv, PhaseInv
<1>4. PlaceInv'
  <2>1. value \in [Names -> VM!Int64]
    BY <1>1 DEF CourseInv, MainInv, Idle
  <2>2. todo \in Lists
    BY <1>1 DEF CourseInv, PhaseInv, Lists
  <2> QED
    BY <1>1, <1>2, <2>1, <2>2, RepairedKept DEF PlaceInv
<1>5. UNCHANGED Source!vars
  BY <1>1, <1>2 DEF Source!vars, MeaningStatus
<1> QED
  BY <1>2, <1>3, <1>4, <1>5 DEF Means

-----------------------------------------------------------------------------
(* The file is opened, or not. *)
LEMMA OpenCourse ==
  ASSUME CourseInv, Open
  PROVE  PhaseInv' /\ PlaceInv' /\ TreeInv' /\ Means
<1>1. /\ phase = "open" /\ phase' \in {"returned", "analyse"}
      /\ phase' = "returned" => exit' \in {1, 2}
      /\ phase' = "analyse" => exit' = exit
      /\ UNCHANGED <<analysis, instrs, tmp_cnt, execution, parsed, freed, todo, turn>>
      /\ UNCHANGED <<nodes, block, value, input, output, status, pc>>
  BY DEF Open, Main, analysis, execution, history
<1>2. PhaseInv'
  <2>1. instrs \in Seq(Sem!Instruction)
    BY <1>1 DEF CourseInv, MainInv, Sem!LabelInv, Sem!CodeInv, Sem!FrameInv, Sem!TypeOK
  <2> QED
    BY <1>1, <2>1, RepairedKept DEF CourseInv, PhaseInv
<1>3. TreeInv'
  BY <1>1, TreeKept DEF CourseInv, TreeInv
<1>4. PlaceInv'
  BY <1>1, RepairedKept DEF CourseInv, PlaceInv
<1>5. MeaningStatus = "ready" /\ MeaningStatus' \in {"ready", "abandoned"}
  BY <1>1 DEF MeaningStatus
<1>6. Means
  <2>1. CASE MeaningStatus' = "ready"
    BY <1>1, <1>5, <2>1 DEF Means, Source!vars
  <2>2. CASE MeaningStatus' = "abandoned"
    BY <1>1, <1>5, <2>2 DEF Means, Source!Next, Source!Abandon, Source!program
  <2> QED
    BY <1>5, <2>1, <2>2
<1> QED
  BY <1>2, <1>3, <1>4, <1>6

(* The errors have been shown. *)
LEMMA ShownCourse ==
  ASSUME CourseInv, Shown
  PROVE  PhaseInv' /\ PlaceInv' /\ TreeInv' /\ Means
<1>1. /\ phase = "show" /\ phase' = "cleanup" /\ status = "none"
      /\ UNCHANGED <<analysis, instrs, tmp_cnt, execution, parsed, exit, freed, todo, turn>>
      /\ UNCHANGED <<nodes, block, value, input, output, status, pc>>
  BY DEF Shown, Main, analysis, execution, history, CourseInv, PhaseInv
<1>2. PhaseInv'
  BY <1>1, RepairedKept DEF CourseInv, PhaseInv
<1>3. TreeInv'
  BY <1>1, TreeKept DEF CourseInv, TreeInv
<1>4. PlaceInv'
  BY <1>1, RepairedKept DEF CourseInv, PlaceInv
<1>5. MeaningStatus = "refused" /\ MeaningStatus' = "refused"
  BY <1>1 DEF MeaningStatus
<1> QED
  BY <1>1, <1>2, <1>3, <1>4, <1>5 DEF Means, Source!vars

(* Everything is freed. *)
LEMMA CleanupCourse ==
  ASSUME CourseInv, Cleanup
  PROVE  PhaseInv' /\ PlaceInv' /\ TreeInv' /\ Means
<1>1. /\ phase = "cleanup" /\ phase' = "returned" /\ exit' = 0
      /\ instrs' = << >> /\ freed' = Cleared(nodes, 1)
      /\ UNCHANGED <<nodes, block, execution, parsed, todo, turn>>
      /\ UNCHANGED <<value, input, output, status, pc>>
  BY DEF Cleanup, Main, execution, history
<1>2. PhaseInv'
  <2>1. freed' \in Lists'
    BY <1>1, ClearedFacts, RepairedKept DEF CourseInv, PhaseInv
  <2>2. instrs' \in Seq(Sem!Instruction)
    BY <1>1
  <2> QED
    BY <1>1, <2>1, <2>2, RepairedKept DEF CourseInv, PhaseInv
<1>3. TreeInv'
  BY <1>1 DEF TreeInv
<1>4. PlaceInv'
  BY <1>1, RepairedKept DEF CourseInv, PlaceInv
<1>5. MeaningStatus' = MeaningStatus
  BY <1>1 DEF MeaningStatus
<1> QED
  BY <1>1, <1>2, <1>3, <1>4, <1>5 DEF Means, Source!vars

(* What was computed stays computed while nothing is written. *)
LEMMA DoneKept ==
  ASSUME UNCHANGED <<instrs, temporary, value>>, NEW l, NEW p, Done(l, p)
  PROVE  Done(l, p)'
BY DEF Done, Settled, Settles, Val

(* Nothing happens. *)
LEMMA IdleCourse ==
  ASSUME CourseInv, UNCHANGED vars
  PROVE  PhaseInv' /\ PlaceInv' /\ TreeInv' /\ Means
<1>1. /\ UNCHANGED <<analysis, instrs, tmp_cnt>>
      /\ UNCHANGED <<nodes, block, instrs, value, input, output, status, pc, phase, parsed,
                     exit, freed, todo, turn, temporary>>
  BY DEF vars, analysis, execution, history
<1>2. PhaseInv'
  BY <1>1, RepairedKept DEF CourseInv, PhaseInv
<1>3. TreeInv'
  BY <1>1, TreeKept DEF CourseInv, TreeInv
<1>4. PlaceInv'
  <2>1. ASSUME NEW t, Compiled(t), OnCourse(t)
        PROVE  (Compiled(t) /\ OnCourse(t))'
    <3>1. Compiled(t)'
      BY <1>1, <2>1, CompiledKept
    <3>2. CASE Course(t, pc, todo)
      <4>1. PICK l, s : l = pc /\ s = todo
        OBVIOUS
      <4>2. l \in Nat /\ s \in Works
        BY <2>1, <4>1 DEF OnCourse
      <4> QED
        BY <1>1, <3>1, <3>2, <4>1, <4>2, OnwardCourse
    <3>3. CASE todo # << >> /\ Amid(t, Head(todo))
      <4>1. PICK n, p, l, m, e, s :
              /\ n = Head(todo) /\ p = pc /\ l = Entry(t, n) /\ m = Last(t, n)
              /\ e = t.to[n] /\ s = Tail(todo)
        OBVIOUS
      <4>2. Course(t, e, s) /\ p \in l..m /\ Done(l, p)
        BY <3>3, <4>1 DEF Amid
      <4>3. Course(t, e, s)'
        BY <1>1, <4>2, CourseKept
      <4>4. Done(l, p)'
        BY <1>1, <4>2, DoneKept
      <4>5. Entry(t, n)' = l /\ Last(t, n)' = m
        BY <1>1, <4>1, PlacesKept
      <4>6. Amid(t, n)'
        BY <1>1, <4>1, <4>2, <4>3, <4>4, <4>5 DEF Amid
      <4>7. todo' \in Works' /\ pc' \in Nat
        BY <1>1, <2>1, WorksKept DEF OnCourse
      <4> QED
        BY <1>1, <3>1, <3>3, <4>1, <4>6, <4>7 DEF OnCourse
    <3> QED
      BY <2>1, <3>2, <3>3 DEF OnCourse
  <2> QED
    BY <1>1, <2>1, RepairedKept DEF CourseInv, PlaceInv
<1>5. UNCHANGED Source!vars
  BY <1>1 DEF Source!vars, MeaningStatus
<1> QED
  BY <1>2, <1>3, <1>4, <1>5 DEF Means

-----------------------------------------------------------------------------
(* A step of main keeps the invariant, and is a step of the meaning. *)
LEMMA NextCourse ==
  ASSUME CourseInv, [Next]_vars
  PROVE  CourseInv' /\ (block = 0 => Means)
<1>1. MainInv'
  BY StartStep, ExecuteStep, AnalyseStep, OtherSteps DEF CourseInv, Next
<1>2. PhaseInv' /\ PlaceInv' /\ TreeInv' /\ (block = 0 => Means)
  BY OpenCourse, AnalyseCourse, StartsCourse, ExecuteCourse, RefuseCourse, ShownCourse,
     CleanupCourse, IdleCourse DEF Next
<1> QED
  BY <1>1, <1>2 DEF CourseInv

(* Main starts where the meaning does. *)
LEMMA InitCourse ==
  ASSUME Init
  PROVE  CourseInv /\ Source!Init
<1>1. MainInv /\ Sem!FlowInv /\ Sem!NamesInv /\ Sem!TranslationInv
  <2>1. Sem!Init
    BY SameInit DEF Init
  <2>2. Sem!FlowInv /\ Sem!NamesInv /\ Sem!TranslationInv
    BY <2>1, Sem!FlowInit, Sem!NamesInit, Sem!TranslationInit, SameAssumptions
  <2> QED
    BY <2>2, InitMain
<1>2. nodes \in Trees /\ nodes \in Seq(Node)
  <2>1. nodes \in Trees
    BY DEF Init, Analyser!Init
  <2> QED
    BY <2>1, NodeFacts
<1>3. /\ parsed \in Nat /\ (Repaired(nodes) => parsed # 0)
      /\ pc = 0 /\ status = "none" /\ phase = "open" /\ exit = -1
      /\ freed = << >> /\ todo = << >> /\ turn \in BOOLEAN
      /\ value \in [Names -> Garbage]
      /\ input = "open" /\ output = [val |-> 0, odd |-> FALSE]
  <2>1. parsed \in IF Repaired(nodes) THEN {1} ELSE {0, 1}
    BY DEF Init
  <2>2. parsed \in Nat /\ (Repaired(nodes) => parsed # 0)
    BY <2>1
  <2>3. turn \in BOOLEAN
    BY DEF Init
  <2>4. /\ pc = 0 /\ status = "none" /\ phase = "open" /\ exit = -1
        /\ freed = << >> /\ todo = << >> /\ value \in [Names -> Garbage]
        /\ input = "open" /\ output = [val |-> 0, odd |-> FALSE]
    BY DEF Init
  <2> QED
    BY <2>2, <2>3, <2>4
<1>4. PhaseInv
  BY <1>2, <1>3 DEF PhaseInv, Lists
<1>5. PlaceInv
  BY <1>1, <1>3 DEF PlaceInv, MainInv, Idle, Lists
<1>6. Source!Init
  <2>0. turn = FALSE
    BY DEF Init
  <2>1. MeaningStatus = "ready"
    BY <1>3 DEF MeaningStatus
  <2>2. Source!Node = Node
    BY DEF Source!Node, Node, Source!NonTerminals, NonTerminals, Source!Child, Child,
           Source!TokenTypes, TokenTypes, Source!Attrs, Attrs
  <2> QED
    BY <1>2, <1>3, <2>0, <2>1, <2>2 DEF Source!Init
<1> QED
  BY <1>1, <1>3, <1>4, <1>5, <1>6 DEF CourseInv, TreeInv

(* So the invariant holds of every run of yog, *)
LEMMA AlwaysCourseInv == Spec => []CourseInv
<1>1. CourseInv /\ [Next]_vars => CourseInv'
  BY NextCourse
<1>2. Init => CourseInv
  BY InitCourse
<1> QED
  BY <1>1, <1>2, PTL DEF Spec

(***************************************************************************)
(* For every program, every width of the numbers and every user: while the *)
(* instruction list stays in place, what main, analyser and interpreter    *)
(* keep has its type.                                                      *)
(***************************************************************************)
THEOREM MainTypeCorrect == Spec => [](block = 0 => TypeOK)
<1>1. CourseInv /\ block = 0 => TypeOK
  <2> SUFFICES ASSUME CourseInv, block = 0 PROVE TypeOK
    OBVIOUS
  <2>1. /\ phase \in {"open", "analyse", "execute", "show", "cleanup", "returned"}
        /\ parsed \in Nat /\ exit \in {-1, 0, 1, 2}
        /\ {freed, todo} \subseteq Seq(DOMAIN nodes)
        /\ status \in {"none", "running", "failed", "trapped", "finished"}
        /\ value \in [Names -> VM!Int64] /\ turn \in BOOLEAN
    BY DEF CourseInv, PhaseInv, PlaceInv, Lists
  <2>2. ASSUME status # "none"
        PROVE  pc \in 0..Len(instrs)
    <3>1. CASE phase = "execute"
      BY <3>1 DEF CourseInv, MainInv, Run!IInv, Run!TypeOK
    <3>2. CASE phase \in {"cleanup", "returned"}
      <4>1. instrs \in Seq(Sem!Instruction)
        BY <3>2 DEF CourseInv, PhaseInv, MainInv, Sem!LabelInv, Sem!CodeInv,
                    Sem!FrameInv, Sem!TypeOK
      <4>2. Len(instrs) \in Nat
        BY <4>1, LenProperties
      <4> QED
        BY <2>2, <3>2, <4>2 DEF CourseInv, PhaseInv
    <3> QED
      BY <2>1, <2>2, <3>1, <3>2 DEF CourseInv, PhaseInv
  <2> QED
    BY <2>1, <2>2 DEF TypeOK
<1> QED
  BY <1>1, AlwaysCourseInv, PTL

(***************************************************************************)
(* The compiler is correct: while the instruction list stays in place, yog *)
(* does what the source program means.                                     *)
(***************************************************************************)
THEOREM YogImplementsMeaning == Spec /\ [](block = 0) => ImplementsMeaning
<1>1. CourseInv /\ block = 0 /\ [Next]_vars => [Source!Next]_(Source!vars)
  BY NextCourse DEF Means
<1>2. Init => Source!Init
  BY InitCourse
<1> QED
  BY <1>1, <1>2, AlwaysCourseInv, PTL DEF Spec, ImplementsMeaning, Source!Spec
=============================================================================
