--------------------------- MODULE SemanterProofs ---------------------------
(***************************************************************************)
(* The code of the analyser, for every tree that is Analysable: when no    *)
(* error was reported and the instruction list stayed in place, it is one  *)
(* that can be executed without a check.  Each function of semanter.c      *)
(* takes an AnalyserStep, which says what it may do to the stack, the code *)
(* and the errors, and no more; LabelInv is inductive.  And its errors,    *)
(* for every tree that is Orderly besides: they are those that there are.  *)
(* Every step is a WalkStep; NamesInv is inductive.                        *)
(***************************************************************************)
EXTENDS SemanterInv, SequenceTheorems, WellFoundedInduction, FiniteSetTheorems,
        TLAPS

(* What a step does to the stack. *)

(* The instruction that a step adds, if it adds one. *)
Added == instrs'[Len(instrs) + 1]

(* An operand that may be handed on: it was held before the step, or the    *)
(* step computes it, or it is no temporary.                                 *)
Fresh(o) ==
  \/ Held(o)
  \/ o.type # "TEMPORARY" /\ Sound(o)'
  \/ Len(instrs') = Len(instrs) + 1 /\ Computes(Added) /\ o = Added.dest

(* It keeps its pointers, and may remember a jump that it adds. *)
KeepsPointers(self) ==
  \/ self.ptrs = Self.ptrs
  \/ /\ self.ptrs = Append(Self.ptrs, LastAdded)
     /\ Len(instrs') = Len(instrs) + 1 /\ Added.op \in Jumps

(* It calls the function for the node c.at. *)
Enters(self, c) ==
  /\ stack' = Calling(self, c)
  /\ self \in Activation /\ self.node = Self.node /\ self.opds = Self.opds
  /\ c.at \in DOMAIN nodes
  /\ Fit(self, Len(self.opds) + Yields(nodes[c.at].nt))
  /\ KindOf(Self) \in Tests /\ nodes[c.at].nt \in Valued =>
       nodes[c.at].nt = "condition"
  /\ nodes[c.at].nt \notin Valued =>
       KindOf(Self) \notin Valued /\ ~Live(self)
  /\ KindOf(Self) = "assign" => Usable(Kids[1])
  /\ Live(self) => Live(Self) \/ self.opds = << >>
  /\ KeepsPointers(self)
  /\ \/ self.start = Self.start
     \/ /\ self.start = Len(instrs) /\ instrs' = instrs
        /\ KindOf(Self) \notin Valued /\ Len(self.opds) = 0

(* It goes on in the same function. *)
Stays(self) ==
  /\ stack' = Stepping(self)
  /\ self \in Activation /\ self.node = Self.node
  /\ Fit(self, Len(self.opds))
  /\ KindOf(Self) # "assign"
  /\ KindOf(Self) \in Tests => self.opds = Self.opds
  /\ \A i \in DOMAIN self.opds : Live(self) => Fresh(self.opds[i])
  /\ KeepsPointers(self)
  /\ self.start = Self.start

(* It returns, without an operand or with one. *)
Leaves == stack' = Returned /\ KindOf(Self) \notin Valued

LeavesWith(o) ==
  /\ stack' = Returning(o)
  /\ KindOf(Self) \in Valued
  /\ KindOf(Self) = "condition" => o.type = "TEMPORARY"
  /\ Fresh(o)

StackStep ==
  \/ /\ stack # << >>
     /\ \/ \E self \in Activation, c \in Child : Enters(self, c)
        \/ \E self \in Activation : Stays(self)
        \/ Leaves
        \/ \E o \in Operand : LeavesWith(o)
  \/ UNCHANGED stack

(* A declaration is never taken back. *)
KeepsDeclared ==
  \A x \in Names : declared[x] # 0 => declared'[x] # 0

-----------------------------------------------------------------------------
(* The activation that runs. *)
LEMMA SelfFacts ==
  ASSUME FrameInv, stack # << >>
  PROVE  /\ Top \in Nat /\ Top >= 1 /\ Top = Len(stack)
         /\ DOMAIN stack = 1..Top /\ Top \in 1..Len(stack)
         /\ stack \in Seq(Activation)
         /\ Self \in Activation /\ stack[Top] = Self
         /\ Self.node \in DOMAIN nodes
         /\ Fit(Self, Len(Self.opds))
         /\ Self.opds \in Seq(Operand) /\ Len(Self.opds) \in Nat
         /\ Self.step \in Nat
         /\ Kids = KidsOf(Self)
<1>1. stack \in Seq(Activation) /\ Top = Len(stack)
  BY DEF FrameInv, TypeOK, Top
<1>2. Top \in Nat /\ Top >= 1 /\ DOMAIN stack = 1..Top
  BY <1>1, EmptySeq, LenProperties
<1>3. Self \in Activation /\ stack[Top] = Self
  BY <1>1, <1>2, ElementOfSeq DEF Self
<1>4. Self.opds \in Seq(Operand) /\ Len(Self.opds) \in Nat /\ Self.step \in Nat
  BY <1>3, LenProperties DEF Activation
<1>5. Operands(Top) = Len(Self.opds)
  BY <1>2, <1>3, <1>4 DEF Operands
<1>6. Self.node \in DOMAIN nodes /\ Fit(Self, Len(Self.opds))
  BY <1>2, <1>3, <1>5 DEF FrameInv, FramesFit
<1> QED
  BY <1>1, <1>2, <1>3, <1>4, <1>6 DEF Kids, KidsOf

(* The tree is one that can be analysed. *)
LEMMA TreeFacts ==
  ASSUME nodes \in Trees
  PROVE  /\ nodes \in Seq(Node) /\ Analysable(nodes)
         /\ DOMAIN nodes = 1..Len(nodes) /\ Len(nodes) \in Nat
         /\ \A n \in DOMAIN nodes :
              /\ nodes[n] \in Node /\ nodes[n].nt \in NonTerminals
              /\ nodes[n].children \in Seq(Child)
              /\ Readable(nodes[n])
<1>1. nodes \in Seq(Node) /\ Analysable(nodes)
  BY SemanterAssumption
<1>2. DOMAIN nodes = 1..Len(nodes) /\ Len(nodes) \in Nat
  BY <1>1, LenProperties
<1>3. \A n \in DOMAIN nodes : nodes[n] \in Node
  BY <1>1, <1>2, ElementOfSeq
<1> QED
  BY <1>1, <1>2, <1>3 DEF Node, Analysable

(* A child in the tree is a node of the kind that its link says. *)
LEMMA ChildFacts ==
  ASSUME nodes \in Trees, NEW n \in DOMAIN nodes,
         NEW i \in DOMAIN nodes[n].children
  PROVE  LET c == nodes[n].children[i]
         IN /\ c \in Child /\ c.at \in Nat
            /\ c.type \in NonTerminals =>
                 c.at \in DOMAIN nodes /\ nodes[c.at].nt = c.type
            /\ c.type = "IDENTIFIER" => c.attr \in Names \cup {NULL}
            /\ c.type = "IDENTIFIER" /\ nodes[n].nt # "input" => c.attr \in Names
            /\ c.type = "LITERAL" => c.attr \in Literals \cup {NULL}
<1> DEFINE c == nodes[n].children[i]
<1>1. nodes[n].children \in Seq(Child) /\ Analysable(nodes)
  BY TreeFacts
<1>2. c \in Child
  BY <1>1, ElementOfSeq, LenProperties
<1>3. Follows(nodes, nodes[n].nt, c)
  BY <1>1 DEF Analysable
<1> QED
  BY <1>2, <1>3 DEF Follows, Child

(* What is known of a child by its position. *)
LEMMA HasKid ==
  ASSUME NEW node \in Node, NEW i \in Nat, NEW kinds, Has(Kinds(node), i, kinds)
  PROVE  i \in DOMAIN node.children /\ node.children[i].type \in kinds
<1>1. node.children \in Seq(Child)
  BY DEF Node
<1>2. DOMAIN node.children = 1..Len(node.children)
  BY <1>1, LenProperties
<1>3. DOMAIN Kinds(node) = 1..Len(node.children)
  BY DEF Kinds
<1> QED
  BY <1>2, <1>3 DEF Has, Kinds

-----------------------------------------------------------------------------
(* The stack after each kind of step. *)
LEMMA EnterShape ==
  ASSUME FrameInv, stack # << >>,
         NEW self \in Activation, NEW c \in Child, stack' = Calling(self, c)
  PROVE  /\ stack' \in Seq(Activation) /\ stack' # << >>
         /\ Top' = Top + 1 /\ DOMAIN stack' = 1..(Top + 1)
         /\ \A d \in 1..(Top - 1) : stack'[d] = stack[d]
         /\ stack'[Top] = self
         /\ stack'[Top + 1] = Begin(c.at)
<1>1. /\ Top \in Nat /\ Top >= 1 /\ Top = Len(stack) /\ DOMAIN stack = 1..Top
      /\ stack \in Seq(Activation)
  BY SelfFacts
<1> DEFINE new == Begin(c.at)
           base == [stack EXCEPT ![Top] = self]
<1>2. new \in Activation
  BY EmptySeq DEF Begin, Activation, Child
<1>3. stack' = Append(base, new)
  BY DEF Calling
<1>4. /\ base \in Seq(Activation) /\ Len(base) = Top
      /\ \A d \in 1..Top : base[d] = IF d = Top THEN self ELSE stack[d]
  BY <1>1, ExceptSeq
<1> HIDE DEF new, base
<1>5. /\ stack' \in Seq(Activation) /\ Len(stack') = Top + 1
      /\ \A d \in 1..Top : stack'[d] = base[d]
      /\ stack'[Top + 1] = new
  BY <1>1, <1>2, <1>3, <1>4, AppendProperties
<1>6. DOMAIN stack' = 1..(Top + 1) /\ stack' # << >>
  BY <1>1, <1>5, LenProperties, EmptySeq
<1>7. Top' = Top + 1
  BY <1>5 DEF Top
<1> QED
  BY <1>1, <1>4, <1>5, <1>6, <1>7 DEF new

(* The function that runs has replaced its activation. *)
LEMMA StayShape ==
  ASSUME FrameInv, stack # << >>,
         NEW self \in Activation, stack' = Stepping(self)
  PROVE  /\ stack' \in Seq(Activation) /\ stack' # << >>
         /\ Top' = Top /\ DOMAIN stack' = 1..Top
         /\ \A d \in 1..(Top - 1) : stack'[d] = stack[d]
         /\ stack'[Top] = self
<1>1. /\ Top \in Nat /\ Top >= 1 /\ Top = Len(stack) /\ DOMAIN stack = 1..Top
      /\ stack \in Seq(Activation)
  BY SelfFacts
<1>2. stack' = [stack EXCEPT ![Top] = self]
  BY DEF Stepping
<1>3. /\ stack' \in Seq(Activation) /\ Len(stack') = Top
      /\ \A d \in 1..Top : stack'[d] = IF d = Top THEN self ELSE stack[d]
  BY <1>1, <1>2, ExceptSeq
<1>4. DOMAIN stack' = 1..Top /\ stack' # << >>
  BY <1>1, <1>3, LenProperties, EmptySeq
<1>5. Top' = Top
  BY <1>3 DEF Top
<1> QED
  BY <1>1, <1>3, <1>4, <1>5

(* The stack without the function that runs. *)
LEMMA LeaveShape ==
  ASSUME FrameInv, stack # << >>
  PROVE  /\ Returned \in Seq(Activation)
         /\ Len(Returned) = Top - 1 /\ DOMAIN Returned = 1..(Top - 1)
         /\ \A d \in 1..(Top - 1) : Returned[d] = stack[d]
<1>1. /\ Top \in Nat /\ Top >= 1 /\ Top = Len(stack)
      /\ stack \in Seq(Activation)
  BY SelfFacts
<1>2. \A d \in 1..(Top - 1) : stack[d] \in Activation
  BY <1>1, ElementOfSeq
<1>3. /\ Returned \in Seq(Activation) /\ Len(Returned) = Top - 1
      /\ \A d \in 1..(Top - 1) : Returned[d] = stack[d]
  BY <1>1, <1>2, SubSeqProperties DEF Returned
<1>4. DOMAIN Returned = 1..(Top - 1)
  BY <1>3, LenProperties
<1> QED
  BY <1>3, <1>4

(* The caller has its callee's operand on top of its own. *)
LEMMA LeaveWithShape ==
  ASSUME FrameInv, stack # << >>, NEW o \in Operand, stack' = Returning(o),
         KindOf(Self) \in Valued
  PROVE  /\ stack' \in Seq(Activation) /\ stack' # << >>
         /\ Top >= 2 /\ Top' = Top - 1 /\ DOMAIN stack' = 1..(Top - 1)
         /\ \A d \in 1..(Top - 2) : stack'[d] = stack[d]
         /\ stack[Top - 1] \in Activation
         /\ stack'[Top - 1].opds = Append(stack[Top - 1].opds, o)
         /\ stack[Top - 1].opds \in Seq(Operand)
         /\ Len(stack'[Top - 1].opds) = Len(stack[Top - 1].opds) + 1
         /\ stack'[Top - 1].node = stack[Top - 1].node
         /\ stack'[Top - 1].step = stack[Top - 1].step
         /\ stack'[Top - 1].ptrs = stack[Top - 1].ptrs
         /\ stack'[Top - 1].start = stack[Top - 1].start
<1>1. /\ Top \in Nat /\ Top >= 1 /\ Top = Len(stack) /\ stack[Top] = Self
      /\ stack \in Seq(Activation)
  BY SelfFacts
<1>2. Top >= 2
  <2>1. KindOf(stack[1]) = "source"
    BY DEF FrameInv, RootAtBottom
  <2> QED
    BY <1>1, <2>1 DEF Valued
<1>3. /\ Returned \in Seq(Activation)
      /\ Len(Returned) = Top - 1 /\ DOMAIN Returned = 1..(Top - 1)
      /\ \A d \in 1..(Top - 1) : Returned[d] = stack[d]
  BY LeaveShape
<1> DEFINE a == stack[Top - 1]
           b == [a EXCEPT !.opds = Append(a.opds, o)]
<1>4. a \in Activation
  BY <1>1, <1>2, ElementOfSeq
<1>5. a.opds \in Seq(Operand)
  BY <1>4 DEF Activation
<1>6. /\ Append(a.opds, o) \in Seq(Operand)
      /\ Len(Append(a.opds, o)) = Len(a.opds) + 1
  BY <1>5, AppendProperties
<1>7. /\ b \in Activation /\ b.opds = Append(a.opds, o)
      /\ b.node = a.node /\ b.step = a.step
      /\ b.ptrs = a.ptrs /\ b.start = a.start
  BY <1>4, <1>6 DEF Activation
<1>8. stack' = [Returned EXCEPT ![Top - 1] = b]
  <2>1. Returned[Top - 1] = a
    BY <1>1, <1>2, <1>3
  <2> QED
    BY <2>1 DEF Returning
<1> HIDE DEF b
<1>9. /\ stack' \in Seq(Activation) /\ Len(stack') = Top - 1
      /\ \A d \in 1..(Top - 1) : stack'[d] = IF d = Top - 1 THEN b ELSE Returned[d]
  BY <1>1, <1>2, <1>3, <1>7, <1>8, ExceptSeq
<1>10. DOMAIN stack' = 1..(Top - 1) /\ stack' # << >>
  BY <1>1, <1>2, <1>9, LenProperties, EmptySeq
<1>11. Top' = Top - 1
  BY <1>9 DEF Top
<1>12. stack'[Top - 1] = b /\ \A d \in 1..(Top - 2) : stack'[d] = stack[d]
  BY <1>1, <1>2, <1>3, <1>9
<1> QED
  BY <1>2, <1>4, <1>5, <1>6, <1>7, <1>9, <1>10, <1>11, <1>12

-----------------------------------------------------------------------------
(* The tree does not change, and with it what an activation must fit. *)
LEMMA SameTree ==
  ASSUME nodes' = nodes
  PROVE  \A a, n : /\ KindOf(a)' = KindOf(a) /\ KidsOf(a)' = KidsOf(a)
                   /\ Fit(a, n)' = Fit(a, n) /\ Live(a)' = Live(a)
BY DEF KindOf, KidsOf, Fit, TestFit, ChainFit, Live

(* A function that begins is at its first step and has no operand. *)
LEMMA BeginFits ==
  ASSUME nodes \in Trees, NEW n \in DOMAIN nodes
  PROVE  Fit(Begin(n), 0) /\ KindOf(Begin(n)) = nodes[n].nt
<1>1. Len(nodes[n].children) \in Nat
  BY TreeFacts, LenProperties
<1>2. Begin(n).node = n /\ Begin(n).step = 1 /\ Begin(n).ptrs = << >>
  BY DEF Begin
<1>3. Len(Begin(n).ptrs) = 0
  BY <1>2, EmptySeq
<1> QED
  BY <1>1, <1>2, <1>3 DEF Fit, TestFit, ChainFit, KindOf, KidsOf

(* The operands of a caller are counted before it has them. *)
LEMMA OperandsBelow ==
  ASSUME FrameInv, stack # << >>, nodes' = nodes, Top' \in Nat,
         NEW d \in DOMAIN stack, d < Top, d < Top',
         stack'[d].opds = stack[d].opds,
         stack'[d + 1].node = stack[d + 1].node
  PROVE  Operands(d)' = Operands(d)
BY DEF Operands, Yields, KindOf

(* The variable of an assignment is known. *)
LEMMA AssignedAttr ==
  ASSUME nodes \in Trees, NEW n \in DOMAIN nodes, nodes[n].nt = "assign"
  PROVE  nodes[n].children[1].attr \in Names
<1>1. Readable(nodes[n]) /\ nodes[n] \in Node
  BY TreeFacts
<1>2. Has(Kinds(nodes[n]), 1, {"IDENTIFIER"})
  BY <1>1 DEF Readable
<1>3. 1 \in DOMAIN nodes[n].children /\ nodes[n].children[1].type = "IDENTIFIER"
  BY <1>1, <1>2, HasKid
<1> QED
  BY <1>3, ChildFacts

(* Its symbol is one of the names, also when recovery made the node. *)
LEMMA AssignedName ==
  ASSUME FrameInv, NEW d \in DOMAIN stack, KindOf(stack[d]) = "assign"
  PROVE  KidsOf(stack[d])[1].attr \in Names
<1>1. stack[d].node \in DOMAIN nodes /\ nodes \in Trees
  BY DEF FrameInv, FramesFit
<1>2. KidsOf(stack[d])[1].attr \in Names
  BY <1>1, AssignedAttr DEF KindOf, KidsOf
<1> QED
  BY <1>2

(* A call keeps the invariant of the functions on the stack. *)
LEMMA EnterFrames ==
  ASSUME FrameInv, nodes' = nodes, KeepsDeclared, stack # << >>,
         NEW self \in Activation, NEW c \in Child, Enters(self, c)
  PROVE  /\ FramesFit' /\ RootAtBottom' /\ AssignsDeclared'
         /\ TestsWaitForConditions' /\ NoneKept'
<1>1. /\ Top \in Nat /\ Top >= 1 /\ DOMAIN stack = 1..Top /\ stack[Top] = Self
      /\ Self.node \in DOMAIN nodes /\ Kids = KidsOf(Self)
  BY SelfFacts
<1>2. /\ Top' = Top + 1 /\ DOMAIN stack' = 1..(Top + 1)
      /\ \A d \in 1..(Top - 1) : stack'[d] = stack[d]
      /\ stack'[Top] = self
      /\ stack'[Top + 1] = Begin(c.at)
  BY EnterShape DEF Enters
<1>3. self.node = Self.node /\ self.opds = Self.opds /\ c.at \in DOMAIN nodes
  BY DEF Enters
<1>4. Begin(c.at).node = c.at /\ Begin(c.at).opds = << >>
  BY DEF Begin
<1>5. \A d \in 1..Top : KindOf(stack'[d]) = KindOf(stack[d])
  BY <1>1, <1>2, <1>3 DEF KindOf
<1>6. KindOf(stack'[Top + 1]) = nodes[c.at].nt
  BY <1>2, <1>4 DEF KindOf
<1>7. FramesFit'
  <2> SUFFICES ASSUME NEW d \in 1..(Top + 1)
               PROVE  stack'[d].node \in DOMAIN nodes /\ Fit(stack[d], Operands(d))'
    BY <1>2 DEF FramesFit
  <2>1. CASE d < Top
    <3>1. d \in DOMAIN stack /\ stack'[d] = stack[d]
      BY <1>1, <1>2, <2>1
    <3>2. stack'[d + 1].node = stack[d + 1].node
      BY <1>1, <1>2, <1>3, <2>1
    <3>3. Operands(d)' = Operands(d)
      BY <1>1, <1>2, <2>1, <3>1, <3>2, OperandsBelow
    <3>4. stack[d].node \in DOMAIN nodes /\ Fit(stack[d], Operands(d))
      BY <3>1 DEF FrameInv, FramesFit
    <3> QED
      BY <3>1, <3>3, <3>4, SameTree
  <2>2. CASE d = Top
    <3>1. Operands(d)' = Len(self.opds) + Yields(nodes[c.at].nt)
      <4>1. stack'[d] = self /\ d < Top'
        BY <1>1, <1>2, <2>2
      <4>2. KindOf(stack[d + 1])' = nodes[c.at].nt
        BY <1>6, <2>2, SameTree
      <4> QED
        BY <4>1, <4>2 DEF Operands, Yields
    <3>2. Fit(self, Len(self.opds) + Yields(nodes[c.at].nt))
      BY DEF Enters
    <3> QED
      BY <1>1, <1>2, <1>3, <2>2, <3>1, <3>2, SameTree
  <2>3. CASE d = Top + 1
    <3>1. Operands(d)' = 0
      BY <1>1, <1>2, <1>4, <2>3, EmptySeq DEF Operands
    <3>2. Fit(Begin(c.at), 0)
      BY <1>3, BeginFits DEF FrameInv
    <3> QED
      BY <1>1, <1>2, <1>3, <1>4, <2>3, <3>1, <3>2, SameTree
  <2> QED
    BY <1>1, <2>1, <2>2, <2>3
<1>8. RootAtBottom'
  <2>1. KindOf(stack[1]) = "source"
    BY DEF FrameInv, RootAtBottom
  <2> QED
    BY <1>1, <1>5, <2>1, SameTree DEF RootAtBottom
<1>9. AssignsDeclared'
  <2> SUFFICES ASSUME NEW d \in 1..(Top + 1),
                      KindOf(stack'[d]) = "assign", stack'[d].step = 2
               PROVE  Usable(KidsOf(stack[d])[1])'
    BY <1>2, SameTree DEF AssignsDeclared
  <2>1. d # Top + 1
    BY <1>1, <1>2 DEF Begin
  <2>2. Usable(KidsOf(stack'[d])[1])
    <3>1. CASE d < Top
      <4>1. d \in DOMAIN stack /\ stack'[d] = stack[d]
        BY <1>1, <1>2, <3>1
      <4> QED
        BY <1>1, <1>5, <4>1 DEF FrameInv, AssignsDeclared
    <3>2. CASE d = Top
      <4>1. KindOf(Self) = "assign"
        BY <1>1, <1>5, <3>2
      <4>2. Usable(KidsOf(Self)[1])
        BY <1>1, <4>1 DEF Enters
      <4>3. KidsOf(stack'[d]) = KidsOf(Self)
        BY <1>2, <1>3, <3>2 DEF KidsOf
      <4> QED
        BY <4>2, <4>3
    <3> QED
      BY <1>1, <2>1, <3>1, <3>2
  <2>3. KidsOf(stack'[d])[1].attr \in Names
    <3>1. /\ stack'[d].node \in DOMAIN nodes
          /\ nodes[stack'[d].node].nt = "assign"
      BY <1>2, <1>7 DEF FramesFit, KindOf
    <3> QED
      BY <3>1, AssignedAttr DEF KidsOf, FrameInv
  <2> QED
    BY <2>2, <2>3 DEF Usable, KeepsDeclared, KidsOf
<1>10. TestsWaitForConditions'
  <2> SUFFICES ASSUME NEW d \in 1..(Top + 1), d < Top + 1,
                      KindOf(stack'[d]) \in Tests,
                      KindOf(stack'[d + 1]) \in Valued
               PROVE  KindOf(stack'[d + 1]) = "condition"
    BY <1>2, SameTree DEF TestsWaitForConditions
  <2>1. CASE d < Top
    <3>1. d \in DOMAIN stack /\ d + 1 \in 1..Top /\ d \in 1..Top
      BY <1>1, <2>1
    <3> QED
      BY <1>5, <2>1, <3>1 DEF FrameInv, TestsWaitForConditions
  <2>2. CASE d = Top
    BY <1>1, <1>5, <1>6, <2>2 DEF Enters
  <2> QED
    BY <1>1, <2>1, <2>2
<1>11. NoneKept'
  <2> SUFFICES ASSUME NEW d \in 1..(Top + 1), NEW e \in 1..(Top + 1),
                      d < e, KindOf(stack'[e]) \notin Valued
               PROVE  ~Live(stack'[d])
    BY <1>2, SameTree DEF NoneKept
  <2>2. CASE d < Top /\ KindOf(Self) \notin Valued
    <3>1. d \in DOMAIN stack /\ Top \in DOMAIN stack /\ stack'[d] = stack[d]
      BY <1>1, <1>2, <2>2
    <3> QED
      BY <1>1, <2>2, <3>1 DEF FrameInv, NoneKept
  <2>3. CASE d < Top /\ e < Top
    <3>1. d \in DOMAIN stack /\ e \in DOMAIN stack /\ stack'[d] = stack[d]
          /\ KindOf(stack[e]) \notin Valued
      BY <1>1, <1>2, <1>5, <2>3
    <3> QED
      BY <2>3, <3>1 DEF FrameInv, NoneKept
  <2>4. CASE e = Top
    BY <1>1, <1>5, <2>2, <2>4
  <2>5. CASE e = Top + 1 /\ KindOf(Self) \in Valued
    BY <1>6, <2>5 DEF Enters
  <2>6. CASE e = Top + 1 /\ d = Top
    BY <1>2, <1>6, <2>6 DEF Enters
  <2> QED
    BY <1>1, <2>2, <2>3, <2>4, <2>5, <2>6
<1> QED
  BY <1>7, <1>8, <1>9, <1>10, <1>11

(* What an activation must fit does not depend on its operands. *)
LEMMA SameFit ==
  ASSUME NEW a, NEW b, a.node = b.node, a.step = b.step, a.ptrs = b.ptrs
  PROVE  /\ KindOf(a) = KindOf(b) /\ KidsOf(a) = KidsOf(b)
         /\ \A n : Fit(a, n) = Fit(b, n)
         /\ Live(a) = Live(b)
BY DEF KindOf, KidsOf, Fit, TestFit, ChainFit, Live

(* A step within a function keeps it. *)
LEMMA StayFrames ==
  ASSUME FrameInv, nodes' = nodes, KeepsDeclared, stack # << >>,
         NEW self \in Activation, Stays(self)
  PROVE  /\ FramesFit' /\ RootAtBottom' /\ AssignsDeclared'
         /\ TestsWaitForConditions' /\ NoneKept'
<1>1. /\ Top \in Nat /\ Top >= 1 /\ DOMAIN stack = 1..Top /\ stack[Top] = Self
      /\ Self.node \in DOMAIN nodes /\ Kids = KidsOf(Self)
  BY SelfFacts
<1>2. /\ Top' = Top /\ DOMAIN stack' = 1..Top
      /\ \A d \in 1..(Top - 1) : stack'[d] = stack[d]
      /\ stack'[Top] = self
  BY StayShape DEF Stays
<1>3. self.node = Self.node /\ Len(self.opds) \in Nat
  BY LenProperties DEF Stays, Activation
<1>4. \A d \in 1..Top : KindOf(stack'[d]) = KindOf(stack[d])
  BY <1>1, <1>2, <1>3 DEF KindOf
<1>5. FramesFit'
  <2> SUFFICES ASSUME NEW d \in 1..Top
               PROVE  stack'[d].node \in DOMAIN nodes /\ Fit(stack[d], Operands(d))'
    BY <1>2 DEF FramesFit
  <2>1. CASE d < Top
    <3>1. d \in DOMAIN stack /\ stack'[d] = stack[d]
      BY <1>1, <1>2, <2>1
    <3>2. stack'[d + 1].node = stack[d + 1].node
      BY <1>1, <1>2, <1>3, <2>1
    <3>3. Operands(d)' = Operands(d)
      BY <1>1, <1>2, <2>1, <3>1, <3>2, OperandsBelow
    <3>4. stack[d].node \in DOMAIN nodes /\ Fit(stack[d], Operands(d))
      BY <3>1 DEF FrameInv, FramesFit
    <3> QED
      BY <3>1, <3>3, <3>4, SameTree
  <2>2. CASE d = Top
    <3>1. Operands(d)' = Len(self.opds)
      BY <1>1, <1>2, <1>3, <2>2 DEF Operands
    <3> QED
      BY <1>1, <1>2, <1>3, <2>2, <3>1, SameTree DEF Stays
  <2> QED
    BY <1>1, <2>1, <2>2
<1>6. RootAtBottom'
  <2>1. KindOf(stack[1]) = "source"
    BY DEF FrameInv, RootAtBottom
  <2> QED
    BY <1>1, <1>4, <2>1, SameTree DEF RootAtBottom
<1>7. AssignsDeclared'
  <2> SUFFICES ASSUME NEW d \in 1..Top,
                      KindOf(stack'[d]) = "assign", stack'[d].step = 2
               PROVE  Usable(KidsOf(stack[d])[1])'
    BY <1>2, SameTree DEF AssignsDeclared
  <2>1. d # Top
    BY <1>1, <1>4 DEF Stays
  <2>2. d \in DOMAIN stack /\ stack'[d] = stack[d]
    BY <1>1, <1>2, <2>1
  <2>3. Usable(KidsOf(stack[d])[1])
    BY <1>4, <2>2 DEF FrameInv, AssignsDeclared
  <2>4. KidsOf(stack[d])[1].attr \in Names
    BY <1>4, <2>2, AssignedName
  <2> QED
    BY <2>2, <2>3, <2>4 DEF Usable, KeepsDeclared, KidsOf
<1>8. TestsWaitForConditions'
  <2> SUFFICES ASSUME NEW d \in 1..Top, d < Top,
                      KindOf(stack'[d]) \in Tests,
                      KindOf(stack'[d + 1]) \in Valued
               PROVE  KindOf(stack'[d + 1]) = "condition"
    BY <1>2, SameTree DEF TestsWaitForConditions
  <2>1. d \in DOMAIN stack /\ d + 1 \in 1..Top
    BY <1>1
  <2> QED
    BY <1>4, <2>1 DEF FrameInv, TestsWaitForConditions
<1>9. NoneKept'
  <2> SUFFICES ASSUME NEW d \in 1..Top, NEW e \in 1..Top,
                      d < e, KindOf(stack'[e]) \notin Valued
               PROVE  ~Live(stack'[d])
    BY <1>2, SameTree DEF NoneKept
  <2>1. d \in DOMAIN stack /\ e \in DOMAIN stack /\ stack'[d] = stack[d]
    BY <1>1, <1>2
  <2> QED
    BY <1>4, <2>1 DEF FrameInv, NoneKept
<1> QED
  BY <1>5, <1>6, <1>7, <1>8, <1>9

(* The callee has returned to its caller, which has its operand if any. *)
LEMMA BackFrames ==
  ASSUME FrameInv, nodes' = nodes, KeepsDeclared, stack # << >>,
         Top' = Top - 1, DOMAIN stack' = 1..(Top - 1),
         \A d \in 1..(Top - 1) :
           /\ stack'[d].node = stack[d].node /\ stack'[d].step = stack[d].step
           /\ stack'[d].ptrs = stack[d].ptrs
           /\ Len(stack'[d].opds) = Len(stack[d].opds)
                + IF d = Top - 1 THEN Yields(KindOf(Self)) ELSE 0
  PROVE  /\ FramesFit' /\ RootAtBottom' /\ AssignsDeclared'
         /\ TestsWaitForConditions' /\ NoneKept'
<1>1. /\ Top \in Nat /\ Top >= 1 /\ DOMAIN stack = 1..Top /\ stack[Top] = Self
      /\ stack \in Seq(Activation)
  BY SelfFacts
<1>2. \A d \in 1..(Top - 1) :
        /\ KindOf(stack'[d]) = KindOf(stack[d])
        /\ KidsOf(stack'[d]) = KidsOf(stack[d])
        /\ \A n : Fit(stack'[d], n) = Fit(stack[d], n)
        /\ Live(stack'[d]) = Live(stack[d])
  BY SameFit
<1>3. \A d \in 1..(Top - 1) :
        /\ stack'[d].node = stack[d].node /\ stack'[d].step = stack[d].step
        /\ Len(stack'[d].opds) = Len(stack[d].opds)
             + IF d = Top - 1 THEN Yields(KindOf(Self)) ELSE 0
  OBVIOUS
<1>4. Yields(KindOf(Self)) \in Nat
  BY DEF Yields
<1>5. FramesFit'
  <2> SUFFICES ASSUME NEW d \in 1..(Top - 1)
               PROVE  stack'[d].node \in DOMAIN nodes /\ Fit(stack[d], Operands(d))'
    BY DEF FramesFit
  <2>1. stack[d].node \in DOMAIN nodes /\ Fit(stack[d], Operands(d))
    BY <1>1 DEF FrameInv, FramesFit
  <2>2. Len(stack[d].opds) \in Nat
    <3>1. stack[d] \in Activation
      BY <1>1, ElementOfSeq DEF Top
    <3> QED
      BY <3>1, LenProperties DEF Activation
  <2>3. Operands(d)' = Operands(d)
    <3>1. CASE d = Top - 1
      <4>1. Operands(d) = Len(stack[d].opds) + Yields(KindOf(Self))
        BY <1>1, <3>1 DEF Operands
      <4>2. Operands(d)' = Len(stack'[d].opds)
        BY <1>1, <1>3, <1>4, <2>2, <3>1 DEF Operands
      <4> QED
        BY <1>3, <3>1, <4>1, <4>2
    <3>2. CASE d < Top - 1
      <4>1. Len(stack'[d].opds) = Len(stack[d].opds)
        BY <1>1, <1>3, <2>2, <3>2
      <4>2. KindOf(stack[d + 1])' = KindOf(stack[d + 1])
        BY <1>1, <1>3, <3>2 DEF KindOf
      <4>3. d < Top /\ d < Top'
        BY <1>1, <3>2
      <4> QED
        BY <4>1, <4>2, <4>3 DEF Operands, Yields
    <3> QED
      BY <1>1, <3>1, <3>2
  <2> QED
    BY <1>2, <1>3, <2>1, <2>3, SameTree
<1>6. RootAtBottom'
  <2>1. KindOf(stack[1]) = "source"
    BY DEF FrameInv, RootAtBottom
  <2>2. stack' # << >> => 1 \in 1..(Top - 1)
    BY <1>1, EmptySeq
  <2> QED
    BY <1>2, <2>1, <2>2, SameTree DEF RootAtBottom
<1>7. AssignsDeclared'
  <2> SUFFICES ASSUME NEW d \in 1..(Top - 1),
                      KindOf(stack'[d]) = "assign", stack'[d].step = 2
               PROVE  Usable(KidsOf(stack[d])[1])'
    BY SameTree DEF AssignsDeclared
  <2>1. d \in DOMAIN stack
    BY <1>1
  <2>2. Usable(KidsOf(stack[d])[1])
    BY <1>2, <1>3, <2>1 DEF FrameInv, AssignsDeclared
  <2>3. KidsOf(stack[d])[1].attr \in Names
    BY <1>2, <2>1, AssignedName
  <2> QED
    BY <1>3, <2>2, <2>3 DEF Usable, KeepsDeclared, KidsOf
<1>8. TestsWaitForConditions'
  <2> SUFFICES ASSUME NEW d \in 1..(Top - 1), d < Top - 1,
                      KindOf(stack'[d]) \in Tests,
                      KindOf(stack'[d + 1]) \in Valued
               PROVE  KindOf(stack'[d + 1]) = "condition"
    BY SameTree DEF TestsWaitForConditions
  <2>1. d \in DOMAIN stack /\ d + 1 \in 1..(Top - 1) /\ d < Top
    BY <1>1
  <2> QED
    BY <1>2, <2>1 DEF FrameInv, TestsWaitForConditions
<1>9. NoneKept'
  <2> SUFFICES ASSUME NEW d \in 1..(Top - 1), NEW e \in 1..(Top - 1),
                      d < e, KindOf(stack'[e]) \notin Valued
               PROVE  ~Live(stack'[d])
    BY SameTree DEF NoneKept
  <2>1. d \in DOMAIN stack /\ e \in DOMAIN stack
    BY <1>1
  <2> QED
    BY <1>2, <2>1 DEF FrameInv, NoneKept
<1> QED
  BY <1>5, <1>6, <1>7, <1>8, <1>9

(* Whatever a step does to the stack keeps it. *)
LEMMA StackFrames ==
  ASSUME FrameInv, nodes' = nodes, KeepsDeclared, StackStep
  PROVE  /\ FramesFit' /\ RootAtBottom' /\ AssignsDeclared'
         /\ TestsWaitForConditions' /\ NoneKept' /\ stack' \in Seq(Activation)
<1>1. CASE stack # << >> /\ \E self \in Activation, c \in Child : Enters(self, c)
  BY <1>1, EnterFrames, EnterShape DEF Enters
<1>2. CASE stack # << >> /\ \E self \in Activation : Stays(self)
  BY <1>2, StayFrames, StayShape DEF Stays
<1>3. CASE stack # << >> /\ Leaves
  <2>1. stack' = Returned /\ KindOf(Self) \notin Valued
    BY <1>3 DEF Leaves
  <2>2. /\ Returned \in Seq(Activation) /\ Len(Returned) = Top - 1
        /\ DOMAIN Returned = 1..(Top - 1)
        /\ \A d \in 1..(Top - 1) : Returned[d] = stack[d]
        /\ Top \in Nat /\ Top = Len(stack) /\ stack \in Seq(Activation)
    BY <1>3, LeaveShape, SelfFacts
  <2>3. \A d \in 1..(Top - 1) : Len(stack[d].opds) \in Nat
    <3>1. \A d \in 1..(Top - 1) : stack[d] \in Activation
      BY <2>2, ElementOfSeq
    <3> QED
      BY <3>1, LenProperties DEF Activation
  <2>4. Top' = Top - 1
    BY <2>1, <2>2 DEF Top
  <2>5. Yields(KindOf(Self)) = 0
    BY <2>1 DEF Yields
  <2> QED
    BY <1>3, <2>1, <2>2, <2>3, <2>4, <2>5, BackFrames
<1>4. CASE stack # << >> /\ \E o \in Operand : LeavesWith(o)
  <2>1. PICK o \in Operand : stack' = Returning(o) /\ KindOf(Self) \in Valued
    BY <1>4 DEF LeavesWith
  <2>2. /\ Top \in Nat /\ Top = Len(stack) /\ stack \in Seq(Activation)
    BY <1>4, SelfFacts
  <2>3. \A d \in 1..(Top - 1) : Len(stack[d].opds) \in Nat
    <3>1. \A d \in 1..(Top - 1) : stack[d] \in Activation
      BY <2>2, ElementOfSeq
    <3> QED
      BY <3>1, LenProperties DEF Activation
  <2>4. Yields(KindOf(Self)) = 1
    BY <2>1 DEF Yields
  <2>5. \A d \in 1..(Top - 1) :
           /\ stack'[d].node = stack[d].node /\ stack'[d].step = stack[d].step
           /\ stack'[d].ptrs = stack[d].ptrs
           /\ Len(stack'[d].opds) = Len(stack[d].opds)
                + IF d = Top - 1 THEN Yields(KindOf(Self)) ELSE 0
    <3> SUFFICES ASSUME NEW d \in 1..(Top - 1)
        PROVE  /\ stack'[d].node = stack[d].node /\ stack'[d].step = stack[d].step
               /\ stack'[d].ptrs = stack[d].ptrs
               /\ Len(stack'[d].opds) = Len(stack[d].opds)
                    + IF d = Top - 1 THEN Yields(KindOf(Self)) ELSE 0
      OBVIOUS
    <3>1. CASE d = Top - 1
      BY <1>4, <2>1, <2>4, <3>1, LeaveWithShape
    <3>2. CASE d \in 1..(Top - 2)
      BY <1>4, <2>1, <2>2, <2>3, <3>2, LeaveWithShape
    <3> QED
      BY <2>2, <3>1, <3>2
  <2> QED
    BY <1>4, <2>1, <2>5, LeaveWithShape, BackFrames
<1>5. CASE UNCHANGED stack
  <2>1. \A d : Operands(d)' = Operands(d)
    BY <1>5, SameTree DEF Operands, Top
  <2>2. FramesFit'
    BY <1>5, <2>1, SameTree DEF FrameInv, FramesFit
  <2>3. RootAtBottom' /\ TestsWaitForConditions' /\ NoneKept'
    BY <1>5, SameTree DEF FrameInv, RootAtBottom, TestsWaitForConditions,
       NoneKept, Top
  <2>4. AssignsDeclared'
    <3> SUFFICES ASSUME NEW d \in DOMAIN stack,
                        KindOf(stack[d]) = "assign", stack[d].step = 2
                 PROVE  Usable(KidsOf(stack[d])[1])'
      BY <1>5, SameTree DEF AssignsDeclared
    <3>1. Usable(KidsOf(stack[d])[1])
      BY DEF FrameInv, AssignsDeclared
    <3>2. KidsOf(stack[d])[1].attr \in Names
      BY AssignedName
    <3> QED
      BY <1>5, <3>1, <3>2 DEF Usable, KeepsDeclared, KidsOf
  <2> QED
    BY <1>5, <2>2, <2>3, <2>4 DEF FrameInv, TypeOK
<1> QED
  BY <1>1, <1>2, <1>3, <1>4, <1>5 DEF StackStep

-----------------------------------------------------------------------------
(* What a step does to the code. *)

(* A statement goes on without the operands it was waiting for. *)
Settles ==
  /\ stack # << >> /\ KindOf(Self) \notin Valued
  /\ \/ Leaves
     \/ \E self \in Activation : Stays(self) /\ ~Live(self)
     \/ \E self \in Activation, c \in Child :
          Enters(self, c) /\ (~Live(self) \/ Len(self.opds) = 0)

(* A function is going to patch the instruction that is added. *)
Awaited == \E d \in DOMAIN stack' : Awaits(stack'[d], Len(instrs) + 1)

(* What may be added to the code. *)
Emits(i) ==
  /\ \A o \in Sources(i) : Held(o)
  /\ tmp_cnt' = IF Computes(i) THEN tmp_cnt + 1 ELSE tmp_cnt
  /\ Computes(i) => i.dest = Temporary(tmp_cnt)
  /\ i.op \in {"ASSIGN", "READ"} =>
       /\ i.dest.type = "SYMBOL"
       /\ i.dest.val \in Names /\ declared[i.dest.val] # 0
  /\ i.op = "WRITE" => i.dest = Unset
  /\ i.op \in Jumps => /\ i.dest.type = "LABEL" /\ i.dest.val \in {NULL} \cup Marks
                       /\ i.dest.val = NULL => Awaited
                       /\ Settles
  /\ i.op = "BRANCH" => i.src1.type = "TEMPORARY"

(* An instruction is added if any; a jump that is there may be patched. *)
CodeStep ==
  /\ block <= block'
  /\ \A k \in 1..Len(instrs) :
       /\ instrs'[k].op = instrs[k].op
       /\ instrs'[k].src1 = instrs[k].src1
       /\ instrs'[k].src2 = instrs[k].src2
       /\ \/ instrs'[k].dest = instrs[k].dest
          \/ /\ instrs[k].op \in Jumps
             /\ instrs'[k].dest = Label(Len(instrs')) /\ Settles
  /\ \/ Len(instrs') = Len(instrs) /\ tmp_cnt' = tmp_cnt
     \/ Len(instrs') = Len(instrs) + 1 /\ Emits(Added)

MemoryOK ==
  /\ instrs \in Seq(Instruction)
  /\ capacity \in Nat /\ Len(instrs) <= capacity
  /\ block \in Nat
  /\ tmp_cnt \in Nat

ErrorStep ==
  /\ declared' \in [Names -> Nat] /\ KeepsDeclared
  /\ errs' \in Seq(SemanticError)
  /\ errs' = << >> => errs = << >>

(* The jump that the function was going to patch is patched, unless the     *)
(* list has moved.                                                          *)
Patches ==
  \A k \in 1..Len(instrs) :
    stack # << >> /\ Awaits(Self, k) =>
      block' # 0 \/ instrs'[k].dest = Label(Len(instrs'))

AnalyserStep ==
  /\ nodes' = nodes
  /\ StackStep /\ CodeStep /\ MemoryOK' /\ ErrorStep

-----------------------------------------------------------------------------
(* The parts of a step. *)
LEMMA SameCode ==
  ASSUME FrameInv, UNCHANGED <<memory, tmp_cnt>>
  PROVE  CodeStep /\ MemoryOK'
BY DEF FrameInv, TypeOK, MemoryOK, memory, CodeStep

(* Nothing is declared and nothing reported. *)
LEMMA SameErrors ==
  ASSUME FrameInv, UNCHANGED <<declared, errs>>
  PROVE  ErrorStep
BY DEF FrameInv, TypeOK, ErrorStep, KeepsDeclared

(* A call of instruction_list_add. *)
LEMMA EnlargeRoom ==
  ASSUME FrameInv, Enlarge
  PROVE  /\ capacity' \in Nat /\ Len(instrs) + 1 <= capacity'
         /\ block' \in Nat /\ block <= block'
<1>1. /\ capacity \in Nat /\ Len(instrs) \in Nat /\ Len(instrs) <= capacity
      /\ block \in Nat /\ Growth \in Nat \ {0}
  BY SemanterAssumption, LenProperties DEF FrameInv, TypeOK
<1> QED
  BY <1>1 DEF Enlarge

(* The list after a call of instruction_list_add. *)
LEMMA AddedCode ==
  ASSUME FrameInv, NEW i \in Instruction, Add(i), tmp_cnt' \in Nat
  PROVE  /\ Len(instrs') = Len(instrs) + 1 /\ Added = i
         /\ \A k \in 1..Len(instrs) : instrs'[k] = instrs[k]
         /\ MemoryOK'
<1>1. instrs \in Seq(Instruction) /\ Len(instrs) \in Nat
  BY LenProperties DEF FrameInv, TypeOK
<1>2. instrs' = Append(instrs, i)
  BY DEF Add
<1>3. /\ instrs' \in Seq(Instruction) /\ Len(instrs') = Len(instrs) + 1
      /\ \A k \in 1..Len(instrs) : instrs'[k] = instrs[k]
      /\ instrs'[Len(instrs) + 1] = i
  BY <1>1, <1>2, AppendProperties
<1> QED
  BY <1>3, EnlargeRoom DEF Add, MemoryOK, Added

(* An instruction as Emits describes it is a step of the code. *)
LEMMA EmittedCode ==
  ASSUME FrameInv, NEW i \in Instruction, Add(i), Emits(i)
  PROVE  CodeStep /\ MemoryOK'
<1>1. tmp_cnt' \in Nat
  BY DEF Emits, FrameInv, TypeOK
<1>2. /\ Len(instrs') = Len(instrs) + 1 /\ Added = i
      /\ \A k \in 1..Len(instrs) : instrs'[k] = instrs[k]
      /\ MemoryOK'
  BY <1>1, AddedCode
<1> QED
  BY <1>2, EnlargeRoom DEF CodeStep, Add

(* What is held at the top of the stack. *)
LEMMA HeldHere ==
  ASSUME FrameInv, stack # << >>, Live(Self), NEW i \in 1..Len(Self.opds)
  PROVE  Self.opds[i] \in Operand /\ Held(Self.opds[i])
<1>1. /\ Self.opds \in Seq(Operand) /\ Top \in DOMAIN stack /\ stack[Top] = Self
  BY SelfFacts
<1>2. Self.opds[i] \in Operand /\ i \in DOMAIN Self.opds
  BY <1>1, ElementOfSeq, LenProperties
<1> QED
  BY <1>1, <1>2 DEF Held

(* The same of the children of the function that runs. *)
LEMMA Kid ==
  ASSUME FrameInv, stack # << >>, NEW i \in Nat, NEW kinds,
         Has(Kinds(nodes[Self.node]), i, kinds)
  PROVE  /\ i \in DOMAIN Kids /\ Kids[i].type \in kinds /\ Kids[i] \in Child
         /\ kinds \subseteq NonTerminals =>
              Kids[i].at \in DOMAIN nodes /\ nodes[Kids[i].at].nt = Kids[i].type
         /\ Kids[i].type = "IDENTIFIER" => Kids[i].attr \in Names \cup {NULL}
         /\ Kids[i].type = "IDENTIFIER" /\ KindOf(Self) # "input" =>
              Kids[i].attr \in Names
         /\ Kids[i].type = "LITERAL" => Kids[i].attr \in Literals \cup {NULL}
<1>1. Self.node \in DOMAIN nodes /\ nodes \in Trees /\ Kids = KidsOf(Self)
  BY SelfFacts DEF FrameInv
<1>2. nodes[Self.node] \in Node
  BY <1>1, TreeFacts
<1>3. i \in DOMAIN Kids /\ Kids[i].type \in kinds
  BY <1>2, HasKid DEF Kids
<1> QED
  BY <1>1, <1>3, ChildFacts DEF Kids, KindOf

(* An activation at another step. *)
LEMMA AtStep ==
  ASSUME NEW a \in Activation, NEW k \in Nat
  PROVE  LET b == [a EXCEPT !.step = k]
         IN /\ b \in Activation /\ b.node = a.node /\ b.step = k
            /\ b.opds = a.opds /\ b.ptrs = a.ptrs /\ b.start = a.start
BY DEF Activation

(* The activation that runs, one step later. *)
LEMMA OnwardFacts ==
  ASSUME FrameInv, stack # << >>
  PROVE  /\ Onward \in Activation /\ Onward.node = Self.node
         /\ Onward.opds = Self.opds /\ Onward.ptrs = Self.ptrs
         /\ KeepsPointers(Onward) /\ Onward.start = Self.start /\ Onward.step = Self.step + 1
         /\ KindOf(Onward) = KindOf(Self) /\ KidsOf(Onward) = KidsOf(Self)
<1>1. Self \in Activation /\ Self.step \in Nat
  BY SelfFacts
<1>2. Onward = [Self EXCEPT !.step = Self.step + 1]
  BY DEF Onward
<1> QED
  BY <1>1, <1>2, AtStep DEF KindOf, KidsOf, KeepsPointers

-----------------------------------------------------------------------------
(* The function that runs calls another for its child i. *)
LEMMA Descends ==
  ASSUME FrameInv, stack # << >>, NEW i \in Nat, NEW kinds \in SUBSET NonTerminals,
         Has(Kinds(nodes[Self.node]), i, kinds),
         NEW self \in Activation, self.node = Self.node, self.opds = Self.opds,
         stack' = Calling(self, Kids[i]),
         \A nt \in kinds : Fit(self, Len(self.opds) + Yields(nt)),
         KindOf(Self) \in Tests => \A nt \in kinds \cap Valued : nt = "condition",
         KindOf(Self) \in Valued \/ Live(self) => kinds \subseteq Valued,
         KindOf(Self) = "assign" => Usable(Kids[1]),
         Live(self) => Live(Self) \/ self.opds = << >>,
         KeepsPointers(self),
         \/ self.start = Self.start
         \/ /\ self.start = Len(instrs) /\ instrs' = instrs
            /\ KindOf(Self) \notin Valued /\ Len(self.opds) = 0
  PROVE  Enters(self, Kids[i]) /\ Kids[i] \in Child
<1> DEFINE c == Kids[i]
<1>1. /\ c \in Child /\ c.type \in kinds /\ c.at \in DOMAIN nodes
      /\ nodes[c.at].nt = c.type
  BY Kid
<1>2. nodes[c.at].nt \in kinds
  BY <1>1
<1> HIDE DEF c
<1> QED
  BY <1>1, <1>2 DEF Enters, c

(* A call, with nothing else. *)
LEMMA CallsOnly ==
  ASSUME FrameInv, stack # << >>, OnlyCalls,
         NEW self \in Activation, NEW i \in Nat, Enters(self, Kids[i]),
         Kids[i] \in Child
  PROVE  AnalyserStep
<1>1. nodes' = nodes /\ UNCHANGED <<declared, errs>> /\ UNCHANGED <<memory, tmp_cnt>>
  BY DEF OnlyCalls
<1>2. StackStep
  BY DEF StackStep
<1> QED
  BY <1>1, <1>2, SameCode, SameErrors DEF AnalyserStep

(* analyse_source takes a step of the analyser. *)
LEMMA SourceStep ==
  ASSUME FrameInv, AnalyseSource
  PROVE  AnalyserStep
<1>1. /\ stack # << >> /\ KindOf(Self) = "source" /\ Self.node \in DOMAIN nodes
      /\ Self.step \in 1..3 /\ Self.opds \in Seq(Operand) /\ OnlyCalls
  BY SelfFacts DEF AnalyseSource, In, KindOf, Fit
<1>2. /\ Has(Kinds(nodes[Self.node]), 2, {"variables"})
      /\ Has(Kinds(nodes[Self.node]), 4, {"statements"})
  BY <1>1, TreeFacts DEF FrameInv, Readable, KindOf
<1>3. /\ Onward \in Activation /\ Onward.node = Self.node
      /\ Onward.opds = Self.opds /\ Onward.start = Self.start
      /\ KeepsPointers(Onward)
      /\ Onward.step = Self.step + 1 /\ KindOf(Onward) = "source"
  BY <1>1, OnwardFacts
<1>4. ~Live(Onward) /\ KindOf(Self) \notin Valued \cup Tests
  BY <1>1, <1>3 DEF Live, Valued, Tests
<1>5. Self.step < 3 => \A n : Fit(Onward, n)
  BY <1>1, <1>3 DEF Fit
<1>6. CASE Self.step = 1
  <2>1. stack' = Calling(Onward, Kids[2])
    BY <1>6 DEF AnalyseSource
  <2>2. Enters(Onward, Kids[2]) /\ Kids[2] \in Child
    BY <1>1, <1>2, <1>3, <1>4, <1>5, <1>6, <2>1, Descends DEF NonTerminals
  <2> QED
    BY <1>1, <1>3, <2>2, CallsOnly
<1>7. CASE Self.step = 2
  <2>1. stack' = Calling(Onward, Kids[4])
    BY <1>7 DEF AnalyseSource
  <2>2. Enters(Onward, Kids[4]) /\ Kids[4] \in Child
    BY <1>1, <1>2, <1>3, <1>4, <1>5, <1>7, <2>1, Descends DEF NonTerminals
  <2> QED
    BY <1>1, <1>3, <2>2, CallsOnly
<1>8. CASE Self.step = 3
  <2>1. stack' = Returned
    BY <1>8 DEF AnalyseSource
  <2>2. StackStep
    BY <1>1, <1>4, <2>1 DEF StackStep, Leaves
  <2> QED
    BY <1>1, <2>2, SameCode, SameErrors DEF AnalyserStep, OnlyCalls
<1> QED
  BY <1>1, <1>6, <1>7, <1>8

(* So does analyse_variables, whose names are reported or declared. *)
LEMMA VariablesStep ==
  ASSUME FrameInv, AnalyseVariables
  PROVE  AnalyserStep
<1>1. /\ stack # << >> /\ KindOf(Self) = "variables" /\ Self.node \in DOMAIN nodes
      /\ Self.step \in Nat /\ Self.step % 4 = 1 /\ Self \in Activation
      /\ nodes' = nodes /\ UNCHANGED <<memory, tmp_cnt>>
      /\ Kids = nodes[Self.node].children
  BY SelfFacts DEF AnalyseVariables, In, KindOf, Fit, Kids
<1>2. KindOf(Self) \notin Valued \cup Tests /\ KindOf(Self) # "assign"
  BY <1>1 DEF Valued, Tests
<1>0. nodes \in Trees /\ Len(Kids) \in Nat /\ DOMAIN Kids = 1..Len(Kids)
  BY <1>1, TreeFacts, LenProperties DEF FrameInv
<1>3. CASE /\ Self.step > Len(Kids) /\ stack' = Returned
           /\ UNCHANGED <<declared, errs>>
  <2>1. StackStep
    BY <1>1, <1>2, <1>3 DEF StackStep, Leaves
  <2> QED
    BY <1>1, <1>3, <2>1, SameCode, SameErrors DEF AnalyserStep
<1>4. CASE Self.step <= Len(Kids)
  <2> DEFINE self == [Self EXCEPT !.step = Self.step + 4]
             k == Self.step
             id == Kids[k]
             type == Kids[k + 2].type
             first == IF id.attr = NULL THEN 0 ELSE declared[id.attr]
  <2>1. /\ stack' = Stepping(self)
        /\ errs' = IF first = 0 THEN errs
                   ELSE Append(errs, [kind |-> "MULTIPLE_DECL",
                                      loc |-> id.at, first |-> first])
        /\ declared' = DeclaredBy(id, type)
    <3>1. ~(Self.step > Len(Kids))
      BY <1>0, <1>1, <1>4
    <3> QED
      BY <3>1 DEF AnalyseVariables
  <2>2. StackStep
    <3>1. /\ self \in Activation /\ self.node = Self.node
          /\ self.step = Self.step + 4 /\ self.start = Self.start
          /\ KeepsPointers(self)
      BY <1>1, AtStep DEF KeepsPointers
    <3>2. KindOf(self) = "variables"
      BY <1>1, <3>1 DEF KindOf
    <3>3. Fit(self, Len(self.opds)) /\ ~Live(self)
      BY <1>1, <3>1, <3>2 DEF Fit, Live, Valued
    <3> HIDE DEF self
    <3>4. Stays(self)
      BY <1>2, <2>1, <3>1, <3>3 DEF Stays
    <3> QED
      BY <1>1, <3>1, <3>4 DEF StackStep
  <2>3. id \in Child /\ id.at \in Nat /\ id.attr \in Names \cup {NULL}
    <3>1. k \in DOMAIN Kids /\ nodes \in Trees
      BY <1>0, <1>1, <1>4
    <3>2. VariablesReadable(Kinds(nodes[Self.node])) /\ nodes[Self.node] \in Node
      BY <1>1, <3>1, TreeFacts DEF Readable, KindOf
    <3>3. DOMAIN Kinds(nodes[Self.node]) = DOMAIN Kids
      BY <1>1, <3>1, <3>2, LenProperties DEF Kinds, Node
    <3>4. Kinds(nodes[Self.node])[k] = "IDENTIFIER"
      BY <1>1, <3>1, <3>2, <3>3 DEF VariablesReadable
    <3>5. id.type = "IDENTIFIER"
      BY <1>1, <3>1, <3>3, <3>4 DEF Kinds
    <3> QED
      BY <1>1, <3>1, <3>5, ChildFacts
  <2> HIDE DEF id, type
  <2>4. declared \in [Names -> Nat] /\ errs \in Seq(SemanticError)
    BY DEF FrameInv, TypeOK
  <2>5. first \in Nat
    BY <2>3, <2>4
  <2>6. errs' \in Seq(SemanticError) /\ (errs' = << >> => errs = << >>)
    <3> DEFINE err == [kind |-> "MULTIPLE_DECL", loc |-> id.at, first |-> first]
    <3>1. err \in SemanticError
      BY <2>3, <2>5 DEF SemanticError
    <3> HIDE DEF err, first
    <3>2. errs' = errs \/ errs' = Append(errs, err)
      BY <2>1 DEF err
    <3> QED
      BY <2>4, <3>1, <3>2, AppendProperties, EmptySeq
  <2>7. declared' \in [Names -> Nat] /\ KeepsDeclared
    BY <2>1, <2>3, <2>4 DEF DeclaredBy, KeepsDeclared
  <2>8. ErrorStep
    BY <2>6, <2>7 DEF ErrorStep
  <2> QED
    BY <1>1, <2>2, <2>8, SameCode DEF AnalyserStep
<1> QED
  BY <1>3, <1>4 DEF AnalyseVariables

(* So does analyse_statements, which only calls. *)
LEMMA StatementsStep ==
  ASSUME FrameInv, AnalyseStatements
  PROVE  AnalyserStep
<1>1. /\ stack # << >> /\ KindOf(Self) = "statements" /\ Self.node \in DOMAIN nodes
      /\ Self.step \in Nat /\ Self.step >= 1 /\ OnlyCalls
      /\ Kids = nodes[Self.node].children
  BY SelfFacts DEF AnalyseStatements, In, KindOf, Fit, Kids
<1>2. KindOf(Self) \notin Valued \cup Tests /\ KindOf(Self) # "assign"
  BY <1>1 DEF Valued, Tests
<1>3. CASE Self.step > Len(Kids) /\ stack' = Returned
  <2>1. StackStep
    BY <1>1, <1>2, <1>3 DEF StackStep, Leaves
  <2> QED
    BY <1>1, <1>3, <2>1, SameCode, SameErrors DEF AnalyserStep, OnlyCalls
<1>4. CASE Self.step <= Len(Kids) /\ stack' = Calling(Onward, Kids[Self.step])
  <2> DEFINE k == Self.step
  <2>1. Has(Kinds(nodes[Self.node]), k, Statements)
    <3>1. nodes \in Trees
      BY DEF FrameInv
    <3>2. nodes[Self.node] \in Node /\ Readable(nodes[Self.node])
      BY <1>1, <3>1, TreeFacts
    <3>3. DOMAIN Kinds(nodes[Self.node]) = 1..Len(Kids) /\ Len(Kids) \in Nat
      BY <1>1, <3>2, LenProperties DEF Kinds, Node
    <3> QED
      BY <1>1, <1>4, <3>2, <3>3 DEF Readable, KindOf, Has
  <2>2. /\ Onward \in Activation /\ Onward.node = Self.node
        /\ Onward.opds = Self.opds /\ Onward.start = Self.start
        /\ KeepsPointers(Onward)
        /\ Onward.step = Self.step + 1 /\ KindOf(Onward) = "statements"
    BY <1>1, OnwardFacts
  <2>3. ~Live(Onward) /\ \A n : Fit(Onward, n)
    BY <1>1, <2>2 DEF Live, Valued, Fit
  <2>4. Statements \in SUBSET NonTerminals /\ Statements \cap Valued = {}
    BY DEF Statements, NonTerminals, Valued
  <2>5. Enters(Onward, Kids[k]) /\ Kids[k] \in Child
    BY <1>1, <1>2, <1>4, <2>1, <2>2, <2>3, <2>4, Descends
  <2> QED
    BY <1>1, <2>2, <2>5, CallsOnly
<1> QED
  <2>1. Len(Kids) \in Nat
    BY <1>1, TreeFacts, LenProperties DEF FrameInv
  <2> QED
    BY <1>1, <1>3, <1>4, <2>1 DEF AnalyseStatements

-----------------------------------------------------------------------------
(* What an instruction reads. *)
LEMMA SourcesOf ==
  ASSUME NEW i \in Instruction
  PROVE  /\ i.op \in Arithmetic \cup RelOps => Sources(i) = {i.src1, i.src2}
         /\ i.op \in Unary \cup {"ASSIGN", "WRITE", "BRANCH"} => Sources(i) = {i.src1}
         /\ i.op \in {"GOTO", "READ"} => Sources(i) = {}
         /\ Sources(i) \subseteq Operand
<1>1. i.src1 \in Operand /\ i.src2 \in Operand
  BY DEF Instruction
<1>2. i.op \in Arithmetic \cup RelOps \cup Unary
        \cup {"ASSIGN", "WRITE", "BRANCH", "GOTO", "READ"}
  BY DEF Instruction, Ops, Jumps
<1> QED
  BY <1>1, <1>2 DEF Sources, Arithmetic, RelOps, Unary

(* The operands that the functions make are operands. *)
LEMMA OperandKinds ==
  /\ Unset \in Operand /\ Label(NULL) \in Operand
  /\ \A n \in Nat : Temporary(n) \in Operand /\ Label(n) \in Operand
  /\ \A x \in Names : Symbol(x) \in Operand
  /\ \A v \in Literals \cup {0} : Literal(v) \in Operand
BY DEF Operand, Unset, Label, Temporary, Symbol, Literal

(* An instruction made of them is one. *)
LEMMA InstrIn ==
  ASSUME NEW op \in Ops, NEW s1 \in Operand, NEW s2 \in Operand, NEW d \in Operand
  PROVE  /\ Instr(op, s1, s2, d) \in Instruction
         /\ Instr(op, s1, s2, d).op = op /\ Instr(op, s1, s2, d).src1 = s1
         /\ Instr(op, s1, s2, d).src2 = s2 /\ Instr(op, s1, s2, d).dest = d
BY DEF Instr, Instruction

(* The errors that are reported for the use of a variable. *)
LEMMA ComplaintsStep ==
  ASSUME FrameInv, NEW c \in Child, errs' = Complaints(c), declared' = declared
  PROVE  /\ ErrorStep
         /\ c.attr # NULL /\ ~Usable(c) => errs' # << >>
<1> DEFINE err == [kind |-> "UNDECLARED_VAR", loc |-> c.at, first |-> 0]
<1>1. err \in SemanticError
  BY DEF SemanticError, Child
<1>2. /\ errs' = errs \/ errs' = Append(errs, err)
      /\ c.attr # NULL /\ ~Usable(c) => errs' = Append(errs, err)
  BY DEF Complaints
<1> HIDE DEF err
<1>3. declared \in [Names -> Nat] /\ errs \in Seq(SemanticError)
  BY DEF FrameInv, TypeOK
<1>4. /\ Append(errs, err) \in Seq(SemanticError) /\ Append(errs, err) # << >>
  BY <1>1, <1>3, AppendProperties, EmptySeq
<1> QED
  BY <1>2, <1>3, <1>4 DEF ErrorStep, KeepsDeclared

(* analyse_assign goes on only when its variable is declared. *)
LEMMA AssignStep ==
  ASSUME FrameInv, AnalyseAssign
  PROVE  AnalyserStep
<1>1. /\ stack # << >> /\ KindOf(Self) = "assign" /\ Self.node \in DOMAIN nodes
      /\ Self.step \in 1..2 /\ Len(Self.opds) = Self.step - 1
      /\ Kids = KidsOf(Self) /\ nodes \in Trees /\ nodes' = nodes
  BY SelfFacts DEF AnalyseAssign, At, In, KindOf, Fit, FrameInv
<1>2. /\ Has(Kinds(nodes[Self.node]), 1, {"IDENTIFIER"})
      /\ Has(Kinds(nodes[Self.node]), 3, {"expression"})
  BY <1>1, TreeFacts DEF Readable, KindOf
<1>3. /\ Kids[1] \in Child /\ Kids[1].attr \in Names
  BY <1>1, <1>2, Kid
<1>4. Live(Self) /\ KindOf(Self) \notin Valued \cup Tests
  BY <1>1 DEF Live, Valued, Tests
<1>5. CASE /\ Self.step = 1 /\ errs' = Complaints(Kids[1])
           /\ stack' = IF Usable(Kids[1]) THEN Calling(Onward, Kids[3])
                       ELSE Returned
           /\ UNCHANGED <<nodes, declared, memory, tmp_cnt>>
  <2>1. ErrorStep /\ CodeStep /\ MemoryOK'
    BY <1>3, <1>5, ComplaintsStep, SameCode
  <2>2. CASE Usable(Kids[1])
    <3>1. /\ Onward \in Activation /\ Onward.node = Self.node
          /\ Onward.opds = Self.opds /\ Onward.start = Self.start
          /\ KeepsPointers(Onward)
          /\ Onward.step = Self.step + 1 /\ KindOf(Onward) = "assign"
          /\ KidsOf(Onward) = Kids
      BY <1>1, OnwardFacts
    <3>2. Fit(Onward, Len(Onward.opds) + Yields("expression"))
      BY <1>1, <1>5, <3>1 DEF Fit, Yields, Valued
    <3>3. {"expression"} \in SUBSET NonTerminals /\ {"expression"} \subseteq Valued
      BY DEF NonTerminals, Valued
    <3>4. Enters(Onward, Kids[3]) /\ Kids[3] \in Child
      BY <1>1, <1>2, <1>4, <1>5, <2>2, <3>1, <3>2, <3>3, Descends
    <3>5. StackStep
      BY <1>1, <3>1, <3>4 DEF StackStep
    <3> QED
      BY <1>1, <2>1, <3>5 DEF AnalyserStep
  <2>3. CASE ~Usable(Kids[1])
    <3>1. StackStep
      BY <1>1, <1>4, <1>5, <2>3 DEF StackStep, Leaves
    <3> QED
      BY <1>1, <2>1, <3>1 DEF AnalyserStep
  <2> QED
    BY <2>2, <2>3
<1>6. CASE /\ Self.step = 2
           /\ Add(Instr("ASSIGN", Self.opds[1], Unset, Symbol(Kids[1].attr)))
           /\ stack' = Returned
           /\ UNCHANGED <<nodes, declared, errs, tmp_cnt>>
  <2> DEFINE i == Instr("ASSIGN", Self.opds[1], Unset, Symbol(Kids[1].attr))
  <2>1. Self.opds[1] \in Operand /\ Held(Self.opds[1])
    BY <1>1, <1>4, <1>6, HeldHere
  <2>2. /\ i \in Instruction /\ i.op = "ASSIGN" /\ i.src1 = Self.opds[1]
        /\ i.dest = Symbol(Kids[1].attr)
    <3>1. "ASSIGN" \in Ops /\ Unset \in Operand /\ Symbol(Kids[1].attr) \in Operand
      BY <1>3, OperandKinds DEF Ops
    <3> QED
      BY <2>1, <3>1, InstrIn
  <2> HIDE DEF i
  <2>3. Sources(i) = {Self.opds[1]} /\ ~Computes(i)
    BY <2>2, SourcesOf DEF Computes, Arithmetic, RelOps, Unary
  <2>4. declared[Kids[1].attr] # 0
    BY <1>1, <1>6, SelfFacts DEF FrameInv, AssignsDeclared, Usable
  <2>5. Emits(i)
    BY <1>3, <1>6, <2>1, <2>2, <2>3, <2>4 DEF Emits, Jumps, Symbol
  <2>6. CodeStep /\ MemoryOK'
    BY <1>6, <2>2, <2>5, EmittedCode DEF i
  <2>7. StackStep
    BY <1>1, <1>4, <1>6 DEF StackStep, Leaves
  <2> QED
    BY <1>1, <1>6, <2>6, <2>7, SameErrors DEF AnalyserStep
<1> QED
  BY <1>1, <1>5, <1>6 DEF AnalyseAssign, At

(* analyse_input reads into a variable, or has reported it. *)
LEMMA InputStep ==
  ASSUME FrameInv, AnalyseInput
  PROVE  AnalyserStep
<1>1. /\ stack # << >> /\ KindOf(Self) = "input" /\ Self.node \in DOMAIN nodes
      /\ stack' = Returned /\ errs' = Complaints(Kids[2])
      /\ nodes \in Trees /\ UNCHANGED <<nodes, declared, tmp_cnt>>
  BY SelfFacts DEF AnalyseInput, In, KindOf, FrameInv
<1>2. Has(Kinds(nodes[Self.node]), 2, {"IDENTIFIER"})
  BY <1>1, TreeFacts DEF Readable, KindOf
<1>3. /\ Kids[2] \in Child /\ Kids[2].attr \in Names \cup {NULL}
  BY <1>1, <1>2, Kid
<1>4. KindOf(Self) \notin Valued
  BY <1>1 DEF Valued
<1>5. ErrorStep
  BY <1>1, <1>3, ComplaintsStep
<1>6. StackStep
  BY <1>1, <1>4 DEF StackStep, Leaves
<1>7. CASE /\ Usable(Kids[2])
           /\ Add(Instr("READ", Unset, Unset, Symbol(Kids[2].attr)))
  <2> DEFINE i == Instr("READ", Unset, Unset, Symbol(Kids[2].attr))
  <2>1. Kids[2].attr \in Names /\ declared[Kids[2].attr] # 0
    BY <1>3, <1>7 DEF Usable
  <2>2. /\ i \in Instruction /\ i.op = "READ"
        /\ i.dest = Symbol(Kids[2].attr)
    <3>1. "READ" \in Ops /\ Unset \in Operand /\ Symbol(Kids[2].attr) \in Operand
      BY <2>1, OperandKinds DEF Ops
    <3> QED
      BY <3>1, InstrIn
  <2> HIDE DEF i
  <2>3. Sources(i) = {} /\ ~Computes(i)
    BY <2>2, SourcesOf DEF Computes, Arithmetic, RelOps, Unary
  <2>4. Emits(i)
    BY <1>1, <2>1, <2>2, <2>3 DEF Emits, Jumps, Symbol
  <2>5. CodeStep /\ MemoryOK'
    BY <1>7, <2>2, <2>4, EmittedCode DEF i
  <2> QED
    BY <1>1, <1>5, <1>6, <2>5 DEF AnalyserStep
<1>8. CASE ~Usable(Kids[2]) /\ UNCHANGED memory
  BY <1>1, <1>5, <1>6, <1>8, SameCode DEF AnalyserStep
<1> QED
  BY <1>7, <1>8 DEF AnalyseInput

(* analyse_output writes the operand that it holds. *)
LEMMA OutputStep ==
  ASSUME FrameInv, AnalyseOutput
  PROVE  AnalyserStep
<1>1. /\ stack # << >> /\ KindOf(Self) = "output" /\ Self.node \in DOMAIN nodes
      /\ Self.step \in 1..2 /\ Len(Self.opds) = Self.step - 1
      /\ nodes \in Trees
  BY SelfFacts DEF AnalyseOutput, At, In, KindOf, Fit, FrameInv
<1>2. Live(Self) /\ KindOf(Self) \notin Valued \cup Tests /\ KindOf(Self) # "assign"
  BY <1>1 DEF Live, Valued, Tests
<1>3. CASE Self.step = 1 /\ stack' = Calling(Onward, Kids[2]) /\ OnlyCalls
  <2>1. Has(Kinds(nodes[Self.node]), 2, {"expression"})
    BY <1>1, TreeFacts DEF Readable, KindOf
  <2>2. /\ Onward \in Activation /\ Onward.node = Self.node
        /\ Onward.opds = Self.opds /\ Onward.start = Self.start
        /\ KeepsPointers(Onward)
        /\ Onward.step = Self.step + 1 /\ KindOf(Onward) = "output"
    BY <1>1, OnwardFacts
  <2>3. Fit(Onward, Len(Onward.opds) + Yields("expression"))
    BY <1>1, <1>3, <2>2 DEF Fit, Yields, Valued
  <2>4. {"expression"} \in SUBSET NonTerminals /\ {"expression"} \subseteq Valued
    BY DEF NonTerminals, Valued
  <2>5. Enters(Onward, Kids[2]) /\ Kids[2] \in Child
    BY <1>1, <1>2, <1>3, <2>1, <2>2, <2>3, <2>4, Descends
  <2> QED
    BY <1>1, <1>3, <2>2, <2>5, CallsOnly
<1>4. CASE /\ Self.step = 2
           /\ Add(Instr("WRITE", Self.opds[1], Unset, Unset))
           /\ stack' = Returned
           /\ UNCHANGED <<nodes, declared, errs, tmp_cnt>>
  <2> DEFINE i == Instr("WRITE", Self.opds[1], Unset, Unset)
  <2>1. Self.opds[1] \in Operand /\ Held(Self.opds[1])
    BY <1>1, <1>2, <1>4, HeldHere
  <2>2. /\ i \in Instruction /\ i.op = "WRITE" /\ i.src1 = Self.opds[1]
        /\ i.dest = Unset
    <3>1. "WRITE" \in Ops /\ Unset \in Operand
      BY OperandKinds DEF Ops
    <3> QED
      BY <2>1, <3>1, InstrIn
  <2> HIDE DEF i
  <2>3. Sources(i) = {Self.opds[1]} /\ ~Computes(i)
    BY <2>2, SourcesOf DEF Computes, Arithmetic, RelOps, Unary
  <2>4. Emits(i)
    BY <1>4, <2>1, <2>2, <2>3 DEF Emits, Jumps
  <2>5. CodeStep /\ MemoryOK'
    BY <1>4, <2>2, <2>4, EmittedCode DEF i
  <2>6. StackStep
    BY <1>1, <1>2, <1>4 DEF StackStep, Leaves
  <2> QED
    BY <1>1, <1>4, <2>5, <2>6, SameErrors DEF AnalyserStep
<1> QED
  BY <1>1, <1>3, <1>4 DEF AnalyseOutput, At

-----------------------------------------------------------------------------
(* The jumps, and the pointers to them. *)
LEMMA PatchedFacts ==
  ASSUME NEW list \in Seq(Instruction), NEW ptr \in Pointer, NEW l \in Nat,
         ptr.index \in 1..Len(list)
  PROVE  /\ Patched(list, ptr, l) \in Seq(Instruction)
         /\ Len(Patched(list, ptr, l)) = Len(list)
         /\ \A k \in 1..Len(list) :
              /\ Patched(list, ptr, l)[k].op = list[k].op
              /\ Patched(list, ptr, l)[k].src1 = list[k].src1
              /\ Patched(list, ptr, l)[k].src2 = list[k].src2
              /\ Patched(list, ptr, l)[k].dest =
                   IF ptr.block = block' /\ k = ptr.index THEN Label(l)
                   ELSE list[k].dest
<1>1. CASE ptr.block # block'
  BY <1>1 DEF Patched
<1>2. CASE ptr.block = block'
  <2> DEFINE i == list[ptr.index]
             j == [i EXCEPT !.dest = Label(l)]
  <2>1. i \in Instruction
    BY ElementOfSeq
  <2>2. /\ j \in Instruction /\ j.op = i.op /\ j.src1 = i.src1
        /\ j.src2 = i.src2 /\ j.dest = Label(l)
    BY <2>1, OperandKinds DEF Instruction
  <2>3. Patched(list, ptr, l) = [list EXCEPT ![ptr.index] = j]
    BY <1>2 DEF Patched
  <2>4. \A k \in 1..Len(list) : k = ptr.index => list[k] = i
    OBVIOUS
  <2> HIDE DEF i, j
  <2>5. /\ Patched(list, ptr, l) \in Seq(Instruction)
        /\ Len(Patched(list, ptr, l)) = Len(list)
        /\ \A k \in 1..Len(list) :
             Patched(list, ptr, l)[k] = IF k = ptr.index THEN j ELSE list[k]
    BY <2>2, <2>3, ExceptSeq
  <2> QED
    BY <1>2, <2>2, <2>4, <2>5
<1> QED
  BY <1>1, <1>2

(* A pointer of the function that runs. *)
LEMMA PointerHere ==
  ASSUME FrameInv, PointersAtJumps, stack # << >>, NEW i \in 1..Len(Self.ptrs)
  PROVE  /\ Self.ptrs[i] \in Pointer /\ Self.ptrs[i].index \in 1..Len(instrs)
         /\ instrs[Self.ptrs[i].index].op \in Jumps
<1>1. /\ Self \in Activation /\ Top \in DOMAIN stack /\ stack[Top] = Self
  BY SelfFacts
<1>2. Self.ptrs \in Seq(Pointer)
  BY <1>1 DEF Activation
<1>3. Self.ptrs[i] \in Pointer /\ i \in DOMAIN Self.ptrs
  BY <1>2, ElementOfSeq, LenProperties
<1>4. DOMAIN instrs = 1..Len(instrs)
  BY LenProperties DEF FrameInv, TypeOK
<1> QED
  BY <1>1, <1>3, <1>4 DEF PointersAtJumps

(* A goto is an instruction, with its label or without. *)
LEMMA GotoIn ==
  ASSUME NEW label \in Nat \cup {NULL}
  PROVE  Goto(label) \in Instruction
<1>1. "GOTO" \in Ops /\ Unset \in Operand /\ Label(label) \in Operand
  BY OperandKinds DEF Ops, Jumps
<1> QED
  BY <1>1, InstrIn DEF Goto

(* A branch that reads the operand of the activation is an instruction. *)
LEMMA BranchIn ==
  ASSUME Self.opds[1] \in Operand
  PROVE  Branch(NULL) \in Instruction /\ Branch(NULL).op = "BRANCH"
<1>1. "BRANCH" \in Ops /\ Unset \in Operand /\ Label(NULL) \in Operand
  BY OperandKinds DEF Ops, Jumps
<1> QED
  BY <1>1, InstrIn DEF Branch

(* A goto is added, and the jump at a pointer patched to go behind it. *)
LEMMA GotoAdded ==
  ASSUME FrameInv, PointersAtJumps, stack # << >>, Enlarge,
         NEW i \in 1..Len(Self.ptrs), NEW label,
         Goto(label) \in Instruction, tmp_cnt' = tmp_cnt,
         instrs' = Patched(Append(instrs, Goto(label)), Self.ptrs[i],
                           Len(instrs) + 1)
  PROVE  /\ MemoryOK' /\ Len(instrs') = Len(instrs) + 1
         /\ Added \in Instruction
         /\ Added.op = "GOTO" /\ Added.dest = Label(label)
         /\ \A k \in 1..Len(instrs) :
              /\ instrs'[k].op = instrs[k].op
              /\ instrs'[k].src1 = instrs[k].src1
              /\ instrs'[k].src2 = instrs[k].src2
              /\ instrs'[k].dest =
                   IF Self.ptrs[i].block = block' /\ k = Self.ptrs[i].index
                   THEN Label(Len(instrs) + 1) ELSE instrs[k].dest
<1> DEFINE g == Goto(label)
           list == Append(instrs, g)
           ptr == Self.ptrs[i]
<1>1. instrs \in Seq(Instruction) /\ Len(instrs) \in Nat
  BY LenProperties DEF FrameInv, TypeOK
<1>2. /\ ptr \in Pointer /\ ptr.index \in 1..Len(instrs)
      /\ instrs[ptr.index].op \in Jumps
  BY PointerHere
<1>3. g \in Instruction /\ g.op = "GOTO" /\ g.dest = Label(label)
  BY DEF Goto, Instr
<1> HIDE DEF g, ptr
<1>4. /\ list \in Seq(Instruction) /\ Len(list) = Len(instrs) + 1
      /\ \A k \in 1..Len(instrs) : list[k] = instrs[k]
      /\ list[Len(instrs) + 1] = g
  BY <1>1, <1>3, AppendProperties
<1>5. instrs' = Patched(list, ptr, Len(instrs) + 1)
  BY DEF g, ptr
<1> HIDE DEF list
<1>6. ptr.index \in 1..Len(list) /\ Len(instrs) + 1 \in Nat
  BY <1>1, <1>2, <1>4
<1>7. /\ instrs' \in Seq(Instruction) /\ Len(instrs') = Len(instrs) + 1
      /\ \A k \in 1..(Len(instrs) + 1) :
           /\ instrs'[k].op = list[k].op
           /\ instrs'[k].src1 = list[k].src1
           /\ instrs'[k].src2 = list[k].src2
           /\ instrs'[k].dest =
                IF ptr.block = block' /\ k = ptr.index
                THEN Label(Len(instrs) + 1) ELSE list[k].dest
  <2>1. PICK l \in Nat : l = Len(instrs) + 1
    BY <1>1
  <2>2. /\ instrs' \in Seq(Instruction) /\ Len(instrs') = Len(list)
        /\ \A k \in 1..Len(list) :
             /\ instrs'[k].op = list[k].op
             /\ instrs'[k].src1 = list[k].src1
             /\ instrs'[k].src2 = list[k].src2
             /\ instrs'[k].dest = IF ptr.block = block' /\ k = ptr.index
                                  THEN Label(l) ELSE list[k].dest
    <3>1. /\ list \in Seq(Instruction)
          /\ ptr \in Pointer /\ ptr.index \in 1..Len(list)
      BY <1>2, <1>4, <1>6
    <3>2. /\ Patched(list, ptr, l) \in Seq(Instruction)
          /\ Len(Patched(list, ptr, l)) = Len(list)
          /\ \A k \in 1..Len(list) :
               /\ Patched(list, ptr, l)[k].op = list[k].op
               /\ Patched(list, ptr, l)[k].src1 = list[k].src1
               /\ Patched(list, ptr, l)[k].src2 = list[k].src2
               /\ Patched(list, ptr, l)[k].dest =
                    IF ptr.block = block' /\ k = ptr.index
                    THEN Label(l) ELSE list[k].dest
      BY <3>1, PatchedFacts
    <3>3. instrs' = Patched(list, ptr, l)
      BY <1>5, <2>1
    <3> QED
      BY <3>2, <3>3
  <2> QED
    BY <1>4, <2>1, <2>2
<1>8. /\ Added \in Instruction /\ Added.op = "GOTO" /\ Added.dest = Label(label)
  <2>1. Len(instrs) + 1 \in 1..(Len(instrs) + 1) /\ Len(instrs) + 1 # ptr.index
    BY <1>1, <1>2
  <2> QED
    BY <1>3, <1>4, <1>7, <2>1, ElementOfSeq DEF Added
<1>9. \A k \in 1..Len(instrs) :
        /\ instrs'[k].op = instrs[k].op
        /\ instrs'[k].src1 = instrs[k].src1
        /\ instrs'[k].src2 = instrs[k].src2
        /\ instrs'[k].dest =
             IF ptr.block = block' /\ k = ptr.index
             THEN Label(Len(instrs) + 1) ELSE instrs[k].dest
  <2>1. \A k \in 1..Len(instrs) : k \in 1..(Len(instrs) + 1)
    BY <1>1
  <2> QED
    BY <1>4, <1>7, <2>1
<1>10. MemoryOK'
  BY <1>7, EnlargeRoom DEF MemoryOK, FrameInv, TypeOK
<1> QED
  BY <1>7, <1>8, <1>9, <1>10 DEF ptr

(* What such a step does to the code is a step of the code. *)
LEMMA JumpAdded ==
  ASSUME FrameInv, PointersAtJumps, stack # << >>, Settles, Enlarge,
         NEW i \in 1..Len(Self.ptrs),
         Added \in Instruction, Added.op = "GOTO", Added.dest.type = "LABEL",
         Added.dest.val \in {NULL} \cup Marks, Added.dest.val = NULL => Awaited,
         Len(instrs') = Len(instrs) + 1, tmp_cnt' = tmp_cnt,
         \A k \in 1..Len(instrs) :
           /\ instrs'[k].op = instrs[k].op
           /\ instrs'[k].src1 = instrs[k].src1
           /\ instrs'[k].src2 = instrs[k].src2
           /\ instrs'[k].dest =
                IF Self.ptrs[i].block = block' /\ k = Self.ptrs[i].index
                THEN Label(Len(instrs) + 1) ELSE instrs[k].dest
  PROVE  CodeStep
<1>1. Sources(Added) = {} /\ ~Computes(Added)
  BY SourcesOf DEF Computes, Arithmetic, RelOps, Unary
<1>2. Emits(Added)
  BY <1>1 DEF Emits
<1>3. block <= block'
  BY EnlargeRoom
<1>4. instrs[Self.ptrs[i].index].op \in Jumps
  BY PointerHere
<1> QED
  BY <1>2, <1>3, <1>4 DEF CodeStep

(* The last pointer of an if is patched, and nothing added. *)
LEMMA JumpPatched ==
  ASSUME FrameInv, PointersAtJumps, stack # << >>, Settles,
         NEW i \in 1..Len(Self.ptrs),
         UNCHANGED <<capacity, block, tmp_cnt>>,
         instrs' = Patched(instrs, Self.ptrs[i], Len(instrs))
  PROVE  /\ CodeStep /\ MemoryOK' /\ Len(instrs') = Len(instrs)
         /\ \A k \in 1..Len(instrs) :
              instrs'[k].dest =
                IF Self.ptrs[i].block = block' /\ k = Self.ptrs[i].index
                THEN Label(Len(instrs)) ELSE instrs[k].dest
<1> DEFINE ptr == Self.ptrs[i]
<1>1. instrs \in Seq(Instruction) /\ Len(instrs) \in Nat
  BY LenProperties DEF FrameInv, TypeOK
<1>2. /\ ptr \in Pointer /\ ptr.index \in 1..Len(instrs)
      /\ instrs[ptr.index].op \in Jumps
  BY PointerHere
<1>3. instrs' = Patched(instrs, ptr, Len(instrs))
  OBVIOUS
<1> HIDE DEF ptr
<1>4. /\ instrs' \in Seq(Instruction) /\ Len(instrs') = Len(instrs)
      /\ \A k \in 1..Len(instrs) :
           /\ instrs'[k].op = instrs[k].op
           /\ instrs'[k].src1 = instrs[k].src1
           /\ instrs'[k].src2 = instrs[k].src2
           /\ instrs'[k].dest =
                IF ptr.block = block' /\ k = ptr.index
                THEN Label(Len(instrs)) ELSE instrs[k].dest
  <2> DEFINE list == Patched(instrs, ptr, Len(instrs))
  <2>1. /\ list \in Seq(Instruction) /\ Len(list) = Len(instrs)
        /\ \A k \in 1..Len(instrs) :
             /\ list[k].op = instrs[k].op
             /\ list[k].src1 = instrs[k].src1
             /\ list[k].src2 = instrs[k].src2
             /\ list[k].dest =
                  IF ptr.block = block' /\ k = ptr.index
                  THEN Label(Len(instrs)) ELSE instrs[k].dest
    BY <1>1, <1>2, PatchedFacts
  <2>2. instrs' = list
    BY <1>3
  <2> HIDE DEF list
  <2> QED
    BY <2>1, <2>2
<1>5. CodeStep
  <2>1. block <= block'
    BY DEF FrameInv, TypeOK
  <2> QED
    BY <1>2, <1>4, <2>1 DEF CodeStep
<1>6. MemoryOK'
  BY <1>4 DEF MemoryOK, FrameInv, TypeOK
<1> QED
  BY <1>4, <1>5, <1>6 DEF ptr

(* The activation that remembers the jump it has added. *)
LEMMA PointingFacts ==
  ASSUME FrameInv, stack # << >>, Enlarge
  PROVE  /\ LastAdded \in Pointer
         /\ Pointing(Onward) \in Activation
         /\ Pointing(Onward).node = Self.node
         /\ Pointing(Onward).opds = Self.opds
         /\ Pointing(Onward).start = Self.start
         /\ Pointing(Onward).step = Self.step + 1
         /\ Pointing(Onward).ptrs = Append(Self.ptrs, LastAdded)
         /\ Len(Pointing(Onward).ptrs) = Len(Self.ptrs) + 1
         /\ KindOf(Pointing(Onward)) = KindOf(Self)
<1>1. /\ Onward \in Activation /\ Onward.node = Self.node
      /\ Onward.opds = Self.opds /\ Onward.ptrs = Self.ptrs
      /\ Onward.start = Self.start /\ Onward.step = Self.step + 1
  BY OnwardFacts
<1>2. LastAdded \in Pointer
  <2>1. Len(instrs) \in Nat /\ block' \in Nat
    BY EnlargeRoom, LenProperties DEF FrameInv, TypeOK
  <2> QED
    BY <2>1 DEF LastAdded, Pointer
<1>3. Self.ptrs \in Seq(Pointer)
  BY <1>1 DEF Activation
<1>4. /\ Append(Self.ptrs, LastAdded) \in Seq(Pointer)
      /\ Len(Append(Self.ptrs, LastAdded)) = Len(Self.ptrs) + 1
  BY <1>2, <1>3, AppendProperties
<1>5. Pointing(Onward) = [Onward EXCEPT !.ptrs = Append(Self.ptrs, LastAdded)]
  BY <1>1 DEF Pointing
<1> QED
  BY <1>1, <1>2, <1>4, <1>5 DEF Activation, KindOf

(* A branch is added. *)
LEMMA BranchAdded ==
  ASSUME FrameInv, TestsHoldTemporaries, stack # << >>, Settles,
         KindOf(Self) \in Tests, Live(Self), Len(Self.opds) = 1,
         NEW label \in Nat \cup {NULL}, label \in {NULL} \cup Marks,
         label = NULL => Awaited,
         Add(Branch(label)), tmp_cnt' = tmp_cnt
  PROVE  /\ CodeStep /\ MemoryOK' /\ Len(instrs') = Len(instrs) + 1
         /\ Added.op = "BRANCH" /\ Added.dest = Label(label)
<1> DEFINE i == Branch(label)
<1>1. Self.opds[1] \in Operand /\ Held(Self.opds[1])
  BY HeldHere
<1>2. Self.opds[1].type = "TEMPORARY"
  <2>1. /\ Top \in DOMAIN stack /\ stack[Top] = Self
        /\ Self.opds \in Seq(Operand)
    BY SelfFacts
  <2>2. 1 \in DOMAIN Self.opds
    BY <2>1, LenProperties
  <2> QED
    BY <2>1, <2>2 DEF TestsHoldTemporaries
<1>3. Label(label) \in Operand /\ Unset \in Operand /\ "BRANCH" \in Ops
  BY OperandKinds DEF Ops, Jumps
<1>4. /\ i \in Instruction /\ i.op = "BRANCH" /\ i.src1 = Self.opds[1]
      /\ i.dest = Label(label)
  BY <1>1, <1>3, InstrIn DEF Branch
<1> HIDE DEF i
<1>5. Sources(i) = {Self.opds[1]} /\ ~Computes(i)
  BY <1>4, SourcesOf DEF Computes, Arithmetic, RelOps, Unary
<1>6. Emits(i)
  BY <1>1, <1>2, <1>4, <1>5 DEF Emits, Label
<1>7. CodeStep /\ MemoryOK'
  BY <1>4, <1>6, EmittedCode DEF i
<1>8. Len(instrs') = Len(instrs) + 1 /\ Added = i
  BY <1>4, AddedCode DEF i, FrameInv, TypeOK
<1> QED
  BY <1>4, <1>7, <1>8

(* The function that has added a jump without a label waits to patch it. *)
LEMMA WaitsHere ==
  ASSUME FrameInv, stack # << >>, Enlarge, nodes' = nodes,
         KindOf(Self) \in {"branch", "loop"},
         Self.step \in 2..3, Len(Self.ptrs) = Self.step - 2,
         \/ stack' = Stepping(Pointing(Onward))
         \/ \E c \in Child : stack' = Calling(Pointing(Onward), c)
  PROVE  Awaited
<1>1. PICK self \in Activation : self = Pointing(Onward)
  BY PointingFacts
<1>2. /\ self.step = Self.step + 1 /\ self.ptrs = Append(Self.ptrs, LastAdded)
      /\ KindOf(self) = KindOf(Self)
  BY <1>1, PointingFacts
<1>3. self.ptrs[self.step - 2] = LastAdded
  <2>1. Self.ptrs \in Seq(Pointer) /\ LastAdded \in Pointer
    BY PointingFacts, SelfFacts DEF Activation
  <2>2. Append(Self.ptrs, LastAdded)[Len(Self.ptrs) + 1] = LastAdded
    BY <2>1, AppendProperties
  <2> QED
    BY <1>2, <2>2
<1>4. Awaits(self, Len(instrs) + 1)
  BY <1>2, <1>3 DEF Awaits, LastAdded
<1>5. Top \in DOMAIN stack' /\ stack'[Top] = self
  <2>1. Top \in Nat /\ Top >= 1
    BY SelfFacts
  <2> QED
    BY <1>1, <2>1, EnterShape, StayShape
<1> QED
  BY <1>4, <1>5 DEF Awaited

(* The jump at its last pointer is what the function was waiting for. *)
LEMMA TestPatches ==
  ASSUME FrameInv, PointersAtJumps, stack # << >>, block <= block', block' \in Nat,
         Self.step \in 3..4, Len(Self.ptrs) = Self.step - 2,
         \A k \in 1..Len(instrs) :
           instrs'[k].dest =
             IF /\ Self.ptrs[Self.step - 2].block = block'
                /\ k = Self.ptrs[Self.step - 2].index
             THEN Label(Len(instrs')) ELSE instrs[k].dest
  PROVE  Patches
<1> DEFINE ptr == Self.ptrs[Self.step - 2]
<1>1. ptr \in Pointer /\ ptr.index \in 1..Len(instrs)
  BY PointerHere
<1>2. ptr.block \in Nat /\ ptr.block <= block /\ block \in Nat
  <2>1. Self.ptrs \in Seq(Pointer) /\ Top \in DOMAIN stack /\ stack[Top] = Self
    BY SelfFacts DEF Activation
  <2>2. Self.step - 2 \in DOMAIN Self.ptrs
    BY <2>1, LenProperties
  <2> QED
    BY <1>1, <2>1, <2>2 DEF PointersAtJumps, Pointer, FrameInv, TypeOK
<1>3. \A k : Awaits(Self, k) => ptr.index = k
  BY DEF Awaits
<1> SUFFICES ASSUME NEW k \in 1..Len(instrs), k = ptr.index, block' = 0
             PROVE  instrs'[k].dest = Label(Len(instrs'))
  BY <1>3 DEF Patches
<1>4. ptr.block = block'
  BY <1>2
<1> QED
  BY <1>4

(* An if or a while, which can be a test of the same shape. *)
LEMMA TestFacts ==
  ASSUME FrameInv, stack # << >>, KindOf(Self) \in {"branch", "loop"}
  PROVE  /\ Self.node \in DOMAIN nodes /\ nodes \in Trees
         /\ Self.step \in 1..4 /\ Self \in Activation
         /\ Len(Self.opds) = IF Self.step = 1 THEN 0 ELSE 1
         /\ Len(Self.ptrs) = IF Self.step = 1 THEN 0 ELSE Self.step - 2
         /\ Self.ptrs \in Seq(Pointer) /\ Self.start \in Nat
         /\ Has(Kinds(nodes[Self.node]), 3, {"condition"})
         /\ Has(Kinds(nodes[Self.node]), 6, {"statements"})
         /\ Kids[3] \in Child /\ Kids[6] \in Child
         /\ KindOf(Self) \notin Valued /\ KindOf(Self) # "assign"
         /\ KindOf(Self) \in Tests
         /\ Live(Self) <=> Self.step = 2
         /\ Len(Self.opds) = 0 <=> Self.step = 1
<1>1. /\ Self.node \in DOMAIN nodes /\ nodes \in Trees
      /\ Self \in Activation /\ Fit(Self, Len(Self.opds))
  BY SelfFacts DEF FrameInv
<1>2. TestFit(Self, Len(Self.opds))
  BY <1>1 DEF Fit
<1>3. /\ Has(Kinds(nodes[Self.node]), 3, {"condition"})
      /\ Has(Kinds(nodes[Self.node]), 6, {"statements"})
  BY <1>1, TreeFacts DEF Readable, KindOf
<1>4. Kids[3] \in Child /\ Kids[6] \in Child
  BY <1>3, Kid
<1> QED
  BY <1>1, <1>2, <1>3, <1>4 DEF TestFit, Activation, Live, Valued, Tests

(* What the parts of a test return. *)
LEMMA TestKinds ==
  /\ {"condition"} \in SUBSET NonTerminals /\ {"condition"} \subseteq Valued
  /\ {"statements"} \in SUBSET NonTerminals /\ "statements" \notin Valued
  /\ Yields("condition") = 1 /\ Yields("statements") = 0
BY DEF NonTerminals, Valued, Yields

(* The first jump of an if or a while is patched to go behind a goto. *)
LEMMA TestGoto ==
  ASSUME FrameInv, PointersAtJumps, stack # << >>,
         KindOf(Self) \in {"branch", "loop"}, Self.step = 3, Enlarge,
         instrs' = Patched(Append(instrs, Goto(NULL)), Self.ptrs[1],
                           Len(instrs) + 1),
         stack' = Calling(Pointing(Onward), Kids[6]),
         UNCHANGED <<nodes, declared, errs, tmp_cnt>>
  PROVE  AnalyserStep /\ Patches
<1>1. /\ Len(Self.opds) = 1 /\ Len(Self.ptrs) = 1
      /\ Has(Kinds(nodes[Self.node]), 6, {"statements"})
      /\ Kids[6] \in Child
      /\ KindOf(Self) \notin Valued /\ KindOf(Self) # "assign"
      /\ KindOf(Self) \in Tests
  BY TestFacts
<1>2. PICK self \in Activation : self = Pointing(Onward)
  BY <1>1, PointingFacts
<1>3. /\ self.node = Self.node /\ self.opds = Self.opds
      /\ self.start = Self.start /\ self.step = Self.step + 1
      /\ self.ptrs = Append(Self.ptrs, LastAdded)
      /\ Len(self.ptrs) = Len(Self.ptrs) + 1 /\ KindOf(self) = KindOf(Self)
  BY <1>1, <1>2, PointingFacts
<1>4. Fit(self, Len(self.opds) + Yields("statements"))
  BY <1>1, TestKinds, <1>3 DEF Fit, TestFit
<1>5. ~Live(self)
  BY <1>1, <1>3 DEF Live, Valued
<1>6. stack' = Calling(self, Kids[6])
  BY <1>2
<1>7. Awaited
  BY <1>1, WaitsHere
<1>8. /\ MemoryOK' /\ Len(instrs') = Len(instrs) + 1
      /\ Added \in Instruction
      /\ Added.op = "GOTO" /\ Added.dest = Label(NULL)
      /\ \A k \in 1..Len(instrs) :
           /\ instrs'[k].op = instrs[k].op
           /\ instrs'[k].src1 = instrs[k].src1
           /\ instrs'[k].src2 = instrs[k].src2
           /\ instrs'[k].dest =
                IF Self.ptrs[1].block = block' /\ k = Self.ptrs[1].index
                THEN Label(Len(instrs) + 1) ELSE instrs[k].dest
  <2>1. Goto(NULL) \in Instruction
    BY GotoIn
  <2>2. 1 \in 1..Len(Self.ptrs)
    BY <1>1
  <2> QED
    BY <1>1, <2>1, <2>2, GotoAdded
<1>9. KeepsPointers(self)
  BY <1>3, <1>8 DEF KeepsPointers, Jumps
<1>10. Enters(self, Kids[6]) /\ Kids[6] \in Child
  BY <1>1, TestKinds, <1>3, <1>4, <1>5, <1>6, <1>9, Descends
<1>11. Settles
  BY <1>1, <1>5, <1>10 DEF Settles
<1>12. CodeStep
  <2>1. 1 \in 1..Len(Self.ptrs) /\ Enlarge /\ tmp_cnt' = tmp_cnt
        /\ Added.dest.type = "LABEL" /\ Added.dest.val = NULL
    BY <1>1, <1>8 DEF Label
  <2> QED
    BY <1>1, <1>7, <1>8, <1>11, <2>1, JumpAdded
<1>13. Patches
  <2>1. /\ block <= block' /\ block' \in Nat /\ Self.step - 2 = 1
    BY EnlargeRoom
  <2> QED
    BY <1>1, <1>8, <2>1, TestPatches
<1>14. StackStep
  BY <1>1, <1>10 DEF StackStep
<1> QED
  BY <1>8, <1>12, <1>13, <1>14, SameErrors DEF AnalyserStep

(* analyse_branch patches the jumps that it has added. *)
LEMMA BranchStep ==
  ASSUME FrameInv, TestsHoldTemporaries, PointersAtJumps, AnalyseBranch
  PROVE  AnalyserStep /\ Patches
<1>1. /\ stack # << >> /\ KindOf(Self) = "branch"
      /\ Self.node \in DOMAIN nodes /\ nodes \in Trees
      /\ Self.step \in 1..4 /\ Self \in Activation
      /\ Len(Self.opds) = IF Self.step = 1 THEN 0 ELSE 1
      /\ Len(Self.ptrs) = IF Self.step = 1 THEN 0 ELSE Self.step - 2
      /\ Self.ptrs \in Seq(Pointer)
  BY TestFacts DEF AnalyseBranch, At, In, KindOf
<1>2. /\ Has(Kinds(nodes[Self.node]), 3, {"condition"})
      /\ Has(Kinds(nodes[Self.node]), 8, {"statements"})
  BY <1>1, TreeFacts DEF Readable, KindOf
<1>3. /\ KindOf(Self) \notin Valued /\ KindOf(Self) # "assign"
      /\ KindOf(Self) \in Tests
      /\ Live(Self) <=> Self.step = 2
      /\ Len(Self.opds) = 0 <=> Self.step = 1
  BY <1>1, TestFacts
<1>5. Kids[3] \in Child /\ Kids[8] \in Child
  BY <1>1, <1>2, Kid
<1>6. CASE Self.step = 1 /\ stack' = Calling(Onward, Kids[3]) /\ OnlyCalls
  <2>1. /\ Onward \in Activation /\ Onward.node = Self.node
        /\ Onward.opds = Self.opds /\ Onward.start = Self.start
        /\ Onward.ptrs = Self.ptrs /\ KeepsPointers(Onward)
        /\ Onward.step = Self.step + 1 /\ KindOf(Onward) = "branch"
    BY <1>1, OnwardFacts
  <2>2. Fit(Onward, Len(Onward.opds) + Yields("condition"))
    BY <1>1, TestKinds, <1>6, <2>1 DEF Fit, TestFit
  <2>3. Onward.opds = << >>
    BY <1>1, <1>3, <1>6, <2>1, EmptySeq DEF Activation
  <2>4. Enters(Onward, Kids[3]) /\ Kids[3] \in Child
    BY <1>1, <1>2, <1>3, TestKinds, <1>6, <2>1, <2>2, <2>3, Descends
  <2>5. Patches
    BY <1>6 DEF Patches, Awaits
  <2> QED
    BY <1>1, <1>6, <2>1, <2>4, <2>5, CallsOnly
<1>7. CASE /\ Self.step = 2 /\ Add(Branch(NULL))
           /\ stack' = Calling(Pointing(Onward), Kids[8])
           /\ UNCHANGED <<nodes, declared, errs, tmp_cnt>>
  <2>1. PICK self \in Activation : self = Pointing(Onward)
    BY <1>1, <1>7, PointingFacts DEF Add
  <2>2. /\ self.node = Self.node /\ self.opds = Self.opds
        /\ self.start = Self.start /\ self.step = Self.step + 1
        /\ self.ptrs = Append(Self.ptrs, LastAdded)
        /\ Len(self.ptrs) = Len(Self.ptrs) + 1 /\ KindOf(self) = KindOf(Self)
    BY <1>1, <1>7, <2>1, PointingFacts DEF Add
  <2>3. Fit(self, Len(self.opds) + Yields("statements"))
    <3>1. /\ self.step = 3 /\ Len(self.opds) = 1 /\ Len(self.ptrs) = 1
          /\ KindOf(self) = "branch"
      BY <1>1, <1>7, <2>2
    <3> QED
      BY TestKinds, <3>1 DEF Fit, TestFit
  <2>4. ~Live(self)
    BY <1>1, <1>7, <2>2 DEF Live, Valued
  <2>5. stack' = Calling(self, Kids[8])
    BY <1>7, <2>1
  <2>6. KeepsPointers(self)
    <3>1. Len(instrs') = Len(instrs) + 1 /\ Added.op = "BRANCH"
      <4>1. Self.opds[1] \in Operand
        BY <1>1, <1>3, <1>7, HeldHere
      <4>2. /\ Branch(NULL) \in Instruction /\ Branch(NULL).op = "BRANCH"
        BY <4>1, BranchIn
      <4> QED
        BY <1>7, <4>2, AddedCode DEF FrameInv, TypeOK
    <3> QED
      BY <2>2, <3>1 DEF KeepsPointers, Jumps
  <2>7. Enters(self, Kids[8]) /\ Kids[8] \in Child
    BY <1>1, <1>2, <1>3, TestKinds, <2>2, <2>3, <2>4, <2>5, <2>6, Descends
  <2>8. Settles
    BY <1>1, <1>3, <2>4, <2>7 DEF Settles
  <2>9. Awaited
    BY <1>1, <1>5, <1>7, WaitsHere DEF Add
  <2>10. CodeStep /\ MemoryOK'
    <3>1. Add(Branch(NULL)) /\ tmp_cnt' = tmp_cnt /\ Live(Self)
          /\ Len(Self.opds) = 1 /\ NULL \in Nat \cup {NULL}
          /\ NULL \in {NULL} \cup Marks
      BY <1>1, <1>3, <1>7
    <3> QED
      BY <1>1, <1>3, <2>8, <2>9, <3>1, BranchAdded
  <2>11. StackStep
    BY <1>1, <2>7 DEF StackStep
  <2>12. Patches
    BY <1>7 DEF Patches, Awaits
  <2> QED
    BY <1>7, <2>10, <2>11, <2>12, SameErrors DEF AnalyserStep
<1>8. CASE /\ Self.step = 3 /\ Enlarge
           /\ instrs' = Patched(Append(instrs, Goto(NULL)), Self.ptrs[1],
                                Len(instrs) + 1)
           /\ stack' = Calling(Pointing(Onward), Kids[6])
           /\ UNCHANGED <<nodes, declared, errs, tmp_cnt>>
  BY <1>1, <1>8, TestGoto
<1>9. CASE /\ Self.step = 4 /\ UNCHANGED <<capacity, block>>
           /\ instrs' = Patched(instrs, Self.ptrs[2], Len(instrs))
           /\ stack' = Returned
           /\ UNCHANGED <<nodes, declared, errs, tmp_cnt>>
  <2>1. Leaves /\ StackStep /\ Settles
    BY <1>1, <1>3, <1>9 DEF StackStep, Leaves, Settles
  <2>2. 2 \in 1..Len(Self.ptrs) /\ UNCHANGED <<capacity, block, tmp_cnt>>
        /\ block <= block' /\ block' \in Nat /\ Self.step - 2 = 2
    BY <1>1, <1>9 DEF FrameInv, TypeOK
  <2>3. /\ CodeStep /\ MemoryOK' /\ Len(instrs') = Len(instrs)
        /\ \A k \in 1..Len(instrs) :
             instrs'[k].dest =
               IF Self.ptrs[2].block = block' /\ k = Self.ptrs[2].index
               THEN Label(Len(instrs)) ELSE instrs[k].dest
    BY <1>1, <1>9, <2>1, <2>2, JumpPatched
  <2>4. Patches
    BY <1>1, <1>9, <2>2, <2>3, TestPatches
  <2> QED
    BY <1>9, <2>1, <2>3, <2>4, SameErrors DEF AnalyserStep
<1> QED
  BY <1>1, <1>6, <1>7, <1>8, <1>9 DEF AnalyseBranch, At

(* The label of a loop is one of the marks. *)
LEMMA StartHere ==
  ASSUME FrameInv, stack # << >>
  PROVE  Self.start \in Marks /\ Self.start \in Nat /\ Self.start # NULL
<1>1. Top \in DOMAIN stack /\ stack[Top] = Self /\ Self \in Activation
  BY SelfFacts
<1>2. Self.start \in Marks
  BY <1>1 DEF Marks
<1>3. Self.start \in Nat
  BY <1>1 DEF Activation
<1> QED
  BY <1>2, <1>3, CodeAssumption

(* The activation of a loop that has set its label. *)
LEMMA StartingFacts ==
  ASSUME FrameInv, stack # << >>
  PROVE  LET self == [Onward EXCEPT !.start = Len(instrs)]
         IN /\ self \in Activation /\ self.node = Self.node
            /\ self.opds = Self.opds /\ self.ptrs = Self.ptrs
            /\ self.start = Len(instrs) /\ self.step = Self.step + 1
            /\ KindOf(self) = KindOf(Self) /\ KeepsPointers(self)
<1>1. /\ Onward \in Activation /\ Onward.node = Self.node
      /\ Onward.opds = Self.opds /\ Onward.ptrs = Self.ptrs
      /\ Onward.step = Self.step + 1
  BY OnwardFacts
<1>2. Len(instrs) \in Nat
  BY LenProperties DEF FrameInv, TypeOK
<1> QED
  BY <1>1, <1>2 DEF Activation, KindOf, KeepsPointers

(* So does analyse_loop, whose goto leads back to its label. *)
LEMMA LoopStep ==
  ASSUME FrameInv, TestsHoldTemporaries, PointersAtJumps, AnalyseLoop
  PROVE  AnalyserStep /\ Patches
<1>1. /\ stack # << >> /\ KindOf(Self) = "loop"
      /\ Self.node \in DOMAIN nodes /\ nodes \in Trees
      /\ Self.step \in 1..4 /\ Self \in Activation
      /\ Len(Self.opds) = IF Self.step = 1 THEN 0 ELSE 1
      /\ Len(Self.ptrs) = IF Self.step = 1 THEN 0 ELSE Self.step - 2
      /\ Self.ptrs \in Seq(Pointer)
      /\ Has(Kinds(nodes[Self.node]), 3, {"condition"})
  BY TestFacts DEF AnalyseLoop, At, In, KindOf
<1>2. /\ KindOf(Self) \notin Valued /\ KindOf(Self) # "assign"
      /\ KindOf(Self) \in Tests
      /\ Live(Self) <=> Self.step = 2
      /\ Len(Self.opds) = 0 <=> Self.step = 1
  BY <1>1, TestFacts
<1>3. CASE /\ Self.step = 1 /\ OnlyCalls
           /\ stack' = Calling([Onward EXCEPT !.start = Len(instrs)], Kids[3])
  <2>1. PICK self \in Activation : self = [Onward EXCEPT !.start = Len(instrs)]
    BY <1>1, StartingFacts
  <2>2. /\ self.node = Self.node /\ self.opds = Self.opds
        /\ self.ptrs = Self.ptrs /\ self.start = Len(instrs)
        /\ self.step = Self.step + 1
        /\ KindOf(self) = KindOf(Self) /\ KeepsPointers(self)
    BY <1>1, <2>1, StartingFacts
  <2>3. Fit(self, Len(self.opds) + Yields("condition"))
    <3>1. /\ self.step = 2 /\ Len(self.opds) = 0 /\ Len(self.ptrs) = 0
          /\ KindOf(self) = "loop"
      BY <1>1, <1>3, <2>2
    <3> QED
      BY TestKinds, <3>1 DEF Fit, TestFit
  <2>4. self.opds = << >>
    BY <1>1, <1>2, <1>3, <2>2, EmptySeq DEF Activation
  <2>5. stack' = Calling(self, Kids[3]) /\ instrs' = instrs
    BY <1>3, <2>1 DEF OnlyCalls, memory
  <2>6. Enters(self, Kids[3]) /\ Kids[3] \in Child
    BY <1>1, <1>2, <1>3, TestKinds, <2>2, <2>3, <2>4, <2>5, Descends
  <2>7. Patches
    BY <1>3 DEF Patches, Awaits
  <2> QED
    BY <1>1, <1>3, <2>6, <2>7, CallsOnly
<1>4. CASE /\ Self.step = 2 /\ Add(Branch(NULL))
           /\ stack' = Stepping(Pointing(Onward))
           /\ UNCHANGED <<nodes, declared, errs, tmp_cnt>>
  <2>1. PICK self \in Activation : self = Pointing(Onward)
    BY <1>1, <1>4, PointingFacts DEF Add
  <2>2. /\ self.node = Self.node /\ self.opds = Self.opds
        /\ self.start = Self.start /\ self.step = Self.step + 1
        /\ self.ptrs = Append(Self.ptrs, LastAdded)
        /\ Len(self.ptrs) = Len(Self.ptrs) + 1 /\ KindOf(self) = KindOf(Self)
    BY <1>1, <1>4, <2>1, PointingFacts DEF Add
  <2>3. Fit(self, Len(self.opds))
    <3>1. /\ self.step = 3 /\ Len(self.opds) = 1 /\ Len(self.ptrs) = 1
          /\ KindOf(self) = "loop"
      BY <1>1, <1>4, <2>2
    <3> QED
      BY <3>1 DEF Fit, TestFit
  <2>4. ~Live(self)
    BY <1>1, <1>4, <2>2 DEF Live, Valued
  <2>5. stack' = Stepping(self)
    BY <1>4, <2>1
  <2>6. KeepsPointers(self)
    <3>1. Len(instrs') = Len(instrs) + 1 /\ Added.op = "BRANCH"
      <4>1. Self.opds[1] \in Operand
        BY <1>1, <1>2, <1>4, HeldHere
      <4>2. /\ Branch(NULL) \in Instruction /\ Branch(NULL).op = "BRANCH"
        BY <4>1, BranchIn
      <4> QED
        BY <1>4, <4>2, AddedCode DEF FrameInv, TypeOK
    <3> QED
      BY <2>2, <3>1 DEF KeepsPointers, Jumps
  <2>7. Stays(self)
    BY <1>2, <2>2, <2>3, <2>4, <2>5, <2>6 DEF Stays
  <2>8. Settles
    BY <1>1, <1>2, <2>4, <2>7 DEF Settles
  <2>9. Awaited
    BY <1>1, <1>4, WaitsHere DEF Add
  <2>10. CodeStep /\ MemoryOK'
    <3>1. Add(Branch(NULL)) /\ tmp_cnt' = tmp_cnt /\ Live(Self)
          /\ Len(Self.opds) = 1 /\ NULL \in Nat \cup {NULL}
          /\ NULL \in {NULL} \cup Marks
      BY <1>1, <1>2, <1>4
    <3> QED
      BY <1>1, <1>2, <2>8, <2>9, <3>1, BranchAdded
  <2>11. StackStep
    BY <1>1, <2>7 DEF StackStep
  <2>12. Patches
    BY <1>4 DEF Patches, Awaits
  <2> QED
    BY <1>4, <2>10, <2>11, <2>12, SameErrors DEF AnalyserStep
<1>5. CASE /\ Self.step = 3 /\ Enlarge
           /\ instrs' = Patched(Append(instrs, Goto(NULL)), Self.ptrs[1],
                                Len(instrs) + 1)
           /\ stack' = Calling(Pointing(Onward), Kids[6])
           /\ UNCHANGED <<nodes, declared, errs, tmp_cnt>>
  BY <1>1, <1>5, TestGoto
<1>6. CASE /\ Self.step = 4 /\ Enlarge
           /\ instrs' = Patched(Append(instrs, Goto(Self.start)), Self.ptrs[2],
                                Len(instrs) + 1)
           /\ stack' = Returned
           /\ UNCHANGED <<nodes, declared, errs, tmp_cnt>>
  <2>1. Leaves /\ StackStep /\ Settles
    BY <1>1, <1>2, <1>6 DEF StackStep, Leaves, Settles
  <2>2. 2 \in 1..Len(Self.ptrs) /\ Self.step - 2 = 2
    BY <1>1, <1>6
  <2>3. Self.start \in Marks /\ Self.start \in Nat /\ Self.start # NULL
    BY <1>1, StartHere
  <2>4. /\ MemoryOK' /\ Len(instrs') = Len(instrs) + 1
        /\ Added \in Instruction
        /\ Added.op = "GOTO" /\ Added.dest = Label(Self.start)
        /\ \A k \in 1..Len(instrs) :
             /\ instrs'[k].op = instrs[k].op
             /\ instrs'[k].src1 = instrs[k].src1
             /\ instrs'[k].src2 = instrs[k].src2
             /\ instrs'[k].dest =
                  IF Self.ptrs[2].block = block' /\ k = Self.ptrs[2].index
                  THEN Label(Len(instrs) + 1) ELSE instrs[k].dest
    <3>1. Goto(Self.start) \in Instruction
      BY <2>3, GotoIn
    <3> QED
      BY <1>1, <1>6, <2>2, <3>1, GotoAdded
  <2>5. CodeStep
    <3>1. Enlarge /\ tmp_cnt' = tmp_cnt /\ Added.dest.type = "LABEL"
          /\ Added.dest.val \in {NULL} \cup Marks /\ Added.dest.val # NULL
      BY <1>6, <2>3, <2>4 DEF Label
    <3> QED
      BY <1>1, <2>1, <2>2, <2>4, <3>1, JumpAdded
  <2>6. Patches
    <3>1. block <= block' /\ block' \in Nat
      BY <1>6, EnlargeRoom
    <3> QED
      <4>1. Self.step \in 3..4 /\ Len(Self.ptrs) = Self.step - 2
        BY <1>1, <1>6
      <4>2. \A k \in 1..Len(instrs) :
              instrs'[k].dest =
                IF /\ Self.ptrs[Self.step - 2].block = block'
                   /\ k = Self.ptrs[Self.step - 2].index
                THEN Label(Len(instrs')) ELSE instrs[k].dest
        BY <2>2, <2>4
      <4> QED
        BY <1>1, <3>1, <4>1, <4>2, TestPatches
  <2> QED
    BY <1>6, <2>1, <2>4, <2>5, <2>6, SameErrors DEF AnalyserStep
<1> QED
  BY <1>1, <1>3, <1>4, <1>5, <1>6 DEF AnalyseLoop, At

(* analyse_repeat jumps back to a label that it knows. *)
LEMMA RepeatStep ==
  ASSUME FrameInv, TestsHoldTemporaries, AnalyseRepeat
  PROVE  AnalyserStep
<1>1. /\ stack # << >> /\ KindOf(Self) = "repeat"
      /\ Self.node \in DOMAIN nodes /\ nodes \in Trees
      /\ Self.step \in 1..3 /\ Self \in Activation
      /\ Len(Self.opds) = IF Self.step = 3 THEN 1 ELSE 0
      /\ Self.opds \in Seq(Operand)
  BY SelfFacts DEF AnalyseRepeat, At, In, KindOf, Fit, FrameInv
<1>2. /\ Has(Kinds(nodes[Self.node]), 2, {"statements"})
      /\ Has(Kinds(nodes[Self.node]), 5, {"condition"})
  BY <1>1, TreeFacts DEF Readable, KindOf
<1>3. /\ KindOf(Self) \notin Valued /\ KindOf(Self) # "assign"
      /\ KindOf(Self) \in Tests
      /\ Live(Self) <=> Self.step = 3
  BY <1>1 DEF Live, Valued, Tests
<1>4. CASE /\ Self.step = 1 /\ OnlyCalls
           /\ stack' = Calling([Onward EXCEPT !.start = Len(instrs)], Kids[2])
  <2>1. PICK self \in Activation : self = [Onward EXCEPT !.start = Len(instrs)]
    BY <1>1, StartingFacts
  <2>2. /\ self.node = Self.node /\ self.opds = Self.opds
        /\ self.start = Len(instrs) /\ self.step = Self.step + 1
        /\ KindOf(self) = KindOf(Self) /\ KeepsPointers(self)
    BY <1>1, <2>1, StartingFacts
  <2>3. self.step = 2 /\ Len(self.opds) = 0 /\ KindOf(self) = "repeat"
    BY <1>1, <1>4, <2>2
  <2>4. Fit(self, Len(self.opds) + Yields("statements")) /\ ~Live(self)
    BY TestKinds, <2>3 DEF Fit, Live, Valued
  <2>5. stack' = Calling(self, Kids[2]) /\ instrs' = instrs
    BY <1>4, <2>1 DEF OnlyCalls, memory
  <2>6. Enters(self, Kids[2]) /\ Kids[2] \in Child
    BY <1>1, <1>2, <1>3, <1>4, TestKinds, <2>2, <2>3, <2>4, <2>5, Descends
  <2> QED
    BY <1>1, <1>4, <2>6, CallsOnly
<1>5. CASE /\ Self.step = 2 /\ OnlyCalls
           /\ stack' = Calling(Onward, Kids[5])
  <2>1. /\ Onward \in Activation /\ Onward.node = Self.node
        /\ Onward.opds = Self.opds /\ Onward.start = Self.start
        /\ KeepsPointers(Onward)
        /\ Onward.step = Self.step + 1 /\ KindOf(Onward) = "repeat"
    BY <1>1, OnwardFacts
  <2>2. Fit(Onward, Len(Onward.opds) + Yields("condition"))
    BY <1>1, <1>5, TestKinds, <2>1 DEF Fit
  <2>3. Onward.opds = << >>
    BY <1>1, <1>5, <2>1, EmptySeq
  <2>4. Enters(Onward, Kids[5]) /\ Kids[5] \in Child
    BY <1>1, <1>2, <1>3, <1>5, TestKinds, <2>1, <2>2, <2>3, Descends
  <2> QED
    BY <1>1, <1>5, <2>1, <2>4, CallsOnly
<1>6. CASE /\ Self.step = 3 /\ Add(Branch(Self.start))
           /\ stack' = Returned
           /\ UNCHANGED <<nodes, declared, errs, tmp_cnt>>
  <2>1. Leaves /\ StackStep /\ Settles
    BY <1>1, <1>3, <1>6 DEF StackStep, Leaves, Settles
  <2>2. Self.start \in Marks /\ Self.start \in Nat /\ Self.start # NULL
    BY <1>1, StartHere
  <2>3. CodeStep /\ MemoryOK'
    <3>1. /\ Live(Self) /\ Len(Self.opds) = 1 /\ tmp_cnt' = tmp_cnt
          /\ Self.start \in Nat \cup {NULL} /\ Self.start \in {NULL} \cup Marks
      BY <1>1, <1>3, <1>6, <2>2
    <3> QED
      BY <1>1, <1>3, <1>6, <2>1, <2>2, <3>1, BranchAdded
  <2> QED
    BY <1>6, <2>1, <2>3, SameErrors DEF AnalyserStep
<1> QED
  BY <1>1, <1>4, <1>5, <1>6 DEF AnalyseRepeat, At

-----------------------------------------------------------------------------
(* An instruction that computes is added. *)
LEMMA TemporaryAdded ==
  ASSUME FrameInv, NEW op \in Arithmetic \cup RelOps \cup Unary,
         NEW s1 \in Operand, NEW s2 \in Operand,
         Held(s1), op \notin Unary => Held(s2),
         AddTemporary(op, s1, s2)
  PROVE  /\ CodeStep /\ MemoryOK'
         /\ Temporary(tmp_cnt) \in Operand /\ Fresh(Temporary(tmp_cnt))
         /\ Temporary(tmp_cnt).type = "TEMPORARY"
<1> DEFINE i == Instr(op, s1, s2, Temporary(tmp_cnt))
<1>1. tmp_cnt \in Nat /\ tmp_cnt' = tmp_cnt + 1
  BY DEF FrameInv, TypeOK, AddTemporary
<1>2. Temporary(tmp_cnt) \in Operand /\ op \in Ops
  BY <1>1, OperandKinds DEF Ops
<1>3. /\ i \in Instruction /\ i.op = op /\ i.src1 = s1 /\ i.src2 = s2
      /\ i.dest = Temporary(tmp_cnt)
  BY <1>2, InstrIn
<1> HIDE DEF i
<1>4. Computes(i) /\ i.op \notin Jumps \cup {"ASSIGN", "READ", "WRITE"}
  BY <1>3 DEF Computes, Jumps, Arithmetic, RelOps, Unary
<1>5. \A o \in Sources(i) : Held(o)
  BY <1>3, SourcesOf DEF Arithmetic, RelOps, Unary
<1>6. Emits(i)
  BY <1>1, <1>3, <1>4, <1>5 DEF Emits, Jumps
<1>7. Add(i)
  BY DEF AddTemporary, i
<1>8. CodeStep /\ MemoryOK'
  BY <1>3, <1>6, <1>7, EmittedCode
<1>9. Len(instrs') = Len(instrs) + 1 /\ Added = i
  BY <1>1, <1>3, <1>7, AddedCode
<1>10. Fresh(Temporary(tmp_cnt))
  BY <1>3, <1>4, <1>9 DEF Fresh
<1> QED
  BY <1>2, <1>8, <1>10 DEF Temporary

(* A function that returns an operand. *)
LEMMA ReturnStep ==
  ASSUME stack # << >>, NEW o \in Operand, LeavesWith(o), nodes' = nodes,
         CodeStep, MemoryOK', ErrorStep
  PROVE  AnalyserStep
BY DEF AnalyserStep, StackStep

(* analyse_condition computes a temporary from two held operands. *)
LEMMA ConditionStep ==
  ASSUME FrameInv, AnalyseCondition
  PROVE  AnalyserStep
<1>1. /\ stack # << >> /\ KindOf(Self) = "condition"
      /\ Self.node \in DOMAIN nodes /\ nodes \in Trees
      /\ Self.step \in 1..3 /\ Len(Self.opds) = Self.step - 1
  BY SelfFacts DEF AnalyseCondition, At, In, KindOf, Fit, FrameInv
<1>2. /\ Has(Kinds(nodes[Self.node]), 1, {"expression"})
      /\ Has(Kinds(nodes[Self.node]), 2, RelOps)
      /\ Has(Kinds(nodes[Self.node]), 3, {"expression"})
  BY <1>1, TreeFacts DEF Readable, KindOf
<1>3. /\ KindOf(Self) \in Valued /\ KindOf(Self) # "assign"
      /\ KindOf(Self) \notin Tests /\ Live(Self)
  BY <1>1 DEF Live, Valued, Tests
<1>4. /\ {"expression"} \in SUBSET NonTerminals /\ {"expression"} \subseteq Valued
      /\ Yields("expression") = 1
  BY DEF NonTerminals, Valued, Yields
<1>5. /\ Onward \in Activation /\ Onward.node = Self.node
      /\ Onward.opds = Self.opds /\ Onward.start = Self.start
      /\ KeepsPointers(Onward)
      /\ Onward.step = Self.step + 1 /\ KindOf(Onward) = "condition"
  BY <1>1, OnwardFacts
<1>6. Self.step < 3 => Fit(Onward, Len(Onward.opds) + Yields("expression"))
  BY <1>1, <1>4, <1>5 DEF Fit
<1>7. CASE Self.step = 1 /\ stack' = Calling(Onward, Kids[1]) /\ OnlyCalls
  <2>1. Enters(Onward, Kids[1]) /\ Kids[1] \in Child
    BY <1>1, <1>2, <1>3, <1>4, <1>5, <1>6, <1>7, Descends
  <2> QED
    BY <1>1, <1>5, <1>7, <2>1, CallsOnly
<1>8. CASE Self.step = 2 /\ stack' = Calling(Onward, Kids[3]) /\ OnlyCalls
  <2>1. Enters(Onward, Kids[3]) /\ Kids[3] \in Child
    BY <1>1, <1>2, <1>3, <1>4, <1>5, <1>6, <1>8, Descends
  <2> QED
    BY <1>1, <1>5, <1>8, <2>1, CallsOnly
<1>9. CASE /\ Self.step = 3
           /\ AddTemporary(Kids[2].type, Self.opds[1], Self.opds[2])
           /\ stack' = Returning(Temporary(tmp_cnt))
           /\ UNCHANGED <<nodes, declared, errs>>
  <2>1. Kids[2].type \in Arithmetic \cup RelOps \cup Unary
    BY <1>1, <1>2, Kid
  <2>2. 1 \in 1..Len(Self.opds) /\ 2 \in 1..Len(Self.opds)
    BY <1>1, <1>9
  <2>3. /\ Self.opds[1] \in Operand /\ Held(Self.opds[1])
        /\ Self.opds[2] \in Operand /\ Held(Self.opds[2])
    BY <1>1, <1>3, <2>2, HeldHere
  <2>4. /\ CodeStep /\ MemoryOK'
        /\ Temporary(tmp_cnt) \in Operand /\ Fresh(Temporary(tmp_cnt))
        /\ Temporary(tmp_cnt).type = "TEMPORARY"
    BY <1>9, <2>1, <2>3, TemporaryAdded
  <2>5. LeavesWith(Temporary(tmp_cnt))
    BY <1>3, <1>9, <2>4 DEF LeavesWith
  <2> QED
    BY <1>1, <1>9, <2>4, <2>5, ReturnStep, SameErrors
<1> QED
  BY <1>1, <1>7, <1>8, <1>9 DEF AnalyseCondition, At

(* An expression or a term, and its children. *)
LEMMA ChainFacts ==
  ASSUME FrameInv, stack # << >>, NEW nt \in {"expression", "term"},
         KindOf(Self) = nt
  PROVE  /\ ChainFit(Self, Len(Self.opds)) /\ Kids = KidsOf(Self)
         /\ Self.step \in Nat /\ Len(Kids) \in Nat
         /\ \A i \in 1..Len(Kids) :
              /\ i % 2 = 1 =>
                   Has(Kinds(nodes[Self.node]), i,
                       {IF nt = "expression" THEN "term" ELSE "factor"})
              /\ i % 2 # 1 => Kids[i].type \in {"PLUS", "MINUS", "MUL", "DIV"}
<1>1. /\ Self.node \in DOMAIN nodes /\ nodes \in Trees
      /\ Fit(Self, Len(Self.opds)) /\ Kids = KidsOf(Self) /\ Self.step \in Nat
  BY SelfFacts DEF FrameInv
<1>2. nodes[Self.node] \in Node /\ Readable(nodes[Self.node])
  BY <1>1, TreeFacts
<1> DEFINE ks == Kinds(nodes[Self.node])
           operand == IF nt = "expression" THEN "term" ELSE "factor"
<1>3. /\ Len(Kids) \in Nat /\ DOMAIN Kids = 1..Len(Kids)
      /\ DOMAIN ks = 1..Len(Kids)
      /\ \A i \in 1..Len(Kids) : ks[i] = Kids[i].type
  BY <1>1, <1>2, LenProperties DEF Kinds, Node, KidsOf
<1>4. nodes[Self.node].nt = nt
  BY DEF KindOf
<1>5. \/ ChainReadable(ks, operand, {"PLUS", "MINUS"})
      \/ ChainReadable(ks, operand, {"MUL", "DIV"})
  BY <1>2, <1>4 DEF Readable
<1> HIDE DEF ks, operand
<1>6. \A i \in 1..Len(Kids) :
        /\ i % 2 = 1 => ks[i] \in {operand}
        /\ i % 2 # 1 => ks[i] \in {"PLUS", "MINUS", "MUL", "DIV"}
  BY <1>3, <1>5 DEF ChainReadable
<1>7. ChainFit(Self, Len(Self.opds))
  BY <1>1 DEF Fit
<1>8. \A i \in 1..Len(Kids) : i % 2 = 1 => Has(ks, i, {operand})
  BY <1>3, <1>6 DEF Has
<1> QED
  BY <1>1, <1>3, <1>6, <1>7, <1>8 DEF ks, operand

(* analyse_expression and analyse_term compute from what they hold. *)
LEMMA ChainStep ==
  ASSUME FrameInv, NEW nt \in {"expression", "term"}, AnalyseChain(nt)
  PROVE  AnalyserStep
<1>1. /\ stack # << >> /\ KindOf(Self) = nt
      /\ Self \in Activation /\ Self.opds \in Seq(Operand)
      /\ Len(Self.opds) \in Nat
  BY SelfFacts DEF AnalyseChain, In, KindOf
<1>2. /\ Self.step % 2 = 1 /\ Self.step <= Len(Kids) + 2
      /\ \/ Self.step = 1 /\ Len(Self.opds) = 0
         \/ Self.step >= 3 /\ Len(Self.opds) = 1
         \/ Self.step >= 5 /\ Len(Self.opds) = 2
      /\ Kids = KidsOf(Self) /\ Self.step \in Nat /\ Len(Kids) \in Nat
  BY <1>1, ChainFacts DEF ChainFit
<1>3. /\ KindOf(Self) \in Valued /\ KindOf(Self) # "assign"
      /\ KindOf(Self) \notin Tests /\ KindOf(Self) # "condition" /\ Live(Self)
  BY <1>1 DEF Live, Valued, Tests
<1>4. CASE /\ Len(Self.opds) < 2 /\ Self.step <= Len(Kids) /\ OnlyCalls
           /\ stack' = Calling([Self EXCEPT !.step = @ + 2], Kids[Self.step])
  <2> DEFINE operand == IF nt = "expression" THEN "term" ELSE "factor"
  <2>1. PICK k \in Nat : k = Self.step
    BY <1>2
  <2>2. Has(Kinds(nodes[Self.node]), k, {operand})
    <3>1. k \in 1..Len(Kids) /\ k % 2 = 1
      BY <1>2, <1>4, <2>1
    <3> QED
      BY <1>1, <3>1, ChainFacts
  <2>3. PICK self \in Activation : self = [Self EXCEPT !.step = Self.step + 2]
    <3>1. Self.step + 2 \in Nat
      BY <1>2
    <3> QED
      BY <1>1, <3>1, AtStep
  <2>4. /\ self.node = Self.node /\ self.opds = Self.opds
        /\ self.ptrs = Self.ptrs /\ self.start = Self.start
        /\ self.step = Self.step + 2
    BY <1>1, <1>2, <2>3, AtStep
  <2>5. KindOf(self) = nt /\ KidsOf(self) = Kids
    BY <1>1, <1>2, <2>4 DEF KindOf, KidsOf
  <2>6. {operand} \in SUBSET NonTerminals /\ {operand} \subseteq Valued
        /\ Yields(operand) = 1
    BY DEF NonTerminals, Valued, Yields
  <2>7. ChainFit(self, Len(self.opds) + 1)
    BY <1>1, <1>2, <1>4, <2>4, <2>5 DEF ChainFit
  <2>8. Fit(self, Len(self.opds) + Yields(operand))
    BY <2>5, <2>6, <2>7 DEF Fit
  <2>9. stack' = Calling(self, Kids[k])
    BY <1>4, <2>1, <2>3
  <2> HIDE DEF operand
  <2>10. KeepsPointers(self)
    BY <2>4 DEF KeepsPointers
  <2>11. Enters(self, Kids[k]) /\ Kids[k] \in Child
    <3>1. \A x \in {operand} : Fit(self, Len(self.opds) + Yields(x))
      BY <2>8
    <3> QED
      BY <1>1, <1>3, <2>2, <2>4, <2>6, <2>9, <2>10, <3>1, Descends
  <2> QED
    BY <1>1, <1>4, <2>11, CallsOnly
<1>5. CASE /\ Len(Self.opds) = 2
           /\ AddTemporary(OpOf[Kids[Self.step - 3].type],
                           Self.opds[1], Self.opds[2])
           /\ stack' = Stepping([Self EXCEPT !.opds = <<Temporary(tmp_cnt)>>])
           /\ UNCHANGED <<nodes, declared, errs>>
  <2>1. Kids[Self.step - 3].type \in {"PLUS", "MINUS", "MUL", "DIV"}
    <3>1. PICK k \in Nat, n \in Nat : k = Self.step /\ n = Len(Kids)
      BY <1>2
    <3>2. k % 2 = 1 /\ k >= 5 /\ k <= n + 2
      BY <1>2, <1>5, <3>1
    <3>3. k - 3 \in 1..n /\ (k - 3) % 2 # 1
      BY <3>2
    <3> QED
      BY <1>1, <3>1, <3>3, ChainFacts
  <2>2. PICK op \in Arithmetic \cup RelOps \cup Unary :
          op = OpOf[Kids[Self.step - 3].type]
    BY <2>1 DEF OpOf, Arithmetic
  <2>3. op \notin Unary
    BY <2>1, <2>2 DEF OpOf, Unary
  <2>4. 1 \in 1..Len(Self.opds) /\ 2 \in 1..Len(Self.opds)
    BY <1>5
  <2>5. /\ Self.opds[1] \in Operand /\ Held(Self.opds[1])
        /\ Self.opds[2] \in Operand /\ Held(Self.opds[2])
    BY <1>1, <1>3, <2>4, HeldHere
  <2>6. AddTemporary(op, Self.opds[1], Self.opds[2])
    BY <1>5, <2>2
  <2>7. /\ CodeStep /\ MemoryOK'
        /\ Temporary(tmp_cnt) \in Operand /\ Fresh(Temporary(tmp_cnt))
    BY <2>3, <2>5, <2>6, TemporaryAdded
  <2>8. PICK o \in Operand : o = Temporary(tmp_cnt)
    BY <2>7
  <2>9. PICK self : self = [Self EXCEPT !.opds = <<o>>]
    OBVIOUS
  <2>10. <<o>> \in Seq(Operand) /\ Len(<<o>>) = 1 /\ DOMAIN <<o>> = {1}
         /\ <<o>>[1] = o
    OBVIOUS
  <2>11. /\ self \in Activation /\ self.node = Self.node
         /\ self.opds = <<o>> /\ self.ptrs = Self.ptrs
         /\ self.start = Self.start /\ self.step = Self.step
    BY <1>1, <2>9, <2>10 DEF Activation
  <2>12. KindOf(self) = nt /\ KidsOf(self) = Kids
    BY <1>1, <1>2, <2>11 DEF KindOf, KidsOf
  <2>13. Fit(self, Len(self.opds))
    <3>1. ChainFit(self, 1)
      BY <1>2, <1>5, <2>11, <2>12 DEF ChainFit
    <3> QED
      BY <2>10, <2>11, <2>12, <3>1 DEF Fit
  <2>14. stack' = Stepping(self)
    BY <1>5, <2>8, <2>9
  <2>15. \A i \in DOMAIN self.opds : Fresh(self.opds[i])
    BY <2>7, <2>8, <2>10, <2>11
  <2>16. Stays(self)
    BY <1>3, <2>11, <2>13, <2>14, <2>15 DEF Stays, KeepsPointers
  <2>17. StackStep
    BY <1>1, <2>11, <2>16 DEF StackStep
  <2> QED
    BY <1>5, <2>7, <2>17, SameErrors DEF AnalyserStep
<1>6. CASE /\ Len(Self.opds) = 1 /\ stack' = Returning(Self.opds[1]) /\ OnlyCalls
  <2>1. Self.opds[1] \in Operand /\ Held(Self.opds[1])
    BY <1>1, <1>3, <1>6, HeldHere
  <2>2. LeavesWith(Self.opds[1])
    BY <1>3, <1>6, <2>1 DEF LeavesWith, Fresh
  <2> QED
    BY <1>1, <1>6, <2>1, <2>2, ReturnStep, SameErrors, SameCode DEF OnlyCalls
<1> QED
  BY <1>4, <1>5, <1>6 DEF AnalyseChain

(* analyse_factor returns a fresh operand, or has reported an error. *)
LEMMA FactorStep ==
  ASSUME FrameInv, AnalyseFactor
  PROVE  AnalyserStep
<1> DEFINE c == Kids[1]
<1>1. /\ stack # << >> /\ KindOf(Self) = "factor"
      /\ Self.node \in DOMAIN nodes /\ nodes \in Trees
      /\ Self.step \in 1..2 /\ Len(Self.opds) = Self.step - 1
      /\ UNCHANGED <<nodes, declared>>
      /\ KidsOf(Self) = Kids
  BY SelfFacts DEF AnalyseFactor, In, KindOf, Fit, FrameInv
<1>2. FactorReadable(Kinds(nodes[Self.node]))
  BY <1>1, TreeFacts DEF Readable, KindOf
<1>3. /\ KindOf(Self) \in Valued /\ KindOf(Self) # "assign"
      /\ KindOf(Self) \notin Tests /\ KindOf(Self) # "condition" /\ Live(Self)
  BY <1>1 DEF Live, Valued, Tests
<1>4. /\ c \in Child
      /\ c.type = "IDENTIFIER" => c.attr \in Names
      /\ c.type = "LITERAL" => c.attr \in Literals \cup {NULL}
      /\ \/ c.type \in {"LITERAL", "IDENTIFIER"}
         \/ /\ c.type \in {"PLUS", "MINUS"}
            /\ Has(Kinds(nodes[Self.node]), 2, {"factor"})
         \/ /\ c.type = "LPAREN"
            /\ Has(Kinds(nodes[Self.node]), 2, {"expression"})
  <2> DEFINE ks == Kinds(nodes[Self.node])
  <2>1. CASE Has(ks, 1, {"LITERAL", "IDENTIFIER"})
    BY <1>1, <2>1, Kid
  <2>2. CASE Has(ks, 1, {"PLUS", "MINUS"}) /\ Has(ks, 2, {"factor"})
    BY <1>1, <2>2, Kid
  <2>3. CASE Has(ks, 1, {"LPAREN"}) /\ Has(ks, 2, {"expression"})
    BY <1>1, <2>3, Kid
  <2> QED
    BY <1>2, <2>1, <2>2, <2>3 DEF FactorReadable
<1>5. CASE /\ c.type = "LITERAL" /\ stack' = Returning(Literal(ValueOf(c)))
           /\ UNCHANGED <<errs, memory, tmp_cnt>>
  <2>1. ValueOf(c) \in Literals \cup {0}
    BY <1>4, <1>5 DEF ValueOf
  <2>2. PICK o \in Operand : o = Literal(ValueOf(c))
    BY <2>1, OperandKinds
  <2>3. o.type = "LITERAL"
    BY <2>2 DEF Literal
  <2>4. Fresh(o)
    BY <2>3 DEF Fresh, Sound
  <2>5. LeavesWith(o)
    BY <1>3, <1>5, <2>2, <2>4 DEF LeavesWith
  <2> QED
    BY <1>1, <1>5, <2>5, ReturnStep, SameErrors, SameCode
<1>6. CASE /\ c.type = "IDENTIFIER"
           /\ stack' = Returning(IF Usable(c) THEN Symbol(c.attr) ELSE Unset)
           /\ errs' = Complaints(c)
           /\ UNCHANGED <<memory, tmp_cnt>>
  <2>1. ErrorStep /\ CodeStep /\ MemoryOK'
    BY <1>1, <1>4, <1>6, ComplaintsStep, SameCode
  <2>2. CASE Usable(c)
    <3>1. PICK o \in Operand : o = Symbol(c.attr)
      BY <1>4, <1>6, OperandKinds
    <3>2. o.type = "SYMBOL" /\ o.val = c.attr
      BY <3>1 DEF Symbol
    <3>3. declared'[c.attr] # 0
      BY <1>1, <2>2 DEF Usable
    <3>4. Fresh(o)
      BY <3>2, <3>3 DEF Fresh, Sound
    <3>5. LeavesWith(o)
      BY <1>3, <1>6, <2>2, <3>1, <3>4 DEF LeavesWith
    <3> QED
      BY <1>1, <2>1, <3>5, ReturnStep
  <2>3. CASE ~Usable(c)
    <3>1. PICK o \in Operand : o = Unset
      BY OperandKinds
    <3>2. o.type # "TEMPORARY"
      BY <3>1, CodeAssumption DEF Unset
    <3>3. errs' # << >>
      <4>1. c.attr # NULL
        BY <1>4, <1>6, AttrAssumption
      <4> QED
        BY <1>1, <1>4, <1>6, <2>3, <4>1, ComplaintsStep
    <3>4. Fresh(o)
      BY <3>2, <3>3 DEF Fresh, Sound
    <3>5. LeavesWith(o)
      BY <1>3, <1>6, <2>3, <3>1, <3>4 DEF LeavesWith
    <3> QED
      BY <1>1, <2>1, <3>5, ReturnStep
  <2> QED
    BY <2>2, <2>3
<1>7. CASE /\ c.type \in {"PLUS", "MINUS", "LPAREN"} /\ Self.step = 1
           /\ stack' = Calling(Onward, Kids[2])
           /\ UNCHANGED <<errs, memory, tmp_cnt>>
  <2>1. /\ Onward \in Activation /\ Onward.node = Self.node
        /\ Onward.opds = Self.opds /\ Onward.start = Self.start
        /\ KeepsPointers(Onward) /\ KidsOf(Onward) = Kids
        /\ Onward.step = Self.step + 1 /\ KindOf(Onward) = "factor"
    BY <1>1, OnwardFacts
  <2>2. PICK kinds \in SUBSET NonTerminals :
          /\ Has(Kinds(nodes[Self.node]), 2, kinds) /\ kinds \subseteq Valued
    <3>1. /\ {"factor"} \in SUBSET NonTerminals /\ {"factor"} \subseteq Valued
          /\ {"expression"} \in SUBSET NonTerminals
          /\ {"expression"} \subseteq Valued
      BY DEF NonTerminals, Valued
    <3> QED
      BY <1>4, <1>7, <3>1
  <2>3. \A nt \in kinds : Fit(Onward, Len(Onward.opds) + Yields(nt))
    <3>1. \A nt \in kinds : Yields(nt) = 1
      BY <2>2 DEF Yields
    <3>2. Fit(Onward, 1)
      BY <1>7, <2>1 DEF Fit
    <3>3. Len(Onward.opds) = 0
      BY <1>1, <1>7, <2>1
    <3> QED
      BY <3>1, <3>2, <3>3
  <2>4. Enters(Onward, Kids[2]) /\ Kids[2] \in Child
    BY <1>1, <1>3, <1>7, <2>1, <2>2, <2>3, Descends
  <2>5. OnlyCalls
    BY <1>1, <1>7 DEF OnlyCalls
  <2> QED
    BY <1>1, <2>1, <2>4, <2>5, CallsOnly
<1>8. CASE /\ c.type \in {"PLUS", "MINUS"} /\ Self.step = 2
           /\ AddTemporary(SignOf[c.type], Self.opds[1], Unset)
           /\ stack' = Returning(Temporary(tmp_cnt))
           /\ UNCHANGED errs
  <2>1. PICK op \in Arithmetic \cup RelOps \cup Unary :
          op = SignOf[c.type] /\ op \in Unary
    BY <1>8 DEF SignOf, Unary
  <2>2. Self.opds[1] \in Operand /\ Held(Self.opds[1])
    <3>1. 1 \in 1..Len(Self.opds)
      BY <1>1, <1>8
    <3> QED
      BY <1>1, <1>3, <3>1, HeldHere
  <2>3. AddTemporary(op, Self.opds[1], Unset) /\ Unset \in Operand
    BY <1>8, <2>1, OperandKinds
  <2>4. /\ CodeStep /\ MemoryOK'
        /\ Temporary(tmp_cnt) \in Operand /\ Fresh(Temporary(tmp_cnt))
    BY <2>1, <2>2, <2>3, TemporaryAdded
  <2>5. LeavesWith(Temporary(tmp_cnt))
    BY <1>3, <1>8, <2>4 DEF LeavesWith
  <2> QED
    BY <1>1, <1>8, <2>4, <2>5, ReturnStep, SameErrors
<1>9. CASE /\ c.type = "LPAREN" /\ Self.step = 2
           /\ stack' = Returning(Self.opds[1])
           /\ UNCHANGED <<errs, memory, tmp_cnt>>
  <2>1. Self.opds[1] \in Operand /\ Held(Self.opds[1])
    <3>1. 1 \in 1..Len(Self.opds)
      BY <1>1, <1>9
    <3> QED
      BY <1>1, <1>3, <3>1, HeldHere
  <2>2. LeavesWith(Self.opds[1])
    BY <1>3, <1>9, <2>1 DEF LeavesWith, Fresh
  <2> QED
    BY <1>1, <1>9, <2>1, <2>2, ReturnStep, SameErrors, SameCode
<1> QED
  BY <1>5, <1>6, <1>7, <1>8, <1>9 DEF AnalyseFactor

-----------------------------------------------------------------------------
(* Every step of the analyser is one that the definitions above describe.  *)
LEMMA StutterStep ==
  ASSUME FrameInv, UNCHANGED vars
  PROVE  AnalyserStep
<1>1. /\ nodes' = nodes /\ UNCHANGED stack
      /\ UNCHANGED <<declared, errs>> /\ UNCHANGED <<memory, tmp_cnt>>
  BY DEF vars, memory
<1> QED
  BY <1>1, SameCode, SameErrors DEF AnalyserStep, StackStep

(* Each of them, and the end of the program. *)
LEMMA NextStep ==
  ASSUME FrameInv, TestsHoldTemporaries, PointersAtJumps, [Next]_vars
  PROVE  /\ AnalyserStep
         /\ UNCHANGED vars \/ Patches
<1>1. /\ \A nt : In(nt) => KindOf(Self) = nt
      /\ KindOf(Self) \notin {"branch", "loop"} => Patches
  BY DEF In, KindOf, Patches, Awaits
<1>2. CASE AnalyseSource
  BY <1>1, <1>2, SourceStep DEF AnalyseSource
<1>3. CASE AnalyseVariables
  BY <1>1, <1>3, VariablesStep DEF AnalyseVariables
<1>4. CASE AnalyseStatements
  BY <1>1, <1>4, StatementsStep DEF AnalyseStatements
<1>5. CASE AnalyseAssign
  BY <1>1, <1>5, AssignStep DEF AnalyseAssign, At
<1>6. CASE AnalyseInput
  BY <1>1, <1>6, InputStep DEF AnalyseInput
<1>7. CASE AnalyseOutput
  BY <1>1, <1>7, OutputStep DEF AnalyseOutput, At
<1>8. CASE AnalyseBranch
  BY <1>8, BranchStep
<1>9. CASE AnalyseLoop
  BY <1>9, LoopStep
<1>10. CASE AnalyseRepeat
  BY <1>1, <1>10, RepeatStep DEF AnalyseRepeat, At
<1>11. CASE AnalyseExpression
  BY <1>1, <1>11, ChainStep DEF AnalyseExpression, AnalyseChain
<1>12. CASE AnalyseTerm
  BY <1>1, <1>12, ChainStep DEF AnalyseTerm, AnalyseChain
<1>13. CASE AnalyseFactor
  BY <1>1, <1>13, FactorStep DEF AnalyseFactor
<1>14. CASE AnalyseCondition
  BY <1>1, <1>14, ConditionStep DEF AnalyseCondition, At
<1>15. CASE UNCHANGED vars
  BY <1>15, StutterStep
<1> QED
  BY <1>2, <1>3, <1>4, <1>5, <1>6, <1>7, <1>8, <1>9, <1>10, <1>11, <1>12,
     <1>13, <1>14, <1>15 DEF Next, Done

-----------------------------------------------------------------------------
(* The operands on the stack after a step. *)
Kept(d, i) ==
  /\ d \in DOMAIN stack /\ i \in DOMAIN stack[d].opds
  /\ stack'[d].opds[i] = stack[d].opds[i]
  /\ KindOf(stack'[d]) = KindOf(stack[d])
  /\ Live(stack'[d]) => Live(stack[d])

New(d, i) ==
  \E o \in Operand :
    /\ stack'[d].opds[i] = o
    /\ Live(stack'[d]) => Fresh(o)
    /\ KindOf(stack'[d]) \in Tests => o.type = "TEMPORARY"

(* Every operand on the stack was there before the step, or is new. *)
LEMMA StackOperands ==
  ASSUME FrameInv, TestsHoldTemporaries, StackStep
  PROVE  \A d \in DOMAIN stack' : \A i \in DOMAIN stack'[d].opds :
           Kept(d, i) \/ New(d, i)
<1>1. ASSUME stack # << >>, NEW self \in Activation, NEW c \in Child,
             Enters(self, c)
      PROVE  \A d \in DOMAIN stack' : \A i \in DOMAIN stack'[d].opds : Kept(d, i)
  <2>1. /\ DOMAIN stack' = 1..(Top + 1) /\ Top \in Nat
        /\ \A d \in 1..(Top - 1) : stack'[d] = stack[d]
        /\ stack'[Top] = self /\ stack'[Top + 1] = Begin(c.at)
        /\ DOMAIN stack = 1..Top /\ stack[Top] = Self
    BY <1>1, EnterShape, SelfFacts DEF Enters
  <2> SUFFICES ASSUME NEW d \in 1..(Top + 1), NEW i \in DOMAIN stack'[d].opds
               PROVE  Kept(d, i)
    BY <2>1
  <2>2. CASE d \in 1..(Top - 1)
    BY <2>1, <2>2 DEF Kept
  <2>3. CASE d = Top
    <3>1. self.node = Self.node /\ self.opds = Self.opds
          /\ (Live(self) => Live(Self) \/ self.opds = << >>)
      BY <1>1 DEF Enters
    <3>2. i \in DOMAIN self.opds /\ self.opds # << >>
      BY <2>1, <2>3, EmptySeq
    <3>3. d \in DOMAIN stack /\ KindOf(self) = KindOf(Self)
      BY <2>1, <2>3, <3>1, <1>1, SelfFacts DEF KindOf
    <3> QED
      BY <2>1, <2>3, <3>1, <3>2, <3>3 DEF Kept
  <2>4. CASE d = Top + 1
    <3>1. stack'[d].opds = << >>
      BY <2>1, <2>4 DEF Begin
    <3> QED
      BY <3>1, EmptySeq
  <2> QED
    BY <2>1, <2>2, <2>3, <2>4
<1>2. ASSUME stack # << >>, NEW self \in Activation, Stays(self)
      PROVE  \A d \in DOMAIN stack' : \A i \in DOMAIN stack'[d].opds :
               Kept(d, i) \/ New(d, i)
  <2>1. /\ DOMAIN stack' = 1..Top /\ Top \in Nat
        /\ \A d \in 1..(Top - 1) : stack'[d] = stack[d]
        /\ stack'[Top] = self
        /\ DOMAIN stack = 1..Top /\ stack[Top] = Self
    BY <1>2, StayShape, SelfFacts DEF Stays
  <2> SUFFICES ASSUME NEW d \in 1..Top, NEW i \in DOMAIN stack'[d].opds
               PROVE  Kept(d, i) \/ New(d, i)
    BY <2>1
  <2>2. CASE d \in 1..(Top - 1)
    BY <2>1, <2>2 DEF Kept
  <2>3. CASE d = Top
    <3>1. /\ KindOf(self) = KindOf(Self)
          /\ KindOf(Self) \in Tests => self.opds = Self.opds
          /\ \A k \in DOMAIN self.opds : Live(self) => Fresh(self.opds[k])
      BY <1>2 DEF Stays, KindOf
    <3>2. CASE KindOf(Self) \notin Tests
      <4>1. i \in DOMAIN self.opds /\ self.opds \in Seq(Operand)
        BY <2>1, <2>3 DEF Activation
      <4>2. PICK o \in Operand : o = self.opds[i]
        BY <4>1, ElementOfSeq, LenProperties
      <4>3. Live(self) => Fresh(o)
        BY <3>1, <4>1, <4>2
      <4> QED
        BY <2>1, <2>3, <3>1, <3>2, <4>2, <4>3 DEF New
    <3>3. CASE KindOf(Self) \in Tests
      <4>1. i \in DOMAIN stack[d].opds /\ d \in DOMAIN stack
            /\ stack'[d].opds[i] = stack[d].opds[i]
        BY <2>1, <2>3, <3>1, <3>3
      <4>2. /\ stack[d].opds[i].type = "TEMPORARY"
            /\ stack[d].opds[i] = self.opds[i] /\ i \in DOMAIN self.opds
        BY <2>1, <2>3, <3>1, <3>3, <4>1 DEF TestsHoldTemporaries
      <4>3. PICK o \in Operand : o = self.opds[i]
        BY <4>2, ElementOfSeq, LenProperties DEF Activation
      <4>4. Live(self) => Fresh(o)
        BY <3>1, <4>2, <4>3
      <4> QED
        BY <2>1, <2>3, <3>1, <4>1, <4>2, <4>3, <4>4 DEF New
    <3> QED
      BY <3>2, <3>3
  <2> QED
    BY <2>1, <2>2, <2>3
<1>3. ASSUME stack # << >>, Leaves
      PROVE  \A d \in DOMAIN stack' : \A i \in DOMAIN stack'[d].opds : Kept(d, i)
  <2>1. /\ DOMAIN stack' = 1..(Top - 1) /\ Top \in Nat
        /\ \A d \in 1..(Top - 1) : stack'[d] = stack[d]
        /\ DOMAIN stack = 1..Top
    BY <1>3, LeaveShape, SelfFacts DEF Leaves
  <2> QED
    BY <2>1 DEF Kept
<1>4. ASSUME stack # << >>, NEW o \in Operand, LeavesWith(o)
      PROVE  \A d \in DOMAIN stack' : \A i \in DOMAIN stack'[d].opds :
               Kept(d, i) \/ New(d, i)
  <2>1. /\ DOMAIN stack' = 1..(Top - 1) /\ Top \in Nat /\ Top >= 2
        /\ \A d \in 1..(Top - 2) : stack'[d] = stack[d]
        /\ DOMAIN stack = 1..Top /\ stack[Top] = Self
    BY <1>4, LeaveWithShape, SelfFacts DEF LeavesWith
  <2> SUFFICES ASSUME NEW d \in 1..(Top - 1), NEW i \in DOMAIN stack'[d].opds
               PROVE  Kept(d, i) \/ New(d, i)
    BY <2>1
  <2>2. CASE d \in 1..(Top - 2)
    BY <2>1, <2>2 DEF Kept
  <2>3. CASE d = Top - 1
    <3> DEFINE s == stack[Top - 1].opds
    <3>1. /\ stack'[d].opds = Append(s, o) /\ s \in Seq(Operand)
          /\ stack'[d].node = stack[d].node /\ stack'[d].step = stack[d].step
          /\ stack'[d].ptrs = stack[d].ptrs
      BY <1>4, <2>3, LeaveWithShape DEF LeavesWith
    <3>2. KindOf(stack'[d]) = KindOf(stack[d]) /\ Live(stack'[d]) = Live(stack[d])
      BY <3>1, SameFit
    <3> HIDE DEF s
    <3>3. /\ Append(s, o)[Len(s) + 1] = o
          /\ \A k \in 1..Len(s) : Append(s, o)[k] = s[k]
          /\ DOMAIN s = 1..Len(s) /\ Len(s) \in Nat
          /\ DOMAIN Append(s, o) = 1..(Len(s) + 1)
      BY <3>1, AppendProperties, LenProperties
    <3>4. d \in DOMAIN stack /\ s = stack[d].opds
      BY <2>1, <2>3 DEF s
    <3>5. CASE i \in 1..Len(s)
      BY <3>1, <3>2, <3>3, <3>4, <3>5 DEF Kept
    <3>6. CASE i = Len(s) + 1
      <4>1. stack'[d].opds[i] = o
        BY <3>1, <3>3, <3>6
      <4>2. Fresh(o)
        BY <1>4 DEF LeavesWith
      <4>3. KindOf(stack[d]) \in Tests => o.type = "TEMPORARY"
        <5>1. /\ d \in DOMAIN stack /\ d < Top /\ stack[d + 1] = Self
          BY <2>1, <2>3
        <5>2. KindOf(stack[d]) \in Tests => KindOf(Self) = "condition"
          BY <1>4, <5>1 DEF FrameInv, TestsWaitForConditions, LeavesWith
        <5> QED
          BY <1>4, <5>2 DEF LeavesWith
      <4> QED
        BY <3>2, <4>1, <4>2, <4>3 DEF New
    <3> QED
      BY <3>1, <3>3, <3>5, <3>6
  <2> QED
    BY <2>1, <2>2, <2>3
<1>5. CASE UNCHANGED stack
  BY <1>5 DEF Kept
<1> QED
  BY <1>1, <1>2, <1>3, <1>4, <1>5 DEF StackStep

(* What is held after a step was held before it, or is new. *)
LEMMA HeldStep ==
  ASSUME FrameInv, TestsHoldTemporaries, StackStep, nodes' = nodes,
         NEW o \in Operand, Held(o)'
  PROVE  Fresh(o)
<1>1. PICK d \in DOMAIN stack' :
        /\ Live(stack'[d])
        /\ \E i \in DOMAIN stack'[d].opds : stack'[d].opds[i] = o
  BY SameTree DEF Held
<1>2. PICK i \in DOMAIN stack'[d].opds : stack'[d].opds[i] = o
  BY <1>1
<1>3. CASE Kept(d, i)
  BY <1>1, <1>2, <1>3 DEF Kept, Held, Fresh
<1>4. CASE New(d, i)
  BY <1>1, <1>2, <1>4 DEF New
<1> QED
  BY <1>3, <1>4, StackOperands

(* A test holds its condition, which is a temporary. *)
LEMMA TestsStep ==
  ASSUME FrameInv, TestsHoldTemporaries, StackStep, nodes' = nodes
  PROVE  TestsHoldTemporaries'
<1> SUFFICES ASSUME NEW d \in DOMAIN stack', NEW i \in DOMAIN stack'[d].opds,
                    KindOf(stack'[d]) \in Tests
             PROVE  stack'[d].opds[i].type = "TEMPORARY"
  BY SameTree DEF TestsHoldTemporaries
<1>1. CASE Kept(d, i)
  BY <1>1 DEF Kept, TestsHoldTemporaries
<1>2. CASE New(d, i)
  BY <1>2 DEF New
<1> QED
  BY <1>1, <1>2, StackOperands

(* When a statement goes on without its operands, none is held. *)
LEMMA SettlesHeld ==
  ASSUME FrameInv, Settles, nodes' = nodes, NEW o
  PROVE  ~Held(o)'
<1>1. /\ Top \in Nat /\ Top >= 1 /\ DOMAIN stack = 1..Top /\ stack[Top] = Self
  BY SelfFacts DEF Settles
<1>2. \A d \in 1..(Top - 1) : ~Live(stack[d])
  BY <1>1 DEF FrameInv, NoneKept, Settles
<1>3. \A d \in DOMAIN stack' :
        Live(stack'[d]) => DOMAIN stack'[d].opds = {}
  <2>1. CASE Leaves
    BY <1>1, <1>2, <2>1, LeaveShape DEF Leaves, Settles
  <2>2. CASE \E self \in Activation : Stays(self) /\ ~Live(self)
    <3>1. PICK self \in Activation : Stays(self) /\ ~Live(self)
      BY <2>2
    <3>2. /\ DOMAIN stack' = 1..Top /\ stack'[Top] = self
          /\ \A d \in 1..(Top - 1) : stack'[d] = stack[d]
      BY <3>1, StayShape DEF Stays, Settles
    <3> QED
      BY <1>1, <1>2, <3>1, <3>2
  <2>3. CASE \E self \in Activation, c \in Child :
               Enters(self, c) /\ (~Live(self) \/ Len(self.opds) = 0)
    <3>1. PICK self \in Activation, c \in Child :
               Enters(self, c) /\ (~Live(self) \/ Len(self.opds) = 0)
      BY <2>3
    <3>2. /\ DOMAIN stack' = 1..(Top + 1) /\ stack'[Top] = self
          /\ \A d \in 1..(Top - 1) : stack'[d] = stack[d]
          /\ stack'[Top + 1] = Begin(c.at)
      BY <3>1, EnterShape DEF Enters, Settles
    <3>3. Begin(c.at).opds = << >> /\ DOMAIN << >> = {}
      BY EmptySeq DEF Begin
    <3>4. Len(self.opds) = 0 => DOMAIN self.opds = {}
      BY LenProperties DEF Activation
    <3> QED
      BY <1>1, <1>2, <3>1, <3>2, <3>3, <3>4
  <2> QED
    BY <2>1, <2>2, <2>3 DEF Settles
<1> QED
  BY <1>3, SameTree DEF Held

-----------------------------------------------------------------------------
(* The instructions that are there keep all but the label of a jump. *)
LEMMA OldCode ==
  ASSUME FrameInv, AnalyserStep
  PROVE  /\ instrs \in Seq(Instruction) /\ instrs' \in Seq(Instruction)
         /\ Len(instrs) \in Nat /\ Len(instrs') \in Nat
         /\ Len(instrs) <= Len(instrs')
         /\ DOMAIN instrs = 1..Len(instrs) /\ DOMAIN instrs' = 1..Len(instrs')
         /\ Len(instrs') \in {Len(instrs), Len(instrs) + 1}
         /\ tmp_cnt \in Nat /\ tmp_cnt' \in Nat /\ tmp_cnt <= tmp_cnt'
         /\ \A k \in 1..Len(instrs) :
              /\ instrs[k] \in Instruction /\ instrs'[k] \in Instruction
              /\ instrs'[k].op = instrs[k].op
              /\ Computes(instrs'[k]) = Computes(instrs[k])
              /\ instrs'[k].src1 = instrs[k].src1
              /\ Sources(instrs'[k]) = Sources(instrs[k])
              /\ instrs[k].op \notin Jumps => instrs'[k].dest = instrs[k].dest
<1>1. /\ instrs \in Seq(Instruction) /\ instrs' \in Seq(Instruction)
      /\ tmp_cnt \in Nat /\ tmp_cnt' \in Nat
  BY DEF FrameInv, TypeOK, AnalyserStep, MemoryOK
<1>2. /\ Len(instrs) \in Nat /\ Len(instrs') \in Nat
      /\ DOMAIN instrs = 1..Len(instrs) /\ DOMAIN instrs' = 1..Len(instrs')
  BY <1>1, LenProperties
<1>3. CodeStep
  BY DEF AnalyserStep
<1>4. \/ Len(instrs') = Len(instrs) /\ tmp_cnt' = tmp_cnt
      \/ Len(instrs') = Len(instrs) + 1 /\ Emits(Added)
  BY <1>3 DEF CodeStep
<1>5. Len(instrs) <= Len(instrs')
  <2>1. Len(instrs) \in Nat /\ Len(instrs') \in Nat
    BY <1>2
  <2>2. Len(instrs') = Len(instrs) \/ Len(instrs') = Len(instrs) + 1
    BY <1>4
  <2> QED
    BY <2>1, <2>2
<1>7. tmp_cnt <= tmp_cnt'
  <2>1. Emits(Added) => tmp_cnt' \in {tmp_cnt, tmp_cnt + 1}
    BY DEF Emits
  <2> QED
    BY <1>1, <1>4, <2>1
<1>8. Len(instrs') \in {Len(instrs), Len(instrs) + 1}
  BY <1>4
<1>6. ASSUME NEW k \in 1..Len(instrs)
      PROVE  /\ instrs[k] \in Instruction /\ instrs'[k] \in Instruction
             /\ instrs'[k].op = instrs[k].op
             /\ Computes(instrs'[k]) = Computes(instrs[k])
             /\ instrs'[k].src1 = instrs[k].src1
             /\ Sources(instrs'[k]) = Sources(instrs[k])
             /\ instrs[k].op \notin Jumps => instrs'[k].dest = instrs[k].dest
  <2>1. instrs[k] \in Instruction /\ instrs'[k] \in Instruction
    <3>1. k \in 1..Len(instrs')
      BY <1>2, <1>5
    <3> QED
      BY <1>1, <3>1, ElementOfSeq
  <2>2. /\ instrs'[k].op = instrs[k].op
        /\ instrs'[k].src1 = instrs[k].src1 /\ instrs'[k].src2 = instrs[k].src2
        /\ instrs[k].op \notin Jumps => instrs'[k].dest = instrs[k].dest
    BY <1>3 DEF CodeStep
  <2>3. Sources(instrs'[k]) = Sources(instrs[k])
    BY <2>2 DEF Sources
  <2> QED
    BY <2>1, <2>2, <2>3 DEF Computes
<1> QED
  BY <1>1, <1>2, <1>5, <1>6, <1>7, <1>8

(* The instruction that is new. *)
LEMMA NewCode ==
  ASSUME FrameInv, AnalyserStep, NEW k \in 1..Len(instrs'), k \notin 1..Len(instrs)
  PROVE  /\ Emits(Added) /\ Added = instrs'[k]
         /\ k = Len(instrs') /\ Len(instrs') = Len(instrs) + 1
<1>1. /\ Len(instrs) \in Nat /\ Len(instrs') \in Nat
      /\ Len(instrs') \in {Len(instrs), Len(instrs) + 1}
  BY OldCode
<1>2. Len(instrs') = Len(instrs) + 1 /\ k = Len(instrs')
  BY <1>1
<1>3. Emits(Added)
  <2>1. Len(instrs') # Len(instrs)
    BY <1>1, <1>2
  <2> QED
    BY <2>1 DEF AnalyserStep, CodeStep
<1> QED
  BY <1>2, <1>3 DEF Added

(* A symbol operand names a variable. *)
LEMMA SymbolVal ==
  ASSUME NEW o \in Operand, o.type = "SYMBOL"
  PROVE  o.val \in Names
BY CodeAssumption DEF Operand, Unset, Label

(* What is sound stays so: no error and no declaration is forgotten. *)
LEMMA SoundStays ==
  ASSUME ErrorStep, NEW o \in Operand, Sound(o)
  PROVE  Sound(o)'
BY SymbolVal DEF ErrorStep, KeepsDeclared, Sound

(* Held operands, and those in the code, are sound after a step. *)
LEMMA SoundStep ==
  ASSUME CodeInv, AnalyserStep
  PROVE  HeldSound' /\ SourcesSound'
<1>1. FrameInv /\ TestsHoldTemporaries /\ StackStep /\ nodes' = nodes /\ ErrorStep
  BY DEF CodeInv, AnalyserStep
<1>2. HeldSound'
  <2> SUFFICES ASSUME NEW o \in Operand, Held(o)'
               PROVE  Sound(o)'
    BY DEF HeldSound
  <2>1. Fresh(o)
    BY <1>1, HeldStep
  <2>2. CASE Held(o)
    BY <1>1, <2>2, SoundStays DEF CodeInv, HeldSound
  <2>3. CASE /\ Len(instrs') = Len(instrs) + 1 /\ Computes(Added)
             /\ o = Added.dest
    <3>1. Emits(Added)
      BY <1>1, <2>3, OldCode DEF AnalyserStep, CodeStep
    <3>2. o.type = "TEMPORARY"
      BY <2>3, <3>1 DEF Emits, Temporary
    <3> QED
      BY <3>2 DEF Sound
  <2> QED
    BY <2>1, <2>2, <2>3 DEF Fresh
<1>3. SourcesSound'
  <2> SUFFICES ASSUME NEW k \in 1..Len(instrs'), NEW o \in Sources(instrs'[k])
               PROVE  Sound(o)'
    BY <1>1, OldCode DEF SourcesSound
  <2>1. o \in Operand
    BY <1>1, OldCode, ElementOfSeq, SourcesOf
  <2>2. CASE k \in 1..Len(instrs)
    <3>1. o \in Sources(instrs[k]) /\ k \in DOMAIN instrs
      BY <1>1, <2>2, OldCode
    <3> QED
      BY <1>1, <2>1, <3>1, SoundStays DEF CodeInv, SourcesSound
  <2>3. CASE k \notin 1..Len(instrs)
    <3>1. Emits(Added) /\ Added = instrs'[k]
      BY <1>1, <2>3, NewCode
    <3>2. Held(o)
      BY <3>1 DEF Emits
    <3> QED
      BY <1>1, <2>1, <3>2, SoundStays DEF CodeInv, HeldSound
  <2> QED
    BY <2>2, <2>3
<1> QED
  BY <1>2, <1>3

(* Where the instructions put their results. *)
LEMMA AimStep ==
  ASSUME CodeInv, AnalyserStep
  PROVE  CodeWellAimed' /\ ComputedOnce'
<1>1. FrameInv /\ ErrorStep /\ CodeStep
  BY DEF CodeInv, AnalyserStep
<1>2. ASSUME NEW k \in 1..Len(instrs)
      PROVE  WellAimed(instrs[k])'
  <2> DEFINE i == instrs[k]
             j == instrs'[k]
  <2>1. /\ i \in Instruction /\ j.op = i.op /\ Computes(j) = Computes(i)
        /\ j.src1 = i.src1 /\ (i.op \notin Jumps => j.dest = i.dest)
        /\ tmp_cnt \in Nat /\ tmp_cnt' \in Nat /\ tmp_cnt <= tmp_cnt'
    BY <1>1, OldCode
  <2>2. WellAimed(i)
    BY <1>1, OldCode DEF CodeInv, CodeWellAimed
  <2>3. i.op \in Jumps => j.dest.type = "LABEL"
    BY <1>1, <2>2 DEF CodeStep, WellAimed, Label
  <2>4. i.op \in {"ASSIGN", "READ"} => j.dest.type = "SYMBOL"
                                       /\ declared'[j.dest.val] # 0
    <3> SUFFICES ASSUME i.op \in {"ASSIGN", "READ"}
                 PROVE  j.dest.type = "SYMBOL" /\ declared'[j.dest.val] # 0
      OBVIOUS
    <3>1. i.dest \in Operand /\ j.dest = i.dest
      BY <2>1 DEF Instruction, Jumps
    <3>2. i.dest.type = "SYMBOL" /\ declared[i.dest.val] # 0
      BY <2>2 DEF WellAimed
    <3>3. i.dest.val \in Names
      BY <3>1, <3>2, SymbolVal
    <3> QED
      BY <1>1, <3>1, <3>2, <3>3 DEF ErrorStep, KeepsDeclared
  <2>5. Computes(i) => j.dest.type = "TEMPORARY" /\ j.dest.val < tmp_cnt'
    <3> SUFFICES ASSUME Computes(i)
                 PROVE  j.dest.type = "TEMPORARY" /\ j.dest.val < tmp_cnt'
      OBVIOUS
    <3>1. j.dest = i.dest /\ i.dest \in Operand
      BY <2>1 DEF Computes, Instruction, Jumps, Arithmetic, RelOps, Unary
    <3>2. i.dest.type = "TEMPORARY" /\ i.dest.val < tmp_cnt
      BY <2>2 DEF WellAimed
    <3>3. i.dest.val \in Nat
      BY <3>1, <3>2, CodeAssumption DEF Operand, Unset, Label
    <3> QED
      BY <2>1, <3>1, <3>2, <3>3
  <2>6. i.op = "WRITE" => j.dest = Unset
    BY <2>1, <2>2 DEF WellAimed, Jumps
  <2>7. i.op = "BRANCH" => j.src1.type = "TEMPORARY"
    BY <2>1, <2>2 DEF WellAimed
  <2> QED
    BY <2>1, <2>3, <2>4, <2>5, <2>6, <2>7 DEF WellAimed, Computes
<1>3. ASSUME NEW k, Emits(Added), Added = instrs'[k]
      PROVE  WellAimed(instrs[k])'
  <2>1. PICK i : i = instrs'[k]
    OBVIOUS
  <2>2. Emits(i)
    BY <1>3, <2>1
  <2>3. tmp_cnt \in Nat
    BY <1>1, OldCode
  <2>4. Computes(i) => i.dest.type = "TEMPORARY" /\ i.dest.val < tmp_cnt'
    BY <2>2, <2>3 DEF Emits, Temporary
  <2>5. i.op \in {"ASSIGN", "READ"} =>
          i.dest.type = "SYMBOL" /\ declared'[i.dest.val] # 0
    BY <1>1, <2>2 DEF Emits, ErrorStep, KeepsDeclared
  <2>6. /\ i.op = "WRITE" => i.dest = Unset
        /\ i.op \in Jumps => i.dest.type = "LABEL"
        /\ i.op = "BRANCH" => i.src1.type = "TEMPORARY"
    BY <2>2 DEF Emits
  <2> QED
    BY <2>1, <2>4, <2>5, <2>6 DEF WellAimed, Computes
<1>4. CodeWellAimed'
  <2> SUFFICES ASSUME NEW k \in 1..Len(instrs')
               PROVE  WellAimed(instrs[k])'
    BY <1>1, OldCode DEF CodeWellAimed
  <2>1. CASE k \in 1..Len(instrs)
    BY <1>2, <2>1
  <2>2. CASE k \notin 1..Len(instrs)
    BY <1>1, <1>3, <2>2, NewCode
  <2> QED
    BY <2>1, <2>2
<1>5. ComputedOnce'
  <2> SUFFICES ASSUME NEW j \in 1..Len(instrs'), NEW k \in 1..Len(instrs'),
                      Computes(instrs'[j]), Computes(instrs'[k]),
                      instrs'[j].dest = instrs'[k].dest
               PROVE  j = k
    BY <1>1, OldCode DEF ComputedOnce, Computes
  <2>1. \A m \in 1..Len(instrs) : Computes(instrs'[m]) =>
          /\ Computes(instrs[m]) /\ instrs'[m].dest = instrs[m].dest
          /\ instrs[m].dest.val < tmp_cnt
    BY <1>1, OldCode DEF CodeInv, CodeWellAimed, WellAimed, Computes, Jumps,
       Arithmetic, RelOps, Unary
  <2>2. Computes(Added) /\ Emits(Added) => Added.dest.val = tmp_cnt
    BY DEF Emits, Temporary
  <2>3. tmp_cnt \in Nat /\ ~(tmp_cnt < tmp_cnt)
    BY <1>1 DEF FrameInv, TypeOK
  <2>4. CASE j \in 1..Len(instrs) /\ k \in 1..Len(instrs)
    BY <1>1, <2>1, <2>4, OldCode DEF CodeInv, ComputedOnce
  <2>5. CASE j \in 1..Len(instrs) /\ k \notin 1..Len(instrs)
    <3>1. Emits(Added) /\ Added = instrs'[k]
      BY <1>1, <2>5, NewCode
    <3> QED
      BY <2>1, <2>2, <2>3, <2>5, <3>1
  <2>6. CASE k \in 1..Len(instrs) /\ j \notin 1..Len(instrs)
    <3>1. Emits(Added) /\ Added = instrs'[j]
      BY <1>1, <2>6, NewCode
    <3> QED
      BY <2>1, <2>2, <2>3, <2>6, <3>1
  <2>7. CASE k \notin 1..Len(instrs) /\ j \notin 1..Len(instrs)
    BY <1>1, <2>7, NewCode
  <2> QED
    BY <2>4, <2>5, <2>6, <2>7
<1> QED
  BY <1>4, <1>5

-----------------------------------------------------------------------------
(* The loops that are under way. *)
LEMMA StartStep ==
  ASSUME FrameInv, StackStep, NEW d \in DOMAIN stack'
  PROVE  \/ stack'[d].start \in {0} \cup {stack[e].start : e \in DOMAIN stack}
         \/ /\ stack'[d].start = Len(instrs') /\ Settles
<1> DEFINE Old == {stack[e].start : e \in DOMAIN stack}
<1>1. ASSUME stack # << >>, NEW self \in Activation, NEW c \in Child,
             Enters(self, c)
      PROVE  \/ stack'[d].start \in {0} \cup Old
             \/ /\ stack'[d].start = Len(instrs') /\ Settles
  <2>1. /\ DOMAIN stack' = 1..(Top + 1) /\ Top \in Nat
        /\ \A e \in 1..(Top - 1) : stack'[e] = stack[e]
        /\ stack'[Top] = self /\ stack'[Top + 1] = Begin(c.at)
        /\ DOMAIN stack = 1..Top /\ stack[Top] = Self /\ Top \in DOMAIN stack
    BY <1>1, EnterShape, SelfFacts DEF Enters
  <2>2. Begin(c.at).start = 0
    BY DEF Begin
  <2>3. CASE self.start = Self.start
    BY <2>1, <2>2, <2>3
  <2>4. CASE /\ self.start = Len(instrs) /\ instrs' = instrs
             /\ KindOf(Self) \notin Valued /\ Len(self.opds) = 0
    <3>1. Settles
      BY <1>1, <2>4 DEF Settles
    <3> QED
      BY <2>1, <2>2, <2>4, <3>1
  <2> QED
    BY <1>1, <2>3, <2>4 DEF Enters
<1>2. ASSUME stack # << >>, NEW self \in Activation, Stays(self)
      PROVE  stack'[d].start \in Old
  <2>1. /\ DOMAIN stack' = 1..Top /\ Top \in Nat
        /\ \A e \in 1..(Top - 1) : stack'[e] = stack[e]
        /\ stack'[Top] = self /\ self.start = Self.start
        /\ DOMAIN stack = 1..Top /\ stack[Top] = Self
    BY <1>2, StayShape, SelfFacts DEF Stays
  <2> QED
    BY <2>1
<1>3. ASSUME stack # << >>, Leaves
      PROVE  stack'[d].start \in Old
  <2>1. /\ DOMAIN stack' = 1..(Top - 1) /\ Top \in Nat
        /\ \A e \in 1..(Top - 1) : stack'[e] = stack[e]
        /\ DOMAIN stack = 1..Top
    BY <1>3, LeaveShape, SelfFacts DEF Leaves
  <2> QED
    BY <2>1
<1>4. ASSUME stack # << >>, NEW o \in Operand, LeavesWith(o)
      PROVE  stack'[d].start \in Old
  <2>1. /\ DOMAIN stack' = 1..(Top - 1) /\ Top \in Nat
        /\ \A e \in 1..(Top - 2) : stack'[e] = stack[e]
        /\ stack'[Top - 1].start = stack[Top - 1].start
        /\ DOMAIN stack = 1..Top
    BY <1>4, LeaveWithShape, SelfFacts DEF LeavesWith
  <2> QED
    BY <2>1
<1>5. CASE UNCHANGED stack
  BY <1>5
<1> QED
  BY <1>1, <1>2, <1>3, <1>4, <1>5 DEF StackStep

(* The labels after a step. *)
LEMMA MarksStep ==
  ASSUME FrameInv, AnalyserStep, NEW l \in Marks'
  PROVE  l \in {0, NULL} \cup Marks \/ (l = Len(instrs') /\ Settles)
<1>1. /\ DOMAIN instrs = 1..Len(instrs) /\ DOMAIN instrs' = 1..Len(instrs')
      /\ \A k \in 1..Len(instrs) : instrs'[k].op = instrs[k].op
  BY OldCode
<1>2. CASE \E d \in DOMAIN stack' : l = stack'[d].start
  <2>1. PICK d \in DOMAIN stack' : l = stack'[d].start
    BY <1>2
  <2>2. \/ l \in {0} \cup {stack[e].start : e \in DOMAIN stack}
        \/ l = Len(instrs') /\ Settles
    BY <2>1, StartStep DEF AnalyserStep
  <2> QED
    BY <2>2 DEF Marks
<1>3. CASE \E k \in DOMAIN instrs' : instrs'[k].op \in Jumps /\ l = instrs'[k].dest.val
  <2>1. PICK k \in DOMAIN instrs' : instrs'[k].op \in Jumps /\ l = instrs'[k].dest.val
    BY <1>3
  <2>2. CASE k \in 1..Len(instrs)
    <3>1. \/ instrs'[k].dest = instrs[k].dest
          \/ instrs'[k].dest = Label(Len(instrs')) /\ Settles
      BY <2>2 DEF AnalyserStep, CodeStep
    <3>2. instrs[k].op \in Jumps
      BY <1>1, <2>1, <2>2
    <3> QED
      BY <1>1, <2>1, <2>2, <3>1, <3>2 DEF Marks, Label
  <2>3. CASE k \notin 1..Len(instrs)
    <3>1. Emits(Added) /\ Added = instrs'[k]
      BY <1>1, <2>1, <2>3, NewCode
    <3> QED
      BY <2>1, <3>1 DEF Emits
  <2> QED
    BY <2>2, <2>3
<1> QED
  BY <1>2, <1>3 DEF Marks

(* Labels lead into the code, or to its end. *)
LEMMA MarksInsideStep ==
  ASSUME CodeInv, AnalyserStep
  PROVE  MarksInside'
<1>1. FrameInv /\ MarksInside
  BY DEF CodeInv
<1>2. /\ Len(instrs) \in Nat /\ Len(instrs') \in Nat
      /\ Len(instrs) <= Len(instrs')
  BY <1>1, OldCode
<1> SUFFICES ASSUME NEW l \in Marks'
             PROVE  l = NULL \/ l \in 0..Len(instrs')
  BY DEF MarksInside
<1>3. CASE l \in Marks
  BY <1>1, <1>2, <1>3 DEF MarksInside
<1>4. CASE l \in {0, NULL} \/ l = Len(instrs')
  BY <1>2, <1>4
<1> QED
  BY <1>1, <1>3, <1>4, MarksStep

(* What a temporary reached, it still reaches, and a step further. *)
LEMMA ReachesStep ==
  ASSUME CodeInv, AnalyserStep, NEW o, NEW j \in DOMAIN instrs,
         NEW k \in Nat, k <= Len(instrs) + 1, Reaches(o, j, k),
         \/ k <= Len(instrs')
         \/ ~Settles
  PROVE  Reaches(o, j, k)'
<1>1. /\ Len(instrs) \in Nat /\ Len(instrs') \in Nat
      /\ Len(instrs) <= Len(instrs') /\ DOMAIN instrs = 1..Len(instrs)
      /\ \A m \in 1..Len(instrs) :
           /\ instrs'[m].op = instrs[m].op
           /\ Computes(instrs'[m]) = Computes(instrs[m])
           /\ instrs[m].op \notin Jumps => instrs'[m].dest = instrs[m].dest
  BY OldCode DEF CodeInv
<1>2. /\ Computes(instrs[j]) /\ instrs[j].dest = o
      /\ \A m \in j..(k - 1) : instrs[m].op \notin Jumps
      /\ \A l \in Marks : l \notin j..(k - 1)
  BY DEF Reaches
<1>3. Computes(instrs'[j]) /\ instrs'[j].dest = o
  <2>1. instrs[j].op \notin Jumps
    BY <1>2 DEF Computes, Jumps, Arithmetic, RelOps, Unary
  <2> QED
    BY <1>1, <1>2, <2>1
<1>4. \A m \in j..(k - 1) : instrs'[m].op \notin Jumps
  <2>1. \A m \in j..(k - 1) : m \in 1..Len(instrs)
    BY <1>1
  <2> QED
    BY <1>1, <1>2, <2>1
<1>5. ASSUME NEW l \in Marks'
      PROVE  l \notin j..(k - 1)
  <2>1. CASE l \in Marks
    BY <1>2, <2>1
  <2>2. CASE l = 0 \/ l = NULL
    BY <1>1, <2>2, CodeAssumption
  <2>3. CASE l = Len(instrs') /\ Settles
    BY <1>1, <2>3
  <2> QED
    BY <2>1, <2>2, <2>3, MarksStep DEF CodeInv
<1> QED
  BY <1>3, <1>4, <1>5 DEF Reaches, Computes

(* No jump is added, and none goes to the end, while an operand is held. *)
LEMMA QuietEnd ==
  ASSUME CodeInv, AnalyserStep, ~Settles, Len(instrs') = Len(instrs) + 1
  PROVE  /\ Added = instrs'[Len(instrs) + 1] /\ Added.op \notin Jumps
         /\ \A l \in Marks' : l # Len(instrs) + 1
<1>1. Len(instrs) \in Nat
  BY OldCode DEF CodeInv
<1>2. Emits(Added)
  <2>1. Len(instrs') # Len(instrs)
    BY <1>1
  <2> QED
    BY <2>1 DEF AnalyserStep, CodeStep
<1>3. Added.op \notin Jumps
  BY <1>2 DEF Emits
<1>4. ASSUME NEW l \in Marks'
      PROVE  l # Len(instrs) + 1
  <2>1. l \in {0, NULL} \cup Marks
    BY MarksStep DEF CodeInv
  <2> QED
    BY <1>1, <2>1, CodeAssumption DEF CodeInv, MarksInside
<1> QED
  BY <1>3, <1>4 DEF Added

(* A temporary that is held was computed just before, with no jump since. *)
LEMMA HeldReachedStep ==
  ASSUME CodeInv, AnalyserStep
  PROVE  HeldReached'
<1> SUFFICES ASSUME NEW o \in Operand, Held(o)', o.type = "TEMPORARY"
             PROVE  \E j \in DOMAIN instrs' : Reaches(o, j, Len(instrs) + 1)'
  BY DEF HeldReached
<1>1. /\ FrameInv /\ TestsHoldTemporaries /\ StackStep /\ nodes' = nodes
      /\ HeldReached /\ CodeStep
  BY DEF CodeInv, AnalyserStep
<1>2. ~Settles
  BY <1>1, SettlesHeld
<1>3. Fresh(o)
  BY <1>1, HeldStep
<1>4. PICK n \in Nat : n = Len(instrs)
  BY <1>1, OldCode
<1>5. /\ DOMAIN instrs = 1..n /\ DOMAIN instrs' = 1..Len(instrs')
      /\ Len(instrs') \in {n, n + 1}
  BY <1>1, <1>4, OldCode
<1>6. CASE Held(o)
  <2>1. PICK j \in 1..n : Reaches(o, j, n + 1)
    BY <1>1, <1>4, <1>5, <1>6 DEF HeldReached
  <2>2. Reaches(o, j, n + 1)'
    <3>1. j \in DOMAIN instrs
      BY <1>5
    <3>2. n + 1 \in Nat /\ n + 1 <= Len(instrs) + 1
      BY <1>4
    <3> QED
      BY <1>2, <2>1, <3>1, <3>2, ReachesStep
  <2>3. CASE Len(instrs') = n
    BY <1>5, <2>2, <2>3
  <2>4. CASE Len(instrs') = n + 1
    <3>1. /\ instrs'[n + 1].op \notin Jumps
          /\ \A l \in Marks' : l # n + 1
      BY <1>2, <1>4, <2>4, QuietEnd
    <3>2. \A m \in j..((n + 2) - 1) : m \in j..((n + 1) - 1) \/ m = n + 1
      BY <1>4, <2>1
    <3>3. Reaches(o, j, n + 2)'
      BY <2>2, <3>1, <3>2 DEF Reaches
    <3>4. Len(instrs') + 1 = n + 2
      BY <1>4, <2>4
    <3> QED
      BY <1>5, <2>4, <3>3, <3>4
  <2> QED
    BY <1>5, <2>3, <2>4
<1>7. CASE /\ Len(instrs') = Len(instrs) + 1 /\ Computes(Added)
           /\ o = Added.dest
  <2>1. /\ Added = instrs'[n + 1] /\ Added.op \notin Jumps
        /\ \A l \in Marks' : l # n + 1
    BY <1>2, <1>4, <1>7, QuietEnd
  <2>2. (n + 1)..((n + 2) - 1) = {n + 1}
    BY <1>4
  <2>3. Reaches(o, n + 1, n + 2)'
    BY <1>7, <2>1, <2>2 DEF Reaches, Computes
  <2>4. n + 1 \in 1..Len(instrs') /\ Len(instrs') + 1 = n + 2
    BY <1>4, <1>7
  <2> QED
    BY <1>5, <2>3, <2>4
<1> QED
  BY <1>3, <1>6, <1>7 DEF Fresh

(* And so it was where an instruction reads it. *)
LEMMA SourcesReachedStep ==
  ASSUME CodeInv, AnalyserStep
  PROVE  SourcesReached'
<1>1. /\ FrameInv /\ HeldReached /\ SourcesReached
  BY DEF CodeInv
<1>2. /\ Len(instrs) \in Nat /\ Len(instrs') \in Nat
      /\ Len(instrs) <= Len(instrs') /\ DOMAIN instrs = 1..Len(instrs)
      /\ DOMAIN instrs' = 1..Len(instrs')
  BY <1>1, OldCode
<1> SUFFICES ASSUME NEW k \in 1..Len(instrs'), NEW o \in Sources(instrs'[k]),
                    o.type = "TEMPORARY"
             PROVE  \E j \in 1..(k - 1) : Reaches(o, j, k)'
  BY <1>2 DEF SourcesReached
<1>3. CASE k \in 1..Len(instrs)
  <2>1. o \in Sources(instrs[k])
    BY <1>1, <1>3, OldCode
  <2>2. PICK j \in 1..(k - 1) : Reaches(o, j, k)
    BY <1>1, <1>2, <1>3, <2>1 DEF SourcesReached
  <2>3. j \in DOMAIN instrs /\ k \in Nat /\ k <= Len(instrs) + 1
        /\ k <= Len(instrs')
    BY <1>2, <1>3
  <2>4. Reaches(o, j, k)'
    BY <2>2, <2>3, ReachesStep
  <2> QED
    BY <2>4
<1>4. CASE k \notin 1..Len(instrs)
  <2>1. Emits(Added) /\ Added = instrs'[k] /\ k = Len(instrs) + 1
        /\ k <= Len(instrs')
    <3>1. /\ Emits(Added) /\ Added = instrs'[k]
          /\ k = Len(instrs') /\ Len(instrs') = Len(instrs) + 1
      BY <1>1, <1>4, NewCode
    <3>2. k = Len(instrs) + 1 /\ k <= Len(instrs')
      BY <1>2, <3>1
    <3> QED
      BY <3>1, <3>2
  <2>2. Held(o)
    BY <2>1 DEF Emits
  <2>3. o \in Operand
    BY <1>1, OldCode, ElementOfSeq, SourcesOf
  <2>4. PICK j \in DOMAIN instrs : Reaches(o, j, k)
    BY <1>1, <2>1, <2>2, <2>3 DEF HeldReached
  <2>5. j \in 1..(k - 1) /\ k \in Nat /\ k <= Len(instrs) + 1
    BY <1>2, <2>1
  <2>6. Reaches(o, j, k)'
    BY <2>1, <2>4, <2>5, ReachesStep
  <2> QED
    BY <2>5, <2>6
<1> QED
  BY <1>3, <1>4

-----------------------------------------------------------------------------
(* The pointers after a step: those from before it, and to the new jump. *)
OldPointer(d, i) ==
  /\ d \in DOMAIN stack /\ i \in DOMAIN stack[d].ptrs
  /\ stack'[d].ptrs[i] = stack[d].ptrs[i]

NewPointer(d, i) ==
  /\ stack'[d].ptrs[i] = LastAdded
  /\ Len(instrs') = Len(instrs) + 1 /\ Added.op \in Jumps

(* The pointers of the function that runs. *)
LEMMA KeptPointers ==
  ASSUME FrameInv, stack # << >>, NEW self \in Activation, KeepsPointers(self),
         NEW i \in DOMAIN self.ptrs
  PROVE  \/ i \in DOMAIN Self.ptrs /\ self.ptrs[i] = Self.ptrs[i]
         \/ /\ self.ptrs[i] = LastAdded
            /\ Len(instrs') = Len(instrs) + 1 /\ Added.op \in Jumps
<1>1. CASE self.ptrs = Self.ptrs
  BY <1>1
<1>2. CASE /\ self.ptrs = Append(Self.ptrs, LastAdded)
           /\ Len(instrs') = Len(instrs) + 1 /\ Added.op \in Jumps
  <2> DEFINE s == Self.ptrs
  <2>1. s \in Seq(Pointer)
    BY SelfFacts DEF Activation
  <2> HIDE DEF s
  <2>2. /\ Append(s, LastAdded)[Len(s) + 1] = LastAdded
        /\ \A k \in 1..Len(s) : Append(s, LastAdded)[k] = s[k]
        /\ DOMAIN s = 1..Len(s) /\ Len(s) \in Nat
        /\ DOMAIN Append(s, LastAdded) = 1..(Len(s) + 1)
    BY <2>1
  <2>3. self.ptrs = Append(s, LastAdded)
    BY <1>2 DEF s
  <2>4. i \in 1..Len(s) \/ i = Len(s) + 1
    BY <2>2, <2>3
  <2>5. CASE i \in 1..Len(s)
    BY <2>2, <2>3, <2>5 DEF s
  <2>6. CASE i = Len(s) + 1
    BY <1>2, <2>2, <2>3, <2>6
  <2> QED
    BY <2>4, <2>5, <2>6
<1> QED
  BY <1>1, <1>2 DEF KeepsPointers

(* Every pointer on the stack was there before the step, or is new. *)
LEMMA StackPointers ==
  ASSUME FrameInv, StackStep,
         NEW d \in DOMAIN stack', NEW i \in DOMAIN stack'[d].ptrs
  PROVE  OldPointer(d, i) \/ NewPointer(d, i)
<1>1. ASSUME stack # << >>, NEW self \in Activation, NEW c \in Child,
             Enters(self, c)
      PROVE  OldPointer(d, i) \/ NewPointer(d, i)
  <2>1. /\ DOMAIN stack' = 1..(Top + 1) /\ Top \in Nat
        /\ \A e \in 1..(Top - 1) : stack'[e] = stack[e]
        /\ stack'[Top] = self /\ stack'[Top + 1] = Begin(c.at)
        /\ DOMAIN stack = 1..Top /\ stack[Top] = Self
    BY <1>1, EnterShape, SelfFacts DEF Enters
  <2>2. CASE d \in 1..(Top - 1)
    BY <2>1, <2>2 DEF OldPointer
  <2>3. CASE d = Top
    <3>1. KeepsPointers(self) /\ i \in DOMAIN self.ptrs /\ d \in DOMAIN stack
      BY <1>1, <2>1, <2>3, SelfFacts DEF Enters
    <3> QED
      BY <1>1, <2>1, <2>3, <3>1, KeptPointers DEF OldPointer, NewPointer
  <2>4. CASE d = Top + 1
    <3>1. stack'[d].ptrs = << >>
      BY <2>1, <2>4 DEF Begin
    <3> QED
      BY <3>1, EmptySeq
  <2> QED
    BY <2>1, <2>2, <2>3, <2>4
<1>2. ASSUME stack # << >>, NEW self \in Activation, Stays(self)
      PROVE  OldPointer(d, i) \/ NewPointer(d, i)
  <2>1. /\ DOMAIN stack' = 1..Top /\ Top \in Nat
        /\ \A e \in 1..(Top - 1) : stack'[e] = stack[e]
        /\ stack'[Top] = self
        /\ DOMAIN stack = 1..Top /\ stack[Top] = Self
    BY <1>2, StayShape, SelfFacts DEF Stays
  <2>2. CASE d \in 1..(Top - 1)
    BY <2>1, <2>2 DEF OldPointer
  <2>3. CASE d = Top
    <3>1. KeepsPointers(self) /\ i \in DOMAIN self.ptrs /\ d \in DOMAIN stack
      BY <1>2, <2>1, <2>3 DEF Stays
    <3> QED
      BY <1>2, <2>1, <2>3, <3>1, KeptPointers DEF OldPointer, NewPointer
  <2> QED
    BY <2>1, <2>2, <2>3
<1>3. ASSUME stack # << >>, Leaves
      PROVE  OldPointer(d, i)
  <2>1. /\ DOMAIN stack' = 1..(Top - 1) /\ Top \in Nat
        /\ \A e \in 1..(Top - 1) : stack'[e] = stack[e]
        /\ DOMAIN stack = 1..Top
    BY <1>3, LeaveShape, SelfFacts DEF Leaves
  <2> QED
    BY <2>1 DEF OldPointer
<1>4. ASSUME stack # << >>, NEW o \in Operand, LeavesWith(o)
      PROVE  OldPointer(d, i)
  <2>1. /\ DOMAIN stack' = 1..(Top - 1) /\ Top \in Nat
        /\ \A e \in 1..(Top - 2) : stack'[e] = stack[e]
        /\ stack'[Top - 1].ptrs = stack[Top - 1].ptrs
        /\ DOMAIN stack = 1..Top
    BY <1>4, LeaveWithShape, SelfFacts DEF LeavesWith
  <2> QED
    BY <2>1 DEF OldPointer
<1>5. CASE UNCHANGED stack
  BY <1>5 DEF OldPointer
<1> QED
  BY <1>1, <1>2, <1>3, <1>4, <1>5 DEF StackStep

(* Pointers lead to jumps, wherever the list has moved. *)
LEMMA PointersStep ==
  ASSUME FrameInv, PointersAtJumps, AnalyserStep
  PROVE  PointersAtJumps'
<1>1. /\ Len(instrs) \in Nat /\ Len(instrs') \in Nat
      /\ Len(instrs) <= Len(instrs') /\ DOMAIN instrs = 1..Len(instrs)
      /\ DOMAIN instrs' = 1..Len(instrs')
      /\ \A k \in 1..Len(instrs) : instrs'[k].op = instrs[k].op
  BY OldCode
<1>2. block \in Nat /\ block' \in Nat /\ block <= block'
  BY DEF AnalyserStep, CodeStep, MemoryOK, FrameInv, TypeOK
<1> SUFFICES ASSUME NEW d \in DOMAIN stack', NEW i \in DOMAIN stack'[d].ptrs
             PROVE  /\ stack'[d].ptrs[i].block <= block'
                    /\ stack'[d].ptrs[i].index \in DOMAIN instrs'
                    /\ instrs'[stack'[d].ptrs[i].index].op \in Jumps
  BY DEF PointersAtJumps
<1>3. CASE OldPointer(d, i)
  <2>1. PICK ptr \in Pointer : ptr = stack[d].ptrs[i]
    <3>1. stack[d] \in Activation /\ i \in DOMAIN stack[d].ptrs
      BY <1>3, ElementOfSeq, LenProperties DEF OldPointer, FrameInv, TypeOK
    <3>2. stack[d].ptrs \in Seq(Pointer)
      BY <3>1 DEF Activation
    <3> QED
      BY <3>1, <3>2, ElementOfSeq, LenProperties
  <2>2. /\ ptr.block <= block /\ ptr.index \in 1..Len(instrs)
        /\ instrs[ptr.index].op \in Jumps
    BY <1>1, <1>3, <2>1 DEF OldPointer, PointersAtJumps
  <2>3. ptr.block <= block' /\ ptr.index \in 1..Len(instrs')
    BY <1>1, <1>2, <2>2 DEF Pointer
  <2> QED
    BY <1>1, <1>3, <2>1, <2>2, <2>3 DEF OldPointer
<1>4. CASE NewPointer(d, i)
  <2>1. Len(instrs) + 1 \in 1..Len(instrs')
    BY <1>1, <1>4 DEF NewPointer
  <2> QED
    BY <1>1, <1>2, <1>4, <2>1 DEF NewPointer, LastAdded, Added
<1> QED
  BY <1>3, <1>4, StackPointers DEF AnalyserStep

-----------------------------------------------------------------------------
(* The callers of the function that runs wait for the same jumps. *)
LEMMA CallersAwait ==
  ASSUME FrameInv, StackStep, NEW k,
         NEW d \in DOMAIN stack, stack # << >> => d < Top, Awaits(stack[d], k)
  PROVE  d \in DOMAIN stack' /\ Awaits(stack'[d], k)
<1>1. /\ stack # << >> /\ Top \in Nat /\ DOMAIN stack = 1..Top
      /\ d \in 1..(Top - 1)
  <2>1. stack # << >>
    BY EmptySeq
  <2> QED
    BY <2>1, SelfFacts
<1>2. /\ d \in DOMAIN stack'
      /\ stack'[d].node = stack[d].node /\ stack'[d].step = stack[d].step
      /\ stack'[d].ptrs = stack[d].ptrs
  <2>1. CASE \E self \in Activation, c \in Child : Enters(self, c)
    BY <1>1, <2>1, EnterShape DEF Enters
  <2>2. CASE \E self \in Activation : Stays(self)
    BY <1>1, <2>2, StayShape DEF Stays
  <2>3. CASE Leaves
    BY <1>1, <2>3, LeaveShape DEF Leaves
  <2>4. CASE \E o \in Operand : LeavesWith(o)
    <3>1. PICK o \in Operand : LeavesWith(o)
      BY <2>4
    <3>2. /\ DOMAIN stack' = 1..(Top - 1)
          /\ \A e \in 1..(Top - 2) : stack'[e] = stack[e]
          /\ stack'[Top - 1].node = stack[Top - 1].node
          /\ stack'[Top - 1].step = stack[Top - 1].step
          /\ stack'[Top - 1].ptrs = stack[Top - 1].ptrs
      BY <1>1, <3>1, LeaveWithShape DEF LeavesWith
    <3>3. d \in 1..(Top - 2) \/ d = Top - 1
      BY <1>1
    <3> QED
      BY <1>1, <3>2, <3>3
  <2>5. CASE UNCHANGED stack
    BY <2>5
  <2> QED
    BY <1>1, <2>1, <2>2, <2>3, <2>4, <2>5 DEF StackStep
<1> QED
  BY <1>2 DEF Awaits, KindOf

(* A jump without a label is still waited for, or has been patched. *)
LEMMA JumpsAwaitedStep ==
  ASSUME LabelInv, AnalyserStep, UNCHANGED vars \/ Patches
  PROVE  JumpsAwaited'
<1>1. /\ FrameInv /\ MarksInside /\ JumpsAwaited
      /\ StackStep /\ CodeStep /\ nodes' = nodes
  BY DEF LabelInv, CodeInv, AnalyserStep
<1>2. /\ Len(instrs) \in Nat /\ Len(instrs') \in Nat
      /\ Len(instrs) <= Len(instrs') /\ DOMAIN instrs = 1..Len(instrs)
      /\ DOMAIN instrs' = 1..Len(instrs')
      /\ \A k \in 1..Len(instrs) : instrs'[k].op = instrs[k].op
  BY <1>1, OldCode
<1>3. block \in Nat /\ block' \in Nat /\ block <= block'
  BY <1>1 DEF AnalyserStep, CodeStep, MemoryOK, FrameInv, TypeOK
<1> SUFFICES ASSUME NEW k \in 1..Len(instrs'), instrs'[k].op \in Jumps
             PROVE  \/ instrs'[k].dest.val \in 0..Len(instrs')
                    \/ block' # 0
                    \/ \E d \in DOMAIN stack' : Awaits(stack'[d], k)
  BY <1>1, <1>2 DEF JumpsAwaited, Awaits, KindOf
<1>4. CASE k \in 1..Len(instrs) /\ instrs'[k].dest = Label(Len(instrs'))
  BY <1>2, <1>4 DEF Label
<1>5. CASE k \in 1..Len(instrs) /\ instrs'[k].dest = instrs[k].dest
  <2>1. instrs[k].op \in Jumps
    BY <1>2, <1>5
  <2>2. CASE instrs[k].dest.val \in 0..Len(instrs)
    BY <1>2, <1>5, <2>2
  <2>3. CASE block # 0
    BY <1>3, <2>3
  <2>4. CASE \E d \in DOMAIN stack : Awaits(stack[d], k)
    <3>1. PICK d \in DOMAIN stack : Awaits(stack[d], k)
      BY <2>4
    <3>2. CASE stack' = stack
      BY <3>1, <3>2
    <3>3. CASE stack # << >> => d < Top
      BY <1>1, <3>1, <3>3, CallersAwait
    <3>4. CASE stack # << >> /\ ~(d < Top) /\ Patches
      <4>1. d = Top /\ stack[Top] = Self
        BY <3>4, SelfFacts, <1>1
      <4>2. block' # 0 \/ instrs'[k].dest = Label(Len(instrs'))
        BY <1>5, <3>1, <3>4, <4>1 DEF Patches
      <4> QED
        BY <1>4, <1>5, <4>2
    <3> QED
      BY <3>2, <3>3, <3>4 DEF vars
  <2> QED
    BY <1>1, <1>2, <1>5, <2>1, <2>2, <2>3, <2>4 DEF JumpsAwaited
<1>6. CASE k \notin 1..Len(instrs)
  <2>1. Emits(Added) /\ Added = instrs'[k] /\ k = Len(instrs) + 1
    <3>1. /\ Emits(Added) /\ Added = instrs'[k]
          /\ k = Len(instrs') /\ Len(instrs') = Len(instrs) + 1
      BY <1>1, <1>6, NewCode
    <3> QED
      BY <3>1
  <2>2. /\ Added.dest.val \in {NULL} \cup Marks
        /\ Added.dest.val = NULL => Awaited
    BY <2>1 DEF Emits
  <2>3. CASE Added.dest.val = NULL
    BY <2>1, <2>2, <2>3 DEF Awaited
  <2>4. CASE Added.dest.val # NULL
    BY <1>1, <1>2, <2>1, <2>2, <2>4 DEF MarksInside
  <2> QED
    BY <2>3, <2>4
<1> QED
  BY <1>1, <1>4, <1>5, <1>6 DEF CodeStep

-----------------------------------------------------------------------------
(* LabelInv is an inductive invariant. *)
LEMMA FrameStep ==
  ASSUME FrameInv, AnalyserStep
  PROVE  FrameInv'
<1>1. /\ nodes' = nodes /\ StackStep /\ MemoryOK' /\ ErrorStep /\ KeepsDeclared
  BY DEF AnalyserStep, ErrorStep
<1>2. /\ FramesFit' /\ RootAtBottom' /\ AssignsDeclared'
      /\ TestsWaitForConditions' /\ NoneKept' /\ stack' \in Seq(Activation)
  BY <1>1, StackFrames
<1>3. TypeOK'
  BY <1>1, <1>2 DEF TypeOK, MemoryOK, ErrorStep, FrameInv
<1> QED
  BY <1>1, <1>2, <1>3 DEF FrameInv

(* Every step keeps all of the invariant. *)
LEMMA InvStep ==
  ASSUME LabelInv, [Next]_vars
  PROVE  LabelInv'
<1>1. CodeInv /\ FrameInv /\ TestsHoldTemporaries /\ PointersAtJumps
  BY DEF LabelInv, CodeInv
<1>2. AnalyserStep /\ (UNCHANGED vars \/ Patches)
  BY <1>1, NextStep
<1>3. FrameInv'
  BY <1>1, <1>2, FrameStep
<1>4. TestsHoldTemporaries'
  BY <1>1, <1>2, TestsStep DEF AnalyserStep
<1>5. /\ HeldSound' /\ SourcesSound' /\ CodeWellAimed' /\ ComputedOnce'
      /\ MarksInside' /\ HeldReached' /\ SourcesReached'
  BY <1>1, <1>2, SoundStep, AimStep, MarksInsideStep, HeldReachedStep,
     SourcesReachedStep
<1>6. PointersAtJumps' /\ JumpsAwaited'
  BY <1>1, <1>2, PointersStep, JumpsAwaitedStep
<1> QED
  BY <1>3, <1>4, <1>5, <1>6 DEF LabelInv, CodeInv

(* It holds when the analysis begins. *)
LEMMA InitInv ==
  ASSUME Init
  PROVE  LabelInv
<1>1. /\ nodes \in Trees /\ stack = <<Begin(1)>> /\ instrs = << >>
      /\ errs = << >> /\ capacity = 0 /\ block = 0 /\ tmp_cnt = 0
      /\ declared = [x \in Names |-> 0]
  BY DEF Init
<1>2. nodes \in Seq(Node) /\ 1 \in DOMAIN nodes /\ nodes[1].nt = "source"
  BY <1>1, TreeFacts, EmptySeq DEF Analysable
<1>3. PICK a : a = Begin(1)
  OBVIOUS
<1>4. /\ a \in Activation /\ a.node = 1 /\ a.step = 1
      /\ a.opds = << >> /\ a.ptrs = << >> /\ a.start = 0
  BY <1>3, EmptySeq DEF Begin, Activation
<1>5. /\ stack = <<a>> /\ stack \in Seq(Activation) /\ Len(stack) = 1
      /\ DOMAIN stack = {1} /\ stack[1] = a /\ Top = 1
  BY <1>1, <1>3, <1>4 DEF Top
<1>6. KindOf(a) = "source" /\ Fit(a, 0) /\ ~Live(a)
  <2>1. KindOf(a) = "source" /\ Fit(a, 0)
    BY <1>1, <1>2, <1>3, BeginFits
  <2> QED
    BY <2>1 DEF Live, Valued
<1>7. /\ instrs \in Seq(Instruction) /\ Len(instrs) = 0 /\ DOMAIN instrs = {}
      /\ errs \in Seq(SemanticError)
  BY <1>1, EmptySeq
<1>8. TypeOK
  BY <1>1, <1>2, <1>5, <1>7 DEF TypeOK
<1>9. FramesFit
  <2>1. Operands(1) = 0
    BY <1>4, <1>5, EmptySeq DEF Operands
  <2> QED
    BY <1>2, <1>4, <1>5, <1>6, <2>1 DEF FramesFit
<1>10. /\ RootAtBottom /\ AssignsDeclared /\ TestsWaitForConditions /\ NoneKept
  BY <1>5, <1>6 DEF RootAtBottom, AssignsDeclared, TestsWaitForConditions,
     NoneKept
<1>11. FrameInv
  BY <1>1, <1>8, <1>9, <1>10 DEF FrameInv
<1>12. /\ \A o : ~Held(o)
       /\ DOMAIN a.opds = {} /\ DOMAIN a.ptrs = {}
  BY <1>4, <1>5, <1>6, EmptySeq DEF Held
<1>13. TestsHoldTemporaries /\ PointersAtJumps
  BY <1>5, <1>12 DEF TestsHoldTemporaries, PointersAtJumps
<1>14. HeldSound /\ HeldReached
  BY <1>12 DEF HeldSound, HeldReached
<1>15. /\ SourcesSound /\ CodeWellAimed /\ ComputedOnce /\ SourcesReached
       /\ JumpsAwaited
  BY <1>7 DEF SourcesSound, CodeWellAimed, ComputedOnce, SourcesReached,
     JumpsAwaited
<1>16. MarksInside
  BY <1>4, <1>5, <1>7 DEF MarksInside, Marks
<1> QED
  BY <1>11, <1>13, <1>14, <1>15, <1>16 DEF LabelInv, CodeInv

(* So it holds of every analysis. *)
LEMMA Invariance == Spec => []LabelInv
BY InitInv, InvStep, PTL DEF Spec

-----------------------------------------------------------------------------
(***************************************************************************)
(* Every variable of the analyser has its type: in particular there is     *)
(* room in the instruction list for what instruction_list_add writes.      *)
(***************************************************************************)
THEOREM TypeCorrect == Spec => []TypeOK
<1>1. LabelInv => TypeOK
  BY DEF LabelInv, CodeInv, FrameInv
<1> QED
  BY <1>1, Invariance, PTL

(* What is in the list is an instruction. *)
LEMMA InstrFacts ==
  ASSUME CodeInv, NEW k \in DOMAIN instrs
  PROVE  instrs[k] \in Instruction /\ instrs[k].op \in Ops
<1>1. instrs \in Seq(Instruction)
  BY DEF CodeInv, FrameInv, TypeOK
<1>2. instrs[k] \in Instruction
  BY <1>1, ElementOfSeq, LenProperties
<1> QED
  BY <1>2 DEF Instruction

(* A temporary that is read was computed, and is one of those counted. *)
LEMMA ReadTemporaries ==
  ASSUME CodeInv, NEW k \in DOMAIN instrs, NEW o \in Sources(instrs[k]),
         o.type = "TEMPORARY"
  PROVE  \E j \in 1..(k - 1) :
           /\ j \in DOMAIN instrs /\ Reaches(o, j, k)
           /\ o.val < tmp_cnt
<1>1. DOMAIN instrs = 1..Len(instrs) /\ Len(instrs) \in Nat
  BY LenProperties DEF CodeInv, FrameInv, TypeOK
<1>2. PICK j \in 1..(k - 1) : Reaches(o, j, k)
  BY DEF CodeInv, SourcesReached
<1>3. j \in DOMAIN instrs
  BY <1>1
<1> QED
  BY <1>2, <1>3 DEF Reaches, CodeInv, CodeWellAimed, WellAimed

(* The invariant says of every operand in the code that it is sound. *)
LEMMA ReadyOperands == LabelInv => OperandsReady
<1> SUFFICES ASSUME CodeInv, errs = << >>
             PROVE  /\ Addressed(instrs, tmp_cnt)
                    /\ \A k \in DOMAIN instrs :
                         \A o \in Sources(instrs[k]) \cup {instrs[k].dest} :
                           o.type = "SYMBOL" => declared[o.val] # 0
  BY DEF LabelInv, OperandsReady
<1>1. /\ SourcesSound /\ CodeWellAimed /\ instrs \in Seq(Instruction)
  BY DEF CodeInv, FrameInv, TypeOK
<1>2. \A k \in DOMAIN instrs : WellAimed(instrs[k])
  BY <1>1 DEF CodeWellAimed
<1>3. \A k \in DOMAIN instrs : \A o \in Sources(instrs[k]) :
        /\ o.type \in {"TEMPORARY", "LITERAL", "SYMBOL"}
        /\ o.type = "SYMBOL" => declared[o.val] # 0
  BY <1>1 DEF SourcesSound, Sound
<1>4. \A k \in DOMAIN instrs : \A o \in Sources(instrs[k]) :
        o.type = "TEMPORARY" => o.val < tmp_cnt
  BY ReadTemporaries
<1>5. Addressed(instrs, tmp_cnt)
  BY <1>2, <1>3, <1>4 DEF Addressed, WellAimed
<1>6. ASSUME NEW k \in DOMAIN instrs, instrs[k].dest.type = "SYMBOL"
      PROVE  declared[instrs[k].dest.val] # 0
  <2>1. instrs[k].op \in Ops
    BY InstrFacts
  <2>2. WellAimed(instrs[k])
    BY <1>2
  <2> QED
    BY <1>6, <2>1, <2>2, CodeAssumption DEF WellAimed, Computes, Ops, Unset
<1> QED
  BY <1>3, <1>5, <1>6

(***************************************************************************)
(* analyse_factor leaves an operand unset only when it has reported an     *)
(* error, and analyse_assign goes on only for a declared variable: without *)
(* errors the interpreter dereferences no operand that is not there.       *)
(***************************************************************************)
THEOREM OperandsAlwaysReady == Spec => []OperandsReady
BY ReadyOperands, Invariance, PTL

(* At the end no function waits to patch a jump. *)
LEMMA ResolvedLabels == LabelInv => LabelsResolved
<1> SUFFICES ASSUME LabelInv, stack = << >>, block = 0
             PROVE  Resolved(instrs)
  BY DEF LabelsResolved, Analysed, InPlace
<1>1. DOMAIN stack = {}
  BY EmptySeq
<1>2. CodeWellAimed /\ JumpsAwaited
  BY DEF LabelInv, CodeInv
<1> QED
  BY <1>1, <1>2 DEF Resolved, JumpsAwaited, CodeWellAimed, WellAimed

(***************************************************************************)
(* Every label that analyse_branch and analyse_loop leave open is written  *)
(* before they return, as long as the list stays where it is.              *)
(***************************************************************************)
THEOREM LabelsAlwaysResolved == Spec => []LabelsResolved
BY ResolvedLabels, Invariance, PTL

(* What reaches an instruction does so in a straight line. *)
LEMMA CodeStraight == CodeInv => Straight(instrs)
<1> SUFFICES ASSUME CodeInv, NEW k \in DOMAIN instrs,
                    NEW o \in Sources(instrs[k]), o.type = "TEMPORARY"
             PROVE  \E j \in 1..(k - 1) :
                      /\ Computes(instrs[j]) /\ instrs[j].dest = o
                      /\ \A m \in DOMAIN instrs : instrs[m].dest = o => m = j
                      /\ StraightFrom(instrs, j, k)
  BY DEF Straight
<1>1. PICK j \in 1..(k - 1) : j \in DOMAIN instrs /\ Reaches(o, j, k)
  BY ReadTemporaries
<1>2. ASSUME NEW m \in DOMAIN instrs, instrs[m].dest = o
      PROVE  m = j
  <2>1. instrs[m].op \in Ops
    BY InstrFacts
  <2>2. WellAimed(instrs[m])
    BY DEF CodeInv, CodeWellAimed
  <2>3. Computes(instrs[m])
    BY <1>2, <2>1, <2>2, CodeAssumption DEF WellAimed, Computes, Ops, Unset
  <2> QED
    BY <1>1, <1>2, <2>3 DEF Reaches, CodeInv, ComputedOnce
<1>3. StraightFrom(instrs, j, k)
  BY <1>1 DEF Reaches, StraightFrom, Marks
<1> QED
  BY <1>1, <1>2, <1>3 DEF Reaches

(***************************************************************************)
(* A temporary is computed in one place, and nothing jumps, or is jumped   *)
(* to, between there and the instructions that read it.                    *)
(***************************************************************************)
THEOREM TemporariesAlwaysStraight == Spec => []TemporariesStraight
<1>1. LabelInv => TemporariesStraight
  BY CodeStraight DEF LabelInv, TemporariesStraight
<1> QED
  BY <1>1, Invariance, PTL

(* Together: what the analyser has accepted is executable. *)
LEMMA AcceptedCode ==
  LabelInv =>
    (Analysed /\ errs = << >> /\ InPlace => Executable(instrs, tmp_cnt))
BY ReadyOperands, ResolvedLabels, CodeStraight
   DEF LabelInv, OperandsReady, LabelsResolved, Executable

(***************************************************************************)
(* What the interpreter is proved to need (module InterpreterProofs), the  *)
(* analyser is proved to give: a program that main runs is executable when *)
(* its instruction list has not moved.                                     *)
(***************************************************************************)
THEOREM AcceptedIsExecutable ==
  Spec => [](Analysed /\ errs = << >> /\ InPlace => Executable(instrs, tmp_cnt))
BY AcceptedCode, Invariance, PTL

-----------------------------------------------------------------------------
(* The places of the subtrees: where the analyser goes. *)
LEMMA SubtreeFacts ==
  ASSUME nodes \in Trees, NEW p \in Subtrees(nodes)
  PROVE  /\ p[1] \in DOMAIN nodes /\ p[1] \in Nat
         /\ p[2] \in DOMAIN nodes[p[1]].children /\ p[2] \in Nat
         /\ p = <<p[1], p[2]>>
         /\ nodes[p[1]].children[p[2]].type \in NonTerminals
         /\ Loc(p) \in DOMAIN nodes /\ Loc(p) \in Nat /\ Loc(p) > p[1]
         /\ nodes[Loc(p)].nt = nodes[p[1]].children[p[2]].type
         /\ p[2] \in VisitedAt(nodes[p[1]].nt, Kinds(nodes[p[1]]))
<1>1. /\ \E n \in DOMAIN nodes : p \in {n} \X DOMAIN nodes[n].children
      /\ nodes[p[1]].children[p[2]].type \in NonTerminals
  BY DEF Subtrees
<1>2. PICK n \in DOMAIN nodes : p \in {n} \X DOMAIN nodes[n].children
  BY <1>1
<1>3. /\ p[1] \in DOMAIN nodes /\ p[2] \in DOMAIN nodes[p[1]].children
      /\ p = <<p[1], p[2]>>
  BY <1>2
<1>4. p[1] \in Nat /\ p[2] \in Nat
  BY <1>3, TreeFacts, LenProperties
<1>5. /\ nodes[p[1]].children[p[2]].at \in DOMAIN nodes
      /\ nodes[p[1]].children[p[2]].at \in Nat
      /\ nodes[nodes[p[1]].children[p[2]].at].nt
           = nodes[p[1]].children[p[2]].type
  BY <1>1, <1>3, ChildFacts
<1>6. Orderly(nodes)
  BY SemanterAssumption
<1>7. /\ p[2] \in VisitedAt(nodes[p[1]].nt, Kinds(nodes[p[1]]))
      /\ nodes[p[1]].children[p[2]].at > p[1]
  BY <1>6 DEF Orderly
<1> QED
  BY <1>1, <1>3, <1>4, <1>5, <1>7 DEF Loc

(* A nonterminal child is such a place. *)
LEMMA SubtreeHere ==
  ASSUME NEW n \in DOMAIN nodes, NEW i \in DOMAIN nodes[n].children,
         nodes[n].children[i].type \in NonTerminals
  PROVE  <<n, i>> \in Subtrees(nodes) /\ Loc(<<n, i>>) = nodes[n].children[i].at
<1>1. <<n, i>> \in {n} \X DOMAIN nodes[n].children
  OBVIOUS
<1> QED
  BY <1>1 DEF Subtrees, Loc

(* Every node but the root has one of them. *)
LEMMA ParentFacts ==
  ASSUME nodes \in Trees
  PROVE  /\ \A m \in DOMAIN nodes \ {1} : \E p \in Subtrees(nodes) : Loc(p) = m
         /\ \A p, q \in Subtrees(nodes) : Loc(p) = Loc(q) => p = q
<1>1. Orderly(nodes)
  BY SemanterAssumption
<1> QED
  BY <1>1 DEF Orderly, Loc

(* The names of the source. *)
LEMMA NameFacts ==
  ASSUME nodes \in Trees, NEW p \in Identifiers
  PROVE  /\ p[1] \in DOMAIN nodes /\ p[2] \in DOMAIN nodes[p[1]].children
         /\ p[1] \in Nat /\ p[2] \in Nat /\ p = <<p[1], p[2]>>
         /\ nodes[p[1]].children[p[2]] \in Child
         /\ nodes[p[1]].children[p[2]].type = "IDENTIFIER"
         /\ Name(p) \in Names /\ Name(p) # NULL
         /\ Loc(p) \in Nat /\ Loc(p) > 0
         /\ p[2] \in NamedAt(nodes[p[1]].nt)
         /\ nodes[p[1]].nt = "variables" =>
              nodes[p[1]].children[p[2] + 2].type = "INT"
<1>1. /\ \E n \in DOMAIN nodes : p \in {n} \X DOMAIN nodes[n].children
      /\ Named(nodes[p[1]].children[p[2]]) /\ p \in NamesIn(nodes)
  BY DEF Identifiers, NamesIn
<1>2. PICK n \in DOMAIN nodes : p \in {n} \X DOMAIN nodes[n].children
  BY <1>1
<1>3. /\ p[1] \in DOMAIN nodes /\ p[2] \in DOMAIN nodes[p[1]].children
      /\ p = <<p[1], p[2]>>
  BY <1>2
<1>4. p[1] \in Nat /\ p[2] \in Nat
  BY <1>3, TreeFacts, LenProperties
<1>5. /\ nodes[p[1]].children[p[2]] \in Child
      /\ nodes[p[1]].children[p[2]].at \in Nat
      /\ nodes[p[1]].children[p[2]].type = "IDENTIFIER"
      /\ nodes[p[1]].children[p[2]].attr # NULL
      /\ nodes[p[1]].children[p[2]].attr \in Names
  BY <1>1, <1>3, ChildFacts DEF Named
<1>6. Orderly(nodes)
  BY SemanterAssumption
<1>7. /\ p[2] \in NamedAt(nodes[p[1]].nt)
      /\ nodes[p[1]].children[p[2]].at > 0
      /\ nodes[p[1]].nt = "variables" =>
           nodes[p[1]].children[p[2] + 2].type = "INT"
  BY <1>1, <1>6 DEF Orderly
<1> QED
  BY <1>3, <1>4, <1>5, <1>7 DEF Loc, Name

(* They have locations of their own. *)
LEMMA NameLocations ==
  ASSUME nodes \in Trees
  PROVE  \A p, q \in Identifiers :
           /\ Loc(p) = Loc(q) => p = q
           /\ p[1] = q[1] /\ p[2] < q[2] => Loc(p) < Loc(q)
<1>1. Orderly(nodes)
  BY SemanterAssumption
<1> QED
  BY <1>1 DEF Orderly, Loc, Identifiers

(* A named child is such a place. *)
LEMMA NameHere ==
  ASSUME NEW n \in DOMAIN nodes, NEW i \in DOMAIN nodes[n].children,
         nodes[n].children[i].type = "IDENTIFIER",
         nodes[n].children[i].attr # NULL
  PROVE  /\ <<n, i>> \in Identifiers
         /\ Loc(<<n, i>>) = nodes[n].children[i].at
         /\ Name(<<n, i>>) = nodes[n].children[i].attr
<1>1. <<n, i>> \in {n} \X DOMAIN nodes[n].children
  OBVIOUS
<1> QED
  BY <1>1 DEF Identifiers, NamesIn, Named, Loc, Name

(* What can be a subtree. *)
LEMMA SubtreeKinds ==
  ASSUME nodes \in Trees, NEW p \in Subtrees(nodes)
  PROVE  LET type == nodes[p[1]].children[p[2]].type
             nt == nodes[p[1]].nt
         IN /\ type # "source"
            /\ type = "variables" => nt = "source" /\ p[2] = 2
            /\ nt = "source" => p[2] \in {2, 4}
            /\ nt = "source" /\ p[2] = 2 => type = "variables"
            /\ nt # "variables" /\ nt # "input"
<1> DEFINE n == p[1]  i == p[2]
           nt == nodes[n].nt
           ks == Kinds(nodes[n])
           type == nodes[n].children[i].type
<1>1. /\ n \in DOMAIN nodes /\ i \in DOMAIN nodes[n].children /\ i \in Nat
      /\ type \in NonTerminals /\ i \in VisitedAt(nt, ks)
  BY SubtreeFacts
<1>2. /\ nodes[n] \in Node /\ Readable(nodes[n]) /\ nt \in NonTerminals
  BY <1>1, TreeFacts
<1>3. DOMAIN ks = DOMAIN nodes[n].children /\ ks[i] = type
  BY <1>1, <1>2, LenProperties DEF Kinds, Node
<1> HIDE DEF ks, type, nt
<1>4. CASE nt = "source"
  <2>1. Has(ks, 2, {"variables"}) /\ Has(ks, 4, {"statements"})
    BY <1>2, <1>4 DEF Readable, ks, nt
  <2>2. i \in {2, 4}
    BY <1>1, <1>4 DEF VisitedAt
  <2> QED
    BY <1>3, <1>4, <2>1, <2>2 DEF Has, nt, type
<1>5. CASE nt = "statements"
  <2>1. type \in Statements
    BY <1>1, <1>2, <1>3, <1>5 DEF Readable, ks, nt
  <2> QED
    BY <1>5, <2>1 DEF Statements, nt, type
<1>6. CASE nt = "expression"
  <2>1. ChainReadable(ks, "term", {"PLUS", "MINUS"})
    BY <1>2, <1>6 DEF Readable, ks, nt
  <2>2. type \in {"term", "PLUS", "MINUS"}
    BY <1>1, <1>3, <2>1 DEF ChainReadable
  <2> QED
    BY <1>6, <2>2 DEF nt, type
<1>7. CASE nt = "term"
  <2>1. ChainReadable(ks, "factor", {"MUL", "DIV"})
    BY <1>2, <1>7 DEF Readable, ks, nt
  <2>2. type \in {"factor", "MUL", "DIV"}
    BY <1>1, <1>3, <2>1 DEF ChainReadable
  <2> QED
    BY <1>7, <2>2 DEF nt, type
<1>8. CASE nt \in {"assign", "output"}
  <2>1. i = IF nt = "assign" THEN 3 ELSE 2
    BY <1>1, <1>8 DEF VisitedAt
  <2>2. Has(ks, i, {"expression"})
    BY <1>2, <1>8, <2>1 DEF Readable, ks, nt
  <2> QED
    BY <1>3, <1>8, <2>2 DEF Has, nt, type
<1>9. CASE nt = "branch"
  <2>1. /\ Has(ks, 3, {"condition"}) /\ Has(ks, 6, {"statements"})
        /\ Has(ks, 8, {"statements"})
    BY <1>2, <1>9 DEF Readable, ks, nt
  <2>2. i \in {3, 6, 8}
    BY <1>1, <1>9 DEF VisitedAt
  <2> QED
    BY <1>3, <1>9, <2>1, <2>2 DEF Has, nt, type
<1>10. CASE nt = "loop"
  <2>1. /\ Has(ks, 3, {"condition"}) /\ Has(ks, 6, {"statements"})
    BY <1>2, <1>10 DEF Readable, ks, nt
  <2>2. i \in {3, 6}
    BY <1>1, <1>10 DEF VisitedAt
  <2> QED
    BY <1>3, <1>10, <2>1, <2>2 DEF Has, nt, type
<1>11. CASE nt = "repeat"
  <2>1. /\ Has(ks, 5, {"condition"}) /\ Has(ks, 2, {"statements"})
    BY <1>2, <1>11 DEF Readable, ks, nt
  <2>2. i \in {2, 5}
    BY <1>1, <1>11 DEF VisitedAt
  <2> QED
    BY <1>3, <1>11, <2>1, <2>2 DEF Has, nt, type
<1>12. CASE nt = "condition"
  <2>1. /\ Has(ks, 1, {"expression"}) /\ Has(ks, 3, {"expression"})
    BY <1>2, <1>12 DEF Readable, ks, nt
  <2>2. i \in {1, 3}
    BY <1>1, <1>12 DEF VisitedAt
  <2> QED
    BY <1>3, <1>12, <2>1, <2>2 DEF Has, nt, type
<1>13. CASE nt = "factor"
  <2>1. FactorReadable(ks)
    BY <1>2, <1>13 DEF Readable, ks, nt
  <2>2. i = 2 /\ Has(ks, 1, {"PLUS", "MINUS", "LPAREN"})
    BY <1>1, <1>13 DEF VisitedAt
  <2>3. ks[2] \in {"factor", "expression"}
    BY <2>1, <2>2 DEF FactorReadable, Has
  <2> QED
    BY <1>3, <1>13, <2>2, <2>3 DEF nt, type
<1>14. CASE nt \in {"variables", "input"}
  BY <1>1, <1>14 DEF VisitedAt
<1> QED
  BY <1>2, <1>4, <1>5, <1>6, <1>7, <1>8, <1>9, <1>10, <1>11, <1>12, <1>13,
     <1>14 DEF NonTerminals

(* There is one node of declarations, the second child of the root. *)
LEMMA OneDeclarer ==
  ASSUME nodes \in Trees
  PROVE  /\ <<1, 2>> \in Subtrees(nodes) /\ <<1, 4>> \in Subtrees(nodes)
         /\ 1 \in DOMAIN nodes /\ nodes[1].nt = "source"
         /\ nodes[Loc(<<1, 2>>)].nt = "variables"
         /\ \A m \in DOMAIN nodes : nodes[m].nt = "source" => m = 1
         /\ \A m \in DOMAIN nodes : nodes[m].nt = "variables" =>
              m = Loc(<<1, 2>>)
<1>1. Analysable(nodes) /\ nodes \in Seq(Node)
  BY TreeFacts
<1>2. 1 \in DOMAIN nodes /\ nodes[1].nt = "source"
  BY <1>1, EmptySeq, LenProperties DEF Analysable
<1>3. \A m \in DOMAIN nodes : nodes[m].nt = "source" => m = 1
  <2> SUFFICES ASSUME NEW m \in DOMAIN nodes, nodes[m].nt = "source", m # 1
               PROVE FALSE
    OBVIOUS
  <2>1. PICK p \in Subtrees(nodes) : Loc(p) = m
    BY ParentFacts
  <2> QED
    BY <2>1, SubtreeFacts, SubtreeKinds
<1>4. /\ nodes[1] \in Node /\ Has(Kinds(nodes[1]), 2, {"variables"})
      /\ Has(Kinds(nodes[1]), 4, {"statements"})
  BY <1>2, TreeFacts DEF Readable
<1>5. /\ 2 \in DOMAIN nodes[1].children /\ 4 \in DOMAIN nodes[1].children
      /\ nodes[1].children[2].type = "variables"
      /\ nodes[1].children[4].type = "statements"
  BY <1>4, HasKid
<1>6. <<1, 2>> \in Subtrees(nodes) /\ <<1, 4>> \in Subtrees(nodes)
  BY <1>2, <1>5, SubtreeHere DEF NonTerminals
<1>7. nodes[Loc(<<1, 2>>)].nt = "variables"
  <2>1. <<1, 2>>[1] = 1 /\ <<1, 2>>[2] = 2
    OBVIOUS
  <2> QED
    BY <1>5, <1>6, <2>1, SubtreeFacts
<1>8. \A m \in DOMAIN nodes : nodes[m].nt = "variables" => m = Loc(<<1, 2>>)
  <2> SUFFICES ASSUME NEW m \in DOMAIN nodes, nodes[m].nt = "variables"
               PROVE m = Loc(<<1, 2>>)
    OBVIOUS
  <2>1. m # 1
    BY <1>2
  <2>2. PICK p \in Subtrees(nodes) : Loc(p) = m
    BY <2>1, ParentFacts
  <2>3. /\ nodes[p[1]].nt = "source" /\ p[2] = 2 /\ p[1] \in DOMAIN nodes
        /\ p = <<p[1], p[2]>>
    BY <2>2, SubtreeFacts, SubtreeKinds
  <2>4. p = <<1, 2>>
    BY <1>3, <2>3
  <2> QED
    BY <2>2, <2>4
<1> QED
  BY <1>2, <1>3, <1>6, <1>7, <1>8

-----------------------------------------------------------------------------
(* How a step walks on: the function calls the one for child i, *)
CallsFor(self, i) ==
  /\ stack' = Calling(self, Kids[i])
  /\ self \in Activation /\ self.node = Self.node
  /\ <<Self.node, i>> \in Subtrees(nodes) /\ ~Begun(Self, i)
  /\ \A p \in Subtrees(nodes) :
       p[1] = Self.node =>
         (Begun(self, p[2]) <=> Begun(Self, p[2]) \/ p[2] = i)

(* or goes on without a call, *)
Proceeds(self) ==
  /\ stack' = Stepping(self)
  /\ self \in Activation /\ self.node = Self.node
  /\ KindOf(Self) \notin {"source", "variables"}
  /\ \A p \in Subtrees(nodes) :
       p[1] = Self.node => (Begun(self, p[2]) <=> Begun(Self, p[2]))

(* or returns, *)
Finishes ==
  \/ stack' = Returned
  \/ /\ KindOf(Self) \in Valued
     /\ \E o \in Operand : stack' = Returning(o)

(* nothing being left to do and nothing wrong with its name, *)
Satisfied ==
  /\ KindOf(Self) = "variables" => Self.step > Len(Kids)
  /\ \A p \in Subtrees(nodes) : p[1] = Self.node => Begun(Self, p[2])
  /\ \A p \in Uses : p[1] = Self.node => declared[Name(p)] # 0

(* or else the error being reported; *)
Reports(p) ==
  /\ p[1] = Self.node /\ declared[Name(p)] = 0
  /\ errs' = Append(errs, [kind |-> "UNDECLARED_VAR", loc |-> Loc(p),
                           first |-> 0])

(* or a name is declared, if it is not already. *)
Declares(q) ==
  /\ q[1] = Self.node /\ q[2] = Self.step
  /\ stack' = Stepping([Self EXCEPT !.step = @ + 4])
  /\ LET first == declared[Name(q)]
     IN IF first = 0
        THEN /\ declared' = [declared EXCEPT ![Name(q)] = Loc(q)]
             /\ UNCHANGED errs
        ELSE /\ UNCHANGED declared
             /\ errs' = Append(errs, [kind |-> "MULTIPLE_DECL",
                                      loc |-> Loc(q), first |-> first])

WalkStep ==
  /\ nodes' = nodes
  /\ \/ UNCHANGED <<stack, declared, errs>>
     \/ /\ stack # << >> /\ UNCHANGED declared
        /\ \/ /\ \/ \E self \in Activation, i \in Nat : CallsFor(self, i)
                 \/ \E self \in Activation : Proceeds(self)
              /\ UNCHANGED errs
           \/ Finishes /\ Satisfied /\ UNCHANGED errs
           \/ Finishes /\ \E p \in Uses : Reports(p)
     \/ stack # << >> /\ \E q \in Declarations : Declares(q)

-----------------------------------------------------------------------------
(* A place that the function that runs visits. *)
LEMMA PlaceHere ==
  ASSUME FrameInv, stack # << >>, NEW p \in Subtrees(nodes), p[1] = Self.node
  PROVE  /\ p[2] \in VisitedAt(KindOf(Self), Kinds(nodes[Self.node]))
         /\ p[2] \in Nat /\ p[2] \in DOMAIN Kids
         /\ Kids[p[2]].type \in NonTerminals
<1>1. nodes \in Trees
  BY DEF FrameInv
<1> QED
  BY <1>1, SubtreeFacts DEF KindOf, Kids

(* Only these look at a name. *)
LEMMA NamelessHere ==
  ASSUME FrameInv, stack # << >>,
         KindOf(Self) \notin {"assign", "input", "factor"}
  PROVE  \A p \in Uses : p[1] # Self.node
<1>1. nodes \in Trees
  BY DEF FrameInv
<1> SUFFICES ASSUME NEW p \in Uses, p[1] = Self.node
             PROVE FALSE
  OBVIOUS
<1>2. p \in Identifiers /\ nodes[p[1]].nt # "variables"
  BY DEF Uses, Declarations
<1>3. p[2] \in NamedAt(nodes[p[1]].nt)
  BY <1>1, <1>2, NameFacts
<1> QED
  BY <1>2, <1>3 DEF NamedAt, KindOf

(* A call for child i: its time has come, and no other's. *)
LEMMA DescendsHere ==
  ASSUME FrameInv, stack # << >>, nodes' = nodes,
         NEW i \in Nat, NEW kinds \in SUBSET NonTerminals,
         Has(Kinds(nodes[Self.node]), i, kinds),
         NEW self \in Activation, self.node = Self.node,
         stack' = Calling(self, Kids[i]),
         \A p \in Subtrees(nodes) :
           p[1] = Self.node =>
             (self.step >= After(KindOf(Self), p[2])
                <=> Self.step >= After(KindOf(Self), p[2]) \/ p[2] = i),
         Self.step < After(KindOf(Self), i), After(KindOf(Self), i) \in Nat,
         UNCHANGED <<declared, errs>>
  PROVE  WalkStep
<1>1. i \in DOMAIN Kids /\ Kids[i].type \in NonTerminals
  BY Kid
<1>2. Self.node \in DOMAIN nodes /\ Self.step \in Nat
  BY SelfFacts
<1>3. <<Self.node, i>> \in Subtrees(nodes)
  BY <1>1, <1>2, SubtreeHere DEF Kids
<1>4. KindOf(self) = KindOf(Self)
  BY DEF KindOf
<1>5. ~Begun(Self, i)
  BY <1>2 DEF Begun
<1>6. \A p \in Subtrees(nodes) :
        p[1] = Self.node =>
          (Begun(self, p[2]) <=> Begun(Self, p[2]) \/ p[2] = i)
  BY <1>4 DEF Begun
<1>7. CallsFor(self, i)
  BY <1>3, <1>5, <1>6 DEF CallsFor
<1> QED
  BY <1>7 DEF WalkStep

(* A return with nothing to report, of a function that looks at no name. *)
LEMMA FinishesHere ==
  ASSUME FrameInv, stack # << >>, nodes' = nodes, Finishes,
         UNCHANGED <<declared, errs>>,
         KindOf(Self) = "variables" => Self.step > Len(Kids),
         \A p \in Subtrees(nodes) :
           p[1] = Self.node => Self.step >= After(KindOf(Self), p[2]),
         \A p \in Uses : p[1] = Self.node => declared[Name(p)] # 0
  PROVE  WalkStep
<1>1. Satisfied
  BY DEF Satisfied, Begun
<1> QED
  BY <1>1 DEF WalkStep

(* The steps after the calls. *)
LEMMA AfterFacts ==
  /\ \A i \in Nat : /\ After("statements", i) = i + 1
                    /\ After("expression", i) = i + 1
                    /\ After("term", i) = i + 1
  /\ After("source", 2) = 2 /\ After("source", 4) = 3
  /\ After("assign", 3) = 2 /\ After("output", 2) = 2 /\ After("factor", 2) = 2
  /\ After("branch", 3) = 2 /\ After("branch", 8) = 3 /\ After("branch", 6) = 4
  /\ After("loop", 3) = 2 /\ After("loop", 6) = 4
  /\ After("repeat", 2) = 2 /\ After("repeat", 5) = 3
  /\ After("condition", 1) = 2 /\ After("condition", 3) = 3
BY DEF After

-----------------------------------------------------------------------------
(* analyse_source visits the variables and then the statements. *)
LEMMA SourceWalk ==
  ASSUME FrameInv, AnalyseSource
  PROVE  WalkStep
<1>1. /\ stack # << >> /\ KindOf(Self) = "source" /\ Self.node \in DOMAIN nodes
      /\ Self.step \in 1..3 /\ OnlyCalls /\ nodes \in Trees
      /\ nodes' = nodes /\ UNCHANGED <<declared, errs>>
  BY SelfFacts DEF AnalyseSource, In, KindOf, Fit, OnlyCalls, FrameInv
<1>2. /\ Has(Kinds(nodes[Self.node]), 2, {"variables"})
      /\ Has(Kinds(nodes[Self.node]), 4, {"statements"})
  BY <1>1, TreeFacts DEF Readable, KindOf
<1>3. /\ Onward \in Activation /\ Onward.node = Self.node
      /\ Onward.step = Self.step + 1
  BY <1>1, OnwardFacts
<1>4. \A p \in Subtrees(nodes) : p[1] = Self.node => p[2] \in {2, 4}
  BY <1>1, PlaceHere DEF VisitedAt
<1>5. {"variables"} \in SUBSET NonTerminals /\ {"statements"} \in SUBSET NonTerminals
  BY DEF NonTerminals
<1>6. CASE Self.step = 1 /\ stack' = Calling(Onward, Kids[2])
  <2>1. /\ Self.step < After(KindOf(Self), 2)
        /\ After(KindOf(Self), 2) \in Nat
    BY <1>1, <1>6, AfterFacts
  <2>2. \A p \in Subtrees(nodes) :
          p[1] = Self.node =>
            (Onward.step >= After(KindOf(Self), p[2])
               <=> Self.step >= After(KindOf(Self), p[2]) \/ p[2] = 2)
    BY <1>1, <1>3, <1>4, <1>6, AfterFacts
  <2> QED
    BY <1>1, <1>2, <1>3, <1>5, <1>6, <2>1, <2>2, DescendsHere
<1>7. CASE Self.step = 2 /\ stack' = Calling(Onward, Kids[4])
  <2>1. /\ Self.step < After(KindOf(Self), 4)
        /\ After(KindOf(Self), 4) \in Nat
    BY <1>1, <1>7, AfterFacts
  <2>2. \A p \in Subtrees(nodes) :
          p[1] = Self.node =>
            (Onward.step >= After(KindOf(Self), p[2])
               <=> Self.step >= After(KindOf(Self), p[2]) \/ p[2] = 4)
    BY <1>1, <1>3, <1>4, <1>7, AfterFacts
  <2> QED
    BY <1>1, <1>2, <1>3, <1>5, <1>7, <2>1, <2>2, DescendsHere
<1>8. CASE Self.step = 3 /\ stack' = Returned
  <2>1. Finishes /\ \A p \in Uses : p[1] # Self.node
    BY <1>1, <1>8, NamelessHere DEF Finishes
  <2> QED
    BY <1>1, <1>4, <1>8, <2>1, AfterFacts, FinishesHere
<1> QED
  BY <1>1, <1>6, <1>7, <1>8 DEF AnalyseSource

(* analyse_statements visits all of its children. *)
LEMMA StatementsWalk ==
  ASSUME FrameInv, AnalyseStatements
  PROVE  WalkStep
<1>1. /\ stack # << >> /\ KindOf(Self) = "statements" /\ Self.node \in DOMAIN nodes
      /\ Self.step \in Nat /\ Self.step >= 1 /\ OnlyCalls
      /\ Kids = nodes[Self.node].children /\ nodes \in Trees
      /\ nodes' = nodes /\ UNCHANGED <<declared, errs>>
  BY SelfFacts DEF AnalyseStatements, In, KindOf, Fit, Kids, OnlyCalls, FrameInv
<1>2. /\ nodes[Self.node] \in Node /\ Readable(nodes[Self.node])
      /\ Len(Kids) \in Nat /\ DOMAIN Kids = 1..Len(Kids)
      /\ DOMAIN Kinds(nodes[Self.node]) = 1..Len(Kids)
  BY <1>1, TreeFacts, LenProperties DEF Kinds, Node
<1>3. /\ Onward \in Activation /\ Onward.node = Self.node
      /\ Onward.step = Self.step + 1
  BY <1>1, OnwardFacts
<1>4. \A p \in Subtrees(nodes) :
        p[1] = Self.node =>
          /\ p[2] \in Nat /\ p[2] <= Len(Kids)
          /\ After(KindOf(Self), p[2]) = p[2] + 1
  <2> SUFFICES ASSUME NEW p \in Subtrees(nodes), p[1] = Self.node
               PROVE  /\ p[2] \in Nat /\ p[2] <= Len(Kids)
                      /\ After(KindOf(Self), p[2]) = p[2] + 1
    OBVIOUS
  <2>1. p[2] \in Nat /\ p[2] \in DOMAIN Kids
    BY <1>1, PlaceHere
  <2> QED
    BY <1>1, <1>2, <2>1, AfterFacts
<1>5. CASE Self.step <= Len(Kids) /\ stack' = Calling(Onward, Kids[Self.step])
  <2>1. PICK k \in Nat : k = Self.step
    BY <1>1
  <2>2. Has(Kinds(nodes[Self.node]), k, Statements)
    BY <1>1, <1>2, <1>5, <2>1 DEF Readable, KindOf, Has
  <2>3. Statements \in SUBSET NonTerminals
    BY DEF Statements, NonTerminals
  <2>4. After(KindOf(Self), k) = k + 1
    BY <1>1, AfterFacts
  <2>5. \A p \in Subtrees(nodes) :
          p[1] = Self.node =>
             (Onward.step >= After(KindOf(Self), p[2])
                <=> Self.step >= After(KindOf(Self), p[2]) \/ p[2] = k)
    BY <1>3, <1>4, <2>1
  <2>6. /\ stack' = Calling(Onward, Kids[k]) /\ Self.step < After(KindOf(Self), k)
        /\ After(KindOf(Self), k) \in Nat
    BY <1>5, <2>1, <2>4
  <2> QED
    BY <1>1, <1>3, <2>2, <2>3, <2>5, <2>6, DescendsHere
<1>6. CASE Self.step > Len(Kids) /\ stack' = Returned
  <2>1. Finishes /\ \A p \in Uses : p[1] # Self.node
    BY <1>1, <1>6, NamelessHere DEF Finishes
  <2>2. \A p \in Subtrees(nodes) :
           p[1] = Self.node => Self.step >= After(KindOf(Self), p[2])
    BY <1>1, <1>2, <1>4, <1>6
  <2> QED
    BY <1>1, <2>1, <2>2, FinishesHere
<1> QED
  BY <1>1, <1>2, <1>5, <1>6 DEF AnalyseStatements

(* analyse_output visits its expression. *)
LEMMA OutputWalk ==
  ASSUME FrameInv, AnalyseOutput
  PROVE  WalkStep
<1>1. /\ stack # << >> /\ KindOf(Self) = "output" /\ Self.node \in DOMAIN nodes
      /\ Self.step \in 1..2 /\ nodes \in Trees
      /\ nodes' = nodes /\ UNCHANGED <<declared, errs>>
  BY SelfFacts DEF AnalyseOutput, At, In, KindOf, Fit, FrameInv, OnlyCalls
<1>2. Has(Kinds(nodes[Self.node]), 2, {"expression"})
  BY <1>1, TreeFacts DEF Readable, KindOf
<1>3. /\ Onward \in Activation /\ Onward.node = Self.node
      /\ Onward.step = Self.step + 1
  BY <1>1, OnwardFacts
<1>4. \A p \in Subtrees(nodes) : p[1] = Self.node => p[2] = 2
  BY <1>1, PlaceHere DEF VisitedAt
<1>5. {"expression"} \in SUBSET NonTerminals
  BY DEF NonTerminals
<1>6. CASE Self.step = 1 /\ stack' = Calling(Onward, Kids[2])
  <2>1. /\ Self.step < After(KindOf(Self), 2)
        /\ After(KindOf(Self), 2) \in Nat
    BY <1>1, <1>6, AfterFacts
  <2>2. \A p \in Subtrees(nodes) :
          p[1] = Self.node =>
            (Onward.step >= After(KindOf(Self), p[2])
               <=> Self.step >= After(KindOf(Self), p[2]) \/ p[2] = 2)
    BY <1>1, <1>3, <1>4, <1>6, AfterFacts
  <2> QED
    BY <1>1, <1>2, <1>3, <1>5, <1>6, <2>1, <2>2, DescendsHere
<1>7. CASE Self.step = 2 /\ stack' = Returned
  <2>1. Finishes /\ \A p \in Uses : p[1] # Self.node
    BY <1>1, <1>7, NamelessHere DEF Finishes
  <2> QED
    BY <1>1, <1>4, <1>7, <2>1, AfterFacts, FinishesHere
<1> QED
  BY <1>1, <1>6, <1>7 DEF AnalyseOutput, At

(* analyse_condition visits its two sides. *)
LEMMA ConditionWalk ==
  ASSUME FrameInv, AnalyseCondition
  PROVE  WalkStep
<1>1. /\ stack # << >> /\ KindOf(Self) = "condition"
      /\ Self.node \in DOMAIN nodes /\ nodes \in Trees
      /\ Self.step \in 1..3
      /\ nodes' = nodes /\ UNCHANGED <<declared, errs>>
      /\ Len(Self.opds) = Self.step - 1
  BY SelfFacts DEF AnalyseCondition, At, In, KindOf, Fit, FrameInv, OnlyCalls
<1>2. /\ Has(Kinds(nodes[Self.node]), 1, {"expression"})
      /\ Has(Kinds(nodes[Self.node]), 3, {"expression"})
  BY <1>1, TreeFacts DEF Readable, KindOf
<1>3. /\ Onward \in Activation /\ Onward.node = Self.node
      /\ Onward.step = Self.step + 1
  BY <1>1, OnwardFacts
<1>4. \A p \in Subtrees(nodes) : p[1] = Self.node => p[2] \in {1, 3}
  BY <1>1, PlaceHere DEF VisitedAt
<1>5. {"expression"} \in SUBSET NonTerminals
  BY DEF NonTerminals
<1>6. CASE Self.step = 1 /\ stack' = Calling(Onward, Kids[1])
  <2>1. /\ Self.step < After(KindOf(Self), 1)
        /\ After(KindOf(Self), 1) \in Nat
    BY <1>1, <1>6, AfterFacts
  <2>2. \A p \in Subtrees(nodes) :
          p[1] = Self.node =>
            (Onward.step >= After(KindOf(Self), p[2])
               <=> Self.step >= After(KindOf(Self), p[2]) \/ p[2] = 1)
    BY <1>1, <1>3, <1>4, <1>6, AfterFacts
  <2> QED
    BY <1>1, <1>2, <1>3, <1>5, <1>6, <2>1, <2>2, DescendsHere
<1>7. CASE Self.step = 2 /\ stack' = Calling(Onward, Kids[3])
  <2>1. /\ Self.step < After(KindOf(Self), 3)
        /\ After(KindOf(Self), 3) \in Nat
    BY <1>1, <1>7, AfterFacts
  <2>2. \A p \in Subtrees(nodes) :
          p[1] = Self.node =>
            (Onward.step >= After(KindOf(Self), p[2])
               <=> Self.step >= After(KindOf(Self), p[2]) \/ p[2] = 3)
    BY <1>1, <1>3, <1>4, <1>7, AfterFacts
  <2> QED
    BY <1>1, <1>2, <1>3, <1>5, <1>7, <2>1, <2>2, DescendsHere
<1>8. CASE Self.step = 3 /\ stack' = Returning(Temporary(tmp_cnt))
  <2>1. Temporary(tmp_cnt) \in Operand
    BY OperandKinds DEF FrameInv, TypeOK
  <2>2. Finishes /\ \A p \in Uses : p[1] # Self.node
    BY <1>1, <1>8, <2>1, NamelessHere DEF Finishes, Valued
  <2> QED
    BY <1>1, <1>4, <1>8, <2>2, AfterFacts, FinishesHere
<1> QED
  BY <1>1, <1>6, <1>7, <1>8 DEF AnalyseCondition, At

(* analyse_branch visits the condition, the else part and the then part. *)
LEMMA BranchWalk ==
  ASSUME FrameInv, AnalyseBranch
  PROVE  WalkStep
<1>1. /\ stack # << >> /\ KindOf(Self) = "branch"
      /\ Self.node \in DOMAIN nodes /\ nodes \in Trees
      /\ Self.step \in 1..4
      /\ nodes' = nodes /\ UNCHANGED <<declared, errs>>
  BY SelfFacts DEF AnalyseBranch, At, In, KindOf, Fit, TestFit, FrameInv, OnlyCalls
<1>2. /\ Has(Kinds(nodes[Self.node]), 3, {"condition"})
      /\ Has(Kinds(nodes[Self.node]), 6, {"statements"})
      /\ Has(Kinds(nodes[Self.node]), 8, {"statements"})
  BY <1>1, TreeFacts DEF Readable, KindOf
<1>3. /\ Onward \in Activation /\ Onward.node = Self.node
      /\ Onward.step = Self.step + 1
  BY <1>1, OnwardFacts
<1>4. \A p \in Subtrees(nodes) : p[1] = Self.node => p[2] \in {3, 6, 8}
  BY <1>1, PlaceHere DEF VisitedAt
<1>5. {"condition"} \in SUBSET NonTerminals /\ {"statements"} \in SUBSET NonTerminals
  BY DEF NonTerminals
<1>6. CASE Self.step = 1 /\ stack' = Calling(Onward, Kids[3])
  <2>1. PICK self \in Activation :
          /\ stack' = Calling(self, Kids[3])
          /\ self.node = Self.node /\ self.step = Self.step + 1
    BY <1>1, <1>3, <1>6
  <2>2. /\ Self.step < After(KindOf(Self), 3)
        /\ After(KindOf(Self), 3) \in Nat
    BY <1>1, <1>6, AfterFacts
  <2>3. \A p \in Subtrees(nodes) :
          p[1] = Self.node =>
            (self.step >= After(KindOf(Self), p[2])
               <=> Self.step >= After(KindOf(Self), p[2]) \/ p[2] = 3)
    <3> TAKE p \in Subtrees(nodes)
    <3> HAVE p[1] = Self.node
    <3>1. p[2] \in {3, 6, 8}
      BY <1>4
    <3>2. After(KindOf(Self), p[2])
            = IF p[2] = 3 THEN 2 ELSE IF p[2] = 6 THEN 4 ELSE 3
      BY <1>1, <3>1, AfterFacts
    <3>3. Self.step = 1 /\ self.step = 2
      BY <1>6, <2>1
    <3> QED
      BY <3>1, <3>2, <3>3
  <2> QED
    BY <1>1, <1>2, <1>5, <1>6, <2>1, <2>2, <2>3, DescendsHere
<1>7. CASE Self.step = 2 /\ Enlarge /\ stack' = Calling(Pointing(Onward), Kids[8])
  <2>1. PICK self \in Activation :
          /\ stack' = Calling(self, Kids[8])
          /\ self.node = Self.node /\ self.step = Self.step + 1
    BY <1>1, <1>3, <1>7, PointingFacts
  <2>2. /\ Self.step < After(KindOf(Self), 8)
        /\ After(KindOf(Self), 8) \in Nat
    BY <1>1, <1>7, AfterFacts
  <2>3. \A p \in Subtrees(nodes) :
          p[1] = Self.node =>
            (self.step >= After(KindOf(Self), p[2])
               <=> Self.step >= After(KindOf(Self), p[2]) \/ p[2] = 8)
    <3> TAKE p \in Subtrees(nodes)
    <3> HAVE p[1] = Self.node
    <3>1. p[2] \in {3, 6, 8}
      BY <1>4
    <3>2. After(KindOf(Self), p[2])
            = IF p[2] = 3 THEN 2 ELSE IF p[2] = 6 THEN 4 ELSE 3
      BY <1>1, <3>1, AfterFacts
    <3>3. Self.step = 2 /\ self.step = 3
      BY <1>7, <2>1
    <3> QED
      BY <3>1, <3>2, <3>3
  <2> QED
    BY <1>1, <1>2, <1>5, <1>7, <2>1, <2>2, <2>3, DescendsHere
<1>8. CASE Self.step = 3 /\ Enlarge /\ stack' = Calling(Pointing(Onward), Kids[6])
  <2>1. PICK self \in Activation :
          /\ stack' = Calling(self, Kids[6])
          /\ self.node = Self.node /\ self.step = Self.step + 1
    BY <1>1, <1>3, <1>8, PointingFacts
  <2>2. /\ Self.step < After(KindOf(Self), 6)
        /\ After(KindOf(Self), 6) \in Nat
    BY <1>1, <1>8, AfterFacts
  <2>3. \A p \in Subtrees(nodes) :
          p[1] = Self.node =>
            (self.step >= After(KindOf(Self), p[2])
               <=> Self.step >= After(KindOf(Self), p[2]) \/ p[2] = 6)
    <3> TAKE p \in Subtrees(nodes)
    <3> HAVE p[1] = Self.node
    <3>1. p[2] \in {3, 6, 8}
      BY <1>4
    <3>2. After(KindOf(Self), p[2])
            = IF p[2] = 3 THEN 2 ELSE IF p[2] = 6 THEN 4 ELSE 3
      BY <1>1, <3>1, AfterFacts
    <3>3. Self.step = 3 /\ self.step = 4
      BY <1>8, <2>1
    <3> QED
      BY <3>1, <3>2, <3>3
  <2> QED
    BY <1>1, <1>2, <1>5, <1>8, <2>1, <2>2, <2>3, DescendsHere
<1>9. CASE Self.step = 4 /\ stack' = Returned
  <2>1. Finishes /\ \A p \in Uses : p[1] # Self.node
    BY <1>1, <1>9, NamelessHere DEF Finishes
  <2> QED
    BY <1>1, <1>4, <1>9, <2>1, AfterFacts, FinishesHere
<1> QED
  BY <1>1, <1>6, <1>7, <1>8, <1>9 DEF AnalyseBranch, At, Add

(* analyse_loop visits the condition and the statements. *)
LEMMA LoopWalk ==
  ASSUME FrameInv, AnalyseLoop
  PROVE  WalkStep
<1>1. /\ stack # << >> /\ KindOf(Self) = "loop"
      /\ Self.node \in DOMAIN nodes /\ nodes \in Trees
      /\ Self.step \in 1..4
      /\ nodes' = nodes /\ UNCHANGED <<declared, errs>>
  BY SelfFacts DEF AnalyseLoop, At, In, KindOf, Fit, TestFit, FrameInv, OnlyCalls
<1>2. /\ Has(Kinds(nodes[Self.node]), 3, {"condition"})
      /\ Has(Kinds(nodes[Self.node]), 6, {"statements"})
  BY <1>1, TreeFacts DEF Readable, KindOf
<1>3. /\ Onward \in Activation /\ Onward.node = Self.node
      /\ Onward.step = Self.step + 1
  BY <1>1, OnwardFacts
<1>4. \A p \in Subtrees(nodes) : p[1] = Self.node => p[2] \in {3, 6}
  BY <1>1, PlaceHere DEF VisitedAt
<1>5. {"condition"} \in SUBSET NonTerminals /\ {"statements"} \in SUBSET NonTerminals
  BY DEF NonTerminals
<1>6. CASE Self.step = 1 /\ stack' = Calling([Onward EXCEPT !.start = Len(instrs)], Kids[3])
  <2>1. PICK self \in Activation :
          /\ stack' = Calling(self, Kids[3])
          /\ self.node = Self.node /\ self.step = Self.step + 1
    BY <1>1, <1>3, <1>6, StartingFacts
  <2>2. /\ Self.step < After(KindOf(Self), 3)
        /\ After(KindOf(Self), 3) \in Nat
    BY <1>1, <1>6, AfterFacts
  <2>3. \A p \in Subtrees(nodes) :
          p[1] = Self.node =>
            (self.step >= After(KindOf(Self), p[2])
               <=> Self.step >= After(KindOf(Self), p[2]) \/ p[2] = 3)
    BY <1>1, <1>4, <1>6, <2>1, AfterFacts
  <2> QED
    BY <1>1, <1>2, <1>5, <1>6, <2>1, <2>2, <2>3, DescendsHere
<1>7. CASE Self.step = 2 /\ Enlarge /\ stack' = Stepping(Pointing(Onward))
  <2>1. PICK self \in Activation :
          /\ stack' = Stepping(self)
          /\ self.node = Self.node /\ self.step = Self.step + 1
    BY <1>1, <1>7, PointingFacts
  <2>2. \A p \in Subtrees(nodes) :
          p[1] = Self.node => (Begun(self, p[2]) <=> Begun(Self, p[2]))
    <3>1. KindOf(self) = "loop"
      BY <1>1, <2>1 DEF KindOf
    <3>2. After("loop", 3) = 2 /\ After("loop", 6) = 4
      BY AfterFacts
    <3> QED
      BY <1>1, <1>4, <1>7, <2>1, <3>1, <3>2 DEF Begun
  <2>3. Proceeds(self)
    BY <1>1, <2>1, <2>2 DEF Proceeds
  <2> QED
    BY <1>1, <2>3 DEF WalkStep
<1>8. CASE Self.step = 3 /\ Enlarge /\ stack' = Calling(Pointing(Onward), Kids[6])
  <2>1. PICK self \in Activation :
          /\ stack' = Calling(self, Kids[6])
          /\ self.node = Self.node /\ self.step = Self.step + 1
    BY <1>1, <1>3, <1>8, PointingFacts
  <2>2. /\ Self.step < After(KindOf(Self), 6)
        /\ After(KindOf(Self), 6) \in Nat
    BY <1>1, <1>8, AfterFacts
  <2>3. \A p \in Subtrees(nodes) :
          p[1] = Self.node =>
            (self.step >= After(KindOf(Self), p[2])
               <=> Self.step >= After(KindOf(Self), p[2]) \/ p[2] = 6)
    BY <1>1, <1>4, <1>8, <2>1, AfterFacts
  <2> QED
    BY <1>1, <1>2, <1>5, <1>8, <2>1, <2>2, <2>3, DescendsHere
<1>9. CASE Self.step = 4 /\ stack' = Returned
  <2>1. Finishes /\ \A p \in Uses : p[1] # Self.node
    BY <1>1, <1>9, NamelessHere DEF Finishes
  <2> QED
    BY <1>1, <1>4, <1>9, <2>1, AfterFacts, FinishesHere
<1> QED
  BY <1>1, <1>6, <1>7, <1>8, <1>9 DEF AnalyseLoop, At, Add

(* analyse_repeat visits the statements and the condition. *)
LEMMA RepeatWalk ==
  ASSUME FrameInv, AnalyseRepeat
  PROVE  WalkStep
<1>1. /\ stack # << >> /\ KindOf(Self) = "repeat"
      /\ Self.node \in DOMAIN nodes /\ nodes \in Trees
      /\ Self.step \in 1..3
      /\ nodes' = nodes /\ UNCHANGED <<declared, errs>>
  BY SelfFacts DEF AnalyseRepeat, At, In, KindOf, Fit, TestFit, FrameInv, OnlyCalls
<1>2. /\ Has(Kinds(nodes[Self.node]), 2, {"statements"})
      /\ Has(Kinds(nodes[Self.node]), 5, {"condition"})
  BY <1>1, TreeFacts DEF Readable, KindOf
<1>3. /\ Onward \in Activation /\ Onward.node = Self.node
      /\ Onward.step = Self.step + 1
  BY <1>1, OnwardFacts
<1>4. \A p \in Subtrees(nodes) : p[1] = Self.node => p[2] \in {2, 5}
  BY <1>1, PlaceHere DEF VisitedAt
<1>5. {"condition"} \in SUBSET NonTerminals /\ {"statements"} \in SUBSET NonTerminals
  BY DEF NonTerminals
<1>6. CASE Self.step = 1 /\ stack' = Calling([Onward EXCEPT !.start = Len(instrs)], Kids[2])
  <2>1. PICK self \in Activation :
          /\ stack' = Calling(self, Kids[2])
          /\ self.node = Self.node /\ self.step = Self.step + 1
    BY <1>1, <1>3, <1>6, StartingFacts
  <2>2. /\ Self.step < After(KindOf(Self), 2)
        /\ After(KindOf(Self), 2) \in Nat
    BY <1>1, <1>6, AfterFacts
  <2>3. \A p \in Subtrees(nodes) :
          p[1] = Self.node =>
            (self.step >= After(KindOf(Self), p[2])
               <=> Self.step >= After(KindOf(Self), p[2]) \/ p[2] = 2)
    BY <1>1, <1>4, <1>6, <2>1, AfterFacts
  <2> QED
    BY <1>1, <1>2, <1>5, <1>6, <2>1, <2>2, <2>3, DescendsHere
<1>7. CASE Self.step = 2 /\ stack' = Calling(Onward, Kids[5])
  <2>1. PICK self \in Activation :
          /\ stack' = Calling(self, Kids[5])
          /\ self.node = Self.node /\ self.step = Self.step + 1
    BY <1>1, <1>3, <1>7
  <2>2. /\ Self.step < After(KindOf(Self), 5)
        /\ After(KindOf(Self), 5) \in Nat
    BY <1>1, <1>7, AfterFacts
  <2>3. \A p \in Subtrees(nodes) :
          p[1] = Self.node =>
            (self.step >= After(KindOf(Self), p[2])
               <=> Self.step >= After(KindOf(Self), p[2]) \/ p[2] = 5)
    BY <1>1, <1>4, <1>7, <2>1, AfterFacts
  <2> QED
    BY <1>1, <1>2, <1>5, <1>7, <2>1, <2>2, <2>3, DescendsHere
<1>8. CASE Self.step = 3 /\ stack' = Returned
  <2>1. Finishes /\ \A p \in Uses : p[1] # Self.node
    BY <1>1, <1>8, NamelessHere DEF Finishes
  <2> QED
    BY <1>1, <1>4, <1>8, <2>1, AfterFacts, FinishesHere
<1> QED
  BY <1>1, <1>6, <1>7, <1>8 DEF AnalyseRepeat, At

(* analyse_expression and analyse_term visit every other child. *)
LEMMA ChainWalk ==
  ASSUME FrameInv, NEW nt \in {"expression", "term"}, AnalyseChain(nt)
  PROVE  WalkStep
<1>1. /\ stack # << >> /\ KindOf(Self) = nt /\ Self \in Activation
      /\ Self.node \in DOMAIN nodes /\ nodes \in Trees
      /\ nodes' = nodes /\ UNCHANGED <<declared, errs>>
      /\ Self.opds \in Seq(Operand)
  BY SelfFacts DEF AnalyseChain, In, KindOf, FrameInv, OnlyCalls
<1>2. PICK k \in Nat, n \in Nat :
        /\ k = Self.step /\ n = Len(Kids) /\ k % 2 = 1 /\ k <= n + 2
  BY <1>1, ChainFacts DEF ChainFit
<1>3. \A p \in Subtrees(nodes) :
        p[1] = Self.node =>
          /\ p[2] \in 1..n /\ p[2] % 2 = 1
          /\ After(KindOf(Self), p[2]) = p[2] + 1
  <2> SUFFICES ASSUME NEW p \in Subtrees(nodes), p[1] = Self.node
               PROVE  /\ p[2] \in 1..n /\ p[2] % 2 = 1
                      /\ After(KindOf(Self), p[2]) = p[2] + 1
    OBVIOUS
  <2>1. /\ p[2] \in Nat /\ p[2] \in DOMAIN Kids
        /\ Kids[p[2]].type \in NonTerminals
    BY <1>1, PlaceHere
  <2>2. Kids \in Seq(Child)
    BY <1>1, TreeFacts DEF Kids
  <2>3. p[2] \in 1..Len(Kids)
    BY <2>1, <2>2, LenProperties
  <2>4. p[2] % 2 # 1 => Kids[p[2]].type \in {"PLUS", "MINUS", "MUL", "DIV"}
    BY <1>1, <2>3, ChainFacts
  <2> QED
    BY <1>1, <1>2, <2>1, <2>3, <2>4, AfterFacts DEF NonTerminals
<1>4. CASE /\ k <= n
           /\ stack' = Calling([Self EXCEPT !.step = @ + 2], Kids[Self.step])
  <2>1. PICK self \in Activation :
          /\ self = [Self EXCEPT !.step = k + 2]
          /\ self.node = Self.node /\ self.step = k + 2
    <3>1. k + 2 \in Nat
      OBVIOUS
    <3> QED
      BY <1>1, <3>1, AtStep
  <2>2. stack' = Calling(self, Kids[k])
    BY <1>2, <1>4, <2>1
  <2>3. \E kinds \in SUBSET NonTerminals : Has(Kinds(nodes[Self.node]), k, kinds)
    <3>1. /\ {"term"} \in SUBSET NonTerminals /\ {"factor"} \in SUBSET NonTerminals
          /\ k \in 1..Len(Kids)
      BY <1>2, <1>4 DEF NonTerminals
    <3> QED
      BY <1>1, <1>2, <3>1, ChainFacts
  <2>4. After(KindOf(Self), k) = k + 1
    BY <1>1, AfterFacts
  <2>5. \A p \in Subtrees(nodes) :
          p[1] = Self.node =>
            (self.step >= After(KindOf(Self), p[2])
               <=> Self.step >= After(KindOf(Self), p[2]) \/ p[2] = k)
    <3> SUFFICES ASSUME NEW p \in Subtrees(nodes), p[1] = Self.node
                 PROVE  k + 2 >= p[2] + 1 <=> k >= p[2] + 1 \/ p[2] = k
      BY <1>2, <1>3, <2>1
    <3>1. PICK i \in 1..n : i = p[2] /\ i % 2 = 1
      BY <1>3
    <3> QED
      BY <1>2, <3>1
  <2>6. Self.step < After(KindOf(Self), k) /\ After(KindOf(Self), k) \in Nat
    BY <1>2, <2>4
  <2> QED
    BY <1>1, <2>1, <2>2, <2>3, <2>5, <2>6, DescendsHere
<1>5. CASE stack' = Stepping([Self EXCEPT !.opds = <<Temporary(tmp_cnt)>>])
  <2>1. PICK o \in Operand : o = Temporary(tmp_cnt)
    BY OperandKinds DEF FrameInv, TypeOK
  <2>2. <<o>> \in Seq(Operand)
    OBVIOUS
  <2>3. PICK self : self = [Self EXCEPT !.opds = <<o>>]
    OBVIOUS
  <2>4. self \in Activation /\ self.node = Self.node /\ self.step = Self.step
    BY <1>1, <2>2, <2>3 DEF Activation
  <2>5. stack' = Stepping(self)
    BY <1>5, <2>1, <2>3
  <2>6. Proceeds(self)
    BY <1>1, <2>4, <2>5 DEF Proceeds, Begun, KindOf
  <2> QED
    BY <1>1, <2>4, <2>6 DEF WalkStep
<1>6. CASE /\ k > n /\ Len(Self.opds) = 1 /\ stack' = Returning(Self.opds[1])
  <2>1. Self.opds[1] \in Operand
    BY <1>1, <1>6, ElementOfSeq
  <2>2. Finishes /\ \A p \in Uses : p[1] # Self.node
    BY <1>1, <1>6, <2>1, NamelessHere DEF Finishes, Valued
  <2>3. \A p \in Subtrees(nodes) :
          p[1] = Self.node => Self.step >= After(KindOf(Self), p[2])
    BY <1>2, <1>3, <1>6
  <2> QED
    BY <1>1, <2>2, <2>3, FinishesHere
<1> QED
  BY <1>1, <1>2, <1>4, <1>5, <1>6 DEF AnalyseChain

(* The name at child i of a function that looks at no other. *)
LEMMA NameAtHand ==
  ASSUME FrameInv, stack # << >>, NEW i \in Nat, i \in DOMAIN Kids,
         KindOf(Self) \in {"assign", "input", "factor"},
         NamedAt(KindOf(Self)) = {i}
  PROVE  /\ \A p \in Uses : p[1] = Self.node =>
              /\ p = <<Self.node, i>> /\ Name(p) = Kids[i].attr
              /\ Named(Kids[i])
         /\ Named(Kids[i]) =>
              /\ <<Self.node, i>> \in Uses
              /\ Name(<<Self.node, i>>) = Kids[i].attr
              /\ Loc(<<Self.node, i>>) = Kids[i].at
<1>1. nodes \in Trees /\ Self.node \in DOMAIN nodes
  BY SelfFacts DEF FrameInv
<1>2. ASSUME NEW p \in Uses, p[1] = Self.node
      PROVE  /\ p = <<Self.node, i>> /\ Name(p) = Kids[i].attr
             /\ Named(Kids[i])
  <2>1. p \in Identifiers
    BY DEF Uses
  <2>2. /\ p[2] \in NamedAt(nodes[p[1]].nt) /\ p = <<p[1], p[2]>>
        /\ nodes[p[1]].children[p[2]].type = "IDENTIFIER" /\ Name(p) # NULL
    BY <1>1, <2>1, NameFacts
  <2>3. p[2] = i
    BY <1>2, <2>2 DEF KindOf
  <2> QED
    BY <1>2, <2>2, <2>3 DEF Name, Named, Kids
<1>3. ASSUME Named(Kids[i])
      PROVE  /\ <<Self.node, i>> \in Uses
             /\ Name(<<Self.node, i>>) = Kids[i].attr
             /\ Loc(<<Self.node, i>>) = Kids[i].at
  <2>1. /\ <<Self.node, i>> \in Identifiers
        /\ Name(<<Self.node, i>>) = Kids[i].attr
        /\ Loc(<<Self.node, i>>) = Kids[i].at
    BY <1>1, <1>3, NameHere DEF Kids, Named
  <2>2. nodes[Self.node].nt # "variables"
    BY DEF KindOf
  <2> QED
    BY <2>1, <2>2 DEF Uses, Declarations
<1> QED
  BY <1>2, <1>3

(* Its use is reported, if it is not declared. *)
LEMMA Complained ==
  ASSUME FrameInv, stack # << >>, NEW i \in Nat, i \in DOMAIN Kids,
         KindOf(Self) \in {"assign", "input", "factor"},
         NamedAt(KindOf(Self)) = {i}, Kids[i].type = "IDENTIFIER",
         errs' = Complaints(Kids[i]), declared' = declared, nodes' = nodes,
         Finishes,
         Kids[i].attr = NULL \/ Usable(Kids[i]) =>
           \A p \in Subtrees(nodes) :
             p[1] = Self.node => Self.step >= After(KindOf(Self), p[2])
  PROVE  WalkStep
<1>1. CASE Kids[i].attr = NULL \/ Usable(Kids[i])
  <2>1. errs' = errs
    BY <1>1 DEF Complaints
  <2>2. \A p \in Uses : p[1] = Self.node => declared[Name(p)] # 0
    <3> SUFFICES ASSUME NEW p \in Uses, p[1] = Self.node
                 PROVE  declared[Name(p)] # 0
      OBVIOUS
    <3>1. Name(p) = Kids[i].attr /\ Named(Kids[i])
      BY NameAtHand
    <3> QED
      BY <1>1, <3>1 DEF Named, Usable
  <2> QED
    BY <1>1, <2>1, <2>2, FinishesHere
<1>2. CASE ~(Kids[i].attr = NULL \/ Usable(Kids[i]))
  <2>1. Named(Kids[i]) /\ declared[Kids[i].attr] = 0
    BY <1>2 DEF Named, Usable
  <2>2. PICK p \in Uses :
          /\ p = <<Self.node, i>>
          /\ Name(p) = Kids[i].attr /\ Loc(p) = Kids[i].at
    BY <2>1, NameAtHand
  <2>3. p[1] = Self.node
    BY <2>2
  <2>4. errs' = Append(errs, [kind |-> "UNDECLARED_VAR", loc |-> Loc(p),
                              first |-> 0])
    BY <1>2, <2>2 DEF Complaints
  <2>5. Reports(p)
    BY <2>1, <2>2, <2>3, <2>4 DEF Reports
  <2> QED
    BY <2>5 DEF WalkStep
<1> QED
  BY <1>1, <1>2

(* analyse_assign visits its expression unless the variable is undeclared. *)
LEMMA AssignWalk ==
  ASSUME FrameInv, AnalyseAssign
  PROVE  WalkStep
<1>1. /\ stack # << >> /\ KindOf(Self) = "assign" /\ Self.node \in DOMAIN nodes
      /\ Self.step \in 1..2 /\ nodes \in Trees
      /\ nodes' = nodes /\ declared' = declared
  BY SelfFacts DEF AnalyseAssign, At, In, KindOf, Fit, FrameInv
<1>2. /\ Has(Kinds(nodes[Self.node]), 1, {"IDENTIFIER"})
      /\ Has(Kinds(nodes[Self.node]), 3, {"expression"})
  BY <1>1, TreeFacts DEF Readable, KindOf
<1>3. /\ 1 \in DOMAIN Kids /\ Kids[1].type = "IDENTIFIER"
      /\ Kids[1].attr \in Names
  BY <1>1, <1>2, Kid
<1>4. \A p \in Subtrees(nodes) : p[1] = Self.node => p[2] = 3
  BY <1>1, PlaceHere DEF VisitedAt
<1>5. NamedAt(KindOf(Self)) = {1} /\ {"expression"} \in SUBSET NonTerminals
  BY <1>1 DEF NamedAt, NonTerminals
<1>6. CASE /\ Self.step = 1 /\ Usable(Kids[1]) /\ errs' = Complaints(Kids[1])
           /\ stack' = Calling(Onward, Kids[3])
  <2>1. /\ Onward \in Activation /\ Onward.node = Self.node
        /\ Onward.step = Self.step + 1
    BY <1>1, OnwardFacts
  <2>2. UNCHANGED <<declared, errs>>
    BY <1>1, <1>6 DEF Complaints
  <2>3. Self.step < After(KindOf(Self), 3) /\ After(KindOf(Self), 3) \in Nat
    BY <1>1, <1>6, AfterFacts
  <2>4. \A p \in Subtrees(nodes) :
          p[1] = Self.node =>
            (Onward.step >= After(KindOf(Self), p[2])
               <=> Self.step >= After(KindOf(Self), p[2]) \/ p[2] = 3)
    BY <1>1, <1>4, <1>6, <2>1, AfterFacts
  <2> QED
    BY <1>1, <1>2, <1>5, <1>6, <2>1, <2>2, <2>3, <2>4, DescendsHere
<1>7. CASE /\ Self.step = 1 /\ ~Usable(Kids[1]) /\ errs' = Complaints(Kids[1])
           /\ stack' = Returned
  <2>1. Kids[1].attr # NULL /\ Finishes
    BY <1>3, <1>7, AttrAssumption DEF Finishes
  <2> QED
    BY <1>1, <1>3, <1>5, <1>7, <2>1, Complained
<1>8. CASE Self.step = 2 /\ errs' = errs /\ stack' = Returned
  <2>1. Usable(Kids[1])
    BY <1>1, <1>8, SelfFacts DEF FrameInv, AssignsDeclared
  <2>2. \A p \in Uses : p[1] = Self.node => declared[Name(p)] # 0
    BY <1>1, <1>3, <1>5, <2>1, NameAtHand DEF Usable
  <2>3. Finishes
    BY <1>8 DEF Finishes
  <2>4. \A p \in Subtrees(nodes) :
          p[1] = Self.node => Self.step >= After(KindOf(Self), p[2])
    BY <1>1, <1>4, <1>8, AfterFacts
  <2> QED
    BY <1>1, <1>8, <2>2, <2>3, <2>4, FinishesHere
<1> QED
  BY <1>1, <1>6, <1>7, <1>8 DEF AnalyseAssign, At

(* analyse_input looks at its variable only. *)
LEMMA InputWalk ==
  ASSUME FrameInv, AnalyseInput
  PROVE  WalkStep
<1>1. /\ stack # << >> /\ KindOf(Self) = "input" /\ Self.node \in DOMAIN nodes
      /\ stack' = Returned /\ errs' = Complaints(Kids[2])
      /\ nodes \in Trees /\ nodes' = nodes /\ declared' = declared
  BY SelfFacts DEF AnalyseInput, In, KindOf, FrameInv
<1>2. Has(Kinds(nodes[Self.node]), 2, {"IDENTIFIER"})
  BY <1>1, TreeFacts DEF Readable, KindOf
<1>3. 2 \in DOMAIN Kids /\ Kids[2].type = "IDENTIFIER"
  BY <1>1, <1>2, Kid
<1>4. \A p \in Subtrees(nodes) : p[1] # Self.node
  BY <1>1, PlaceHere DEF VisitedAt
<1>5. NamedAt(KindOf(Self)) = {2} /\ Finishes
  BY <1>1 DEF NamedAt, Finishes
<1> QED
  BY <1>1, <1>3, <1>4, <1>5, Complained

(* analyse_factor looks at its variable or visits what it stands in front of. *)
LEMMA FactorWalk ==
  ASSUME FrameInv, AnalyseFactor
  PROVE  WalkStep
<1> DEFINE c == Kids[1]
<1>1. /\ stack # << >> /\ KindOf(Self) = "factor"
      /\ Self.node \in DOMAIN nodes /\ nodes \in Trees
      /\ Self.step \in 1..2 /\ Len(Self.opds) = Self.step - 1
      /\ nodes' = nodes /\ declared' = declared
      /\ Self.opds \in Seq(Operand)
  BY SelfFacts DEF AnalyseFactor, In, KindOf, Fit, FrameInv
<1> DEFINE ks == Kinds(nodes[Self.node])
<1>2. FactorReadable(ks) /\ nodes[Self.node] \in Node
  BY <1>1, TreeFacts DEF Readable, KindOf
<1>3. /\ 1 \in DOMAIN Kids /\ DOMAIN ks = DOMAIN Kids /\ ks[1] = c.type
      /\ c \in Child
      /\ c.type = "IDENTIFIER" => c.attr \in Names
      /\ c.type = "LITERAL" => c.attr \in Literals \cup {NULL}
  <2>1. \E kinds : Has(ks, 1, kinds)
    BY <1>2 DEF FactorReadable
  <2>2. 1 \in DOMAIN Kids /\ c \in Child
    BY <1>1, <2>1, Kid
  <2>3. DOMAIN ks = DOMAIN Kids /\ ks[1] = c.type
    BY <1>2, <2>2, LenProperties DEF Kinds, Node, Kids
  <2> QED
    BY <1>1, <2>2, <2>3, ChildFacts DEF Kids, KindOf
<1>4. /\ NamedAt(KindOf(Self)) = {1} /\ KindOf(Self) \in Valued
      /\ \A p \in Subtrees(nodes) : p[1] = Self.node =>
           p[2] = 2 /\ c.type \in {"PLUS", "MINUS", "LPAREN"}
  <2>1. NamedAt(KindOf(Self)) = {1} /\ KindOf(Self) \in Valued
    BY <1>1 DEF NamedAt, Valued
  <2>2. VisitedAt("factor", ks)
          \subseteq {i \in {2} : Has(ks, 1, {"PLUS", "MINUS", "LPAREN"})}
    BY DEF VisitedAt
  <2> HIDE DEF ks
  <2>3. ASSUME NEW p \in Subtrees(nodes), p[1] = Self.node
        PROVE  p[2] = 2 /\ c.type \in {"PLUS", "MINUS", "LPAREN"}
    <3>1. p[2] \in VisitedAt("factor", ks)
      BY <1>1, <2>3, PlaceHere DEF ks
    <3>2. p[2] = 2 /\ Has(ks, 1, {"PLUS", "MINUS", "LPAREN"})
      BY <2>2, <3>1
    <3> QED
      BY <1>3, <3>2 DEF Has
  <2> QED
    BY <2>1, <2>3
<1>5. c.type \in {"LITERAL", "PLUS", "MINUS", "LPAREN"} =>
        \A p \in Uses : p[1] # Self.node
  BY <1>1, <1>3, <1>4, NameAtHand DEF Named
<1>6. ASSUME UNCHANGED errs, NEW o \in Operand, stack' = Returning(o),
             c.type # "LITERAL" =>
               c.type \in {"PLUS", "MINUS", "LPAREN"} /\ Self.step = 2
      PROVE  WalkStep
  <2>1. Finishes
    BY <1>4, <1>6 DEF Finishes
  <2>2. \A p \in Subtrees(nodes) :
          p[1] = Self.node => Self.step >= After(KindOf(Self), p[2])
    <3>1. After(KindOf(Self), 2) = 2
      BY <1>1, AfterFacts
    <3>2. c.type \in {"PLUS", "MINUS", "LPAREN"} => Self.step = 2
      BY <1>6
    <3> QED
      BY <1>4, <3>1, <3>2
  <2>3. \A p \in Uses : p[1] # Self.node
    BY <1>5, <1>6
  <2> QED
    BY <1>1, <1>6, <2>1, <2>2, <2>3, FinishesHere
<1>7. CASE /\ c.type = "LITERAL" /\ stack' = Returning(Literal(ValueOf(c)))
           /\ UNCHANGED errs
  <2>1. PICK o \in Operand : o = Literal(ValueOf(c))
    BY <1>3, <1>7, OperandKinds DEF ValueOf
  <2>2. stack' = Returning(o)
    BY <1>7, <2>1
  <2>3. UNCHANGED errs /\ c.type = "LITERAL"
    BY <1>7
  <2> HIDE DEF c
  <2> QED
    BY <1>6, <2>2, <2>3
<1>8. CASE /\ c.type = "IDENTIFIER"
           /\ stack' = Returning(IF Usable(c) THEN Symbol(c.attr) ELSE Unset)
           /\ errs' = Complaints(c)
  <2>1. (IF Usable(c) THEN Symbol(c.attr) ELSE Unset) \in Operand
    BY <1>3, <1>8, OperandKinds
  <2>2. Finishes
    BY <1>4, <1>8, <2>1 DEF Finishes
  <2>3. \A p \in Subtrees(nodes) : p[1] # Self.node
    BY <1>4, <1>8
  <2> QED
    BY <1>1, <1>3, <1>4, <1>8, <2>2, <2>3, Complained
<1>9. CASE /\ c.type \in {"PLUS", "MINUS", "LPAREN"} /\ Self.step = 1
           /\ stack' = Calling(Onward, Kids[2]) /\ UNCHANGED errs
  <2>1. /\ Onward \in Activation /\ Onward.node = Self.node
        /\ Onward.step = Self.step + 1
    BY <1>1, OnwardFacts
  <2>2. PICK kinds \in SUBSET NonTerminals : Has(ks, 2, kinds)
    <3>1. /\ {"factor"} \in SUBSET NonTerminals
          /\ {"expression"} \in SUBSET NonTerminals
      BY DEF NonTerminals
    <3> HIDE DEF ks
    <3>2. ~Has(ks, 1, {"LITERAL", "IDENTIFIER"})
      BY <1>3, <1>9 DEF Has
    <3> QED
      BY <1>2, <3>1, <3>2 DEF FactorReadable
  <2>3. Self.step < After(KindOf(Self), 2) /\ After(KindOf(Self), 2) \in Nat
    <3>1. After(KindOf(Self), 2) = 2
      BY <1>1, AfterFacts
    <3> QED
      BY <1>9, <3>1
  <2>4. \A p \in Subtrees(nodes) :
          p[1] = Self.node =>
            (Onward.step >= After(KindOf(Self), p[2])
               <=> Self.step >= After(KindOf(Self), p[2]) \/ p[2] = 2)
    BY <1>1, <1>4, <1>9, <2>1, AfterFacts
  <2> QED
    BY <1>1, <1>9, <2>1, <2>2, <2>3, <2>4, DescendsHere
<1>10. CASE /\ c.type \in {"PLUS", "MINUS"} /\ Self.step = 2
            /\ stack' = Returning(Temporary(tmp_cnt)) /\ UNCHANGED errs
  <2>1. Temporary(tmp_cnt) \in Operand
    BY OperandKinds DEF FrameInv, TypeOK
  <2> QED
    BY <1>6, <1>10, <2>1
<1>11. CASE /\ c.type = "LPAREN" /\ Self.step = 2
            /\ stack' = Returning(Self.opds[1]) /\ UNCHANGED errs
  <2>1. Self.opds[1] \in Operand
    BY <1>1, <1>11, ElementOfSeq
  <2> QED
    BY <1>6, <1>11, <2>1
<1> QED
  BY <1>7, <1>8, <1>9, <1>10, <1>11 DEF AnalyseFactor

(* analyse_variables declares the names in their order. *)
LEMMA VariablesWalk ==
  ASSUME FrameInv, AnalyseVariables
  PROVE  WalkStep
<1>1. /\ stack # << >> /\ KindOf(Self) = "variables" /\ Self.node \in DOMAIN nodes
      /\ Self.step \in Nat /\ Self.step % 4 = 1 /\ Self \in Activation
      /\ nodes' = nodes /\ nodes \in Trees
      /\ Kids = nodes[Self.node].children
  BY SelfFacts DEF AnalyseVariables, In, KindOf, Fit, Kids, FrameInv
<1>2. /\ VariablesReadable(Kinds(nodes[Self.node])) /\ nodes[Self.node] \in Node
      /\ Len(Kids) \in Nat /\ DOMAIN Kids = 1..Len(Kids)
  BY <1>1, TreeFacts, LenProperties DEF Readable, KindOf
<1>3. CASE /\ Self.step > Len(Kids) /\ stack' = Returned
           /\ UNCHANGED <<declared, errs>>
  <2>1. /\ Finishes /\ \A p \in Uses : p[1] # Self.node
        /\ \A p \in Subtrees(nodes) : p[1] # Self.node
    BY <1>1, <1>3, NamelessHere, SubtreeKinds DEF Finishes, KindOf
  <2> QED
    BY <1>1, <1>3, <2>1, FinishesHere
<1>4. CASE Self.step <= Len(Kids)
  <2>1. PICK k \in Nat : k = Self.step
    BY <1>1
  <2> DEFINE id == Kids[k]
             q == <<Self.node, k>>
             type == Kids[k + 2].type
             first == IF id.attr = NULL THEN 0 ELSE declared[id.attr]
  <2>2. k \in DOMAIN Kids
    BY <1>1, <1>2, <1>4, <2>1
  <2>3. id.type = "IDENTIFIER"
    <3>1. DOMAIN Kinds(nodes[Self.node]) = DOMAIN Kids
      BY <1>1, <1>2 DEF Kinds
    <3>2. Kinds(nodes[Self.node])[k] = "IDENTIFIER"
      BY <1>1, <1>2, <2>1, <2>2, <3>1 DEF VariablesReadable
    <3> QED
      BY <1>1, <2>2, <3>1, <3>2 DEF Kinds
  <2>4. id.attr \in Names /\ id.attr # NULL
    BY <1>1, <2>2, <2>3, ChildFacts, AttrAssumption DEF KindOf
  <2>5. q \in Identifiers /\ Loc(q) = id.at /\ Name(q) = id.attr
    BY <1>1, <2>2, <2>3, <2>4, NameHere
  <2>6. q[1] = Self.node /\ q[2] = k
    OBVIOUS
  <2>7. q \in Declarations /\ type = "INT"
    BY <1>1, <2>5, <2>6, NameFacts DEF Declarations, KindOf
  <2>8. /\ stack' = Stepping([Self EXCEPT !.step = @ + 4])
        /\ errs' = IF first = 0 THEN errs
                   ELSE Append(errs, [kind |-> "MULTIPLE_DECL",
                                      loc |-> id.at, first |-> first])
        /\ declared' = DeclaredBy(id, type)
    <3>1. ~(Self.step > Len(Kids))
      BY <1>1, <1>2, <1>4
    <3> QED
      BY <2>1, <3>1 DEF AnalyseVariables
  <2> HIDE DEF id, type, q
  <2>9. first = declared[Name(q)]
    BY <2>4, <2>5
  <2>10. declared' = IF first = 0
                     THEN [declared EXCEPT ![Name(q)] = Loc(q)] ELSE declared
    BY <2>4, <2>5, <2>7, <2>8, <2>9 DEF DeclaredBy
  <2> HIDE DEF first
  <2>11. Declares(q)
    BY <2>1, <2>5, <2>6, <2>8, <2>9, <2>10 DEF Declares
  <2> QED
    BY <1>1, <2>7, <2>11 DEF WalkStep
<1> QED
  BY <1>1, <1>2, <1>3, <1>4 DEF AnalyseVariables

(* All of them walk the tree so. *)
LEMMA NextWalk ==
  ASSUME FrameInv, [Next]_vars
  PROVE  WalkStep
<1>1. CASE AnalyseExpression
  BY <1>1, ChainWalk DEF AnalyseExpression
<1>2. CASE AnalyseTerm
  BY <1>2, ChainWalk DEF AnalyseTerm
<1>3. CASE UNCHANGED vars
  BY <1>3 DEF WalkStep, vars
<1> QED
  BY <1>1, <1>2, <1>3, SourceWalk, VariablesWalk, StatementsWalk, AssignWalk,
     InputWalk, OutputWalk, BranchWalk, LoopWalk, RepeatWalk, FactorWalk,
     ConditionWalk DEF Next, Done

-----------------------------------------------------------------------------
(* Where the functions on the stack are. *)
LEMMA RootFacts ==
  ASSUME FrameInv, Chained, stack # << >>
  PROVE  /\ KindOf(stack[1]) = "source" /\ stack[1].node = 1
         /\ stack[1].step \in 1..3 /\ 1 \in DOMAIN stack
         /\ Top = 1 <=> KindOf(Self) = "source"
         /\ KindOf(Self) = "variables" =>
              Top = 2 /\ stack[1].step = 2 /\ Self.node = Loc(<<1, 2>>)
         /\ Top >= 2 /\ KindOf(Self) # "variables" => stack[1].step = 3
         /\ \A d \in DOMAIN stack : d < Top => KindOf(stack[d]) # "variables"
<1>1. /\ Top \in Nat /\ Top >= 1 /\ DOMAIN stack = 1..Top /\ stack[Top] = Self
      /\ nodes \in Trees /\ Self.node \in DOMAIN nodes
      /\ stack \in Seq(Activation)
  BY SelfFacts DEF FrameInv
<1>2. /\ KindOf(stack[1]) = "source" /\ stack[1].node = 1 /\ 1 \in DOMAIN stack
  BY <1>1 DEF FrameInv, RootAtBottom, Chained
<1>3. stack[1].step \in 1..3
  BY <1>1, <1>2 DEF FrameInv, FramesFit, Fit
<1>4. \A d \in DOMAIN stack : d < Top => KindOf(stack[d]) # "variables"
  <2> SUFFICES ASSUME NEW d \in DOMAIN stack, d < Top,
                      KindOf(stack[d]) = "variables"
               PROVE FALSE
    OBVIOUS
  <2>1. PICK p \in Subtrees(nodes) : p[1] = stack[d].node
    BY DEF Chained
  <2> QED
    BY <1>1, <2>1, SubtreeKinds DEF KindOf
<1>5. CASE Top = 1
  BY <1>1, <1>2, <1>3, <1>4, <1>5
<1>6. CASE Top >= 2
  <2>1. PICK p \in Subtrees(nodes) :
          /\ p[1] = stack[1].node /\ Begun(stack[1], p[2])
          /\ Loc(p) = stack[2].node
    BY <1>1, <1>2, <1>6 DEF Chained
  <2>2. p[2] \in {2, 4} /\ p = <<1, p[2]>>
    <3>1. nodes[p[1]].nt = "source"
      BY <1>2, <2>1 DEF KindOf
    <3> QED
      BY <1>1, <1>2, <2>1, <3>1, SubtreeKinds, SubtreeFacts
  <2>3. /\ stack[1].step >= 2
        /\ stack[1].step = 2 => p[2] = 2
    <3>1. stack[1].step >= After("source", p[2])
      BY <1>2, <2>1 DEF Begun
    <3> QED
      BY <1>3, <2>2, <3>1, AfterFacts
  <2>4. stack[1].step = 2 =>
          KindOf(stack[2]) = "variables" /\ stack[2].node = Loc(<<1, 2>>)
    BY <1>1, <2>1, <2>2, <2>3, OneDeclarer DEF KindOf
  <2>5. stack[1].step = 2 => Top = 2
    BY <1>1, <1>4, <1>6, <2>4
  <2>6. KindOf(Self) = "variables" => stack[1].step = 2
    BY <1>1 DEF Chained
  <2>7. KindOf(Self) # "source"
    <3>1. KindOf(Self) = "source" => Self.node = 1
      BY <1>1, OneDeclarer DEF KindOf
    <3>2. stack[1].node < stack[Top].node
      BY <1>1, <1>6 DEF Chained
    <3> QED
      BY <1>1, <1>2, <3>1, <3>2
  <2> QED
    BY <1>1, <1>2, <1>3, <1>4, <1>6, <2>3, <2>4, <2>5, <2>6, <2>7
<1> QED
  BY <1>1, <1>5, <1>6

(* The stack when a function has returned. *)
LEMMA FinishShape ==
  ASSUME FrameInv, stack # << >>, Finishes
  PROVE  /\ Top' = Top - 1 /\ DOMAIN stack' = 1..(Top - 1)
         /\ stack' = << >> <=> Top = 1
         /\ \A d \in 1..(Top - 1) : /\ stack'[d].node = stack[d].node
                                    /\ stack'[d].step = stack[d].step
<1>1. Top \in Nat /\ Top >= 1
  BY SelfFacts
<1>2. CASE stack' = Returned
  <2>1. /\ stack' \in Seq(Activation) /\ Len(stack') = Top - 1
        /\ DOMAIN stack' = 1..(Top - 1)
        /\ \A d \in 1..(Top - 1) : stack'[d] = stack[d]
    BY <1>2, LeaveShape
  <2>2. Top' = Top - 1
    BY <2>1 DEF Top
  <2> QED
    BY <1>1, <2>1, <2>2, EmptySeq
<1>3. CASE KindOf(Self) \in Valued /\ \E o \in Operand : stack' = Returning(o)
  <2>1. PICK o \in Operand : stack' = Returning(o)
    BY <1>3
  <2>2. /\ stack' # << >> /\ Top >= 2 /\ Top' = Top - 1
        /\ DOMAIN stack' = 1..(Top - 1)
        /\ \A d \in 1..(Top - 2) : stack'[d] = stack[d]
        /\ stack'[Top - 1].node = stack[Top - 1].node
        /\ stack'[Top - 1].step = stack[Top - 1].step
    BY <1>3, <2>1, LeaveWithShape
  <2>3. \A d \in 1..(Top - 1) : d \in 1..(Top - 2) \/ d = Top - 1
    BY <1>1
  <2> QED
    BY <1>1, <2>2, <2>3
<1> QED
  BY <1>2, <1>3 DEF Finishes

(* The stack when the function has gone on. *)
LEMMA ProceedShape ==
  ASSUME FrameInv, stack # << >>, NEW self \in Activation,
         stack' = Stepping(self), self.node = Self.node
  PROVE  /\ Top' = Top /\ DOMAIN stack' = 1..Top /\ stack' # << >>
         /\ \A d \in 1..Top : stack'[d].node = stack[d].node
         /\ \A d \in 1..Top : d < Top => stack'[d].step = stack[d].step
         /\ stack'[Top].step = self.step
<1>1. Top \in Nat /\ Top >= 1 /\ stack[Top] = Self
  BY SelfFacts
<1>2. /\ stack' # << >> /\ Top' = Top /\ DOMAIN stack' = 1..Top
      /\ \A d \in 1..(Top - 1) : stack'[d] = stack[d]
      /\ stack'[Top] = self
  BY StayShape
<1>3. \A d \in 1..Top : d \in 1..(Top - 1) \/ d = Top
  BY <1>1
<1> QED
  BY <1>1, <1>2, <1>3

(* The stack when it has made a call. *)
LEMMA DescendShape ==
  ASSUME FrameInv, stack # << >>, NEW self \in Activation, NEW i \in Nat,
         CallsFor(self, i)
  PROVE  /\ Top' = Top + 1 /\ DOMAIN stack' = 1..(Top + 1) /\ stack' # << >>
         /\ \A d \in 1..Top : stack'[d].node = stack[d].node
         /\ \A d \in 1..Top : d < Top => stack'[d].step = stack[d].step
         /\ stack'[Top].step = self.step
         /\ stack'[Top + 1].node = Loc(<<Self.node, i>>)
         /\ stack'[Top + 1].step = 1
         /\ Loc(<<Self.node, i>>) \in DOMAIN nodes
         /\ Loc(<<Self.node, i>>) > Self.node
<1>1. Top \in Nat /\ Top >= 1 /\ stack[Top] = Self /\ nodes \in Trees
  BY SelfFacts DEF FrameInv
<1>2. PICK p \in Subtrees(nodes) : p = <<Self.node, i>>
  BY DEF CallsFor
<1>3. p[1] = Self.node /\ p[2] = i
  BY <1>2
<1>4. Self.node \in DOMAIN nodes /\ i \in DOMAIN nodes[Self.node].children
      /\ Loc(p) \in DOMAIN nodes /\ Loc(p) > Self.node
  BY <1>1, <1>3, SubtreeFacts
<1>5. Kids[i] \in Child /\ Kids[i].at = Loc(p)
  BY <1>1, <1>3, <1>4, ChildFacts DEF Kids, Loc
<1>6. /\ stack' # << >> /\ Top' = Top + 1 /\ DOMAIN stack' = 1..(Top + 1)
      /\ \A d \in 1..(Top - 1) : stack'[d] = stack[d]
      /\ stack'[Top] = self /\ stack'[Top + 1] = Begin(Kids[i].at)
  BY <1>5, EnterShape DEF CallsFor
<1>7. \A d \in 1..Top : d \in 1..(Top - 1) \/ d = Top
  BY <1>1
<1> QED
  BY <1>1, <1>2, <1>4, <1>5, <1>6, <1>7 DEF CallsFor, Begin

(* And when a name has been declared. *)
LEMMA DeclareShape ==
  ASSUME FrameInv, Chained, stack # << >>, NEW q \in Declarations, Declares(q)
  PROVE  /\ Top = 2 /\ Top' = 2 /\ DOMAIN stack' = 1..2 /\ stack' # << >>
         /\ \A d \in 1..2 : stack'[d].node = stack[d].node
         /\ stack'[1].step = stack[1].step /\ stack[1].step = 2
         /\ stack'[2].step = stack[2].step + 4
         /\ KindOf(Self) = "variables" /\ Self = stack[2] /\ Self.step \in Nat
         /\ q = <<Self.node, Self.step>>
<1>1. /\ Self \in Activation /\ Self.step \in Nat /\ stack[Top] = Self
      /\ nodes \in Trees
  BY SelfFacts DEF FrameInv
<1>2. KindOf(Self) = "variables" /\ q = <<q[1], q[2]>>
  BY <1>1, NameFacts DEF Declares, Declarations, KindOf
<1>3. Top = 2 /\ stack[1].step = 2
  BY <1>2, RootFacts
<1>4. Self.step + 4 \in Nat
  BY <1>1
<1>5. PICK self \in Activation :
        /\ self = [Self EXCEPT !.step = Self.step + 4]
        /\ self.node = Self.node /\ self.step = Self.step + 4
  BY <1>1, <1>4, AtStep
<1>6. stack' = Stepping(self)
  BY <1>5 DEF Declares
<1>7. /\ Top' = Top /\ DOMAIN stack' = 1..Top /\ stack' # << >>
      /\ \A d \in 1..Top : stack'[d].node = stack[d].node
      /\ \A d \in 1..Top : d < Top => stack'[d].step = stack[d].step
      /\ stack'[Top].step = self.step
  BY <1>5, <1>6, ProceedShape
<1> QED
  BY <1>1, <1>2, <1>3, <1>5, <1>7 DEF Declares

(* The calls that a caller has made, before and after a step. *)
LEMMA BegunBelow ==
  ASSUME nodes' = nodes, NEW d, stack'[d].node = stack[d].node
  PROVE  /\ KindOf(stack[d])' = KindOf(stack[d])
         /\ stack'[d].step = stack[d].step =>
              \A i : Begun(stack[d], i)' <=> Begun(stack[d], i)
BY DEF Begun, KindOf

(* The same of the function that takes it. *)
LEMMA BegunHere ==
  ASSUME nodes' = nodes, NEW d, stack[d] = Self, stack'[d].node = Self.node,
         NEW self, self.node = Self.node, stack'[d].step = self.step
  PROVE  \A i : Begun(stack[d], i)' <=> Begun(self, i)
BY DEF Begun, KindOf

(* What a step leaves of the tree. *)
LEMMA SamePlaces ==
  ASSUME nodes' = nodes
  PROVE  /\ Subtrees(nodes)' = Subtrees(nodes) /\ Declarations' = Declarations
         /\ Uses' = Uses /\ Identifiers' = Identifiers
         /\ \A p : Loc(p)' = Loc(p) /\ Name(p)' = Name(p)
         /\ \A e : Justified(e)' = Justified(e)
<1>1. \A p : Loc(p)' = Loc(p) /\ Name(p)' = Name(p)
  BY DEF Loc, Name
<1>2. Identifiers' = Identifiers
  BY DEF Identifiers
<1>3. Declarations' = Declarations
  BY <1>2 DEF Declarations
<1>4. Uses' = Uses
  BY <1>2, <1>3 DEF Uses
<1>5. \A e : Justified(e)' = Justified(e)
  BY DEF Justified, Uses, Declarations, Identifiers, Loc, Name
<1> QED
  BY <1>1, <1>2, <1>3, <1>4, <1>5

(* A call is made for a child that is beyond all of the stack. *)
LEMMA ChainedDescends ==
  ASSUME FrameInv, Chained, stack # << >>, nodes' = nodes,
         NEW self \in Activation, NEW i \in Nat, CallsFor(self, i)
  PROVE  Chained'
<1>1. /\ Top \in Nat /\ Top >= 1 /\ stack[Top] = Self /\ DOMAIN stack = 1..Top
      /\ nodes \in Trees /\ Self.node \in DOMAIN nodes /\ Self.node \in Nat
  BY SelfFacts, TreeFacts DEF FrameInv
<1>2. PICK t \in Nat : t = Top
  BY <1>1
<1>3. PICK c : c = Loc(<<Self.node, i>>)
  OBVIOUS
<1>4. /\ Top' = t + 1 /\ DOMAIN stack' = 1..(t + 1) /\ stack' # << >>
      /\ \A d \in 1..t : stack'[d].node = stack[d].node
      /\ \A d \in 1..t : d < t => stack'[d].step = stack[d].step
      /\ stack'[t].step = self.step
      /\ stack'[t + 1].node = c /\ c \in DOMAIN nodes /\ c > Self.node
  BY <1>2, <1>3, DescendShape
<1>5. PICK p \in Subtrees(nodes) : p = <<Self.node, i>> /\ Loc(p) = c
  BY <1>3 DEF CallsFor
<1>6. p[1] = Self.node /\ p[2] = i
  BY <1>5
<1>7. \A x \in Subtrees(nodes) :
        x[1] = Self.node => (Begun(stack[t], x[2])' <=>
                               Begun(Self, x[2]) \/ x[2] = i)
  BY <1>1, <1>2, <1>4, BegunHere DEF CallsFor
<1>8. \A d \in 1..t : /\ KindOf(stack[d])' = KindOf(stack[d])
                      /\ d < t => \A k : Begun(stack[d], k)' <=> Begun(stack[d], k)
  BY <1>4, BegunBelow
<1>9. /\ KindOf(stack[1]) = "source" /\ stack[1].node = 1
      /\ stack[1].step \in 1..3
      /\ Top = 1 <=> KindOf(Self) = "source"
      /\ \A d \in DOMAIN stack : d < Top => KindOf(stack[d]) # "variables"
  BY RootFacts
<1>10. stack'[1].node = 1
  BY <1>1, <1>2, <1>4, <1>9
<1>11. ASSUME NEW d \in DOMAIN stack', KindOf(stack[d])' = "variables"
       PROVE  stack'[1].step = 2
  <2>1. KindOf(Self) # "variables"
    BY <1>1, <1>5, <1>6, SubtreeKinds DEF KindOf
  <2>2. d = t + 1
    BY <1>1, <1>2, <1>4, <1>8, <1>9, <1>11, <2>1
  <2>3. nodes[c].nt = "variables"
    BY <1>4, <1>11, <2>2 DEF KindOf
  <2>4. p = <<1, 2>> /\ KindOf(Self) = "source"
    <3>1. Loc(p) = Loc(<<1, 2>>) /\ <<1, 2>> \in Subtrees(nodes)
      BY <1>1, <1>4, <1>5, <2>3, OneDeclarer
    <3>2. p = <<1, 2>>
      BY <1>1, <3>1, ParentFacts
    <3> QED
      BY <1>1, <1>6, <3>2, OneDeclarer DEF KindOf
  <2>5. t = 1 /\ i = 2
    BY <1>2, <1>6, <1>9, <2>4
  <2>6. /\ <<1, 4>> \in Subtrees(nodes) /\ <<1, 4>>[1] = Self.node
        /\ <<1, 4>>[2] = 4
    BY <1>1, <1>6, <2>4, OneDeclarer
  <2>7. /\ Begun(self, 2) /\ ~Begun(Self, 2)
        /\ Begun(self, 4) <=> Begun(Self, 4)
    BY <1>5, <1>6, <2>5, <2>6 DEF CallsFor
  <2>8. self.step >= 2 /\ ~(Self.step >= 2) /\ (self.step >= 3 <=> Self.step >= 3)
    <3>1. KindOf(self) = "source" /\ KindOf(Self) = "source"
      BY <2>4 DEF CallsFor, KindOf
    <3> QED
      BY <2>7, <3>1, AfterFacts DEF Begun
  <2>9. Self.step \in Nat /\ self.step \in Nat
    BY SelfFacts DEF Activation
  <2> QED
    BY <1>4, <2>5, <2>8, <2>9
<1>12. \A d, e \in DOMAIN stack' : d < e => stack'[d].node < stack'[e].node
  <2> SUFFICES ASSUME NEW d \in DOMAIN stack', NEW e \in DOMAIN stack', d < e
               PROVE  stack'[d].node < stack'[e].node
    OBVIOUS
  <2>1. d \in 1..t /\ stack[d].node \in Nat
    BY <1>1, <1>2, <1>4, TreeFacts DEF FrameInv, FramesFit
  <2>2. d < t => stack[d].node < Self.node
    BY <1>1, <1>2, <2>1 DEF Chained
  <2>3. d = t => stack[d].node = Self.node
    BY <1>1, <1>2
  <2>4. c \in Nat
    BY <1>1, <1>4, TreeFacts
  <2>5. CASE e = t + 1
    BY <1>1, <1>4, <2>1, <2>2, <2>3, <2>4, <2>5
  <2>6. CASE e \in 1..t
    BY <1>1, <1>2, <1>4, <2>1, <2>6 DEF Chained
  <2> QED
    BY <1>4, <2>5, <2>6
<1>13. ASSUME NEW d \in DOMAIN stack', d < Top'
       PROVE  \E x \in Subtrees(nodes) :
                /\ x[1] = stack'[d].node /\ Begun(stack[d], x[2])'
                /\ Loc(x) = stack'[d + 1].node
  <2>1. CASE d = t
    BY <1>1, <1>2, <1>4, <1>5, <1>6, <1>7, <2>1
  <2>2. CASE d < t
    <3>1. d \in 1..t /\ d + 1 \in 1..t /\ d \in DOMAIN stack /\ d < Top
      BY <1>1, <1>2, <1>4, <2>2
    <3>2. PICK x \in Subtrees(nodes) :
            /\ x[1] = stack[d].node /\ Begun(stack[d], x[2])
            /\ Loc(x) = stack[d + 1].node
      BY <3>1 DEF Chained
    <3> QED
      BY <1>4, <1>8, <2>2, <3>1, <3>2
  <2> QED
    BY <1>4, <1>13, <2>1, <2>2
<1> QED
  BY <1>4, <1>10, <1>11, <1>12, <1>13, SamePlaces DEF Chained

(* What is left of the stack after any other step is as it was. *)
LEMMA ChainedStays ==
  ASSUME FrameInv, Chained, stack # << >>, nodes' = nodes,
         Top' \in {Top, Top - 1}, DOMAIN stack' = 1..Top',
         \A d \in DOMAIN stack' : stack'[d].node = stack[d].node,
         \A d \in DOMAIN stack' : d < Top => stack'[d].step = stack[d].step,
         stack' = << >> <=> Top' = 0, Top = 1 => Top' = 0 \/ KindOf(Self) # "source"
  PROVE  Chained'
<1>1. Top \in Nat /\ Top >= 1 /\ DOMAIN stack = 1..Top
  BY SelfFacts
<1>2. PICK t \in Nat, u \in Nat : t = Top /\ u = Top' /\ u <= t
  BY <1>1
<1>3. \A d \in 1..u : /\ KindOf(stack[d])' = KindOf(stack[d])
                      /\ d < t => \A k : Begun(stack[d], k)' <=> Begun(stack[d], k)
  BY <1>2, BegunBelow
<1>4. stack' # << >> => stack'[1].node = 1 /\ stack'[1].step = stack[1].step
  <2>1. stack' # << >> => 1 \in 1..u /\ (t = 1 => KindOf(Self) # "source")
    BY <1>2
  <2>2. stack[1].node = 1 /\ (t = 1 => KindOf(Self) = "source")
    BY <1>2, RootFacts
  <2> QED
    BY <1>1, <1>2, <2>1, <2>2
<1>5. \A d \in DOMAIN stack' : KindOf(stack[d])' = "variables" => stack'[1].step = 2
  <2> SUFFICES ASSUME NEW d \in DOMAIN stack', KindOf(stack[d])' = "variables"
               PROVE  stack'[1].step = 2
    OBVIOUS
  <2>1. KindOf(stack[d]) = "variables" /\ d \in DOMAIN stack /\ stack' # << >>
    BY <1>1, <1>2, <1>3
  <2> QED
    BY <1>4, <2>1 DEF Chained
<1>6. \A d, e \in DOMAIN stack' : d < e => stack'[d].node < stack'[e].node
  BY <1>1, <1>2 DEF Chained
<1>7. ASSUME NEW d \in DOMAIN stack', d < Top'
      PROVE  \E x \in Subtrees(nodes) :
               /\ x[1] = stack'[d].node /\ Begun(stack[d], x[2])'
               /\ Loc(x) = stack'[d + 1].node
  <2>1. d \in 1..u /\ d + 1 \in 1..u /\ d \in DOMAIN stack /\ d < Top /\ d < t
    BY <1>1, <1>2, <1>7
  <2>2. PICK x \in Subtrees(nodes) :
          /\ x[1] = stack[d].node /\ Begun(stack[d], x[2])
          /\ Loc(x) = stack[d + 1].node
    BY <2>1 DEF Chained
  <2> QED
    BY <1>2, <1>3, <2>1, <2>2
<1> QED
  BY <1>4, <1>5, <1>6, <1>7, SamePlaces DEF Chained

(* The chain of calls is kept. *)
LEMMA ChainedStep ==
  ASSUME FrameInv, Chained, WalkStep
  PROVE  Chained'
<1>1. nodes' = nodes
  BY DEF WalkStep
<1>2. CASE UNCHANGED <<stack, declared, errs>>
  BY <1>1, <1>2 DEF Chained, Top, Begun, KindOf, Loc
<1>3. ASSUME stack # << >>, NEW self \in Activation, NEW i \in Nat,
             CallsFor(self, i)
      PROVE  Chained'
  BY <1>1, <1>3, ChainedDescends
<1>4. ASSUME stack # << >>, NEW self \in Activation, Proceeds(self)
      PROVE  Chained'
  <2>1. Top \in Nat /\ Top >= 1
    BY <1>4, SelfFacts
  <2>2. stack' = Stepping(self) /\ self.node = Self.node /\ KindOf(Self) # "source"
    BY <1>4 DEF Proceeds
  <2> QED
    BY <1>1, <1>4, <2>1, <2>2, ProceedShape, ChainedStays
<1>5. ASSUME stack # << >>, Finishes
      PROVE  Chained'
  <2>1. Top \in Nat /\ Top >= 1
    BY <1>5, SelfFacts
  <2> QED
    BY <1>1, <1>5, <2>1, FinishShape, ChainedStays
<1>6. ASSUME stack # << >>, NEW q \in Declarations, Declares(q)
      PROVE  Chained'
  <2>1. /\ Top = 2 /\ Top' = 2 /\ DOMAIN stack' = 1..2 /\ stack' # << >>
        /\ \A d \in 1..2 : stack'[d].node = stack[d].node
        /\ stack'[1].step = stack[1].step
    BY <1>6, DeclareShape
  <2>2. \A d \in 1..2 : d < 2 => d = 1
    OBVIOUS
  <2> QED
    BY <1>1, <1>6, <2>1, <2>2, ChainedStays
<1> QED
  BY <1>2, <1>3, <1>4, <1>5, <1>6 DEF WalkStep

-----------------------------------------------------------------------------
(* No call has been made when a function begins. *)
LEMMA AfterBegin ==
  ASSUME NEW nt, NEW i \in Nat, i >= 1
  PROVE  After(nt, i) >= 2
BY DEF After

(* Two functions on the stack are not for the same node. *)
LEMMA OwnNode ==
  ASSUME FrameInv, Chained, NEW d \in DOMAIN stack, NEW e \in DOMAIN stack,
         stack[d].node = stack[e].node
  PROVE  d = e
<1>1. DOMAIN stack = 1..Top /\ Top \in Nat /\ nodes \in Trees
  <2>1. stack \in Seq(Activation) /\ DOMAIN stack # {}
    BY DEF FrameInv, TypeOK
  <2>2. stack # << >>
    BY <2>1
  <2> QED
    BY <2>2, SelfFacts DEF FrameInv
<1>2. stack[d].node \in Nat /\ stack[e].node \in Nat
  BY <1>1, TreeFacts DEF FrameInv, FramesFit
<1>3. ~(d < e) /\ ~(e < d)
  BY <1>2 DEF Chained
<1> QED
  BY <1>1, <1>3

(* A call is only made for a node that was not visited. *)
LEMMA VisitedDescends ==
  ASSUME FrameInv, Chained, NEW done, Visited(done), stack # << >>,
         nodes' = nodes, errs' = errs,
         NEW self \in Activation, NEW i \in Nat, CallsFor(self, i)
  PROVE  Visited(done)'
<1>1. /\ Top \in Nat /\ Top >= 1 /\ stack[Top] = Self /\ DOMAIN stack = 1..Top
      /\ nodes \in Trees /\ Self.node \in DOMAIN nodes /\ Self.node \in Nat
  BY SelfFacts, TreeFacts DEF FrameInv
<1>2. PICK t \in Nat : t = Top
  BY <1>1
<1>3. PICK c : c = Loc(<<Self.node, i>>)
  OBVIOUS
<1>4. /\ Top' = t + 1 /\ DOMAIN stack' = 1..(t + 1) /\ stack' # << >>
      /\ \A d \in 1..t : stack'[d].node = stack[d].node
      /\ \A d \in 1..t : d < t => stack'[d].step = stack[d].step
      /\ stack'[t].step = self.step
      /\ stack'[t + 1].node = c /\ c \in DOMAIN nodes /\ c > Self.node
      /\ stack'[t + 1].step = 1
  BY <1>2, <1>3, DescendShape
<1>5. PICK p \in Subtrees(nodes) : p = <<Self.node, i>> /\ Loc(p) = c
  BY <1>3 DEF CallsFor
<1>6. p[1] = Self.node /\ p[2] = i
  BY <1>5
<1>7. \A x \in Subtrees(nodes) :
        x[1] = Self.node => (Begun(stack[t], x[2])' <=>
                               Begun(Self, x[2]) \/ x[2] = i)
  BY <1>1, <1>2, <1>4, BegunHere DEF CallsFor
<1>8. \A d \in 1..t :
        d < t => \A k : Begun(stack[d], k)' <=> Begun(stack[d], k)
  BY <1>4, BegunBelow
<1>9. c \notin done
  <2> SUFFICES ASSUME c \in done PROVE FALSE
    OBVIOUS
  <2>1. Self.node \notin done
    BY <1>1 DEF Visited
  <2>2. PICK d \in DOMAIN stack : stack[d].node = p[1] /\ Begun(stack[d], p[2])
    BY <1>5, <1>6, <2>1 DEF Visited
  <2>3. d = Top
    BY <1>1, <1>6, <2>2, OwnNode
  <2> QED
    BY <1>1, <1>6, <2>2, <2>3 DEF CallsFor
<1>10. \A d \in DOMAIN stack' : stack'[d].node \notin done
  <2> SUFFICES ASSUME NEW d \in DOMAIN stack' PROVE stack'[d].node \notin done
    OBVIOUS
  <2>1. d \in 1..t \/ d = t + 1
    BY <1>4
  <2> QED
    BY <1>1, <1>2, <1>4, <1>9, <2>1 DEF Visited
<1>11. ASSUME NEW d \in DOMAIN stack', NEW x \in Subtrees(nodes),
              x[1] = stack'[d].node, Begun(stack[d], x[2])'
       PROVE  Loc(x) \in done \/ (d < Top' /\ Loc(x) = stack'[d + 1].node)
  <2>1. CASE d < t
    <3>1. d \in 1..t /\ d + 1 \in 1..t /\ d \in DOMAIN stack
      BY <1>1, <1>2, <1>4, <2>1
    <3>2. x[1] = stack[d].node /\ Begun(stack[d], x[2])
      BY <1>4, <1>8, <1>11, <2>1, <3>1
    <3>3. Loc(x) \in done \/ Loc(x) = stack[d + 1].node
      BY <3>1, <3>2 DEF Visited
    <3> QED
      BY <1>4, <2>1, <3>1, <3>3
  <2>2. CASE d = t
    <3>1. x[1] = Self.node /\ (Begun(Self, x[2]) \/ x[2] = i)
      BY <1>1, <1>2, <1>4, <1>7, <1>11, <2>2
    <3>2. Begun(Self, x[2]) => Loc(x) \in done
      BY <1>1, <3>1 DEF Visited
    <3>3. x[2] = i => x = p
      BY <1>1, <1>5, <3>1, SubtreeFacts
    <3> QED
      BY <1>4, <1>5, <2>2, <3>1, <3>2, <3>3
  <2>3. CASE d = t + 1
    <3>1. x[2] \in Nat /\ x[2] >= 1
      BY <1>1, SubtreeFacts, TreeFacts, LenProperties
    <3>2. \A nt : After(nt, x[2]) >= 2
      BY <3>1, AfterBegin
    <3>3. stack'[d].step >= After(nodes[stack'[d].node].nt, x[2])
      BY <1>11 DEF Begun, KindOf
    <3>4. After(nodes[stack'[d].node].nt, x[2]) \in Nat
      BY <3>1 DEF After
    <3> QED
      BY <1>4, <2>3, <3>2, <3>3, <3>4
  <2> QED
    BY <1>4, <2>1, <2>2, <2>3
<1>12. ASSUME NEW x \in Subtrees(nodes), Loc(x) \in done, x[1] \notin done
       PROVE  \E d \in DOMAIN stack' :
                stack'[d].node = x[1] /\ Begun(stack[d], x[2])'
  <2>1. PICK d \in DOMAIN stack : stack[d].node = x[1] /\ Begun(stack[d], x[2])
    BY <1>12 DEF Visited
  <2>2. d \in 1..t /\ d \in DOMAIN stack' /\ stack'[d].node = x[1]
    BY <1>1, <1>2, <1>4, <2>1
  <2>3. Begun(stack[d], x[2])'
    BY <1>1, <1>2, <1>7, <1>8, <2>1, <2>2
  <2> QED
    BY <2>2, <2>3
<1>13. done \subseteq DOMAIN nodes'
  BY DEF Visited
<1>14. \A x \in Subtrees(nodes) : errs' = << >> /\ x[1] \in done => Loc(x) \in done
  BY DEF Visited
<1> QED
  BY <1>4, <1>10, <1>11, <1>12, <1>13, <1>14, SamePlaces DEF Visited

(* A function that goes on visits nothing. *)
LEMMA VisitedStays ==
  ASSUME NEW done, Visited(done), nodes' = nodes,
         errs' = << >> => errs = << >>,
         Top' = Top, DOMAIN stack' = DOMAIN stack, stack' # << >>,
         \A d \in DOMAIN stack : stack'[d].node = stack[d].node,
         \A d \in DOMAIN stack : \A x \in Subtrees(nodes) :
           x[1] = stack[d].node =>
             (Begun(stack[d], x[2])' <=> Begun(stack[d], x[2])),
         Top \in Nat, DOMAIN stack = 1..Top
  PROVE  Visited(done)'
<1>1. \A d \in DOMAIN stack' : stack'[d].node \notin done
  BY DEF Visited
<1>2. ASSUME NEW d \in DOMAIN stack', NEW x \in Subtrees(nodes),
             x[1] = stack'[d].node, Begun(stack[d], x[2])'
      PROVE  Loc(x) \in done \/ (d < Top' /\ Loc(x) = stack'[d + 1].node)
  <2>1. x[1] = stack[d].node /\ Begun(stack[d], x[2]) /\ d \in DOMAIN stack
    BY <1>2
  <2>2. Loc(x) \in done \/ (d < Top /\ Loc(x) = stack[d + 1].node)
    BY <2>1 DEF Visited
  <2>3. d < Top => d + 1 \in DOMAIN stack
    BY <2>1
  <2> QED
    BY <2>2, <2>3
<1>3. ASSUME NEW x \in Subtrees(nodes), Loc(x) \in done, x[1] \notin done
      PROVE  \E d \in DOMAIN stack' :
               stack'[d].node = x[1] /\ Begun(stack[d], x[2])'
  <2>1. PICK d \in DOMAIN stack : stack[d].node = x[1] /\ Begun(stack[d], x[2])
    BY <1>3 DEF Visited
  <2> QED
    BY <2>1
<1>4. done \subseteq DOMAIN nodes'
  BY DEF Visited
<1>5. \A x \in Subtrees(nodes) : errs' = << >> /\ x[1] \in done => Loc(x) \in done
  BY DEF Visited
<1> QED
  BY <1>1, <1>2, <1>3, <1>4, <1>5, SamePlaces DEF Visited

(* A function that returns has visited its node, and all below. *)
LEMMA VisitedFinishes ==
  ASSUME FrameInv, Chained, NEW done, Visited(done), stack # << >>,
         nodes' = nodes, errs' = << >> => errs = << >> /\ Satisfied, Finishes,
         NEW n, n = Self.node
  PROVE  Visited(done \cup {n})'
<1>1. /\ Top \in Nat /\ Top >= 1 /\ stack[Top] = Self /\ DOMAIN stack = 1..Top
      /\ nodes \in Trees /\ Self.node \in DOMAIN nodes /\ Self.node \in Nat
  BY SelfFacts, TreeFacts DEF FrameInv
<1>2. PICK t, done1 : t \in Nat /\ t = Top /\ done1 = done \cup {n}
  BY <1>1
<1>3. /\ Top' = t - 1 /\ DOMAIN stack' = 1..(t - 1)
      /\ stack' = << >> <=> t = 1
      /\ \A d \in 1..(t - 1) : /\ stack'[d].node = stack[d].node
                               /\ stack'[d].step = stack[d].step
  BY <1>2, FinishShape
<1>4. \A d \in 1..(t - 1) : \A k : Begun(stack[d], k)' <=> Begun(stack[d], k)
  BY <1>3, BegunBelow
<1>5. done1 \subseteq DOMAIN nodes'
  BY <1>1, <1>2 DEF Visited
<1>6. stack' = << >> => 1 \in done1
  BY <1>1, <1>2, <1>3 DEF Chained
<1>7. \A d \in DOMAIN stack' : stack'[d].node \notin done1
  <2> SUFFICES ASSUME NEW d \in DOMAIN stack' PROVE stack'[d].node \notin done1
    OBVIOUS
  <2>1. d \in DOMAIN stack /\ d # Top /\ stack'[d].node = stack[d].node
    BY <1>1, <1>2, <1>3
  <2>2. stack[d].node \notin done
    BY <2>1 DEF Visited
  <2>3. stack[d].node # n
    BY <1>1, <2>1, OwnNode
  <2> QED
    BY <1>2, <2>1, <2>2, <2>3
<1>8. ASSUME NEW d \in DOMAIN stack', NEW x \in Subtrees(nodes),
             x[1] = stack'[d].node, Begun(stack[d], x[2])'
      PROVE  Loc(x) \in done1 \/ (d < Top' /\ Loc(x) = stack'[d + 1].node)
  <2>1. d \in 1..(t - 1) /\ d \in DOMAIN stack
    BY <1>1, <1>2, <1>3
  <2>2. x[1] = stack[d].node /\ Begun(stack[d], x[2])
    BY <1>3, <1>4, <1>8, <2>1
  <2>3. Loc(x) \in done \/ Loc(x) = stack[d + 1].node
    BY <2>1, <2>2 DEF Visited
  <2>4. CASE d + 1 = t
    BY <1>1, <1>2, <2>3, <2>4
  <2>5. CASE d + 1 \in 1..(t - 1)
    BY <1>2, <1>3, <2>1, <2>3, <2>5
  <2> QED
    BY <1>2, <2>1, <2>4, <2>5
<1>9. ASSUME NEW x \in Subtrees(nodes), errs' = << >>, x[1] \in done1
      PROVE  Loc(x) \in done1
  <2>1. x[1] \in done => Loc(x) \in done
    BY <1>9 DEF Visited
  <2>2. x[1] = n => Begun(Self, x[2])
    BY <1>9 DEF Satisfied
  <2>3. x[1] = n => Loc(x) \in done
    BY <1>1, <2>2 DEF Visited
  <2> QED
    BY <1>2, <1>9, <2>1, <2>3
<1>10. ASSUME NEW x \in Subtrees(nodes), Loc(x) \in done1, x[1] \notin done1
       PROVE  \E d \in DOMAIN stack' :
                stack'[d].node = x[1] /\ Begun(stack[d], x[2])'
  <2>1. CASE Loc(x) \in done
    <3>1. PICK d \in DOMAIN stack : stack[d].node = x[1] /\ Begun(stack[d], x[2])
      BY <1>2, <1>10, <2>1 DEF Visited
    <3>2. d # Top
      BY <1>1, <1>2, <1>10, <3>1
    <3>3. d \in 1..(t - 1)
      BY <1>1, <1>2, <3>2
    <3> QED
      BY <1>3, <1>4, <3>1, <3>3
  <2>2. CASE Loc(x) = n
    <3>1. t # 1
      <4> SUFFICES ASSUME t = 1 PROVE FALSE
        OBVIOUS
      <4>1. n = 1
        BY <1>1, <1>2 DEF Chained
      <4>2. x[1] \in DOMAIN nodes /\ Loc(x) > x[1] /\ DOMAIN nodes = 1..Len(nodes)
        BY <1>1, SubtreeFacts, TreeFacts
      <4> QED
        BY <2>2, <4>1, <4>2
    <3>2. t - 1 \in DOMAIN stack /\ t - 1 < Top /\ t - 1 \in 1..(t - 1)
          /\ t - 1 + 1 = t
      BY <1>1, <1>2, <3>1
    <3>3. PICK y \in Subtrees(nodes) :
            /\ y[1] = stack[t - 1].node /\ Begun(stack[t - 1], y[2])
            /\ Loc(y) = stack[t].node
      BY <3>2 DEF Chained
    <3>4. y = x
      BY <1>1, <1>2, <2>2, <3>3, ParentFacts
    <3> QED
      BY <1>3, <1>4, <3>2, <3>3, <3>4
  <2> QED
    BY <1>2, <1>10, <2>1, <2>2
<1>11. Visited(done1)'
  BY <1>5, <1>6, <1>7, <1>8, <1>9, <1>10, SamePlaces DEF Visited
<1> QED
  BY <1>2, <1>11

-----------------------------------------------------------------------------
(* The declarations are at every fourth place of one node. *)
LEMMA DeclarationFacts ==
  ASSUME nodes \in Trees, NEW q \in Declarations
  PROVE  /\ q \in Identifiers /\ q[1] = Loc(<<1, 2>>)
         /\ nodes[q[1]].nt = "variables"
         /\ q[2] \in Nat /\ q[2] >= 1 /\ q[2] % 4 = 1 /\ q = <<q[1], q[2]>>
         /\ q[2] <= Len(nodes[q[1]].children)
<1>1. q \in Identifiers /\ nodes[q[1]].nt = "variables"
  BY DEF Declarations
<1>2. /\ q[1] \in DOMAIN nodes /\ q[2] \in DOMAIN nodes[q[1]].children
      /\ q[2] \in Nat /\ q = <<q[1], q[2]>> /\ q[2] \in NamedAt(nodes[q[1]].nt)
  BY <1>1, NameFacts
<1>3. q[1] = Loc(<<1, 2>>)
  BY <1>1, <1>2, OneDeclarer
<1>4. q[2] % 4 = 1
  BY <1>1, <1>2 DEF NamedAt
<1>5. nodes[q[1]].children \in Seq(Child)
  BY <1>2, TreeFacts DEF Node
<1>6. q[2] >= 1 /\ q[2] <= Len(nodes[q[1]].children)
  BY <1>2, <1>5, LenProperties
<1> QED
  BY <1>1, <1>2, <1>3, <1>4, <1>6

(* A call passes no declaration, *)
LEMMA PassedDescends ==
  ASSUME FrameInv, Chained, stack # << >>, nodes' = nodes,
         NEW self \in Activation, NEW i \in Nat, CallsFor(self, i)
  PROVE  \A q \in Declarations : Passed(q)' <=> Passed(q)
<1> TAKE q \in Declarations
<1>1. nodes \in Trees /\ Top \in Nat /\ Top >= 1
  BY EmptySeq, LenProperties DEF FrameInv, TypeOK, Top
<1>2. /\ Top' = Top + 1 /\ stack' # << >>
      /\ \A d \in 1..Top : d < Top => stack'[d].step = stack[d].step
      /\ stack'[Top].step = self.step
      /\ stack'[Top + 1].step = 1
  BY DescendShape
<1>3. /\ <<Self.node, i>> \in Subtrees(nodes) /\ ~Begun(Self, i)
      /\ self.node = Self.node
      /\ \A p \in Subtrees(nodes) :
           p[1] = Self.node =>
             (Begun(self, p[2]) <=> Begun(Self, p[2]) \/ p[2] = i)
  BY DEF CallsFor
<1>4. q[2] \in Nat /\ q[2] >= 1
  BY <1>1, DeclarationFacts
<1>5. /\ nodes[Self.node].nt # "variables"
      /\ nodes[Self.node].nt = "source" => i \in {2, 4}
  <2>1. <<Self.node, i>>[1] = Self.node /\ <<Self.node, i>>[2] = i
    OBVIOUS
  <2> QED
    BY <1>1, <1>3, <2>1, SubtreeKinds
<1>6. CASE KindOf(Self) = "source"
  <2>1. Top = 1 /\ stack[1] = Self /\ stack[1].node = 1
    BY <1>6, RootFacts DEF Self
  <2>2. Self.step \in Nat /\ self.step \in Nat
    BY <1>1, RootFacts, <2>1 DEF Activation
  <2>3. KindOf(self) = "source"
    BY <1>3, <1>6 DEF KindOf
  <2>4. /\ Begun(Self, 2) <=> Self.step >= 2
        /\ Begun(Self, 4) <=> Self.step >= 3
        /\ Begun(self, 2) <=> self.step >= 2
        /\ Begun(self, 4) <=> self.step >= 3
    BY <1>6, <2>3, AfterFacts DEF Begun
  <2>5. <<1, 2>> \in Subtrees(nodes) /\ <<1, 4>> \in Subtrees(nodes)
    BY <1>1, OneDeclarer
  <2>6. /\ Begun(self, 2) <=> Begun(Self, 2) \/ 2 = i
        /\ Begun(self, 4) <=> Begun(Self, 4) \/ 4 = i
    <3>1. /\ <<1, 2>>[1] = 1 /\ <<1, 2>>[2] = 2
          /\ <<1, 4>>[1] = 1 /\ <<1, 4>>[2] = 4
      OBVIOUS
    <3> QED
      BY <1>3, <2>1, <2>5, <3>1
  <2>7. stack'[1].step = self.step /\ stack'[2].step = 1 /\ Top' = 2
    BY <1>2, <2>1
  <2>8. i \in {2, 4}
    BY <1>5, <1>6 DEF KindOf
  <2>9. Passed(q) <=> Self.step >= 2
    BY <2>1, <2>2 DEF Passed
  <2>10. Passed(q)' <=> self.step >= 3
    BY <1>2, <1>4, <2>2, <2>7 DEF Passed
  <2> QED
    BY <1>3, <2>2, <2>4, <2>6, <2>8, <2>9, <2>10
<1>7. CASE KindOf(Self) # "source"
  <2>1. Top >= 2 /\ stack[1].step = 3
    BY <1>1, <1>5, <1>7, RootFacts DEF KindOf
  <2>2. stack'[1].step = 3
    BY <1>1, <1>2, <2>1
  <2> QED
    BY <2>1, <2>2 DEF Passed
<1> QED
  BY <1>6, <1>7

(* nor does a function that goes on without, *)
LEMMA PassedProceeds ==
  ASSUME FrameInv, Chained, stack # << >>, NEW self \in Activation,
         Proceeds(self)
  PROVE  \A q \in Declarations : Passed(q)' <=> Passed(q)
<1>1. Top \in Nat /\ Top >= 1
  BY EmptySeq, LenProperties DEF FrameInv, TypeOK, Top
<1>2. /\ stack' = Stepping(self) /\ self.node = Self.node
      /\ KindOf(Self) \notin {"source", "variables"}
  BY DEF Proceeds
<1>3. Top >= 2 /\ stack[1].step = 3
  BY <1>1, <1>2, RootFacts
<1>4. stack' # << >> /\ stack'[1].step = 3
  BY <1>1, <1>2, <1>3, ProceedShape
<1> QED
  BY <1>3, <1>4 DEF Passed

(* nor one that returns. *)
LEMMA PassedFinishes ==
  ASSUME FrameInv, Chained, stack # << >>, Finishes,
         Satisfied \/ \E p \in Uses : Reports(p)
  PROVE  \A q \in Declarations : Passed(q)' <=> Passed(q)
<1> TAKE q \in Declarations
<1>1. nodes \in Trees /\ Top \in Nat /\ Top >= 1
  BY EmptySeq, LenProperties DEF FrameInv, TypeOK, Top
<1>2. /\ Top' = Top - 1
      /\ stack' = << >> <=> Top = 1
      /\ \A d \in 1..(Top - 1) : /\ stack'[d].node = stack[d].node
                                 /\ stack'[d].step = stack[d].step
  BY FinishShape
<1>3. KindOf(Self) \in {"source", "variables"} => Satisfied
  <2> SUFFICES ASSUME KindOf(Self) \in {"source", "variables"},
                      NEW p \in Uses, Reports(p)
               PROVE  FALSE
    OBVIOUS
  <2>1. p[1] = Self.node /\ p \in Identifiers /\ p \notin Declarations
    BY DEF Reports, Uses
  <2>2. KindOf(Self) # "variables"
    BY <2>1 DEF Declarations, KindOf
  <2>3. p[2] \in NamedAt("source")
    BY <1>1, <2>1, <2>2, NameFacts DEF KindOf
  <2> QED
    BY <2>3 DEF NamedAt
<1>4. CASE KindOf(Self) = "source"
  <2>1. Top = 1 /\ stack[1] = Self /\ stack[1].node = 1
    BY <1>4, RootFacts DEF Self
  <2>2. <<1, 4>> \in Subtrees(nodes)
    BY <1>1, OneDeclarer
  <2>3. <<1, 4>>[1] = 1 /\ <<1, 4>>[2] = 4
    OBVIOUS
  <2>4. Begun(Self, 4)
    BY <1>3, <1>4, <2>1, <2>2, <2>3 DEF Satisfied
  <2>5. Self.step >= 3
    BY <1>4, <2>4, AfterFacts DEF Begun
  <2> QED
    BY <1>2, <2>1, <2>5 DEF Passed
<1>5. CASE KindOf(Self) = "variables"
  <2>1. /\ Top = 2 /\ stack[1].step = 2 /\ Self.node = Loc(<<1, 2>>)
        /\ Self = stack[2]
    BY <1>5, RootFacts DEF Self
  <2>2. Self.step > Len(Kids)
    BY <1>3, <1>5 DEF Satisfied
  <2>3. q[2] \in Nat /\ q[2] <= Len(Kids)
    BY <1>1, <2>1, DeclarationFacts DEF Kids
  <2>4. Self.step \in Nat /\ Len(Kids) \in Nat
    <3>1. Self \in Activation /\ Self.node \in DOMAIN nodes
      BY SelfFacts
    <3>2. Kids \in Seq(Child)
      BY <1>1, <3>1, TreeFacts DEF Kids, Node
    <3> QED
      BY <3>1, <3>2, LenProperties DEF Activation
  <2>5. q[2] < Self.step
    BY <2>2, <2>3, <2>4
  <2>6. Passed(q)
    BY <2>1, <2>5 DEF Passed
  <2>7. Top' = 1 /\ stack'[1].step = 2
    BY <1>2, <2>1
  <2> QED
    BY <2>6, <2>7 DEF Passed
<1>6. CASE KindOf(Self) \notin {"source", "variables"}
  <2>1. Top >= 2 /\ stack[1].step = 3
    BY <1>1, <1>6, RootFacts
  <2>2. stack'[1].step = 3
    BY <1>1, <1>2, <2>1
  <2> QED
    BY <2>1, <2>2 DEF Passed
<1> QED
  BY <1>4, <1>5, <1>6

(* The declaration that is looked at is passed. *)
LEMMA PassedDeclares ==
  ASSUME FrameInv, Chained, stack # << >>, NEW q0 \in Declarations,
         Declares(q0)
  PROVE  /\ ~Passed(q0)
         /\ \A q \in Declarations : Passed(q)' <=> Passed(q) \/ q = q0
         /\ \A q \in Declarations :
              /\ q[1] = q0[1] /\ q[2] \in Nat
              /\ Passed(q) <=> q[2] < q0[2]
<1>1. nodes \in Trees
  BY DEF FrameInv
<1>2. /\ Top = 2 /\ Top' = 2 /\ stack' # << >>
      /\ stack'[1].step = 2 /\ stack[1].step = 2
      /\ stack'[2].step = stack[2].step + 4
      /\ KindOf(Self) = "variables" /\ Self = stack[2] /\ Self.step \in Nat
      /\ q0 = <<Self.node, Self.step>>
  BY DeclareShape
<1>3. \A q \in Declarations :
        /\ q[1] = Self.node /\ q[2] \in Nat /\ q[2] % 4 = 1
        /\ q = <<q[1], q[2]>>
  <2> TAKE q \in Declarations
  <2>1. Self.node = Loc(<<1, 2>>)
    BY <1>2, RootFacts
  <2> QED
    BY <1>1, <2>1, DeclarationFacts
<1>4. q0[1] = Self.node /\ q0[2] = Self.step /\ Self.step % 4 = 1
  BY <1>2, <1>3
<1>5. \A q \in Declarations : Passed(q) <=> q[2] < Self.step
  BY <1>2 DEF Passed
<1>6. \A q \in Declarations : Passed(q)' <=> q[2] < Self.step + 4
  BY <1>2 DEF Passed
<1>7. \A q \in Declarations : q = q0 <=> q[2] = Self.step
  BY <1>2, <1>3
<1>8. \A n, m \in Nat : n % 4 = 1 /\ m % 4 = 1 => (n < m + 4 <=> n < m \/ n = m)
  OBVIOUS
<1>9. \A q \in Declarations : Passed(q)' <=> Passed(q) \/ q = q0
  <2> TAKE q \in Declarations
  <2>1. q[2] < Self.step + 4 <=> q[2] < Self.step \/ q[2] = Self.step
    BY <1>2, <1>3, <1>4, <1>8
  <2> QED
    BY <1>5, <1>6, <1>7, <2>1
<1>10. ~Passed(q0)
  BY <1>2, <1>4, <1>5
<1> QED
  BY <1>3, <1>4, <1>5, <1>9, <1>10

-----------------------------------------------------------------------------
(* The list of errors with one more. *)
LEMMA ErrorAdded ==
  ASSUME FrameInv, NEW e \in SemanticError, errs' = Append(errs, e)
  PROVE  /\ errs' # << >> /\ DOMAIN errs' = 1..(Len(errs) + 1)
         /\ errs'[Len(errs) + 1] = e /\ Len(errs) \in Nat
         /\ \A i \in DOMAIN errs : i \in 1..Len(errs) /\ errs'[i] = errs[i]
         /\ DOMAIN errs = 1..Len(errs)
<1>1. errs \in Seq(SemanticError)
  BY DEF FrameInv, TypeOK
<1>2. /\ Append(errs, e) \in Seq(SemanticError)
      /\ Len(Append(errs, e)) = Len(errs) + 1
      /\ \A i \in 1..Len(errs) : Append(errs, e)[i] = errs[i]
      /\ Append(errs, e)[Len(errs) + 1] = e
  BY <1>1, AppendProperties
<1>3. /\ Len(errs) \in Nat /\ DOMAIN errs = 1..Len(errs)
      /\ DOMAIN errs' = 1..(Len(errs) + 1)
  BY <1>1, <1>2, LenProperties
<1>4. errs' # << >>
  BY <1>2, <1>3, EmptySeq
<1> QED
  BY <1>2, <1>3, <1>4

(* Where the first declarations are stays known when none is passed, *)
LEMMA FirstsKept ==
  ASSUME nodes' = nodes, declared' = declared, FirstsDeclared,
         \A q \in Declarations : Passed(q)' <=> Passed(q),
         errs' = << >> => errs = << >>
  PROVE  FirstsDeclared'
<1>1. \A q \in Declarations : Passed(q)' =>
        /\ declared[Name(q)] \in 1..Loc(q)
        /\ errs' = << >> => declared[Name(q)] = Loc(q)
  BY DEF FirstsDeclared
<1>2. \A x \in Names : declared[x] # 0 =>
        \E q \in Declarations : /\ Passed(q)' /\ Name(q) = x
                                /\ Loc(q) = declared[x]
  BY DEF FirstsDeclared
<1> QED
  BY <1>1, <1>2, SamePlaces DEF FirstsDeclared

(* and when one is. *)
LEMMA FirstsDeclares ==
  ASSUME FrameInv, Chained, stack # << >>, nodes' = nodes, FirstsDeclared,
         NEW q0 \in Declarations, Declares(q0)
  PROVE  FirstsDeclared'
<1> DEFINE x0 == Name(q0)
<1>1. nodes \in Trees /\ declared \in [Names -> Nat]
  BY DEF FrameInv, TypeOK
<1>2. /\ ~Passed(q0)
      /\ \A q \in Declarations : Passed(q)' <=> Passed(q) \/ q = q0
      /\ \A q \in Declarations :
           /\ q[1] = q0[1] /\ q[2] \in Nat
           /\ Passed(q) <=> q[2] < q0[2]
  BY PassedDeclares
<1>3. \A q \in Declarations :
        q \in Identifiers /\ Name(q) \in Names /\ Loc(q) \in Nat /\ Loc(q) > 0
  BY <1>1, NameFacts DEF Declarations
<1>4. \A q \in Declarations : Passed(q) => Loc(q) < Loc(q0)
  BY <1>1, <1>2, <1>3, NameLocations
<1>5. CASE declared[x0] = 0
  <2>1. declared' = [declared EXCEPT ![x0] = Loc(q0)] /\ errs' = errs
    BY <1>5 DEF Declares
  <2>2. \A q \in Declarations : Passed(q) => Name(q) # x0
    BY <1>3, <1>5 DEF FirstsDeclared
  <2>3. /\ declared'[x0] = Loc(q0)
        /\ \A x \in Names : x # x0 => declared'[x] = declared[x]
    BY <1>1, <1>3, <2>1
  <2>4. \A q \in Declarations : Passed(q)' =>
          /\ declared'[Name(q)] \in 1..Loc(q)
          /\ errs' = << >> => declared'[Name(q)] = Loc(q)
    <3> SUFFICES ASSUME NEW q \in Declarations, Passed(q)'
                 PROVE  /\ declared'[Name(q)] \in 1..Loc(q)
                        /\ errs' = << >> => declared'[Name(q)] = Loc(q)
      OBVIOUS
    <3>1. CASE q = q0
      BY <1>3, <2>3, <3>1
    <3>2. CASE q # q0
      <4>1. Passed(q)
        BY <1>2, <3>2
      <4>2. declared'[Name(q)] = declared[Name(q)]
        BY <1>3, <2>2, <2>3, <4>1
      <4> QED
        BY <2>1, <4>1, <4>2 DEF FirstsDeclared
    <3> QED
      BY <3>1, <3>2
  <2>5. \A x \in Names : declared'[x] # 0 =>
          \E q \in Declarations : /\ Passed(q)' /\ Name(q) = x
                                  /\ Loc(q) = declared'[x]
    <3> SUFFICES ASSUME NEW x \in Names, declared'[x] # 0
                 PROVE  \E q \in Declarations : /\ Passed(q)' /\ Name(q) = x
                                                /\ Loc(q) = declared'[x]
      OBVIOUS
    <3>1. CASE x = x0
      BY <1>2, <2>3, <3>1
    <3>2. CASE x # x0
      <4>1. declared'[x] = declared[x]
        BY <2>3, <3>2
      <4>2. PICK q \in Declarations : Passed(q) /\ Name(q) = x
                                      /\ Loc(q) = declared[x]
        BY <4>1 DEF FirstsDeclared
      <4> QED
        BY <1>2, <4>1, <4>2
    <3> QED
      BY <3>1, <3>2
  <2> QED
    BY <2>4, <2>5, SamePlaces DEF FirstsDeclared
<1>6. CASE declared[x0] # 0
  <2>1. declared' = declared
    BY <1>6 DEF Declares
  <2>2. errs' = Append(errs, [kind |-> "MULTIPLE_DECL",
                              loc |-> Loc(q0), first |-> declared[x0]])
    BY <1>6 DEF Declares
  <2>3. errs' # << >>
    <3>1. [kind |-> "MULTIPLE_DECL", loc |-> Loc(q0), first |-> declared[x0]]
            \in SemanticError
      BY <1>1, <1>3 DEF SemanticError
    <3> QED
      BY <2>2, <3>1, ErrorAdded
  <2>4. PICK r \in Declarations : /\ Passed(r) /\ Name(r) = x0
                                  /\ Loc(r) = declared[x0]
    BY <1>3, <1>6 DEF FirstsDeclared
  <2>5. declared[x0] \in 1..Loc(q0)
    <3>1. Loc(r) < Loc(q0) /\ Loc(r) \in Nat /\ Loc(r) > 0 /\ Loc(q0) \in Nat
      BY <1>3, <1>4, <2>4
    <3> QED
      BY <2>4, <3>1
  <2>6. \A q \in Declarations : Passed(q)' => declared[Name(q)] \in 1..Loc(q)
    BY <1>2, <2>5 DEF FirstsDeclared
  <2>7. \A x \in Names : declared[x] # 0 =>
          \E q \in Declarations : /\ Passed(q)' /\ Name(q) = x
                                  /\ Loc(q) = declared[x]
    BY <1>2 DEF FirstsDeclared
  <2> QED
    BY <2>1, <2>3, <2>6, <2>7, SamePlaces DEF FirstsDeclared
<1> QED
  BY <1>5, <1>6

-----------------------------------------------------------------------------
(* The account of the errors stays right when nothing is reported, *)
LEMMA AccountedKept ==
  ASSUME NEW done, NEW done1, Accounted(done), done \subseteq done1,
         nodes' = nodes, errs' = errs,
         \A x \in Names : declared[x] # 0 => declared'[x] # 0,
         \A q \in Declarations : Passed(q) => Passed(q)',
         \A p \in Uses : Name(p) \in Names,
         \A p \in Uses : p[1] \in done1 /\ p[1] \notin done =>
           declared[Name(p)] # 0
  PROVE  Accounted(done1)'
<1>1. errs' = << >> => \A p \in Uses : p[1] \in done1 => declared'[Name(p)] # 0
  BY DEF Accounted
<1>2. \A i \in DOMAIN errs' :
        /\ Justified(errs'[i])
        /\ \E p \in Identifiers :
             /\ Loc(p) = errs'[i].loc
             /\ IF p \in Uses THEN p[1] \in done1 ELSE Passed(p)'
  <2> TAKE i \in DOMAIN errs'
  <2>1. i \in DOMAIN errs /\ errs'[i] = errs[i] /\ Justified(errs[i])
    BY DEF Accounted
  <2>2. PICK p \in Identifiers :
          /\ Loc(p) = errs[i].loc
          /\ IF p \in Uses THEN p[1] \in done ELSE Passed(p)
    BY <2>1 DEF Accounted
  <2>3. IF p \in Uses THEN p[1] \in done1 ELSE Passed(p)'
    BY <2>2 DEF Uses
  <2> QED
    BY <2>1, <2>2, <2>3
<1>3. \A i, j \in DOMAIN errs' : errs'[i].loc = errs'[j].loc => i = j
  BY DEF Accounted
<1> QED
  BY <1>1, <1>2, <1>3, SamePlaces DEF Accounted

(* and when an error is that is justified, at a name not counted before. *)
LEMMA AccountedReports ==
  ASSUME FrameInv, NEW done, NEW done1, Accounted(done), done \subseteq done1,
         nodes' = nodes, NEW e \in SemanticError, errs' = Append(errs, e),
         \A q \in Declarations : Passed(q) => Passed(q)',
         Justified(e),
         NEW p \in Identifiers, Loc(p) = e.loc,
         IF p \in Uses THEN p[1] \in done1 /\ p[1] \notin done
         ELSE Passed(p)' /\ ~Passed(p)
  PROVE  Accounted(done1)'
<1>1. errs \in Seq(SemanticError) /\ nodes \in Trees
  BY DEF FrameInv, TypeOK
<1>2. /\ errs' # << >> /\ DOMAIN errs' = 1..(Len(errs) + 1)
      /\ errs'[Len(errs) + 1] = e /\ Len(errs) \in Nat
      /\ \A i \in DOMAIN errs : i \in 1..Len(errs) /\ errs'[i] = errs[i]
      /\ DOMAIN errs = 1..Len(errs)
  BY ErrorAdded
<1>3. \A i \in DOMAIN errs' : i \in DOMAIN errs \/ i = Len(errs) + 1
  BY <1>2
<1>4. \A i \in DOMAIN errs' :
        /\ Justified(errs'[i])
        /\ \E r \in Identifiers :
             /\ Loc(r) = errs'[i].loc
             /\ IF r \in Uses THEN r[1] \in done1 ELSE Passed(r)'
  <2> TAKE i \in DOMAIN errs'
  <2>1. CASE i \in DOMAIN errs
    <3>1. errs'[i] = errs[i] /\ Justified(errs[i])
      BY <1>2, <2>1 DEF Accounted
    <3>2. PICK r \in Identifiers :
            /\ Loc(r) = errs[i].loc
            /\ IF r \in Uses THEN r[1] \in done ELSE Passed(r)
      BY <2>1 DEF Accounted
    <3>3. IF r \in Uses THEN r[1] \in done1 ELSE Passed(r)'
      BY <3>2 DEF Uses
    <3> QED
      BY <3>1, <3>2, <3>3
  <2>2. CASE i = Len(errs) + 1
    <3>1. errs'[i] = e
      BY <1>2, <2>2
    <3>2. IF p \in Uses THEN p[1] \in done1 ELSE Passed(p)'
      OBVIOUS
    <3> QED
      BY <3>1, <3>2
  <2> QED
    BY <1>3, <2>1, <2>2
<1>5. \A i \in DOMAIN errs : errs[i].loc # e.loc
  <2> SUFFICES ASSUME NEW i \in DOMAIN errs, errs[i].loc = e.loc PROVE FALSE
    OBVIOUS
  <2>1. PICK r \in Identifiers :
          /\ Loc(r) = errs[i].loc
          /\ IF r \in Uses THEN r[1] \in done ELSE Passed(r)
    BY DEF Accounted
  <2>2. r = p
    BY <1>1, <2>1, NameLocations
  <2> QED
    BY <2>1, <2>2
<1>6. \A i, j \in DOMAIN errs' : errs'[i].loc = errs'[j].loc => i = j
  <2> SUFFICES ASSUME NEW i \in DOMAIN errs', NEW j \in DOMAIN errs',
                      errs'[i].loc = errs'[j].loc
               PROVE  i = j
    OBVIOUS
  <2>1. CASE i \in DOMAIN errs /\ j \in DOMAIN errs
    BY <1>2, <2>1 DEF Accounted
  <2>2. CASE ~(i \in DOMAIN errs /\ j \in DOMAIN errs)
    BY <1>2, <1>3, <1>5, <2>2
  <2> QED
    BY <2>1, <2>2
<1> QED
  BY <1>2, <1>4, <1>6, SamePlaces DEF Accounted

-----------------------------------------------------------------------------
(* A use is reported when all the declarations have been seen. *)
LEMMA ReportedLast ==
  ASSUME FrameInv, Chained, stack # << >>, NEW p \in Uses, Reports(p)
  PROVE  \A q \in Declarations : Passed(q)
<1>1. p[1] = Self.node /\ p \in Identifiers /\ p \notin Declarations
  BY DEF Reports, Uses
<1>2. KindOf(Self) # "variables"
  BY <1>1 DEF Declarations, KindOf
<1>3. KindOf(Self) # "source"
  <2> SUFFICES ASSUME KindOf(Self) = "source" PROVE FALSE
    OBVIOUS
  <2>1. p[2] \in NamedAt("source")
    BY <1>1, NameFacts DEF KindOf, FrameInv
  <2> QED
    BY <2>1 DEF NamedAt
<1>4. Top \in Nat /\ Top >= 1
  BY SelfFacts
<1>5. stack[1].step = 3
  BY <1>2, <1>3, <1>4, RootFacts
<1> QED
  BY <1>5 DEF Passed

(* It is an error, then. *)
LEMMA ReportJustified ==
  ASSUME FrameInv, Chained, FirstsDeclared, stack # << >>, NEW p \in Uses,
         Reports(p),
         NEW e, e = [kind |-> "UNDECLARED_VAR", loc |-> Loc(p), first |-> 0]
  PROVE  e \in SemanticError /\ Justified(e)
<1>1. nodes \in Trees /\ p \in Identifiers
  BY DEF FrameInv, Uses
<1>2. Loc(p) \in Nat
  BY <1>1, NameFacts
<1>3. e \in SemanticError
  BY <1>2 DEF SemanticError
<1>4. \A q \in Declarations : Name(q) # Name(p)
  <2> SUFFICES ASSUME NEW q \in Declarations, Name(q) = Name(p) PROVE FALSE
    OBVIOUS
  <2>1. declared[Name(q)] \in 1..Loc(q)
    BY ReportedLast DEF FirstsDeclared
  <2>2. declared[Name(p)] = 0
    BY DEF Reports
  <2> QED
    BY <2>1, <2>2
<1>5. e.kind = "UNDECLARED_VAR" /\ Loc(p) = e.loc
  OBVIOUS
<1> QED
  BY <1>3, <1>4, <1>5 DEF Justified

(* So is a second declaration. *)
LEMMA RepeatJustified ==
  ASSUME FrameInv, Chained, FirstsDeclared, stack # << >>,
         NEW p \in Declarations, Declares(p), declared[Name(p)] # 0,
         NEW e, e = [kind |-> "MULTIPLE_DECL", loc |-> Loc(p),
                     first |-> declared[Name(p)]]
  PROVE  e \in SemanticError /\ Justified(e)
<1>1. nodes \in Trees /\ declared \in [Names -> Nat]
  BY DEF FrameInv, TypeOK
<1>2. \A q \in Declarations :
        q \in Identifiers /\ Name(q) \in Names /\ Loc(q) \in Nat
  BY <1>1, NameFacts DEF Declarations
<1>3. e \in SemanticError
  BY <1>1, <1>2 DEF SemanticError
<1>4. \A r \in Declarations :
        /\ r[1] = p[1] /\ r[2] \in Nat
        /\ Passed(r) <=> r[2] < p[2]
  BY PassedDeclares
<1>5. PICK q \in Declarations : /\ Passed(q) /\ Name(q) = Name(p)
                                /\ Loc(q) = declared[Name(p)]
  BY <1>2 DEF FirstsDeclared
<1>6. Loc(q) < Loc(p)
  BY <1>1, <1>2, <1>4, <1>5, NameLocations
<1>7. \A r \in Declarations : Name(r) = Name(p) => Loc(q) <= Loc(r)
  <2> SUFFICES ASSUME NEW r \in Declarations, Name(r) = Name(p)
               PROVE  Loc(q) <= Loc(r)
    OBVIOUS
  <2>1. Loc(q) \in Nat /\ Loc(r) \in Nat /\ Loc(p) \in Nat
    BY <1>2
  <2>2. CASE Passed(r)
    <3>1. declared[Name(r)] \in 1..Loc(r)
      BY <2>2 DEF FirstsDeclared
    <3> QED
      BY <1>5, <2>1, <3>1
  <2>3. CASE ~Passed(r)
    <3>1. r[2] >= p[2]
      BY <1>4, <2>3
    <3>2. r = <<r[1], r[2]>> /\ p = <<p[1], p[2]>>
      BY <1>1, DeclarationFacts
    <3>3. r[2] = p[2] => r = p
      BY <1>4, <3>2
    <3>4. r[2] > p[2] => Loc(p) < Loc(r)
      BY <1>1, <1>2, <1>4, NameLocations
    <3> QED
      BY <1>4, <1>6, <2>1, <3>1, <3>3, <3>4
  <2> QED
    BY <2>2, <2>3
<1>8. e.kind = "MULTIPLE_DECL" /\ Loc(p) = e.loc /\ Loc(q) = e.first
  BY <1>5
<1> QED
  BY <1>3, <1>5, <1>6, <1>7, <1>8 DEF Justified

-----------------------------------------------------------------------------
(* A call *)
LEMMA NamesDescend ==
  ASSUME FrameInv, NamesInv, nodes' = nodes, stack # << >>,
         errs' = errs, declared' = declared,
         NEW self \in Activation, NEW i \in Nat, CallsFor(self, i)
  PROVE  FirstsDeclared' /\ (\E done : Visited(done) /\ Accounted(done))'
<1>1. PICK done : Visited(done) /\ Accounted(done)
  BY DEF NamesInv
<1>2. \A q \in Declarations : Passed(q)' <=> Passed(q)
  BY PassedDescends DEF NamesInv
<1>3. \A p \in Uses : Name(p) \in Names
  BY NameFacts DEF Uses, FrameInv
<1>4. FirstsDeclared'
  BY <1>2, FirstsKept DEF NamesInv
<1>5. Visited(done)'
  BY <1>1, VisitedDescends DEF NamesInv
<1>6. Accounted(done)'
  BY <1>1, <1>2, <1>3, AccountedKept
<1> QED
  BY <1>4, <1>5, <1>6

(* The functions on the stack stay with the children they have called for. *)
LEMMA VisitedProceeds ==
  ASSUME FrameInv, Chained, NEW done, Visited(done), nodes' = nodes,
         stack # << >>, errs' = errs, NEW self \in Activation, Proceeds(self)
  PROVE  Visited(done)'
<1>1. Top \in Nat /\ Top >= 1 /\ stack[Top] = Self /\ DOMAIN stack = 1..Top
  BY SelfFacts
<1>2. PICK t \in Nat : t = Top
  BY <1>1
<1>3. stack' = Stepping(self) /\ self.node = Self.node
      /\ \A p \in Subtrees(nodes) :
           p[1] = Self.node => (Begun(self, p[2]) <=> Begun(Self, p[2]))
  BY DEF Proceeds
<1>4. /\ Top' = t /\ DOMAIN stack' = 1..t /\ stack' # << >>
      /\ \A d \in 1..t : stack'[d].node = stack[d].node
      /\ \A d \in 1..t : d < t => stack'[d].step = stack[d].step
      /\ stack'[t].step = self.step
  BY <1>2, <1>3, ProceedShape
<1>5. \A d \in 1..t :
        d < t => \A k : Begun(stack[d], k)' <=> Begun(stack[d], k)
  BY <1>4, BegunBelow
<1>6. \A k : Begun(stack[t], k)' <=> Begun(self, k)
  BY <1>1, <1>2, <1>3, <1>4, BegunHere
<1>7. \A d \in DOMAIN stack : \A x \in Subtrees(nodes) :
        x[1] = stack[d].node =>
          (Begun(stack[d], x[2])' <=> Begun(stack[d], x[2]))
  <2> SUFFICES ASSUME NEW d \in DOMAIN stack, NEW x \in Subtrees(nodes),
                      x[1] = stack[d].node
               PROVE  Begun(stack[d], x[2])' <=> Begun(stack[d], x[2])
    OBVIOUS
  <2>1. CASE d < t
    BY <1>1, <1>2, <1>5, <2>1
  <2>2. CASE d = t
    BY <1>1, <1>2, <1>3, <1>6, <2>2
  <2> QED
    BY <1>1, <1>2, <2>1, <2>2
<1> QED
  BY <1>1, <1>2, <1>4, <1>7, VisitedStays

(* or pass a declaration, *)
LEMMA VisitedDeclares ==
  ASSUME FrameInv, Chained, NEW done, Visited(done), nodes' = nodes,
         stack # << >>, errs' = << >> => errs = << >>,
         NEW q \in Declarations, Declares(q)
  PROVE  Visited(done)'
<1>1. /\ Top = 2 /\ Top' = 2 /\ DOMAIN stack' = 1..2 /\ stack' # << >>
      /\ \A d \in 1..2 : stack'[d].node = stack[d].node
      /\ stack'[1].step = stack[1].step
      /\ KindOf(Self) = "variables" /\ Self = stack[2]
  BY DeclareShape
<1>2. nodes \in Trees /\ DOMAIN stack = 1..2
  BY <1>1, SelfFacts DEF FrameInv
<1>3. \A d \in DOMAIN stack : \A x \in Subtrees(nodes) :
        x[1] = stack[d].node =>
          (Begun(stack[d], x[2])' <=> Begun(stack[d], x[2]))
  <2> SUFFICES ASSUME NEW d \in DOMAIN stack, NEW x \in Subtrees(nodes),
                      x[1] = stack[d].node
               PROVE  Begun(stack[d], x[2])' <=> Begun(stack[d], x[2])
    OBVIOUS
  <2>1. CASE d = 1
    <3>1. stack'[1].node = stack[1].node
      BY <1>1
    <3> QED
      BY <1>1, <2>1, <3>1, BegunBelow
  <2>2. CASE d = 2
    BY <1>1, <1>2, <2>2, SubtreeKinds DEF KindOf
  <2> QED
    BY <1>2, <2>1, <2>2
<1> QED
  BY <1>1, <1>2, <1>3, VisitedStays

(* so that a step without a call leaves the names alone, *)
LEMMA NamesProceed ==
  ASSUME FrameInv, NamesInv, nodes' = nodes, stack # << >>,
         errs' = errs, declared' = declared,
         NEW self \in Activation, Proceeds(self)
  PROVE  FirstsDeclared' /\ (\E done : Visited(done) /\ Accounted(done))'
<1>1. PICK done : Visited(done) /\ Accounted(done)
  BY DEF NamesInv
<1>2. \A q \in Declarations : Passed(q)' <=> Passed(q)
  BY PassedProceeds DEF NamesInv
<1>3. \A p \in Uses : Name(p) \in Names
  BY NameFacts DEF Uses, FrameInv
<1>4. FirstsDeclared'
  BY <1>2, FirstsKept DEF NamesInv
<1>5. Visited(done)'
  BY <1>1, VisitedProceeds DEF NamesInv
<1>6. Accounted(done)'
  BY <1>1, <1>2, <1>3, AccountedKept
<1> QED
  BY <1>4, <1>5, <1>6

(* A node is counted when its function returns, *)
LEMMA NamesFinish ==
  ASSUME FrameInv, NamesInv, nodes' = nodes, stack # << >>,
         Finishes, Satisfied, errs' = errs, declared' = declared
  PROVE  FirstsDeclared' /\ (\E done : Visited(done) /\ Accounted(done))'
<1>1. PICK done, n : Visited(done) /\ Accounted(done) /\ n = Self.node
  BY DEF NamesInv
<1>2. \A q \in Declarations : Passed(q)' <=> Passed(q)
  BY PassedFinishes DEF NamesInv
<1>3. \A p \in Uses : Name(p) \in Names
  BY NameFacts DEF Uses, FrameInv
<1>4. FirstsDeclared'
  BY <1>2, FirstsKept DEF NamesInv
<1>5. PICK done1 : done1 = done \cup {n}
  OBVIOUS
<1>6. Visited(done1)'
  BY <1>1, <1>5, VisitedFinishes DEF NamesInv
<1>7. \A p \in Uses : p[1] \in done1 /\ p[1] \notin done => declared[Name(p)] # 0
  BY <1>1, <1>5 DEF Satisfied
<1>8. Accounted(done1)'
  BY <1>1, <1>2, <1>3, <1>5, <1>7, AccountedKept
<1> QED
  BY <1>4, <1>6, <1>8

(* be it with an error; *)
LEMMA NamesReport ==
  ASSUME FrameInv, NamesInv, nodes' = nodes, stack # << >>,
         Finishes, NEW p \in Uses, Reports(p), declared' = declared
  PROVE  FirstsDeclared' /\ (\E done : Visited(done) /\ Accounted(done))'
<1>1. PICK done, n : Visited(done) /\ Accounted(done) /\ n = Self.node
  BY DEF NamesInv
<1>2. \A q \in Declarations : Passed(q)' <=> Passed(q)
  BY PassedFinishes DEF NamesInv
<1>3. PICK e : e = [kind |-> "UNDECLARED_VAR", loc |-> Loc(p), first |-> 0]
  OBVIOUS
<1>4. e \in SemanticError /\ Justified(e) /\ Loc(p) = e.loc
  BY <1>3, ReportJustified DEF NamesInv
<1>5. errs' = Append(errs, e) /\ p[1] = n
  BY <1>1, <1>3 DEF Reports
<1>6. errs' # << >>
  BY <1>4, <1>5, ErrorAdded
<1>7. FirstsDeclared'
  BY <1>2, <1>6, FirstsKept DEF NamesInv
<1>8. PICK done1 : done1 = done \cup {n}
  OBVIOUS
<1>9. Visited(done1)'
  BY <1>1, <1>6, <1>8, VisitedFinishes DEF NamesInv
<1>10. n \notin done
  BY <1>1, SelfFacts DEF Visited
<1>11. p \in Identifiers
  BY DEF Uses
<1>12. Accounted(done1)'
  BY <1>1, <1>2, <1>4, <1>5, <1>8, <1>10, <1>11, AccountedReports
<1> QED
  BY <1>7, <1>9, <1>12

(* and a declaration when it is passed. *)
LEMMA NamesDeclare ==
  ASSUME FrameInv, NamesInv, nodes' = nodes, stack # << >>,
         NEW q \in Declarations, Declares(q)
  PROVE  FirstsDeclared' /\ (\E done : Visited(done) /\ Accounted(done))'
<1>1. PICK done : Visited(done) /\ Accounted(done)
  BY DEF NamesInv
<1>2. FirstsDeclared'
  BY FirstsDeclares DEF NamesInv
<1>3. /\ ~Passed(q) /\ Passed(q)'
      /\ \A r \in Declarations : Passed(r) => Passed(r)'
  BY PassedDeclares DEF NamesInv
<1>4. /\ Top = 2 /\ Top' = 2 /\ DOMAIN stack' = 1..2 /\ stack' # << >>
      /\ \A d \in 1..2 : stack'[d].node = stack[d].node
      /\ stack'[1].step = stack[1].step
      /\ KindOf(Self) = "variables" /\ Self = stack[2]
  BY DeclareShape DEF NamesInv
<1>5. /\ nodes \in Trees /\ q \in Identifiers /\ q \notin Uses
      /\ \A p \in Uses : Name(p) \in Names
      /\ Name(q) \in Names /\ Loc(q) \in Nat /\ Loc(q) > 0
      /\ declared \in [Names -> Nat] /\ DOMAIN stack = 1..2
  BY <1>4, NameFacts, SelfFacts DEF Uses, Declarations, FrameInv, TypeOK
<1>6. PICK e : e = [kind |-> "MULTIPLE_DECL", loc |-> Loc(q),
                    first |-> declared[Name(q)]]
  OBVIOUS
<1>7. \/ errs' = errs
      \/ errs' = Append(errs, e) /\ declared[Name(q)] # 0 /\ declared' = declared
  BY <1>6 DEF Declares
<1>8. declared[Name(q)] # 0 => e \in SemanticError /\ Justified(e)
  BY <1>6, RepeatJustified DEF NamesInv
<1>9. errs' = << >> => errs = << >>
  BY <1>7, <1>8, ErrorAdded
<1>10. Visited(done)'
  BY <1>1, <1>9, VisitedDeclares DEF NamesInv
<1>11. \A x \in Names : declared[x] # 0 => declared'[x] # 0
  <2>1. \/ declared' = declared
        \/ declared' = [declared EXCEPT ![Name(q)] = Loc(q)]
    BY DEF Declares
  <2> QED
    BY <1>5, <2>1
<1>12. Accounted(done)'
  <2>1. CASE errs' = errs
    BY <1>1, <1>3, <1>5, <1>11, <2>1, AccountedKept
  <2>2. CASE errs' = Append(errs, e) /\ declared[Name(q)] # 0
    <3>1. Loc(q) = e.loc
      BY <1>6
    <3> QED
      BY <1>1, <1>3, <1>5, <1>8, <2>2, <3>1, AccountedReports
  <2> QED
    BY <1>7, <2>1, <2>2
<1> QED
  BY <1>2, <1>10, <1>12

(* The invariant of the names is kept. *)
LEMMA NamesStep ==
  ASSUME FrameInv, NamesInv, [Next]_vars
  PROVE  NamesInv'
<1>1. WalkStep
  BY NextWalk
<1>2. Chained'
  BY <1>1, ChainedStep DEF NamesInv
<1>3. nodes' = nodes
  BY <1>1 DEF WalkStep
<1>4. CASE UNCHANGED <<stack, declared, errs>>
  <2>1. PICK done : Visited(done) /\ Accounted(done)
    BY DEF NamesInv
  <2>2. \A q : Passed(q)' <=> Passed(q)
    BY <1>4 DEF Passed, Top
  <2>3. FirstsDeclared'
    BY <1>3, <1>4, <2>2, FirstsKept DEF NamesInv
  <2>4. \A p \in Uses : Name(p) \in Names
    BY NameFacts DEF Uses, FrameInv
  <2>5. Accounted(done)'
    BY <1>3, <1>4, <2>1, <2>2, <2>4, AccountedKept
  <2>6. Visited(done)'
    BY <1>3, <1>4, <2>1 DEF Visited, Begun, KindOf, Loc, Top
  <2> QED
    BY <1>2, <2>3, <2>5, <2>6 DEF NamesInv
<1>5. ASSUME stack # << >>, WalkStep,
             ~UNCHANGED <<stack, declared, errs>>
      PROVE  FirstsDeclared' /\ (\E done : Visited(done) /\ Accounted(done))'
  <2>1. CASE /\ UNCHANGED declared
             /\ \/ /\ \/ \E self \in Activation, i \in Nat : CallsFor(self, i)
                      \/ \E self \in Activation : Proceeds(self)
                   /\ UNCHANGED errs
                \/ Finishes /\ Satisfied /\ UNCHANGED errs
                \/ Finishes /\ \E p \in Uses : Reports(p)
    BY <1>3, <1>5, <2>1, NamesDescend, NamesProceed, NamesFinish, NamesReport
  <2>2. CASE \E q \in Declarations : Declares(q)
    BY <1>3, <1>5, <2>2, NamesDeclare
  <2> QED
    BY <1>5, <2>1, <2>2 DEF WalkStep
<1> QED
  BY <1>1, <1>2, <1>4, <1>5 DEF NamesInv, WalkStep

(* When the analyser is called, no other function has been called. *)
LEMMA VisitedInit ==
  ASSUME Init
  PROVE  Visited({})
<1>1. /\ nodes \in Trees /\ stack = <<Begin(1)>> /\ errs = << >>
  BY DEF Init
<1>2. /\ Top = 1 /\ DOMAIN stack = {1} /\ stack # << >>
      /\ stack[1].node = 1 /\ stack[1].step = 1
  BY <1>1 DEF Top, Begin
<1>3. \A p \in Subtrees(nodes) : p[1] = 1 => ~Begun(stack[1], p[2])
  <2> SUFFICES ASSUME NEW p \in Subtrees(nodes), p[1] = 1
               PROVE  ~Begun(stack[1], p[2])
    OBVIOUS
  <2>1. p[2] \in Nat /\ p[2] >= 1
    BY <1>1, SubtreeFacts, TreeFacts, LenProperties
  <2>2. \A nt : After(nt, p[2]) >= 2 /\ After(nt, p[2]) \in Nat
    <3>1. \A nt : After(nt, p[2]) >= 2
      BY <2>1, AfterBegin
    <3> QED
      BY <2>1, <3>1 DEF After
  <2> QED
    BY <1>2, <2>2 DEF Begun
<1> QED
  BY <1>2, <1>3 DEF Visited

(* So the invariant holds. *)
LEMMA NamesInit ==
  ASSUME Init
  PROVE  NamesInv
<1>1. /\ nodes \in Trees /\ stack = <<Begin(1)>> /\ errs = << >>
      /\ declared = [x \in Names |-> 0]
  BY DEF Init
<1>2. /\ Top = 1 /\ DOMAIN stack = {1} /\ stack # << >>
      /\ stack[1].node = 1 /\ stack[1].step = 1
  BY <1>1 DEF Top, Begin
<1>3. nodes[1].nt = "source"
  BY <1>1, OneDeclarer
<1>4. Chained
  <2>1. KindOf(stack[1]) # "variables"
    BY <1>2, <1>3 DEF KindOf
  <2> QED
    BY <1>2, <2>1 DEF Chained
<1>5. \A q : ~Passed(q)
  BY <1>2 DEF Passed
<1>6. FirstsDeclared
  BY <1>1, <1>5 DEF FirstsDeclared
<1>7. Visited({})
  BY VisitedInit
<1>8. Accounted({})
  <2>1. DOMAIN errs = {}
    BY <1>1, EmptySeq
  <2> QED
    BY <2>1 DEF Accounted
<1> QED
  BY <1>4, <1>6, <1>7, <1>8 DEF NamesInv

-----------------------------------------------------------------------------
(* So both hold of every analysis. *)
THEOREM NamesInvariance == Spec => [](FrameInv /\ NamesInv)
<1>1. Init => NamesInv
  BY NamesInit
<1>2. FrameInv /\ NamesInv /\ [Next]_vars => NamesInv'
  BY NamesStep
<1>3. LabelInv => FrameInv
  BY DEF LabelInv, CodeInv
<1> QED
  BY <1>1, <1>2, <1>3, Invariance, PTL DEF Spec

-----------------------------------------------------------------------------
(* The order of the numbers is well-founded, *)
LEMMA NatOrder ==
  \E R : IsWellFoundedOn(R, Nat) /\ \A x, y \in Nat : x < y => <<x, y>> \in R
<1>1. \A x, y \in Nat : x < y => <<x, y>> \in OpToRel(<, Nat)
  BY DEF OpToRel
<1> QED
  BY <1>1, NatLessThanWellFounded

(* so that there is a least one: induction, without an operator. *)
LEMMA Smallest ==
  ASSUME NEW T, T \subseteq Nat, T # {}
  PROVE  \E m \in T : \A n \in T : m <= n
<1>1. PICK R : IsWellFoundedOn(R, Nat) /\ \A x, y \in Nat : x < y => <<x, y>> \in R
  BY NatOrder
<1>2. \E x \in T : \A y \in T : ~ (<<y, x>> \in R)
  <2>1. IsWellFoundedOn(R, Nat)
    BY <1>1
  <2> QED
    BY <2>1, WFMin
<1>3. PICK m \in T : \A y \in T : ~ (<<y, m>> \in R)
  BY <1>2
<1>4. \A n \in T : m <= n
  <2> TAKE n \in T
  <2>1. m \in Nat /\ n \in Nat
    OBVIOUS
  <2>2. ~ (n < m)
    BY <1>1, <1>3, <2>1, Zenon
  <2> QED
    BY <2>1, <2>2
<1> QED
  BY <1>4

(***************************************************************************)
(* When the analyser has returned without an error, no node is left out: a *)
(* first one that was would have a parent, which is older and was visited. *)
(***************************************************************************)
LEMMA AllVisited ==
  ASSUME nodes \in Trees, NEW done, Visited(done), stack = << >>, errs = << >>
  PROVE  DOMAIN nodes \subseteq done
<1> SUFFICES ASSUME DOMAIN nodes \ done # {} PROVE FALSE
  OBVIOUS
<1>1. DOMAIN nodes \ done \subseteq Nat
  BY TreeFacts, LenProperties
<1>2. PICK m \in DOMAIN nodes \ done : \A n \in DOMAIN nodes \ done : m <= n
  BY <1>1, Smallest
<1>3. m # 1
  BY DEF Visited
<1>4. PICK p \in Subtrees(nodes) : Loc(p) = m
  BY <1>2, <1>3, ParentFacts
<1>5. p[1] \in DOMAIN nodes /\ p[1] \in Nat /\ m > p[1] /\ m \in Nat
  BY <1>1, <1>4, SubtreeFacts
<1>6. p[1] \in done
  BY <1>2, <1>5
<1> QED
  BY <1>2, <1>4, <1>6 DEF Visited

(* Hence every use was looked at, and every declaration. *)
LEMMA NamesAccepted ==
  FrameInv /\ NamesInv => AcceptedIsDeclared
<1> SUFFICES ASSUME FrameInv, NamesInv, stack = << >>, errs = << >>
             PROVE  /\ \A p \in Uses : \E q \in Declarations : Name(p) = Name(q)
                    /\ \A p, q \in Declarations : Name(p) = Name(q) => p = q
  BY DEF AcceptedIsDeclared, Analysed
<1>1. nodes \in Trees
  BY DEF FrameInv
<1>2. PICK done : Visited(done) /\ Accounted(done)
  BY DEF NamesInv
<1>3. DOMAIN nodes \subseteq done
  BY <1>1, <1>2, AllVisited
<1>4. ASSUME NEW p \in Uses
      PROVE  \E q \in Declarations : Name(p) = Name(q)
  <2>1. p \in Identifiers
    BY DEF Uses
  <2>2. p[1] \in done /\ Name(p) \in Names
    BY <1>1, <1>3, <2>1, NameFacts
  <2>3. declared[Name(p)] # 0
    BY <1>2, <2>2 DEF Accounted
  <2> QED
    BY <2>2, <2>3 DEF NamesInv, FirstsDeclared
<1>5. ASSUME NEW p \in Declarations, NEW q \in Declarations, Name(p) = Name(q)
      PROVE  p = q
  <2>1. Passed(p) /\ Passed(q)
    BY DEF Passed
  <2>2. Loc(p) = Loc(q)
    BY <1>5, <2>1 DEF NamesInv, FirstsDeclared
  <2>3. p \in Identifiers /\ q \in Identifiers
    BY DEF Declarations
  <2> QED
    BY <1>1, <2>2, <2>3, NameLocations
<1> QED
  BY <1>4, <1>5

(***************************************************************************)
(* The analyser walks the whole tree, unless it stops at a variable that   *)
(* is not declared, and then it says so: what it accepts declares all the  *)
(* variables that are named in it, and none twice.                         *)
(***************************************************************************)
THEOREM AcceptedAlwaysDeclared == Spec => []AcceptedIsDeclared
BY NamesAccepted, NamesInvariance, PTL

(***************************************************************************)
(* The analyser reports a use when it has seen all the declarations, and a *)
(* declaration when it has seen the first of that name, and it comes to    *)
(* each place of the tree at most once.                                    *)
(***************************************************************************)
THEOREM ErrorsAlwaysJustified == Spec => []ErrorsJustified
<1>1. FrameInv /\ NamesInv => ErrorsJustified
  BY DEF NamesInv, Accounted, ErrorsJustified
<1> QED
  BY <1>1, NamesInvariance, PTL
=============================================================================
