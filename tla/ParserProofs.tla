---------------------------- MODULE ParserProofs ----------------------------
(***************************************************************************)
(* Proofs about the parser, for every source file: any identifiers and     *)
(* literals, any token in any place, any number of errors.                 *)
(***************************************************************************)
EXTENDS ParserInv, ParserGrammar, SequenceTheorems, FiniteSetTheorems,
        WellFoundedInduction, TLAPS

Kind == TokenTypes \cup NonTerminals

-----------------------------------------------------------------------------
(* The heap operators of module Ast. *)

(* Kinds gives a sequence, as long as the children are many. *)
LEMMA KindsType ==
  ASSUME NEW node \in Node
  PROVE  /\ Kinds(node) \in Seq(Kind)
         /\ Len(Kinds(node)) = Len(node.children)
         /\ \A i \in 1..Len(node.children) :
              Kinds(node)[i] = node.children[i].type
<1> DEFINE n == Len(node.children)
<1>1. node.children \in Seq(Child) /\ n \in Nat
  BY DEF Node
<1>2. \A i \in 1..n : node.children[i].type \in Kind
  <2>1. \A c \in Child : c.type \in Kind
    BY DEF Child, Kind
  <2>2. \A i \in 1..n : node.children[i] \in Child
    BY <1>1, ElementOfSeq
  <2> QED
    BY <2>1, <2>2
<1>3. Kinds(node) \in [1..n -> Kind]
  BY <1>2 DEF Kinds
<1>4. Kinds(node) \in Seq(Kind)
  BY <1>1, <1>3, SeqDef
<1>5. Len(Kinds(node)) = n
  BY <1>1, <1>3, <1>4, LenProperties
<1> QED
  BY <1>4, <1>5 DEF Kinds

(* ast_add_child appends the kind of the child, and changes no other node. *)
LEMMA AddChildKinds ==
  ASSUME NEW heap \in Seq(Node), NEW n \in 1..Len(heap), NEW c \in Child
  PROVE  /\ AddChild(heap, n, c) \in Seq(Node)
         /\ Len(AddChild(heap, n, c)) = Len(heap)
         /\ \A m \in 1..Len(heap) : m # n => AddChild(heap, n, c)[m] = heap[m]
         /\ AddChild(heap, n, c)[n].nt = heap[n].nt
         /\ Kinds(AddChild(heap, n, c)[n]) = Append(Kinds(heap[n]), c.type)
<1> DEFINE new == [nt |-> heap[n].nt,
                   children |-> Append(heap[n].children, c)]
<1>1. heap[n] \in Node
  BY ElementOfSeq
<1>2. heap[n].children \in Seq(Child) /\ heap[n].nt \in NonTerminals
  BY <1>1 DEF Node
<1>3. Append(heap[n].children, c) \in Seq(Child)
  BY <1>2, AppendProperties
<1>4. new \in Node
  BY <1>2, <1>3 DEF Node
<1>5. AddChild(heap, n, c) = [heap EXCEPT ![n] = new]
  BY DEF AddChild
<1>6. /\ AddChild(heap, n, c) \in Seq(Node)
      /\ Len(AddChild(heap, n, c)) = Len(heap)
      /\ \A m \in 1..Len(heap) :
           AddChild(heap, n, c)[m] = IF m = n THEN new ELSE heap[m]
  BY <1>4, <1>5, ExceptSeq
<1>7. Kinds(new) = Append(Kinds(heap[n]), c.type)
  <2> DEFINE ks == Append(Kinds(heap[n]), c.type)
  <2>1. /\ Kinds(heap[n]) \in Seq(Kind)
        /\ Len(Kinds(heap[n])) = Len(heap[n].children)
        /\ \A i \in 1..Len(heap[n].children) :
             Kinds(heap[n])[i] = heap[n].children[i].type
    BY <1>1, KindsType
  <2>2. c.type \in Kind
    BY DEF Child, Kind
  <2>3. /\ ks \in Seq(Kind)
        /\ Len(ks) = Len(heap[n].children) + 1
        /\ \A i \in 1..Len(heap[n].children) :
             ks[i] = heap[n].children[i].type
        /\ ks[Len(heap[n].children) + 1] = c.type
    <3>1. \A s \in Seq(Kind), t \in Kind :
            /\ Append(s, t) \in Seq(Kind)
            /\ Len(Append(s, t)) = Len(s) + 1
            /\ \A i \in 1..Len(s) : Append(s, t)[i] = s[i]
            /\ Append(s, t)[Len(s) + 1] = t
      BY AppendProperties
    <3>2. Kinds(heap[n]) \in Seq(Kind)
      BY <2>1
    <3>3. /\ ks \in Seq(Kind)
          /\ Len(ks) = Len(Kinds(heap[n])) + 1
          /\ \A i \in 1..Len(Kinds(heap[n])) : ks[i] = Kinds(heap[n])[i]
          /\ ks[Len(Kinds(heap[n])) + 1] = c.type
      BY <2>2, <3>1, <3>2
    <3> HIDE DEF ks
    <3> QED
      BY <3>3, <2>1
  <2>4. /\ Kinds(new) \in Seq(Kind)
        /\ Len(Kinds(new)) = Len(new.children)
        /\ \A i \in 1..Len(new.children) : Kinds(new)[i] = new.children[i].type
    BY <1>4, KindsType
  <2>5. /\ Len(new.children) = Len(heap[n].children) + 1
        /\ \A i \in 1..Len(heap[n].children) :
             new.children[i] = heap[n].children[i]
        /\ new.children[Len(heap[n].children) + 1] = c
    BY <1>2, AppendProperties
  <2>6. Len(heap[n].children) \in Nat
    BY <1>2
  <2> HIDE DEF ks, new
  <2>7. Len(Kinds(new)) = Len(ks)
    BY <2>3, <2>4, <2>5
  <2>8. \A i \in 1..Len(Kinds(new)) : Kinds(new)[i] = ks[i]
    BY <2>3, <2>4, <2>5, <2>6
  <2> QED
    BY <2>3, <2>4, <2>7, <2>8, SeqEqual DEF ks
<1>8. AddChild(heap, n, c)[n] = new
  BY <1>6
<1>9. new.nt = heap[n].nt
  OBVIOUS
<1> HIDE DEF new
<1> QED
  BY <1>6, <1>7, <1>8, <1>9
-----------------------------------------------------------------------------
(* Steps that change the running activation only. *)

(* The facts about the stack that every step starts from. *)
LEMMA RunningActivation ==
  ASSUME IInv, stack # << >>
  PROVE  /\ Top \in 1..Len(stack)
         /\ Len(stack) \in Nat
         /\ stack[Top] \in Activation
         /\ Tree \in 1..Len(nodes)
         /\ nodes[Tree] \in Node
         /\ nodes[Tree].nt \in NonTerminals
         /\ tok \in Token
         /\ Pending(Top) = Kinds(nodes[Tree])
         /\ Progress(nodes[Tree].nt, Step, Kinds(nodes[Tree]))
         /\ \A d \in 1..Len(stack) : d < Top => stack[d].node < Tree
<1> USE DEF Top, Tree, Step
<1>1. stack \in Seq(Activation) /\ nodes \in Seq(Node)
  BY DEF IInv, TypeOK
<1>2. Top \in 1..Len(stack) /\ Len(stack) \in Nat
  BY <1>1, EmptySeq
<1>3. stack[Top] \in Activation
  BY <1>1, <1>2, ElementOfSeq
<1>4. Tree \in 1..Len(nodes)
  BY <1>2 DEF IInv, StackOrdered
<1>5. nodes[Tree] \in Node
  BY <1>1, <1>4, ElementOfSeq
<1>6. nodes[Tree].nt \in NonTerminals
  BY <1>5 DEF Node
<1>7. tok \in Token
  BY DEF IInv, TokenAtHand
<1>8. Pending(Top) = Kinds(nodes[Tree])
  BY <1>2 DEF Pending
<1>9. Progress(nodes[Tree].nt, Step, Kinds(nodes[Tree]))
  BY <1>2, <1>8 DEF IInv, FramesProgress
<1>10. \A d \in 1..Len(stack) : d < Top => stack[d].node < Tree
  BY <1>2 DEF IInv, StackOrdered
<1> QED
  BY <1>2, <1>3, <1>4, <1>5, <1>6, <1>7, <1>8, <1>9, <1>10

(* A token of any kind is added to the running activation's node. *)
LEMMA AdvanceStep ==
  ASSUME IInv, stack # << >>,
         NEW c \in Child, NEW k \in Nat,
         nodes' = AddChild(nodes, Tree, c),
         stack' = GoTo(k),
         tok' \in Token, errs' \in Seq(Error),
         Progress(nodes[Tree].nt, k, Append(Kinds(nodes[Tree]), c.type))
  PROVE  IInv'
<1>1. nodes \in Seq(Node) /\ stack \in Seq(Activation)
  BY DEF IInv, TypeOK
<1>2. /\ Top \in 1..Len(stack) /\ Len(stack) \in Nat
      /\ Tree \in 1..Len(nodes)
      /\ \A d \in 1..Len(stack) : d < Top => stack[d].node < Tree
      /\ stack[Top] \in Activation
  BY RunningActivation
<1>3. /\ nodes' \in Seq(Node)
      /\ Len(nodes') = Len(nodes)
      /\ \A m \in 1..Len(nodes) : m # Tree => nodes'[m] = nodes[m]
      /\ nodes'[Tree].nt = nodes[Tree].nt
      /\ Kinds(nodes'[Tree]) = Append(Kinds(nodes[Tree]), c.type)
  BY <1>1, <1>2, AddChildKinds
<1>4. [node |-> Tree, step |-> k] \in Activation
  BY <1>2 DEF Activation, Tree
<1>5. /\ stack' \in Seq(Activation)
      /\ Len(stack') = Len(stack)
      /\ \A d \in 1..Len(stack) :
           stack'[d] = IF d = Top THEN [node |-> Tree, step |-> k] ELSE stack[d]
  BY <1>1, <1>2, <1>4, ExceptSeq DEF GoTo
<1>6. \A d \in 1..Len(stack) : stack'[d].node = stack[d].node
  BY <1>5 DEF Tree
<1>7. TypeOK'
  BY <1>3, <1>5 DEF TypeOK
<1>8. TokenAtHand'
  BY DEF TokenAtHand
<1>9. StackOrdered'
  BY <1>3, <1>5, <1>6 DEF IInv, StackOrdered
<1>10. FramesProgress'
  <2> SUFFICES ASSUME NEW d \in 1..Len(stack)
               PROVE  Progress(nodes'[stack'[d].node].nt, stack'[d].step,
                               Pending(d)')
    BY <1>5 DEF FramesProgress
  <2>1. CASE d = Top
    <3>1. Pending(d)' = Kinds(nodes'[Tree])
      BY <2>1, <1>5 DEF Pending, Top
    <3> QED
      BY <2>1, <3>1, <1>3, <1>5
  <2>2. CASE d # Top
    <3>1. d < Top /\ d + 1 \in 1..Len(stack)
      BY <2>2, <1>2 DEF Top
    <3>2. /\ stack[d].node # Tree
          /\ stack[d].node \in 1..Len(nodes)
          /\ stack[d + 1].node \in 1..Len(nodes)
      BY <3>1, <1>2 DEF IInv, StackOrdered
    <3>3. nodes'[stack[d].node] = nodes[stack[d].node]
      BY <3>2, <1>3
    <3>4. nodes'[stack[d + 1].node].nt = nodes[stack[d + 1].node].nt
      BY <3>2, <1>3
    <3>5. Pending(d)' = Pending(d)
      BY <3>1, <3>3, <3>4, <1>5, <1>6 DEF Pending, Top
    <3>6. Progress(nodes[stack[d].node].nt, stack[d].step, Pending(d))
      BY DEF IInv, FramesProgress
    <3> QED
      BY <2>2, <3>3, <3>5, <3>6, <1>5, <1>6
  <2> QED
    BY <2>1, <2>2
<1>11. TreeReadable'
  <2>1. Finished' = Finished
    <3>1. DOMAIN nodes' = DOMAIN nodes
      BY <1>1, <1>3, LenProperties
    <3>2. DOMAIN stack' = DOMAIN stack /\ DOMAIN stack = 1..Len(stack)
      BY <1>1, <1>5, LenProperties
    <3> QED
      BY <3>1, <3>2, <1>6 DEF Finished
  <2>2. \A n \in Finished : nodes'[n] = nodes[n]
    BY <1>1, <1>2, <1>3, LenProperties DEF Finished, Tree
  <2> QED
    BY <2>1, <2>2 DEF IInv, TreeReadable
<1> QED
  BY <1>7, <1>8, <1>9, <1>10, <1>11 DEF IInv
-----------------------------------------------------------------------------
(* Calls, returns and tokens thrown away. *)

(* ast_make_nonterminal makes a node without children. *)
LEMMA MakeNonterminalType ==
  ASSUME NEW heap \in Seq(Node), NEW nt \in NonTerminals
  PROVE  /\ MakeNonterminal(heap, nt) \in Seq(Node)
         /\ Len(MakeNonterminal(heap, nt)) = Len(heap) + 1
         /\ \A m \in 1..Len(heap) : MakeNonterminal(heap, nt)[m] = heap[m]
         /\ MakeNonterminal(heap, nt)[Len(heap) + 1].nt = nt
         /\ Kinds(MakeNonterminal(heap, nt)[Len(heap) + 1]) = << >>
<1> DEFINE new == [nt |-> nt, children |-> << >>]
<1>1. new \in Node
  BY EmptySeq DEF Node
<1>2. Kinds(new) = << >>
  BY <1>1, KindsType, EmptySeq
<1>3. new.nt = nt
  OBVIOUS
<1>4. MakeNonterminal(heap, nt) = Append(heap, new)
  BY DEF MakeNonterminal
<1> HIDE DEF new
<1>5. /\ Append(heap, new) \in Seq(Node)
      /\ Len(Append(heap, new)) = Len(heap) + 1
      /\ \A m \in 1..Len(heap) : Append(heap, new)[m] = heap[m]
      /\ Append(heap, new)[Len(heap) + 1] = new
  BY <1>1, AppendProperties
<1> QED
  BY <1>2, <1>3, <1>4, <1>5

(* A parse function that is called starts without children. *)
LEMMA StartProgress ==
  ASSUME NEW nt \in NonTerminals
  PROVE  Progress(nt, 1, << >>)
<1>1. \A s \in DOMAIN Script : ScriptProgress(Script[s], 1, << >>)
  BY DEF ScriptProgress, Script, SourceScript, AssignScript, InputScript,
         OutputScript, BranchScript, LoopScript, RepeatScript, ConditionScript
<1>2. VariablesProgress(1, << >>) /\ StatementsProgress(1, << >>)
  BY DEF VariablesProgress, StatementsProgress
<1>3. \A chain : ChainProgress(chain, 1, << >>)
  BY DEF ChainProgress
<1>4. FactorProgress(1, << >>)
  BY DEF FactorProgress
<1> QED
  BY <1>1, <1>2, <1>3, <1>4 DEF Progress

(* A parse function calls another. *)
LEMMA CallStep ==
  ASSUME IInv, stack # << >>,
         NEW nt \in NonTerminals, NEW k \in Nat,
         Call(nt, k),
         Progress(nodes[Tree].nt, k, Append(Kinds(nodes[Tree]), nt))
  PROVE  IInv'
<1> DEFINE caller == [node |-> Tree, step |-> k]
           callee == [node |-> Len(nodes) + 1, step |-> 1]
<1>1. nodes \in Seq(Node) /\ stack \in Seq(Activation)
  BY DEF IInv, TypeOK
<1>2. Len(nodes) \in Nat /\ Len(stack) \in Nat
  BY <1>1, LenProperties
<1>3. /\ Top \in 1..Len(stack) /\ Top = Len(stack)
      /\ Tree \in 1..Len(nodes)
      /\ \A d \in 1..Len(stack) : d < Top => stack[d].node < Tree
  BY RunningActivation DEF Top
<1>4. \A d \in 1..Len(stack) : stack[d].node \in 1..Len(nodes)
  BY DEF IInv, StackOrdered
<1>5. /\ nodes' \in Seq(Node)
      /\ Len(nodes') = Len(nodes) + 1
      /\ \A m \in 1..Len(nodes) : nodes'[m] = nodes[m]
      /\ nodes'[Len(nodes) + 1].nt = nt
      /\ Kinds(nodes'[Len(nodes) + 1]) = << >>
  BY <1>1, MakeNonterminalType DEF Call
<1>6. /\ caller \in Activation /\ caller.node = Tree /\ caller.step = k
      /\ callee \in Activation /\ callee.node = Len(nodes) + 1
      /\ callee.step = 1
  BY <1>2, <1>3 DEF Activation
<1>7. /\ GoTo(k) = [stack EXCEPT ![Top] = caller]
      /\ stack' = Append(GoTo(k), callee)
  BY DEF GoTo, Call
<1> HIDE DEF caller, callee
<1>8. /\ GoTo(k) \in Seq(Activation)
      /\ Len(GoTo(k)) = Len(stack)
      /\ \A d \in 1..Len(stack) :
           GoTo(k)[d] = IF d = Top THEN caller ELSE stack[d]
  BY <1>1, <1>3, <1>6, <1>7, ExceptSeq
<1>9. /\ stack' \in Seq(Activation)
      /\ Len(stack') = Len(stack) + 1
      /\ \A d \in 1..Len(stack) :
           stack'[d] = IF d = Top THEN caller ELSE stack[d]
      /\ stack'[Len(stack) + 1] = callee
  <2>1. /\ Append(GoTo(k), callee) \in Seq(Activation)
        /\ Len(Append(GoTo(k), callee)) = Len(GoTo(k)) + 1
        /\ \A d \in 1..Len(GoTo(k)) : Append(GoTo(k), callee)[d] = GoTo(k)[d]
        /\ Append(GoTo(k), callee)[Len(GoTo(k)) + 1] = callee
    BY <1>6, <1>8, AppendProperties
  <2> QED
    BY <2>1, <1>7, <1>8
<1>10. /\ \A d \in 1..Len(stack) : stack'[d].node = stack[d].node
       /\ stack'[Len(stack) + 1].node = Len(nodes) + 1
  BY <1>6, <1>9 DEF Tree
<1>11. 1..Len(stack') = 1..Len(stack) \cup {Len(stack) + 1}
  BY <1>2, <1>9
<1>12. UNCHANGED <<tok, errs>>
  BY DEF Call
<1>13. TypeOK'
  BY <1>5, <1>9, <1>12 DEF IInv, TypeOK
<1>14. TokenAtHand'
  BY <1>12, RunningActivation DEF TokenAtHand
<1>15. StackOrdered'
  <2>1. ASSUME NEW d \in 1..Len(stack')
        PROVE  stack'[d].node \in 1..Len(nodes')
    <3>1. CASE d \in 1..Len(stack)
      <4>1. stack'[d].node \in 1..Len(nodes)
        BY <3>1, <1>4, <1>10
      <4> QED
        BY <4>1, <1>2, <1>5
    <3>2. CASE d = Len(stack) + 1
      BY <3>2, <1>2, <1>5, <1>10
    <3> QED
      BY <3>1, <3>2, <1>11
  <2>2. ASSUME NEW d \in 1..Len(stack'), NEW e \in 1..Len(stack'), d < e
        PROVE  stack'[d].node < stack'[e].node
    <3>1. d \in 1..Len(stack)
      BY <2>2, <1>2, <1>9
    <3>2. stack'[d].node = stack[d].node /\ stack[d].node \in 1..Len(nodes)
      BY <3>1, <1>4, <1>10
    <3>3. CASE e \in 1..Len(stack)
      <4>1. stack[d].node < stack[e].node
        BY <2>2, <3>1, <3>3 DEF IInv, StackOrdered
      <4> QED
        BY <4>1, <3>2, <3>3, <1>10
    <3>4. CASE e = Len(stack) + 1
      <4>1. stack'[e].node = Len(nodes) + 1
        BY <3>4, <1>10
      <4> QED
        BY <4>1, <3>2, <1>2
    <3> QED
      BY <3>3, <3>4, <1>11
  <2> QED
    BY <2>1, <2>2 DEF StackOrdered
<1>16. FramesProgress'
  <2> SUFFICES ASSUME NEW d \in 1..Len(stack')
               PROVE  Progress(nodes'[stack'[d].node].nt, stack'[d].step,
                               Pending(d)')
    BY DEF FramesProgress
  <2>1. CASE d = Len(stack) + 1
    <3>1. /\ stack'[d].node = Len(nodes) + 1 /\ stack'[d].step = 1
          /\ ~(d < Len(stack'))
      BY <2>1, <1>2, <1>6, <1>9, <1>10
    <3>2. Pending(d)' = << >>
      BY <3>1, <1>5 DEF Pending
    <3> QED
      BY <3>1, <3>2, <1>5, StartProgress
  <2>2. CASE d = Top
    <3>1. /\ stack'[d].node = Tree /\ stack'[d].step = k
          /\ stack'[d + 1].node = Len(nodes) + 1 /\ d < Len(stack')
      BY <2>2, <1>2, <1>3, <1>6, <1>9, <1>10
    <3>2. nodes'[Tree] = nodes[Tree]
      BY <1>3, <1>5
    <3>3. Pending(d)' = Append(Kinds(nodes[Tree]), nt)
      BY <3>1, <3>2, <1>5 DEF Pending
    <3> QED
      BY <3>1, <3>2, <3>3
  <2>3. CASE d \in 1..Len(stack) /\ d # Top
    <3>1. d + 1 \in 1..Len(stack) /\ d < Len(stack) /\ d < Len(stack')
      BY <2>3, <1>2, <1>3, <1>9
    <3>2. stack'[d] = stack[d] /\ stack'[d + 1].node = stack[d + 1].node
      BY <2>3, <3>1, <1>9, <1>10
    <3>3. /\ nodes'[stack[d].node] = nodes[stack[d].node]
          /\ nodes'[stack[d + 1].node] = nodes[stack[d + 1].node]
      BY <2>3, <3>1, <1>4, <1>5
    <3>4. Pending(d)' = Pending(d)
      BY <3>1, <3>2, <3>3 DEF Pending
    <3>5. Progress(nodes[stack[d].node].nt, stack[d].step, Pending(d))
      BY <2>3 DEF IInv, FramesProgress
    <3> QED
      BY <3>2, <3>3, <3>4, <3>5
  <2> QED
    BY <2>1, <2>2, <2>3, <1>11
<1>17. TreeReadable'
  <2>1. ASSUME NEW n \in Finished'
        PROVE  n \in Finished /\ nodes'[n] = nodes[n]
    <3>1. /\ DOMAIN nodes = 1..Len(nodes) /\ DOMAIN nodes' = 1..Len(nodes')
          /\ DOMAIN stack = 1..Len(stack) /\ DOMAIN stack' = 1..Len(stack')
      BY <1>1, <1>5, <1>9, LenProperties
    <3>2. n \in 1..Len(nodes')
      BY <3>1 DEF Finished
    <3>3. \A d \in 1..Len(stack') : n # stack'[d].node
      BY <3>1 DEF Finished
    <3>4. n # Len(nodes) + 1
      BY <3>3, <1>10, <1>11
    <3>5. n \in 1..Len(nodes)
      BY <3>2, <3>4, <1>2, <1>5
    <3>6. \A d \in 1..Len(stack) : n # stack[d].node
      BY <3>3, <1>10, <1>11
    <3> QED
      BY <3>1, <3>5, <3>6, <1>5 DEF Finished
  <2> QED
    BY <2>1 DEF IInv, TreeReadable
<1> QED
  BY <1>13, <1>14, <1>15, <1>16, <1>17 DEF IInv

(* A parse function returns a node that the semantic analyser can read. *)
LEMMA ReturnStep ==
  ASSUME IInv, stack # << >>, Return, Readable(nodes[Tree])
  PROVE  IInv'
<1> DEFINE c == Subtree(nodes[Tree].nt, Tree)
           caller == stack[Top - 1].node
<1>1. nodes \in Seq(Node) /\ stack \in Seq(Activation)
  BY DEF IInv, TypeOK
<1>2. Len(nodes) \in Nat /\ Len(stack) \in Nat
  BY <1>1, LenProperties
<1>3. /\ Top \in 1..Len(stack) /\ Top = Len(stack)
      /\ Tree \in 1..Len(nodes)
      /\ \A d \in 1..Len(stack) : d < Top => stack[d].node < Tree
      /\ nodes[Tree].nt \in NonTerminals
  BY RunningActivation DEF Top
<1>4. \A d \in 1..Len(stack) : stack[d].node \in 1..Len(nodes)
  BY DEF IInv, StackOrdered
<1>5. c \in Child /\ c.type = nodes[Tree].nt
  BY <1>2, <1>3 DEF Child, Subtree, Attrs
<1>6. /\ stack' = SubSeq(stack, 1, Top - 1)
      /\ nodes' = IF Top = 1 THEN nodes ELSE AddChild(nodes, caller, c)
      /\ UNCHANGED <<tok, errs>>
  BY DEF Return
<1> HIDE DEF c
<1>7. /\ stack' \in Seq(Activation)
      /\ Len(stack') = Len(stack) - 1
      /\ \A d \in 1..Len(stack') : stack'[d] = stack[d]
  <2>1. \A d \in 1..(Top - 1) : stack[d] \in Activation
    BY <1>1, <1>2, <1>3, ElementOfSeq
  <2>2. /\ SubSeq(stack, 1, Top - 1) \in Seq(Activation)
        /\ Len(SubSeq(stack, 1, Top - 1)) =
             IF 1 <= Top - 1 THEN (Top - 1) - 1 + 1 ELSE 0
        /\ \A d \in 1..((Top - 1) - 1 + 1) :
             SubSeq(stack, 1, Top - 1)[d] = stack[1 + d - 1]
    BY <2>1, <1>2, <1>3, SubSeqProperties
  <2> HIDE DEF caller
  <2>3. Len(stack') = Len(stack) - 1
    BY <2>2, <1>2, <1>3, <1>6
  <2> QED
    BY <2>2, <2>3, <1>2, <1>3, <1>6
<1>8. \A d \in 1..Len(stack') : d \in 1..Len(stack) /\ d < Top
  BY <1>2, <1>3, <1>7
<1>9. /\ nodes' \in Seq(Node)
      /\ Len(nodes') = Len(nodes)
      /\ \A m \in 1..Len(nodes) : nodes'[m].nt = nodes[m].nt
      /\ \A m \in 1..Len(nodes) :
           (Top = 1 \/ m # caller) => nodes'[m] = nodes[m]
      /\ Top > 1 => /\ caller \in 1..Len(nodes) /\ caller < Tree
                    /\ Kinds(nodes'[caller]) =
                         Append(Kinds(nodes[caller]), nodes[Tree].nt)
  <2>1. CASE Top = 1
    BY <2>1, <1>1, <1>6
  <2>2. CASE Top > 1
    <3>1. Top - 1 \in 1..Len(stack) /\ Top - 1 < Top
      BY <2>2, <1>2, <1>3
    <3>2. caller \in 1..Len(nodes) /\ caller < Tree
      BY <3>1, <1>3, <1>4
    <3>3. nodes' = AddChild(nodes, caller, c)
      BY <2>2, <1>6
    <3> HIDE DEF caller
    <3>4. /\ nodes' \in Seq(Node)
          /\ Len(nodes') = Len(nodes)
          /\ \A m \in 1..Len(nodes) : m # caller => nodes'[m] = nodes[m]
          /\ nodes'[caller].nt = nodes[caller].nt
          /\ Kinds(nodes'[caller]) = Append(Kinds(nodes[caller]), c.type)
      BY <3>2, <3>3, <1>1, <1>5, AddChildKinds
    <3>5. \A m \in 1..Len(nodes) : nodes'[m].nt = nodes[m].nt
      BY <3>4
    <3> QED
      BY <2>2, <3>2, <3>4, <3>5, <1>2, <1>3, <1>5
  <2> QED
    BY <2>1, <2>2, <1>2, <1>3
<1>10. TypeOK'
  BY <1>6, <1>7, <1>9 DEF IInv, TypeOK
<1>11. TokenAtHand'
  BY <1>6, RunningActivation DEF TokenAtHand
<1>12. StackOrdered'
  BY <1>4, <1>7, <1>8, <1>9 DEF IInv, StackOrdered
<1>13. FramesProgress'
  <2> SUFFICES ASSUME NEW d \in 1..Len(stack')
               PROVE  Progress(nodes'[stack'[d].node].nt, stack'[d].step,
                               Pending(d)')
    BY DEF FramesProgress
  <2>1. d \in 1..Len(stack) /\ stack'[d] = stack[d]
    BY <1>7, <1>8
  <2>2. nodes'[stack[d].node].nt = nodes[stack[d].node].nt
    BY <2>1, <1>4, <1>9
  <2>3. Progress(nodes[stack[d].node].nt, stack[d].step, Pending(d))
    BY <2>1 DEF IInv, FramesProgress
  <2>4. Pending(d)' = Pending(d)
    <3>1. CASE d = Len(stack')
      <4>1. d = Top - 1 /\ d + 1 = Top /\ Top > 1 /\ d < Len(stack)
        BY <3>1, <2>1, <1>2, <1>3, <1>7
      <4>2. Pending(d) = Append(Kinds(nodes[caller]), nodes[Tree].nt)
        BY <4>1 DEF Pending, Tree
      <4>3. Pending(d)' = Kinds(nodes'[caller])
        BY <3>1, <4>1, <2>1, <1>7 DEF Pending
      <4> QED
        BY <4>1, <4>2, <4>3, <1>9
    <3>2. CASE d < Len(stack')
      <4>1. d + 1 \in 1..Len(stack') /\ d < Top - 1 /\ d < Len(stack)
        BY <3>2, <2>1, <1>2, <1>3, <1>7
      <4>2. d + 1 \in 1..Len(stack) /\ stack'[d + 1] = stack[d + 1]
        BY <4>1, <1>7, <1>8
      <4>3. stack[d].node < caller
        <5>1. Top - 1 \in 1..Len(stack)
          BY <4>1, <2>1, <1>2, <1>3
        <5>2. \A e \in 1..Len(stack) : d < e => stack[d].node < stack[e].node
          BY <2>1 DEF IInv, StackOrdered
        <5> QED
          BY <4>1, <5>1, <5>2
      <4>4. nodes'[stack[d].node] = nodes[stack[d].node]
        <5>1. stack[d].node # caller
          BY <4>3, <2>1, <1>2, <1>4
        <5> QED
          BY <5>1, <2>1, <1>4, <1>9
      <4>5. nodes'[stack[d + 1].node].nt = nodes[stack[d + 1].node].nt
        BY <4>2, <1>4, <1>9
      <4> QED
        BY <3>2, <4>1, <4>2, <4>4, <4>5, <2>1 DEF Pending
    <3> QED
      BY <3>1, <3>2, <1>2, <1>7
  <2> QED
    BY <2>1, <2>2, <2>3, <2>4
<1>14. TreeReadable'
  <2>1. ASSUME NEW n \in Finished'
        PROVE  Readable(nodes'[n])
    <3>1. /\ DOMAIN nodes = 1..Len(nodes) /\ DOMAIN nodes' = 1..Len(nodes')
          /\ DOMAIN stack = 1..Len(stack) /\ DOMAIN stack' = 1..Len(stack')
      BY <1>1, <1>7, <1>9, LenProperties
    <3>2. n \in 1..Len(nodes) /\ \A d \in 1..Len(stack') : n # stack[d].node
      BY <3>1, <1>7, <1>9 DEF Finished
    <3>3. nodes'[n] = nodes[n]
      <4>1. Top > 1 => n # caller
        BY <3>2, <1>2, <1>3, <1>7
      <4> QED
        BY <3>2, <4>1, <1>2, <1>3, <1>9
    <3>4. CASE n = Tree
      BY <3>3, <3>4
    <3>5. CASE n # Tree
      <4>1. \A d \in 1..Len(stack) : n # stack[d].node
        BY <3>2, <3>5, <1>2, <1>3, <1>7 DEF Tree
      <4>2. n \in Finished
        BY <4>1, <3>1, <3>2 DEF Finished
      <4> QED
        BY <4>2, <3>3 DEF IInv, TreeReadable
    <3> QED
      BY <3>4, <3>5
  <2> QED
    BY <2>1 DEF TreeReadable
<1> QED
  BY <1>10, <1>11, <1>12, <1>13, <1>14 DEF IInv
-----------------------------------------------------------------------------
(* Tokens: what lex delivers is a token, and reporting keeps the error list. *)

(* lex() returns a token, and the errors remain errors. *)
LEMMA NextTokenType ==
  ASSUME NEW es \in Seq(Error), tok \in Token \cup {NoToken}, NextToken(es)
  PROVE  tok' \in Token /\ errs' \in Seq(Error)
<1>1. CASE tok.type = "EOF" /\ errs' = es /\ tok' = tok
  <2>1. tok # NoToken
    BY <1>1, AttrAssumption DEF NoToken, TokenTypes
  <2> QED
    BY <1>1, <2>1
<1>2. CASE /\ tok.type # "EOF"
           /\ \E bad \in LexicalErrors :
                /\ errs' = es \o [i \in 1..bad |-> [kind |-> "INVALID_TOKEN",
                                                   loc |-> tok.loc + i]]
                /\ \E x \in Following(tok.loc + bad + 1, errs') :
                     tok' = [type |-> x.type, attr |-> x.attr,
                             loc |-> tok.loc + bad + 1]
  <2>1. PICK bad \in LexicalErrors :
          /\ errs' = es \o [i \in 1..bad |-> [kind |-> "INVALID_TOKEN",
                                             loc |-> tok.loc + i]]
          /\ \E x \in Following(tok.loc + bad + 1, errs') :
               tok' = [type |-> x.type, attr |-> x.attr,
                       loc |-> tok.loc + bad + 1]
    BY <1>2
  <2> DEFINE invalid == [i \in 1..bad |-> [kind |-> "INVALID_TOKEN",
                                           loc |-> tok.loc + i]]
  <2>2. bad \in Nat /\ tok.loc \in Nat
    BY ParserAssumption DEF Token, NoToken
  <2>3. invalid \in Seq(Error)
    <3>1. invalid \in [1..bad -> Error]
      BY <2>2 DEF Error
    <3> QED
      BY <2>2, <3>1, SeqDef
  <2>4. errs' \in Seq(Error)
    <3> HIDE DEF invalid
    <3>1. errs' = es \o invalid
      BY <2>1 DEF invalid
    <3> QED
      BY <2>3, <3>1, ConcatProperties
  <2>5. PICK x \in Alphabet \cup {Eof} :
          tok' = [type |-> x.type, attr |-> x.attr, loc |-> tok.loc + bad + 1]
    BY <2>1 DEF Following
  <2>6. x.type \in TokenTypes /\ x.attr \in Attrs
    BY <2>5, ParserAssumption DEF Lexeme, Eof, TokenTypes, Attrs
  <2> QED
    BY <2>2, <2>4, <2>5, <2>6 DEF Token
<1> QED
  BY <1>1, <1>2 DEF NextToken

(* So they do when the parser reports one. *)
LEMMA ReportedType ==
  ASSUME IInv, stack # << >>
  PROVE  Reported \in Seq(Error)
<1>1. errs \in Seq(Error) /\ tok.loc \in Nat
  BY RunningActivation DEF IInv, TypeOK, Token
<1>2. [kind |-> "UNEXPECTED_TOKEN", loc |-> tok.loc] \in Error
  BY <1>1 DEF Error
<1> QED
  BY <1>1, <1>2, AppendProperties DEF Reported

(* The lookahead token is thrown away. *)
LEMMA SkipStep ==
  ASSUME IInv, stack # << >>, SkipToken
  PROVE  IInv'
<1>1. tok' \in Token /\ errs' \in Seq(Error)
  BY RunningActivation, ReportedType, NextTokenType DEF SkipToken
<1>2. UNCHANGED <<nodes, stack>>
  BY DEF SkipToken
<1>3. FramesProgress' = FramesProgress
  BY <1>2 DEF FramesProgress, Pending
<1> QED
  BY <1>1, <1>2, <1>3 DEF IInv, TypeOK, TokenAtHand, StackOrdered,
                          TreeReadable, Finished

(* The lookahead token is added to the tree. *)
LEMMA AcceptStep ==
  ASSUME IInv, stack # << >>,
         NEW types, NEW k \in Nat,
         AcceptToken(types, k),
         \A t \in types :
           Progress(nodes[Tree].nt, k, Append(Kinds(nodes[Tree]), t))
  PROVE  IInv'
<1>1. tok \in Token /\ errs \in Seq(Error)
  BY RunningActivation DEF IInv, TypeOK
<1>2. Terminal(tok) \in Child /\ Terminal(tok).type = tok.type
  BY <1>1 DEF Terminal, Child, Token
<1>3. tok' \in Token /\ errs' \in Seq(Error)
  BY <1>1, NextTokenType DEF AcceptToken
<1> QED
  BY <1>2, <1>3, AdvanceStep DEF AcceptToken

(* A token that error recovery invents is added to the tree. *)
LEMMA ReplaceStep ==
  ASSUME IInv, stack # << >>,
         NEW type \in TokenTypes, NEW k \in Nat,
         ReplaceToken(type, k),
         tok' \in Token, errs' \in Seq(Error),
         Progress(nodes[Tree].nt, k, Append(Kinds(nodes[Tree]), type))
  PROVE  IInv'
<1>1. tok.loc \in Nat
  BY RunningActivation DEF Token
<1>2. /\ Terminal(Invented(type)) \in Child
      /\ Terminal(Invented(type)).type = type
  BY <1>1 DEF Terminal, Invented, Child, Attrs
<1> QED
  BY <1>2, AdvanceStep DEF ReplaceToken

(* One or the other. *)
LEMMA ExpectStep ==
  ASSUME IInv, stack # << >>,
         NEW types, NEW default \in TokenTypes, NEW k \in Nat,
         ExpectToken(types, default, k),
         \A t \in types \cup {default} :
           Progress(nodes[Tree].nt, k, Append(Kinds(nodes[Tree]), t))
  PROVE  IInv'
<1>1. CASE AcceptToken(types, k)
  BY <1>1, AcceptStep
<1>2. CASE ReplaceToken(default, k) /\ errs' = Reported /\ UNCHANGED tok
  <2>1. tok' \in Token /\ errs' \in Seq(Error)
    BY <1>2, RunningActivation, ReportedType
  <2> QED
    BY <1>2, <2>1, ReplaceStep
<1> QED
  BY <1>1, <1>2 DEF ExpectToken
-----------------------------------------------------------------------------
(* The children of a node, one more at a time, up to a readable node. *)

(* The kinds of the children, and the one that is appended. *)
LEMMA AppendKind ==
  ASSUME NEW ks \in Seq(Kind), NEW x \in Kind
  PROVE  /\ Len(ks) \in Nat
         /\ Append(ks, x) \in Seq(Kind)
         /\ Len(Append(ks, x)) = Len(ks) + 1
         /\ \A i \in 1..Len(ks) : Append(ks, x)[i] = ks[i]
         /\ Append(ks, x)[Len(ks) + 1] = x
BY LenProperties, AppendProperties

(* A fixed sequence of tokens goes on with the one expected. *)
LEMMA ScriptAdvance ==
  ASSUME NEW nt \in DOMAIN Script, NEW k, NEW ks \in Seq(Kind),
         ScriptProgress(Script[nt], k, ks), k <= Len(Script[nt]),
         NEW x \in Kind, x \in Expected(Script[nt][k])
  PROVE  ScriptProgress(Script[nt], k + 1, Append(ks, x))
<1> DEFINE script == Script[nt]
<1>1. Len(script) \in Nat
  BY DEF Script, SourceScript, AssignScript, InputScript, OutputScript,
         BranchScript, LoopScript, RepeatScript, ConditionScript
<1> HIDE DEF script
<1>2. /\ k \in 1..(Len(script) + 1) /\ k <= Len(script)
      /\ Len(ks) = k - 1
      /\ \A i \in 1..Len(ks) : ks[i] \in Expected(script[i])
      /\ x \in Expected(script[k])
  BY DEF script, ScriptProgress
<1>3. /\ Len(Append(ks, x)) = Len(ks) + 1
      /\ \A i \in 1..Len(ks) : Append(ks, x)[i] = ks[i]
      /\ Append(ks, x)[Len(ks) + 1] = x
  BY AppendKind
<1>4. ScriptProgress(script, k + 1, Append(ks, x))
  BY <1>1, <1>2, <1>3 DEF ScriptProgress
<1> QED
  BY <1>4 DEF script

(* Each script under its own name. *)
LEMMA ScriptNames ==
  /\ DOMAIN Script = {"source", "assign", "input", "output", "branch", "loop",
                      "repeat", "condition"}
  /\ Script["source"] = SourceScript /\ Script["assign"] = AssignScript
  /\ Script["input"] = InputScript   /\ Script["output"] = OutputScript
  /\ Script["branch"] = BranchScript /\ Script["loop"] = LoopScript
  /\ Script["repeat"] = RepeatScript /\ Script["condition"] = ConditionScript
BY DEF Script

(* A function that has executed its whole script has a readable node. *)
LEMMA ScriptReadable ==
  ASSUME NEW node \in Node, node.nt \in DOMAIN Script, NEW k,
         ScriptProgress(Script[node.nt], k, Kinds(node)),
         k > Len(Script[node.nt])
  PROVE  Readable(node)
<1> DEFINE ks == Kinds(node)
<1>1. ks \in Seq(Kind) /\ DOMAIN ks = 1..Len(ks)
  BY KindsType, LenProperties
<1>2. \A i \in 1..Len(Script[node.nt]) :
        i \in DOMAIN ks /\ ks[i] \in Expected(Script[node.nt][i])
  <2>1. Len(Script[node.nt]) \in Nat
    BY DEF Script, SourceScript, AssignScript, InputScript, OutputScript,
           BranchScript, LoopScript, RepeatScript, ConditionScript
  <2> QED
    BY <1>1, <2>1 DEF ScriptProgress
<1> HIDE DEF ks
<1>3. CASE node.nt = "source"
  <2>1. /\ Len(SourceScript) = 5
        /\ SourceScript[2] = "variables"
        /\ SourceScript[4] = "statements"
    BY DEF SourceScript
  <2>2. \A i \in 1..5 : i \in DOMAIN ks /\ ks[i] \in Expected(SourceScript[i])
    BY <1>2, <1>3, <2>1, ScriptNames
  <2>3. /\ 2 \in DOMAIN ks /\ ks[2] \in Expected("variables")
        /\ 4 \in DOMAIN ks /\ ks[4] \in Expected("statements")
    BY <2>1, <2>2
  <2> QED
    BY <1>3, <2>3 DEF Readable, Has, Expected, ks
<1>4. CASE node.nt = "assign"
  <2>1. /\ Len(AssignScript) = 4
        /\ AssignScript[1] = "IDENTIFIER"
        /\ AssignScript[3] = "expression"
    BY DEF AssignScript
  <2>2. \A i \in 1..4 : i \in DOMAIN ks /\ ks[i] \in Expected(AssignScript[i])
    BY <1>2, <1>4, <2>1, ScriptNames
  <2>3. /\ 1 \in DOMAIN ks /\ ks[1] \in Expected("IDENTIFIER")
        /\ 3 \in DOMAIN ks /\ ks[3] \in Expected("expression")
    BY <2>1, <2>2
  <2> QED
    BY <1>4, <2>3 DEF Readable, Has, Expected, ks
<1>5. CASE node.nt = "input"
  <2>1. /\ Len(InputScript) = 3
        /\ InputScript[2] = "IDENTIFIER"
    BY DEF InputScript
  <2>2. \A i \in 1..3 : i \in DOMAIN ks /\ ks[i] \in Expected(InputScript[i])
    BY <1>2, <1>5, <2>1, ScriptNames
  <2>3. /\ 2 \in DOMAIN ks /\ ks[2] \in Expected("IDENTIFIER")
    BY <2>1, <2>2
  <2> QED
    BY <1>5, <2>3 DEF Readable, Has, Expected, ks
<1>6. CASE node.nt = "output"
  <2>1. /\ Len(OutputScript) = 3
        /\ OutputScript[2] = "expression"
    BY DEF OutputScript
  <2>2. \A i \in 1..3 : i \in DOMAIN ks /\ ks[i] \in Expected(OutputScript[i])
    BY <1>2, <1>6, <2>1, ScriptNames
  <2>3. /\ 2 \in DOMAIN ks /\ ks[2] \in Expected("expression")
    BY <2>1, <2>2
  <2> QED
    BY <1>6, <2>3 DEF Readable, Has, Expected, ks
<1>7. CASE node.nt = "branch"
  <2>1. /\ Len(BranchScript) = 9
        /\ BranchScript[3] = "condition"
        /\ BranchScript[6] = "statements"
        /\ BranchScript[8] = "statements"
    BY DEF BranchScript
  <2>2. \A i \in 1..9 : i \in DOMAIN ks /\ ks[i] \in Expected(BranchScript[i])
    BY <1>2, <1>7, <2>1, ScriptNames
  <2>3. /\ 3 \in DOMAIN ks /\ ks[3] \in Expected("condition")
        /\ 6 \in DOMAIN ks /\ ks[6] \in Expected("statements")
        /\ 8 \in DOMAIN ks /\ ks[8] \in Expected("statements")
    BY <2>1, <2>2
  <2> QED
    BY <1>7, <2>3 DEF Readable, Has, Expected, ks
<1>8. CASE node.nt = "loop"
  <2>1. /\ Len(LoopScript) = 7
        /\ LoopScript[3] = "condition"
        /\ LoopScript[6] = "statements"
    BY DEF LoopScript
  <2>2. \A i \in 1..7 : i \in DOMAIN ks /\ ks[i] \in Expected(LoopScript[i])
    BY <1>2, <1>8, <2>1, ScriptNames
  <2>3. /\ 3 \in DOMAIN ks /\ ks[3] \in Expected("condition")
        /\ 6 \in DOMAIN ks /\ ks[6] \in Expected("statements")
    BY <2>1, <2>2
  <2> QED
    BY <1>8, <2>3 DEF Readable, Has, Expected, ks
<1>9. CASE node.nt = "repeat"
  <2>1. /\ Len(RepeatScript) = 6
        /\ RepeatScript[2] = "statements"
        /\ RepeatScript[5] = "condition"
    BY DEF RepeatScript
  <2>2. \A i \in 1..6 : i \in DOMAIN ks /\ ks[i] \in Expected(RepeatScript[i])
    BY <1>2, <1>9, <2>1, ScriptNames
  <2>3. /\ 2 \in DOMAIN ks /\ ks[2] \in Expected("statements")
        /\ 5 \in DOMAIN ks /\ ks[5] \in Expected("condition")
    BY <2>1, <2>2
  <2> QED
    BY <1>9, <2>3 DEF Readable, Has, Expected, ks
<1>10. CASE node.nt = "condition"
  <2>1. /\ Len(ConditionScript) = 3
        /\ ConditionScript[1] = "expression"
        /\ ConditionScript[2] = "RELOP"
        /\ ConditionScript[3] = "expression"
    BY DEF ConditionScript
  <2>2. \A i \in 1..3 : i \in DOMAIN ks /\ ks[i] \in Expected(ConditionScript[i])
    BY <1>2, <1>10, <2>1, ScriptNames
  <2>3. /\ 1 \in DOMAIN ks /\ ks[1] \in Expected("expression")
        /\ 2 \in DOMAIN ks /\ ks[2] \in Expected("RELOP")
        /\ 3 \in DOMAIN ks /\ ks[3] \in Expected("expression")
    BY <2>1, <2>2
  <2> QED
    BY <1>10, <2>3 DEF Readable, Has, Expected, ks
<1> QED
  BY <1>3, <1>4, <1>5, <1>6, <1>7, <1>8, <1>9, <1>10, ScriptNames

(* What a script is made of. *)
LEMMA ScriptSymbols ==
  ASSUME NEW nt \in DOMAIN Script, NEW k \in 1..Len(Script[nt])
  PROVE  Script[nt][k] \in Kind \cup {"RELOP"}
<1> USE DEF Kind, TokenTypes, NonTerminals
<1>1. \A i \in 1..Len(SourceScript) : SourceScript[i] \in Kind
  BY DEF SourceScript
<1>2. \A i \in 1..Len(AssignScript) : AssignScript[i] \in Kind
  BY DEF AssignScript
<1>3. \A i \in 1..Len(InputScript) : InputScript[i] \in Kind
  BY DEF InputScript
<1>4. \A i \in 1..Len(OutputScript) : OutputScript[i] \in Kind
  BY DEF OutputScript
<1>5. \A i \in 1..Len(BranchScript) : BranchScript[i] \in Kind
  BY DEF BranchScript
<1>6. \A i \in 1..Len(LoopScript) : LoopScript[i] \in Kind
  BY DEF LoopScript
<1>7. \A i \in 1..Len(RepeatScript) : RepeatScript[i] \in Kind
  BY DEF RepeatScript
<1>8. \A i \in 1..Len(ConditionScript) :
        ConditionScript[i] \in Kind \cup {"RELOP"}
  BY DEF ConditionScript
<1> QED
  BY <1>1, <1>2, <1>3, <1>4, <1>5, <1>6, <1>7, <1>8, ScriptNames

(* The four parts of a declaration. *)
LEMMA DeclarationNames ==
  /\ Declaration[1] = "IDENTIFIER" /\ Declaration[2] = "COLON"
  /\ Declaration[3] = "INT"        /\ Declaration[4] = "SEMICOLON"
BY DEF Declaration

(* The declarations go on with the part expected. *)
LEMMA VariablesAdvance ==
  ASSUME NEW k, NEW ks \in Seq(Kind), VariablesProgress(k, ks),
         NEW x \in Kind, x = Declaration[k]
  PROVE  VariablesProgress((k % 4) + 1, Append(ks, x))
<1>1. /\ k \in 1..4 /\ Len(ks) % 4 = k - 1
      /\ \A i \in 1..Len(ks) : ks[i] = Declaration[((i - 1) % 4) + 1]
  BY DEF VariablesProgress
<1>2. /\ Len(ks) \in Nat
      /\ Len(Append(ks, x)) = Len(ks) + 1
      /\ \A i \in 1..Len(ks) : Append(ks, x)[i] = ks[i]
      /\ Append(ks, x)[Len(ks) + 1] = x
  BY AppendKind
<1> DEFINE next == (k % 4) + 1
<1>3. next \in 1..4 /\ (Len(ks) + 1) % 4 = next - 1
  BY <1>1, <1>2
<1>4. ASSUME NEW i \in 1..(Len(ks) + 1)
      PROVE  Append(ks, x)[i] = Declaration[((i - 1) % 4) + 1]
  <2>1. CASE i \in 1..Len(ks)
    BY <2>1, <1>1, <1>2
  <2>2. CASE i = Len(ks) + 1
    <3>1. ((i - 1) % 4) + 1 = k
      BY <2>2, <1>1, <1>2
    <3> QED
      BY <2>2, <3>1, <1>2
  <2> QED
    BY <2>1, <2>2, <1>2
<1> HIDE DEF next
<1>5. VariablesProgress(next, Append(ks, x))
  BY <1>2, <1>3, <1>4 DEF VariablesProgress
<1> QED
  BY <1>5 DEF next

(* At a multiple of four parts they can be read. *)
LEMMA VariablesDone ==
  ASSUME NEW ks \in Seq(Kind), VariablesProgress(1, ks)
  PROVE  VariablesReadable(ks)
<1>1. /\ Len(ks) % 4 = 0 /\ Len(ks) \in Nat /\ DOMAIN ks = 1..Len(ks)
      /\ \A i \in 1..Len(ks) : ks[i] = Declaration[((i - 1) % 4) + 1]
  BY LenProperties DEF VariablesProgress
<1>2. ASSUME NEW i \in 1..Len(ks), i % 4 = 1
      PROVE  ks[i] = "IDENTIFIER" /\ i + 2 \in 1..Len(ks) /\ ks[i + 2] = "INT"
  <2>1. (i - 1) % 4 = 0 /\ i + 2 \in 1..Len(ks) /\ (i + 2 - 1) % 4 = 2
    BY <1>1, <1>2
  <2> QED
    BY <2>1, <1>1, DeclarationNames
<1> QED
  BY <1>1, <1>2 DEF VariablesReadable, Has, TokenTypes

(* One more operand or operator. *)
LEMMA ChainAdvance ==
  ASSUME NEW nt \in DOMAIN ChainOperand, NEW k, NEW ks \in Seq(Kind),
         ChainProgress(nt, k, ks),
         NEW x \in Kind,
         k = 1 => x = ChainOperand[nt],
         k = 2 => x \in ChainOperators[nt]
  PROVE  ChainProgress(nt, 3 - k, Append(ks, x))
<1> DEFINE at(i) == IF i % 2 = 1 THEN {ChainOperand[nt]} ELSE ChainOperators[nt]
<1>1. /\ k \in 1..2 /\ Len(ks) % 2 = k - 1
      /\ \A i \in 1..Len(ks) : ks[i] \in at(i)
  BY DEF ChainProgress
<1>2. /\ Len(ks) \in Nat
      /\ Len(Append(ks, x)) = Len(ks) + 1
      /\ \A i \in 1..Len(ks) : Append(ks, x)[i] = ks[i]
      /\ Append(ks, x)[Len(ks) + 1] = x
  BY AppendKind
<1>3. 3 - k \in 1..2 /\ (Len(ks) + 1) % 2 = (3 - k) - 1
  BY <1>1, <1>2
<1>4. x \in at(Len(ks) + 1)
  BY <1>1, <1>2, <1>3
<1> HIDE DEF at
<1>5. \A i \in 1..(Len(ks) + 1) : Append(ks, x)[i] \in at(i)
  BY <1>1, <1>2, <1>4
<1> QED
  BY <1>2, <1>3, <1>5 DEF ChainProgress, at

(* Behind an operand a chain of operands can be read. *)
LEMMA ChainDone ==
  ASSUME NEW node \in Node, node.nt \in DOMAIN ChainOperand,
         ChainProgress(node.nt, 2, Kinds(node))
  PROVE  Readable(node)
<1> DEFINE ks == Kinds(node)
<1>1. DOMAIN ks = 1..Len(ks)
  BY KindsType, LenProperties
<1>2. ChainReadable(ks, ChainOperand[node.nt], ChainOperators[node.nt])
  BY <1>1 DEF ChainProgress, ChainReadable
<1> HIDE DEF ks
<1>3. CASE node.nt = "expression"
  BY <1>2, <1>3 DEF Readable, ChainOperand, ChainOperators, ks
<1>4. CASE node.nt = "term"
  BY <1>2, <1>4 DEF Readable, ChainOperand, ChainOperators, ks
<1> QED
  BY <1>3, <1>4 DEF ChainOperand

(* Each kind of node has one kind of progress. *)
LEMMA ProgressCases ==
  ASSUME NEW nt, NEW k, NEW ks
  PROVE  /\ nt \in DOMAIN Script =>
              (Progress(nt, k, ks) <=> ScriptProgress(Script[nt], k, ks))
         /\ nt = "variables" => (Progress(nt, k, ks) <=> VariablesProgress(k, ks))
         /\ nt = "statements" => (Progress(nt, k, ks) <=> StatementsProgress(k, ks))
         /\ nt \in DOMAIN ChainOperand =>
              (Progress(nt, k, ks) <=> ChainProgress(nt, k, ks))
         /\ nt = "factor" => (Progress(nt, k, ks) <=> FactorProgress(k, ks))
<1>1. DOMAIN ChainOperand = {"expression", "term"}
  BY DEF ChainOperand
<1> QED
  BY <1>1, ScriptNames DEF Progress

-----------------------------------------------------------------------------
(* Each parse function preserves the invariant. *)

(* The functions that follow a fixed sequence of tokens. *)
LEMMA ParseScriptStep ==
  ASSUME IInv, ParseScript
  PROVE  IInv'
<1>1. PICK nt \in DOMAIN Script :
        /\ In(nt)
        /\ \/ Step > Len(Script[nt]) /\ Return
           \/ /\ Step <= Len(Script[nt])
              /\ LET x == Script[nt][Step]
                 IN \/ x \in NonTerminals /\ Call(x, Step + 1)
                    \/ x \notin NonTerminals
                       /\ ExpectToken(Expected(x), Default(x), Step + 1)
  BY DEF ParseScript
<1> DEFINE ks == Kinds(nodes[Tree])
<1>2. stack # << >> /\ nodes[Tree].nt = nt
  BY <1>1 DEF In
<1>3. nodes[Tree] \in Node /\ ks \in Seq(Kind)
  BY <1>2, RunningActivation, KindsType
<1>4. ScriptProgress(Script[nt], Step, ks)
  BY <1>2, RunningActivation, ProgressCases
<1>5. Step \in Nat /\ Step >= 1
  BY <1>2, RunningActivation, <1>4 DEF Activation, Step, ScriptProgress
<1>6. ASSUME NEW x \in Kind, Step <= Len(Script[nt]),
             x \in Expected(Script[nt][Step])
      PROVE  Progress(nodes[Tree].nt, Step + 1, Append(ks, x))
  BY <1>2, <1>3, <1>4, <1>6, ScriptAdvance, ProgressCases
<1> HIDE DEF ks
<1>7. CASE Step > Len(Script[nt]) /\ Return
  <2>1. Readable(nodes[Tree])
    BY <1>2, <1>3, <1>4, <1>7, ScriptReadable DEF ks
  <2> QED
    BY <1>2, <1>7, <2>1, ReturnStep
<1>8. CASE Step <= Len(Script[nt])
  <2> DEFINE x == Script[nt][Step]
  <2>1. x \in Kind \cup {"RELOP"}
    <3>1. Len(Script[nt]) \in Nat
      BY DEF Script, SourceScript, AssignScript, InputScript, OutputScript,
             BranchScript, LoopScript, RepeatScript, ConditionScript
    <3> QED
      BY <1>5, <1>8, <3>1, ScriptSymbols
  <2> HIDE DEF x
  <2>2. CASE x \in NonTerminals /\ Call(x, Step + 1)
    <3>1. x \in Expected(x) /\ x \in Kind
      BY <2>2 DEF Expected, NonTerminals, Kind
    <3>2. Progress(nodes[Tree].nt, Step + 1, Append(ks, x))
      BY <3>1, <1>6, <1>8 DEF x
    <3> QED
      BY <1>2, <1>5, <2>2, <3>2, CallStep DEF ks
  <2>3. CASE /\ x \notin NonTerminals
             /\ ExpectToken(Expected(x), Default(x), Step + 1)
    <3>1. /\ Expected(x) \subseteq TokenTypes
          /\ Default(x) \in Expected(x)
      BY <2>1, <2>3 DEF Expected, Default, Kind, RelOps, TokenTypes
    <3>2. \A t \in Expected(x) \cup {Default(x)} :
            Progress(nodes[Tree].nt, Step + 1, Append(ks, t))
      BY <3>1, <1>6, <1>8 DEF x, Kind
    <3> QED
      BY <1>2, <1>5, <2>3, <3>1, <3>2, ExpectStep DEF ks
  <2> QED
    BY <1>1, <1>5, <1>8, <2>2, <2>3 DEF x
<1> QED
  BY <1>1, <1>7, <1>8

(* parse_variables adds the next part of a declaration. *)
LEMMA ParseVariablesStep ==
  ASSUME IInv, ParseVariables
  PROVE  IInv'
<1> DEFINE ks == Kinds(nodes[Tree])
<1>1. stack # << >> /\ nodes[Tree].nt = "variables"
  BY DEF ParseVariables, In
<1>2. nodes[Tree] \in Node /\ ks \in Seq(Kind)
  BY <1>1, RunningActivation, KindsType
<1>3. VariablesProgress(Step, ks)
  BY <1>1, RunningActivation, ProgressCases
<1>4. Step \in 1..4
  BY <1>3 DEF VariablesProgress
<1>5. Declaration[Step] \in TokenTypes
  BY <1>4, DeclarationNames DEF TokenTypes
<1>6. Progress(nodes[Tree].nt, (Step % 4) + 1, Append(ks, Declaration[Step]))
  BY <1>1, <1>2, <1>3, <1>5, VariablesAdvance, ProgressCases DEF Kind
<1> HIDE DEF ks
<1>7. CASE Step = 1 /\ Return
  <2>1. Readable(nodes[Tree])
    BY <1>1, <1>2, <1>3, <1>7, VariablesDone DEF Readable, ks
  <2> QED
    BY <1>1, <1>7, <2>1, ReturnStep
<1>8. CASE Step = 1 /\ AcceptToken({"IDENTIFIER"}, 2)
  <2>1. Progress(nodes[Tree].nt, 2, Append(ks, "IDENTIFIER"))
    BY <1>6, <1>8, DeclarationNames
  <2> QED
    BY <1>1, <1>8, <2>1, AcceptStep DEF ks
<1>9. CASE SkipToken
  BY <1>1, <1>9, SkipStep
<1>10. CASE ExpectToken({Declaration[Step]}, Declaration[Step], (Step % 4) + 1)
  <2>1. (Step % 4) + 1 \in Nat
    BY <1>4
  <2> QED
    BY <1>1, <1>5, <1>6, <1>10, <2>1, ExpectStep DEF ks
<1> QED
  BY <1>7, <1>8, <1>9, <1>10 DEF ParseVariables

(* parse_statements calls the function of a statement. *)
LEMMA ParseStatementsStep ==
  ASSUME IInv, ParseStatements
  PROVE  IInv'
<1> DEFINE ks == Kinds(nodes[Tree])
<1>1. stack # << >> /\ nodes[Tree].nt = "statements"
  BY DEF ParseStatements, In
<1>2. nodes[Tree] \in Node /\ ks \in Seq(Kind) /\ DOMAIN ks = 1..Len(ks)
  BY <1>1, RunningActivation, KindsType, LenProperties
<1>3. StatementsProgress(Step, ks)
  BY <1>1, RunningActivation, ProgressCases
<1> HIDE DEF ks
<1>4. CASE Return
  <2>1. \A i \in DOMAIN ks : ks[i] \in Statements
    BY <1>2, <1>3 DEF StatementsProgress
  <2>2. Readable(nodes[Tree])
    BY <1>1, <2>1 DEF Readable, ks
  <2> QED
    BY <1>1, <1>4, <2>2, ReturnStep
<1>5. CASE tok.type \in Starters /\ Call(StatementOf(tok.type), 1)
  <2> DEFINE nt == StatementOf(tok.type)
  <2>1. nt \in Statements
    BY <1>5 DEF Starters, StatementOf, Statements
  <2> HIDE DEF nt
  <2>2. nt \in NonTerminals
    BY <2>1 DEF Statements, NonTerminals
  <2>3. StatementsProgress(1, Append(ks, nt))
    <3>1. /\ Len(ks) \in Nat
          /\ Len(Append(ks, nt)) = Len(ks) + 1
          /\ \A i \in 1..Len(ks) : Append(ks, nt)[i] = ks[i]
          /\ Append(ks, nt)[Len(ks) + 1] = nt
      BY <1>2, <2>2, AppendKind DEF Kind
    <3>2. \A i \in 1..Len(ks) : ks[i] \in Statements
      BY <1>3 DEF StatementsProgress
    <3>3. \A i \in 1..(Len(ks) + 1) : Append(ks, nt)[i] \in Statements
      BY <2>1, <3>1, <3>2
    <3> QED
      BY <3>1, <3>3 DEF StatementsProgress
  <2>4. Progress(nodes[Tree].nt, 1, Append(ks, nt))
    BY <1>1, <2>3, ProgressCases
  <2> QED
    BY <1>1, <1>5, <2>2, <2>4, CallStep DEF nt, ks
<1>6. CASE SkipToken
  BY <1>1, <1>6, SkipStep
<1> QED
  BY <1>4, <1>5, <1>6 DEF ParseStatements

(* parse_expression and the others like it add an operator. *)
LEMMA ParseChainStep ==
  ASSUME IInv, NEW nt \in DOMAIN ChainOperand,
         ParseChain(nt, ChainOperand[nt], ChainOperators[nt])
  PROVE  IInv'
<1> DEFINE ks == Kinds(nodes[Tree])
<1>1. stack # << >> /\ nodes[Tree].nt = nt
  BY DEF ParseChain, In
<1>2. nodes[Tree] \in Node /\ ks \in Seq(Kind)
  BY <1>1, RunningActivation, KindsType
<1>3. ChainProgress(nt, Step, ks)
  BY <1>1, RunningActivation, ProgressCases
<1>4. /\ ChainOperand[nt] \in NonTerminals
      /\ ChainOperators[nt] \subseteq TokenTypes
  BY DEF ChainOperand, ChainOperators, NonTerminals, TokenTypes
<1> HIDE DEF ks
<1>5. CASE Step = 1 /\ Call(ChainOperand[nt], 2)
  <2>1. ChainProgress(nt, 3 - Step, Append(ks, ChainOperand[nt]))
    BY <1>2, <1>3, <1>4, <1>5, ChainAdvance DEF Kind
  <2>2. Progress(nodes[Tree].nt, 2, Append(ks, ChainOperand[nt]))
    BY <1>1, <1>5, <2>1, ProgressCases
  <2> QED
    BY <1>1, <1>4, <1>5, <2>2, CallStep DEF ks
<1>6. CASE Step = 2 /\ AcceptToken(ChainOperators[nt], 1)
  <2>1. ASSUME NEW x \in ChainOperators[nt]
        PROVE  Progress(nodes[Tree].nt, 1, Append(ks, x))
    <3>1. ChainProgress(nt, 3 - Step, Append(ks, x))
      BY <1>2, <1>3, <1>4, <1>6, ChainAdvance DEF Kind
    <3> QED
      BY <1>1, <1>6, <3>1, ProgressCases
  <2> QED
    BY <1>1, <1>6, <2>1, AcceptStep DEF ks
<1>7. CASE Step = 2 /\ Return
  <2>1. Readable(nodes[Tree])
    BY <1>1, <1>2, <1>3, <1>7, ChainDone DEF ks
  <2> QED
    BY <1>1, <1>7, <2>1, ReturnStep
<1> QED
  BY <1>5, <1>6, <1>7 DEF ParseChain

(* parse_factor adds an operand or calls. *)
LEMMA ParseFactorStep ==
  ASSUME IInv, ParseFactor
  PROVE  IInv'
<1> DEFINE ks == Kinds(nodes[Tree])
<1>1. stack # << >> /\ nodes[Tree].nt = "factor"
  BY DEF ParseFactor, In
<1>2. nodes[Tree] \in Node /\ ks \in Seq(Kind) /\ DOMAIN ks = 1..Len(ks)
  BY <1>1, RunningActivation, KindsType, LenProperties
<1>3. FactorProgress(Step, ks)
  BY <1>1, RunningActivation, ProgressCases
<1>4. \A k, ls : FactorProgress(k, ls) => Progress(nodes[Tree].nt, k, ls)
  BY <1>1, ProgressCases
<1>5. ASSUME NEW x \in Kind
      PROVE  /\ Append(ks, x) \in Seq(Kind)
             /\ DOMAIN Append(ks, x) = 1..(Len(ks) + 1)
             /\ Len(Append(ks, x)) = Len(ks) + 1
             /\ \A i \in 1..Len(ks) : Append(ks, x)[i] = ks[i]
             /\ Append(ks, x)[Len(ks) + 1] = x
  BY <1>2, AppendKind, LenProperties
<1> HIDE DEF ks
<1>6. CASE Step = 1
  <2>1. Len(ks) = 0
    BY <1>3, <1>6 DEF FactorProgress
  <2>2. ASSUME NEW x \in Kind
        PROVE  Len(Append(ks, x)) = 1 /\ Append(ks, x)[1] = x
               /\ 1 \in DOMAIN Append(ks, x)
    BY <1>5, <2>1
  <2>3. \A t \in {"LITERAL", "IDENTIFIER"} : FactorProgress(5, Append(ks, t))
    BY <2>2 DEF FactorProgress, FactorComplete, Kind, TokenTypes
  <2>4. \A t \in {"PLUS", "MINUS"} : FactorProgress(2, Append(ks, t))
    BY <2>2 DEF FactorProgress, Kind, TokenTypes
  <2>5. FactorProgress(3, Append(ks, "LPAREN"))
    BY <2>2 DEF FactorProgress, Kind, TokenTypes
  <2>6. CASE AcceptToken({"LITERAL", "IDENTIFIER"}, 5)
    BY <1>1, <1>4, <2>3, <2>6, AcceptStep DEF ks
  <2>7. CASE AcceptToken({"PLUS", "MINUS"}, 2)
    BY <1>1, <1>4, <2>4, <2>7, AcceptStep DEF ks
  <2>8. CASE AcceptToken({"LPAREN"}, 3)
    BY <1>1, <1>4, <2>5, <2>8, AcceptStep DEF ks
  <2>9. CASE ReplaceToken("LITERAL", 5) /\ NextToken(Reported)
    <3>1. tok' \in Token /\ errs' \in Seq(Error)
      BY <1>1, <2>9, RunningActivation, ReportedType, NextTokenType
    <3>2. "LITERAL" \in TokenTypes
      BY DEF TokenTypes
    <3> QED
      BY <1>1, <1>4, <2>3, <2>9, <3>1, <3>2, ReplaceStep DEF ks
  <2> QED
    BY <1>6, <2>6, <2>7, <2>8, <2>9 DEF ParseFactor
<1>7. CASE Step = 2 /\ Call("factor", 5)
  <2>1. Len(ks) = 1 /\ ks[1] \in {"PLUS", "MINUS"}
    BY <1>3, <1>7 DEF FactorProgress
  <2>2. "factor" \in NonTerminals /\ "factor" \in Kind
    BY DEF NonTerminals, Kind
  <2>3. FactorProgress(5, Append(ks, "factor"))
    BY <1>5, <2>1, <2>2 DEF FactorProgress, FactorComplete
  <2> QED
    BY <1>1, <1>4, <1>7, <2>2, <2>3, CallStep DEF ks
<1>8. CASE Step = 3 /\ Call("expression", 4)
  <2>1. Len(ks) = 1 /\ ks[1] = "LPAREN"
    BY <1>3, <1>8 DEF FactorProgress
  <2>2. "expression" \in NonTerminals /\ "expression" \in Kind
    BY DEF NonTerminals, Kind
  <2>3. FactorProgress(4, Append(ks, "expression"))
    BY <1>5, <2>1, <2>2 DEF FactorProgress
  <2> QED
    BY <1>1, <1>4, <1>8, <2>2, <2>3, CallStep DEF ks
<1>9. CASE Step = 4 /\ ExpectToken({"RPAREN"}, "RPAREN", 5)
  <2>1. Len(ks) = 2 /\ ks[1] = "LPAREN" /\ ks[2] = "expression"
    BY <1>3, <1>9 DEF FactorProgress
  <2>2. "RPAREN" \in TokenTypes /\ "RPAREN" \in Kind
    BY DEF TokenTypes, Kind
  <2>3. FactorProgress(5, Append(ks, "RPAREN"))
    BY <1>5, <2>1, <2>2 DEF FactorProgress, FactorComplete
  <2> QED
    BY <1>1, <1>4, <1>9, <2>2, <2>3, ExpectStep DEF ks
<1>10. CASE Step = 5 /\ Return
  <2>1. FactorReadable(ks)
    BY <1>2, <1>3, <1>10 DEF FactorProgress, FactorComplete, FactorReadable, Has
  <2>2. Readable(nodes[Tree])
    BY <1>1, <2>1 DEF Readable, ks
  <2> QED
    BY <1>1, <1>10, <2>2, ReturnStep
<1> QED
  BY <1>6, <1>7, <1>8, <1>9, <1>10 DEF ParseFactor

(* The first token, and the call of parse_source. *)
LEMMA ParseStep ==
  ASSUME IInv, Parse
  PROVE  IInv'
<1>1. nodes = << >> /\ Len(nodes) = 0 /\ nodes \in Seq(Node)
  BY EmptySeq DEF Parse
<1>2. tok' \in Token /\ errs' \in Seq(Error)
  BY NextTokenType DEF Parse, IInv, TypeOK
<1>3. "source" \in NonTerminals
  BY DEF NonTerminals
<1>4. /\ nodes' \in Seq(Node) /\ Len(nodes') = 1
      /\ nodes'[1].nt = "source" /\ Kinds(nodes'[1]) = << >>
  <2>1. nodes' = MakeNonterminal(nodes, "source") /\ Len(nodes) + 1 = 1
    BY <1>1 DEF Parse
  <2>2. /\ MakeNonterminal(nodes, "source") \in Seq(Node)
        /\ Len(MakeNonterminal(nodes, "source")) = Len(nodes) + 1
        /\ MakeNonterminal(nodes, "source")[Len(nodes) + 1].nt = "source"
        /\ Kinds(MakeNonterminal(nodes, "source")[Len(nodes) + 1]) = << >>
    BY <1>1, <1>3, MakeNonterminalType
  <2> QED
    BY <2>1, <2>2
<1>5. /\ stack' \in Seq(Activation) /\ Len(stack') = 1
      /\ stack'[1].node = 1 /\ stack'[1].step = 1
  BY DEF Parse, Activation
<1>6. TypeOK' /\ TokenAtHand'
  BY <1>2, <1>4, <1>5 DEF TypeOK, TokenAtHand
<1>7. StackOrdered'
  BY <1>4, <1>5 DEF StackOrdered
<1>8. FramesProgress'
  BY <1>3, <1>4, <1>5, StartProgress DEF FramesProgress, Pending
<1>9. TreeReadable'
  <2>1. DOMAIN nodes' = 1..1 /\ DOMAIN stack' = 1..1
    BY <1>4, <1>5, LenProperties
  <2>2. Finished' = {}
    BY <1>5, <2>1 DEF Finished
  <2> QED
    BY <2>2 DEF TreeReadable
<1> QED
  BY <1>6, <1>7, <1>8, <1>9 DEF IInv

-----------------------------------------------------------------------------
(* The invariant, and what it is for. *)

(* Before parse() is called the invariant holds. *)
LEMMA InitInv == Init => IInv
<1> SUFFICES ASSUME Init PROVE IInv
  OBVIOUS
<1>1. /\ nodes = << >> /\ stack = << >> /\ errs = << >> /\ tok = NoToken
  BY DEF Init
<1>2. Len(stack) = 0 /\ DOMAIN nodes = {}
  BY <1>1
<1>3. TypeOK
  BY <1>1 DEF TypeOK
<1> QED
  BY <1>1, <1>2, <1>3 DEF IInv, TokenAtHand, StackOrdered, FramesProgress,
                          TreeReadable, Finished

(* Every step preserves it. *)
LEMMA NextInv == IInv /\ [Next]_vars => IInv'
<1> SUFFICES ASSUME IInv, [Next]_vars PROVE IInv'
  OBVIOUS
<1>1. CASE Parse
  BY <1>1, ParseStep
<1>2. CASE ParseScript
  BY <1>2, ParseScriptStep
<1>3. CASE ParseVariables
  BY <1>3, ParseVariablesStep
<1>4. CASE ParseStatements
  BY <1>4, ParseStatementsStep
<1>5. CASE ParseExpression
  BY <1>5, ParseChainStep DEF ParseExpression, ChainOperand, ChainOperators
<1>6. CASE ParseTerm
  BY <1>6, ParseChainStep DEF ParseTerm, ChainOperand, ChainOperators
<1>7. CASE ParseFactor
  BY <1>7, ParseFactorStep
<1>8. CASE UNCHANGED vars
  BY <1>8 DEF vars, IInv, TypeOK, TokenAtHand, StackOrdered, FramesProgress,
              Pending, TreeReadable, Finished
<1> QED
  BY <1>1, <1>2, <1>3, <1>4, <1>5, <1>6, <1>7, <1>8 DEF Next, Done

(* In every reachable state the invariant holds. *)
THEOREM Invariance == Spec => []IInv
  BY InitInv, NextInv, PTL DEF Spec

(***************************************************************************)
(* The parser's variables keep their types: no stack of calls, no repair   *)
(* and no skipped token ever puts anything but tokens, nodes and errors    *)
(* where the code expects them.                                            *)
(***************************************************************************)
THEOREM TypeCorrect == Spec => []TypeOK
<1>1. IInv => TypeOK
  BY DEF IInv
<1> QED
  BY <1>1, Invariance, PTL

(***************************************************************************)
(* Whatever the source file holds, every node that a parse function of     *)
(* src/parser.c returns has the children that src/semanter.c will index    *)
(* and dereference without a check.                                        *)
(***************************************************************************)
THEOREM TreeAlwaysReadable == Spec => []TreeReadable
<1>1. IInv => TreeReadable
  BY DEF IInv
<1> QED
  BY <1>1, Invariance, PTL

-----------------------------------------------------------------------------
(* The error list. *)

(* In source order, and nothing beyond the place at. *)
OrderedUpTo(es, at) ==
  /\ \A i, j \in 1..Len(es) : i < j => es[i].loc <= es[j].loc
  /\ \A i \in 1..Len(es) : es[i].loc <= at

(* What a step does to the lookahead token and to the error list. *)
LEMMA ErrorStep ==
  ASSUME Next
  PROVE  \/ UNCHANGED <<tok, errs>>
         \/ UNCHANGED tok /\ errs' = Reported /\ stack # << >>
         \/ NextToken(errs)
         \/ NextToken(Reported) /\ stack # << >>
<1> USE DEF ExpectToken, AcceptToken, SkipToken, Call, Return, In
<1>1. CASE Parse
  BY <1>1 DEF Parse
<1>2. CASE ParseScript
  BY <1>2 DEF ParseScript
<1>3. CASE ParseVariables
  BY <1>3 DEF ParseVariables
<1>4. CASE ParseStatements
  BY <1>4 DEF ParseStatements
<1>5. CASE ParseExpression \/ ParseTerm
  BY <1>5 DEF ParseExpression, ParseTerm, ParseChain
<1>6. CASE ParseFactor
  BY <1>6 DEF ParseFactor
<1>7. CASE Done
  BY <1>7 DEF Done, vars
<1> QED
  BY <1>1, <1>2, <1>3, <1>4, <1>5, <1>6, <1>7 DEF Next

(* Lexical errors lie between the lookahead token and the next one. *)
LEMMA NextTokenOrdered ==
  ASSUME NEW es \in Seq(Error), tok \in Token \cup {NoToken},
         NextToken(es), OrderedUpTo(es, tok.loc)
  PROVE  OrderedUpTo(errs', tok'.loc)
<1>1. CASE errs' = es /\ tok' = tok
  BY <1>1
<1>2. CASE \E bad \in LexicalErrors :
             /\ errs' = es \o [i \in 1..bad |-> [kind |-> "INVALID_TOKEN",
                                                loc |-> tok.loc + i]]
             /\ \E x \in Following(tok.loc + bad + 1, errs') :
                  tok' = [type |-> x.type, attr |-> x.attr,
                          loc |-> tok.loc + bad + 1]
  <2>1. PICK bad \in LexicalErrors :
             /\ errs' = es \o [i \in 1..bad |-> [kind |-> "INVALID_TOKEN",
                                                loc |-> tok.loc + i]]
             /\ \E x \in Following(tok.loc + bad + 1, errs') :
                  tok' = [type |-> x.type, attr |-> x.attr,
                          loc |-> tok.loc + bad + 1]
    BY <1>2
  <2> DEFINE invalid == [i \in 1..bad |-> [kind |-> "INVALID_TOKEN",
                                           loc |-> tok.loc + i]]
             at == tok.loc
  <2>2. bad \in Nat /\ at \in Nat
    BY ParserAssumption DEF Token, NoToken
  <2>3. invalid \in Seq(Error) /\ Len(invalid) = bad
    <3>1. invalid \in [1..bad -> Error]
      BY <2>2 DEF Error
    <3>2. invalid \in Seq(Error)
      BY <2>2, <3>1, SeqDef
    <3>3. DOMAIN invalid = 1..bad
      OBVIOUS
    <3> QED
      BY <2>2, <3>2, <3>3, LenProperties
  <2>4. \A i \in 1..bad : invalid[i].loc = at + i
    OBVIOUS
  <2>5. errs' = es \o invalid
    BY <2>1
  <2> HIDE DEF invalid
  <2>6. /\ Len(errs') = Len(es) + bad /\ Len(es) \in Nat
        /\ \A i \in 1..(Len(es) + bad) :
             errs'[i] = IF i <= Len(es) THEN es[i] ELSE invalid[i - Len(es)]
    BY <2>3, <2>5, ConcatProperties, LenProperties
  <2>7. \A i \in 1..Len(es) : es[i].loc \in Nat
    <3>1. \A e \in Error : e.loc \in Nat
      BY DEF Error
    <3>2. \A i \in 1..Len(es) : es[i] \in Error
      BY ElementOfSeq
    <3> QED
      BY <3>1, <3>2
  <2>8. ASSUME NEW i \in 1..Len(errs')
        PROVE  \/ /\ i \in 1..Len(es) /\ errs'[i].loc = es[i].loc
                  /\ errs'[i].loc \in Nat /\ errs'[i].loc <= at
               \/ i > Len(es) /\ errs'[i].loc = at + (i - Len(es))
    <3>1. CASE i <= Len(es)
      BY <3>1, <2>6, <2>7 DEF OrderedUpTo
    <3>2. CASE i > Len(es)
      <4>1. i - Len(es) \in 1..bad
        BY <3>2, <2>2, <2>6
      <4>2. errs'[i] = invalid[i - Len(es)]
        BY <3>2, <2>2, <2>6
      <4> QED
        BY <3>2, <4>1, <4>2, <2>4
    <3> QED
      BY <3>1, <3>2, <2>2, <2>6
  <2> HIDE DEF at
  <2>9. ASSUME NEW i \in 1..Len(errs'), NEW j \in 1..Len(errs'), i < j
        PROVE  errs'[i].loc <= errs'[j].loc
    <3>1. CASE j \in 1..Len(es)
      BY <2>6, <2>8, <2>9, <3>1 DEF OrderedUpTo
    <3>2. CASE j > Len(es)
      <4>1. j \in Nat /\ errs'[j].loc = at + (j - Len(es)) /\ j > Len(es)
        BY <2>6, <2>8, <2>9, <3>2
      <4>2. CASE i \in 1..Len(es)
        <5>1. errs'[i].loc \in Nat /\ errs'[i].loc <= at
          BY <2>6, <2>8, <2>9, <4>2
        <5> QED
          BY <2>2, <2>6, <4>1, <5>1
      <4>3. CASE i > Len(es)
        <5>1. i \in Nat /\ errs'[i].loc = at + (i - Len(es))
          BY <2>6, <2>8, <2>9, <4>3
        <5> QED
          BY <2>2, <2>6, <2>9, <4>1, <5>1
      <4> QED
        BY <2>6, <2>9, <4>2, <4>3
    <3> QED
      BY <3>1, <3>2, <2>2, <2>6
  <2>10. \A i \in 1..Len(errs') : errs'[i].loc <= tok'.loc
    <3>1. tok'.loc = at + bad + 1
      BY <2>1 DEF at
    <3> QED
      BY <3>1, <2>2, <2>6, <2>8
  <2> QED
    BY <2>9, <2>10 DEF OrderedUpTo
<1> QED
  BY <1>1, <1>2 DEF NextToken

(* An error at the lookahead is reported behind the others. *)
LEMMA ReportedOrdered ==
  ASSUME IInv, stack # << >>, OrderedUpTo(errs, tok.loc)
  PROVE  OrderedUpTo(Reported, tok.loc)
<1> DEFINE e == [kind |-> "UNEXPECTED_TOKEN", loc |-> tok.loc]
           at == tok.loc
<1>1. errs \in Seq(Error) /\ at \in Nat
  BY RunningActivation DEF IInv, TypeOK, Token
<1>2. e \in Error /\ e.loc = at /\ Reported = Append(errs, e)
  BY <1>1 DEF Error, Reported
<1> HIDE DEF e, at
<1>3. /\ Len(Reported) = Len(errs) + 1 /\ Len(errs) \in Nat
      /\ \A i \in 1..Len(errs) : Reported[i] = errs[i]
      /\ Reported[Len(errs) + 1] = e
  BY <1>1, <1>2, AppendProperties, LenProperties
<1>4. \A i \in 1..Len(errs) : errs[i].loc <= at
  BY DEF OrderedUpTo, at
<1>5. \A i \in 1..Len(Reported) : Reported[i].loc <= at
  BY <1>1, <1>2, <1>3, <1>4
<1>6. ASSUME NEW i \in 1..Len(Reported), NEW j \in 1..Len(Reported), i < j
      PROVE  Reported[i].loc <= Reported[j].loc
  <2>1. CASE j \in 1..Len(errs)
    BY <1>3, <1>6, <2>1 DEF OrderedUpTo
  <2>2. CASE j = Len(errs) + 1
    BY <1>2, <1>3, <1>5, <2>2
  <2> QED
    BY <2>1, <2>2, <1>3
<1> QED
  BY <1>5, <1>6 DEF OrderedUpTo, at

(***************************************************************************)
(* The error list is in source order in every state: lex() and the parse   *)
(* functions append to the same list, and neither overtakes the other.     *)
(***************************************************************************)
THEOREM ErrorsAlwaysInSourceOrder == Spec => []ErrorsInSourceOrder
<1> DEFINE Inv == OrderedUpTo(errs, tok.loc)
<1>1. Init => Inv
  BY DEF Init, OrderedUpTo
<1>2. IInv /\ Inv /\ [Next]_vars => Inv'
  <2> SUFFICES ASSUME IInv, Inv, [Next]_vars PROVE Inv'
    OBVIOUS
  <2>1. CASE UNCHANGED <<tok, errs>>
    BY <2>1
  <2>2. CASE UNCHANGED tok /\ errs' = Reported /\ stack # << >>
    BY <2>2, ReportedOrdered
  <2>3. CASE NextToken(errs)
    BY <2>3, NextTokenOrdered DEF IInv, TypeOK
  <2>4. CASE NextToken(Reported) /\ stack # << >>
    BY <2>4, ReportedOrdered, ReportedType, NextTokenOrdered DEF IInv, TypeOK
  <2> QED
    BY <2>1, <2>2, <2>3, <2>4, ErrorStep DEF vars
<1>3. IInv /\ Inv => ErrorsInSourceOrder
  BY LenProperties DEF IInv, TypeOK, OrderedUpTo, ErrorsInSourceOrder
<1> QED
  BY <1>1, <1>2, <1>3, Invariance, PTL DEF Spec

-----------------------------------------------------------------------------
(***************************************************************************)
(* The shape of the tree that the parser leaves: each node has one parent, *)
(* and no declaration, assignment or factor has lost its symbol.  The      *)
(* steps of the parser are reduced to what they do to the heap (HeapStep), *)
(* and each of these is shown to preserve TreeInv.                         *)
(***************************************************************************)

(* The function that runs first builds the root. *)
RootFirst ==
  /\ stack # << >> => stack[1].node = 1
  /\ nodes # << >> => nodes[1].nt = "source"

(* The scanner gives each identifier its symbol, each literal its value. *)
SymbolAtHand ==
  /\ tok.type = "IDENTIFIER" => tok.attr \in Names
  /\ tok.type = "LITERAL" => tok.attr \in Literals

(* An assignment is begun at an identifier. *)
AssignAtIdentifier ==
  (stack # << >> /\ nodes[Tree].nt = "assign" /\ Step = 1)
    => tok.type = "IDENTIFIER"

(* A child has the attribute that the analyser needs in a node of kind nt. *)
Fits(nt, c) ==
  /\ c.type = "IDENTIFIER" =>
       c.attr \in Names \/ (c.attr = NULL /\ nt = "input")
  /\ c.type = "LITERAL" => c.attr \in Literals \cup {NULL}

AttributesFit ==
  \A n \in DOMAIN nodes : \A i \in DOMAIN nodes[n].children :
    Fits(nodes[n].nt, nodes[n].children[i])

TreeInv ==
  /\ IInv
  /\ RootFirst
  /\ TreeLinked
  /\ SymbolAtHand
  /\ AssignAtIdentifier
  /\ AttributesFit

-----------------------------------------------------------------------------
(* What a step may do to the tree and the stack. *)

(* The lookahead token is added to the tree, *)
Takes(c) == c = Terminal(tok) /\ tok.type # "EOF" /\ NextToken(errs)

(* or one without an attribute, and an error is reported. *)
Invents(c) == c.attr = NULL /\ errs' # << >>

(* Add a terminal with its attribute. *)
AddsTerminal ==
  \E c \in Child, k \in Nat :
    /\ stack # << >>
    /\ nodes' = AddChild(nodes, Tree, c) /\ stack' = GoTo(k)
    /\ Takes(c) \/ Invents(c)
    /\ c.type \in TokenTypes
    /\ Fits(nodes[Tree].nt, c)
    /\ nodes[Tree].nt = "assign" => k # 1

(* Begin a node. *)
Calls ==
  \E nt \in NonTerminals, k \in Nat :
    /\ stack # << >>
    /\ Call(nt, k)
    /\ nt = "assign" => tok.type = "IDENTIFIER"

(* Finish a node. *)
Returns == stack # << >> /\ Return

(* Begin the root. *)
Begins ==
  /\ nodes = << >>
  /\ nodes' = MakeNonterminal(nodes, "source")
  /\ stack' = <<[node |-> 1, step |-> 1]>>
  /\ NextToken(errs)

(* Read on, or do nothing. *)
Keeps ==
  /\ UNCHANGED <<nodes, stack>>
  /\ UNCHANGED <<tok, errs>> \/ (stack # << >> /\ errs' # << >>)
  /\ tok' = tok \/ (stack # << >> => nodes[Tree].nt # "assign")

HeapStep == AddsTerminal \/ Calls \/ Returns \/ Begins \/ Keeps

-----------------------------------------------------------------------------
(* Terminals and nonterminals have different names. *)
LEMMA TypesApart == TokenTypes \cap NonTerminals = {}
BY DEF TokenTypes, NonTerminals

(* What the scanner delivers. *)
LEMMA SymbolDelivered ==
  ASSUME SymbolAtHand, NEW es, NextToken(es)
  PROVE  SymbolAtHand'
<1>1. \A x \in Alphabet \cup {Eof} :
        /\ x.type = "IDENTIFIER" => x.attr \in Names
        /\ x.type = "LITERAL" => x.attr \in Literals
  BY ParserAssumption DEF Lexeme, Eof
<1>2. CASE tok.type = "EOF" /\ errs' = es /\ tok' = tok
  BY <1>2 DEF SymbolAtHand
<1>3. CASE tok.type # "EOF" /\ ~(tok' = tok)
  <2>1. PICK bad \in LexicalErrors :
          \E x \in Following(tok.loc + bad + 1, errs') :
            tok' = [type |-> x.type, attr |-> x.attr, loc |-> tok.loc + bad + 1]
    BY <1>3 DEF NextToken
  <2>2. PICK x \in Following(tok.loc + bad + 1, errs') :
          tok' = [type |-> x.type, attr |-> x.attr, loc |-> tok.loc + bad + 1]
    BY <2>1
  <2>3. x \in Alphabet \cup {Eof}
    BY <2>2 DEF Following
  <2> QED
    BY <2>2, <2>3, <1>1 DEF SymbolAtHand
<1>4. CASE tok' = tok
  BY <1>4 DEF SymbolAtHand
<1> QED
  BY <1>2, <1>3, <1>4 DEF NextToken

(* A report is in the list, whatever lex() adds to it. *)
LEMMA SomeReported ==
  ASSUME IInv, stack # << >>
  PROVE  /\ Reported # << >>
         /\ NextToken(Reported) => errs' # << >>
<1>1. errs \in Seq(Error) /\ Reported \in Seq(Error)
  BY ReportedType DEF IInv, TypeOK
<1>2. Len(Reported) >= 1
  <2>1. [kind |-> "UNEXPECTED_TOKEN", loc |-> tok.loc] \in Error
    BY RunningActivation DEF Error, Token
  <2> QED
    BY <1>1, <2>1, AppendProperties, LenProperties DEF Reported
<1>3. ASSUME NEW bad \in LexicalErrors
      PROVE  Reported \o [i \in 1..bad |-> [kind |-> "INVALID_TOKEN",
                                            loc |-> tok.loc + i]] # << >>
  <2> DEFINE invalid == [i \in 1..bad |-> [kind |-> "INVALID_TOKEN",
                                           loc |-> tok.loc + i]]
  <2>1. bad \in Nat /\ tok.loc \in Nat
    BY RunningActivation, ParserAssumption DEF Token
  <2>2. invalid \in Seq(Error)
    <3>1. invalid \in [1..bad -> Error]
      BY <2>1 DEF Error
    <3> QED
      BY <2>1, <3>1, SeqDef
  <2> HIDE DEF invalid
  <2>3. Len(Reported \o invalid) = Len(Reported) + Len(invalid)
        /\ Len(invalid) \in Nat
    BY <1>1, <2>2, ConcatProperties, LenProperties
  <2>4. Reported \o invalid # << >>
    BY <1>2, <2>3, EmptySeq
  <2> QED
    BY <2>4 DEF invalid
<1>4. Reported # << >>
  BY <1>2, EmptySeq
<1>5. NextToken(Reported) => errs' # << >>
  BY <1>3, <1>4 DEF NextToken
<1> QED
  BY <1>4, <1>5

(* A token is accepted, with its symbol. *)
LEMMA AcceptHeap ==
  ASSUME IInv, SymbolAtHand, stack # << >>,
         NEW types, NEW k \in Nat, AcceptToken(types, k), "EOF" \notin types,
         nodes[Tree].nt = "assign" => k # 1
  PROVE  AddsTerminal
<1>1. tok \in Token
  BY RunningActivation
<1>2. /\ Terminal(tok) \in Child /\ Terminal(tok).type = tok.type
      /\ Terminal(tok).attr = tok.attr
  BY <1>1 DEF Terminal, Child, Token
<1>3. tok.type \in TokenTypes
  BY <1>1 DEF Token
<1>4. Takes(Terminal(tok))
  BY DEF AcceptToken, Takes
<1> QED
  BY <1>2, <1>3, <1>4 DEF AcceptToken, AddsTerminal, SymbolAtHand, Fits

(* A token is invented. *)
LEMMA ReplaceHeap ==
  ASSUME IInv, stack # << >>,
         NEW type \in TokenTypes, NEW k \in Nat, ReplaceToken(type, k),
         type = "IDENTIFIER" => nodes[Tree].nt = "input", errs' # << >>,
         nodes[Tree].nt = "assign" => k # 1
  PROVE  AddsTerminal
<1>1. tok.loc \in Nat
  BY RunningActivation DEF Token
<1>2. /\ Terminal(Invented(type)) \in Child
      /\ Terminal(Invented(type)).type = type
      /\ Terminal(Invented(type)).attr = NULL
  BY <1>1 DEF Terminal, Invented, Child, Attrs
<1> QED
  BY <1>2 DEF ReplaceToken, AddsTerminal, Invents, Fits

(* expect adds one terminal, the token found or one made up. *)
LEMMA ExpectHeap ==
  ASSUME IInv, SymbolAtHand, stack # << >>,
         NEW types, NEW default \in TokenTypes, NEW k \in Nat,
         ExpectToken(types, default, k), "EOF" \notin types,
         default = "IDENTIFIER" /\ tok.type \notin types =>
           nodes[Tree].nt = "input",
         nodes[Tree].nt = "assign" => k # 1
  PROVE  AddsTerminal
<1>1. CASE AcceptToken(types, k)
  BY <1>1, AcceptHeap
<1>2. CASE tok.type \notin types /\ ReplaceToken(default, k) /\ errs' = Reported
  BY <1>2, ReplaceHeap, SomeReported
<1> QED
  BY <1>1, <1>2 DEF ExpectToken

(* Where the scripts expect an identifier, and what they call. *)
LEMMA ScriptWords ==
  ASSUME NEW nt \in DOMAIN Script, NEW k \in 1..Len(Script[nt])
  PROVE  /\ Script[nt][k] # "assign" /\ Script[nt][k] # "EOF"
         /\ Script[nt][k] = "IDENTIFIER" => nt = "input" \/ (nt = "assign" /\ k = 1)
<1> DEFINE Fine(name, script) ==
             \A i \in 1..Len(script) :
               /\ script[i] # "assign" /\ script[i] # "EOF"
               /\ script[i] = "IDENTIFIER" => name = "input" \/ (name = "assign" /\ i = 1)
<1>1. Fine("source", SourceScript)
  BY DEF SourceScript
<1>2. Fine("assign", AssignScript)
  BY DEF AssignScript
<1>3. Fine("input", InputScript)
  BY DEF InputScript
<1>4. Fine("output", OutputScript)
  BY DEF OutputScript
<1>5. Fine("branch", BranchScript)
  BY DEF BranchScript
<1>6. Fine("loop", LoopScript)
  BY DEF LoopScript
<1>7. Fine("repeat", RepeatScript)
  BY DEF RepeatScript
<1>8. Fine("condition", ConditionScript)
  BY DEF ConditionScript
<1> HIDE DEF Fine
<1>9. Fine(nt, Script[nt])
  BY <1>1, <1>2, <1>3, <1>4, <1>5, <1>6, <1>7, <1>8, ScriptNames
<1> QED
  BY <1>9 DEF Fine

-----------------------------------------------------------------------------
(* Each parse function does one of these to the heap. *)
LEMMA ParseScriptHeap ==
  ASSUME IInv, SymbolAtHand, AssignAtIdentifier, ParseScript
  PROVE  HeapStep
<1>1. PICK nt \in DOMAIN Script :
        /\ In(nt)
        /\ \/ Step > Len(Script[nt]) /\ Return
           \/ /\ Step <= Len(Script[nt])
              /\ LET x == Script[nt][Step]
                 IN \/ x \in NonTerminals /\ Call(x, Step + 1)
                    \/ x \notin NonTerminals
                       /\ ExpectToken(Expected(x), Default(x), Step + 1)
  BY DEF ParseScript
<1>2. stack # << >> /\ nodes[Tree].nt = nt
  BY <1>1 DEF In
<1>3. Step \in Nat /\ Step >= 1
  <2>1. ScriptProgress(Script[nt], Step, Kinds(nodes[Tree]))
    BY <1>2, RunningActivation, ProgressCases
  <2> QED
    BY <1>2, <2>1, RunningActivation DEF Activation, Step, ScriptProgress
<1>4. CASE Step > Len(Script[nt]) /\ Return
  BY <1>2, <1>4 DEF Returns, HeapStep
<1>5. CASE Step <= Len(Script[nt])
  <2> DEFINE x == Script[nt][Step]
  <2>1. Step \in 1..Len(Script[nt])
    <3>1. Len(Script[nt]) \in Nat
      BY DEF Script, SourceScript, AssignScript, InputScript, OutputScript,
             BranchScript, LoopScript, RepeatScript, ConditionScript
    <3> QED
      BY <1>3, <1>5, <3>1
  <2>2. /\ x \in Kind \cup {"RELOP"}
        /\ x # "assign" /\ x # "EOF"
        /\ x = "IDENTIFIER" => nt = "input" \/ (nt = "assign" /\ Step = 1)
    BY <2>1, ScriptSymbols, ScriptWords
  <2>3. Step + 1 \in Nat /\ Step + 1 # 1
    BY <1>3
  <2>4. \/ x \in NonTerminals /\ Call(x, Step + 1)
        \/ /\ x \notin NonTerminals
           /\ ExpectToken(Expected(x), Default(x), Step + 1)
    BY <1>1, <1>3, <1>5, <2>1
  <2> HIDE DEF x
  <2>5. CASE x \in NonTerminals /\ Call(x, Step + 1)
    BY <1>2, <2>2, <2>3, <2>5 DEF Calls, HeapStep
  <2>6. CASE /\ x \notin NonTerminals
             /\ ExpectToken(Expected(x), Default(x), Step + 1)
    <3>1. Default(x) \in TokenTypes
      BY <2>2, <2>6 DEF Default, Kind, TokenTypes
    <3>2. Default(x) = "IDENTIFIER" => x = "IDENTIFIER"
      BY DEF Default
    <3>3. x = "IDENTIFIER" => Expected(x) = {"IDENTIFIER"}
      BY DEF Expected
    <3>4. Default(x) = "IDENTIFIER" /\ tok.type \notin Expected(x) =>
            nodes[Tree].nt = "input"
      BY <1>2, <2>2, <3>2, <3>3 DEF AssignAtIdentifier
    <3>6. "EOF" \notin Expected(x)
      BY <2>2 DEF Expected, RelOps
    <3>5. AddsTerminal
      BY <1>2, <2>3, <2>6, <3>1, <3>4, <3>6, ExpectHeap
    <3> QED
      BY <3>5 DEF HeapStep
  <2> QED
    BY <2>4, <2>5, <2>6
<1> QED
  BY <1>1, <1>4, <1>5

(* A token is thrown away outside of assignments. *)
LEMMA SkipHeap ==
  ASSUME IInv, stack # << >>, SkipToken, nodes[Tree].nt # "assign"
  PROVE  HeapStep
BY SomeReported DEF SkipToken, Keeps, HeapStep

(* parse_variables adds a terminal or finishes its node. *)
LEMMA ParseVariablesHeap ==
  ASSUME IInv, SymbolAtHand, ParseVariables
  PROVE  HeapStep
<1>1. stack # << >> /\ nodes[Tree].nt = "variables"
  BY DEF ParseVariables, In
<1>2. VariablesProgress(Step, Kinds(nodes[Tree]))
  BY <1>1, RunningActivation, ProgressCases
<1>3. Step \in 1..4
  BY <1>2 DEF VariablesProgress
<1>4. CASE Step = 1 /\ Return
  BY <1>1, <1>4 DEF Returns, HeapStep
<1>5. CASE Step = 1 /\ AcceptToken({"IDENTIFIER"}, 2)
  BY <1>1, <1>5, AcceptHeap DEF HeapStep
<1>6. CASE SkipToken
  BY <1>1, <1>6, SkipHeap
<1>7. CASE /\ Step # 1
           /\ ExpectToken({Declaration[Step]}, Declaration[Step], (Step % 4) + 1)
  <2>1. (Step % 4) + 1 \in Nat
    BY <1>3
  <2>2. /\ Declaration[Step] \in TokenTypes
        /\ Declaration[Step] # "IDENTIFIER" /\ Declaration[Step] # "EOF"
    BY <1>3, <1>7, DeclarationNames DEF TokenTypes
  <2> HIDE DEF Step
  <2>3. AddsTerminal
    BY <1>1, <1>7, <2>1, <2>2, ExpectHeap
  <2> QED
    BY <2>3 DEF HeapStep
<1> QED
  BY <1>4, <1>5, <1>6, <1>7 DEF ParseVariables

(* parse_statements calls a function or finishes its node. *)
LEMMA ParseStatementsHeap ==
  ASSUME IInv, ParseStatements
  PROVE  HeapStep
<1>1. stack # << >> /\ nodes[Tree].nt = "statements"
  BY DEF ParseStatements, In
<1>2. CASE Return
  BY <1>1, <1>2 DEF Returns, HeapStep
<1>3. CASE tok.type \in Starters /\ Call(StatementOf(tok.type), 1)
  <2>1. StatementOf(tok.type) \in NonTerminals
    BY <1>3 DEF Starters, StatementOf, NonTerminals
  <2>2. StatementOf(tok.type) = "assign" => tok.type = "IDENTIFIER"
    BY <1>3 DEF Starters, StatementOf
  <2>3. Calls
    BY <1>1, <1>3, <2>1, <2>2 DEF Calls
  <2> QED
    BY <2>3 DEF HeapStep
<1>4. CASE SkipToken
  BY <1>1, <1>4, SkipHeap
<1> QED
  BY <1>2, <1>3, <1>4 DEF ParseStatements

(* A chain adds an operator, calls or finishes its node. *)
LEMMA ParseChainHeap ==
  ASSUME IInv, SymbolAtHand, NEW nt \in DOMAIN ChainOperand,
         ParseChain(nt, ChainOperand[nt], ChainOperators[nt])
  PROVE  HeapStep
<1>1. stack # << >> /\ nodes[Tree].nt = nt
  BY DEF ParseChain, In
<1>2. /\ ChainOperand[nt] \in NonTerminals /\ ChainOperand[nt] # "assign"
      /\ nt # "assign"
  BY DEF ChainOperand, NonTerminals
<1>3. CASE Call(ChainOperand[nt], 2)
  BY <1>1, <1>2, <1>3 DEF Calls, HeapStep
<1>4. CASE AcceptToken(ChainOperators[nt], 1)
  <2>1. "EOF" \notin ChainOperators[nt]
    BY DEF ChainOperand, ChainOperators
  <2> QED
    BY <1>1, <1>2, <1>4, <2>1, AcceptHeap DEF HeapStep
<1>5. CASE Return
  BY <1>1, <1>5 DEF Returns, HeapStep
<1> QED
  BY <1>3, <1>4, <1>5 DEF ParseChain

(* parse_factor adds a terminal, calls or finishes its node. *)
LEMMA ParseFactorHeap ==
  ASSUME IInv, SymbolAtHand, ParseFactor
  PROVE  HeapStep
<1>1. stack # << >> /\ nodes[Tree].nt = "factor"
  BY DEF ParseFactor, In
<1>2. ASSUME NEW types, NEW k \in Nat, AcceptToken(types, k), "EOF" \notin types
      PROVE  HeapStep
  BY <1>1, <1>2, AcceptHeap DEF HeapStep
<1>3. ASSUME NEW nt \in NonTerminals, NEW k \in Nat, Call(nt, k), nt # "assign"
      PROVE  HeapStep
  BY <1>1, <1>3 DEF Calls, HeapStep
<1>4. CASE ReplaceToken("LITERAL", 5) /\ NextToken(Reported)
  BY <1>1, <1>4, ReplaceHeap, SomeReported DEF HeapStep, TokenTypes
<1>5. CASE ExpectToken({"RPAREN"}, "RPAREN", 5)
  BY <1>1, <1>5, ExpectHeap DEF HeapStep, TokenTypes
<1>6. CASE Return
  BY <1>1, <1>6 DEF Returns, HeapStep
<1>7. CASE Call("factor", 5) \/ Call("expression", 4)
  BY <1>3, <1>7 DEF NonTerminals
<1> QED
  BY <1>2, <1>4, <1>5, <1>6, <1>7 DEF ParseFactor

(* Every step of the parser is one of the five. *)
LEMMA NextHeap ==
  ASSUME IInv, SymbolAtHand, AssignAtIdentifier, [Next]_vars
  PROVE  HeapStep
<1>1. CASE Parse
  BY <1>1 DEF Parse, Begins, HeapStep
<1>2. CASE ParseScript
  BY <1>2, ParseScriptHeap
<1>3. CASE ParseVariables
  BY <1>3, ParseVariablesHeap
<1>4. CASE ParseStatements
  BY <1>4, ParseStatementsHeap
<1>5. CASE ParseExpression
  BY <1>5, ParseChainHeap DEF ParseExpression, ChainOperand, ChainOperators
<1>6. CASE ParseTerm
  BY <1>6, ParseChainHeap DEF ParseTerm, ChainOperand, ChainOperators
<1>7. CASE ParseFactor
  BY <1>7, ParseFactorHeap
<1>8. CASE Done \/ UNCHANGED vars
  BY <1>8 DEF Done, vars, Keeps, HeapStep
<1> QED
  BY <1>1, <1>2, <1>3, <1>4, <1>5, <1>6, <1>7, <1>8 DEF Next

-----------------------------------------------------------------------------
(* The lookahead, and where an assignment begins. *)
LEMMA SymbolStep ==
  ASSUME SymbolAtHand, [Next]_vars
  PROVE  SymbolAtHand'
<1>1. ASSUME UNCHANGED tok PROVE SymbolAtHand'
  BY <1>1 DEF SymbolAtHand
<1>2. ASSUME NEW types, NEW k, AcceptToken(types, k) PROVE SymbolAtHand'
  BY <1>2, SymbolDelivered DEF AcceptToken
<1>3. ASSUME NEW types, NEW default, NEW k, ExpectToken(types, default, k)
      PROVE  SymbolAtHand'
  BY <1>1, <1>2, <1>3 DEF ExpectToken
<1>4. ASSUME SkipToken PROVE SymbolAtHand'
  BY <1>4, SymbolDelivered DEF SkipToken
<1>5. ASSUME Return PROVE SymbolAtHand'
  BY <1>1, <1>5 DEF Return
<1>6. ASSUME NEW nt, NEW k, Call(nt, k) PROVE SymbolAtHand'
  BY <1>1, <1>6 DEF Call
<1>7. CASE Parse
  BY <1>7, SymbolDelivered DEF Parse
<1>8. CASE ParseScript
  BY <1>3, <1>5, <1>6, <1>8 DEF ParseScript
<1>9. CASE ParseVariables
  BY <1>2, <1>3, <1>4, <1>5, <1>9 DEF ParseVariables
<1>10. CASE ParseStatements
  BY <1>4, <1>5, <1>6, <1>10 DEF ParseStatements
<1>11. ASSUME NEW nt, NEW operand, NEW operators,
              ParseChain(nt, operand, operators)
       PROVE  SymbolAtHand'
  BY <1>2, <1>5, <1>6, <1>11 DEF ParseChain
<1>12. CASE ParseFactor
  BY <1>2, <1>3, <1>5, <1>6, <1>12, SymbolDelivered DEF ParseFactor
<1>13. CASE Done \/ UNCHANGED vars
  BY <1>1, <1>13 DEF Done, vars
<1> QED
  BY <1>7, <1>8, <1>9, <1>10, <1>11, <1>12, <1>13
     DEF Next, ParseExpression, ParseTerm

(* The children of the nodes when one is added. *)
LEMMA AddChildChildren ==
  ASSUME NEW heap \in Seq(Node), NEW n \in 1..Len(heap), NEW c \in Child
  PROVE  /\ Len(AddChild(heap, n, c)) = Len(heap)
         /\ DOMAIN AddChild(heap, n, c) = DOMAIN heap
         /\ \A m \in DOMAIN heap : AddChild(heap, n, c)[m].nt = heap[m].nt
         /\ \A m \in DOMAIN heap \ {n} : AddChild(heap, n, c)[m] = heap[m]
         /\ AddChild(heap, n, c)[n].children = Append(heap[n].children, c)
         /\ heap[n].children \in Seq(Child)
<1>1. /\ AddChild(heap, n, c) \in Seq(Node)
      /\ Len(AddChild(heap, n, c)) = Len(heap)
      /\ \A m \in 1..Len(heap) : m # n => AddChild(heap, n, c)[m] = heap[m]
      /\ AddChild(heap, n, c)[n].nt = heap[n].nt
  BY AddChildKinds
<1>2. DOMAIN heap = 1..Len(heap) /\ DOMAIN AddChild(heap, n, c) = 1..Len(heap)
  BY <1>1, LenProperties
<1>3. AddChild(heap, n, c)[n].children = Append(heap[n].children, c)
  BY <1>2 DEF AddChild
<1>4. heap[n].children \in Seq(Child)
  <2>1. heap[n] \in Node
    BY ElementOfSeq
  <2> QED
    BY <2>1 DEF Node
<1> QED
  BY <1>1, <1>2, <1>3, <1>4

(* A new child is the last. *)
LEMMA AppendChild ==
  ASSUME NEW cs \in Seq(Child), NEW c \in Child
  PROVE  /\ DOMAIN cs = 1..Len(cs) /\ Len(cs) \in Nat
         /\ DOMAIN Append(cs, c) = 1..(Len(cs) + 1)
         /\ \A i \in 1..Len(cs) : Append(cs, c)[i] = cs[i]
         /\ Append(cs, c)[Len(cs) + 1] = c
BY LenProperties, AppendProperties

(* ast_make_nonterminal adds a node without children. *)
LEMMA MakeNonterminalChildren ==
  ASSUME NEW heap \in Seq(Node), NEW nt \in NonTerminals
  PROVE  /\ DOMAIN heap = 1..Len(heap) /\ Len(heap) \in Nat
         /\ DOMAIN MakeNonterminal(heap, nt) = 1..(Len(heap) + 1)
         /\ \A m \in 1..Len(heap) : MakeNonterminal(heap, nt)[m] = heap[m]
         /\ MakeNonterminal(heap, nt)[Len(heap) + 1].nt = nt
         /\ MakeNonterminal(heap, nt)[Len(heap) + 1].children = << >>
<1> DEFINE new == [nt |-> nt, children |-> << >>]
<1>1. new \in Node
  BY EmptySeq DEF Node
<1>2. new.nt = nt /\ new.children = << >>
  OBVIOUS
<1>3. MakeNonterminal(heap, nt) = Append(heap, new)
  BY DEF MakeNonterminal
<1> HIDE DEF new
<1> QED
  BY <1>1, <1>2, <1>3, LenProperties, AppendProperties

-----------------------------------------------------------------------------
(* The node at the top of the stack, after each of the steps. *)
LEMMA TerminalTop ==
  ASSUME IInv, stack # << >>, NEW k \in Nat, stack' = GoTo(k)
  PROVE  /\ Top' = Top /\ Tree' = Tree /\ Step' = k
         /\ DOMAIN stack' = DOMAIN stack
         /\ \A d \in DOMAIN stack : stack'[d].node = stack[d].node
<1>1. /\ stack \in Seq(Activation) /\ Top \in 1..Len(stack)
      /\ stack[Top] \in Activation
  BY RunningActivation DEF IInv, TypeOK
<1>2. DOMAIN stack = 1..Len(stack) /\ Len(stack) \in Nat
  BY <1>1, LenProperties
<1> DEFINE new == [node |-> Tree, step |-> k]
<1>3. new.node = Tree /\ new.step = k /\ new \in Activation
  BY <1>1 DEF Tree, Activation
<1>4. stack' = [stack EXCEPT ![Top] = new]
  BY DEF GoTo
<1> HIDE DEF new
<1>5. /\ DOMAIN stack' = DOMAIN stack
      /\ stack'[Top] = new
      /\ \A d \in DOMAIN stack : d # Top => stack'[d] = stack[d]
  BY <1>1, <1>2, <1>4
<1>6. Len(stack') = Len(stack)
  BY <1>1, <1>3, <1>4, ExceptSeq
<1> QED
  BY <1>3, <1>5, <1>6 DEF Top, Tree, Step

(* A call puts the new node on the stack. *)
LEMMA CallTop ==
  ASSUME IInv, stack # << >>, NEW nt \in NonTerminals, NEW k \in Nat, Call(nt, k)
  PROVE  /\ Len(stack') = Len(stack) + 1 /\ stack' # << >>
         /\ DOMAIN stack' = 1..(Len(stack) + 1) /\ Len(stack) \in Nat
         /\ \A d \in 1..Len(stack) : stack'[d].node = stack[d].node
         /\ stack'[Len(stack) + 1].node = Len(nodes) + 1
         /\ Tree' = Len(nodes) + 1
<1>1. /\ stack \in Seq(Activation) /\ Top \in 1..Len(stack)
      /\ stack[Top] \in Activation /\ nodes \in Seq(Node)
  BY RunningActivation DEF IInv, TypeOK
<1>2. /\ DOMAIN stack = 1..Len(stack) /\ Len(stack) \in Nat
      /\ Len(nodes) \in Nat
  BY <1>1, LenProperties
<1> DEFINE new == [node |-> Tree, step |-> k]
           callee == [node |-> Len(nodes) + 1, step |-> 1]
<1>3. new.node = Tree /\ new \in Activation
  BY <1>1 DEF Tree, Activation
<1>4. callee.node = Len(nodes) + 1 /\ callee \in Activation
  BY <1>2 DEF Activation
<1>5. stack' = Append([stack EXCEPT ![Top] = new], callee)
  BY DEF Call, GoTo
<1> HIDE DEF new, callee
<1>6. /\ [stack EXCEPT ![Top] = new] \in Seq(Activation)
      /\ Len([stack EXCEPT ![Top] = new]) = Len(stack)
      /\ \A d \in 1..Len(stack) :
           [stack EXCEPT ![Top] = new][d] = IF d = Top THEN new ELSE stack[d]
  BY <1>1, <1>3, ExceptSeq
<1>7. /\ Len(stack') = Len(stack) + 1 /\ DOMAIN stack' = 1..(Len(stack) + 1)
      /\ \A d \in 1..Len(stack) :
           stack'[d] = IF d = Top THEN new ELSE stack[d]
      /\ stack'[Len(stack) + 1] = callee
  BY <1>4, <1>5, <1>6, <1>2, AppendProperties, LenProperties
<1>8. \A d \in 1..Len(stack) : stack'[d].node = stack[d].node
  BY <1>3, <1>7 DEF Tree
<1>9. Tree' = Len(nodes) + 1
  BY <1>4, <1>7 DEF Tree, Top
<1> QED
  BY <1>2, <1>4, <1>7, <1>8, <1>9

(* A return takes it off. *)
LEMMA ReturnTop ==
  ASSUME IInv, stack # << >>, Return
  PROVE  /\ Len(stack) \in Nat /\ Len(stack) >= 1 /\ Top = Len(stack)
         /\ Len(stack') = Len(stack) - 1
         /\ DOMAIN stack = 1..Len(stack)
         /\ DOMAIN stack' = 1..(Len(stack) - 1)
         /\ \A d \in 1..(Len(stack) - 1) : stack'[d] = stack[d]
         /\ stack' # << >> =>
              /\ Len(stack) >= 2
              /\ Tree' = stack[Top - 1].node
              /\ Step' = stack[Top - 1].step
<1>1. stack \in Seq(Activation) /\ Top \in 1..Len(stack) /\ Top = Len(stack)
  BY RunningActivation DEF IInv, TypeOK, Top
<1>2. Len(stack) \in Nat /\ DOMAIN stack = 1..Len(stack)
  BY <1>1, LenProperties
<1>3. stack' = SubSeq(stack, 1, Len(stack) - 1)
  BY <1>1 DEF Return
<1>4. /\ stack' \in Seq(Activation)
      /\ Len(stack') = Len(stack) - 1
      /\ \A d \in 1..(Len(stack) - 1) : stack'[d] = stack[d]
  BY <1>1, <1>2, <1>3, SubSeqProperties
<1>5. DOMAIN stack' = 1..(Len(stack) - 1)
  BY <1>4, LenProperties
<1>6. stack' # << >> => Len(stack) >= 2
  BY <1>2, <1>4, EmptySeq
<1> QED
  BY <1>1, <1>2, <1>4, <1>5, <1>6 DEF Tree, Step, Top

-----------------------------------------------------------------------------
(* The first node is the root, a source. *)
LEMMA RootNodeStep ==
  ASSUME IInv, RootFirst, HeapStep, nodes' # << >>
  PROVE  nodes'[1].nt = "source"
<1>0. /\ nodes \in Seq(Node) /\ Len(nodes) \in Nat
      /\ DOMAIN nodes = 1..Len(nodes)
  BY LenProperties DEF IInv, TypeOK
<1>1. ASSUME stack # << >>
      PROVE  1 \in DOMAIN nodes /\ nodes[1].nt = "source"
  <2>1. Tree \in 1..Len(nodes)
    BY <1>1, RunningActivation
  <2>2. 1 \in DOMAIN nodes
    BY <1>0, <2>1
  <2>3. nodes # << >>
    BY <1>0, <2>2, EmptySeq
  <2> QED
    BY <2>2, <2>3 DEF RootFirst
<1>2. CASE AddsTerminal
  <2>1. PICK c \in Child :
          stack # << >> /\ nodes' = AddChild(nodes, Tree, c)
    BY <1>2 DEF AddsTerminal
  <2>2. Tree \in 1..Len(nodes)
    BY <2>1, RunningActivation
  <2> QED
    BY <1>0, <1>1, <2>1, <2>2, AddChildChildren
<1>3. CASE Calls
  <2>1. PICK nt \in NonTerminals :
          stack # << >> /\ nodes' = MakeNonterminal(nodes, nt)
    BY <1>3 DEF Calls, Call
  <2> QED
    BY <1>0, <1>1, <2>1, MakeNonterminalChildren
<1>4. CASE Returns
  <2>1. stack # << >> /\ Return /\ Top \in Nat /\ Top >= 1
        /\ Top = Len(stack) /\ Len(stack) \in Nat
    BY <1>4, ReturnTop DEF Returns
  <2>2. CASE Top = 1
    BY <1>1, <2>1, <2>2 DEF Return
  <2>3. CASE Top # 1
    <3> DEFINE p == stack[Top - 1].node
               c == Subtree(nodes[Tree].nt, Tree)
    <3>1. Top - 1 \in 1..Len(stack)
      BY <2>1, <2>3
    <3>2. p \in 1..Len(nodes) /\ Tree \in 1..Len(nodes)
          /\ nodes[Tree].nt \in NonTerminals
      BY <2>1, <3>1, RunningActivation DEF IInv, StackOrdered
    <3>3. c \in Child
      BY <1>0, <3>2 DEF Subtree, Child, Attrs
    <3>4. nodes' = AddChild(nodes, p, c)
      BY <2>1, <2>3 DEF Return
    <3> HIDE DEF p, c
    <3> QED
      BY <1>0, <1>1, <2>1, <3>2, <3>3, <3>4, AddChildChildren
  <2> QED
    BY <2>2, <2>3
<1>5. CASE Begins
  <2>1. Len(nodes) = 0 /\ "source" \in NonTerminals
    BY <1>5 DEF Begins, NonTerminals
  <2>2. MakeNonterminal(nodes, "source")[Len(nodes) + 1].nt = "source"
    BY <1>0, <2>1, MakeNonterminalChildren
  <2>3. Len(nodes) + 1 = 1 /\ nodes' = MakeNonterminal(nodes, "source")
    BY <1>5, <2>1 DEF Begins
  <2> QED
    BY <2>2, <2>3
<1>6. CASE Keeps
  BY <1>6 DEF Keeps, RootFirst
<1> QED
  BY <1>2, <1>3, <1>4, <1>5, <1>6 DEF HeapStep

(* The first activation is that of the root. *)
LEMMA RootStep ==
  ASSUME IInv, RootFirst, HeapStep
  PROVE  RootFirst'
<1>0. nodes' # << >> => nodes'[1].nt = "source"
  BY RootNodeStep
<1>1. CASE AddsTerminal
  <2>1. PICK k \in Nat : stack # << >> /\ stack' = GoTo(k)
    BY <1>1 DEF AddsTerminal
  <2>2. 1 \in DOMAIN stack
    BY <2>1, RunningActivation, LenProperties DEF IInv, TypeOK
  <2> QED
    BY <2>1, <1>0, <2>2, TerminalTop DEF RootFirst
<1>2. CASE Calls
  <2>1. PICK nt \in NonTerminals, k \in Nat : stack # << >> /\ Call(nt, k)
    BY <1>2 DEF Calls
  <2>2. 1 \in 1..Len(stack)
    BY <2>1, RunningActivation
  <2> QED
    BY <2>1, <1>0, <2>2, CallTop DEF RootFirst
<1>3. CASE Returns
  <2>1. stack # << >> /\ Return
    BY <1>3 DEF Returns
  <2>2. stack' # << >> => 1 \in 1..(Len(stack) - 1)
    BY <2>1, ReturnTop
  <2> QED
    BY <2>1, <1>0, <2>2, ReturnTop DEF RootFirst
<1>4. CASE Begins
  BY <1>0, <1>4 DEF Begins, RootFirst
<1>5. CASE Keeps
  BY <1>0, <1>5 DEF Keeps, RootFirst
<1> QED
  BY <1>1, <1>2, <1>3, <1>4, <1>5 DEF HeapStep

(* A caller is past its first step, if that is to expect a token. *)
LEMMA CallerPast ==
  ASSUME IInv, NEW d \in 1..Len(stack), d < Len(stack),
         nodes[stack[d].node].nt = "assign"
  PROVE  stack[d].step # 1
<1>1. /\ stack \in Seq(Activation) /\ nodes \in Seq(Node) /\ Len(stack) \in Nat
      /\ stack[d].node \in 1..Len(nodes) /\ stack[d + 1].node \in 1..Len(nodes)
  BY LenProperties DEF IInv, TypeOK, StackOrdered
<1>2. Progress("assign", stack[d].step, Pending(d))
  BY DEF IInv, FramesProgress
<1>3. ScriptProgress(AssignScript, stack[d].step, Pending(d))
  BY <1>2, ScriptNames, ProgressCases
<1>4. Len(Pending(d)) = stack[d].step - 1
  BY <1>3 DEF ScriptProgress
<1>5. /\ nodes[stack[d].node] \in Node
      /\ nodes[stack[d + 1].node] \in Node
  BY <1>1, ElementOfSeq
<1>6. /\ Kinds(nodes[stack[d].node]) \in Seq(Kind)
      /\ nodes[stack[d + 1].node].nt \in Kind
  BY <1>5, KindsType DEF Node, Kind
<1>7. Pending(d) = Append(Kinds(nodes[stack[d].node]), nodes[stack[d + 1].node].nt)
  BY DEF Pending
<1>8. Len(Pending(d)) = Len(Kinds(nodes[stack[d].node])) + 1
      /\ Len(Kinds(nodes[stack[d].node])) \in Nat
  BY <1>6, <1>7, AppendKind
<1> QED
  BY <1>1, <1>4, <1>8

(* AssignAtIdentifier is preserved. *)
LEMMA AssignStep ==
  ASSUME IInv, AssignAtIdentifier, HeapStep
  PROVE  AssignAtIdentifier'
<1>0. nodes \in Seq(Node)
  BY DEF IInv, TypeOK
<1>1. CASE AddsTerminal
  <2>1. PICK c \in Child, k \in Nat :
          /\ stack # << >>
          /\ nodes' = AddChild(nodes, Tree, c) /\ stack' = GoTo(k)
          /\ nodes[Tree].nt = "assign" => k # 1
    BY <1>1 DEF AddsTerminal
  <2>2. Tree \in 1..Len(nodes)
    BY <2>1, RunningActivation
  <2>3. nodes'[Tree].nt = nodes[Tree].nt
    BY <1>0, <2>1, <2>2, AddChildKinds
  <2>4. Tree' = Tree /\ Step' = k
    BY <2>1, TerminalTop
  <2> QED
    BY <2>1, <2>3, <2>4 DEF AssignAtIdentifier
<1>2. CASE Calls
  <2>1. PICK nt \in NonTerminals, k \in Nat :
          /\ stack # << >> /\ Call(nt, k)
          /\ nt = "assign" => tok.type = "IDENTIFIER"
    BY <1>2 DEF Calls
  <2>2. Tree' = Len(nodes) + 1 /\ tok' = tok
    BY <2>1, CallTop DEF Call
  <2>3. nodes'[Len(nodes) + 1].nt = nt
    BY <1>0, <2>1, MakeNonterminalChildren DEF Call
  <2> QED
    BY <2>1, <2>2, <2>3 DEF AssignAtIdentifier
<1>3. CASE Returns
  <2> DEFINE p == stack[Top - 1].node
  <2> SUFFICES ASSUME stack' # << >>, nodes'[Tree'].nt = "assign", Step' = 1
               PROVE  FALSE
    BY DEF AssignAtIdentifier
  <2>1. /\ stack # << >> /\ Return
        /\ Top = Len(stack) /\ Len(stack) >= 2 /\ Len(stack) \in Nat
        /\ Tree' = p /\ Step' = stack[Top - 1].step
    BY <1>3, ReturnTop DEF Returns
  <2>2. Top - 1 \in 1..Len(stack) /\ Top - 1 < Len(stack)
    BY <2>1
  <2>3. p \in 1..Len(nodes) /\ Tree \in 1..Len(nodes) /\ nodes[Tree].nt \in NonTerminals
    BY <2>1, <2>2, RunningActivation DEF IInv, StackOrdered
  <2>4. Subtree(nodes[Tree].nt, Tree) \in Child
    BY <1>0, <2>3, LenProperties DEF Subtree, Child, Attrs
  <2>5. nodes' = AddChild(nodes, p, Subtree(nodes[Tree].nt, Tree))
    BY <2>1 DEF Return
  <2>6. nodes'[p].nt = nodes[p].nt
    BY <1>0, <2>3, <2>4, <2>5, AddChildKinds
  <2> QED
    BY <2>1, <2>2, <2>6, CallerPast
<1>4. CASE Begins
  <2>1. Tree' = 1
    BY <1>4 DEF Begins, Tree, Top
  <2>2. "source" \in NonTerminals /\ Len(nodes) = 0
    BY <1>4 DEF Begins, NonTerminals
  <2>3. nodes'[1].nt = "source"
    <3>1. MakeNonterminal(nodes, "source")[Len(nodes) + 1].nt = "source"
      BY <1>0, <2>2, MakeNonterminalChildren
    <3>2. Len(nodes) + 1 = 1 /\ nodes' = MakeNonterminal(nodes, "source")
      BY <1>4, <2>2 DEF Begins
    <3> QED
      BY <3>1, <3>2
  <2> QED
    BY <2>1, <2>3 DEF AssignAtIdentifier
<1>5. CASE Keeps
  <2>1. Tree' = Tree /\ Step' = Step /\ UNCHANGED <<nodes, stack>>
    BY <1>5 DEF Keeps, Tree, Step, Top
  <2> QED
    BY <1>5, <2>1 DEF AssignAtIdentifier, Keeps
<1> QED
  BY <1>1, <1>2, <1>3, <1>4, <1>5 DEF HeapStep

-----------------------------------------------------------------------------
(* A step that adds no subtree, and finishes no node, keeps the links. *)
LEMMA SameLinks ==
  ASSUME TreeLinked,
         DOMAIN nodes \subseteq DOMAIN nodes',
         \A n \in DOMAIN nodes :
           /\ nodes'[n].nt = nodes[n].nt
           /\ SubtreesOf(n)' = SubtreesOf(n)
           /\ \A i \in SubtreesOf(n) :
                nodes'[n].children[i] = nodes[n].children[i],
         \A n \in DOMAIN nodes' \ DOMAIN nodes : SubtreesOf(n)' = {},
         Finished' = Finished
  PROVE  TreeLinked'
<1>0. Finished \subseteq DOMAIN nodes
  BY DEF Finished
<1>1. ASSUME NEW n \in DOMAIN nodes', NEW i \in SubtreesOf(n)'
      PROVE  /\ n \in DOMAIN nodes /\ i \in SubtreesOf(n)
             /\ nodes'[n].children[i] = nodes[n].children[i]
  BY <1>1
<1>2. ASSUME NEW n \in DOMAIN nodes', NEW i \in SubtreesOf(n)'
      PROVE  LET c == nodes'[n].children[i]
             IN c.at \in Finished' /\ c.at > n /\ nodes'[c.at].nt = c.type
  BY <1>0, <1>1, <1>2 DEF TreeLinked
<1>3. ASSUME NEW m \in Finished' \ {1}
      PROVE  \E n \in DOMAIN nodes' : \E i \in SubtreesOf(n)' :
               /\ nodes'[n].children[i].at = m
               /\ \A k \in DOMAIN nodes' : \A j \in SubtreesOf(k)' :
                    nodes'[k].children[j].at = m => k = n /\ j = i
  <2>1. PICK n \in DOMAIN nodes :
          \E i \in SubtreesOf(n) :
            /\ nodes[n].children[i].at = m
            /\ \A k \in DOMAIN nodes : \A j \in SubtreesOf(k) :
                 nodes[k].children[j].at = m => k = n /\ j = i
    BY <1>3 DEF TreeLinked
  <2>2. PICK i \in SubtreesOf(n) :
          /\ nodes[n].children[i].at = m
          /\ \A k \in DOMAIN nodes : \A j \in SubtreesOf(k) :
               nodes[k].children[j].at = m => k = n /\ j = i
    BY <2>1
  <2>3. n \in DOMAIN nodes' /\ i \in SubtreesOf(n)' /\ nodes'[n].children[i].at = m
    BY <2>2
  <2>4. \A k \in DOMAIN nodes' : \A j \in SubtreesOf(k)' :
          nodes'[k].children[j].at = m => k = n /\ j = i
    BY <1>1, <2>2
  <2> QED
    BY <2>3, <2>4
<1> QED
  BY <1>2, <1>3 DEF TreeLinked

(* The places of the subtrees when a child is added. *)
LEMMA SubtreesAdded ==
  ASSUME NEW cs \in Seq(Child), NEW c \in Child
  PROVE  {i \in DOMAIN Append(cs, c) : Append(cs, c)[i].type \in NonTerminals}
           = {i \in DOMAIN cs : cs[i].type \in NonTerminals}
             \cup {i \in {Len(cs) + 1} : c.type \in NonTerminals}
BY AppendChild

(* A terminal is no link to a node. *)
LEMMA LinkedTerminal ==
  ASSUME IInv, TreeLinked, AddsTerminal
  PROVE  TreeLinked'
<1>1. PICK c \in Child, k \in Nat :
        /\ stack # << >>
        /\ nodes' = AddChild(nodes, Tree, c) /\ stack' = GoTo(k)
        /\ c.type \in TokenTypes
  BY DEF AddsTerminal
<1>2. nodes \in Seq(Node) /\ Tree \in 1..Len(nodes) /\ c.type \notin NonTerminals
  BY <1>1, RunningActivation, TypesApart DEF IInv, TypeOK
<1> DEFINE cs == nodes[Tree].children
<1>3. /\ DOMAIN nodes' = DOMAIN nodes
      /\ \A m \in DOMAIN nodes : nodes'[m].nt = nodes[m].nt
      /\ \A m \in DOMAIN nodes \ {Tree} : nodes'[m] = nodes[m]
      /\ nodes'[Tree].children = Append(cs, c)
      /\ cs \in Seq(Child)
  BY <1>1, <1>2, AddChildChildren
<1>4. Finished' = Finished
  <2>1. /\ DOMAIN stack' = DOMAIN stack
        /\ \A d \in DOMAIN stack : stack'[d].node = stack[d].node
    BY <1>1, TerminalTop
  <2>2. {stack'[d].node : d \in DOMAIN stack'} = {stack[d].node : d \in DOMAIN stack}
    BY <2>1
  <2> QED
    BY <1>3, <2>2 DEF Finished
<1>5. ASSUME NEW n \in DOMAIN nodes
      PROVE  /\ SubtreesOf(n)' = SubtreesOf(n)
             /\ \A i \in SubtreesOf(n) :
                  nodes'[n].children[i] = nodes[n].children[i]
  <2>1. CASE n # Tree
    BY <1>3, <1>5, <2>1 DEF SubtreesOf
  <2>2. CASE n = Tree
    <3>1. SubtreesOf(n)' = {i \in DOMAIN Append(cs, c) :
                              Append(cs, c)[i].type \in NonTerminals}
      BY <1>3, <2>2 DEF SubtreesOf
    <3>2. SubtreesOf(n) = {i \in DOMAIN cs : cs[i].type \in NonTerminals}
      BY <2>2 DEF SubtreesOf
    <3> HIDE DEF cs
    <3>3. SubtreesOf(n)' = SubtreesOf(n)
      BY <1>2, <1>3, <3>1, <3>2, SubtreesAdded
    <3>4. \A i \in SubtreesOf(n) : Append(cs, c)[i] = cs[i]
      BY <1>3, <3>2, AppendChild
    <3> QED
      BY <1>3, <2>2, <3>3, <3>4 DEF cs
  <2> QED
    BY <2>1, <2>2
<1> QED
  BY <1>3, <1>4, <1>5, SameLinks

(* A new node is linked from the node of its caller. *)
LEMMA LinkedCall ==
  ASSUME IInv, TreeLinked, Calls
  PROVE  TreeLinked'
<1>1. PICK nt \in NonTerminals, k \in Nat : stack # << >> /\ Call(nt, k)
  BY DEF Calls
<1>2. /\ DOMAIN nodes = 1..Len(nodes) /\ Len(nodes) \in Nat
      /\ DOMAIN nodes' = 1..(Len(nodes) + 1)
      /\ \A m \in 1..Len(nodes) : nodes'[m] = nodes[m]
      /\ nodes'[Len(nodes) + 1].children = << >>
  BY <1>1, MakeNonterminalChildren DEF Call, IInv, TypeOK
<1>3. /\ DOMAIN stack' = 1..(Len(stack) + 1) /\ DOMAIN stack = 1..Len(stack)
      /\ Len(stack) \in Nat
      /\ \A d \in 1..Len(stack) : stack'[d].node = stack[d].node
      /\ stack'[Len(stack) + 1].node = Len(nodes) + 1
  BY <1>1, CallTop, LenProperties DEF IInv, TypeOK
<1>4. Finished' = Finished
  <2>1. {stack'[d].node : d \in DOMAIN stack'}
          = {stack[d].node : d \in DOMAIN stack} \cup {Len(nodes) + 1}
    BY <1>3
  <2>2. DOMAIN nodes' = DOMAIN nodes \cup {Len(nodes) + 1}
    BY <1>2
  <2>3. Len(nodes) + 1 \notin DOMAIN nodes
    BY <1>2
  <2> QED
    BY <2>1, <2>2, <2>3 DEF Finished
<1>5. ASSUME NEW n \in DOMAIN nodes
      PROVE  /\ nodes'[n].nt = nodes[n].nt
             /\ SubtreesOf(n)' = SubtreesOf(n)
             /\ \A i \in SubtreesOf(n) :
                  nodes'[n].children[i] = nodes[n].children[i]
  BY <1>2 DEF SubtreesOf
<1>6. ASSUME NEW n \in DOMAIN nodes' \ DOMAIN nodes
      PROVE  SubtreesOf(n)' = {}
  <2>1. n = Len(nodes) + 1
    BY <1>2
  <2>2. nodes'[n].children = << >>
    BY <1>2, <2>1
  <2> QED
    BY <2>2 DEF SubtreesOf
<1>7. DOMAIN nodes \subseteq DOMAIN nodes'
  BY <1>2
<1> QED
  BY <1>4, <1>5, <1>6, <1>7, SameLinks

(* The root is linked from nowhere. *)
LEMMA LinkedBegin ==
  ASSUME IInv, Begins
  PROVE  TreeLinked'
<1>1. nodes \in Seq(Node) /\ Len(nodes) = 0 /\ "source" \in NonTerminals
  BY DEF Begins, IInv, TypeOK, NonTerminals
<1>2. DOMAIN nodes' = 1..1 /\ nodes'[1].children = << >>
  <2>1. /\ DOMAIN MakeNonterminal(nodes, "source") = 1..(Len(nodes) + 1)
        /\ MakeNonterminal(nodes, "source")[Len(nodes) + 1].children = << >>
    BY <1>1, MakeNonterminalChildren
  <2>2. Len(nodes) + 1 = 1
    BY <1>1
  <2> QED
    BY <2>1, <2>2 DEF Begins
<1>3. \A n \in DOMAIN nodes' : SubtreesOf(n)' = {}
  BY <1>2 DEF SubtreesOf
<1>4. Finished' = {}
  <2>1. 1 \in DOMAIN stack' /\ stack'[1].node = 1
    BY DEF Begins
  <2> QED
    BY <1>2, <2>1 DEF Finished
<1> QED
  BY <1>3, <1>4 DEF TreeLinked

(* The finished node becomes a child of its caller's, which is older. *)
LEMMA LinkedReturn ==
  ASSUME IInv, RootFirst, TreeLinked, Returns
  PROVE  TreeLinked'
<1>1. stack # << >> /\ Return
  BY DEF Returns
<1>2. /\ Len(stack) \in Nat /\ Len(stack) >= 1 /\ Top = Len(stack)
      /\ DOMAIN stack = 1..Len(stack) /\ DOMAIN stack' = 1..(Len(stack) - 1)
      /\ \A d \in 1..(Len(stack) - 1) : stack'[d] = stack[d]
  BY <1>1, ReturnTop
<1>3. /\ nodes \in Seq(Node) /\ Tree \in 1..Len(nodes)
      /\ nodes[Tree].nt \in NonTerminals
      /\ DOMAIN nodes = 1..Len(nodes) /\ Len(nodes) \in Nat
  BY <1>1, RunningActivation, LenProperties DEF IInv, TypeOK
<1>4. \A d \in 1..(Len(stack) - 1) : stack[d].node # Tree
  BY <1>1, <1>2, <1>3, RunningActivation DEF IInv, StackOrdered
<1>5. {stack'[d].node : d \in DOMAIN stack'}
        = {stack[d].node : d \in DOMAIN stack} \ {Tree}
  <2>1. stack[Len(stack)].node = Tree
    BY <1>2 DEF Tree
  <2>2. DOMAIN stack = DOMAIN stack' \cup {Len(stack)}
    BY <1>2
  <2> QED
    BY <1>2, <1>4, <2>1, <2>2
<1>6. Tree \in {stack[d].node : d \in DOMAIN stack} /\ Tree \notin Finished
  BY <1>2 DEF Tree, Finished
<1>7. CASE Top = 1
  <2>1. nodes' = nodes /\ Tree = 1
    BY <1>1, <1>7 DEF Return, RootFirst, Tree
  <2>2. Finished' = Finished \cup {1}
    BY <1>3, <1>5, <1>6, <2>1 DEF Finished
  <2>3. Finished' \ {1} = Finished \ {1} /\ Finished \subseteq Finished'
    BY <2>2
  <2>4. \A n \in DOMAIN nodes : SubtreesOf(n)' = SubtreesOf(n)
    BY <2>1 DEF SubtreesOf
  <2> QED
    BY <2>1, <2>3, <2>4 DEF TreeLinked
<1>8. CASE Top # 1
  <2>0. PICK p : p = stack[Top - 1].node
    OBVIOUS
  <2> DEFINE c == Subtree(nodes[Tree].nt, Tree)
             cs == nodes[p].children
             new == Len(cs) + 1
  <2>1. p \in 1..Len(nodes) /\ p < Tree /\ Top - 1 \in 1..(Len(stack) - 1)
    BY <1>1, <1>2, <1>8, <2>0, RunningActivation DEF IInv, StackOrdered
  <2>2. /\ c \in Child /\ c.type = nodes[Tree].nt /\ c.at = Tree
        /\ c.type \in NonTerminals
    BY <1>3 DEF Subtree, Child, Attrs
  <2>3. nodes' = AddChild(nodes, p, c)
    BY <1>1, <1>8, <2>0 DEF Return
  <2> HIDE DEF c
  <2>4. /\ DOMAIN nodes' = DOMAIN nodes
        /\ \A m \in DOMAIN nodes : nodes'[m].nt = nodes[m].nt
        /\ \A m \in DOMAIN nodes \ {p} : nodes'[m] = nodes[m]
        /\ nodes'[p].children = Append(cs, c)
        /\ cs \in Seq(Child)
    BY <1>3, <2>1, <2>2, <2>3, AddChildChildren
  <2>5. Finished' = Finished \cup {Tree}
    BY <1>3, <1>5, <1>6, <2>4 DEF Finished
  <2>6. ASSUME NEW n \in DOMAIN nodes, n # p
        PROVE  /\ SubtreesOf(n)' = SubtreesOf(n)
               /\ \A i \in SubtreesOf(n) :
                    nodes'[n].children[i] = nodes[n].children[i]
    BY <2>4, <2>6 DEF SubtreesOf
  <2>7. /\ SubtreesOf(p)' = SubtreesOf(p) \cup {new}
        /\ \A i \in SubtreesOf(p) : nodes'[p].children[i] = nodes[p].children[i]
        /\ nodes'[p].children[new] = c
        /\ new \notin SubtreesOf(p)
    <3>1. SubtreesOf(p)' = {i \in DOMAIN Append(cs, c) :
                              Append(cs, c)[i].type \in NonTerminals}
      BY <2>4 DEF SubtreesOf
    <3>2. SubtreesOf(p) = {i \in DOMAIN cs : cs[i].type \in NonTerminals}
      BY DEF SubtreesOf
    <3>3. /\ DOMAIN cs = 1..Len(cs) /\ Len(cs) \in Nat
          /\ \A i \in 1..Len(cs) : Append(cs, c)[i] = cs[i]
          /\ Append(cs, c)[Len(cs) + 1] = c
      BY <2>2, <2>4, AppendChild
    <3>4. nodes'[p].children = Append(cs, c) /\ cs = nodes[p].children
      BY <2>4
    <3> HIDE DEF cs
    <3>5. SubtreesOf(p)' = SubtreesOf(p) \cup {new}
      BY <2>2, <2>4, <3>1, <3>2, SubtreesAdded
    <3> QED
      BY <3>2, <3>3, <3>4, <3>5
  <2> HIDE DEF new, cs
  <2>8. ASSUME NEW n \in DOMAIN nodes, NEW i \in SubtreesOf(n)'
        PROVE  \/ n = p /\ i = new /\ nodes'[n].children[i] = c
               \/ i \in SubtreesOf(n) /\ nodes'[n].children[i] = nodes[n].children[i]
    BY <2>6, <2>7, <2>8
  <2>9. ASSUME NEW n \in DOMAIN nodes', NEW i \in SubtreesOf(n)'
        PROVE  LET d == nodes'[n].children[i]
               IN d.at \in Finished' /\ d.at > n /\ nodes'[d.at].nt = d.type
    <3>1. CASE n = p /\ i = new /\ nodes'[n].children[i] = c
      BY <1>3, <2>1, <2>2, <2>4, <2>5, <3>1
    <3>2. CASE i \in SubtreesOf(n) /\ nodes'[n].children[i] = nodes[n].children[i]
      <4> DEFINE d == nodes[n].children[i]
      <4>1. d.at \in Finished /\ d.at > n /\ nodes[d.at].nt = d.type
        BY <2>4, <2>9, <3>2 DEF TreeLinked
      <4>2. d.at \in DOMAIN nodes
        BY <4>1 DEF Finished
      <4> QED
        BY <2>4, <2>5, <3>2, <4>1, <4>2
    <3> QED
      BY <2>4, <2>8, <2>9, <3>1, <3>2
  <2>10. ASSUME NEW m \in Finished' \ {1}
         PROVE  \E n \in DOMAIN nodes' : \E i \in SubtreesOf(n)' :
                  /\ nodes'[n].children[i].at = m
                  /\ \A k \in DOMAIN nodes' : \A j \in SubtreesOf(k)' :
                       nodes'[k].children[j].at = m => k = n /\ j = i
    <3>1. CASE m = Tree
      <4>1. \A k \in DOMAIN nodes : \A j \in SubtreesOf(k) :
              nodes[k].children[j].at # Tree
        BY <1>6 DEF TreeLinked
      <4>2. \A k \in DOMAIN nodes' : \A j \in SubtreesOf(k)' :
              nodes'[k].children[j].at = m => k = p /\ j = new
        BY <2>4, <2>8, <3>1, <4>1
      <4>3. /\ p \in DOMAIN nodes' /\ new \in SubtreesOf(p)'
            /\ nodes'[p].children[new].at = m
        BY <1>3, <2>1, <2>2, <2>4, <2>7, <3>1
      <4> QED
        BY <4>2, <4>3
    <3>2. CASE m # Tree
      <4>1. m \in Finished \ {1}
        BY <2>5, <2>10, <3>2
      <4>2. PICK n \in DOMAIN nodes :
              \E i \in SubtreesOf(n) :
                /\ nodes[n].children[i].at = m
                /\ \A k \in DOMAIN nodes : \A j \in SubtreesOf(k) :
                     nodes[k].children[j].at = m => k = n /\ j = i
        BY <4>1 DEF TreeLinked
      <4>3. PICK i \in SubtreesOf(n) :
              /\ nodes[n].children[i].at = m
              /\ \A k \in DOMAIN nodes : \A j \in SubtreesOf(k) :
                   nodes[k].children[j].at = m => k = n /\ j = i
        BY <4>2
      <4>4. /\ n \in DOMAIN nodes' /\ i \in SubtreesOf(n)'
            /\ nodes'[n].children[i].at = m
        BY <2>4, <2>6, <2>7, <4>3
      <4>5. \A k \in DOMAIN nodes' : \A j \in SubtreesOf(k)' :
              nodes'[k].children[j].at = m => k = n /\ j = i
        BY <2>2, <2>4, <2>8, <3>2, <4>3
      <4> QED
        BY <4>4, <4>5
    <3> QED
      BY <3>1, <3>2
  <2> QED
    BY <2>9, <2>10 DEF TreeLinked
<1> QED
  BY <1>7, <1>8

(* Each of the five keeps the tree a tree. *)
LEMMA LinkedStep ==
  ASSUME IInv, RootFirst, TreeLinked, HeapStep
  PROVE  TreeLinked'
<1>1. CASE Keeps
  <2>1. UNCHANGED <<nodes, stack>>
    BY <1>1 DEF Keeps
  <2> QED
    BY <2>1 DEF TreeLinked, SubtreesOf, Finished
<1> QED
  BY <1>1, LinkedTerminal, LinkedCall, LinkedReturn, LinkedBegin DEF HeapStep

-----------------------------------------------------------------------------
(* The attributes fit when a child that fits is added. *)
LEMMA FitsAdded ==
  ASSUME AttributesFit, nodes \in Seq(Node),
         NEW n \in 1..Len(nodes), NEW c \in Child,
         nodes' = AddChild(nodes, n, c),
         Fits(nodes[n].nt, c)
  PROVE  AttributesFit'
<1> DEFINE cs == nodes[n].children
<1>1. /\ DOMAIN nodes' = DOMAIN nodes
      /\ \A m \in DOMAIN nodes : nodes'[m].nt = nodes[m].nt
      /\ \A m \in DOMAIN nodes \ {n} : nodes'[m] = nodes[m]
      /\ nodes'[n].children = Append(cs, c)
      /\ cs \in Seq(Child)
  BY AddChildChildren
<1>2. n \in DOMAIN nodes
  BY LenProperties
<1>3. ASSUME NEW m \in DOMAIN nodes, NEW i \in DOMAIN nodes'[m].children
      PROVE  Fits(nodes'[m].nt, nodes'[m].children[i])
  <2>1. CASE m # n
    BY <1>1, <1>3, <2>1 DEF AttributesFit
  <2>2. CASE m = n
    <3>1. i \in 1..(Len(cs) + 1) /\ Len(cs) \in Nat /\ DOMAIN cs = 1..Len(cs)
          /\ \A j \in 1..Len(cs) : Append(cs, c)[j] = cs[j]
          /\ Append(cs, c)[Len(cs) + 1] = c
      BY <1>1, <1>3, <2>2, AppendChild
    <3>2. CASE i \in DOMAIN cs
      <4>1. nodes'[m].children[i] = cs[i]
        BY <1>1, <2>2, <3>1, <3>2
      <4> QED
        BY <1>1, <1>2, <1>3, <2>2, <3>2, <4>1 DEF AttributesFit
    <3>3. CASE i = Len(cs) + 1
      BY <1>1, <1>2, <1>3, <2>2, <3>1, <3>3
    <3> QED
      BY <3>1, <3>2, <3>3
  <2> QED
    BY <2>1, <2>2
<1> QED
  BY <1>1, <1>3 DEF AttributesFit

(* Each of the five adds no child without the attribute it needs. *)
LEMMA FitsStep ==
  ASSUME IInv, AttributesFit, HeapStep
  PROVE  AttributesFit'
<1>0. nodes \in Seq(Node)
  BY DEF IInv, TypeOK
<1>1. CASE AddsTerminal
  <2>1. PICK c \in Child :
          /\ stack # << >> /\ nodes' = AddChild(nodes, Tree, c)
          /\ Fits(nodes[Tree].nt, c)
    BY <1>1 DEF AddsTerminal
  <2>2. PICK n \in 1..Len(nodes) : n = Tree
    BY <2>1, RunningActivation
  <2> QED
    BY <1>0, <2>1, <2>2, FitsAdded
<1>2. ASSUME NEW nt \in NonTerminals, nodes' = MakeNonterminal(nodes, nt)
      PROVE  AttributesFit'
  <2>1. /\ DOMAIN nodes = 1..Len(nodes) /\ Len(nodes) \in Nat
        /\ DOMAIN nodes' = 1..(Len(nodes) + 1)
        /\ \A m \in 1..Len(nodes) : nodes'[m] = nodes[m]
        /\ nodes'[Len(nodes) + 1].children = << >>
    BY <1>0, <1>2, MakeNonterminalChildren
  <2>2. DOMAIN nodes'[Len(nodes) + 1].children = {}
    BY <2>1
  <2> QED
    BY <2>1, <2>2 DEF AttributesFit
<1>3. CASE Calls
  BY <1>2, <1>3 DEF Calls, Call
<1>4. CASE Begins
  BY <1>2, <1>4 DEF Begins, NonTerminals
<1>5. CASE Returns
  <2>1. stack # << >> /\ Return
    BY <1>5 DEF Returns
  <2>2. CASE Top = 1
    BY <2>1, <2>2 DEF Return, AttributesFit
  <2>3. CASE Top # 1
    <3>1. Top - 1 \in 1..Len(stack)
      BY <2>1, <2>3, ReturnTop
    <3>2. PICK n \in 1..Len(nodes) : n = stack[Top - 1].node
      BY <3>1 DEF IInv, StackOrdered
    <3>3. PICK c : c = Subtree(nodes[Tree].nt, Tree)
      OBVIOUS
    <3>4. Tree \in 1..Len(nodes) /\ nodes[Tree].nt \in NonTerminals /\ Len(nodes) \in Nat
      BY <1>0, <2>1, RunningActivation, LenProperties
    <3>5. c \in Child /\ c.type \in NonTerminals
      BY <3>3, <3>4 DEF Subtree, Child, Attrs
    <3>7. Fits(nodes[n].nt, c)
      BY <3>5 DEF Fits, NonTerminals
    <3>6. nodes' = AddChild(nodes, n, c)
      BY <2>1, <2>3, <3>2, <3>3 DEF Return
    <3> QED
      BY <1>0, <3>2, <3>5, <3>6, <3>7, FitsAdded
  <2> QED
    BY <2>2, <2>3
<1>6. CASE Keeps
  BY <1>6 DEF Keeps, AttributesFit
<1> QED
  BY <1>1, <1>3, <1>4, <1>5, <1>6 DEF HeapStep

-----------------------------------------------------------------------------
(* Before parse() is called there is no tree. *)
LEMMA InitTree == Init => TreeInv
<1> SUFFICES ASSUME Init PROVE TreeInv
  OBVIOUS
<1>1. nodes = << >> /\ stack = << >> /\ tok = NoToken
  BY DEF Init
<1>2. DOMAIN nodes = {} /\ Finished = {}
  BY <1>1 DEF Finished
<1>3. tok.type # "IDENTIFIER" /\ tok.type # "LITERAL"
  BY <1>1, AttrAssumption DEF NoToken, TokenTypes
<1> QED
  BY <1>1, <1>2, <1>3, InitInv
     DEF TreeInv, RootFirst, TreeLinked, SymbolAtHand, AssignAtIdentifier,
         AttributesFit

(* Every step preserves the invariant of the tree. *)
LEMMA NextTree == TreeInv /\ [Next]_vars => TreeInv'
<1> SUFFICES ASSUME TreeInv, [Next]_vars PROVE TreeInv'
  OBVIOUS
<1>1. /\ IInv /\ RootFirst /\ TreeLinked /\ SymbolAtHand
      /\ AssignAtIdentifier /\ AttributesFit
  BY DEF TreeInv
<1>2. HeapStep
  BY <1>1, NextHeap
<1>3. IInv'
  BY <1>1, NextInv
<1>4. RootFirst' /\ TreeLinked'
  BY <1>1, <1>2, RootStep, LinkedStep
<1>5. SymbolAtHand' /\ AssignAtIdentifier'
  BY <1>1, <1>2, SymbolStep, AssignStep
<1>6. AttributesFit'
  BY <1>1, <1>2, FitsStep
<1> QED
  BY <1>3, <1>4, <1>5, <1>6 DEF TreeInv

(* So it does of every parse. *)
LEMMA TreeInvariance == Spec => []TreeInv
  BY InitTree, NextTree, PTL DEF Spec

(***************************************************************************)
(* For every source: each node of the tree has one parent, which is older, *)
(* so that following the children one meets every node once, and ast_clear *)
(* frees it once, however the recovery went.                               *)
(***************************************************************************)
THEOREM TreeAlwaysLinked == Spec => []TreeLinked
<1>1. TreeInv => TreeLinked
  BY DEF TreeInv
<1> QED
  BY <1>1, TreeInvariance, PTL

(***************************************************************************)
(* For every source: a null symbol is the operand of "read" if anything.   *)
(* The analyser tests that operand, and need not test the others.          *)
(***************************************************************************)
THEOREM NullSymbolsOnlyInRead == Spec => []NullSymbolOnlyInRead
<1>1. TreeInv => NullSymbolOnlyInRead
  BY AttrAssumption DEF TreeInv, AttributesFit, Fits, NullSymbolOnlyInRead
<1> QED
  BY <1>1, TreeInvariance, PTL

(***************************************************************************)
(* For every source: the tree that parse() returns is one that the         *)
(* analyser can walk without a check (SemanterAssumption of module         *)
(* Semanter).                                                              *)
(***************************************************************************)
THEOREM TreeAlwaysAnalysable == Spec => [](Parsed => Analysable(nodes))
<1>1. TreeInv => (Parsed => Analysable(nodes))
  <2> SUFFICES ASSUME TreeInv, Parsed PROVE Analysable(nodes)
    OBVIOUS
  <2>1. /\ nodes # << >> /\ nodes[1].nt = "source"
        /\ Finished = DOMAIN nodes
    <3>1. nodes # << >> /\ nodes[1].nt = "source"
      BY DEF TreeInv, RootFirst, Parsed
    <3>2. DOMAIN stack = {}
      BY EmptySeq DEF Parsed
    <3> QED
      BY <3>1, <3>2 DEF Finished
  <2>2. \A n \in DOMAIN nodes : Readable(nodes[n])
    BY <2>1 DEF TreeInv, IInv, TreeReadable
  <2>3. ASSUME NEW n \in DOMAIN nodes, NEW i \in DOMAIN nodes[n].children
        PROVE  Follows(nodes, nodes[n].nt, nodes[n].children[i])
    <3> DEFINE c == nodes[n].children[i]
    <3>1. c.type \in NonTerminals => c.at \in DOMAIN nodes /\ nodes[c.at].nt = c.type
      BY <2>1, <2>3 DEF TreeInv, TreeLinked, SubtreesOf
    <3>2. Fits(nodes[n].nt, c)
      BY <2>3 DEF TreeInv, AttributesFit
    <3> QED
      BY <3>1, <3>2 DEF Follows, Fits
  <2> QED
    BY <2>1, <2>2, <2>3 DEF Analysable
<1> QED
  BY <1>1, TreeInvariance, PTL

-----------------------------------------------------------------------------
(***************************************************************************)
(* The order in the tree, which the analyser's results rest on: nothing is *)
(* where it does not look, and the names of the source are where they are, *)
(* in the order of the source.                                             *)
(***************************************************************************)

(* A finished node has the children that its function has added. *)
NodesComplete ==
  \A n \in Finished : \E k \in Nat : Progress(nodes[n].nt, k, Kinds(nodes[n]))

(* The names in the tree were read before the lookahead token, in order. *)
NamesRead ==
  /\ nodes = << >> => tok = NoToken
  /\ stack # << >> => tok.loc > 0
  /\ \A n \in DOMAIN nodes : \A i \in DOMAIN nodes[n].children :
       LET c == nodes[n].children[i]
       IN Named(c) => c.at > 0 /\ c.at < tok.loc
  /\ \A n, m \in DOMAIN nodes :
       \A i \in DOMAIN nodes[n].children, j \in DOMAIN nodes[m].children :
         LET c == nodes[n].children[i]
             d == nodes[m].children[j]
         IN Named(c) /\ Named(d) =>
              /\ c.at = d.at => n = m /\ i = j
              /\ n = m /\ i < j => c.at < d.at

OrderInv == TreeInv /\ NodesComplete /\ NamesRead

(* The finished nodes after a step. *)
LEMMA FinishedStep ==
  ASSUME IInv, RootFirst, HeapStep
  PROVE  \A m \in Finished' :
           /\ nodes'[m] = nodes[m]
           /\ m \in Finished \/ (Returns /\ m = Tree)
<1>0. nodes \in Seq(Node) /\ DOMAIN nodes = 1..Len(nodes) /\ Len(nodes) \in Nat
  BY LenProperties DEF IInv, TypeOK
<1>1. CASE AddsTerminal
  <2>1. PICK c \in Child, k \in Nat :
          /\ stack # << >>
          /\ nodes' = AddChild(nodes, Tree, c) /\ stack' = GoTo(k)
    BY <1>1 DEF AddsTerminal
  <2>2. Tree \in 1..Len(nodes) /\ Top \in 1..Len(stack)
    BY <2>1, RunningActivation
  <2>3. /\ DOMAIN nodes' = DOMAIN nodes
        /\ \A m \in DOMAIN nodes \ {Tree} : nodes'[m] = nodes[m]
    BY <1>0, <2>1, <2>2, AddChildChildren
  <2>4. /\ DOMAIN stack' = DOMAIN stack
        /\ \A d \in DOMAIN stack : stack'[d].node = stack[d].node
    BY <2>1, TerminalTop
  <2>5. {stack'[d].node : d \in DOMAIN stack'} = {stack[d].node : d \in DOMAIN stack}
    BY <2>4
  <2>6. Finished' = Finished
    BY <2>3, <2>5 DEF Finished
  <2>7. Tree \notin Finished
    <3>1. Top \in DOMAIN stack
      BY <2>2, LenProperties DEF IInv, TypeOK
    <3> QED
      BY <3>1 DEF Tree, Finished
  <2> QED
    BY <2>3, <2>6, <2>7 DEF Finished
<1>2. CASE Calls
  <2>1. PICK nt \in NonTerminals, k \in Nat : stack # << >> /\ Call(nt, k)
    BY <1>2 DEF Calls
  <2>2. /\ DOMAIN nodes' = 1..(Len(nodes) + 1)
        /\ \A m \in 1..Len(nodes) : nodes'[m] = nodes[m]
    BY <1>0, <2>1, MakeNonterminalChildren DEF Call
  <2>3. /\ DOMAIN stack' = 1..(Len(stack) + 1) /\ DOMAIN stack = 1..Len(stack)
        /\ Len(stack) \in Nat
        /\ \A d \in 1..Len(stack) : stack'[d].node = stack[d].node
        /\ stack'[Len(stack) + 1].node = Len(nodes) + 1
    BY <2>1, CallTop, LenProperties DEF IInv, TypeOK
  <2>4. {stack'[d].node : d \in DOMAIN stack'}
          = {stack[d].node : d \in DOMAIN stack} \cup {Len(nodes) + 1}
    BY <2>3
  <2>5. DOMAIN nodes' = DOMAIN nodes \cup {Len(nodes) + 1}
    BY <1>0, <2>2
  <2>6. Len(nodes) + 1 \notin DOMAIN nodes
    BY <1>0
  <2>7. Finished' = Finished
    BY <2>4, <2>5, <2>6 DEF Finished
  <2> QED
    BY <1>0, <2>2, <2>7 DEF Finished
<1>3. CASE Returns
  <2>1. stack # << >> /\ Return
    BY <1>3 DEF Returns
  <2>2. /\ Len(stack) \in Nat /\ Len(stack) >= 1 /\ Top = Len(stack)
        /\ DOMAIN stack = 1..Len(stack) /\ DOMAIN stack' = 1..(Len(stack) - 1)
        /\ \A d \in 1..(Len(stack) - 1) : stack'[d] = stack[d]
    BY <2>1, ReturnTop
  <2>3. /\ Tree \in 1..Len(nodes) /\ nodes[Tree].nt \in NonTerminals
        /\ \A d \in 1..Len(stack) : d < Top => stack[d].node < Tree
    BY <2>1, RunningActivation
  <2>4. /\ DOMAIN nodes' = DOMAIN nodes
        /\ \A m \in DOMAIN nodes :
             (\A d \in DOMAIN stack' : m # stack'[d].node) => nodes'[m] = nodes[m]
    <3>1. CASE Top = 1
      BY <2>1, <3>1 DEF Return
    <3>2. CASE Top # 1
      <4> DEFINE caller == stack[Top - 1].node
                 c == Subtree(nodes[Tree].nt, Tree)
      <4>1. Top - 1 \in 1..(Len(stack) - 1)
        BY <2>2, <3>2
      <4>2. caller \in 1..Len(nodes)
        BY <2>2, <4>1 DEF IInv, StackOrdered
      <4>3. c \in Child
        BY <1>0, <2>3 DEF Subtree, Child, Attrs
      <4>4. nodes' = AddChild(nodes, caller, c)
        BY <2>1, <3>2 DEF Return
      <4>5. caller = stack'[Top - 1].node /\ Top - 1 \in DOMAIN stack'
        BY <2>2, <4>1
      <4> HIDE DEF caller, c
      <4>6. /\ DOMAIN nodes' = DOMAIN nodes
            /\ \A m \in DOMAIN nodes \ {caller} : nodes'[m] = nodes[m]
        BY <1>0, <4>2, <4>3, <4>4, AddChildChildren
      <4> QED
        BY <4>5, <4>6
    <3> QED
      BY <3>1, <3>2
  <2>5. ASSUME NEW m \in Finished' PROVE m \in Finished \/ m = Tree
    <3>1. m \in DOMAIN nodes /\ \A d \in 1..(Len(stack) - 1) : m # stack[d].node
      BY <2>2, <2>4, <2>5 DEF Finished
    <3>2. ASSUME NEW d \in DOMAIN stack, m = stack[d].node PROVE m = Tree
      <4>1. d = Top
        BY <2>2, <3>1, <3>2
      <4> QED
        BY <3>2, <4>1 DEF Tree
    <3> QED
      BY <3>1, <3>2 DEF Finished
  <2> QED
    BY <1>3, <2>4, <2>5 DEF Finished
<1>4. CASE Begins
  <2>1. Len(nodes) = 0 /\ "source" \in NonTerminals
    BY <1>4 DEF Begins, NonTerminals
  <2>2. DOMAIN nodes' = 1..1
    <3>1. DOMAIN MakeNonterminal(nodes, "source") = 1..(Len(nodes) + 1)
      BY <1>0, <2>1, MakeNonterminalChildren
    <3> QED
      BY <1>4, <2>1, <3>1 DEF Begins
  <2>3. 1 \in DOMAIN stack' /\ stack'[1].node = 1
    BY <1>4 DEF Begins
  <2>4. Finished' = {}
    BY <2>2, <2>3 DEF Finished
  <2> QED
    BY <2>4
<1>5. CASE Keeps
  <2>1. UNCHANGED <<nodes, stack>>
    BY <1>5 DEF Keeps
  <2>2. Finished' = Finished
    BY <2>1 DEF Finished
  <2> QED
    BY <2>1, <2>2
<1> QED
  BY <1>1, <1>2, <1>3, <1>4, <1>5 DEF HeapStep

(* A node is complete when its function returns. *)
LEMMA CompleteStep ==
  ASSUME IInv, RootFirst, NodesComplete, HeapStep
  PROVE  NodesComplete'
<1>1. ASSUME NEW m \in Finished'
      PROVE  \E k \in Nat : Progress(nodes'[m].nt, k, Kinds(nodes'[m]))
  <2>1. nodes'[m] = nodes[m] /\ (m \in Finished \/ (Returns /\ m = Tree))
    BY <1>1, FinishedStep
  <2>2. CASE m \in Finished
    BY <2>1, <2>2 DEF NodesComplete
  <2>3. CASE Returns /\ m = Tree
    <3>1. Step \in Nat /\ Progress(nodes[Tree].nt, Step, Kinds(nodes[Tree]))
      BY <2>3, RunningActivation DEF Returns, Activation, Step
    <3> QED
      BY <2>1, <2>3, <3>1
  <2> QED
    BY <2>1, <2>2, <2>3
<1> QED
  BY <1>1 DEF NodesComplete

(* The children after a step: those before, and perhaps one that is new. *)
LEMMA AddedChildren ==
  ASSUME nodes \in Seq(Node), NEW m \in 1..Len(nodes), NEW c \in Child,
         nodes' = AddChild(nodes, m, c)
  PROVE  /\ DOMAIN nodes' = DOMAIN nodes
         /\ \A n \in DOMAIN nodes : \A i \in DOMAIN nodes'[n].children :
              \/ /\ i \in DOMAIN nodes[n].children
                 /\ nodes'[n].children[i] = nodes[n].children[i]
              \/ /\ n = m /\ i = Len(nodes[m].children) + 1
                 /\ nodes'[n].children[i] = c
<1> DEFINE cs == nodes[m].children
<1>1. /\ DOMAIN nodes' = DOMAIN nodes
      /\ \A n \in DOMAIN nodes \ {m} : nodes'[n] = nodes[n]
      /\ nodes'[m].children = Append(cs, c)
      /\ cs \in Seq(Child)
  BY AddChildChildren
<1>2. /\ DOMAIN cs = 1..Len(cs) /\ Len(cs) \in Nat
      /\ DOMAIN Append(cs, c) = 1..(Len(cs) + 1)
      /\ \A i \in 1..Len(cs) : Append(cs, c)[i] = cs[i]
      /\ Append(cs, c)[Len(cs) + 1] = c
  BY <1>1, AppendChild
<1>3. ASSUME NEW n \in DOMAIN nodes, NEW i \in DOMAIN nodes'[n].children
      PROVE  \/ /\ i \in DOMAIN nodes[n].children
                /\ nodes'[n].children[i] = nodes[n].children[i]
             \/ /\ n = m /\ i = Len(nodes[m].children) + 1
                /\ nodes'[n].children[i] = c
  <2>1. CASE n # m
    BY <1>1, <1>3, <2>1
  <2>2. CASE n = m
    <3>1. i \in 1..(Len(cs) + 1) /\ nodes'[n].children = Append(cs, c)
      BY <1>1, <1>2, <1>3, <2>2
    <3>2. i \in 1..Len(cs) \/ i = Len(cs) + 1
      BY <1>2, <3>1
    <3> QED
      BY <1>2, <2>2, <3>1, <3>2
  <2> QED
    BY <2>1, <2>2
<1> QED
  BY <1>1, <1>3

(* lex() delivers the next token, and at the end the last again. *)
LEMMA NextTokenOnward ==
  ASSUME tok \in Token \cup {NoToken}, NEW es, NextToken(es)
  PROVE  /\ tok.loc \in Nat /\ tok'.loc \in Nat
         /\ tok'.loc >= tok.loc
         /\ tok.type # "EOF" => tok'.loc > tok.loc
<1>1. tok.loc \in Nat
  BY DEF Token, NoToken
<1>2. \A bad \in LexicalErrors : bad \in Nat
  BY ParserAssumption
<1>3. CASE tok.type = "EOF" /\ tok' = tok
  BY <1>1, <1>3
<1>4. CASE /\ tok.type # "EOF"
           /\ \E bad \in LexicalErrors : tok'.loc = tok.loc + bad + 1
  BY <1>1, <1>2, <1>4
<1> QED
  BY <1>3, <1>4 DEF NextToken

(* The lookahead never goes back. *)
LEMMA TokenOnward ==
  ASSUME IInv, [Next]_vars
  PROVE  tok.loc \in Nat /\ tok'.loc \in Nat /\ tok'.loc >= tok.loc
<1>1. tok \in Token \cup {NoToken} /\ tok.loc \in Nat
  BY DEF IInv, TypeOK, Token, NoToken
<1>2. CASE UNCHANGED tok
  BY <1>1, <1>2
<1>3. CASE NextToken(errs) \/ NextToken(Reported)
  BY <1>1, <1>3, NextTokenOnward
<1> QED
  BY <1>2, <1>3, ErrorStep DEF vars

(* A child is one, and its place a number. *)
LEMMA ChildTyped ==
  ASSUME NEW heap \in Seq(Node), NEW n \in DOMAIN heap,
         NEW i \in DOMAIN heap[n].children
  PROVE  heap[n].children[i] \in Child /\ i \in Nat
<1>1. heap[n] \in Node
  BY ElementOfSeq, LenProperties
<1>2. heap[n].children \in Seq(Child)
  BY <1>1 DEF Node
<1>3. DOMAIN heap[n].children = 1..Len(heap[n].children)
      /\ Len(heap[n].children) \in Nat
  BY <1>2, LenProperties
<1> QED
  BY <1>2, <1>3, ElementOfSeq

(* No name is added, or the one at hand. *)
LEMMA NamesAdded ==
  ASSUME IInv, HeapStep
  PROVE  \E m, last : \A n \in DOMAIN nodes' : \A i \in DOMAIN nodes'[n].children :
           LET c == nodes'[n].children[i]
           IN Named(c) =>
                \/ /\ n \in DOMAIN nodes /\ i \in DOMAIN nodes[n].children
                   /\ c = nodes[n].children[i]
                \/ /\ n = m /\ i = last /\ c.at = tok.loc /\ stack # << >>
                   /\ tok.type # "EOF" /\ NextToken(errs)
                   /\ n \in DOMAIN nodes
                   /\ \A j \in DOMAIN nodes[n].children : j < i
<1>0. nodes \in Seq(Node) /\ DOMAIN nodes = 1..Len(nodes) /\ Len(nodes) \in Nat
  BY LenProperties DEF IInv, TypeOK
<1>1. CASE AddsTerminal
  <2>1. PICK c \in Child :
          /\ stack # << >> /\ nodes' = AddChild(nodes, Tree, c)
          /\ Takes(c) \/ Invents(c)
    BY <1>1 DEF AddsTerminal
  <2>2. PICK m \in 1..Len(nodes) : m = Tree
    BY <2>1, RunningActivation
  <2>3. PICK last : last = Len(nodes[m].children) + 1
    OBVIOUS
  <2>4. /\ DOMAIN nodes' = DOMAIN nodes
        /\ \A n \in DOMAIN nodes : \A i \in DOMAIN nodes'[n].children :
             \/ /\ i \in DOMAIN nodes[n].children
                /\ nodes'[n].children[i] = nodes[n].children[i]
             \/ n = m /\ i = last /\ nodes'[n].children[i] = c
    BY <1>0, <2>1, <2>2, <2>3, AddedChildren
  <2>5. \A j \in DOMAIN nodes[m].children : j < last
    <3>1. nodes[m].children \in Seq(Child)
      BY <1>0, <2>2, <2>1, AddChildChildren
    <3>2. DOMAIN nodes[m].children = 1..Len(nodes[m].children)
          /\ Len(nodes[m].children) \in Nat
      BY <3>1, LenProperties
    <3> QED
      BY <2>3, <3>2
  <2>6. Named(c) => c.at = tok.loc /\ tok.type # "EOF" /\ NextToken(errs)
    BY <2>1 DEF Takes, Invents, Named, Terminal
  <2>7. ASSUME NEW n \in DOMAIN nodes', NEW i \in DOMAIN nodes'[n].children,
               Named(nodes'[n].children[i])
        PROVE  \/ /\ n \in DOMAIN nodes /\ i \in DOMAIN nodes[n].children
                  /\ nodes'[n].children[i] = nodes[n].children[i]
               \/ /\ n = m /\ i = last /\ nodes'[n].children[i].at = tok.loc
                  /\ stack # << >> /\ tok.type # "EOF" /\ NextToken(errs)
                  /\ n \in DOMAIN nodes
                  /\ \A j \in DOMAIN nodes[n].children : j < i
    <3>1. n \in DOMAIN nodes
      BY <2>4, <2>7
    <3>2. CASE i \in DOMAIN nodes[n].children
               /\ nodes'[n].children[i] = nodes[n].children[i]
      BY <3>1, <3>2
    <3>3. CASE n = m /\ i = last /\ nodes'[n].children[i] = c
      BY <2>1, <2>5, <2>6, <2>7, <3>1, <3>3
    <3> QED
      BY <2>4, <2>7, <3>1, <3>2, <3>3
  <2> WITNESS m, last
  <2> QED
    BY <2>7
<1>2. ASSUME NEW nt \in NonTerminals, nodes' = MakeNonterminal(nodes, nt)
      PROVE  \A n \in DOMAIN nodes' : \A i \in DOMAIN nodes'[n].children :
               /\ n \in DOMAIN nodes /\ i \in DOMAIN nodes[n].children
               /\ nodes'[n].children[i] = nodes[n].children[i]
  <2>1. /\ DOMAIN nodes' = 1..(Len(nodes) + 1)
        /\ \A m \in 1..Len(nodes) : nodes'[m] = nodes[m]
        /\ nodes'[Len(nodes) + 1].children = << >>
    BY <1>0, <1>2, MakeNonterminalChildren
  <2>2. DOMAIN nodes'[Len(nodes) + 1].children = {}
    BY <2>1
  <2> QED
    BY <1>0, <2>1, <2>2
<1>3. CASE Calls
  BY <1>2, <1>3 DEF Calls, Call
<1>4. CASE Begins
  BY <1>2, <1>4 DEF Begins, NonTerminals
<1>5. CASE Returns
  <2>1. stack # << >> /\ Return
    BY <1>5 DEF Returns
  <2>2. CASE Top = 1
    BY <2>1, <2>2 DEF Return
  <2>3. CASE Top # 1
    <3>1. Top - 1 \in 1..Len(stack)
      BY <2>1, <2>3, ReturnTop
    <3>2. PICK n \in 1..Len(nodes) : n = stack[Top - 1].node
      BY <3>1 DEF IInv, StackOrdered
    <3>3. PICK c : c = Subtree(nodes[Tree].nt, Tree)
      OBVIOUS
    <3>4. Tree \in 1..Len(nodes) /\ nodes[Tree].nt \in NonTerminals
      BY <1>0, <2>1, RunningActivation
    <3>5. c \in Child /\ c.type \in NonTerminals
      BY <1>0, <3>3, <3>4 DEF Subtree, Child, Attrs
    <3>6. nodes' = AddChild(nodes, n, c)
      BY <2>1, <2>3, <3>2, <3>3 DEF Return
    <3>7. ~ Named(c)
      BY <3>5 DEF Named, NonTerminals
    <3>8. /\ DOMAIN nodes' = DOMAIN nodes
          /\ \A m \in DOMAIN nodes : \A i \in DOMAIN nodes'[m].children :
               \/ /\ i \in DOMAIN nodes[m].children
                  /\ nodes'[m].children[i] = nodes[m].children[i]
               \/ nodes'[m].children[i] = c
      BY <1>0, <3>2, <3>5, <3>6, AddedChildren
    <3> QED
      BY <3>7, <3>8
  <2> QED
    BY <2>2, <2>3
<1>6. CASE Keeps
  BY <1>6 DEF Keeps
<1> QED
  BY <1>1, <1>3, <1>4, <1>5, <1>6 DEF HeapStep

(* Before parse() nothing was read, and while it runs something. *)
LEMMA TokenRead ==
  ASSUME IInv, NamesRead, HeapStep, [Next]_vars
  PROVE  /\ nodes' = << >> => tok' = NoToken
         /\ stack' # << >> => tok'.loc > 0
<1>0. nodes \in Seq(Node) /\ DOMAIN nodes = 1..Len(nodes) /\ Len(nodes) \in Nat
  BY LenProperties DEF IInv, TypeOK
<1>1. tok.loc \in Nat /\ tok'.loc \in Nat /\ tok'.loc >= tok.loc
  BY TokenOnward
<1>2. CASE stack # << >>
  <2>1. tok'.loc > 0
    BY <1>1, <1>2 DEF NamesRead
  <2>2. 1 \in DOMAIN nodes'
    <3>1. Tree \in 1..Len(nodes)
      BY <1>2, RunningActivation
    <3>2. CASE AddsTerminal
      <4>1. PICK c \in Child : nodes' = AddChild(nodes, Tree, c)
        BY <3>2 DEF AddsTerminal
      <4> QED
        BY <1>0, <3>1, <4>1, AddChildChildren
    <3>3. CASE Calls
      <4>1. PICK nt \in NonTerminals : nodes' = MakeNonterminal(nodes, nt)
        BY <3>3 DEF Calls, Call
      <4> QED
        BY <1>0, <4>1, MakeNonterminalChildren
    <3>4. CASE Returns /\ Top = 1
      BY <1>0, <3>1, <3>4 DEF Returns, Return
    <3>5. CASE Returns /\ Top # 1
      <4>1. DOMAIN nodes' = DOMAIN nodes
        BY <3>5 DEF Returns, Return, AddChild
      <4> QED
        BY <1>0, <3>1, <4>1
    <3>6. CASE Keeps
      BY <1>0, <3>1, <3>6 DEF Keeps
    <3>7. CASE Begins
      BY <1>0, <3>1, <3>7 DEF Begins
    <3> QED
      BY <3>2, <3>3, <3>4, <3>5, <3>6, <3>7 DEF HeapStep
  <2>3. nodes' # << >>
    BY <2>2
  <2> QED
    BY <2>1, <2>3
<1>3. CASE Begins
  <2>1. tok \in Token \cup {NoToken} /\ tok.type # "EOF"
    BY <1>3, AttrAssumption DEF Begins, NamesRead, NoToken, TokenTypes
  <2>2. tok'.loc > 0
    BY <1>1, <1>3, <2>1, NextTokenOnward DEF Begins
  <2>3. nodes' # << >>
    <3>1. 1 \in DOMAIN nodes'
      <4>1. DOMAIN MakeNonterminal(nodes, "source") = 1..(Len(nodes) + 1)
        BY <1>0, MakeNonterminalChildren DEF NonTerminals
      <4> QED
        BY <1>0, <1>3, <4>1 DEF Begins
    <3> QED
      BY <3>1
  <2> QED
    BY <2>2, <2>3
<1>4. CASE stack = << >> /\ ~ Begins
  <2>1. UNCHANGED <<nodes, stack, tok>>
    BY <1>4 DEF HeapStep, AddsTerminal, Calls, Returns, Keeps
  <2> QED
    BY <1>4, <2>1 DEF NamesRead
<1> QED
  BY <1>2, <1>3, <1>4

(* A name that is added is behind all the others. *)
LEMMA NamesReadStep ==
  ASSUME IInv, NamesRead, HeapStep, [Next]_vars
  PROVE  NamesRead'
<1>0. nodes \in Seq(Node) /\ nodes' \in Seq(Node)
  BY NextInv DEF IInv, TypeOK
<1>1. tok.loc \in Nat /\ tok'.loc \in Nat /\ tok'.loc >= tok.loc
      /\ tok \in Token \cup {NoToken}
  BY TokenOnward DEF IInv, TypeOK
<1>2. PICK m, last : \A n \in DOMAIN nodes' : \A i \in DOMAIN nodes'[n].children :
        LET c == nodes'[n].children[i]
        IN Named(c) =>
             \/ /\ n \in DOMAIN nodes /\ i \in DOMAIN nodes[n].children
                /\ c = nodes[n].children[i]
             \/ /\ n = m /\ i = last /\ c.at = tok.loc /\ stack # << >>
                /\ tok.type # "EOF" /\ NextToken(errs)
                /\ n \in DOMAIN nodes
                /\ \A j \in DOMAIN nodes[n].children : j < i
  BY NamesAdded
<1> DEFINE Old(n, i) ==
             /\ n \in DOMAIN nodes /\ i \in DOMAIN nodes[n].children
             /\ nodes'[n].children[i] = nodes[n].children[i]
           New(n, i) ==
             /\ n = m /\ i = last /\ nodes'[n].children[i].at = tok.loc
             /\ tok.loc > 0 /\ tok.loc < tok'.loc
             /\ \A j \in DOMAIN nodes[n].children : j < i
<1>3. ASSUME NEW n \in DOMAIN nodes', NEW i \in DOMAIN nodes'[n].children,
             Named(nodes'[n].children[i])
      PROVE  Old(n, i) \/ New(n, i)
  <2>1. tok.type # "EOF" /\ NextToken(errs) => tok.loc < tok'.loc
    BY <1>1, NextTokenOnward
  <2>2. stack # << >> => tok.loc > 0
    BY DEF NamesRead
  <2> QED
    BY <1>2, <1>3, <2>1, <2>2
<1>4. ASSUME NEW n \in DOMAIN nodes, NEW i \in DOMAIN nodes[n].children,
             Old(n, i), Named(nodes[n].children[i])
      PROVE  /\ nodes'[n].children[i].at > 0
             /\ nodes'[n].children[i].at < tok.loc
             /\ nodes'[n].children[i].at \in Nat
  <2>1. nodes[n].children[i] \in Child
    BY <1>0, <1>4, ChildTyped
  <2> QED
    BY <1>4, <2>1 DEF NamesRead, Child
<1>5. ASSUME NEW n \in DOMAIN nodes', NEW i \in DOMAIN nodes'[n].children,
             Named(nodes'[n].children[i])
      PROVE  /\ nodes'[n].children[i].at > 0
             /\ nodes'[n].children[i].at < tok'.loc
  <2>1. CASE Old(n, i)
    BY <1>1, <1>4, <1>5, <2>1
  <2>2. CASE New(n, i)
    BY <2>2
  <2> QED
    BY <1>3, <1>5, <2>1, <2>2
<1>6. ASSUME NEW n \in DOMAIN nodes', NEW i \in DOMAIN nodes'[n].children,
             NEW k \in DOMAIN nodes', NEW j \in DOMAIN nodes'[k].children,
             Named(nodes'[n].children[i]), Named(nodes'[k].children[j])
      PROVE  /\ nodes'[n].children[i].at = nodes'[k].children[j].at => n = k /\ i = j
             /\ n = k /\ i < j => nodes'[n].children[i].at < nodes'[k].children[j].at
  <2>1. CASE Old(n, i) /\ Old(k, j)
    BY <1>6, <2>1 DEF NamesRead
  <2>2. CASE Old(n, i) /\ New(k, j)
    BY <1>1, <1>4, <1>6, <2>2
  <2>3. CASE New(n, i) /\ Old(k, j)
    <3>1. /\ nodes'[k].children[j].at < nodes'[n].children[i].at
          /\ nodes'[k].children[j].at \in Nat /\ nodes'[n].children[i].at \in Nat
      BY <1>1, <1>4, <1>6, <2>3
    <3>2. n = k => j < i
      BY <2>3
    <3>3. i \in Nat /\ j \in Nat
      BY <1>0, <1>6, ChildTyped
    <3> QED
      BY <3>1, <3>2, <3>3
  <2>4. CASE New(n, i) /\ New(k, j)
    <3>1. i \in Nat
      BY <1>0, <1>6, ChildTyped
    <3> QED
      BY <2>4, <3>1
  <2> QED
    BY <1>3, <1>6, <2>1, <2>2, <2>3, <2>4
<1>7. /\ nodes' = << >> => tok' = NoToken
      /\ stack' # << >> => tok'.loc > 0
  BY TokenRead
<1> QED
  BY <1>5, <1>6, <1>7 DEF NamesRead

-----------------------------------------------------------------------------
(* A child that the parser adds at place i of a node, of type x, is where  *)
(* the analyser looks for it.                                              *)
LookedAt(nt, ks, i, x) ==
  /\ x \in NonTerminals => i \in VisitedAt(nt, ks)
  /\ x = "IDENTIFIER" => i \in NamedAt(nt)

(* So are the parts of a script, *)
LEMMA ScriptPlaces ==
  ASSUME NEW nt \in DOMAIN Script, NEW ks, NEW i \in 1..Len(Script[nt]),
         NEW x \in Expected(Script[nt][i])
  PROVE  LookedAt(nt, ks, i, x)
<1> DEFINE Fine(name, script) ==
             \A j \in 1..Len(script) :
               \/ script[j] \in NonTerminals /\ j \in VisitedAt(name, ks)
               \/ script[j] = "IDENTIFIER" /\ j \in NamedAt(name)
               \/ script[j] \in (TokenTypes \cup {"RELOP"}) \ {"IDENTIFIER"}
<1> USE DEF TokenTypes, NonTerminals, VisitedAt, NamedAt
<1>1. Fine("source", SourceScript)
  BY DEF SourceScript
<1>2. Fine("assign", AssignScript)
  BY DEF AssignScript
<1>3. Fine("input", InputScript)
  BY DEF InputScript
<1>4. Fine("output", OutputScript)
  BY DEF OutputScript
<1>5. Fine("branch", BranchScript)
  BY DEF BranchScript
<1>6. Fine("loop", LoopScript)
  BY DEF LoopScript
<1>7. Fine("repeat", RepeatScript)
  BY DEF RepeatScript
<1>8. Fine("condition", ConditionScript)
  BY DEF ConditionScript
<1>9. Fine(nt, Script[nt])
  <2> HIDE DEF Fine
  <2> QED
    BY <1>1, <1>2, <1>3, <1>4, <1>5, <1>6, <1>7, <1>8, ScriptNames
<1>10. x = Script[nt][i] \/ (Script[nt][i] = "RELOP" /\ x \in RelOps)
  BY DEF Expected
<1>11. \A y \in RelOps : y \notin NonTerminals /\ y # "IDENTIFIER"
  BY DEF RelOps
<1>12. \A y \in TokenTypes \cup {"RELOP"} : y \notin NonTerminals
  OBVIOUS
<1> QED
  BY <1>9, <1>10, <1>11, <1>12, Zenon DEF LookedAt

(* and those of every node. *)
LEMMA Places ==
  ASSUME NEW nt \in NonTerminals, NEW k \in Nat, NEW ks \in Seq(Kind),
         Progress(nt, k, ks), NEW i \in DOMAIN ks
  PROVE  LookedAt(nt, ks, i, ks[i])
<1>0. DOMAIN ks = 1..Len(ks) /\ Len(ks) \in Nat /\ i \in 1..Len(ks)
  BY LenProperties
<1>1. CASE nt \in DOMAIN Script
  <2>1. ScriptProgress(Script[nt], k, ks)
    BY <1>1, ProgressCases
  <2>2. Len(Script[nt]) \in Nat
    BY <1>1 DEF Script, SourceScript, AssignScript, InputScript, OutputScript,
           BranchScript, LoopScript, RepeatScript, ConditionScript
  <2>3. i \in 1..Len(Script[nt]) /\ ks[i] \in Expected(Script[nt][i])
    BY <1>0, <2>1, <2>2 DEF ScriptProgress
  <2> QED
    BY <1>1, <2>3, ScriptPlaces
<1>2. CASE nt = "variables"
  <2>1. ks[i] = Declaration[((i - 1) % 4) + 1]
    BY <1>0, <1>2, ProgressCases DEF VariablesProgress
  <2>2. (i - 1) % 4 \in 0..3 /\ ((i - 1) % 4 = 0 => i % 4 = 1)
    BY <1>0
  <2>3. \/ (i - 1) % 4 = 0 /\ ks[i] = "IDENTIFIER"
        \/ ks[i] \in {"COLON", "INT", "SEMICOLON"}
    BY <2>1, <2>2, DeclarationNames
  <2>4. ks[i] \notin NonTerminals
    BY <2>3 DEF NonTerminals
  <2>5. ks[i] = "IDENTIFIER" => i \in NamedAt(nt)
    BY <1>0, <1>2, <2>2, <2>3 DEF NamedAt
  <2> QED
    BY <2>4, <2>5 DEF LookedAt
<1>3. CASE nt = "statements"
  <2>1. ks[i] \in Statements
    BY <1>0, <1>3, ProgressCases DEF StatementsProgress
  <2> QED
    BY <1>3, <2>1 DEF LookedAt, VisitedAt, Statements
<1>4. CASE nt \in DOMAIN ChainOperand
  <2>1. ks[i] \in {ChainOperand[nt]} \cup ChainOperators[nt]
    BY <1>0, <1>4, ProgressCases DEF ChainProgress
  <2>2. nt \in {"expression", "term"} /\ ks[i] # "IDENTIFIER"
    BY <1>4, <2>1 DEF ChainOperand, ChainOperators
  <2> QED
    BY <2>2 DEF LookedAt, VisitedAt
<1>5. CASE nt = "factor"
  <2>1. FactorProgress(k, ks)
    BY <1>5, ProgressCases
  <2>2. /\ i \in {1, 2, 3}
        /\ i = 1 => ks[1] \in {"LITERAL", "IDENTIFIER", "PLUS", "MINUS", "LPAREN"}
        /\ i = 2 => /\ ks[1] \in {"PLUS", "MINUS", "LPAREN"} /\ 1 \in DOMAIN ks
                    /\ ks[2] \in {"factor", "expression"}
        /\ i = 3 => ks[3] = "RPAREN"
    BY <1>0, <2>1 DEF FactorProgress, FactorComplete
  <2>3. CASE i = 1
    BY <1>5, <2>2, <2>3 DEF LookedAt, NamedAt, NonTerminals
  <2>4. CASE i = 2
    BY <1>5, <2>2, <2>4 DEF LookedAt, VisitedAt, Has
  <2>5. CASE i = 3
    BY <1>5, <2>2, <2>5 DEF LookedAt, NonTerminals
  <2> QED
    BY <2>2, <2>3, <2>4, <2>5
<1>6. nt \in DOMAIN Script \/ nt \in {"variables", "statements", "factor"}
        \/ nt \in DOMAIN ChainOperand
  BY ScriptNames DEF NonTerminals, ChainOperand
<1> QED
  BY <1>1, <1>2, <1>3, <1>4, <1>5, <1>6

(* A name that is declared is declared as an int. *)
LEMMA DeclaredInt ==
  ASSUME NEW k \in Nat, NEW ks \in Seq(Kind), VariablesProgress(k, ks),
         Len(ks) % 4 = 0, NEW i \in DOMAIN ks, i % 4 = 1
  PROVE  i + 2 \in DOMAIN ks /\ ks[i + 2] = "INT"
<1>1. /\ Len(ks) \in Nat /\ DOMAIN ks = 1..Len(ks)
      /\ \A j \in 1..Len(ks) : ks[j] = Declaration[((j - 1) % 4) + 1]
  BY LenProperties DEF VariablesProgress
<1>2. i + 2 \in 1..Len(ks) /\ (i + 2 - 1) % 4 = 2
  BY <1>1
<1> QED
  BY <1>1, <1>2, DeclarationNames

-----------------------------------------------------------------------------
(* The order is one of every parse. *)
LEMMA OrderInvariance == Spec => []OrderInv
<1>1. Init => OrderInv
  <2> SUFFICES ASSUME Init PROVE OrderInv
    OBVIOUS
  <2>1. nodes = << >> /\ stack = << >> /\ tok = NoToken
    BY DEF Init
  <2>2. DOMAIN nodes = {} /\ Finished = {}
    BY <2>1 DEF Finished
  <2> QED
    BY <2>1, <2>2, InitTree DEF OrderInv, NodesComplete, NamesRead
<1>2. OrderInv /\ [Next]_vars => OrderInv'
  <2> SUFFICES ASSUME OrderInv, [Next]_vars PROVE OrderInv'
    OBVIOUS
  <2>1. /\ TreeInv /\ IInv /\ RootFirst /\ NodesComplete /\ NamesRead
        /\ SymbolAtHand /\ AssignAtIdentifier
    BY DEF OrderInv, TreeInv
  <2>2. HeapStep
    BY <2>1, NextHeap
  <2> QED
    BY <2>1, <2>2, NextTree, CompleteStep, NamesReadStep DEF OrderInv
<1> QED
  BY <1>1, <1>2, PTL DEF Spec

(* A node of the whole tree, in the terms of module Ast. *)
LEMMA OrderedNode ==
  ASSUME OrderInv, Parsed, NEW n \in DOMAIN nodes,
         NEW i \in DOMAIN nodes[n].children
  PROVE  LET c == nodes[n].children[i]
         IN /\ Named(c) => i \in NamedAt(nodes[n].nt) /\ c.at > 0
            /\ c.type \in NonTerminals =>
                 i \in VisitedAt(nodes[n].nt, Kinds(nodes[n])) /\ c.at > n
            /\ Named(c) /\ nodes[n].nt = "variables" =>
                 nodes[n].children[i + 2].type = "INT"
<1> DEFINE c == nodes[n].children[i]
           ks == Kinds(nodes[n])
<1>1. Finished = DOMAIN nodes
  <2>1. DOMAIN stack = {}
    BY EmptySeq DEF Parsed
  <2> QED
    BY <2>1 DEF Finished
<1>2. nodes[n] \in Node /\ nodes[n].nt \in NonTerminals
      /\ nodes[n].children \in Seq(Child)
  <2>1. nodes[n] \in Node
    BY ElementOfSeq, LenProperties DEF OrderInv, TreeInv, IInv, TypeOK
  <2> QED
    BY <2>1 DEF Node
<1>3. /\ ks \in Seq(Kind) /\ Len(ks) = Len(nodes[n].children)
      /\ DOMAIN nodes[n].children = 1..Len(ks) /\ DOMAIN ks = 1..Len(ks)
      /\ \A j \in DOMAIN ks : ks[j] = nodes[n].children[j].type
  BY <1>2, KindsType, LenProperties
<1>4. PICK k \in Nat : Progress(nodes[n].nt, k, ks)
  BY <1>1 DEF OrderInv, NodesComplete
<1>5. LookedAt(nodes[n].nt, ks, i, c.type)
  BY <1>2, <1>3, <1>4, Places
<1>6. Named(c) => c.at > 0
  BY DEF OrderInv, NamesRead
<1>7. c.type \in NonTerminals => c.at > n
  BY DEF OrderInv, TreeInv, TreeLinked, SubtreesOf
<1>8. ASSUME Named(c), nodes[n].nt = "variables"
      PROVE  nodes[n].children[i + 2].type = "INT"
  <2>1. i % 4 = 1
    BY <1>5, <1>8 DEF LookedAt, Named, NamedAt
  <2>2. VariablesProgress(k, ks)
    BY <1>4, <1>8, ProgressCases
  <2>3. Len(ks) % 4 = 0
    BY <1>1, <1>8 DEF OrderInv, TreeInv, IInv, TreeReadable, Readable,
                      VariablesReadable
  <2>4. i + 2 \in DOMAIN ks /\ ks[i + 2] = "INT"
    BY <1>3, <2>1, <2>2, <2>3, DeclaredInt
  <2> QED
    BY <1>3, <2>4
<1> QED
  BY <1>5, <1>6, <1>7, <1>8 DEF LookedAt, Named

(***************************************************************************)
(* For every source: the tree that parse() returns is in the order that    *)
(* the analyser's results rest on (SemanterAssumption of module Semanter). *)
(***************************************************************************)
THEOREM TreeAlwaysOrderly == Spec => [](Parsed => Orderly(nodes))
<1>1. OrderInv => (Parsed => Orderly(nodes))
  <2> SUFFICES ASSUME OrderInv, Parsed PROVE Orderly(nodes)
    OBVIOUS
  <2>1. Finished = DOMAIN nodes
    <3>1. DOMAIN stack = {}
      BY EmptySeq DEF Parsed
    <3> QED
      BY <3>1 DEF Finished
  <2>2. \A p \in Subtrees(nodes) :
          /\ p = <<p[1], p[2]>> /\ p[1] \in DOMAIN nodes
          /\ p[2] \in DOMAIN nodes[p[1]].children
          /\ p[2] \in SubtreesOf(p[1])
    BY DEF Subtrees, SubtreesOf
  <2>3. \A p \in NamesIn(nodes) :
          /\ p = <<p[1], p[2]>> /\ p[1] \in DOMAIN nodes
          /\ p[2] \in DOMAIN nodes[p[1]].children
          /\ Named(nodes[p[1]].children[p[2]])
    BY DEF NamesIn
  <2>4. \A n \in DOMAIN nodes : \A i \in SubtreesOf(n) : <<n, i>> \in Subtrees(nodes)
    BY DEF Subtrees, SubtreesOf
  <2>5. \A p \in NamesIn(nodes) :
          /\ p[2] \in NamedAt(nodes[p[1]].nt) /\ nodes[p[1]].children[p[2]].at > 0
          /\ nodes[p[1]].nt = "variables" =>
               nodes[p[1]].children[p[2] + 2].type = "INT"
    BY <2>3, OrderedNode
  <2>6. \A p \in Subtrees(nodes) :
          /\ p[2] \in VisitedAt(nodes[p[1]].nt, Kinds(nodes[p[1]]))
          /\ nodes[p[1]].children[p[2]].at > p[1]
    BY <2>2, OrderedNode DEF SubtreesOf
  <2>7. ASSUME NEW m \in DOMAIN nodes \ {1}
        PROVE  \E p \in Subtrees(nodes) : nodes[p[1]].children[p[2]].at = m
    <3>1. PICK n \in DOMAIN nodes : \E i \in SubtreesOf(n) :
            nodes[n].children[i].at = m
      BY <2>1, <2>7 DEF OrderInv, TreeInv, TreeLinked
    <3>2. PICK i \in SubtreesOf(n) : nodes[n].children[i].at = m
      BY <3>1
    <3>3. <<n, i>> \in Subtrees(nodes)
      BY <2>4, <3>2
    <3> QED
      BY <3>2, <3>3
  <2>8. ASSUME NEW p \in Subtrees(nodes), NEW q \in Subtrees(nodes),
               nodes[p[1]].children[p[2]].at = nodes[q[1]].children[q[2]].at
        PROVE  p = q
    <3>1. PICK m : m = nodes[p[1]].children[p[2]].at
      OBVIOUS
    <3>2. m \in Finished /\ m > p[1] /\ p[1] \in 1..Len(nodes)
      BY <2>2, <3>1, LenProperties DEF OrderInv, TreeInv, TreeLinked, IInv, TypeOK
    <3>3. m # 1
      BY <3>2
    <3>4. \E n, i : \A k \in DOMAIN nodes : \A j \in SubtreesOf(k) :
            nodes[k].children[j].at = m => k = n /\ j = i
      BY <3>2, <3>3 DEF OrderInv, TreeInv, TreeLinked
    <3>5. p[1] = q[1] /\ p[2] = q[2]
      BY <2>2, <2>8, <3>1, <3>4
    <3> QED
      BY <2>2, <3>5
  <2>9. ASSUME NEW p \in NamesIn(nodes), NEW q \in NamesIn(nodes)
        PROVE  /\ nodes[p[1]].children[p[2]].at = nodes[q[1]].children[q[2]].at
                    => p = q
               /\ p[1] = q[1] /\ p[2] < q[2] =>
                    nodes[p[1]].children[p[2]].at < nodes[q[1]].children[q[2]].at
    BY <2>3 DEF OrderInv, NamesRead
  <2> QED
    BY <2>5, <2>6, <2>7, <2>8, <2>9 DEF Orderly
<1> QED
  BY <1>1, OrderInvariance, PTL

-----------------------------------------------------------------------------

(* The order of the numbers is well-founded, *)
LEMMA NatOrder ==
  \E R : IsWellFoundedOn(R, Nat) /\ \A x, y \in Nat : x < y => <<x, y>> \in R
<1>1. \A x, y \in Nat : x < y => <<x, y>> \in OpToRel(<, Nat)
  BY DEF OpToRel
<1> QED
  BY <1>1, NatLessThanWellFounded

(* so that there is a least one: induction, without an operator. *)
LEMMA Smallest ==
  ASSUME NEW T, T \subseteq Nat, T # {}
  PROVE  \E m \in T : \A n \in T : m <= n
<1>1. PICK R : IsWellFoundedOn(R, Nat) /\ \A x, y \in Nat : x < y => <<x, y>> \in R
  BY NatOrder
<1>2. \E x \in T : \A y \in T : ~ (<<y, x>> \in R)
  <2>1. IsWellFoundedOn(R, Nat)
    BY <1>1
  <2> QED
    BY <2>1, WFMin
<1>3. PICK m \in T : \A y \in T : ~ (<<y, m>> \in R)
  BY <1>2
<1>4. \A n \in T : m <= n
  <2> TAKE n \in T
  <2>1. m \in Nat /\ n \in Nat
    OBVIOUS
  <2>2. ~ (n < m)
    BY <1>1, <1>3, <2>1, Zenon
  <2> QED
    BY <2>1, <2>2
<1> QED
  BY <1>4

(* In a bounded set there is a greatest one, too. *)
LEMMA Greatest ==
  ASSUME NEW n \in Nat, NEW T, T \subseteq 0..n, T # {}
  PROVE  \E m \in T : \A k \in T : k <= m
<1> DEFINE U == {n - k : k \in T}
<1>1. U \subseteq Nat /\ U # {}
  <2>1. U \subseteq Nat
    OBVIOUS
  <2>2. PICK k \in T : TRUE
    OBVIOUS
  <2>3. n - k \in U
    OBVIOUS
  <2> QED
    BY <2>1, <2>3
<1>2. PICK u \in U : \A v \in U : u <= v
  <2> HIDE DEF U
  <2> QED
    BY <1>1, Smallest
<1>3. PICK m \in T : u = n - m
  OBVIOUS
<1>4. \A k \in T : k <= m
  <2> TAKE k \in T
  <2>1. n - k \in U /\ k \in Nat /\ m \in Nat
    OBVIOUS
  <2>2. u <= n - k
    BY <1>2, <2>1
  <2> QED
    BY <1>3, <2>1, <2>2
<1> QED
  BY <1>4

(* What is computed from one number to the next, beginning with a: *)
Maps(h, n, S) == \A i \in 1..n : \A s \in S : h[i][s] \in S

Run(u, h, n, a) == u = [i \in 0..n |-> IF i = 0 THEN a ELSE h[i][u[i - 1]]]

(* it stays in the set, *)
LEMMA RunFacts ==
  ASSUME NEW S, NEW a \in S, NEW n \in Nat, NEW h, Maps(h, n, S),
         NEW u, Run(u, h, n, a)
  PROVE  /\ u = [i \in 0..n |-> u[i]] /\ u[0] = a
         /\ \A i \in 0..n : u[i] \in S
         /\ \A i \in 1..n : u[i] = h[i][u[i - 1]]
<1>1. u = [i \in 0..n |-> u[i]] /\ u[0] = a
  BY DEF Run
<1>2. \A i \in 1..n : u[i] = h[i][u[i - 1]]
  BY DEF Run
<1>3. \A i \in 0..n : u[i] \in S
  <2> DEFINE T == {i \in 0..n : u[i] \notin S}
  <2> SUFFICES ASSUME T # {} PROVE FALSE
    OBVIOUS
  <2>1. PICK m \in T : \A k \in T : m <= k
    <3>1. T \subseteq Nat
      OBVIOUS
    <3> HIDE DEF T
    <3> QED
      BY <3>1, Smallest
  <2>2. m # 0 /\ m \in 1..n /\ m - 1 \in 0..n
    BY <1>1
  <2>3. u[m - 1] \in S
    BY <2>1, <2>2
  <2> QED
    BY <1>2, <2>2, <2>3 DEF Maps
<1> QED
  BY <1>1, <1>2, <1>3

(* and it exists. *)
LEMMA Iterated ==
  ASSUME NEW S, NEW a \in S, NEW n \in Nat, NEW h, Maps(h, n, S)
  PROVE  \E u : Run(u, h, n, a)
<1> DEFINE Upto(k) == \E u : Run(u, h, k, a)
           T == {k \in 0..n : ~Upto(k)}
<1> SUFFICES ASSUME T # {} PROVE FALSE
  <2> SUFFICES T = {} => Upto(n)
    OBVIOUS
  <2> HIDE DEF Upto
  <2> QED
    OBVIOUS
<1>1. PICK m \in T : \A k \in T : m <= k
  <2>1. T \subseteq Nat
    OBVIOUS
  <2> HIDE DEF T
  <2> QED
    BY <2>1, Smallest
<1>2. m \in 0..n /\ ~Upto(m)
  OBVIOUS
<1>3. m # 0
  <2>1. PICK u : u = [i \in 0..0 |-> a]
    OBVIOUS
  <2>2. Run(u, h, 0, a)
    BY <2>1 DEF Run
  <2>3. Upto(0)
    BY <2>2
  <2> HIDE DEF Upto, T
  <2> QED
    BY <1>2, <2>3
<1>4. Upto(m - 1)
  <2> HIDE DEF Upto
  <2>1. m - 1 \notin T /\ m - 1 \in 0..n
    BY <1>1, <1>2, <1>3
  <2> QED
    BY <2>1
<1>5. PICK v : Run(v, h, m - 1, a)
  BY <1>4
<1>6. PICK u : u = [i \in 0..m |-> IF i = m THEN h[m][v[m - 1]] ELSE v[i]]
  OBVIOUS
<1>7. v[0] = a /\ \A i \in 1..(m - 1) : v[i] = h[i][v[i - 1]]
  BY <1>2, <1>3, <1>5 DEF Run
<1>8. u[0] = a
  BY <1>2, <1>3, <1>6, <1>7
<1>9. \A i \in 1..m : u[i] = h[i][u[i - 1]]
  <2> TAKE i \in 1..m
  <2>1. u[i - 1] = v[i - 1]
    BY <1>2, <1>6
  <2>2. CASE i = m
    BY <1>2, <1>6, <2>1, <2>2
  <2>3. CASE i # m
    <3>1. i \in 1..(m - 1) /\ u[i] = v[i]
      BY <1>2, <1>6, <2>3
    <3> QED
      BY <1>7, <2>1, <3>1
  <2> QED
    BY <2>2, <2>3
<1>10. Run(u, h, m, a)
  <2>1. u = [i \in 0..m |-> u[i]]
    BY <1>6
  <2>2. \A i \in 0..m : u[i] = IF i = 0 THEN a ELSE h[i][u[i - 1]]
    BY <1>2, <1>8, <1>9
  <2> QED
    BY <2>1, <2>2 DEF Run
<1>11. Upto(m)
  BY <1>10
<1> HIDE DEF Upto
<1> QED
  BY <1>2, <1>11

(* What is computed from those above: for a tree, whose nodes are older     *)
(* than their children, from the leaves.                                    *)
Regards(h, n, S) ==
  /\ \A m \in 1..n : \A f \in [1..n -> S] : h[m][f] \in S
  /\ \A m \in 1..n : \A f, g \in [1..n -> S] :
       (\A k \in (m + 1)..n : f[k] = g[k]) => h[m][f] = h[m][g]

Solves(f, h, k, n, S) == f \in [1..n -> S] /\ \A m \in k..n : f[m] = h[m][f]

LEMMA Recurrent ==
  ASSUME NEW n \in Nat, NEW S, S # {}, NEW h, Regards(h, n, S)
  PROVE  \E f : Solves(f, h, 1, n, S)
<1> DEFINE From(k) == \E f : Solves(f, h, k, n, S)
           T == {k \in 0..(n + 1) : k >= 1 /\ ~From(k)}
<1> SUFFICES ASSUME T # {} PROVE FALSE
  <2>1. T = {} => From(1)
    <3> HIDE DEF From
    <3> QED
      OBVIOUS
  <2> QED
    BY <2>1
<1>1. PICK m \in T : \A k \in T : k <= m
  <2>1. T \subseteq 0..(n + 1)
    OBVIOUS
  <2>2. n + 1 \in Nat
    OBVIOUS
  <2> HIDE DEF T
  <2> QED
    BY <2>1, <2>2, Greatest
<1>2. m \in 1..(n + 1) /\ ~From(m)
  OBVIOUS
<1>3. m # n + 1
  <2>1. PICK a \in S : TRUE
    OBVIOUS
  <2>2. PICK f : f = [i \in 1..n |-> a]
    OBVIOUS
  <2>3. f \in [1..n -> S] /\ \A k \in (n + 1)..n : f[k] = h[k][f]
    BY <2>2
  <2>4. From(n + 1)
    BY <2>3 DEF Solves
  <2> HIDE DEF From, T
  <2> QED
    BY <1>2, <2>4
<1>4. From(m + 1)
  <2> HIDE DEF From
  <2>1. m + 1 \notin T /\ m + 1 \in 1..(n + 1)
    BY <1>1, <1>2, <1>3
  <2> QED
    BY <2>1
<1>5. PICK f : Solves(f, h, m + 1, n, S)
  BY <1>4
<1>6. m \in 1..n /\ f \in [1..n -> S] /\ \A k \in (m + 1)..n : f[k] = h[k][f]
  BY <1>2, <1>3, <1>5 DEF Solves
<1>7. PICK g : g = [f EXCEPT ![m] = h[m][f]]
  OBVIOUS
<1>8. g \in [1..n -> S]
  BY <1>6, <1>7 DEF Regards
<1>9. g[m] = h[m][f] /\ \A k \in (m + 1)..n : k \in 1..n /\ g[k] = f[k]
  BY <1>6, <1>7
<1>10. \A k \in m..n : g[k] = h[k][g]
  <2> TAKE k \in m..n
  <2>1. h[k][f] = h[k][g]
    <3>1. k \in 1..n /\ \A l \in (k + 1)..n : f[l] = g[l]
      BY <1>6, <1>9
    <3> QED
      BY <1>6, <1>8, <3>1 DEF Regards
  <2>2. CASE k = m
    BY <1>9, <2>1, <2>2
  <2>3. CASE k # m
    BY <1>6, <1>9, <2>1, <2>3
  <2> QED
    BY <2>2, <2>3
<1>11. From(m)
  BY <1>8, <1>10 DEF Solves
<1> HIDE DEF From
<1> QED
  BY <1>2, <1>11

-----------------------------------------------------------------------------
(* One child more, *)
FreedWith(c, f, before) ==
  IF c.type \in NonTerminals THEN before \o f[c.at] ELSE before

(* some of the children of a node, *)
FreedUpTo(cs, f) ==
  LET upto[i \in 0..Len(cs)] ==
        IF i = 0 THEN << >> ELSE FreedWith(cs[i], f, upto[i - 1])
  IN upto

(* and every node, behind its children. *)
FreedBelow(heap) ==
  LET of[m \in DOMAIN heap] ==
        Append(FreedUpTo(heap[m].children, of)[Len(heap[m].children)], m)
  IN of

(* It is what Cleared says. *)
LEMMA ClearedBelow ==
  ASSUME NEW heap, NEW n
  PROVE  Cleared(heap, n) = FreedBelow(heap)[n]
BY DEF Cleared, FreedBelow, FreedUpTo, FreedWith

(* The children one by one. *)
Adds(h, n, Q, cs, f) ==
  \A i \in 1..n : h[i] = [s \in Q |-> FreedWith(cs[i], f, s)]

LEMMA FreedEach ==
  ASSUME NEW Q, NEW a \in Q, a = << >>, NEW cs, NEW n \in Nat, n = Len(cs),
         NEW f, NEW h, Maps(h, n, Q), Adds(h, n, Q, cs, f)
  PROVE  /\ FreedUpTo(cs, f)[0] = a
         /\ \A i \in 0..n : FreedUpTo(cs, f)[i] \in Q
         /\ \A i \in 1..n :
              FreedUpTo(cs, f)[i] = FreedWith(cs[i], f, FreedUpTo(cs, f)[i - 1])
<1> DEFINE R(u) == [i \in 0..n |-> IF i = 0 THEN a
                                   ELSE FreedWith(cs[i], f, u[i - 1])]
<1>1. PICK u : Run(u, h, n, a)
  BY Iterated
<1>2. u = R(u)
  <2>1. /\ u = [i \in 0..n |-> u[i]] /\ u[0] = a
        /\ \A i \in 0..n : u[i] \in Q
        /\ \A i \in 1..n : u[i] = h[i][u[i - 1]]
    BY <1>1, RunFacts
  <2>2. \A i \in 1..n : i - 1 \in 0..n
    OBVIOUS
  <2>3. \A i \in 1..n : u[i] = FreedWith(cs[i], f, u[i - 1])
    BY <2>1, <2>2 DEF Adds
  <2> HIDE DEF Run
  <2>4. \A i \in 0..n :
          u[i] = IF i = 0 THEN a ELSE FreedWith(cs[i], f, u[i - 1])
    <3>1. \A i \in 0..n : i # 0 => i \in 1..n
      OBVIOUS
    <3>2. u[0] = a
      BY <2>1
    <3> QED
      BY <2>3, <3>1, <3>2
  <2>5. u = [i \in 0..n |-> u[i]]
    BY <2>1
  <2> QED
    BY <2>4, <2>5
<1>3. FreedUpTo(cs, f) = CHOOSE w : w = R(w)
  BY DEF FreedUpTo
<1>4. PICK v : v = FreedUpTo(cs, f) /\ v = R(v)
  BY <1>2, <1>3
<1>5. v[0] = a /\ \A i \in 1..n : v[i] = FreedWith(cs[i], f, v[i - 1])
  BY <1>4
<1>6. \A i \in 0..n : v[i] \in Q
  <2> DEFINE T == {i \in 0..n : v[i] \notin Q}
  <2> SUFFICES ASSUME T # {} PROVE FALSE
    OBVIOUS
  <2>1. PICK m \in T : \A k \in T : m <= k
    <3>1. T \subseteq Nat
      OBVIOUS
    <3> HIDE DEF T
    <3> QED
      BY <3>1, Smallest
  <2>2. m # 0 /\ m \in 1..n /\ m - 1 \in 0..n
    BY <1>5
  <2>3. v[m - 1] \in Q /\ v[m] \notin Q
    BY <2>1, <2>2
  <2> HIDE DEF T
  <2> HIDE DEF R
  <2>4. h[m][v[m - 1]] \in Q
    <3>1. \A s \in Q : h[m][s] \in Q
      BY <2>2 DEF Maps
    <3> QED
      BY <2>3, <3>1
  <2>5. h[m][v[m - 1]] = FreedWith(cs[m], f, v[m - 1])
    <3>1. \A s \in Q : h[m][s] = FreedWith(cs[m], f, s)
      BY <2>2 DEF Adds
    <3> QED
      BY <2>3, <3>1
  <2>6. v[m] = FreedWith(cs[m], f, v[m - 1])
    BY <1>5, <2>2
  <2> QED
    BY <2>3, <2>4, <2>5, <2>6
<1> QED
  BY <1>4, <1>5, <1>6

-----------------------------------------------------------------------------
(* A list without repetitions. *)
Listed(s) == {s[i] : i \in DOMAIN s}
Once(s) == \A i, j \in DOMAIN s : s[i] = s[j] => i = j

(* Two lists that have nothing in common, *)
LEMMA OnceConcat ==
  ASSUME NEW S, NEW s \in Seq(S), NEW t \in Seq(S)
  PROVE  /\ s \o t \in Seq(S)
         /\ Listed(s \o t) = Listed(s) \cup Listed(t)
         /\ Once(s) /\ Once(t) /\ Listed(s) \cap Listed(t) = {} => Once(s \o t)
<1>1. PICK w, m, n : w = s \o t /\ m = Len(s) /\ n = Len(t)
  OBVIOUS
<1>2. /\ m \in Nat /\ n \in Nat /\ DOMAIN s = 1..m /\ DOMAIN t = 1..n
  BY <1>1, LenProperties
<1>3. /\ w \in Seq(S) /\ Len(w) = m + n
      /\ \A i \in 1..(m + n) : w[i] = IF i <= m THEN s[i] ELSE t[i - m]
  BY <1>1, ConcatProperties
<1>4. DOMAIN w = 1..(m + n)
  BY <1>3, LenProperties
<1>5. Listed(w) = Listed(s) \cup Listed(t)
  <2>1. \A i \in DOMAIN w : w[i] \in Listed(s) \cup Listed(t)
    <3> TAKE i \in DOMAIN w
    <3>1. CASE i <= m
      <4>1. i \in DOMAIN s /\ w[i] = s[i]
        BY <1>2, <1>3, <1>4, <3>1
      <4> QED
        BY <4>1 DEF Listed
    <3>2. CASE i > m
      <4>1. i - m \in DOMAIN t /\ w[i] = t[i - m]
        BY <1>2, <1>3, <1>4, <3>2
      <4> QED
        BY <4>1 DEF Listed
    <3> QED
      BY <1>2, <1>4, <3>1, <3>2
  <2>2. \A i \in DOMAIN s : s[i] \in Listed(w)
    <3> TAKE i \in DOMAIN s
    <3>1. i \in DOMAIN w /\ w[i] = s[i]
      BY <1>2, <1>3, <1>4
    <3> QED
      BY <3>1 DEF Listed
  <2>3. \A i \in DOMAIN t : t[i] \in Listed(w)
    <3> TAKE i \in DOMAIN t
    <3>1. i + m \in DOMAIN w /\ w[i + m] = t[i]
      BY <1>2, <1>3, <1>4
    <3> QED
      BY <3>1 DEF Listed
  <2> QED
    BY <2>1, <2>2, <2>3 DEF Listed
<1>6. ASSUME Once(s), Once(t), Listed(s) \cap Listed(t) = {}
      PROVE  Once(w)
  <2> SUFFICES ASSUME NEW i \in DOMAIN w, NEW j \in DOMAIN w, w[i] = w[j]
               PROVE  i = j
    BY DEF Once
  <2>1. i \in Nat /\ j \in Nat
    BY <1>2, <1>4
  <2>2. \A k \in DOMAIN w : k <= m => k \in DOMAIN s /\ w[k] = s[k]
    BY <1>2, <1>3, <1>4
  <2>3. \A k \in DOMAIN w : k > m => k - m \in DOMAIN t /\ w[k] = t[k - m]
    BY <1>2, <1>3, <1>4
  <2>4. \A k \in DOMAIN s, l \in DOMAIN t : s[k] # t[l]
    BY <1>6 DEF Listed
  <2>5. CASE i <= m /\ j <= m
    BY <1>6, <2>2, <2>5 DEF Once
  <2>6. CASE i > m /\ j > m
    <3>1. i - m = j - m
      BY <1>6, <2>3, <2>6 DEF Once
    <3> QED
      BY <1>2, <2>1, <3>1
  <2>7. CASE i <= m /\ j > m
    BY <2>2, <2>3, <2>4, <2>7
  <2>8. CASE i > m /\ j <= m
    BY <2>2, <2>3, <2>4, <2>8
  <2> QED
    BY <1>2, <2>1, <2>5, <2>6, <2>7, <2>8
<1> QED
  BY <1>1, <1>3, <1>5, <1>6

(* a list and something else, *)
LEMMA OnceAppend ==
  ASSUME NEW S, NEW s \in Seq(S), NEW x \in S
  PROVE  /\ Append(s, x) \in Seq(S)
         /\ Listed(Append(s, x)) = Listed(s) \cup {x}
         /\ Once(s) /\ x \notin Listed(s) => Once(Append(s, x))
<1>1. PICK w, m : w = Append(s, x) /\ m = Len(s)
  OBVIOUS
<1>2. /\ m \in Nat /\ DOMAIN s = 1..m
  BY <1>1, LenProperties
<1>3. /\ w \in Seq(S) /\ Len(w) = m + 1
      /\ \A i \in 1..m : w[i] = s[i]
      /\ w[m + 1] = x
  BY <1>1, AppendProperties
<1>4. DOMAIN w = 1..(m + 1)
  BY <1>3, LenProperties
<1>5. \A i \in DOMAIN w : i \in DOMAIN s \/ i = m + 1
  BY <1>2, <1>4
<1>6. DOMAIN s \subseteq DOMAIN w /\ m + 1 \in DOMAIN w
  BY <1>2, <1>4
<1>7. Listed(w) = Listed(s) \cup {x}
  BY <1>2, <1>3, <1>5, <1>6 DEF Listed
<1>8. ASSUME Once(s), x \notin Listed(s) PROVE Once(w)
  BY <1>2, <1>3, <1>5, <1>8 DEF Once, Listed
<1> QED
  BY <1>1, <1>3, <1>7, <1>8

(* and a list of all the numbers up to n. *)
LEMMA OnceAll ==
  ASSUME NEW n \in Nat, NEW s \in Seq(1..n), Once(s), Listed(s) = 1..n
  PROVE  Len(s) = n
<1>1. PICK m \in Nat : m = Len(s) /\ DOMAIN s = 1..m /\ s \in [1..m -> 1..n]
  BY LenProperties
<1>2. s \in Injection(1..m, 1..n)
  BY <1>1 DEF Once, Injection, IsInjective
<1>3. s \in Surjection(1..m, 1..n)
  BY <1>1 DEF Listed, Surjection
<1>4. ExistsBijection(1..m, 1..n)
  BY <1>2, <1>3 DEF ExistsBijection, Bijection
<1>5. Cardinality(1..n) = m
  BY <1>4, FS_CountingElements
<1>6. Cardinality(1..n) = n
  BY FS_Interval
<1> QED
  BY <1>1, <1>5, <1>6

-----------------------------------------------------------------------------
(* The trees that the parser returns. *)
Walkable(heap) == heap \in Seq(Node) /\ Analysable(heap) /\ Orderly(heap)

ChildAt(heap, p) == heap[p[1]].children[p[2]].at

(* What makes them trees, *)
LEMMA TreeNodes ==
  ASSUME NEW heap, Walkable(heap), NEW m \in DOMAIN heap
  PROVE  /\ DOMAIN heap = 1..Len(heap) /\ Len(heap) \in Nat /\ m \in Nat
         /\ heap[m].children \in Seq(Child)
         /\ Len(heap[m].children) \in Nat
         /\ DOMAIN heap[m].children = 1..Len(heap[m].children)
         /\ \A i \in DOMAIN heap[m].children :
              heap[m].children[i].type \in NonTerminals =>
                /\ <<m, i>> \in Subtrees(heap)
                /\ heap[m].children[i].at = ChildAt(heap, <<m, i>>)
                /\ heap[m].children[i].at \in DOMAIN heap
                /\ heap[m].children[i].at > m
<1>1. heap \in Seq(Node) /\ Analysable(heap) /\ Orderly(heap)
  BY DEF Walkable
<1>2. DOMAIN heap = 1..Len(heap) /\ Len(heap) \in Nat
  BY <1>1, LenProperties
<1>3. heap[m] \in Node
  BY <1>1, ElementOfSeq, <1>2
<1>4. heap[m].children \in Seq(Child)
  BY <1>3 DEF Node
<1>5. /\ Len(heap[m].children) \in Nat
      /\ DOMAIN heap[m].children = 1..Len(heap[m].children)
  BY <1>4, LenProperties
<1>6. ASSUME NEW i \in DOMAIN heap[m].children,
             heap[m].children[i].type \in NonTerminals
      PROVE  /\ <<m, i>> \in Subtrees(heap)
             /\ heap[m].children[i].at = ChildAt(heap, <<m, i>>)
             /\ heap[m].children[i].at \in DOMAIN heap
             /\ heap[m].children[i].at > m
  <2>1. PICK p : p = <<m, i>>
    OBVIOUS
  <2>2. p \in {m} \X DOMAIN heap[m].children /\ p[1] = m /\ p[2] = i
    BY <2>1
  <2>3. p \in Subtrees(heap)
    BY <1>6, <2>2 DEF Subtrees
  <2>4. heap[m].children[i].at > m
    BY <1>1, <2>2, <2>3 DEF Orderly
  <2>5. heap[m].children[i].at \in DOMAIN heap
    BY <1>1, <1>6 DEF Analysable, Follows
  <2> QED
    BY <2>1, <2>2, <2>3, <2>4, <2>5 DEF ChildAt
<1> QED
  BY <1>2, <1>4, <1>5, <1>6

(* and what makes each a tree of all the nodes. *)
LEMMA TreePlaces ==
  ASSUME NEW heap, Walkable(heap)
  PROVE  /\ \A p \in Subtrees(heap) :
              /\ p[1] \in DOMAIN heap /\ p[2] \in DOMAIN heap[p[1]].children
              /\ p = <<p[1], p[2]>>
              /\ heap[p[1]].children[p[2]].type \in NonTerminals
              /\ ChildAt(heap, p) \in DOMAIN heap /\ ChildAt(heap, p) > p[1]
         /\ \A p, q \in Subtrees(heap) :
              ChildAt(heap, p) = ChildAt(heap, q) => p = q
         /\ \A m \in DOMAIN heap \ {1} :
              \E p \in Subtrees(heap) : ChildAt(heap, p) = m
<1>1. Orderly(heap)
  BY DEF Walkable
<1>2. \A p, q \in Subtrees(heap) : ChildAt(heap, p) = ChildAt(heap, q) => p = q
  BY <1>1 DEF Orderly, ChildAt
<1>3. \A m \in DOMAIN heap \ {1} :
        \E p \in Subtrees(heap) : ChildAt(heap, p) = m
  BY <1>1 DEF Orderly, ChildAt
<1>4. ASSUME NEW p \in Subtrees(heap)
      PROVE  /\ p[1] \in DOMAIN heap /\ p[2] \in DOMAIN heap[p[1]].children
             /\ p = <<p[1], p[2]>>
             /\ heap[p[1]].children[p[2]].type \in NonTerminals
             /\ ChildAt(heap, p) \in DOMAIN heap /\ ChildAt(heap, p) > p[1]
  <2>1. /\ \E n \in DOMAIN heap : p \in {n} \X DOMAIN heap[n].children
        /\ heap[p[1]].children[p[2]].type \in NonTerminals
    BY DEF Subtrees
  <2>2. PICK n \in DOMAIN heap : p \in {n} \X DOMAIN heap[n].children
    BY <2>1
  <2>3. /\ p[1] \in DOMAIN heap /\ p[2] \in DOMAIN heap[p[1]].children
        /\ p = <<p[1], p[2]>>
    BY <2>2
  <2> QED
    BY <2>1, <2>3, TreeNodes DEF ChildAt
<1> QED
  BY <1>2, <1>3, <1>4

(* The list s has node m, and each node below it, once. *)
Under(heap, m, s) ==
  /\ s \in Seq(DOMAIN heap) /\ Once(s) /\ m \in Listed(s)
  /\ \A x \in Listed(s) : x \in DOMAIN heap /\ x >= m
  /\ \A p \in Subtrees(heap) :
       /\ p[1] \in Listed(s) => ChildAt(heap, p) \in Listed(s)
       /\ ChildAt(heap, p) \in Listed(s) =>
            p[1] \in Listed(s) \/ ChildAt(heap, p) = m

(* Two children of a node have nothing in common: the first thing they had *)
(* would have two parents.                                                 *)
LEMMA ApartChildren ==
  ASSUME NEW heap, Walkable(heap), NEW p \in Subtrees(heap),
         NEW q \in Subtrees(heap), p # q, p[1] = q[1],
         NEW s, Under(heap, ChildAt(heap, p), s),
         NEW t, Under(heap, ChildAt(heap, q), t)
  PROVE  Listed(s) \cap Listed(t) = {}
<1> SUFFICES ASSUME Listed(s) \cap Listed(t) # {} PROVE FALSE
  OBVIOUS
<1>1. PICK m, c, d : m = p[1] /\ c = ChildAt(heap, p) /\ d = ChildAt(heap, q)
  OBVIOUS
<1>2. /\ m \in Nat /\ c \in Nat /\ d \in Nat /\ m >= 1 /\ c > m /\ d > m
      /\ c # d /\ DOMAIN heap \subseteq Nat
  <2>1. p[1] \in DOMAIN heap /\ c \in DOMAIN heap /\ d \in DOMAIN heap
        /\ c > p[1] /\ d > q[1]
    BY <1>1, TreePlaces
  <2>2. DOMAIN heap = 1..Len(heap) /\ Len(heap) \in Nat
    BY <2>1, TreeNodes
  <2>3. c # d
    BY <1>1, TreePlaces
  <2> QED
    BY <1>1, <2>1, <2>2, <2>3
<1>3. Listed(s) \cap Listed(t) \subseteq Nat
  BY <1>2 DEF Under
<1>4. PICK x \in Listed(s) \cap Listed(t) :
        \A y \in Listed(s) \cap Listed(t) : x <= y
  BY <1>3, Smallest
<1>5. x \in DOMAIN heap /\ x \in Nat /\ x >= c /\ x >= d
  BY <1>1, <1>3, <1>4 DEF Under
<1>6. x # 1
  BY <1>2, <1>5
<1>7. PICK r \in Subtrees(heap) : ChildAt(heap, r) = x
  BY <1>5, <1>6, TreePlaces
<1>8. r[1] \in Nat /\ r[1] < x
  BY <1>2, <1>5, <1>7, TreePlaces
<1>9. r[1] \notin Listed(s) \cap Listed(t)
  BY <1>4, <1>5, <1>8
<1>10. CASE x # c /\ x # d
  BY <1>1, <1>4, <1>7, <1>9, <1>10 DEF Under
<1>11. CASE x = c
  <2>1. m \in Listed(t)
    BY <1>1, <1>2, <1>4, <1>11 DEF Under
  <2> QED
    BY <1>1, <1>2, <2>1 DEF Under
<1>12. CASE x = d
  <2>1. q[1] \in Listed(s)
    BY <1>1, <1>2, <1>4, <1>12 DEF Under
  <2> QED
    BY <1>1, <1>2, <2>1 DEF Under
<1> QED
  BY <1>10, <1>11, <1>12


Joins(u, f, n, cs, D) ==
  /\ u[0] = << >>
  /\ \A i \in 0..n : u[i] \in Seq(D)
  /\ \A i \in 1..n : u[i] = FreedWith(cs[i], f, u[i - 1])

(* The lists of the children, one behind the other. *)
Lists(f, n, cs, D) ==
  \A i \in 1..n : cs[i].type \in NonTerminals => f[cs[i].at] \in Seq(D)

LEMMA FreedLists ==
  ASSUME NEW D, NEW cs, NEW n \in Nat, n = Len(cs), NEW f,
         Lists(f, n, cs, D)
  PROVE  Joins(FreedUpTo(cs, f), f, n, cs, D)
<1>1. PICK Q, a : Q = Seq(D) /\ a = << >>
  OBVIOUS
<1>2. a \in Q
  BY <1>1, EmptySeq
<1>3. PICK h : h = [i \in 1..n |-> [s \in Q |-> FreedWith(cs[i], f, s)]]
  OBVIOUS
<1>4. \A i \in 1..n : \A s \in Q : FreedWith(cs[i], f, s) \in Q
  <2> SUFFICES ASSUME NEW i \in 1..n, NEW s \in Q
               PROVE  FreedWith(cs[i], f, s) \in Q
    OBVIOUS
  <2>1. CASE cs[i].type \in NonTerminals
    <3>1. f[cs[i].at] \in Seq(D) /\ s \in Seq(D)
      BY <1>1, <2>1 DEF Lists
    <3>2. s \o f[cs[i].at] \in Seq(D)
      BY <3>1, ConcatProperties
    <3> QED
      BY <1>1, <2>1, <3>2 DEF FreedWith
  <2>2. CASE cs[i].type \notin NonTerminals
    BY <2>2 DEF FreedWith
  <2> QED
    BY <2>1, <2>2
<1>5. Maps(h, n, Q)
  BY <1>3, <1>4 DEF Maps
<1>6. Adds(h, n, Q, cs, f)
  BY <1>3 DEF Adds
<1>7. /\ FreedUpTo(cs, f)[0] = a
      /\ \A i \in 0..n : FreedUpTo(cs, f)[i] \in Q
      /\ \A i \in 1..n :
           FreedUpTo(cs, f)[i] = FreedWith(cs[i], f, FreedUpTo(cs, f)[i - 1])
  <2>1. a = << >> /\ n = Len(cs)
    BY <1>1
  <2> QED
    BY <1>2, <1>5, <1>6, <2>1, FreedEach
<1> QED
  BY <1>1, <1>7 DEF Joins

(* No more depends on f than what it says of the children. *)
Alike(f, g, n, cs, D) ==
  \A i \in 1..n : cs[i].type \in NonTerminals =>
                    f[cs[i].at] \in Seq(D) /\ f[cs[i].at] = g[cs[i].at]

LEMMA FreedAlike ==
  ASSUME NEW D, NEW cs, NEW n \in Nat, n = Len(cs), NEW f, NEW g,
         Alike(f, g, n, cs, D)
  PROVE  FreedUpTo(cs, f)[n] = FreedUpTo(cs, g)[n]
<1>1. PICK u, v : u = FreedUpTo(cs, f) /\ v = FreedUpTo(cs, g)
  OBVIOUS
<1>2. u[0] = << >> /\ \A i \in 1..n : u[i] = FreedWith(cs[i], f, u[i - 1])
  <2>1. Lists(f, n, cs, D)
    BY DEF Lists, Alike
  <2>2. Joins(u, f, n, cs, D)
    BY <1>1, <2>1, FreedLists
  <2> QED
    BY <2>2 DEF Joins
<1>3. v[0] = << >> /\ \A i \in 1..n : v[i] = FreedWith(cs[i], g, v[i - 1])
  <2>1. Lists(g, n, cs, D)
    BY DEF Lists, Alike
  <2>2. Joins(v, g, n, cs, D)
    BY <1>1, <2>1, FreedLists
  <2> QED
    BY <2>2 DEF Joins
<1> DEFINE T == {i \in 0..n : u[i] # v[i]}
<1> SUFFICES ASSUME T # {} PROVE FALSE
  BY <1>1
<1>4. PICK m \in T : \A k \in T : m <= k
  <2>1. T \subseteq Nat
    OBVIOUS
  <2> HIDE DEF T
  <2> QED
    BY <2>1, Smallest
<1>5. m \in 1..n /\ m - 1 \in 0..n
  BY <1>2, <1>3
<1>6. u[m - 1] = v[m - 1]
  BY <1>4, <1>5
<1>7. u[m] = v[m]
  BY <1>2, <1>3, <1>5, <1>6 DEF FreedWith, Alike
<1> QED
  BY <1>7

(* What the first i children of node m free. *)
Beyond(heap, m, f, i, x) ==
  \E j \in 1..i : /\ heap[m].children[j].type \in NonTerminals
                  /\ x \in Listed(f[heap[m].children[j].at])

BelowDone(heap, m, f) ==
  \A i \in DOMAIN heap[m].children :
    heap[m].children[i].type \in NonTerminals =>
      Under(heap, heap[m].children[i].at, f[heap[m].children[i].at])

LEMMA FreedOnce ==
  ASSUME NEW heap, Walkable(heap), NEW m \in DOMAIN heap, NEW f,
         BelowDone(heap, m, f),
         NEW n \in Nat, n = Len(heap[m].children),
         NEW u, u = FreedUpTo(heap[m].children, f)
  PROVE  /\ u[n] \in Seq(DOMAIN heap) /\ Once(u[n])
         /\ \A x : x \in Listed(u[n]) <=> Beyond(heap, m, f, n, x)
<1>1. PICK cs, D : cs = heap[m].children /\ D = DOMAIN heap
  OBVIOUS
<1>2. DOMAIN cs = 1..n
  BY <1>1, TreeNodes
<1>3. \A i \in 1..n : cs[i].type \in NonTerminals =>
                        Under(heap, cs[i].at, f[cs[i].at])
  BY <1>1, <1>2 DEF BelowDone
<1>4. \A i \in 1..n : cs[i].type \in NonTerminals =>
                        f[cs[i].at] \in Seq(D) /\ Once(f[cs[i].at])
  BY <1>1, <1>3 DEF Under
<1>5. /\ u[0] = << >>
      /\ \A i \in 0..n : u[i] \in Seq(D)
      /\ \A i \in 1..n : u[i] = FreedWith(cs[i], f, u[i - 1])
  <2>1. Lists(f, n, cs, D)
    BY <1>4 DEF Lists
  <2>2. n = Len(cs) /\ u = FreedUpTo(cs, f)
    BY <1>1
  <2>3. Joins(u, f, n, cs, D)
    BY <2>1, <2>2, FreedLists
  <2> QED
    BY <2>3 DEF Joins
<1> DEFINE Good(i) == /\ Once(u[i])
                      /\ \A x : x \in Listed(u[i]) <=> Beyond(heap, m, f, i, x)
           T == {i \in 0..n : ~Good(i)}
<1>6. Good(0)
  BY <1>5 DEF Once, Listed, Beyond
<1>7. ASSUME NEW i \in 1..n, Good(i - 1) PROVE Good(i)
  <2>1. u[i - 1] \in Seq(D)
    BY <1>5
  <2>2. u[i] = FreedWith(cs[i], f, u[i - 1])
    BY <1>5
  <2>3. CASE cs[i].type \notin NonTerminals
    <3>1. u[i] = u[i - 1]
      BY <2>2, <2>3 DEF FreedWith
    <3>2. \A x : Beyond(heap, m, f, i, x) <=> Beyond(heap, m, f, i - 1, x)
      BY <1>1, <2>3 DEF Beyond
    <3> QED
      BY <1>7, <3>1, <3>2
  <2>4. CASE cs[i].type \in NonTerminals
    <3>1. PICK w : w = f[cs[i].at]
      OBVIOUS
    <3>2. w \in Seq(D) /\ Once(w)
      BY <1>4, <2>4, <3>1
    <3>3. u[i] = u[i - 1] \o w
      BY <2>2, <2>4, <3>1 DEF FreedWith
    <3>4. Listed(u[i - 1]) \cap Listed(w) = {}
      <4> SUFFICES ASSUME NEW x \in Listed(u[i - 1]), x \in Listed(w)
                   PROVE  FALSE
        OBVIOUS
      <4>1. Beyond(heap, m, f, i - 1, x)
        BY <1>7
      <4>2. PICK j \in 1..(i - 1) : cs[j].type \in NonTerminals
                                    /\ x \in Listed(f[cs[j].at])
        BY <1>1, <4>1 DEF Beyond
      <4>3. j \in 1..n /\ j # i
        OBVIOUS
      <4>4. PICK p, q : p = <<m, i>> /\ q = <<m, j>>
        OBVIOUS
      <4>5. p # q /\ p[1] = q[1]
        BY <4>3, <4>4
      <4>6. p \in Subtrees(heap) /\ ChildAt(heap, p) = cs[i].at
        BY <1>1, <1>2, <2>4, <4>4, TreeNodes
      <4>7. q \in Subtrees(heap) /\ ChildAt(heap, q) = cs[j].at
        BY <1>1, <1>2, <4>2, <4>3, <4>4, TreeNodes
      <4>8. Under(heap, ChildAt(heap, p), w)
        BY <1>3, <2>4, <3>1, <4>6
      <4>9. Under(heap, ChildAt(heap, q), f[cs[j].at])
        BY <1>3, <4>2, <4>3, <4>7
      <4>10. Listed(w) \cap Listed(f[cs[j].at]) = {}
        BY <4>5, <4>6, <4>7, <4>8, <4>9, ApartChildren
      <4> QED
        BY <4>2, <4>10
    <3>5. Once(u[i]) /\ Listed(u[i]) = Listed(u[i - 1]) \cup Listed(w)
      BY <1>7, <2>1, <3>2, <3>3, <3>4, OnceConcat
    <3>6. \A x : Beyond(heap, m, f, i, x) <=>
                   Beyond(heap, m, f, i - 1, x) \/ x \in Listed(w)
      <4>1. \A x : Beyond(heap, m, f, i, x) =>
                     Beyond(heap, m, f, i - 1, x) \/ x \in Listed(w)
        BY <1>1, <2>4, <3>1 DEF Beyond
      <4>2. \A x : Beyond(heap, m, f, i - 1, x) => Beyond(heap, m, f, i, x)
        BY DEF Beyond
      <4>3. \A x : x \in Listed(w) => Beyond(heap, m, f, i, x)
        BY <1>1, <2>4, <3>1 DEF Beyond
      <4> QED
        BY <4>1, <4>2, <4>3
    <3> QED
      BY <1>7, <3>5, <3>6
  <2> QED
    BY <2>3, <2>4
<1>8. Good(n)
  <2> HIDE DEF Good
  <2> SUFFICES ASSUME ~Good(n) PROVE FALSE
    OBVIOUS
  <2>1. T \subseteq Nat /\ T # {}
    OBVIOUS
  <2>2. PICK k \in T : \A l \in T : k <= l
    <3> HIDE DEF T
    <3> QED
      BY <2>1, Smallest
  <2>3. k \in 1..n /\ k - 1 \in 0..n /\ k - 1 \notin T
    BY <1>6, <2>2
  <2> QED
    BY <1>7, <2>3
<1> QED
  BY <1>1, <1>5, <1>8


(* A node behind its children. *)
LEMMA FreedUnder ==
  ASSUME NEW heap, Walkable(heap), NEW m \in DOMAIN heap, NEW f,
         BelowDone(heap, m, f),
         NEW n \in Nat, n = Len(heap[m].children)
  PROVE  Under(heap, m, Append(FreedUpTo(heap[m].children, f)[n], m))
<1>1. PICK cs, D, t, w : /\ cs = heap[m].children /\ D = DOMAIN heap
                         /\ t = FreedUpTo(cs, f)[n] /\ w = Append(t, m)
  OBVIOUS
<1>2. /\ t \in Seq(D) /\ Once(t)
      /\ \A x : x \in Listed(t) <=> Beyond(heap, m, f, n, x)
  BY <1>1, FreedOnce
<1>3. DOMAIN cs = 1..n /\ m \in Nat /\ m \in D
  BY <1>1, TreeNodes
<1>4. \A j \in 1..n : cs[j].type \in NonTerminals =>
        /\ Under(heap, cs[j].at, f[cs[j].at])
        /\ <<m, j>> \in Subtrees(heap) /\ cs[j].at = ChildAt(heap, <<m, j>>)
        /\ cs[j].at \in D /\ cs[j].at > m
  <2>1. \A j \in 1..n : cs[j].type \in NonTerminals =>
          Under(heap, cs[j].at, f[cs[j].at])
    BY <1>1, <1>3 DEF BelowDone
  <2> QED
    BY <1>1, <1>3, <2>1, TreeNodes
<1>5. \A x : x \in Listed(t) <=>
        \E j \in 1..n : /\ cs[j].type \in NonTerminals
                        /\ x \in Listed(f[cs[j].at])
  BY <1>1, <1>2 DEF Beyond
<1>6. D \subseteq Nat
  <2>1. DOMAIN heap = 1..Len(heap) /\ Len(heap) \in Nat
    BY TreeNodes
  <2> QED
    BY <1>1, <2>1
<1>7. \A x \in Listed(t) : x \in D /\ x > m
  <2> TAKE x \in Listed(t)
  <2>1. PICK j \in 1..n : cs[j].type \in NonTerminals
                          /\ x \in Listed(f[cs[j].at])
    BY <1>5
  <2>2. x \in D /\ x >= cs[j].at /\ cs[j].at > m /\ cs[j].at \in D
    BY <1>1, <1>4, <2>1 DEF Under
  <2> QED
    BY <1>3, <1>6, <2>2
<1>8. /\ w \in Seq(D) /\ Listed(w) = Listed(t) \cup {m} /\ Once(w)
  <2>1. m \notin Listed(t)
    BY <1>3, <1>7
  <2> QED
    BY <1>1, <1>2, <1>3, <2>1, OnceAppend
<1>9. \A x \in Listed(w) : x \in D /\ x >= m
  BY <1>3, <1>6, <1>7, <1>8
<1>10. ASSUME NEW p \in Subtrees(heap), p[1] \in Listed(w)
       PROVE  ChildAt(heap, p) \in Listed(w)
  <2>1. CASE p[1] = m
    <3>1. /\ p[2] \in 1..n /\ cs[p[2]].type \in NonTerminals
          /\ ChildAt(heap, p) = cs[p[2]].at
      BY <1>1, <1>3, <2>1, TreePlaces DEF ChildAt
    <3>2. cs[p[2]].at \in Listed(f[cs[p[2]].at])
      BY <1>4, <3>1 DEF Under
    <3> QED
      BY <1>5, <1>8, <3>1, <3>2
  <2>2. CASE p[1] \in Listed(t)
    <3>1. PICK j \in 1..n : cs[j].type \in NonTerminals
                            /\ p[1] \in Listed(f[cs[j].at])
      BY <1>5, <2>2
    <3>2. ChildAt(heap, p) \in Listed(f[cs[j].at])
      BY <1>4, <3>1 DEF Under
    <3> QED
      BY <1>5, <1>8, <3>1, <3>2
  <2> QED
    BY <1>8, <1>10, <2>1, <2>2
<1>11. ASSUME NEW p \in Subtrees(heap), ChildAt(heap, p) \in Listed(w)
       PROVE  p[1] \in Listed(w) \/ ChildAt(heap, p) = m
  <2> SUFFICES ASSUME ChildAt(heap, p) \in Listed(t)
               PROVE  p[1] \in Listed(w)
    BY <1>8, <1>11
  <2>1. PICK j \in 1..n : cs[j].type \in NonTerminals
                          /\ ChildAt(heap, p) \in Listed(f[cs[j].at])
    BY <1>5
  <2>2. p[1] \in Listed(f[cs[j].at]) \/ ChildAt(heap, p) = cs[j].at
    BY <1>4, <2>1 DEF Under
  <2>3. CASE p[1] \in Listed(f[cs[j].at])
    BY <1>5, <1>8, <2>1, <2>3
  <2>4. CASE ChildAt(heap, p) = cs[j].at
    <3>1. PICK q \in Subtrees(heap) : q = <<m, j>> /\ ChildAt(heap, q) = cs[j].at
      BY <1>4, <2>1
    <3>2. p = q
      BY <2>4, <3>1, TreePlaces
    <3>3. p[1] = m
      BY <3>1, <3>2
    <3> QED
      BY <1>8, <3>3
  <2> QED
    BY <2>2, <2>3, <2>4
<1>12. Under(heap, m, w)
  <2>1. m \in Listed(w)
    BY <1>8
  <2> QED
    BY <1>1, <1>8, <1>9, <1>10, <1>11, <2>1 DEF Under
<1> QED
  BY <1>1, <1>12

(* ast_clear does end, on such a tree: every node has its list. *)
LEMMA FreedTable ==
  ASSUME NEW heap, Walkable(heap)
  PROVE  \A m \in DOMAIN heap :
           FreedBelow(heap)[m] =
             Append(FreedUpTo(heap[m].children,
                              FreedBelow(heap))[Len(heap[m].children)], m)
<1> DEFINE New(m, f) ==
      Append(FreedUpTo(heap[m].children, f)[Len(heap[m].children)], m)
<1>1. heap # << >> /\ heap \in Seq(Node)
  BY DEF Walkable, Analysable
<1>2. PICK N \in Nat : N = Len(heap) /\ DOMAIN heap = 1..N
  BY <1>1, LenProperties
<1>3. PICK S : S = Seq(1..N)
  OBVIOUS
<1>4. S # {}
  BY <1>3, EmptySeq
<1>5. PICK F : F = [1..N -> S]
  OBVIOUS
<1>6. PICK h : h = [m \in 1..N |-> [f \in F |-> New(m, f)]]
  OBVIOUS
<1>7. \A m \in 1..N : \A f \in F : h[m][f] = New(m, f)
  <2> HIDE DEF New
  <2> QED
    BY <1>6
<1>8. \A m \in 1..N : \A f \in F : New(m, f) \in S
  <2> SUFFICES ASSUME NEW m \in 1..N, NEW f \in F PROVE New(m, f) \in S
    OBVIOUS
  <2>1. PICK cs : cs = heap[m].children
    OBVIOUS
  <2>2. PICK n \in Nat : n = Len(cs) /\ DOMAIN cs = 1..n
    BY <1>2, <2>1, TreeNodes
  <2>3. Lists(f, n, cs, 1..N)
    <3>1. \A i \in 1..n : cs[i].type \in NonTerminals => cs[i].at \in 1..N
      BY <1>2, <2>1, <2>2, TreeNodes
    <3>2. \A k \in 1..N : f[k] \in S
      BY <1>5
    <3> QED
      BY <1>3, <3>1, <3>2 DEF Lists
  <2>4. Joins(FreedUpTo(cs, f), f, n, cs, 1..N)
    BY <2>2, <2>3, FreedLists
  <2>5. FreedUpTo(cs, f)[n] \in Seq(1..N)
    BY <2>4 DEF Joins
  <2> QED
    BY <1>3, <2>1, <2>2, <2>5, AppendProperties
<1>9. ASSUME NEW m \in 1..N, NEW f \in F, NEW g \in F,
             \A k \in (m + 1)..N : f[k] = g[k]
      PROVE  New(m, f) = New(m, g)
  <2>1. PICK cs : cs = heap[m].children
    OBVIOUS
  <2>2. PICK n \in Nat : n = Len(cs) /\ DOMAIN cs = 1..n
    BY <1>2, <2>1, TreeNodes
  <2>3. \A i \in 1..n : cs[i].type \in NonTerminals =>
          f[cs[i].at] \in Seq(1..N) /\ f[cs[i].at] = g[cs[i].at]
    <3> TAKE i \in 1..n
    <3> SUFFICES ASSUME cs[i].type \in NonTerminals
                 PROVE  f[cs[i].at] \in Seq(1..N) /\ f[cs[i].at] = g[cs[i].at]
      OBVIOUS
    <3>1. cs[i].at \in 1..N /\ cs[i].at > m
      BY <1>2, <2>1, <2>2, TreeNodes
    <3>2. cs[i].at \in (m + 1)..N
      BY <3>1
    <3>3. f[cs[i].at] \in S
      BY <1>5, <3>1
    <3> QED
      BY <1>3, <1>9, <3>2, <3>3
  <2>4. Alike(f, g, n, cs, 1..N)
    BY <2>3 DEF Alike
  <2>5. FreedUpTo(cs, f)[n] = FreedUpTo(cs, g)[n]
    BY <2>2, <2>4, FreedAlike
  <2> QED
    BY <2>1, <2>2, <2>5
<1> HIDE DEF New
<1>10. Regards(h, N, S)
  <2>1. \A m \in 1..N : \A f \in F : h[m][f] \in S
    BY <1>7, <1>8
  <2>2. \A m \in 1..N : \A f, g \in F :
          (\A k \in (m + 1)..N : f[k] = g[k]) => h[m][f] = h[m][g]
    BY <1>7, <1>9
  <2> QED
    BY <1>5, <2>1, <2>2 DEF Regards
<1>11. PICK f : Solves(f, h, 1, N, S)
  BY <1>4, <1>10, Recurrent
<1>12. f \in F /\ \A m \in 1..N : f[m] = h[m][f]
  BY <1>5, <1>11 DEF Solves
<1> DEFINE R(v) == [m \in DOMAIN heap |-> New(m, v)]
<1>13. f = R(f)
  <2>1. \A m \in 1..N : f[m] = New(m, f)
    BY <1>7, <1>12
  <2>2. f = [m \in 1..N |-> f[m]]
    BY <1>5, <1>12
  <2> QED
    BY <1>2, <2>1, <2>2
<1>14. FreedBelow(heap) = CHOOSE v : v = R(v)
  BY DEF FreedBelow, New
<1>15. PICK v : v = FreedBelow(heap) /\ v = R(v)
  BY <1>13, <1>14
<1>16. \A m \in DOMAIN heap : v[m] = New(m, v)
  BY <1>15
<1> QED
  BY <1>15, <1>16 DEF New

(* It frees what there is once. *)
LEMMA FreedAll ==
  ASSUME NEW heap, Walkable(heap)
  PROVE  /\ Len(Cleared(heap, 1)) = Len(heap)
         /\ DOMAIN heap = Listed(Cleared(heap, 1))
<1>1. heap # << >> /\ heap \in Seq(Node)
  BY DEF Walkable, Analysable
<1>2. PICK N \in Nat : N = Len(heap) /\ DOMAIN heap = 1..N /\ N # 0
  BY <1>1, LenProperties, EmptySeq
<1>3. PICK v : v = FreedBelow(heap)
  OBVIOUS
<1>4. \A m \in DOMAIN heap : BelowDone(heap, m, v) => Under(heap, m, v[m])
  <2> SUFFICES ASSUME NEW m \in DOMAIN heap, BelowDone(heap, m, v)
               PROVE  Under(heap, m, v[m])
    OBVIOUS
  <2>1. PICK n \in Nat : n = Len(heap[m].children)
    BY TreeNodes
  <2>2. v[m] = Append(FreedUpTo(heap[m].children, v)[n], m)
    BY <1>3, <2>1, FreedTable
  <2>3. Under(heap, m, Append(FreedUpTo(heap[m].children, v)[n], m))
    BY <2>1, FreedUnder
  <2> QED
    BY <2>2, <2>3
<1>5. \A m \in 1..N : Under(heap, m, v[m])
  <2> DEFINE T == {m \in 1..N : ~Under(heap, m, v[m])}
  <2> SUFFICES ASSUME T # {} PROVE FALSE
    OBVIOUS
  <2>1. PICK m \in T : \A k \in T : k <= m
    <3>1. T \subseteq 0..N
      OBVIOUS
    <3> HIDE DEF T
    <3> QED
      BY <3>1, Greatest
  <2>2. m \in DOMAIN heap /\ m \in Nat
    BY <1>2
  <2>3. BelowDone(heap, m, v)
    <3> SUFFICES ASSUME NEW i \in DOMAIN heap[m].children,
                        heap[m].children[i].type \in NonTerminals
                 PROVE  Under(heap, heap[m].children[i].at,
                              v[heap[m].children[i].at])
      BY DEF BelowDone
    <3>1. PICK c : c = heap[m].children[i].at
      OBVIOUS
    <3>2. c \in 1..N /\ c > m
      BY <1>2, <2>2, <3>1, TreeNodes
    <3>3. c \notin T
      BY <2>1, <2>2, <3>2
    <3> QED
      BY <3>1, <3>2, <3>3
  <2> QED
    BY <1>4, <2>2, <2>3
<1>6. PICK s : s = v[1] /\ Under(heap, 1, s)
  BY <1>2, <1>5
<1>7. s \in Seq(1..N) /\ Once(s)
  BY <1>2, <1>6 DEF Under
<1>8. Listed(s) = 1..N
  <2>1. Listed(s) \subseteq 1..N
    BY <1>2, <1>6 DEF Under
  <2> DEFINE T == 1..N \ Listed(s)
  <2> SUFFICES ASSUME T # {} PROVE FALSE
    BY <2>1
  <2>2. PICK m \in T : \A k \in T : m <= k
    <3>1. T \subseteq Nat
      OBVIOUS
    <3> HIDE DEF T
    <3> QED
      BY <3>1, Smallest
  <2>3. m \in DOMAIN heap \ {1}
    BY <1>2, <1>6 DEF Under
  <2>4. PICK p \in Subtrees(heap) : ChildAt(heap, p) = m
    BY <2>3, TreePlaces
  <2>5. p[1] \in 1..N /\ p[1] < m
    BY <1>2, <2>4, TreePlaces
  <2>6. p[1] \in Listed(s)
    BY <2>2, <2>5
  <2> QED
    BY <1>6, <2>4, <2>6 DEF Under
<1>9. Len(s) = N
  BY <1>7, <1>8, OnceAll
<1>10. Cleared(heap, 1) = s
  BY <1>3, <1>6, ClearedBelow
<1> QED
  BY <1>2, <1>8, <1>9, <1>10

(***************************************************************************)
(* For every source: ast_clear, called at the end of main with the tree    *)
(* that parse() returned, frees each node of it, and none twice.           *)
(***************************************************************************)
THEOREM TreeAlwaysFreedOnce == Spec => []TreeFreedOnce
<1>1. TypeOK /\ (Parsed => Analysable(nodes)) /\ (Parsed => Orderly(nodes))
        => TreeFreedOnce
  <2> SUFFICES ASSUME TypeOK, Analysable(nodes), Orderly(nodes), Parsed
               PROVE  TreeFreedOnce
    BY DEF TreeFreedOnce
  <2>1. Walkable(nodes)
    BY DEF Walkable, TypeOK
  <2>2. /\ Len(Cleared(nodes, 1)) = Len(nodes)
        /\ DOMAIN nodes = Listed(Cleared(nodes, 1))
    BY <2>1, FreedAll
  <2> QED
    BY <2>2 DEF TreeFreedOnce, Listed
<1> QED
  BY <1>1, TypeCorrect, TreeAlwaysAnalysable, TreeAlwaysOrderly, PTL

-----------------------------------------------------------------------------
(***************************************************************************)
(* What the tree spells.  As long as no error was reported, each node has  *)
(* a span: the places from its first token to the one behind its last.     *)
(* The spans of its children lie side by side, from left to right, and the *)
(* span of the node that is being built ends in front of the lookahead.    *)
(***************************************************************************)
Spans == {s \in [from : Nat, to : Nat] : s.from <= s.to}

Begin(span, c) == IF c.type \in NonTerminals THEN span[c.at].from ELSE c.at

Behind(span, c) == IF c.type \in NonTerminals THEN span[c.at].to ELSE c.at + 1

(* How far node n has come with its first i children. *)
Reach(heap, span, n, i) ==
  IF i = 0 THEN span[n].from ELSE Behind(span, heap[n].children[i])

Abuts(heap, span, n) ==
  /\ \A i \in DOMAIN heap[n].children :
       Begin(span, heap[n].children[i]) = Reach(heap, span, n, i - 1)
  /\ span[n].to = Reach(heap, span, n, Len(heap[n].children))

AllAbut(heap, span) ==
  /\ span \in [DOMAIN heap -> Spans]
  /\ \A n \in DOMAIN heap : Abuts(heap, span, n)

(* Where the functions on the stack are. *)
Onward(span) ==
  /\ nodes # << >> =>
       /\ span[1].from = 1
       /\ stack = << >> => span[1].to = tok.loc
       /\ stack # << >> => span[Tree].to = tok.loc
  /\ \A d \in 1..(Len(stack) - 1) :
       span[stack[d].node].to = span[stack[d + 1].node].from

SpellInv == OrderInv /\ (errs = << >> => \E span : AllAbut(nodes, span) /\ Onward(span))

(* Without an error a token comes behind the one before it. *)
LEMMA QuietToken ==
  ASSUME errs \in Seq(Error), tok.loc \in Nat, NextToken(errs), errs' = << >>
  PROVE  errs = << >> /\ (tok.type # "EOF" => tok'.loc = tok.loc + 1)
<1>1. CASE errs' = errs /\ tok.type = "EOF"
  BY <1>1
<1>2. ASSUME NEW bad \in LexicalErrors,
             errs' = errs \o [i \in 1..bad |-> [kind |-> "INVALID_TOKEN",
                                               loc |-> tok.loc + i]],
             tok'.loc = tok.loc + bad + 1
      PROVE  errs = << >> /\ tok'.loc = tok.loc + 1
  <2> DEFINE invalid == [i \in 1..bad |-> [kind |-> "INVALID_TOKEN",
                                           loc |-> tok.loc + i]]
  <2>1. bad \in Nat
    BY ParserAssumption
  <2>2. invalid \in Seq(Error) /\ Len(invalid) = bad
    <3>1. invalid \in [1..bad -> Error]
      BY <2>1 DEF Error
    <3>2. invalid \in Seq(Error)
      BY <2>1, <3>1, SeqDef
    <3>3. DOMAIN invalid = 1..bad
      OBVIOUS
    <3> QED
      BY <2>1, <3>2, <3>3, LenProperties
  <2> HIDE DEF invalid
  <2>3. Len(errs \o invalid) = Len(errs) + Len(invalid) /\ Len(errs) \in Nat
    BY <2>2, ConcatProperties, LenProperties
  <2>4. errs \o invalid = << >>
    BY <1>2 DEF invalid
  <2>5. Len(errs \o invalid) = 0
    BY <2>4
  <2>6. Len(errs) = 0 /\ bad = 0
    BY <2>1, <2>2, <2>3, <2>5
  <2> QED
    BY <1>2, <2>6, EmptySeq
<1>3. CASE tok.type = "EOF"
  BY <1>1, <1>3 DEF NextToken
<1>4. CASE tok.type # "EOF"
  <2>1. PICK bad \in LexicalErrors :
          /\ errs' = errs \o [i \in 1..bad |-> [kind |-> "INVALID_TOKEN",
                                                loc |-> tok.loc + i]]
          /\ tok'.loc = tok.loc + bad + 1
    <3>1. PICK bad \in LexicalErrors :
            /\ errs' = errs \o [i \in 1..bad |-> [kind |-> "INVALID_TOKEN",
                                                  loc |-> tok.loc + i]]
            /\ \E x \in Following(tok.loc + bad + 1, errs') :
                 tok' = [type |-> x.type, attr |-> x.attr,
                         loc |-> tok.loc + bad + 1]
      BY <1>4 DEF NextToken
    <3>2. tok'.loc = tok.loc + bad + 1
      BY <3>1
    <3> QED
      BY <3>1, <3>2
  <2> QED
    BY <1>2, <2>1
<1> QED
  BY <1>3, <1>4

(* A child of a node is finished, unless it is a terminal. *)
LEMMA LinkDone ==
  ASSUME IInv, TreeLinked, NEW n \in DOMAIN nodes,
         NEW i \in DOMAIN nodes[n].children,
         nodes[n].children[i].type \in NonTerminals
  PROVE  /\ nodes[n].children[i].at \in Finished
         /\ nodes[n].children[i].at \in DOMAIN nodes
         /\ nodes[n].children[i].at > n
<1>1. i \in SubtreesOf(n)
  BY DEF SubtreesOf
<1> QED
  BY <1>1 DEF TreeLinked, Finished

(* A node keeps its span as long as its children keep theirs. *)
LEMMA AbutsSame ==
  ASSUME NEW heap \in Seq(Node), NEW span, NEW n \in DOMAIN heap,
         Abuts(heap, span, n),
         NEW heap2, heap2[n] = heap[n], NEW new, new[n] = span[n],
         \A i \in DOMAIN heap[n].children :
           heap[n].children[i].type \in NonTerminals =>
             new[heap[n].children[i].at] = span[heap[n].children[i].at]
  PROVE  Abuts(heap2, new, n)
<1>1. heap[n].children \in Seq(Child)
  <2>1. heap[n] \in Node
    BY ElementOfSeq, LenProperties
  <2> QED
    BY <2>1 DEF Node
<1>2. PICK l \in Nat : /\ l = Len(heap[n].children)
                       /\ DOMAIN heap[n].children = 1..l
  BY <1>1, LenProperties
<1>3. \A i \in 1..l :
        /\ Begin(new, heap[n].children[i]) = Begin(span, heap[n].children[i])
        /\ Behind(new, heap[n].children[i]) = Behind(span, heap[n].children[i])
  BY <1>2 DEF Begin, Behind
<1>4. \A i \in 0..l : Reach(heap2, new, n, i) = Reach(heap, span, n, i)
  <2> TAKE i \in 0..l
  <2>1. CASE i = 0
    BY <2>1 DEF Reach
  <2>2. CASE i # 0
    <3>1. i \in 1..l
      BY <2>2
    <3> QED
      BY <1>3, <2>2, <3>1 DEF Reach
  <2> QED
    BY <2>1, <2>2
<1>5. l \in 0..l /\ \A i \in 1..l : i - 1 \in 0..l
  OBVIOUS
<1> QED
  BY <1>2, <1>3, <1>4, <1>5 DEF Abuts

(* The next child of node p is added. *)
LEMMA AbutsAdded ==
  ASSUME NEW heap \in Seq(Node), NEW span, AllAbut(heap, span),
         NEW p \in DOMAIN heap,
         \A n \in DOMAIN heap : \A i \in DOMAIN heap[n].children :
           heap[n].children[i].type \in NonTerminals =>
             heap[n].children[i].at \in DOMAIN heap \ {p},
         NEW c \in Child, c.type \in NonTerminals => c.at \in DOMAIN heap \ {p},
         NEW heap2, heap2 = AddChild(heap, p, c),
         Begin(span, c) = span[p].to,
         NEW e \in Nat, e = Behind(span, c), e >= span[p].to,
         NEW new, new = [span EXCEPT ![p] = [from |-> span[p].from, to |-> e]]
  PROVE  AllAbut(heap2, new)
<1>1. p \in 1..Len(heap)
  BY LenProperties
<1>2. PICK cs : cs = heap[p].children
  OBVIOUS
<1>3. /\ DOMAIN heap2 = DOMAIN heap
      /\ \A m \in DOMAIN heap \ {p} : heap2[m] = heap[m]
      /\ heap2[p].children = Append(cs, c)
      /\ cs \in Seq(Child)
  BY <1>1, <1>2, AddChildChildren
<1>4. PICK k \in Nat : k = Len(cs) /\ DOMAIN cs = 1..k
  BY <1>3, LenProperties
<1>5. PICK ds : ds = heap2[p].children
  OBVIOUS
<1>6. /\ DOMAIN ds = 1..(k + 1) /\ Len(ds) = k + 1
      /\ \A i \in 1..k : ds[i] = cs[i]
      /\ ds[k + 1] = c
  BY <1>3, <1>4, <1>5, AppendChild, AppendProperties
<1>7. span \in [DOMAIN heap -> Spans] /\ \A n \in DOMAIN heap : Abuts(heap, span, n)
  BY DEF AllAbut
<1>8. /\ new[p] = [from |-> span[p].from, to |-> e]
      /\ \A m \in DOMAIN heap \ {p} : new[m] = span[m]
      /\ DOMAIN new = DOMAIN heap /\ new = [m \in DOMAIN heap |-> new[m]]
  BY <1>7
<1>9. span[p].from \in Nat /\ span[p].to \in Nat /\ span[p].from <= span[p].to
  BY <1>7 DEF Spans
<1>10. new[p] \in Spans /\ new[p].from = span[p].from /\ new[p].to = e
  BY <1>8, <1>9 DEF Spans
<1>11. new \in [DOMAIN heap -> Spans]
  BY <1>7, <1>8, <1>10
<1>12. \A n \in DOMAIN heap : \A i \in DOMAIN heap[n].children :
         /\ Begin(new, heap[n].children[i]) = Begin(span, heap[n].children[i])
         /\ Behind(new, heap[n].children[i]) = Behind(span, heap[n].children[i])
  <2> TAKE n \in DOMAIN heap
  <2> TAKE i \in DOMAIN heap[n].children
  <2>1. PICK d : d = heap[n].children[i]
    OBVIOUS
  <2>2. d.type \in NonTerminals => new[d.at] = span[d.at]
    BY <1>8, <2>1
  <2> QED
    BY <2>1, <2>2 DEF Begin, Behind
<1>13. Begin(new, c) = Begin(span, c) /\ Behind(new, c) = Behind(span, c)
  <2>1. c.type \in NonTerminals => new[c.at] = span[c.at]
    BY <1>8
  <2> QED
    BY <2>1 DEF Begin, Behind
<1>14. ASSUME NEW n \in DOMAIN heap, n # p PROVE Abuts(heap2, new, n)
  <2>1. heap2[n] = heap[n] /\ new[n] = span[n] /\ Abuts(heap, span, n)
    BY <1>3, <1>7, <1>8, <1>14
  <2>2. \A i \in DOMAIN heap[n].children :
          heap[n].children[i].type \in NonTerminals =>
            new[heap[n].children[i].at] = span[heap[n].children[i].at]
    BY <1>8
  <2> QED
    BY <2>1, <2>2, AbutsSame
<1>15. Abuts(heap2, new, p)
  <2>1. /\ \A i \in 1..k : Begin(span, cs[i]) = Reach(heap, span, p, i - 1)
        /\ span[p].to = Reach(heap, span, p, k)
    BY <1>2, <1>4, <1>7 DEF Abuts
  <2>2. \A i \in 1..k : Begin(new, cs[i]) = Begin(span, cs[i])
                        /\ Behind(new, cs[i]) = Behind(span, cs[i])
    BY <1>2, <1>4, <1>12
  <2>3. \A i \in 0..k : Reach(heap2, new, p, i) = Reach(heap, span, p, i)
    <3> TAKE i \in 0..k
    <3>1. CASE i = 0
      BY <1>10, <3>1 DEF Reach
    <3>2. CASE i # 0
      <4>1. i \in 1..k
        BY <3>2
      <4> QED
        BY <1>2, <1>5, <1>6, <2>2, <3>2, <4>1 DEF Reach
    <3> QED
      BY <3>1, <3>2
  <2>4. Reach(heap2, new, p, k + 1) = e
    <3>1. k + 1 # 0
      OBVIOUS
    <3> QED
      BY <1>5, <1>6, <1>13, <3>1 DEF Reach
  <2>5. \A i \in 1..(k + 1) : Begin(new, ds[i]) = Reach(heap2, new, p, i - 1)
    <3> TAKE i \in 1..(k + 1)
    <3>1. i - 1 \in 0..k
      OBVIOUS
    <3>2. CASE i \in 1..k
      BY <1>6, <2>1, <2>2, <2>3, <3>1, <3>2
    <3>3. CASE i = k + 1
      <4>1. i - 1 = k
        BY <3>3
      <4> QED
        BY <1>6, <1>13, <2>1, <2>3, <3>1, <3>3, <4>1
    <3> QED
      BY <3>2, <3>3
  <2> QED
    BY <1>5, <1>6, <1>10, <2>4, <2>5 DEF Abuts
<1> QED
  BY <1>3, <1>11, <1>14, <1>15 DEF AllAbut

(* No error is forgotten. *)
LEMMA QuietStep ==
  ASSUME IInv, HeapStep, errs' = << >>
  PROVE  errs = << >>
<1>1. errs \in Seq(Error) /\ tok.loc \in Nat
  BY DEF IInv, TypeOK, Token, NoToken
<1>2. NextToken(errs) => errs = << >>
  BY <1>1, QuietToken
<1> QED
  BY <1>2 DEF HeapStep, AddsTerminal, Takes, Invents, Calls, Call, Returns,
              Return, Begins, Keeps

(* The functions on the stack after a step, in front of the lookahead. *)
LEMMA OnwardStep ==
  ASSUME NEW new, nodes' # << >>, stack' # << >>, new[1].from = 1,
         new[Tree'].to = tok'.loc,
         \A d \in 1..(Len(stack') - 1) :
           new[stack'[d].node].to = new[stack'[d + 1].node].from
  PROVE  Onward(new)'
BY DEF Onward, Tree, Top

(* The token that is added comes behind what is there. *)
LEMMA SpellTerminal ==
  ASSUME TreeInv, AddsTerminal, errs = << >>, errs' = << >>,
         NEW span, AllAbut(nodes, span), Onward(span)
  PROVE  \E new : AllAbut(nodes', new) /\ Onward(new)'
<1>1. IInv /\ TreeLinked /\ nodes \in Seq(Node) /\ errs \in Seq(Error)
  BY DEF TreeInv, IInv, TypeOK
<1>2. PICK c \in Child, k \in Nat :
        /\ stack # << >>
        /\ nodes' = AddChild(nodes, Tree, c) /\ stack' = GoTo(k)
        /\ c = Terminal(tok) /\ tok.type # "EOF" /\ NextToken(errs)
        /\ c.type \in TokenTypes
  BY DEF AddsTerminal, Takes, Invents
<1>3. /\ Tree \in 1..Len(nodes) /\ Len(nodes) \in Nat /\ tok \in Token
      /\ DOMAIN nodes = 1..Len(nodes) /\ nodes # << >>
      /\ \A d \in 1..Len(stack) : d < Top => stack[d].node < Tree
      /\ \A d \in 1..Len(stack) : stack[d].node \in 1..Len(nodes)
      /\ Top = Len(stack) /\ Top \in DOMAIN stack /\ Len(stack) \in Nat
      /\ DOMAIN stack = 1..Len(stack)
  BY <1>1, <1>2, RunningActivation, LenProperties
     DEF IInv, StackOrdered, TypeOK, Top
<1>4. Tree \notin Finished
  BY <1>3 DEF Finished, Tree
<1>5. c.type \notin NonTerminals /\ c.at = tok.loc /\ tok.loc \in Nat
  BY <1>2, <1>3, TypesApart DEF Terminal, Token
<1>6. tok'.loc = tok.loc + 1
  BY <1>1, <1>2, <1>5, QuietToken
<1>7. /\ span[1].from = 1 /\ span[Tree].to = tok.loc
      /\ \A d \in 1..(Len(stack) - 1) :
           span[stack[d].node].to = span[stack[d + 1].node].from
  BY <1>2, <1>3 DEF Onward
<1>8. Begin(span, c) = span[Tree].to /\ Behind(span, c) = tok.loc + 1
  BY <1>5, <1>7 DEF Begin, Behind
<1>9. PICK new :
        new = [span EXCEPT ![Tree] = [from |-> span[Tree].from,
                                      to |-> tok.loc + 1]]
  OBVIOUS
<1>10. AllAbut(nodes', new)
  <2>1. \A n \in DOMAIN nodes : \A i \in DOMAIN nodes[n].children :
          nodes[n].children[i].type \in NonTerminals =>
            nodes[n].children[i].at \in DOMAIN nodes \ {Tree}
    BY <1>1, <1>4, LinkDone
  <2>2. tok.loc + 1 \in Nat /\ tok.loc + 1 >= span[Tree].to
    BY <1>5, <1>7
  <2>3. Tree \in DOMAIN nodes
    BY <1>3
  <2> QED
    BY <1>1, <1>2, <1>5, <1>8, <1>9, <2>1, <2>2, <2>3, AbutsAdded
<1>11. DOMAIN span = DOMAIN nodes
  BY DEF AllAbut
<1>12. /\ new[Tree].to = tok.loc + 1
       /\ \A m \in DOMAIN nodes : new[m].from = span[m].from
       /\ \A m \in DOMAIN nodes : m # Tree => new[m] = span[m]
  BY <1>3, <1>9, <1>11
<1>13. /\ Top' = Top /\ Tree' = Tree /\ DOMAIN stack' = DOMAIN stack
       /\ \A d \in DOMAIN stack : stack'[d].node = stack[d].node
  BY <1>1, <1>2, TerminalTop
<1>14. Onward(new)'
  <2>1. nodes' # << >> /\ stack' # << >>
    <3>1. DOMAIN nodes' = DOMAIN nodes
      BY <1>1, <1>2, <1>3, AddChildChildren
    <3>2. 1 \in DOMAIN nodes' /\ 1 \in DOMAIN stack'
      BY <1>3, <1>13, <3>1
    <3> QED
      BY <3>2, EmptySeq
  <2>2. new[1].from = 1 /\ new[Tree'].to = tok'.loc
    <3>1. 1 \in DOMAIN nodes /\ new[1].from = span[1].from
      BY <1>3, <1>12
    <3>2. new[Tree'] = new[Tree]
      BY <1>13
    <3> QED
      BY <1>6, <1>7, <1>12, <3>1, <3>2
  <2>3. ASSUME NEW d \in 1..(Len(stack') - 1)
        PROVE  new[stack'[d].node].to = new[stack'[d + 1].node].from
    <3>1. Len(stack') = Len(stack)
      BY <1>13 DEF Top
    <3>2. /\ d \in 1..(Len(stack) - 1) /\ d \in DOMAIN stack
          /\ d + 1 \in DOMAIN stack /\ d < Top
      BY <1>3, <2>3, <3>1
    <3>3. /\ stack[d].node \in DOMAIN nodes /\ stack[d + 1].node \in DOMAIN nodes
          /\ stack[d].node # Tree
      BY <1>3, <3>2
    <3> QED
      BY <1>7, <1>12, <1>13, <3>2, <3>3
  <2> QED
    BY <2>1, <2>2, <2>3, OnwardStep
<1> QED
  BY <1>10, <1>14

(* A new node begins at the lookahead. *)
LEMMA SpellCall ==
  ASSUME TreeInv, Calls, NEW span, AllAbut(nodes, span), Onward(span)
  PROVE  \E new : AllAbut(nodes', new) /\ Onward(new)'
<1>1. IInv /\ TreeLinked /\ nodes \in Seq(Node)
  BY DEF TreeInv, IInv, TypeOK
<1>2. PICK nt \in NonTerminals, k \in Nat : stack # << >> /\ Call(nt, k)
  BY DEF Calls
<1>3. PICK l \in Nat : l = Len(nodes) /\ DOMAIN nodes = 1..l
  BY <1>1, LenProperties
<1>4. /\ DOMAIN nodes' = 1..(l + 1)
      /\ \A m \in 1..l : nodes'[m] = nodes[m]
      /\ nodes'[l + 1].children = << >>
  BY <1>1, <1>2, <1>3, MakeNonterminalChildren DEF Call
<1>5. PICK t \in Nat : t = Len(stack) /\ DOMAIN stack = 1..t
  BY <1>1, LenProperties DEF IInv, TypeOK
<1>6. /\ Len(stack') = t + 1 /\ stack' # << >> /\ DOMAIN stack' = 1..(t + 1)
      /\ \A d \in 1..t : stack'[d].node = stack[d].node
      /\ stack'[t + 1].node = l + 1 /\ Tree' = l + 1
  BY <1>1, <1>2, <1>3, <1>5, CallTop
<1>7. tok.loc \in Nat /\ tok' = tok /\ nodes # << >> /\ l # 0 /\ t # 0
      /\ Tree = stack[t].node
      /\ \A d \in 1..t : stack[d].node \in 1..l
  <2>1. tok \in Token /\ Tree \in 1..Len(nodes) /\ Top \in 1..Len(stack)
    BY <1>1, <1>2, RunningActivation
  <2> QED
    BY <1>1, <1>2, <1>3, <1>5, <2>1
       DEF Token, Call, IInv, StackOrdered, Tree, Top
<1>8. /\ span[1].from = 1 /\ span[Tree].to = tok.loc
      /\ \A d \in 1..(t - 1) :
           span[stack[d].node].to = span[stack[d + 1].node].from
  BY <1>2, <1>5, <1>7 DEF Onward
<1>9. PICK new : new = [n \in 1..(l + 1) |->
                          IF n = l + 1 THEN [from |-> tok.loc, to |-> tok.loc]
                          ELSE span[n]]
  OBVIOUS
<1>10. /\ \A m \in 1..l : new[m] = span[m]
       /\ new[l + 1].from = tok.loc /\ new[l + 1].to = tok.loc
  BY <1>9
<1>11. AllAbut(nodes', new)
  <2>1. span \in [1..l -> Spans] /\ \A n \in 1..l : Abuts(nodes, span, n)
    BY <1>3 DEF AllAbut
  <2>2. [from |-> tok.loc, to |-> tok.loc] \in Spans
    BY <1>7 DEF Spans
  <2>3. new \in [1..(l + 1) -> Spans]
    BY <1>9, <2>1, <2>2
  <2>4. ASSUME NEW n \in 1..l PROVE Abuts(nodes', new, n)
    <3>1. \A i \in DOMAIN nodes[n].children :
            nodes[n].children[i].type \in NonTerminals =>
              new[nodes[n].children[i].at] = span[nodes[n].children[i].at]
      BY <1>1, <1>3, <1>10, LinkDone
    <3> QED
      BY <1>1, <1>3, <1>4, <1>10, <2>1, <3>1, AbutsSame
  <2>5. Abuts(nodes', new, l + 1)
    <3>1. DOMAIN nodes'[l + 1].children = {} /\ Len(nodes'[l + 1].children) = 0
      BY <1>4
    <3> QED
      BY <1>10, <3>1 DEF Abuts, Reach
  <2>6. \A n \in 1..(l + 1) : n \in 1..l \/ n = l + 1
    OBVIOUS
  <2> QED
    BY <1>4, <2>3, <2>4, <2>5, <2>6 DEF AllAbut
<1>12. Onward(new)'
  <2>1. nodes' # << >>
    BY <1>4, EmptySeq
  <2>2. new[1].from = 1 /\ new[Tree'].to = tok'.loc
    BY <1>6, <1>7, <1>8, <1>10
  <2>3. ASSUME NEW d \in 1..(Len(stack') - 1)
        PROVE  new[stack'[d].node].to = new[stack'[d + 1].node].from
    <3>1. d \in 1..t
      BY <1>6
    <3>2. new[stack'[d].node].to = span[stack[d].node].to
      BY <1>6, <1>7, <1>10, <3>1
    <3>3. CASE d = t
      BY <1>6, <1>7, <1>8, <1>10, <3>2, <3>3
    <3>4. CASE d # t
      <4>1. d \in 1..(t - 1) /\ d + 1 \in 1..t
        BY <3>1, <3>4
      <4>2. new[stack'[d + 1].node].from = span[stack[d + 1].node].from
        BY <1>6, <1>7, <1>10, <4>1
      <4> QED
        BY <1>8, <3>2, <4>1, <4>2
    <3> QED
      BY <3>3, <3>4
  <2> QED
    BY <1>6, <2>1, <2>2, <2>3, OnwardStep
<1> QED
  BY <1>11, <1>12

(* The node of the caller has come as far as the one that is finished. *)
LEMMA SpellReturn ==
  ASSUME TreeInv, Returns, NEW span, AllAbut(nodes, span), Onward(span)
  PROVE  \E new : AllAbut(nodes', new) /\ Onward(new)'
<1>1. IInv /\ TreeLinked /\ RootFirst /\ nodes \in Seq(Node)
      /\ stack # << >> /\ Return /\ tok' = tok
  BY DEF TreeInv, IInv, TypeOK, Returns, Return
<1>2. PICK l \in Nat : l = Len(nodes) /\ DOMAIN nodes = 1..l
  BY <1>1, LenProperties
<1>3. PICK t \in Nat : t = Len(stack) /\ t >= 1
  BY <1>1, ReturnTop
<1>4. /\ Top = t /\ DOMAIN stack = 1..t
      /\ Len(stack') = t - 1 /\ DOMAIN stack' = 1..(t - 1)
      /\ \A d \in 1..(t - 1) : stack'[d] = stack[d]
      /\ stack' # << >> => Tree' = stack[t - 1].node
  BY <1>1, <1>3, ReturnTop
<1>5. PICK m \in 1..l : m = Tree /\ m = stack[t].node
  BY <1>1, <1>2, <1>4, RunningActivation DEF Tree
<1>6. /\ nodes[m].nt \in NonTerminals /\ nodes # << >>
      /\ \A d \in 1..t : stack[d].node \in 1..l
      /\ \A d, e \in 1..t : d < e => stack[d].node < stack[e].node
  <2>1. nodes[m].nt \in NonTerminals
    BY <1>1, <1>5, RunningActivation
  <2> QED
    BY <1>1, <1>2, <1>3, <1>5, <2>1 DEF IInv, StackOrdered
<1>7. /\ span[1].from = 1 /\ span[m].to = tok.loc
      /\ \A d \in 1..(t - 1) :
           span[stack[d].node].to = span[stack[d + 1].node].from
  BY <1>1, <1>3, <1>5, <1>6 DEF Onward
<1>8. CASE t = 1
  <2>1. nodes' = nodes /\ m = 1 /\ stack' = << >> /\ Len(stack') = 0
    <3>1. nodes' = nodes /\ m = 1
      BY <1>1, <1>4, <1>5, <1>8 DEF Return, RootFirst
    <3>2. DOMAIN stack' = {} /\ stack' = SubSeq(stack, 1, 0)
      BY <1>1, <1>4, <1>8 DEF Return
    <3> QED
      BY <1>4, <1>8, <3>1, <3>2
  <2>2. Onward(span)'
    BY <1>1, <1>7, <2>1 DEF Onward
  <2> QED
    BY <2>1, <2>2
<1>9. CASE t # 1
  <2>1. PICK p \in 1..l : p = stack[t - 1].node
    BY <1>3, <1>6, <1>9
  <2>2. t - 1 \in 1..(t - 1) /\ t - 1 \in 1..t /\ t \in 1..t /\ (t - 1) + 1 = t
    BY <1>3, <1>9
  <2>3. p < m /\ p \notin Finished
    BY <1>4, <1>5, <1>6, <2>1, <2>2 DEF Finished
  <2>4. PICK c : c = Subtree(nodes[m].nt, m)
    OBVIOUS
  <2>5. c \in Child /\ c.type \in NonTerminals /\ c.at = m
    BY <1>5, <1>6, <2>4 DEF Subtree, Child, Attrs
  <2>6. nodes' = AddChild(nodes, p, c)
    BY <1>1, <1>4, <1>5, <1>9, <2>1, <2>4 DEF Return
  <2>7. Begin(span, c) = span[p].to /\ Behind(span, c) = tok.loc
    BY <1>5, <1>7, <2>1, <2>2, <2>5 DEF Begin, Behind
  <2>8. span \in [1..l -> Spans]
    BY <1>2 DEF AllAbut
  <2>9. tok.loc \in Nat /\ tok.loc >= span[p].to
    <3>1. span[m].from \in Nat /\ span[m].to \in Nat /\ span[m].from <= span[m].to
      BY <2>8 DEF Spans
    <3>2. span[m].from = span[p].to
      BY <1>5, <1>7, <2>1, <2>2
    <3> QED
      BY <1>7, <3>1, <3>2
  <2>10. PICK new : new = [span EXCEPT ![p] = [from |-> span[p].from,
                                               to |-> tok.loc]]
    OBVIOUS
  <2>11. AllAbut(nodes', new)
    <3>1. \A n \in DOMAIN nodes : \A i \in DOMAIN nodes[n].children :
            nodes[n].children[i].type \in NonTerminals =>
              nodes[n].children[i].at \in DOMAIN nodes \ {p}
      BY <1>1, <2>3, LinkDone
    <3>2. c.at \in DOMAIN nodes \ {p} /\ p \in DOMAIN nodes
      BY <1>2, <2>3, <2>5
    <3> QED
      BY <1>1, <2>5, <2>6, <2>7, <2>9, <2>10, <3>1, <3>2, AbutsAdded
  <2>12. /\ new[p].to = tok.loc
         /\ \A n \in 1..l : new[n].from = span[n].from
         /\ \A n \in 1..l : n # p => new[n] = span[n]
    BY <2>8, <2>10
  <2>13. nodes' # << >> /\ stack' # << >>
    <3>1. DOMAIN nodes' = DOMAIN nodes
      BY <1>1, <1>2, <2>1, <2>5, <2>6, AddChildChildren
    <3>2. 1 \in DOMAIN nodes' /\ 1 \in DOMAIN stack'
      BY <1>2, <1>4, <2>2, <3>1
    <3> QED
      BY <3>2, EmptySeq
  <2>14. new[1].from = 1 /\ new[Tree'].to = tok'.loc
    <3>1. new[1].from = span[1].from
      BY <2>1, <2>12
    <3> QED
      BY <1>1, <1>4, <1>7, <2>1, <2>12, <2>13, <3>1
  <2>15. ASSUME NEW d \in 1..(Len(stack') - 1)
         PROVE  new[stack'[d].node].to = new[stack'[d + 1].node].from
    <3>1. /\ d \in 1..(t - 1) /\ d + 1 \in 1..(t - 1) /\ d < t - 1
          /\ d \in 1..t /\ d + 1 \in 1..t
      BY <1>4
    <3>2. stack[d].node < p /\ stack[d].node \in 1..l /\ stack[d + 1].node \in 1..l
      BY <1>6, <2>1, <2>2, <3>1
    <3>3. stack'[d] = stack[d] /\ stack'[d + 1] = stack[d + 1]
      BY <1>4, <3>1
    <3>4. stack[d].node # p
      BY <2>1, <3>2
    <3>5. new[stack[d].node].to = span[stack[d].node].to
      BY <2>12, <3>2, <3>4
    <3>6. new[stack[d + 1].node].from = span[stack[d + 1].node].from
      BY <2>12, <3>2
    <3> QED
      BY <1>7, <3>1, <3>3, <3>5, <3>6
  <2> QED
    BY <2>11, <2>13, <2>14, <2>15, OnwardStep
<1> QED
  BY <1>8, <1>9

(* The root begins at the first token. *)
LEMMA SpellBegin ==
  ASSUME OrderInv, Begins, errs' = << >>
  PROVE  \E new : AllAbut(nodes', new) /\ Onward(new)'
<1>1. nodes \in Seq(Node) /\ errs \in Seq(Error) /\ nodes = << >>
      /\ NextToken(errs) /\ "source" \in NonTerminals
  BY DEF OrderInv, TreeInv, IInv, TypeOK, Begins, NonTerminals
<1>2. tok = NoToken
  BY <1>1 DEF OrderInv, NamesRead
<1>3. tok.loc = 0 /\ tok.type # "EOF"
  BY <1>2, AttrAssumption DEF NoToken, TokenTypes
<1>4. tok'.loc = 1
  BY <1>1, <1>3, QuietToken
<1>5. DOMAIN nodes' = 1..1 /\ nodes'[1].children = << >>
  <2>1. Len(nodes) = 0
    BY <1>1
  <2>2. /\ DOMAIN MakeNonterminal(nodes, "source") = 1..(Len(nodes) + 1)
        /\ MakeNonterminal(nodes, "source")[Len(nodes) + 1].children = << >>
    BY <1>1, MakeNonterminalChildren
  <2>3. Len(nodes) + 1 = 1
    BY <2>1
  <2> QED
    BY <2>2, <2>3 DEF Begins
<1>6. PICK new : new = [n \in 1..1 |-> [from |-> 1, to |-> 1]]
  OBVIOUS
<1>7. new[1].from = 1 /\ new[1].to = 1 /\ new \in [1..1 -> Spans]
  BY <1>6 DEF Spans
<1>8. AllAbut(nodes', new)
  <2>1. DOMAIN nodes'[1].children = {} /\ Len(nodes'[1].children) = 0
    BY <1>5
  <2>2. Abuts(nodes', new, 1)
    BY <1>7, <2>1 DEF Abuts, Reach
  <2> QED
    BY <1>5, <1>7, <2>2 DEF AllAbut
<1>9. Onward(new)'
  <2>1. stack' = <<[node |-> 1, step |-> 1]>>
    BY DEF Begins
  <2>2. stack' # << >> /\ Len(stack') = 1 /\ stack'[1].node = 1 /\ nodes' # << >>
    BY <1>5, <2>1, EmptySeq
  <2>3. Tree' = 1
    BY <2>2 DEF Tree, Top
  <2>4. \A d \in 1..(Len(stack') - 1) :
          new[stack'[d].node].to = new[stack'[d + 1].node].from
    BY <2>2
  <2> QED
    BY <1>4, <1>7, <2>2, <2>3, <2>4, OnwardStep
<1> QED
  BY <1>8, <1>9

(* As long as there is no error the tree spells what was read. *)
LEMMA SpellInvariance == Spec => []SpellInv
<1>1. Init => SpellInv
  <2> SUFFICES ASSUME Init PROVE SpellInv
    OBVIOUS
  <2>1. nodes = << >> /\ stack = << >> /\ tok = NoToken
    BY DEF Init
  <2>2. OrderInv
    BY <2>1, InitTree DEF OrderInv, NodesComplete, NamesRead, Finished
  <2>3. PICK span : span = [n \in {} |-> n]
    OBVIOUS
  <2>4. DOMAIN nodes = {} /\ Len(stack) = 0
    BY <2>1
  <2>5. AllAbut(nodes, span) /\ Onward(span)
    BY <2>1, <2>3, <2>4 DEF AllAbut, Onward
  <2> QED
    BY <2>2, <2>5 DEF SpellInv
<1>2. OrderInv /\ OrderInv' /\ SpellInv /\ [Next]_vars => SpellInv'
  <2> SUFFICES ASSUME OrderInv, OrderInv', SpellInv, [Next]_vars, errs' = << >>
               PROVE  \E new : AllAbut(nodes', new) /\ Onward(new)'
    BY DEF SpellInv
  <2>1. TreeInv /\ IInv /\ SymbolAtHand /\ AssignAtIdentifier
    BY DEF OrderInv, TreeInv
  <2>2. HeapStep
    BY <2>1, NextHeap
  <2>3. errs = << >>
    BY <2>1, <2>2, QuietStep
  <2>4. PICK span : AllAbut(nodes, span) /\ Onward(span)
    BY <2>3 DEF SpellInv
  <2>5. CASE AddsTerminal
    BY <2>1, <2>3, <2>4, <2>5, SpellTerminal
  <2>6. CASE Calls
    BY <2>1, <2>4, <2>6, SpellCall
  <2>7. CASE Returns
    BY <2>1, <2>4, <2>7, SpellReturn
  <2>8. CASE Begins
    BY <2>8, SpellBegin
  <2>9. CASE Keeps
    <3>1. nodes' = nodes /\ stack' = stack /\ tok' = tok
      BY <2>9 DEF Keeps
    <3>2. Onward(span)'
      BY <2>4, <3>1 DEF Onward, Tree, Top
    <3> QED
      BY <2>4, <3>1, <3>2
  <2> QED
    BY <2>2, <2>5, <2>6, <2>7, <2>8, <2>9 DEF HeapStep
<1> QED
  BY <1>1, <1>2, OrderInvariance, PTL DEF Spec

-----------------------------------------------------------------------------
(* What is read from a child, *)
SpeltWith(c, f) == IF c.type \in NonTerminals THEN f[c.at] ELSE <<c.at>>

(* from some of the children, *)
SpeltUpTo(cs, f) ==
  LET g[i \in 0..Len(cs)] ==
        IF i = 0 THEN << >> ELSE g[i - 1] \o SpeltWith(cs[i], f)
  IN g

(* and from every node. *)
SpeltBelow(heap) ==
  LET f[n \in DOMAIN heap] ==
        SpeltUpTo(heap[n].children, f)[Len(heap[n].children)]
  IN f

LEMMA FringeBelow == Fringe = SpeltBelow(nodes)[1]
BY DEF Fringe, SpeltBelow, SpeltUpTo, SpeltWith

(* The places from a to the one in front of b. *)
Stretch(a, b) == [i \in 1..(b - a) |-> a + i - 1]

LEMMA StretchFacts ==
  ASSUME NEW a \in Nat, NEW b \in Nat, a <= b
  PROVE  /\ Stretch(a, a) = << >> /\ Stretch(a, a + 1) = <<a>>
         /\ Stretch(a, b) \in Seq(Nat) /\ Len(Stretch(a, b)) = b - a
         /\ \A i \in 1..(b - a) : Stretch(a, b)[i] = a + i - 1
<1>1. Stretch(a, a) = << >>
  <2>1. a - a = 0
    OBVIOUS
  <2>2. 1..0 = {}
    OBVIOUS
  <2>3. DOMAIN Stretch(a, a) = {}
    BY <2>1, <2>2 DEF Stretch
  <2>4. Stretch(a, a) \in Seq(Nat)
    <3>1. Stretch(a, a) \in [1..0 -> Nat]
      BY <2>1, <2>2 DEF Stretch
    <3> QED
      BY <3>1, SeqDef
  <2> QED
    BY <2>3, <2>4, EmptySeq
<1>2. b - a \in Nat /\ Stretch(a, b) \in [1..(b - a) -> Nat]
  BY DEF Stretch
<1>3. Stretch(a, b) \in Seq(Nat) /\ DOMAIN Stretch(a, b) = 1..(b - a)
  BY <1>2, SeqDef
<1>4. Len(Stretch(a, b)) = b - a
  BY <1>2, <1>3, LenProperties
<1>5. Stretch(a, a + 1) = <<a>>
  <2>1. (a + 1) - a = 1
    OBVIOUS
  <2>2. Stretch(a, a + 1) = [i \in 1..1 |-> a + i - 1]
    BY <2>1 DEF Stretch
  <2>3. \A i \in 1..1 : a + i - 1 = a
    OBVIOUS
  <2> QED
    BY <2>2, <2>3
<1> QED
  BY <1>1, <1>3, <1>4, <1>5 DEF Stretch

(* One stretch behind the other is one. *)
LEMMA StretchOnward ==
  ASSUME NEW a \in Nat, NEW b \in Nat, NEW c \in Nat, a <= b, b <= c
  PROVE  Stretch(a, b) \o Stretch(b, c) = Stretch(a, c)
<1>1. PICK s, t, u : s = Stretch(a, b) /\ t = Stretch(b, c) /\ u = Stretch(a, c)
  OBVIOUS
<1>2. /\ s \in Seq(Nat) /\ Len(s) = b - a
      /\ \A i \in 1..(b - a) : s[i] = a + i - 1
  <2>1. a <= b
    OBVIOUS
  <2>2. /\ Stretch(a, b) \in Seq(Nat) /\ Len(Stretch(a, b)) = b - a
        /\ \A i \in 1..(b - a) : Stretch(a, b)[i] = a + i - 1
    BY <2>1, StretchFacts
  <2> QED
    BY <1>1, <2>2
<1>3. /\ t \in Seq(Nat) /\ Len(t) = c - b
      /\ \A i \in 1..(c - b) : t[i] = b + i - 1
  <2>1. b <= c
    OBVIOUS
  <2>2. /\ Stretch(b, c) \in Seq(Nat) /\ Len(Stretch(b, c)) = c - b
        /\ \A i \in 1..(c - b) : Stretch(b, c)[i] = b + i - 1
    BY <2>1, StretchFacts
  <2> QED
    BY <1>1, <2>2
<1>4. /\ u \in Seq(Nat) /\ Len(u) = c - a
      /\ \A i \in 1..(c - a) : u[i] = a + i - 1
  <2>1. a <= c
    OBVIOUS
  <2>2. /\ Stretch(a, c) \in Seq(Nat) /\ Len(Stretch(a, c)) = c - a
        /\ \A i \in 1..(c - a) : Stretch(a, c)[i] = a + i - 1
    BY <2>1, StretchFacts
  <2> QED
    BY <1>1, <2>2
<1>5. /\ s \o t \in Seq(Nat) /\ Len(s \o t) = Len(s) + Len(t)
      /\ \A i \in 1..(Len(s) + Len(t)) :
           (s \o t)[i] = IF i <= Len(s) THEN s[i] ELSE t[i - Len(s)]
  BY <1>2, <1>3, ConcatProperties
<1>6. Len(s \o t) = Len(u)
  BY <1>2, <1>3, <1>4, <1>5
<1>7. \A i \in 1..Len(u) : (s \o t)[i] = u[i]
  <2> TAKE i \in 1..Len(u)
  <2>1. i \in 1..(c - a) /\ i \in 1..(Len(s) + Len(t)) /\ u[i] = a + i - 1
    BY <1>2, <1>3, <1>4
  <2>2. CASE i <= b - a
    BY <1>2, <1>5, <2>1, <2>2
  <2>3. CASE ~(i <= b - a)
    <3>1. i - (b - a) \in 1..(c - b) /\ b + (i - (b - a)) - 1 = a + i - 1
      BY <2>1, <2>3
    <3>2. (s \o t)[i] = t[i - (b - a)]
      BY <1>2, <1>5, <2>1, <2>3
    <3> QED
      BY <1>3, <2>1, <3>1, <3>2
  <2> QED
    BY <2>2, <2>3
<1>8. s \o t = u
  BY <1>4, <1>5, <1>6, <1>7, SeqEqual
<1> QED
  BY <1>1, <1>8

(* The children of a node spell its span, when they spell theirs. *)
SpellsTheirs(heap, span, n, f) ==
  \A i \in DOMAIN heap[n].children :
    heap[n].children[i].type \in NonTerminals =>
      /\ heap[n].children[i].at \in DOMAIN heap
      /\ f[heap[n].children[i].at] = Stretch(span[heap[n].children[i].at].from,
                                             span[heap[n].children[i].at].to)

LEMMA NodeSpells ==
  ASSUME NEW heap \in Seq(Node), NEW span, AllAbut(heap, span),
         NEW n \in DOMAIN heap, NEW f, SpellsTheirs(heap, span, n, f)
  PROVE  SpeltUpTo(heap[n].children, f)[Len(heap[n].children)]
           = Stretch(span[n].from, span[n].to)
<1>1. PICK cs, a : cs = heap[n].children /\ a = span[n].from
  OBVIOUS
<1>2. cs \in Seq(Child)
  <2>1. heap[n] \in Node
    BY ElementOfSeq, LenProperties
  <2> QED
    BY <1>1, <2>1 DEF Node
<1>3. PICK k \in Nat : k = Len(cs) /\ DOMAIN cs = 1..k
  BY <1>2, LenProperties
<1>4. PICK r : r = [i \in 0..k |-> Reach(heap, span, n, i)]
  OBVIOUS
<1>5. span \in [DOMAIN heap -> Spans] /\ Abuts(heap, span, n)
  BY DEF AllAbut
<1>6. a \in Nat /\ r[0] = a /\ r[k] = span[n].to
  BY <1>1, <1>3, <1>4, <1>5 DEF Abuts, Reach, Spans
<1>7. ASSUME NEW i \in 1..k, r[i - 1] \in Nat
      PROVE  /\ r[i] \in Nat /\ r[i - 1] <= r[i]
             /\ SpeltWith(cs[i], f) = Stretch(r[i - 1], r[i])
  <2>0. PICK c \in Child : c = cs[i]
    BY <1>2, <1>3, ElementOfSeq
  <2>1. r[i - 1] = Begin(span, c) /\ r[i] = Behind(span, c)
    <3>1. i \in 0..k /\ i - 1 \in 0..k /\ i # 0 /\ i \in DOMAIN cs
      BY <1>3
    <3>2. Begin(span, c) = Reach(heap, span, n, i - 1)
      BY <1>1, <1>5, <2>0, <3>1 DEF Abuts
    <3>3. Reach(heap, span, n, i) = Behind(span, c)
      BY <1>1, <2>0, <3>1 DEF Reach
    <3> QED
      BY <1>4, <3>1, <3>2, <3>3
  <2>2. CASE c.type \in NonTerminals
    <3>1. c.at \in DOMAIN heap /\ f[c.at] = Stretch(span[c.at].from, span[c.at].to)
      BY <1>1, <1>3, <2>0, <2>2 DEF SpellsTheirs
    <3>2. span[c.at] \in Spans
      BY <1>5, <3>1
    <3> QED
      BY <2>0, <2>1, <2>2, <3>1, <3>2 DEF Begin, Behind, SpeltWith, Spans
  <2>3. CASE c.type \notin NonTerminals
    <3>1. c.at \in Nat
      BY DEF Child
    <3>2. r[i - 1] = c.at /\ r[i] = c.at + 1
      BY <2>1, <2>3 DEF Begin, Behind
    <3>3. Stretch(c.at, c.at + 1) = <<c.at>>
      <4>1. c.at <= c.at
        BY <3>1
      <4> QED
        BY <3>1, <4>1, StretchFacts
    <3> QED
      BY <2>0, <2>3, <3>1, <3>2, <3>3 DEF SpeltWith
  <2> QED
    BY <2>2, <2>3
<1> DEFINE Far(i) == r[i] \in Nat /\ a <= r[i]
           T == {i \in 0..k : ~Far(i)}
<1>8. \A i \in 0..k : Far(i)
  <2> SUFFICES ASSUME T # {} PROVE FALSE
    OBVIOUS
  <2>1. PICK m \in T : \A j \in T : m <= j
    <3>1. T \subseteq Nat
      OBVIOUS
    <3> HIDE DEF T
    <3> QED
      BY <3>1, Smallest
  <2>2. m \in 1..k /\ m - 1 \in 0..k /\ m - 1 \notin T
    BY <1>6, <2>1
  <2>3. r[m - 1] \in Nat /\ a <= r[m - 1]
    BY <2>2
  <2> QED
    BY <1>6, <1>7, <2>1, <2>2, <2>3
<1> HIDE DEF T, Far
<1>9. \A i \in 1..k :
        Stretch(a, r[i - 1]) \o SpeltWith(cs[i], f) = Stretch(a, r[i])
  <2> TAKE i \in 1..k
  <2>1. i - 1 \in 0..k
    OBVIOUS
  <2>2. r[i - 1] \in Nat /\ a <= r[i - 1]
    BY <1>8, <2>1 DEF Far
  <2>3. /\ r[i] \in Nat /\ r[i - 1] <= r[i]
        /\ SpeltWith(cs[i], f) = Stretch(r[i - 1], r[i])
    BY <1>7, <2>2
  <2>4. Stretch(a, r[i - 1]) \o Stretch(r[i - 1], r[i]) = Stretch(a, r[i])
    <3>1. PICK p, q : p = r[i - 1] /\ q = r[i]
      OBVIOUS
    <3>2. a \in Nat /\ p \in Nat /\ q \in Nat /\ a <= p /\ p <= q
      BY <1>6, <2>2, <2>3, <3>1
    <3>3. Stretch(a, p) \o Stretch(p, q) = Stretch(a, q)
      BY <3>2, StretchOnward
    <3> QED
      BY <3>1, <3>3
  <2> QED
    BY <2>3, <2>4
<1> DEFINE R(u) == [i \in 0..k |-> IF i = 0 THEN << >>
                                   ELSE u[i - 1] \o SpeltWith(cs[i], f)]
<1>10. PICK u : u = [i \in 0..k |-> Stretch(a, r[i])]
  OBVIOUS
<1>11. u = R(u)
  <2>1. u[0] = << >>
    <3>1. u[0] = Stretch(a, a)
      BY <1>6, <1>10
    <3>2. a \in Nat /\ a <= a
      BY <1>6
    <3> QED
      BY <3>1, <3>2, StretchFacts
  <2>2. \A i \in 0..k : i # 0 => u[i] = u[i - 1] \o SpeltWith(cs[i], f)
    <3> TAKE i \in 0..k
    <3> SUFFICES ASSUME i # 0 PROVE u[i] = u[i - 1] \o SpeltWith(cs[i], f)
      OBVIOUS
    <3>1. i \in 1..k /\ i - 1 \in 0..k
      OBVIOUS
    <3>2. u[i] = Stretch(a, r[i]) /\ u[i - 1] = Stretch(a, r[i - 1])
      BY <1>10, <3>1
    <3> QED
      BY <1>9, <3>1, <3>2
  <2>3. u = [i \in 0..k |-> u[i]]
    BY <1>10
  <2> QED
    BY <2>1, <2>2, <2>3
<1>12. SpeltUpTo(cs, f) = CHOOSE w : w = R(w)
  BY <1>3 DEF SpeltUpTo
<1>13. PICK v : v = SpeltUpTo(cs, f) /\ v = R(v)
  BY <1>11, <1>12
<1>14. v[0] = << >> /\ \A i \in 1..k : v[i] = v[i - 1] \o SpeltWith(cs[i], f)
  BY <1>13
<1> HIDE DEF R
<1>15. \A i \in 0..k : v[i] = Stretch(a, r[i])
  <2> DEFINE U == {i \in 0..k : v[i] # Stretch(a, r[i])}
  <2> SUFFICES ASSUME U # {} PROVE FALSE
    OBVIOUS
  <2>1. PICK m \in U : \A j \in U : m <= j
    <3>1. U \subseteq Nat
      OBVIOUS
    <3> HIDE DEF U
    <3> QED
      BY <3>1, Smallest
  <2>2. v[0] = Stretch(a, r[0])
    <3>1. a \in Nat /\ a <= a
      BY <1>6
    <3>2. Stretch(a, a) = << >>
      BY <3>1, StretchFacts
    <3> QED
      BY <1>6, <1>14, <3>2
  <2>3. m \in 1..k /\ m - 1 \in 0..k /\ m - 1 \notin U
    BY <2>1, <2>2
  <2>4. v[m - 1] = Stretch(a, r[m - 1])
    BY <2>3
  <2>5. v[m] = Stretch(a, r[m])
    BY <1>9, <1>14, <2>3, <2>4
  <2> QED
    BY <2>5
<1> QED
  BY <1>1, <1>3, <1>6, <1>13, <1>15

(* And so does every node. *)
LEMMA TreeSpells ==
  ASSUME NEW heap \in Seq(Node), NEW span, AllAbut(heap, span),
         \A n \in DOMAIN heap : \A i \in DOMAIN heap[n].children :
           heap[n].children[i].type \in NonTerminals =>
             /\ heap[n].children[i].at \in DOMAIN heap
             /\ heap[n].children[i].at > n
  PROVE  \A n \in DOMAIN heap :
           SpeltBelow(heap)[n] = Stretch(span[n].from, span[n].to)
<1>1. PICK N \in Nat : N = Len(heap) /\ DOMAIN heap = 1..N
  BY LenProperties
<1> DEFINE New(n, f) == SpeltUpTo(heap[n].children, f)[Len(heap[n].children)]
           R(f) == [n \in DOMAIN heap |-> New(n, f)]
           Spells(f, n) == f[n] = Stretch(span[n].from, span[n].to)
<1>2. PICK u : u = [n \in 1..N |-> Stretch(span[n].from, span[n].to)]
  OBVIOUS
<1>3. u = R(u)
  <2>1. \A n \in 1..N : u[n] = New(n, u)
    <3> TAKE n \in 1..N
    <3>1. SpellsTheirs(heap, span, n, u)
      BY <1>1, <1>2 DEF SpellsTheirs
    <3> QED
      BY <1>1, <1>2, <3>1, NodeSpells
  <2>2. u = [n \in 1..N |-> u[n]]
    BY <1>2
  <2> HIDE DEF New
  <2> QED
    BY <1>1, <2>1, <2>2
<1>4. SpeltBelow(heap) = CHOOSE v : v = R(v)
  BY DEF SpeltBelow
<1>5. PICK v : v = SpeltBelow(heap) /\ v = R(v)
  BY <1>3, <1>4
<1> HIDE DEF New
<1>6. \A n \in 1..N : v[n] = New(n, v)
  BY <1>1, <1>5
<1> DEFINE T == {n \in 1..N : ~Spells(v, n)}
<1>7. T = {}
  <2> SUFFICES ASSUME T # {} PROVE FALSE
    OBVIOUS
  <2>1. PICK m \in T : \A j \in T : j <= m
    <3>1. T \subseteq 0..N
      OBVIOUS
    <3> HIDE DEF T
    <3> QED
      BY <3>1, Greatest
  <2>2. m \in DOMAIN heap /\ m \in 1..N
    BY <1>1
  <2>3. SpellsTheirs(heap, span, m, v)
    <3> SUFFICES ASSUME NEW i \in DOMAIN heap[m].children,
                        heap[m].children[i].type \in NonTerminals
                 PROVE  /\ heap[m].children[i].at \in DOMAIN heap
                        /\ Spells(v, heap[m].children[i].at)
      BY DEF SpellsTheirs
    <3>1. PICK c : c = heap[m].children[i].at
      OBVIOUS
    <3>2. c \in 1..N /\ c > m
      BY <1>1, <2>2, <3>1
    <3>3. c \notin T
      BY <2>1, <2>2, <3>2
    <3> QED
      BY <1>1, <3>1, <3>2, <3>3
  <2>4. New(m, v) = Stretch(span[m].from, span[m].to)
    BY <2>2, <2>3, NodeSpells DEF New
  <2> QED
    BY <1>6, <2>1, <2>2, <2>4
<1> QED
  BY <1>1, <1>5, <1>7

(***************************************************************************)
(* For every source: a tree without a reported error spells the tokens     *)
(* that were read, each once and in order.  The parser repairs nothing     *)
(* silently.                                                               *)
(***************************************************************************)
THEOREM TreeAlwaysExact == Spec => []ExactUnlessReported
<1>1. SpellInv => ExactUnlessReported
  <2> SUFFICES ASSUME SpellInv, Parsed, errs = << >>
               PROVE  Fringe = [i \in 1..(tok.loc - 1) |-> i]
    BY DEF ExactUnlessReported
  <2>1. IInv /\ TreeLinked /\ nodes \in Seq(Node)
    BY DEF SpellInv, OrderInv, TreeInv, IInv, TypeOK
  <2>2. PICK span : AllAbut(nodes, span) /\ Onward(span)
    BY DEF SpellInv
  <2>3. span[1].from = 1 /\ span[1].to = tok.loc
    BY <2>2 DEF Onward, Parsed
  <2>4. 1 \in DOMAIN nodes
    <3>1. Len(nodes) \in Nat /\ DOMAIN nodes = 1..Len(nodes) /\ Len(nodes) # 0
      BY <2>1, LenProperties, EmptySeq DEF Parsed
    <3> QED
      BY <3>1
  <2>5. SpeltBelow(nodes)[1] = Stretch(1, tok.loc)
    <3>1. \A n \in DOMAIN nodes : \A i \in DOMAIN nodes[n].children :
            nodes[n].children[i].type \in NonTerminals =>
              /\ nodes[n].children[i].at \in DOMAIN nodes
              /\ nodes[n].children[i].at > n
      BY <2>1, LinkDone
    <3> QED
      BY <2>1, <2>2, <2>3, <2>4, <3>1, TreeSpells
  <2>6. \A i \in 1..(tok.loc - 1) : 1 + i - 1 = i
    OBVIOUS
  <2> QED
    BY <2>5, <2>6, FringeBelow DEF Stretch
<1> QED
  BY <1>1, SpellInvariance, PTL

-----------------------------------------------------------------------------
(* The grammar of include/parser.h: its rules, and what After computes.     *)

(* The forms: sequences of terminals and nonterminals. *)
Forms == Seq(CodeGrammar!Symbols)

(* The rules of the grammar, one by one. *)
LEMMA Rules ==
  /\ CodeGrammar!Alternatives("source") = {SourceScript}
  /\ CodeGrammar!Alternatives("variables") = {<< >>, <<"declaration", "variables">>}
  /\ CodeGrammar!Alternatives("declaration") = {Declaration}
  /\ CodeGrammar!Alternatives("statements") = {<< >>, <<"statement", "statements">>}
  /\ CodeGrammar!Alternatives("statement")
       = {AssignScript, InputScript, OutputScript, BranchScript, LoopScript, RepeatScript}
  /\ CodeGrammar!Alternatives("expression") = {<<"term", "addends">>}
  /\ CodeGrammar!Alternatives("addends") = {<< >>, <<"addend", "addends">>}
  /\ CodeGrammar!Alternatives("addend") = {<<"sign", "term">>}
  /\ CodeGrammar!Alternatives("term") = {<<"factor", "multipliers">>}
  /\ CodeGrammar!Alternatives("multipliers") = {<< >>, <<"multiplier", "multipliers">>}
  /\ CodeGrammar!Alternatives("multiplier") = {<<"muldiv", "factor">>}
  /\ CodeGrammar!Alternatives("factor")
       = {<<"LITERAL">>, <<"IDENTIFIER">>, <<"sign", "factor">>,
          <<"LPAREN", "expression", "RPAREN">>}
  /\ CodeGrammar!Alternatives("condition") = {ConditionScript}
<1>1. CodeGrammar!Alternatives("source") = {SourceScript}
  BY DEF CodeGrammar!Alternatives, SourceScript
<1>2. CodeGrammar!Alternatives("variables") = {<< >>, <<"declaration", "variables">>}
  BY DEF CodeGrammar!Alternatives, CodeGrammar!Braces
<1>3. CodeGrammar!Alternatives("declaration") = {Declaration}
  BY DEF CodeGrammar!Alternatives, Declaration
<1>4. CodeGrammar!Alternatives("statements") = {<< >>, <<"statement", "statements">>}
  BY DEF CodeGrammar!Alternatives, CodeGrammar!Braces
<1>5. CodeGrammar!Alternatives("statement")
       = {AssignScript, InputScript, OutputScript, BranchScript, LoopScript, RepeatScript}
  <2>1. CodeGrammar!Alternatives("statement") = CodeGrammar!StatementForms
    BY DEF CodeGrammar!Alternatives
  <2>2. CodeGrammar!StatementForms
          = {AssignScript, InputScript, OutputScript, BranchScript, LoopScript, RepeatScript}
    BY DEF CodeGrammar!StatementForms, AssignScript, InputScript, OutputScript,
           BranchScript, LoopScript, RepeatScript
  <2> QED BY <2>1, <2>2
<1>6. CodeGrammar!Alternatives("expression") = {<<"term", "addends">>}
  BY DEF CodeGrammar!Alternatives
<1>7. CodeGrammar!Alternatives("addends") = {<< >>, <<"addend", "addends">>}
  BY DEF CodeGrammar!Alternatives, CodeGrammar!Braces
<1>8. CodeGrammar!Alternatives("addend") = {<<"sign", "term">>}
  BY DEF CodeGrammar!Alternatives
<1>9. CodeGrammar!Alternatives("term") = {<<"factor", "multipliers">>}
  BY DEF CodeGrammar!Alternatives
<1>10. CodeGrammar!Alternatives("multipliers") = {<< >>, <<"multiplier", "multipliers">>}
  BY DEF CodeGrammar!Alternatives, CodeGrammar!Braces
<1>11. CodeGrammar!Alternatives("multiplier") = {<<"muldiv", "factor">>}
  BY DEF CodeGrammar!Alternatives
<1>12. CodeGrammar!Alternatives("factor")
       = {<<"LITERAL">>, <<"IDENTIFIER">>, <<"sign", "factor">>,
          <<"LPAREN", "expression", "RPAREN">>}
  BY DEF CodeGrammar!Alternatives
<1>13. CodeGrammar!Alternatives("condition") = {ConditionScript}
  BY DEF CodeGrammar!Alternatives, ConditionScript
<1> QED
  BY <1>1, <1>2, <1>3, <1>4, <1>5, <1>6, <1>7, <1>8, <1>9, <1>10, <1>11,
     <1>12, <1>13

(* No other symbol has a rule. *)
LEMMA NoOtherRule ==
  ASSUME NEW x,
         x \notin {"source", "variables", "declaration", "statements", "statement",
                   "expression", "addends", "addend", "term", "multipliers",
                   "multiplier", "factor", "condition"}
  PROVE  CodeGrammar!Alternatives(x) = {}
BY DEF CodeGrammar!Alternatives

(* The forms of the grammar are sequences of symbols. *)
LEMMA ScriptForms ==
  /\ SourceScript \in Forms /\ AssignScript \in Forms /\ InputScript \in Forms
  /\ OutputScript \in Forms /\ BranchScript \in Forms /\ LoopScript \in Forms
  /\ RepeatScript \in Forms /\ ConditionScript \in Forms /\ Declaration \in Forms
<1> USE DEF Forms, CodeGrammar!Symbols, CodeGrammar!Nonterminals
<1>1. SourceScript \in Forms /\ Declaration \in Forms /\ AssignScript \in Forms
  BY DEF SourceScript, Declaration, AssignScript
<1>2. InputScript \in Forms /\ OutputScript \in Forms /\ ConditionScript \in Forms
  BY DEF InputScript, OutputScript, ConditionScript
<1>3. BranchScript \in Forms
  BY DEF BranchScript
<1>4. LoopScript \in Forms /\ RepeatScript \in Forms
  BY DEF LoopScript, RepeatScript
<1> QED BY <1>1, <1>2, <1>3, <1>4

(* Every right-hand side is a form. *)
LEMMA AlternativesAreForms ==
  ASSUME NEW x
  PROVE  CodeGrammar!Alternatives(x) \subseteq Forms
<1>1. \A y, z \in CodeGrammar!Symbols : << >> \in Forms /\ <<y>> \in Forms /\ <<y, z>> \in Forms
  BY DEF Forms
<1>2. <<"LPAREN", "expression", "RPAREN">> \in Forms
  BY DEF Forms, CodeGrammar!Symbols, CodeGrammar!Nonterminals
<1>3. {"declaration", "variables", "statement", "statements", "term", "addends",
        "addend", "sign", "factor", "multipliers", "multiplier", "muldiv",
        "LITERAL", "IDENTIFIER"} \subseteq CodeGrammar!Symbols
  BY DEF CodeGrammar!Symbols, CodeGrammar!Nonterminals
<1>4. CASE x \notin {"source", "variables", "declaration", "statements", "statement",
                   "expression", "addends", "addend", "term", "multipliers",
                   "multiplier", "factor", "condition"}
  BY <1>4, NoOtherRule
<1>5. CASE x \in {"source", "declaration", "statement", "condition"}
  BY <1>5, Rules, ScriptForms
<1>6. CASE x \in {"variables", "statements", "addends", "multipliers"}
  <2>1. /\ << >> \in Forms
        /\ <<"declaration", "variables">> \in Forms /\ <<"statement", "statements">> \in Forms
        /\ <<"addend", "addends">> \in Forms /\ <<"multiplier", "multipliers">> \in Forms
    BY <1>1, <1>3
  <2> QED
    BY <1>6, <2>1, Rules
<1>7. CASE x \in {"expression", "addend", "term", "multiplier"}
  <2>1. /\ <<"term", "addends">> \in Forms /\ <<"sign", "term">> \in Forms
        /\ <<"factor", "multipliers">> \in Forms /\ <<"muldiv", "factor">> \in Forms
    BY <1>1, <1>3
  <2> QED
    BY <1>7, <2>1, Rules
<1>8. CASE x = "factor"
  <2>1. /\ <<"LITERAL">> \in Forms /\ <<"IDENTIFIER">> \in Forms
        /\ <<"sign", "factor">> \in Forms
    BY <1>1, <1>3
  <2>2. CodeGrammar!Alternatives(x)
          = {<<"LITERAL">>, <<"IDENTIFIER">>, <<"sign", "factor">>,
             <<"LPAREN", "expression", "RPAREN">>}
    BY <1>8, Rules
  <2> QED
    BY <1>2, <2>1, <2>2
<1> QED
  BY <1>4, <1>5, <1>6, <1>7, <1>8

(* The equation that After(w) solves: f in place of After(w). *)
AfterBy(w, f, xs, i) ==
  IF xs = << >> THEN {i}
  ELSE IF CodeGrammar!Alternatives(Head(xs)) = {}
  THEN IF i \in DOMAIN w /\ w[i] \in CodeGrammar!Terminals(Head(xs))
       THEN f[Tail(xs)][i + 1] ELSE {}
  ELSE UNION {f[ys \o Tail(xs)][i] : ys \in CodeGrammar!Alternatives(Head(xs))}

(* What After could be: for each form, the ends of its phrases by place. *)
Tables == [Forms -> [Nat -> SUBSET Nat]]

(* What is left of a form when its first symbol has been replaced. *)
LEMMA FormParts ==
  ASSUME NEW xs \in Forms, xs # << >>
  PROVE  /\ Tail(xs) \in Forms
         /\ \A ys \in CodeGrammar!Alternatives(Head(xs)) : ys \o Tail(xs) \in Forms
<1>1. Tail(xs) \in Forms
  BY HeadTailProperties DEF Forms
<1>2. \A ys \in CodeGrammar!Alternatives(Head(xs)) : ys \in Forms
  BY AlternativesAreForms
<1>3. \A ys \in Forms : ys \o Tail(xs) \in Forms
  BY <1>1, ConcatProperties DEF Forms
<1> QED BY <1>1, <1>2, <1>3

(* A table that is in every place larger gives a larger one. *)
LEMMA AfterGrows ==
  ASSUME NEW w, NEW f \in Tables, NEW g \in Tables,
         \A xs \in Forms : \A i \in Nat : f[xs][i] \subseteq g[xs][i],
         NEW xs \in Forms, NEW i \in Nat
  PROVE  /\ AfterBy(w, f, xs, i) \subseteq AfterBy(w, g, xs, i)
         /\ AfterBy(w, f, xs, i) \in SUBSET Nat
<1>0. \A ys \in Forms : \A j \in Nat : f[ys][j] \in SUBSET Nat
  BY DEF Tables
<1>1. CASE xs = << >>
  BY <1>1 DEF AfterBy
<1>2. CASE xs # << >> /\ CodeGrammar!Alternatives(Head(xs)) = {}
  <2>1. Tail(xs) \in Forms /\ i + 1 \in Nat
    BY <1>2, FormParts
  <2>2. f[Tail(xs)][i + 1] \subseteq g[Tail(xs)][i + 1] /\ f[Tail(xs)][i + 1] \in SUBSET Nat
    BY <1>0, <2>1
  <2> QED BY <1>2, <2>2 DEF AfterBy
<1>3. CASE xs # << >> /\ CodeGrammar!Alternatives(Head(xs)) # {}
  <2>1. PICK A : A = CodeGrammar!Alternatives(Head(xs))
    OBVIOUS
  <2>2. \A ys \in A : f[ys \o Tail(xs)][i] \subseteq g[ys \o Tail(xs)][i]
                      /\ f[ys \o Tail(xs)][i] \in SUBSET Nat
    BY <1>0, <1>3, <2>1, FormParts
  <2>3. /\ AfterBy(w, f, xs, i) = UNION {f[ys \o Tail(xs)][i] : ys \in A}
        /\ AfterBy(w, g, xs, i) = UNION {g[ys \o Tail(xs)][i] : ys \in A}
    BY <1>3, <2>1 DEF AfterBy
  <2> QED BY <2>2, <2>3
<1> QED BY <1>1, <1>2, <1>3

(***************************************************************************)
(* The recursion is sound: the smallest table that AfterBy does not grow   *)
(* solves the equation.                                                    *)
(***************************************************************************)
LEMMA AfterFacts ==
  ASSUME NEW w, NEW xs \in Forms, NEW i \in Nat
  PROVE  CodeGrammar!After(w)[xs][i] = AfterBy(w, CodeGrammar!After(w), xs, i)
<1> DEFINE Closed == {f \in Tables : \A ys \in Forms : \A j \in Nat :
                                       AfterBy(w, f, ys, j) \subseteq f[ys][j]}
           Least == [ys \in Forms |-> [j \in Nat |->
                      {n \in Nat : \A f \in Closed : n \in f[ys][j]}]]
           Next1 == [ys \in Forms |-> [j \in Nat |-> AfterBy(w, Least, ys, j)]]
<1>1. Least \in Tables
  BY DEF Tables
<1>2. \A f \in Closed : \A ys \in Forms : \A j \in Nat : Least[ys][j] \subseteq f[ys][j]
  OBVIOUS
<1>3. \A ys \in Forms : \A j \in Nat : \A n \in Nat :
        (\A f \in Closed : n \in f[ys][j]) => n \in Least[ys][j]
  OBVIOUS
<1>4. \A f \in Closed : f \in Tables /\ \A ys \in Forms : \A j \in Nat :
                                       AfterBy(w, f, ys, j) \subseteq f[ys][j]
  OBVIOUS
<1>5. \A f \in Tables : (\A ys \in Forms : \A j \in Nat :
                                       AfterBy(w, f, ys, j) \subseteq f[ys][j]) => f \in Closed
  OBVIOUS
<1> HIDE DEF Closed, Least
<1>6. \A ys \in Forms : \A j \in Nat : AfterBy(w, Least, ys, j) \in SUBSET Nat
  BY <1>1, AfterGrows
<1>7. \A ys \in Forms : \A j \in Nat : AfterBy(w, Least, ys, j) \subseteq Least[ys][j]
  <2> TAKE ys \in Forms
  <2> TAKE j \in Nat
  <2> SUFFICES ASSUME NEW n \in AfterBy(w, Least, ys, j) PROVE n \in Least[ys][j]
    OBVIOUS
  <2>1. n \in Nat
    BY <1>6
  <2>2. ASSUME NEW f \in Closed PROVE n \in f[ys][j]
    <3>1. AfterBy(w, Least, ys, j) \subseteq AfterBy(w, f, ys, j)
      BY <1>1, <1>2, <1>4, AfterGrows
    <3>2. AfterBy(w, f, ys, j) \subseteq f[ys][j]
      BY <1>4
    <3> QED BY <3>1, <3>2
  <2> QED BY <1>3, <2>1, <2>2
<1>8. \A ys \in Forms : \A j \in Nat : Next1[ys][j] = AfterBy(w, Least, ys, j)
  OBVIOUS
<1>9. Next1 \in Tables
  BY <1>6 DEF Tables
<1> HIDE DEF Next1
<1>10. Next1 \in Closed
  <2>1. ASSUME NEW ys \in Forms, NEW j \in Nat
        PROVE  AfterBy(w, Next1, ys, j) \subseteq Next1[ys][j]
    <3>1. \A zs \in Forms : \A k \in Nat : Next1[zs][k] \subseteq Least[zs][k]
      BY <1>7, <1>8
    <3>2. AfterBy(w, Next1, ys, j) \subseteq AfterBy(w, Least, ys, j)
      BY <1>1, <1>9, <3>1, AfterGrows
    <3> QED BY <1>8, <3>2
  <2> QED BY <1>5, <1>9, <2>1
<1>11. \A ys \in Forms : \A j \in Nat : Least[ys][j] = AfterBy(w, Least, ys, j)
  <2> TAKE ys \in Forms
  <2> TAKE j \in Nat
  <2>1. Least[ys][j] \subseteq Next1[ys][j]
    BY <1>2, <1>10
  <2> QED BY <1>7, <1>8, <2>1
<1> HIDE DEF Forms
<1>12. Least = [ys \in Forms |-> [j \in Nat |-> AfterBy(w, Least, ys, j)]]
  <2>1. \A ys \in Forms : Least[ys] = [j \in Nat |-> AfterBy(w, Least, ys, j)]
    <3> TAKE ys \in Forms
    <3>1. Least[ys] \in [Nat -> SUBSET Nat]
      BY <1>1 DEF Tables
    <3> QED BY <1>11, <3>1
  <2>2. Least = [ys \in Forms |-> Least[ys]]
    BY <1>1 DEF Tables
  <2> QED BY <2>1, <2>2
<1>13. CodeGrammar!After(w)
         = CHOOSE f : f = [ys \in Forms |-> [j \in Nat |-> AfterBy(w, f, ys, j)]]
  BY DEF CodeGrammar!After, AfterBy, Forms
<1>14. PICK f : f = CodeGrammar!After(w)
                /\ f = [ys \in Forms |-> [j \in Nat |-> AfterBy(w, f, ys, j)]]
  BY <1>12, <1>13
<1>15. f[xs] = [j \in Nat |-> AfterBy(w, f, xs, j)]
  BY <1>14
<1>16. f[xs][i] = AfterBy(w, f, xs, i)
  BY <1>15
<1> QED BY <1>14, <1>16

-----------------------------------------------------------------------------
(* The rest of w from place i on has the form xs. *)
Reads(w, i, xs) == Len(w) + 1 \in CodeGrammar!After(w)[xs][i]

(* What lex() may deliver for a source file. *)
Words == Seq(TokenTypes)

(* A form with a symbol in front of it. *)
LEMMA FormAdded ==
  ASSUME NEW x \in CodeGrammar!Symbols, NEW r \in Forms
  PROVE  /\ <<x>> \o r \in Forms /\ <<x>> \o r # << >>
         /\ Head(<<x>> \o r) = x /\ Tail(<<x>> \o r) = r
<1>1. <<x>> \in Forms /\ Len(<<x>>) = 1 /\ <<x>>[1] = x
  BY DEF Forms
<1>2. /\ <<x>> \o r \in Forms /\ Len(<<x>> \o r) = 1 + Len(r)
      /\ \A i \in 1..(1 + Len(r)) : (<<x>> \o r)[i] = IF i <= 1 THEN <<x>>[i] ELSE r[i - 1]
  BY <1>1, ConcatProperties DEF Forms
<1>3. Len(r) \in Nat /\ r = [i \in 1..Len(r) |-> r[i]]
  BY LenProperties DEF Forms
<1>4. PICK t : t = <<x>> \o r
  OBVIOUS
<1>5. t \in Forms /\ Len(t) = 1 + Len(r) /\ t # << >>
  BY <1>2, <1>3, <1>4
<1>6. Head(t) = x
  BY <1>1, <1>2, <1>3, <1>4
<1>7. /\ Tail(t) \in Forms /\ Len(Tail(t)) = Len(r)
      /\ \A i \in 1..Len(r) : Tail(t)[i] = r[i]
  <2>1. /\ Tail(t) \in Forms /\ Len(Tail(t)) = Len(t) - 1
        /\ \A i \in 1..Len(Tail(t)) : Tail(t)[i] = t[i + 1]
    BY <1>5, HeadTailProperties DEF Forms
  <2> QED BY <1>2, <1>3, <1>4, <1>5, <2>1
<1>8. Tail(t) = r
  BY <1>3, <1>7, SeqEqual DEF Forms
<1> QED BY <1>4, <1>5, <1>6, <1>8

(* Nothing is left to read at the end of w, and only there. *)
LEMMA ReadsEnd ==
  ASSUME NEW w \in Words, NEW i \in Nat
  PROVE  Reads(w, i, << >>) <=> i = Len(w) + 1
<1>1. << >> \in Forms
  BY DEF Forms
<1>2. CodeGrammar!After(w)[<< >>][i] = {i}
  <2>1. CodeGrammar!After(w)[<< >>][i] = AfterBy(w, CodeGrammar!After(w), << >>, i)
    BY <1>1, AfterFacts
  <2> QED BY <2>1 DEF AfterBy
<1> QED BY <1>2 DEF Reads

(* A terminal at the head of a form must be the token at hand. *)
LEMMA ReadsTerminal ==
  ASSUME NEW w \in Words, NEW i \in Nat, NEW r \in Forms,
         NEW x \in CodeGrammar!Symbols, CodeGrammar!Alternatives(x) = {}
  PROVE  Reads(w, i, <<x>> \o r) <=>
           i \in 1..Len(w) /\ w[i] \in CodeGrammar!Terminals(x) /\ Reads(w, i + 1, r)
<1>1. PICK t : t = <<x>> \o r
  OBVIOUS
<1>2. t \in Forms /\ t # << >> /\ Head(t) = x /\ Tail(t) = r
  BY <1>1, FormAdded
<1>3. DOMAIN w = 1..Len(w)
  BY LenProperties DEF Words
<1>4. CodeGrammar!After(w)[t][i]
        = IF i \in 1..Len(w) /\ w[i] \in CodeGrammar!Terminals(x)
          THEN CodeGrammar!After(w)[r][i + 1] ELSE {}
  <2>1. CodeGrammar!After(w)[t][i] = AfterBy(w, CodeGrammar!After(w), t, i)
    BY <1>2, AfterFacts
  <2> QED BY <1>2, <1>3, <2>1 DEF AfterBy
<1> QED BY <1>1, <1>4 DEF Reads

(* A nonterminal gives way to one of its right-hand sides. *)
LEMMA ReadsNonterminal ==
  ASSUME NEW w \in Words, NEW i \in Nat, NEW r \in Forms,
         NEW x \in CodeGrammar!Symbols, CodeGrammar!Alternatives(x) # {}
  PROVE  Reads(w, i, <<x>> \o r) <=>
           \E ys \in CodeGrammar!Alternatives(x) : Reads(w, i, ys \o r)
<1>1. PICK t : t = <<x>> \o r
  OBVIOUS
<1>2. t \in Forms /\ t # << >> /\ Head(t) = x /\ Tail(t) = r
  BY <1>1, FormAdded
<1>3. CodeGrammar!After(w)[t][i]
        = UNION {CodeGrammar!After(w)[ys \o r][i] : ys \in CodeGrammar!Alternatives(x)}
  <2>1. CodeGrammar!After(w)[t][i] = AfterBy(w, CodeGrammar!After(w), t, i)
    BY <1>2, AfterFacts
  <2>2. AfterBy(w, CodeGrammar!After(w), t, i)
          = UNION {CodeGrammar!After(w)[ys \o r][i] : ys \in CodeGrammar!Alternatives(x)}
    BY <1>2 DEF AfterBy
  <2> QED BY <2>1, <2>2
<1> QED BY <1>1, <1>3 DEF Reads

(* It does not matter which two of three forms are joined first. *)
LEMMA FormsAssociate ==
  ASSUME NEW xs \in Forms, NEW ys \in Forms, NEW r \in Forms
  PROVE  (xs \o ys) \o r = xs \o (ys \o r)
BY ConcatAssociative DEF Forms

(* Sequences of forms. *)
LEMMA FormsConcat ==
  ASSUME NEW xs \in Forms, NEW ys \in Forms, NEW r \in Forms
  PROVE  /\ xs \o ys \in Forms /\ (xs \o ys) \o r = xs \o (ys \o r)
         /\ << >> \o r = r /\ r \o << >> = r
<1>1. xs \o ys \in Forms
  BY ConcatProperties DEF Forms
<1>2. (xs \o ys) \o r = xs \o (ys \o r)
  BY FormsAssociate
<1>3. << >> \o r = r /\ r \o << >> = r
  BY ConcatEmptySeq DEF Forms
<1> QED
  BY <1>1, <1>2, <1>3

-----------------------------------------------------------------------------
(* What each rule says of the token at hand.                                *)

(* The terminals and the nonterminals that the rules mention. *)
LEMMA GrammarSymbols ==
  /\ CodeGrammar!Nonterminals \subseteq CodeGrammar!Symbols
  /\ \A x \in CodeGrammar!Nonterminals : CodeGrammar!Alternatives(x) # {}
  /\ TokenTypes \ {"EOF", "EQ", "NEQ", "LT", "LTE", "GT", "GTE", "PLUS", "MINUS",
                   "MUL", "DIV"} \subseteq CodeGrammar!Symbols
  /\ {"sign", "muldiv", "RELOP"} \subseteq CodeGrammar!Symbols
  /\ \A x \in CodeGrammar!Symbols \ CodeGrammar!Nonterminals :
       CodeGrammar!Alternatives(x) = {}
<1> USE DEF CodeGrammar!Symbols, CodeGrammar!Nonterminals
<1>1. \A x \in CodeGrammar!Nonterminals : CodeGrammar!Alternatives(x) # {}
  BY Rules
<1>2. \A x \in CodeGrammar!Symbols \ CodeGrammar!Nonterminals :
       CodeGrammar!Alternatives(x) = {}
  BY NoOtherRule
<1> QED BY <1>1, <1>2 DEF TokenTypes

(* The token types of each terminal. *)
LEMMA TerminalTypes ==
  /\ CodeGrammar!Terminals("sign") = {"PLUS", "MINUS"}
  /\ CodeGrammar!Terminals("muldiv") = {"MUL", "DIV"}
  /\ CodeGrammar!Terminals("RELOP") = RelOps
  /\ \A x \in TokenTypes : CodeGrammar!Terminals(x) = {x}
<1>1. CodeGrammar!Terminals("RELOP") = RelOps
  BY DEF CodeGrammar!Terminals, CodeGrammar!RelationalOperators, RelOps
<1>2. \A x \in TokenTypes : CodeGrammar!Terminals(x) = {x}
  <2> TAKE x \in TokenTypes
  <2>1. x # "sign" /\ x # "muldiv" /\ x # "RELOP"
    BY DEF TokenTypes
  <2> QED BY <2>1 DEF CodeGrammar!Terminals
<1> QED BY <1>1, <1>2 DEF CodeGrammar!Terminals

(* A form of two symbols. *)
LEMMA FormOfTwo ==
  ASSUME NEW x \in CodeGrammar!Symbols, NEW y \in CodeGrammar!Symbols, NEW r \in Forms
  PROVE  /\ <<x, y>> \o r = <<x>> \o (<<y>> \o r)
         /\ <<y>> \o r \in Forms /\ <<x, y>> \o r \in Forms
<1>1. PICK p, q : p = <<x>> /\ q = <<y>>
  OBVIOUS
<1>2. p \in Forms /\ Len(p) = 1 /\ p[1] = x /\ q \in Forms /\ Len(q) = 1 /\ q[1] = y
  BY <1>1 DEF Forms
<1>3. <<x, y>> \in Forms /\ Len(<<x, y>>) = 2 /\ <<x, y>>[1] = x /\ <<x, y>>[2] = y
  BY DEF Forms
<1>4. p \o q \in Forms /\ Len(p \o q) = 2 /\ (p \o q)[1] = x /\ (p \o q)[2] = y
  BY <1>2, ConcatProperties DEF Forms
<1>5. \A i \in 1..2 : <<x, y>>[i] = (p \o q)[i]
  BY <1>3, <1>4
<1>6. <<x, y>> = p \o q
  BY <1>3, <1>4, <1>5, SeqEqual DEF Forms
<1>7. /\ (p \o q) \o r = p \o (q \o r)
      /\ q \o r \in Forms /\ (p \o q) \o r \in Forms
  <2>1. (p \o q) \o r = p \o (q \o r)
    BY <1>2, FormsAssociate
  <2>2. q \o r \in Forms
    BY <1>2, FormsConcat
  <2>3. (p \o q) \o r \in Forms
    BY <1>4, FormsConcat
  <2> QED BY <2>1, <2>2, <2>3
<1> QED BY <1>1, <1>6, <1>7

(* The rest of a form, from its k-th symbol on. *)
From(xs, k) == SubSeq(xs, k, Len(xs))

(* A form from its k-th symbol on: that symbol, and the form from the next. *)
LEMMA FormFrom ==
  ASSUME NEW xs \in Forms, NEW k \in 1..(Len(xs) + 1)
  PROVE  /\ From(xs, k) \in Forms
         /\ k <= Len(xs) =>
              /\ xs[k] \in CodeGrammar!Symbols /\ From(xs, k + 1) \in Forms
              /\ \A r \in Forms :
                   From(xs, k) \o r = <<xs[k]>> \o (From(xs, k + 1) \o r)
         /\ k = Len(xs) + 1 => From(xs, k) = << >>
         /\ k = 1 => From(xs, k) = xs
<1>0. Len(xs) \in Nat /\ \A i \in 1..Len(xs) : xs[i] \in CodeGrammar!Symbols
  BY LenProperties, ElementOfSeq DEF Forms
<1>1. \A m \in Nat \ {0} : From(xs, m) \in Forms
  <2> TAKE m \in Nat \ {0}
  <2>1. \A i \in m..Len(xs) : xs[i] \in CodeGrammar!Symbols
    BY <1>0
  <2>2. m \in Int /\ Len(xs) \in Int
    BY <1>0
  <2> QED BY <2>1, <2>2, SubSeqProperties DEF Forms, From
<1>2. ASSUME k <= Len(xs)
      PROVE  /\ xs[k] \in CodeGrammar!Symbols /\ From(xs, k + 1) \in Forms
             /\ \A r \in Forms :
                  From(xs, k) \o r = <<xs[k]>> \o (From(xs, k + 1) \o r)
  <2>1. k \in 1..Len(xs) /\ Len(xs) \in k..Len(xs) /\ k + 1 \in Nat \ {0}
    BY <1>0, <1>2
  <2>2. xs[k] \in CodeGrammar!Symbols /\ From(xs, k + 1) \in Forms
    BY <1>0, <1>1, <2>1
  <2>3. From(xs, k) = <<xs[k]>> \o From(xs, k + 1)
    BY <2>1, SubSeqRecursiveFirst DEF Forms, From
  <2>4. <<xs[k]>> \in Forms
    BY <2>2 DEF Forms
  <2>5. ASSUME NEW r \in Forms
        PROVE  From(xs, k) \o r = <<xs[k]>> \o (From(xs, k + 1) \o r)
    <3>1. PICK h, t : h = <<xs[k]>> /\ t = From(xs, k + 1)
      OBVIOUS
    <3>2. (h \o t) \o r = h \o (t \o r)
      BY <2>2, <2>4, <3>1, FormsConcat
    <3> QED BY <2>3, <3>1, <3>2
  <2> QED BY <2>2, <2>5
<1>3. k = Len(xs) + 1 => From(xs, k) = << >>
  <2>1. k = Len(xs) + 1 => k \in Int /\ Len(xs) \in Int /\ Len(xs) < k
    BY <1>0
  <2> QED BY <2>1, SubSeqEmpty DEF From
<1>4. k = 1 => From(xs, k) = xs
  BY SubSeqFull DEF From, Forms
<1>5. k \in Nat \ {0}
  BY <1>0
<1> QED BY <1>1, <1>2, <1>3, <1>4, <1>5

-----------------------------------------------------------------------------
(* What the addends and the multipliers are made of. *)
ChainMore == [expression |-> "addends", term |-> "multipliers"]

(* The rules of an expression and of a term are alike. *)
LEMMA ChainRules ==
  ASSUME NEW nt \in DOMAIN ChainOperand
  PROVE  \E link, sign \in CodeGrammar!Symbols :
           /\ {nt, ChainOperand[nt], ChainMore[nt], link, sign} \subseteq CodeGrammar!Symbols
           /\ CodeGrammar!Alternatives(nt) = {<<ChainOperand[nt], ChainMore[nt]>>}
           /\ CodeGrammar!Alternatives(ChainMore[nt]) = {<< >>, <<link, ChainMore[nt]>>}
           /\ CodeGrammar!Alternatives(link) = {<<sign, ChainOperand[nt]>>}
           /\ CodeGrammar!Alternatives(sign) = {}
           /\ CodeGrammar!Terminals(sign) = ChainOperators[nt]
<1>0. {"expression", "term", "factor", "addends", "multipliers", "addend",
       "multiplier", "sign", "muldiv"} \subseteq CodeGrammar!Symbols
      /\ CodeGrammar!Alternatives("sign") = {} /\ CodeGrammar!Alternatives("muldiv") = {}
  <2>1. CodeGrammar!Alternatives("sign") = {} /\ CodeGrammar!Alternatives("muldiv") = {}
    BY NoOtherRule
  <2> QED BY <2>1 DEF CodeGrammar!Symbols, CodeGrammar!Nonterminals
<1>1. CASE nt = "expression"
  BY <1>0, <1>1, Rules, TerminalTypes DEF ChainOperand, ChainMore, ChainOperators
<1>2. CASE nt = "term"
  BY <1>0, <1>2, Rules, TerminalTypes DEF ChainOperand, ChainMore, ChainOperators
<1> QED BY <1>1, <1>2 DEF ChainOperand

(* operand { operator operand } *)
LEMMA ReadsChain ==
  ASSUME NEW w \in Words, NEW i \in Nat, NEW r \in Forms, NEW nt \in DOMAIN ChainOperand
  PROVE  /\ <<nt>> \o r \in Forms /\ <<ChainMore[nt]>> \o r \in Forms
         /\ <<ChainOperand[nt]>> \o (<<ChainMore[nt]>> \o r) \in Forms
         /\ Reads(w, i, <<nt>> \o r)
              <=> Reads(w, i, <<ChainOperand[nt]>> \o (<<ChainMore[nt]>> \o r))
         /\ Reads(w, i, <<ChainMore[nt]>> \o r)
              <=> \/ Reads(w, i, r)
                  \/ /\ i \in 1..Len(w) /\ w[i] \in ChainOperators[nt]
                     /\ Reads(w, i + 1, <<ChainOperand[nt]>> \o (<<ChainMore[nt]>> \o r))
<1>1. PICK link, sign \in CodeGrammar!Symbols :
        /\ {nt, ChainOperand[nt], ChainMore[nt], link, sign} \subseteq CodeGrammar!Symbols
        /\ CodeGrammar!Alternatives(nt) = {<<ChainOperand[nt], ChainMore[nt]>>}
        /\ CodeGrammar!Alternatives(ChainMore[nt]) = {<< >>, <<link, ChainMore[nt]>>}
        /\ CodeGrammar!Alternatives(link) = {<<sign, ChainOperand[nt]>>}
        /\ CodeGrammar!Alternatives(sign) = {}
        /\ CodeGrammar!Terminals(sign) = ChainOperators[nt]
  BY ChainRules
<1>2. PICK op, more : op = ChainOperand[nt] /\ more = ChainMore[nt]
  OBVIOUS
<1>3. PICK q, t : q = <<more>> \o r /\ t = <<op>> \o q
  OBVIOUS
<1>4. /\ op \in CodeGrammar!Symbols /\ more \in CodeGrammar!Symbols
      /\ q \in Forms /\ t \in Forms /\ <<nt>> \o r \in Forms
  BY <1>1, <1>2, <1>3, FormAdded
<1>5. <<op, more>> \o r = t
  <2>1. <<op, more>> \o r = <<op>> \o (<<more>> \o r)
    BY <1>4, FormOfTwo
  <2> QED BY <1>3, <2>1
<1>6. Reads(w, i, <<nt>> \o r) <=> Reads(w, i, t)
  <2>1. Reads(w, i, <<nt>> \o r)
          <=> \E ys \in CodeGrammar!Alternatives(nt) : Reads(w, i, ys \o r)
    BY <1>1, ReadsNonterminal
  <2> QED BY <1>1, <1>2, <1>5, <2>1
<1>7. Reads(w, i, q) <=> Reads(w, i, r) \/ Reads(w, i, <<link>> \o q)
  <2>1. Reads(w, i, q)
          <=> \E ys \in CodeGrammar!Alternatives(more) : Reads(w, i, ys \o r)
    BY <1>1, <1>2, <1>3, <1>4, ReadsNonterminal
  <2>2. << >> \o r = r
    BY FormsConcat
  <2>3. <<link, more>> \o r = <<link>> \o q
    <3>1. <<link, more>> \o r = <<link>> \o (<<more>> \o r)
      BY <1>4, FormOfTwo
    <3> QED BY <1>3, <3>1
  <2>4. CodeGrammar!Alternatives(more) = {<< >>, <<link, more>>}
    BY <1>1, <1>2
  <2> QED BY <2>1, <2>2, <2>3, <2>4
<1>8. Reads(w, i, <<link>> \o q) <=> Reads(w, i, <<sign>> \o t)
  <2>1. Reads(w, i, <<link>> \o q)
          <=> \E ys \in CodeGrammar!Alternatives(link) : Reads(w, i, ys \o q)
    BY <1>1, <1>4, ReadsNonterminal
  <2>2. <<sign, op>> \o q = <<sign>> \o t
    <3>1. <<sign, op>> \o q = <<sign>> \o (<<op>> \o q)
      BY <1>4, FormOfTwo
    <3> QED BY <1>3, <3>1
  <2>3. CodeGrammar!Alternatives(link) = {<<sign, op>>}
    BY <1>1, <1>2
  <2> QED BY <2>1, <2>2, <2>3
<1>9. Reads(w, i, <<sign>> \o t)
        <=> i \in 1..Len(w) /\ w[i] \in ChainOperators[nt] /\ Reads(w, i + 1, t)
  BY <1>1, <1>4, ReadsTerminal
<1> QED BY <1>2, <1>3, <1>4, <1>6, <1>7, <1>8, <1>9

(* A terminal that stands for one type of token alone. *)
LEMMA ReadsToken ==
  ASSUME NEW w \in Words, NEW i \in Nat, NEW r \in Forms,
         NEW x \in TokenTypes, x \in CodeGrammar!Symbols
  PROVE  Reads(w, i, <<x>> \o r)
           <=> i \in 1..Len(w) /\ w[i] = x /\ Reads(w, i + 1, r)
<1>1. x \notin CodeGrammar!Nonterminals
  BY DEF TokenTypes, CodeGrammar!Nonterminals
<1>2. CodeGrammar!Alternatives(x) = {}
  BY <1>1, GrammarSymbols
<1>3. CodeGrammar!Terminals(x) = {x}
  BY TerminalTypes
<1> QED BY <1>2, <1>3, ReadsTerminal

(* factor *)
LEMMA ReadsFactor ==
  ASSUME NEW w \in Words, NEW i \in Nat, NEW r \in Forms
  PROVE  Reads(w, i, <<"factor">> \o r) <=>
           \/ /\ i \in 1..Len(w) /\ w[i] \in {"LITERAL", "IDENTIFIER"}
              /\ Reads(w, i + 1, r)
           \/ /\ i \in 1..Len(w) /\ w[i] \in {"PLUS", "MINUS"}
              /\ Reads(w, i + 1, <<"factor">> \o r)
           \/ /\ i \in 1..Len(w) /\ w[i] = "LPAREN"
              /\ Reads(w, i + 1, <<"expression", "RPAREN">> \o r)
<1>0. /\ {"factor", "LITERAL", "IDENTIFIER", "sign", "LPAREN", "expression", "RPAREN"}
           \subseteq CodeGrammar!Symbols
      /\ {"LITERAL", "IDENTIFIER", "LPAREN"} \subseteq TokenTypes
  BY DEF CodeGrammar!Symbols, CodeGrammar!Nonterminals, TokenTypes
<1>1. Reads(w, i, <<"factor">> \o r) <=>
        \/ Reads(w, i, <<"LITERAL">> \o r)
        \/ Reads(w, i, <<"IDENTIFIER">> \o r)
        \/ Reads(w, i, <<"sign", "factor">> \o r)
        \/ Reads(w, i, <<"LPAREN", "expression", "RPAREN">> \o r)
  <2>1. Reads(w, i, <<"factor">> \o r)
          <=> \E ys \in CodeGrammar!Alternatives("factor") : Reads(w, i, ys \o r)
    BY <1>0, Rules, ReadsNonterminal
  <2> QED BY <2>1, Rules
<1>2. /\ Reads(w, i, <<"LITERAL">> \o r)
           <=> i \in 1..Len(w) /\ w[i] = "LITERAL" /\ Reads(w, i + 1, r)
      /\ Reads(w, i, <<"IDENTIFIER">> \o r)
           <=> i \in 1..Len(w) /\ w[i] = "IDENTIFIER" /\ Reads(w, i + 1, r)
  BY <1>0, ReadsToken
<1>3. Reads(w, i, <<"sign", "factor">> \o r)
        <=> /\ i \in 1..Len(w) /\ w[i] \in {"PLUS", "MINUS"}
            /\ Reads(w, i + 1, <<"factor">> \o r)
  <2>1. PICK q : q = <<"factor">> \o r
    OBVIOUS
  <2>2. <<"sign", "factor">> \o r = <<"sign">> \o q /\ q \in Forms
    BY <1>0, <2>1, FormOfTwo
  <2>3. CodeGrammar!Alternatives("sign") = {}
    BY NoOtherRule
  <2>4. CodeGrammar!Terminals("sign") = {"PLUS", "MINUS"}
    BY TerminalTypes
  <2>5. PICK x \in CodeGrammar!Symbols : x = "sign"
    BY <1>0
  <2>6. Reads(w, i, <<x>> \o q)
          <=> i \in 1..Len(w) /\ w[i] \in CodeGrammar!Terminals(x) /\ Reads(w, i + 1, q)
    BY <2>2, <2>3, <2>5, ReadsTerminal
  <2> QED BY <2>1, <2>2, <2>4, <2>5, <2>6
<1>4. Reads(w, i, <<"LPAREN", "expression", "RPAREN">> \o r)
        <=> /\ i \in 1..Len(w) /\ w[i] = "LPAREN"
            /\ Reads(w, i + 1, <<"expression", "RPAREN">> \o r)
  <2>1. PICK h, t, v : h = <<"LPAREN">> /\ t = <<"expression", "RPAREN">> /\ v = t \o r
    OBVIOUS
  <2>2. h \in Forms /\ t \in Forms
    BY <1>0, <2>1 DEF Forms
  <2>3. <<"LPAREN", "expression", "RPAREN">> = h \o t
    BY <2>1
  <2>4. (h \o t) \o r = h \o v /\ v \in Forms
    <3>1. (h \o t) \o r = h \o (t \o r) /\ t \o r \in Forms
      <4>1. (h \o t) \o r = h \o (t \o r)
        BY <2>2, FormsAssociate
      <4>2. t \o r \in Forms
        BY <2>2, FormsConcat
      <4> QED BY <4>1, <4>2
    <3> QED BY <2>1, <3>1
  <2>5. Reads(w, i, h \o v) <=> i \in 1..Len(w) /\ w[i] = "LPAREN" /\ Reads(w, i + 1, v)
    <3>1. "LPAREN" \in TokenTypes /\ "LPAREN" \in CodeGrammar!Symbols
      BY <1>0
    <3> QED BY <2>1, <2>4, <3>1, ReadsToken
  <2> QED BY <2>1, <2>3, <2>4, <2>5
<1> QED BY <1>1, <1>2, <1>3, <1>4

-----------------------------------------------------------------------------
(* variables: the declarations go on with an identifier. *)
LEMMA ReadsVariables ==
  ASSUME NEW w \in Words, NEW i \in Nat, NEW r \in Forms
  PROVE  /\ <<"variables">> \o r \in Forms
         /\ From(Declaration, 2) \o (<<"variables">> \o r) \in Forms
         /\ Reads(w, i, <<"variables">> \o r) <=>
              \/ Reads(w, i, r)
              \/ /\ i \in 1..Len(w) /\ w[i] = "IDENTIFIER"
                 /\ Reads(w, i + 1, From(Declaration, 2) \o (<<"variables">> \o r))
<1>0. /\ {"variables", "declaration", "IDENTIFIER"} \subseteq CodeGrammar!Symbols
      /\ "IDENTIFIER" \in TokenTypes
  BY DEF CodeGrammar!Symbols, CodeGrammar!Nonterminals, TokenTypes
<1>1. PICK q : q = <<"variables">> \o r
  OBVIOUS
<1>2. q \in Forms
  BY <1>0, <1>1, FormAdded
<1>3. PICK t : t = From(Declaration, 2) \o q
  OBVIOUS
<1>4. /\ From(Declaration, 2) \in Forms
      /\ Declaration \o q = <<"IDENTIFIER">> \o t
  <2>1. Declaration \in Forms /\ Len(Declaration) = 4 /\ Declaration[1] = "IDENTIFIER"
    BY ScriptForms DEF Declaration
  <2>2. PICK d : d = Declaration
    OBVIOUS
  <2>3. /\ From(d, 1 + 1) \in Forms /\ From(d, 1) = d
        /\ From(d, 1) \o q = <<d[1]>> \o (From(d, 1 + 1) \o q)
    BY <1>2, <2>1, <2>2, FormFrom
  <2>4. PICK e : e = From(d, 1 + 1)
    OBVIOUS
  <2>5. 1 + 1 = 2
    OBVIOUS
  <2>6. e = From(Declaration, 2)
    BY <2>2, <2>4, <2>5
  <2>7. t = e \o q
    BY <1>3, <2>6
  <2>8. d \o q = <<d[1]>> \o (e \o q) /\ e \in Forms
    BY <2>3, <2>4
  <2>9. Declaration \o q = <<"IDENTIFIER">> \o (e \o q)
    BY <2>1, <2>2, <2>8
  <2> QED BY <2>6, <2>7, <2>8, <2>9
<1>5. t \in Forms
  BY <1>2, <1>3, <1>4, FormsConcat
<1>6. Reads(w, i, q) <=> Reads(w, i, r) \/ Reads(w, i, <<"declaration">> \o q)
  <2>1. Reads(w, i, q)
          <=> \E ys \in CodeGrammar!Alternatives("variables") : Reads(w, i, ys \o r)
    BY <1>0, <1>1, Rules, ReadsNonterminal
  <2>2. << >> \o r = r
    BY FormsConcat
  <2>3. <<"declaration", "variables">> \o r = <<"declaration">> \o q
    BY <1>0, <1>1, FormOfTwo
  <2> QED BY <2>1, <2>2, <2>3, Rules
<1>7. Reads(w, i, <<"declaration">> \o q) <=> Reads(w, i, <<"IDENTIFIER">> \o t)
  <2>1. Reads(w, i, <<"declaration">> \o q)
          <=> \E ys \in CodeGrammar!Alternatives("declaration") : Reads(w, i, ys \o q)
    BY <1>0, <1>2, Rules, ReadsNonterminal
  <2> QED BY <1>4, <2>1, Rules
<1>8. Reads(w, i, <<"IDENTIFIER">> \o t)
        <=> i \in 1..Len(w) /\ w[i] = "IDENTIFIER" /\ Reads(w, i + 1, t)
  BY <1>0, <1>5, ReadsToken
<1> QED BY <1>1, <1>2, <1>3, <1>5, <1>6, <1>7, <1>8

(* Each statement begins with a token of its own. *)
LEMMA StatementFirst ==
  /\ Statements \subseteq DOMAIN Script
  /\ \A nt \in Statements :
       /\ Len(Script[nt]) \in Nat /\ 1 <= Len(Script[nt])
       /\ Script[nt][1] \in Starters /\ StatementOf(Script[nt][1]) = nt
  /\ \A type \in Starters :
       /\ StatementOf(type) \in Statements
       /\ Script[StatementOf(type)][1] = type
  /\ {Script[nt] : nt \in Statements}
       = {AssignScript, InputScript, OutputScript, BranchScript, LoopScript, RepeatScript}
  /\ Starters \subseteq TokenTypes /\ Starters \subseteq CodeGrammar!Symbols
<1>1. /\ StatementOf("IDENTIFIER") = "assign" /\ StatementOf("READ") = "input"
      /\ StatementOf("WRITE") = "output" /\ StatementOf("IF") = "branch"
      /\ StatementOf("WHILE") = "loop" /\ StatementOf("REPEAT") = "repeat"
  BY DEF StatementOf
<1>2. /\ AssignScript[1] = "IDENTIFIER" /\ InputScript[1] = "READ"
      /\ OutputScript[1] = "WRITE" /\ BranchScript[1] = "IF"
      /\ LoopScript[1] = "WHILE" /\ RepeatScript[1] = "REPEAT"
  BY DEF AssignScript, InputScript, OutputScript, BranchScript, LoopScript, RepeatScript
<1>3. /\ Len(AssignScript) = 4 /\ Len(InputScript) = 3 /\ Len(OutputScript) = 3
      /\ Len(BranchScript) = 9 /\ Len(LoopScript) = 7 /\ Len(RepeatScript) = 6
  BY DEF AssignScript, InputScript, OutputScript, BranchScript, LoopScript, RepeatScript
<1>4. Statements = {"assign", "input", "output", "branch", "loop", "repeat"}
  BY DEF Statements
<1>5. Starters \subseteq TokenTypes /\ Starters \subseteq CodeGrammar!Symbols
  BY DEF Starters, TokenTypes, CodeGrammar!Symbols
<1>6. Statements \subseteq DOMAIN Script
  BY <1>4, ScriptNames
<1>7. \A nt \in Statements :
       /\ Len(Script[nt]) \in Nat /\ 1 <= Len(Script[nt])
       /\ Script[nt][1] \in Starters /\ StatementOf(Script[nt][1]) = nt
  BY <1>1, <1>2, <1>3, <1>4, ScriptNames DEF Starters
<1>8. \A type \in Starters :
       /\ StatementOf(type) \in Statements
       /\ Script[StatementOf(type)][1] = type
  BY <1>1, <1>2, <1>4, ScriptNames DEF Starters
<1>9. {Script[nt] : nt \in Statements}
       = {AssignScript, InputScript, OutputScript, BranchScript, LoopScript, RepeatScript}
  BY <1>4, ScriptNames
<1> QED BY <1>5, <1>6, <1>7, <1>8, <1>9

(* statements: the token at hand says which. *)
LEMMA ReadsStatements ==
  ASSUME NEW w \in Words, NEW i \in Nat, NEW r \in Forms
  PROVE  /\ <<"statements">> \o r \in Forms
         /\ Reads(w, i, <<"statements">> \o r) <=>
              \/ Reads(w, i, r)
              \/ /\ i \in 1..Len(w) /\ w[i] \in Starters
                 /\ Reads(w, i, Script[StatementOf(w[i])] \o (<<"statements">> \o r))
<1>0. {"statements", "statement"} \subseteq CodeGrammar!Symbols
  BY DEF CodeGrammar!Symbols, CodeGrammar!Nonterminals
<1>1. PICK q : q = <<"statements">> \o r
  OBVIOUS
<1>2. q \in Forms
  BY <1>0, <1>1, FormAdded
<1>3. Reads(w, i, q) <=> Reads(w, i, r) \/ Reads(w, i, <<"statement">> \o q)
  <2>1. Reads(w, i, q)
          <=> \E ys \in CodeGrammar!Alternatives("statements") : Reads(w, i, ys \o r)
    BY <1>0, <1>1, Rules, ReadsNonterminal
  <2>2. << >> \o r = r
    BY FormsConcat
  <2>3. <<"statement", "statements">> \o r = <<"statement">> \o q
    BY <1>0, <1>1, FormOfTwo
  <2> QED BY <2>1, <2>2, <2>3, Rules
<1>4. Reads(w, i, <<"statement">> \o q)
        <=> \E nt \in Statements : Reads(w, i, Script[nt] \o q)
  <2>1. Reads(w, i, <<"statement">> \o q)
          <=> \E ys \in CodeGrammar!Alternatives("statement") : Reads(w, i, ys \o q)
    BY <1>0, <1>2, Rules, ReadsNonterminal
  <2>2. CodeGrammar!Alternatives("statement") = {Script[nt] : nt \in Statements}
    BY Rules, StatementFirst
  <2> QED BY <2>1, <2>2
<1>5. ASSUME NEW nt \in Statements, Reads(w, i, Script[nt] \o q)
      PROVE  i \in 1..Len(w) /\ w[i] \in Starters /\ StatementOf(w[i]) = nt
  <2>1. PICK s : s = Script[nt]
    OBVIOUS
  <2>2. /\ s \in Forms /\ 1 \in 1..Len(s) /\ 1 \in 1..(Len(s) + 1) /\ 1 <= Len(s)
        /\ s[1] \in Starters /\ StatementOf(s[1]) = nt
    <3>1. s \in {AssignScript, InputScript, OutputScript, BranchScript, LoopScript,
                 RepeatScript}
      BY <2>1, StatementFirst
    <3>2. s \in Forms
      BY <3>1, ScriptForms
    <3> QED BY <2>1, <3>2, StatementFirst
  <2>3. PICK t : t = From(s, 1 + 1)
    OBVIOUS
  <2>4. t \in Forms /\ s \o q = <<s[1]>> \o (t \o q)
    <3>1. /\ From(s, 1 + 1) \in Forms /\ From(s, 1) = s
          /\ From(s, 1) \o q = <<s[1]>> \o (From(s, 1 + 1) \o q)
      BY <1>2, <2>2, FormFrom
    <3> QED BY <2>3, <3>1
  <2>5. t \o q \in Forms
    BY <1>2, <2>4, FormsConcat
  <2>6. s[1] \in TokenTypes /\ s[1] \in CodeGrammar!Symbols
    BY <2>2, StatementFirst
  <2>7. Reads(w, i, <<s[1]>> \o (t \o q))
    BY <1>5, <2>1, <2>4
  <2>8. i \in 1..Len(w) /\ w[i] = s[1]
    BY <2>5, <2>6, <2>7, ReadsToken
  <2> QED BY <2>2, <2>8
<1>6. \A nt \in Statements : Reads(w, i, Script[nt] \o q) =>
        i \in 1..Len(w) /\ w[i] \in Starters /\ StatementOf(w[i]) = nt
  BY <1>5
<1>7. \A type \in Starters : StatementOf(type) \in Statements
  BY StatementFirst
<1> QED BY <1>1, <1>2, <1>3, <1>4, <1>6, <1>7

(* source and condition. *)
LEMMA ReadsScript ==
  ASSUME NEW w \in Words, NEW i \in Nat, NEW r \in Forms, NEW nt \in {"source", "condition"}
  PROVE  Reads(w, i, <<nt>> \o r) <=> Reads(w, i, Script[nt] \o r)
<1>1. nt \in CodeGrammar!Symbols /\ CodeGrammar!Alternatives(nt) = {Script[nt]}
  BY Rules, ScriptNames DEF CodeGrammar!Symbols, CodeGrammar!Nonterminals
<1> QED BY <1>1, ReadsNonterminal

-----------------------------------------------------------------------------
(* What each activation still has to read, and what its moves preserve.     *)

(* parse_factor has chosen one of its rules after its first step. *)
FactorRest ==
  <<<<"factor">>, <<"factor">>, <<"expression", "RPAREN">>, <<"RPAREN">>, << >>>>

(* What a function that builds an nt and is at step k still has to read. *)
Rest(nt, k) ==
  IF nt \in DOMAIN Script THEN From(Script[nt], k)
  ELSE IF nt \in DOMAIN ChainOperand
  THEN IF k = 1 THEN <<ChainOperand[nt], ChainMore[nt]>> ELSE <<ChainMore[nt]>>
  ELSE IF nt = "variables"
  THEN IF k = 1 THEN <<"variables">> ELSE From(Declaration, k) \o <<"variables">>
  ELSE IF nt = "statements" THEN <<"statements">>
  ELSE FactorRest[k]

(* The steps that a function has. *)
Steps(nt, k) ==
  /\ nt \in NonTerminals
  /\ nt \in DOMAIN Script => k \in 1..(Len(Script[nt]) + 1)
  /\ nt \in DOMAIN ChainOperand => k \in 1..2
  /\ nt = "variables" => k \in 1..4
  /\ nt = "statements" => k = 1
  /\ nt = "factor" => k \in 1..5

(* The tokens that may follow a phrase in a program. *)
Follow ==
  LET closing == {"SEMICOLON", "RPAREN"} \cup RelOps
      adding == closing \cup {"PLUS", "MINUS"}
  IN [variables |-> {"BEGIN"}, statements |-> {"ELSE", "UNTIL", "END"},
      condition |-> {"RPAREN"}, expression |-> closing, term |-> adding,
      factor |-> adding \cup {"MUL", "DIV"}]

(* The same, nonterminal by nonterminal. *)
LEMMA FollowSets ==
  /\ DOMAIN Follow = {"variables", "statements", "condition", "expression", "term", "factor"}
  /\ Follow["variables"] = {"BEGIN"}
  /\ Follow["statements"] = {"ELSE", "UNTIL", "END"}
  /\ Follow["condition"] = {"RPAREN"}
  /\ Follow["expression"] = {"SEMICOLON", "RPAREN"} \cup RelOps
  /\ Follow["term"] = {"SEMICOLON", "RPAREN", "PLUS", "MINUS"} \cup RelOps
  /\ Follow["factor"] = {"SEMICOLON", "RPAREN", "PLUS", "MINUS", "MUL", "DIV"} \cup RelOps
BY DEF Follow

(* Where w reads on with what the callers still expect, a phrase may end. *)
Bounded(w, nt, r) ==
  nt \in DOMAIN Follow =>
    \A i \in Nat : Reads(w, i, r) => i \in 1..Len(w) /\ w[i] \in Follow[nt]

(* If w goes on at all at place i, then with a token of type t. *)
At(w, i, t) == i \in Nat /\ (i \in 1..Len(w) => w[i] = t)

(* The moves of the parser, as far as the grammar is concerned. *)
ShiftMove(nt, k, t, k2) ==
  \A w \in Words, r \in Forms, i \in Nat :
    Bounded(w, nt, r) /\ i \in 1..Len(w) /\ w[i] = t =>
      (Reads(w, i, Rest(nt, k) \o r) <=> Reads(w, i + 1, Rest(nt, k2) \o r))

FailMove(nt, k, t) ==
  \A w \in Words, r \in Forms, i \in Nat :
    Bounded(w, nt, r) /\ At(w, i, t) => ~Reads(w, i, Rest(nt, k) \o r)

CallMove(nt, k, t, x, k2) ==
  \A w \in Words, r \in Forms : Bounded(w, nt, r) =>
    /\ Bounded(w, x, Rest(nt, k2) \o r)
    /\ \A i \in Nat : At(w, i, t) =>
         (Reads(w, i, Rest(nt, k) \o r) <=> Reads(w, i, Rest(x, 1) \o (Rest(nt, k2) \o r)))

ReturnMove(nt, k, t) ==
  \A w \in Words, r \in Forms, i \in Nat :
    Bounded(w, nt, r) /\ At(w, i, t) =>
      (Reads(w, i, Rest(nt, k) \o r) <=> Reads(w, i, r))

(* The same, function by function. *)
LEMMA RestCases ==
  /\ \A nt \in DOMAIN Script : \A k : Rest(nt, k) = From(Script[nt], k)
  /\ \A nt \in DOMAIN ChainOperand :
       /\ Rest(nt, 1) = <<ChainOperand[nt], ChainMore[nt]>>
       /\ Rest(nt, 2) = <<ChainMore[nt]>>
  /\ Rest("variables", 1) = <<"variables">>
  /\ \A k \in 2..4 : Rest("variables", k) = From(Declaration, k) \o <<"variables">>
  /\ \A k : Rest("statements", k) = <<"statements">>
  /\ Rest("factor", 1) = <<"factor">> /\ Rest("factor", 2) = <<"factor">>
  /\ Rest("factor", 3) = <<"expression", "RPAREN">>
  /\ Rest("factor", 4) = <<"RPAREN">> /\ Rest("factor", 5) = << >>
<1>1. DOMAIN ChainOperand = {"expression", "term"}
  BY DEF ChainOperand
<1>2. \A nt \in DOMAIN Script : \A k : Rest(nt, k) = From(Script[nt], k)
  BY DEF Rest
<1>3. \A nt \in DOMAIN ChainOperand :
       /\ Rest(nt, 1) = <<ChainOperand[nt], ChainMore[nt]>>
       /\ Rest(nt, 2) = <<ChainMore[nt]>>
  <2>1. \A nt \in DOMAIN ChainOperand : nt \notin DOMAIN Script
    BY <1>1, ScriptNames
  <2> QED BY <2>1 DEF Rest
<1>4. Rest("variables", 1) = <<"variables">>
      /\ \A k \in 2..4 : Rest("variables", k) = From(Declaration, k) \o <<"variables">>
  <2>1. "variables" \notin DOMAIN Script /\ "variables" \notin DOMAIN ChainOperand
    BY <1>1, ScriptNames
  <2>2. \A k \in 2..4 : k # 1
    OBVIOUS
  <2> QED BY <2>1, <2>2 DEF Rest
<1>5. \A k : Rest("statements", k) = <<"statements">>
  <2>1. "statements" \notin DOMAIN Script /\ "statements" \notin DOMAIN ChainOperand
    BY <1>1, ScriptNames
  <2> QED BY <2>1 DEF Rest
<1>6. \A k : Rest("factor", k) = FactorRest[k]
  <2>1. "factor" \notin DOMAIN Script /\ "factor" \notin DOMAIN ChainOperand
    BY <1>1, ScriptNames
  <2> QED BY <2>1 DEF Rest
<1>7. /\ FactorRest[1] = <<"factor">> /\ FactorRest[2] = <<"factor">>
      /\ FactorRest[3] = <<"expression", "RPAREN">>
      /\ FactorRest[4] = <<"RPAREN">> /\ FactorRest[5] = << >>
  BY DEF FactorRest
<1> QED BY <1>2, <1>3, <1>4, <1>5, <1>6, <1>7

(* What the straight-line functions read has a form of the grammar. *)
LEMMA ScriptIsForm ==
  ASSUME NEW nt \in DOMAIN Script
  PROVE  Script[nt] \in Forms /\ Len(Script[nt]) \in Nat
<1>1. Script[nt] \in Forms
  BY ScriptNames, ScriptForms
<1> QED BY <1>1, LenProperties DEF Forms

(* So has what any function still has to read. *)
LEMMA RestForms ==
  ASSUME NEW nt, NEW k, Steps(nt, k)
  PROVE  Rest(nt, k) \in Forms
<1>0. {"expression", "term", "factor", "addends", "multipliers", "variables", "statements",
       "RPAREN"} \subseteq CodeGrammar!Symbols
  BY DEF CodeGrammar!Symbols, CodeGrammar!Nonterminals
<1>1. \A x, y \in CodeGrammar!Symbols : << >> \in Forms /\ <<x>> \in Forms /\ <<x, y>> \in Forms
  BY DEF Forms
<1>2. CASE nt \in DOMAIN Script
  <2>1. k \in 1..(Len(Script[nt]) + 1) /\ Script[nt] \in Forms
    BY <1>2, ScriptIsForm DEF Steps
  <2>2. From(Script[nt], k) \in Forms
    BY <2>1, FormFrom
  <2> QED BY <1>2, <2>2, RestCases
<1>3. CASE nt \in DOMAIN ChainOperand
  <2>1. nt \in {"expression", "term"} /\ k \in 1..2
    BY <1>3 DEF Steps, ChainOperand
  <2>2. {ChainOperand[nt], ChainMore[nt]} \subseteq CodeGrammar!Symbols
    BY <1>0, <2>1 DEF ChainOperand, ChainMore
  <2>3. k = 1 \/ k = 2
    BY <2>1
  <2> QED BY <1>1, <1>3, <2>2, <2>3, RestCases
<1>4. CASE nt = "variables"
  <2>1. k = 1 \/ k \in 2..4
    BY <1>4 DEF Steps
  <2>2. CASE k \in 2..4
    <3>1. Declaration \in Forms /\ k \in 1..(Len(Declaration) + 1)
      BY <2>2, ScriptForms DEF Declaration
    <3>2. From(Declaration, k) \in Forms /\ <<"variables">> \in Forms
      BY <1>0, <1>1, <3>1, FormFrom
    <3>3. From(Declaration, k) \o <<"variables">> \in Forms
      BY <3>2, FormsConcat
    <3> QED BY <1>4, <2>2, <3>3, RestCases
  <2> QED BY <1>0, <1>1, <1>4, <2>1, <2>2, RestCases
<1>5. CASE nt = "statements"
  BY <1>0, <1>1, <1>5, RestCases
<1>6. CASE nt = "factor"
  <2>1. k = 1 \/ k = 2 \/ k = 3 \/ k = 4 \/ k = 5
    BY <1>6 DEF Steps
  <2> QED BY <1>0, <1>1, <1>6, <2>1, RestCases
<1>7. nt \in DOMAIN Script \/ nt \in DOMAIN ChainOperand
      \/ nt \in {"variables", "statements", "factor"}
  BY ScriptNames DEF Steps, NonTerminals, ChainOperand
<1> QED BY <1>2, <1>3, <1>4, <1>5, <1>6, <1>7

(* A nonterminal is read by the function that builds it. *)
LEMMA Opens ==
  ASSUME NEW w \in Words, NEW i \in Nat, NEW q \in Forms, NEW x \in DOMAIN Follow
  PROVE  Reads(w, i, <<x>> \o q) <=> Reads(w, i, Rest(x, 1) \o q)
<1>1. CASE x = "condition"
  <2>1. x \in {"source", "condition"} /\ x \in DOMAIN Script
    BY <1>1, ScriptNames
  <2>2. Script[x] \in Forms /\ 1 \in 1..(Len(Script[x]) + 1)
    BY <2>1, ScriptIsForm
  <2>3. Rest(x, 1) = Script[x]
    BY <2>1, <2>2, RestCases, FormFrom
  <2> QED BY <2>1, <2>3, ReadsScript
<1>2. CASE x \in DOMAIN ChainOperand
  <2>1. {ChainOperand[x], ChainMore[x]} \subseteq CodeGrammar!Symbols
    BY <1>2 DEF ChainOperand, ChainMore, CodeGrammar!Symbols, CodeGrammar!Nonterminals
  <2>2. <<ChainOperand[x], ChainMore[x]>> \o q
          = <<ChainOperand[x]>> \o (<<ChainMore[x]>> \o q)
    BY <2>1, FormOfTwo
  <2>3. Rest(x, 1) = <<ChainOperand[x], ChainMore[x]>>
    BY <1>2, RestCases
  <2> QED BY <1>2, <2>2, <2>3, ReadsChain
<1>3. CASE x \in {"variables", "statements", "factor"}
  BY <1>3, RestCases
<1> QED BY <1>1, <1>2, <1>3, FollowSets DEF ChainOperand

-----------------------------------------------------------------------------
(* In a script, a nonterminal is followed by a token that tells its end.    *)
LEMMA ScriptFollows ==
  ASSUME NEW nt \in DOMAIN Script, NEW k \in 1..Len(Script[nt])
  PROVE  /\ Script[nt][k] \in NonTerminals => Script[nt][k] \in DOMAIN Follow
         /\ Script[nt][k] \notin NonTerminals =>
              /\ Script[nt][k] \in CodeGrammar!Symbols
              /\ CodeGrammar!Alternatives(Script[nt][k]) = {}
              /\ CodeGrammar!Terminals(Script[nt][k]) = Expected(Script[nt][k])
         /\ Script[nt][k] \in NonTerminals /\ k < Len(Script[nt]) =>
              /\ Script[nt][k + 1] \notin NonTerminals
              /\ Expected(Script[nt][k + 1]) \subseteq Follow[Script[nt][k]]
         /\ Script[nt][k] \in NonTerminals /\ k = Len(Script[nt]) =>
              nt = "condition" /\ Script[nt][k] = "expression"
<1> DEFINE Ends(x, y) == /\ y \notin NonTerminals
                         /\ x = "variables" => y = "BEGIN"
                         /\ x = "statements" => y \in {"ELSE", "UNTIL", "END"}
                         /\ x = "condition" => y = "RPAREN"
                         /\ x = "expression" => y \in {"SEMICOLON", "RELOP"}
           Fine(name, script) ==
             \A i \in 1..Len(script) :
               /\ script[i] \in NonTerminals \/ script[i] \in (TokenTypes \cup {"RELOP"})
                                                \ {"EOF", "EQ", "NEQ", "LT", "LTE", "GT", "GTE",
                                                   "PLUS", "MINUS", "MUL", "DIV"}
               /\ script[i] \in NonTerminals =>
                    script[i] \in {"variables", "statements", "condition", "expression"}
               /\ script[i] \in NonTerminals /\ i < Len(script) => Ends(script[i], script[i + 1])
               /\ script[i] \in NonTerminals /\ i = Len(script) =>
                    name = "condition" /\ script[i] = "expression"
<1>1. Fine("source", SourceScript)
  BY DEF SourceScript, NonTerminals, TokenTypes
<1>2. Fine("assign", AssignScript)
  BY DEF AssignScript, NonTerminals, TokenTypes
<1>3. Fine("input", InputScript)
  BY DEF InputScript, NonTerminals, TokenTypes
<1>4. Fine("output", OutputScript)
  BY DEF OutputScript, NonTerminals, TokenTypes
<1>5. Fine("branch", BranchScript)
  BY DEF BranchScript, NonTerminals, TokenTypes
<1>6. Fine("loop", LoopScript)
  BY DEF LoopScript, NonTerminals, TokenTypes
<1>7. Fine("repeat", RepeatScript)
  BY DEF RepeatScript, NonTerminals, TokenTypes
<1>8. Fine("condition", ConditionScript)
  BY DEF ConditionScript, NonTerminals, TokenTypes
<1>9. Fine(nt, Script[nt])
  <2> HIDE DEF Fine
  <2> QED
    BY <1>1, <1>2, <1>3, <1>4, <1>5, <1>6, <1>7, <1>8, ScriptNames
<1>10. PICK s : s = Script[nt]
  OBVIOUS
<1>11. Len(s) \in Nat /\ k \in 1..Len(s) /\ Fine(nt, s)
  BY <1>9, <1>10, ScriptIsForm
<1>12. s[k] \in NonTerminals => s[k] \in DOMAIN Follow
  BY <1>11, FollowSets
<1>13. ASSUME s[k] \notin NonTerminals
       PROVE  /\ s[k] \in CodeGrammar!Symbols /\ CodeGrammar!Alternatives(s[k]) = {}
              /\ CodeGrammar!Terminals(s[k]) = Expected(s[k])
  <2>1. PICK x : x = s[k]
    OBVIOUS
  <2>2. x \in (TokenTypes \cup {"RELOP"}) \ {"EOF", "EQ", "NEQ", "LT", "LTE", "GT", "GTE",
                                             "PLUS", "MINUS", "MUL", "DIV"}
    BY <1>11, <1>13, <2>1
  <2>3. x \in CodeGrammar!Symbols
    BY <2>2, GrammarSymbols
  <2>4. x \notin CodeGrammar!Nonterminals
    BY <2>2 DEF TokenTypes, CodeGrammar!Nonterminals
  <2>5. x = "RELOP" \/ (x \in TokenTypes /\ x # "RELOP")
    BY <2>2 DEF TokenTypes
  <2>6. CodeGrammar!Terminals(x) = Expected(x)
    BY <2>5, TerminalTypes DEF Expected
  <2> QED BY <2>1, <2>3, <2>4, <2>6, GrammarSymbols
<1>14. ASSUME s[k] \in NonTerminals, k < Len(s)
       PROVE  s[k + 1] \notin NonTerminals /\ Expected(s[k + 1]) \subseteq Follow[s[k]]
  <2>1. PICK x, y : x = s[k] /\ y = s[k + 1]
    OBVIOUS
  <2>2. Ends(x, y) /\ x \in {"variables", "statements", "condition", "expression"}
    BY <1>11, <1>14, <2>1
  <2>3. Expected(y) = IF y = "RELOP" THEN RelOps ELSE {y}
    BY DEF Expected
  <2>4. Expected(y) \subseteq Follow[x]
    BY <2>2, <2>3, FollowSets
  <2> QED BY <2>1, <2>2, <2>4
<1>15. s[k] \in NonTerminals /\ k = Len(s) => nt = "condition" /\ s[k] = "expression"
  BY <1>11
<1> HIDE DEF Fine
<1> QED BY <1>10, <1>12, <1>13, <1>14, <1>15

(* The functions that follow a fixed sequence. *)
LEMMA ScriptMoves ==
  ASSUME NEW nt \in DOMAIN Script, NEW k \in 1..(Len(Script[nt]) + 1), NEW t \in TokenTypes
  PROVE  /\ k > Len(Script[nt]) => ReturnMove(nt, k, t)
         /\ k <= Len(Script[nt]) =>
              /\ Script[nt][k] \in NonTerminals => CallMove(nt, k, t, Script[nt][k], k + 1)
              /\ Script[nt][k] \notin NonTerminals =>
                   /\ t \in Expected(Script[nt][k]) => ShiftMove(nt, k, t, k + 1)
                   /\ t \notin Expected(Script[nt][k]) => FailMove(nt, k, t)
<1>1. PICK s : s = Script[nt]
  OBVIOUS
<1>2. s \in Forms /\ Len(s) \in Nat /\ k \in 1..(Len(s) + 1)
      /\ \A j : Rest(nt, j) = From(s, j)
  BY <1>1, ScriptIsForm, RestCases
<1>3. ASSUME k > Len(s) PROVE ReturnMove(nt, k, t)
  <2>1. k = Len(s) + 1
    BY <1>2, <1>3
  <2>2. Rest(nt, k) = << >>
    BY <1>2, <2>1, FormFrom
  <2>3. \A r \in Forms : << >> \o r = r
    BY FormsConcat
  <2> QED BY <2>2, <2>3 DEF ReturnMove
<1>4. ASSUME k <= Len(s)
      PROVE  /\ s[k] \in CodeGrammar!Symbols /\ Rest(nt, k + 1) \in Forms
             /\ \A r \in Forms : Rest(nt, k) \o r = <<s[k]>> \o (Rest(nt, k + 1) \o r)
             /\ \A r \in Forms : Rest(nt, k + 1) \o r \in Forms
  <2>1. /\ s[k] \in CodeGrammar!Symbols /\ From(s, k + 1) \in Forms
        /\ \A r \in Forms : From(s, k) \o r = <<s[k]>> \o (From(s, k + 1) \o r)
    BY <1>2, <1>4, FormFrom
  <2>2. \A r \in Forms : From(s, k + 1) \o r \in Forms
    BY <2>1, FormsConcat
  <2> QED BY <1>2, <2>1, <2>2
<1>5. ASSUME k <= Len(s), s[k] \in NonTerminals PROVE CallMove(nt, k, t, s[k], k + 1)
  <2>1. PICK x : x = s[k]
    OBVIOUS
  <2>2. x \in DOMAIN Follow
    BY <1>1, <1>2, <1>5, <2>1, ScriptFollows
  <2>3. ASSUME NEW w \in Words, NEW r \in Forms, Bounded(w, nt, r)
        PROVE  Bounded(w, x, Rest(nt, k + 1) \o r)
    <3>1. CASE k < Len(s)
      <4>1. PICK y : y = s[k + 1]
        OBVIOUS
      <4>2. k + 1 \in 1..Len(s) /\ k + 1 <= Len(s) /\ k + 1 \in 1..(Len(s) + 1)
        BY <1>2, <3>1
      <4>3. /\ y \in CodeGrammar!Symbols /\ CodeGrammar!Alternatives(y) = {}
            /\ CodeGrammar!Terminals(y) \subseteq Follow[x]
        <5>1. y \notin NonTerminals /\ Expected(y) \subseteq Follow[x]
          BY <1>1, <1>2, <1>5, <2>1, <3>1, <4>1, ScriptFollows
        <5>2. /\ y \in CodeGrammar!Symbols /\ CodeGrammar!Alternatives(y) = {}
              /\ CodeGrammar!Terminals(y) = Expected(y)
          BY <1>1, <4>1, <4>2, <5>1, ScriptFollows
        <5> QED BY <5>1, <5>2
      <4>4. PICK q : q = From(s, k + 1 + 1) \o r
        OBVIOUS
      <4>5. From(s, k + 1) \o r = <<y>> \o q /\ q \in Forms
        <5>1. /\ From(s, k + 1 + 1) \in Forms
              /\ From(s, k + 1) \o r = <<s[k + 1]>> \o (From(s, k + 1 + 1) \o r)
          BY <1>2, <4>2, FormFrom
        <5>2. From(s, k + 1 + 1) \o r \in Forms
          BY <5>1, FormsConcat
        <5> QED BY <4>1, <4>4, <5>1, <5>2
      <4>6. \A i \in Nat : Reads(w, i, <<y>> \o q) => i \in 1..Len(w) /\ w[i] \in Follow[x]
        BY <4>3, <4>5, ReadsTerminal
      <4> QED BY <1>2, <4>5, <4>6 DEF Bounded
    <3>2. CASE ~(k < Len(s))
      <4>1. k = Len(s)
        BY <1>2, <1>5, <3>2
      <4>2. nt = "condition" /\ x = "expression"
        BY <1>1, <1>2, <1>5, <2>1, <4>1, ScriptFollows
      <4>3. Rest(nt, k + 1) \o r = r
        <5>1. Rest(nt, k + 1) = << >>
          <6>1. k + 1 = Len(s) + 1 /\ k + 1 \in 1..(Len(s) + 1)
            BY <1>2, <4>1
          <6>2. From(s, k + 1) = << >>
            BY <1>2, <6>1, FormFrom
          <6> QED BY <1>2, <6>2
        <5> QED BY <5>1, FormsConcat
      <4>4. Follow["condition"] \subseteq Follow["expression"]
        BY FollowSets
      <4>5. \A i \in Nat : Reads(w, i, r) => i \in 1..Len(w) /\ w[i] \in Follow["condition"]
        BY <2>3, <4>2, FollowSets DEF Bounded
      <4> QED BY <4>2, <4>3, <4>4, <4>5 DEF Bounded
    <3> QED BY <3>1, <3>2
  <2>4. ASSUME NEW w \in Words, NEW r \in Forms, NEW i \in Nat
        PROVE  Reads(w, i, Rest(nt, k) \o r)
                 <=> Reads(w, i, Rest(x, 1) \o (Rest(nt, k + 1) \o r))
    <3>1. PICK q : q = Rest(nt, k + 1) \o r
      OBVIOUS
    <3>2. q \in Forms /\ Rest(nt, k) \o r = <<x>> \o q
      BY <1>4, <1>5, <2>1, <3>1
    <3>3. Reads(w, i, <<x>> \o q) <=> Reads(w, i, Rest(x, 1) \o q)
      BY <2>2, <3>2, Opens
    <3> QED BY <3>1, <3>2, <3>3
  <2>5. CallMove(nt, k, t, x, k + 1)
    BY <2>3, <2>4 DEF CallMove
  <2> QED BY <2>1, <2>5
<1>6. ASSUME k <= Len(s), s[k] \notin NonTerminals,
             NEW w \in Words, NEW r \in Forms, NEW i \in Nat
      PROVE  Reads(w, i, Rest(nt, k) \o r)
               <=> i \in 1..Len(w) /\ w[i] \in Expected(s[k]) /\ Reads(w, i + 1, Rest(nt, k + 1) \o r)
  <2>1. PICK x, q : x = s[k] /\ q = Rest(nt, k + 1) \o r
    OBVIOUS
  <2>2. q \in Forms /\ Rest(nt, k) \o r = <<x>> \o q /\ x \in CodeGrammar!Symbols
    BY <1>4, <1>6, <2>1
  <2>3. CodeGrammar!Alternatives(x) = {} /\ CodeGrammar!Terminals(x) = Expected(x)
    <3>1. k \in 1..Len(s) /\ x \notin NonTerminals
      BY <1>2, <1>6, <2>1
    <3> QED BY <1>1, <2>1, <3>1, ScriptFollows
  <2>4. Reads(w, i, <<x>> \o q) <=> i \in 1..Len(w) /\ w[i] \in Expected(x) /\ Reads(w, i + 1, q)
    BY <2>2, <2>3, ReadsTerminal
  <2> QED BY <2>1, <2>2, <2>4
<1>7. ASSUME k <= Len(s), s[k] \notin NonTerminals
      PROVE  /\ t \in Expected(s[k]) => ShiftMove(nt, k, t, k + 1)
             /\ t \notin Expected(s[k]) => FailMove(nt, k, t)
  <2>1. t \in Expected(s[k]) => ShiftMove(nt, k, t, k + 1)
    BY <1>6, <1>7 DEF ShiftMove
  <2>2. t \notin Expected(s[k]) => FailMove(nt, k, t)
    BY <1>6, <1>7 DEF FailMove, At
  <2> QED BY <2>1, <2>2
<1> QED BY <1>1, <1>3, <1>5, <1>7

-----------------------------------------------------------------------------
(* parse_variables: the tokens of one declaration after the other.          *)
LEMMA VariablesMoves ==
  ASSUME NEW k \in 1..4, NEW t \in TokenTypes
  PROVE  /\ k = 1 =>
              /\ t \in {"EOF", "BEGIN"} => ReturnMove("variables", k, t)
              /\ t = "IDENTIFIER" => ShiftMove("variables", k, t, 2)
              /\ t \notin {"EOF", "BEGIN", "IDENTIFIER"} => FailMove("variables", k, t)
         /\ k # 1 =>
              /\ t = Declaration[k] => ShiftMove("variables", k, t, (k % 4) + 1)
              /\ t # Declaration[k] => FailMove("variables", k, t)
<1>1. ASSUME NEW w \in Words, NEW r \in Forms, Bounded(w, "variables", r), NEW i \in Nat
      PROVE  Reads(w, i, r) => i \in 1..Len(w) /\ w[i] = "BEGIN"
  BY <1>1, FollowSets DEF Bounded
<1>2. Declaration \in Forms /\ Len(Declaration) = 4
  BY ScriptForms DEF Declaration
<1>3. <<"variables">> \in Forms
  BY DEF Forms, CodeGrammar!Symbols, CodeGrammar!Nonterminals
<1>4. \A j \in 2..4 : \A r \in Forms :
        Rest("variables", j) \o r = From(Declaration, j) \o (<<"variables">> \o r)
  <2> TAKE j \in 2..4
  <2> TAKE r \in Forms
  <2>1. PICK f : f = From(Declaration, j)
    OBVIOUS
  <2>2. f \in Forms
    <3>1. j \in 1..(Len(Declaration) + 1)
      BY <1>2
    <3> QED BY <1>2, <2>1, <3>1, FormFrom
  <2>3. PICK v : v = <<"variables">>
    OBVIOUS
  <2>4. (f \o v) \o r = f \o (v \o r)
    BY <1>3, <2>2, <2>3, FormsConcat
  <2>5. Rest("variables", j) = f \o v
    BY <2>1, <2>3, RestCases
  <2> QED BY <2>1, <2>3, <2>4, <2>5
<1>5. CASE k = 1
  <2>1. ASSUME NEW w \in Words, NEW r \in Forms, NEW i \in Nat
        PROVE  Reads(w, i, Rest("variables", 1) \o r) <=>
                 \/ Reads(w, i, r)
                 \/ /\ i \in 1..Len(w) /\ w[i] = "IDENTIFIER"
                    /\ Reads(w, i + 1, Rest("variables", 2) \o r)
    <3>1. Rest("variables", 1) = <<"variables">>
      BY RestCases
    <3>2. Rest("variables", 2) \o r = From(Declaration, 2) \o (<<"variables">> \o r)
      BY <1>4
    <3> QED BY <3>1, <3>2, ReadsVariables
  <2>2. t \in {"EOF", "BEGIN"} => ReturnMove("variables", 1, t)
    <3>1. t \in {"EOF", "BEGIN"} => t # "IDENTIFIER"
      OBVIOUS
    <3> QED BY <2>1, <3>1 DEF ReturnMove, At
  <2>3. t = "IDENTIFIER" => ShiftMove("variables", 1, t, 2)
    BY <1>1, <2>1 DEF ShiftMove
  <2>4. t \notin {"EOF", "BEGIN", "IDENTIFIER"} => FailMove("variables", 1, t)
    BY <1>1, <2>1 DEF FailMove, At
  <2> QED BY <1>5, <2>2, <2>3, <2>4
<1>6. CASE k # 1
  <2>0. k \in 2..4
    BY <1>6
  <2>1. ASSUME NEW w \in Words, NEW r \in Forms, NEW i \in Nat
        PROVE  Reads(w, i, Rest("variables", k) \o r) <=>
                 /\ i \in 1..Len(w) /\ w[i] = Declaration[k]
                 /\ Reads(w, i + 1, Rest("variables", (k % 4) + 1) \o r)
    <3>1. PICK q : q = <<"variables">> \o r
      OBVIOUS
    <3>2. q \in Forms
      BY <1>3, <3>1, FormsConcat
    <3>3. PICK f : f = From(Declaration, k + 1)
      OBVIOUS
    <3>4. /\ f \in Forms
          /\ From(Declaration, k) \o q = <<Declaration[k]>> \o (f \o q)
      <4>1. k \in 1..(Len(Declaration) + 1) /\ k <= Len(Declaration)
        BY <1>2, <2>0
      <4>2. /\ From(Declaration, k + 1) \in Forms
            /\ \A y \in Forms : From(Declaration, k) \o y
                                = <<Declaration[k]>> \o (From(Declaration, k + 1) \o y)
        BY <1>2, <4>1, FormFrom
      <4> QED BY <3>2, <3>3, <4>2
    <3>5. f \o q \in Forms
      BY <3>2, <3>4, FormsConcat
    <3>6. Declaration[k] \in TokenTypes /\ Declaration[k] \in CodeGrammar!Symbols
      BY <2>0, DeclarationNames DEF TokenTypes, CodeGrammar!Symbols
    <3>7. Reads(w, i, <<Declaration[k]>> \o (f \o q))
            <=> i \in 1..Len(w) /\ w[i] = Declaration[k] /\ Reads(w, i + 1, f \o q)
      BY <3>5, <3>6, ReadsToken
    <3>8. f \o q = Rest("variables", (k % 4) + 1) \o r
      <4>1. CASE k = 4
        <5>1. f = << >>
          <6>1. k + 1 \in 1..(Len(Declaration) + 1) /\ k + 1 = Len(Declaration) + 1
            BY <1>2, <4>1
          <6> QED BY <1>2, <3>3, <6>1, FormFrom
        <5>2. << >> \o q = q
          BY <3>2, FormsConcat
        <5>3. Rest("variables", (k % 4) + 1) = <<"variables">>
          BY <4>1, RestCases
        <5> QED BY <3>1, <5>1, <5>2, <5>3
      <4>2. CASE k # 4
        <5>1. (k % 4) + 1 = k + 1 /\ k + 1 \in 2..4
          BY <2>0, <4>2
        <5> QED BY <1>4, <3>1, <3>3, <5>1
      <4> QED BY <4>1, <4>2
    <3>9. Rest("variables", k) \o r = From(Declaration, k) \o q
      BY <1>4, <2>0, <3>1
    <3> QED BY <3>4, <3>7, <3>8, <3>9
  <2>2. t = Declaration[k] => ShiftMove("variables", k, t, (k % 4) + 1)
    BY <2>1 DEF ShiftMove
  <2>3. t # Declaration[k] => FailMove("variables", k, t)
    BY <2>1 DEF FailMove, At
  <2> QED BY <1>6, <2>2, <2>3
<1> QED BY <1>5, <1>6

(* parse_statements: the token at hand predicts the statement. *)
LEMMA StatementsMoves ==
  ASSUME NEW t \in TokenTypes
  PROVE  /\ t \in {"EOF", "ELSE", "UNTIL", "END"} => ReturnMove("statements", 1, t)
         /\ t \in Starters => CallMove("statements", 1, t, StatementOf(t), 1)
         /\ t \notin {"EOF", "ELSE", "UNTIL", "END"} \cup Starters =>
              FailMove("statements", 1, t)
<1>0. Rest("statements", 1) = <<"statements">>
  BY RestCases
<1>1. ASSUME NEW w \in Words, NEW r \in Forms, Bounded(w, "statements", r), NEW i \in Nat
      PROVE  Reads(w, i, r) => i \in 1..Len(w) /\ w[i] \in {"ELSE", "UNTIL", "END"}
  BY <1>1, FollowSets DEF Bounded
<1>2. ASSUME NEW w \in Words, NEW r \in Forms, NEW i \in Nat
      PROVE  Reads(w, i, Rest("statements", 1) \o r) <=>
               \/ Reads(w, i, r)
               \/ /\ i \in 1..Len(w) /\ w[i] \in Starters
                  /\ Reads(w, i, Script[StatementOf(w[i])] \o (Rest("statements", 1) \o r))
  BY <1>0, ReadsStatements
<1>3. {"EOF", "ELSE", "UNTIL", "END"} \cap Starters = {}
  BY DEF Starters
<1>4. t \in {"EOF", "ELSE", "UNTIL", "END"} => ReturnMove("statements", 1, t)
  BY <1>2, <1>3 DEF ReturnMove, At
<1>5. t \notin {"EOF", "ELSE", "UNTIL", "END"} \cup Starters => FailMove("statements", 1, t)
  BY <1>1, <1>2 DEF FailMove, At
<1>6. ASSUME t \in Starters PROVE CallMove("statements", 1, t, StatementOf(t), 1)
  <2>1. PICK x, s : x = StatementOf(t) /\ s = Script[x]
    OBVIOUS
  <2>2. /\ x \in Statements /\ x \in DOMAIN Script /\ x \notin DOMAIN Follow
        /\ s \in Forms /\ 1 \in 1..Len(s) /\ 1 \in 1..(Len(s) + 1) /\ 1 <= Len(s) /\ s[1] = t
    <3>1. x \in Statements /\ x \in DOMAIN Script /\ s[1] = t /\ Len(s) \in Nat /\ 1 <= Len(s)
      BY <1>6, <2>1, StatementFirst
    <3>2. x \notin DOMAIN Follow
      BY <3>1, FollowSets DEF Statements
    <3>3. s \in Forms
      BY <2>1, <3>1, ScriptIsForm
    <3> QED BY <3>1, <3>2, <3>3
  <2>3. Rest(x, 1) = s
    <3>1. From(s, 1) = s
      BY <2>2, FormFrom
    <3> QED BY <2>1, <2>2, <3>1, RestCases
  <2>4. ASSUME NEW w \in Words, NEW r \in Forms, NEW i \in Nat, NEW q \in Forms,
               Reads(w, i, s \o q)
        PROVE  i \in 1..Len(w) /\ w[i] = t
    <3>1. PICK f : f = From(s, 1 + 1)
      OBVIOUS
    <3>2. f \in Forms /\ From(s, 1) \o q = <<s[1]>> \o (f \o q) /\ From(s, 1) = s
      BY <2>2, <3>1, FormFrom
    <3>3. f \o q \in Forms
      BY <3>2, FormsConcat
    <3>4. t \in TokenTypes /\ t \in CodeGrammar!Symbols
      BY <1>6, StatementFirst
    <3>5. Reads(w, i, <<t>> \o (f \o q))
      BY <2>2, <2>4, <3>2
    <3> QED BY <3>3, <3>4, <3>5, ReadsToken
  <2>5. ASSUME NEW w \in Words, NEW r \in Forms, Bounded(w, "statements", r),
               NEW i \in Nat, At(w, i, t)
        PROVE  Reads(w, i, Rest("statements", 1) \o r)
                 <=> Reads(w, i, s \o (Rest("statements", 1) \o r))
    <3>1. PICK q : q = Rest("statements", 1) \o r
      OBVIOUS
    <3>2. q \in Forms
      BY <1>0, <3>1, ReadsStatements
    <3>3. Reads(w, i, s \o q) => i \in 1..Len(w) /\ w[i] = t
      BY <2>4, <3>2
    <3>4. i \in 1..Len(w) => w[i] = t
      BY <2>5 DEF At
    <3>5. ~Reads(w, i, r)
      <4>1. Reads(w, i, r) => i \in 1..Len(w) /\ w[i] \in {"ELSE", "UNTIL", "END"}
        BY <1>1, <2>5
      <4> QED BY <1>3, <1>6, <3>4, <4>1
    <3>6. Reads(w, i, q) <=> /\ i \in 1..Len(w) /\ w[i] \in Starters
                             /\ Reads(w, i, Script[StatementOf(w[i])] \o q)
      BY <1>2, <3>1, <3>5
    <3>7. Reads(w, i, q) <=> Reads(w, i, s \o q)
      BY <1>6, <2>1, <3>3, <3>4, <3>6
    <3> QED BY <3>1, <3>7
  <2>6. \A w \in Words, r \in Forms : Bounded(w, x, Rest("statements", 1) \o r)
    BY <2>2 DEF Bounded
  <2>7. CallMove("statements", 1, t, x, 1)
    BY <2>3, <2>5, <2>6 DEF CallMove
  <2> QED BY <2>1, <2>7
<1> QED BY <1>4, <1>5, <1>6

-----------------------------------------------------------------------------
(* parse_expression and parse_term: operand { operator operand }.           *)
LEMMA ChainMoves ==
  ASSUME NEW nt \in DOMAIN ChainOperand, NEW t \in TokenTypes
  PROVE  /\ CallMove(nt, 1, t, ChainOperand[nt], 2)
         /\ t \in ChainOperators[nt] => ShiftMove(nt, 2, t, 1)
         /\ t \notin ChainOperators[nt] => ReturnMove(nt, 2, t)
<1>1. PICK op, more : op = ChainOperand[nt] /\ more = ChainMore[nt]
  OBVIOUS
<1>2. {op, more} \subseteq CodeGrammar!Symbols
  BY <1>1 DEF ChainOperand, ChainMore, CodeGrammar!Symbols, CodeGrammar!Nonterminals
<1>3. \A r \in Forms : /\ Rest(nt, 1) \o r = <<op>> \o (<<more>> \o r)
                       /\ Rest(nt, 2) \o r = <<more>> \o r
                       /\ <<more>> \o r \in Forms
  <2>1. Rest(nt, 1) = <<op, more>> /\ Rest(nt, 2) = <<more>>
    BY <1>1, RestCases
  <2>2. \A r \in Forms : <<op, more>> \o r = <<op>> \o (<<more>> \o r) /\ <<more>> \o r \in Forms
    BY <1>2, FormOfTwo
  <2> QED BY <2>1, <2>2
<1>4. /\ nt \in DOMAIN Follow /\ op \in DOMAIN Follow
      /\ Follow[nt] \cup ChainOperators[nt] \subseteq Follow[op]
      /\ Follow[nt] \cap ChainOperators[nt] = {}
  <2>1. CASE nt = "expression"
    <3>1. op = "term" /\ ChainOperators[nt] = {"PLUS", "MINUS"}
      BY <1>1, <2>1 DEF ChainOperand, ChainOperators
    <3> QED BY <2>1, <3>1, FollowSets DEF RelOps
  <2>2. CASE nt = "term"
    <3>1. op = "factor" /\ ChainOperators[nt] = {"MUL", "DIV"}
      BY <1>1, <2>2 DEF ChainOperand, ChainOperators
    <3> QED BY <2>2, <3>1, FollowSets DEF RelOps
  <2> QED BY <2>1, <2>2 DEF ChainOperand
<1>5. ASSUME NEW w \in Words, NEW r \in Forms, NEW i \in Nat
      PROVE  Reads(w, i, Rest(nt, 2) \o r)
               <=> \/ Reads(w, i, r)
                   \/ /\ i \in 1..Len(w) /\ w[i] \in ChainOperators[nt]
                      /\ Reads(w, i + 1, Rest(nt, 1) \o r)
  <2>1. Reads(w, i, <<ChainMore[nt]>> \o r)
          <=> \/ Reads(w, i, r)
              \/ /\ i \in 1..Len(w) /\ w[i] \in ChainOperators[nt]
                 /\ Reads(w, i + 1, <<ChainOperand[nt]>> \o (<<ChainMore[nt]>> \o r))
    BY ReadsChain
  <2>2. Rest(nt, 1) \o r = <<ChainOperand[nt]>> \o (<<ChainMore[nt]>> \o r)
        /\ Rest(nt, 2) \o r = <<ChainMore[nt]>> \o r
    BY <1>1, <1>3
  <2> QED BY <2>1, <2>2
<1>6. ASSUME NEW w \in Words, NEW r \in Forms, Bounded(w, nt, r), NEW i \in Nat
      PROVE  Reads(w, i, r) => i \in 1..Len(w) /\ w[i] \in Follow[nt]
  BY <1>4, <1>6 DEF Bounded
<1>7. CallMove(nt, 1, t, op, 2)
  <2>1. ASSUME NEW w \in Words, NEW r \in Forms, Bounded(w, nt, r)
        PROVE  Bounded(w, op, Rest(nt, 2) \o r)
    <3>1. ASSUME NEW i \in Nat, Reads(w, i, Rest(nt, 2) \o r)
          PROVE  i \in 1..Len(w) /\ w[i] \in Follow[op]
      <4>1. CASE Reads(w, i, r)
        BY <1>4, <1>6, <2>1, <4>1
      <4>2. CASE i \in 1..Len(w) /\ w[i] \in ChainOperators[nt]
        BY <1>4, <4>2
      <4> QED BY <1>5, <3>1, <4>1, <4>2
    <3> QED BY <3>1 DEF Bounded
  <2>2. ASSUME NEW w \in Words, NEW r \in Forms, NEW i \in Nat
        PROVE  Reads(w, i, Rest(nt, 1) \o r)
                 <=> Reads(w, i, Rest(op, 1) \o (Rest(nt, 2) \o r))
    <3>1. PICK q : q = <<more>> \o r
      OBVIOUS
    <3>2. q \in Forms /\ Rest(nt, 1) \o r = <<op>> \o q /\ Rest(nt, 2) \o r = q
      BY <1>3, <3>1
    <3>3. Reads(w, i, <<op>> \o q) <=> Reads(w, i, Rest(op, 1) \o q)
      BY <1>4, <3>2, Opens
    <3> QED BY <3>2, <3>3
  <2> QED BY <2>1, <2>2 DEF CallMove
<1>8. t \in ChainOperators[nt] => ShiftMove(nt, 2, t, 1)
  <2>1. ASSUME t \in ChainOperators[nt], NEW w \in Words, NEW r \in Forms, NEW i \in Nat,
               Bounded(w, nt, r), i \in 1..Len(w), w[i] = t
        PROVE  Reads(w, i, Rest(nt, 2) \o r) <=> Reads(w, i + 1, Rest(nt, 1) \o r)
    <3>1. ~Reads(w, i, r)
      BY <1>4, <1>6, <2>1
    <3> QED BY <1>5, <2>1, <3>1
  <2> QED BY <2>1 DEF ShiftMove
<1>9. t \notin ChainOperators[nt] => ReturnMove(nt, 2, t)
  BY <1>5 DEF ReturnMove, At
<1> QED BY <1>1, <1>7, <1>8, <1>9

(* parse_factor: one token of lookahead tells the four alternatives apart. *)
LEMMA FactorMoves ==
  ASSUME NEW t \in TokenTypes
  PROVE  /\ t \in {"LITERAL", "IDENTIFIER"} => ShiftMove("factor", 1, t, 5)
         /\ t \in {"PLUS", "MINUS"} => ShiftMove("factor", 1, t, 2)
         /\ t = "LPAREN" => ShiftMove("factor", 1, t, 3)
         /\ t \notin {"LITERAL", "IDENTIFIER", "PLUS", "MINUS", "LPAREN"} =>
              FailMove("factor", 1, t)
         /\ CallMove("factor", 2, t, "factor", 5)
         /\ CallMove("factor", 3, t, "expression", 4)
         /\ t = "RPAREN" => ShiftMove("factor", 4, t, 5)
         /\ t # "RPAREN" => FailMove("factor", 4, t)
         /\ ReturnMove("factor", 5, t)
<1>1. /\ Rest("factor", 1) = <<"factor">> /\ Rest("factor", 2) = <<"factor">>
      /\ Rest("factor", 3) = <<"expression", "RPAREN">>
      /\ Rest("factor", 4) = <<"RPAREN">> /\ Rest("factor", 5) = << >>
  BY RestCases
<1>2. /\ {"expression", "RPAREN", "factor"} \subseteq CodeGrammar!Symbols
      /\ "RPAREN" \in TokenTypes
  BY DEF CodeGrammar!Symbols, CodeGrammar!Nonterminals, TokenTypes
<1>3. \A r \in Forms : << >> \o r = r
  BY FormsConcat
<1>4. ASSUME NEW w \in Words, NEW r \in Forms, NEW i \in Nat
      PROVE  Reads(w, i, <<"factor">> \o r) <=>
               \/ /\ i \in 1..Len(w) /\ w[i] \in {"LITERAL", "IDENTIFIER"}
                  /\ Reads(w, i + 1, << >> \o r)
               \/ /\ i \in 1..Len(w) /\ w[i] \in {"PLUS", "MINUS"}
                  /\ Reads(w, i + 1, <<"factor">> \o r)
               \/ /\ i \in 1..Len(w) /\ w[i] = "LPAREN"
                  /\ Reads(w, i + 1, <<"expression", "RPAREN">> \o r)
  BY <1>3, ReadsFactor
<1>5. /\ t \in {"LITERAL", "IDENTIFIER"} => ShiftMove("factor", 1, t, 5)
      /\ t \in {"PLUS", "MINUS"} => ShiftMove("factor", 1, t, 2)
      /\ t = "LPAREN" => ShiftMove("factor", 1, t, 3)
  BY <1>1, <1>4 DEF ShiftMove
<1>6. t \notin {"LITERAL", "IDENTIFIER", "PLUS", "MINUS", "LPAREN"} => FailMove("factor", 1, t)
  BY <1>1, <1>4 DEF FailMove, At
<1>7. ASSUME NEW w \in Words, NEW r \in Forms, NEW i \in Nat
      PROVE  Reads(w, i, <<"RPAREN">> \o r)
               <=> i \in 1..Len(w) /\ w[i] = "RPAREN" /\ Reads(w, i + 1, << >> \o r)
  BY <1>2, <1>3, ReadsToken
<1>8. /\ t = "RPAREN" => ShiftMove("factor", 4, t, 5)
      /\ t # "RPAREN" => FailMove("factor", 4, t)
  BY <1>1, <1>7 DEF ShiftMove, FailMove, At
<1>9. ReturnMove("factor", 5, t)
  BY <1>1, <1>3 DEF ReturnMove
<1>10. CallMove("factor", 2, t, "factor", 5)
  <2>1. \A w \in Words, r \in Forms : Rest("factor", 5) \o r = r
    BY <1>1, <1>3
  <2> QED BY <1>1, <2>1 DEF CallMove
<1>11. CallMove("factor", 3, t, "expression", 4)
  <2>1. ASSUME NEW w \in Words, NEW r \in Forms
        PROVE  Bounded(w, "expression", Rest("factor", 4) \o r)
    BY <1>1, <1>7, FollowSets DEF Bounded
  <2>2. ASSUME NEW w \in Words, NEW r \in Forms, NEW i \in Nat
        PROVE  Reads(w, i, Rest("factor", 3) \o r)
                 <=> Reads(w, i, Rest("expression", 1) \o (Rest("factor", 4) \o r))
    <3>1. PICK q : q = <<"RPAREN">> \o r
      OBVIOUS
    <3>2. q \in Forms /\ <<"expression", "RPAREN">> \o r = <<"expression">> \o q
      BY <1>2, <3>1, FormOfTwo
    <3>3. "expression" \in DOMAIN Follow
      BY FollowSets
    <3>4. Reads(w, i, <<"expression">> \o q) <=> Reads(w, i, Rest("expression", 1) \o q)
      BY <3>2, <3>3, Opens
    <3> QED BY <1>1, <3>1, <3>2, <3>4
  <2> QED BY <2>1, <2>2 DEF CallMove
<1> QED BY <1>5, <1>6, <1>8, <1>9, <1>10, <1>11

-----------------------------------------------------------------------------
(* What is known of seen between the steps. *)
SeenOK ==
  /\ seen \in Words
  /\ nodes = << >> =>
       seen = << >> /\ tok = NoToken /\ errs = << >> /\ stack = << >>
  /\ nodes # << >> =>
       /\ tok \in Token
       /\ Len(seen) >= 1 /\ seen[Len(seen)] = tok.type
       /\ Len(seen) <= tok.loc
       /\ errs = << >> => tok.loc = Len(seen)

(* Whether there was no invalid token since the last one delivered. *)
LEMMA NextTokenPlace ==
  ASSUME tok \in Token \cup {NoToken}, NextToken(<< >>), tok.type # "EOF",
         tok'.loc = tok.loc + 1
  PROVE  errs' = << >>
<1>1. PICK bad \in LexicalErrors :
        /\ errs' = << >> \o [i \in 1..bad |-> [kind |-> "INVALID_TOKEN",
                                              loc |-> tok.loc + i]]
        /\ \E x \in Following(tok.loc + bad + 1, errs') :
             tok' = [type |-> x.type, attr |-> x.attr,
                     loc |-> tok.loc + bad + 1]
  BY DEF NextToken
<1>2. tok'.loc = tok.loc + bad + 1
  BY <1>1
<1>3. bad \in Nat /\ tok.loc \in Nat
  BY ParserAssumption DEF Token, NoToken
<1>4. bad = 0
  BY <1>2, <1>3
<1> DEFINE invalid == [i \in 1..bad |-> [kind |-> "INVALID_TOKEN",
                                         loc |-> tok.loc + i]]
<1>5. invalid = << >>
  <2>1. 1..bad = {}
    BY <1>4
  <2>2. << >> \in Seq(Error) /\ invalid \in [1..bad -> Error]
    BY <1>3 DEF Error
  <2>3. invalid \in Seq(Error)
    BY <1>3, <2>2, SeqDef
  <2>4. DOMAIN invalid = {}
    BY <2>1
  <2> HIDE DEF invalid
  <2>5. Len(invalid) = 0
    BY <2>3, <2>4, LenProperties
  <2> QED BY <2>3, <2>5, EmptySeq
<1>6. errs' = << >> \o invalid
  BY <1>1
<1> HIDE DEF invalid
<1> QED BY <1>5, <1>6, ConcatEmptySeq, EmptySeq

(* A call of lex() adds the token it delivers to seen. *)
LEMMA NextTokenSeen ==
  ASSUME seen \in Words, tok \in Token \cup {NoToken}, Len(seen) <= tok.loc,
         tok.type = "EOF" => Len(seen) >= 1 /\ seen[Len(seen)] = tok.type,
         NEW es \in Seq(Error), NextToken(es),
         seen' = IF tok' = tok THEN seen ELSE Append(seen, tok'.type)
  PROVE  /\ seen' \in Words /\ tok' \in Token
         /\ Len(seen') >= 1 /\ seen'[Len(seen')] = tok'.type
         /\ Len(seen') <= tok'.loc
         /\ Len(seen') \in {Len(seen), Len(seen) + 1}
         /\ \A i \in 1..Len(seen) : seen'[i] = seen[i]
         /\ tok'.loc = Len(seen') => tok.loc = Len(seen)
         /\ tok.type # "EOF" => Len(seen') = Len(seen) + 1
         /\ tok.type = "EOF" => Len(seen') = Len(seen) /\ tok' = tok
<1>1. /\ tok' \in Token /\ tok.loc \in Nat /\ tok'.loc \in Nat /\ tok'.loc >= tok.loc
      /\ tok.type # "EOF" => tok'.loc > tok.loc
  BY NextTokenType, NextTokenOnward
<1>2. tok'.type \in TokenTypes /\ Len(seen) \in Nat /\ seen \in Seq(TokenTypes)
  BY <1>1, LenProperties DEF Token, Words
<1>3. CASE tok.type = "EOF"
  <2>1. tok' = tok
    BY <1>3 DEF NextToken
  <2>2. seen' = seen
    BY <2>1
  <2> QED BY <1>1, <1>2, <1>3, <2>1, <2>2 DEF Words
<1>4. CASE tok.type # "EOF"
  <2>1. tok'.loc > tok.loc
    BY <1>1, <1>4
  <2>2. tok' # tok
    BY <1>1, <2>1
  <2>3. seen' = Append(seen, tok'.type)
    BY <2>2
  <2>4. PICK t \in TokenTypes : t = tok'.type
    BY <1>2
  <2>5. /\ Append(seen, t) \in Seq(TokenTypes)
        /\ Len(Append(seen, t)) = Len(seen) + 1
        /\ \A i \in 1..Len(seen) : Append(seen, t)[i] = seen[i]
        /\ Append(seen, t)[Len(seen) + 1] = t
    BY <1>2, AppendProperties
  <2>6. /\ seen' \in Words /\ Len(seen') = Len(seen) + 1
        /\ \A i \in 1..Len(seen) : seen'[i] = seen[i]
        /\ seen'[Len(seen')] = tok'.type
    BY <2>3, <2>4, <2>5 DEF Words
  <2> QED BY <1>1, <1>2, <1>4, <2>1, <2>6
<1> QED BY <1>3, <1>4

-----------------------------------------------------------------------------
(* The activations below the n-th, and their nodes, are as they were. *)
SameBelow(n) ==
  \A d \in 1..(n - 1) : /\ nodes'[stack'[d].node].nt = nodes[stack[d].node].nt
                        /\ stack'[d].step = stack[d].step

(* A terminal is added: the activation that runs goes on. *)
LEMMA TerminalFrames ==
  ASSUME IInv, stack # << >>, NEW k \in Nat, NEW c \in Child,
         nodes' = AddChild(nodes, Tree, c), stack' = GoTo(k)
  PROVE  /\ Len(stack') = Len(stack) /\ SameBelow(Len(stack))
         /\ nodes'[stack'[Len(stack)].node].nt = nodes[Tree].nt
         /\ stack'[Len(stack)].step = k
<1>1. /\ stack \in Seq(Activation) /\ Top \in 1..Len(stack) /\ Top = Len(stack)
      /\ stack[Top] \in Activation /\ nodes \in Seq(Node) /\ Tree \in 1..Len(nodes)
  BY RunningActivation DEF IInv, TypeOK, Top
<1>2. DOMAIN stack = 1..Len(stack) /\ Len(stack) \in Nat
  BY <1>1, LenProperties
<1>3. \A d \in 1..Len(stack) : stack[d].node \in 1..Len(nodes)
  BY DEF IInv, StackOrdered
<1>4. \A m \in 1..Len(nodes) : nodes'[m].nt = nodes[m].nt
  <2>1. DOMAIN nodes = 1..Len(nodes)
    BY <1>1, LenProperties
  <2> QED BY <1>1, <2>1, AddChildChildren
<1> DEFINE new == [node |-> Tree, step |-> k]
<1>5. new.node = Tree /\ new.step = k /\ new \in Activation
  BY <1>1 DEF Tree, Activation
<1>6. stack' = [stack EXCEPT ![Top] = new]
  BY DEF GoTo
<1> HIDE DEF new
<1>7. /\ Len(stack') = Len(stack)
      /\ \A d \in 1..Len(stack) : stack'[d] = IF d = Top THEN new ELSE stack[d]
  BY <1>1, <1>5, <1>6, ExceptSeq
<1>8. stack'[Len(stack)] = new
  BY <1>1, <1>7
<1>9. \A d \in 1..(Len(stack) - 1) : stack'[d] = stack[d] /\ d \in 1..Len(stack)
  BY <1>1, <1>2, <1>7
<1>10. SameBelow(Len(stack))
  BY <1>3, <1>4, <1>9 DEF SameBelow
<1> QED BY <1>1, <1>4, <1>5, <1>7, <1>8, <1>10

(* A call: there is one activation more, at its first step. *)
LEMMA CallFrames ==
  ASSUME IInv, stack # << >>, NEW x \in NonTerminals, NEW k \in Nat, Call(x, k)
  PROVE  /\ Len(stack') = Len(stack) + 1 /\ SameBelow(Len(stack))
         /\ nodes'[stack'[Len(stack)].node].nt = nodes[Tree].nt
         /\ stack'[Len(stack)].step = k
         /\ nodes'[stack'[Len(stack) + 1].node].nt = x
         /\ stack'[Len(stack) + 1].step = 1
<1>1. /\ stack \in Seq(Activation) /\ Top \in 1..Len(stack) /\ Top = Len(stack)
      /\ stack[Top] \in Activation /\ nodes \in Seq(Node) /\ Tree \in 1..Len(nodes)
  BY RunningActivation DEF IInv, TypeOK, Top
<1>2. DOMAIN stack = 1..Len(stack) /\ Len(stack) \in Nat /\ Len(nodes) \in Nat
  BY <1>1, LenProperties
<1>3. \A d \in 1..Len(stack) : stack[d].node \in 1..Len(nodes)
  BY DEF IInv, StackOrdered
<1>4. /\ \A m \in 1..Len(nodes) : nodes'[m] = nodes[m]
      /\ nodes'[Len(nodes) + 1].nt = x
  <2>1. nodes' = MakeNonterminal(nodes, x)
    BY DEF Call
  <2> QED BY <1>1, <2>1, MakeNonterminalChildren
<1> DEFINE new == [node |-> Tree, step |-> k]
           callee == [node |-> Len(nodes) + 1, step |-> 1]
<1>5. new.node = Tree /\ new.step = k /\ new \in Activation
  BY <1>1 DEF Tree, Activation
<1>6. callee.node = Len(nodes) + 1 /\ callee.step = 1 /\ callee \in Activation
  BY <1>2 DEF Activation
<1>7. stack' = Append([stack EXCEPT ![Top] = new], callee)
  BY DEF Call, GoTo
<1> HIDE DEF new, callee
<1>8. /\ [stack EXCEPT ![Top] = new] \in Seq(Activation)
      /\ Len([stack EXCEPT ![Top] = new]) = Len(stack)
      /\ \A d \in 1..Len(stack) :
           [stack EXCEPT ![Top] = new][d] = IF d = Top THEN new ELSE stack[d]
  BY <1>1, <1>5, ExceptSeq
<1>9. /\ Len(stack') = Len(stack) + 1
      /\ \A d \in 1..Len(stack) : stack'[d] = IF d = Top THEN new ELSE stack[d]
      /\ stack'[Len(stack) + 1] = callee
  BY <1>2, <1>6, <1>7, <1>8, AppendProperties
<1>10. stack'[Len(stack)] = new
  BY <1>1, <1>9
<1>11. \A d \in 1..(Len(stack) - 1) : stack'[d] = stack[d] /\ d \in 1..Len(stack)
  BY <1>1, <1>2, <1>9
<1>12. SameBelow(Len(stack))
  BY <1>3, <1>4, <1>11 DEF SameBelow
<1>13. nodes'[stack'[Len(stack)].node].nt = nodes[Tree].nt
  BY <1>1, <1>4, <1>5, <1>10
<1> QED BY <1>4, <1>5, <1>6, <1>9, <1>10, <1>12, <1>13

(* A return: there is one less. *)
LEMMA ReturnFrames ==
  ASSUME IInv, stack # << >>, Return
  PROVE  Len(stack') = Len(stack) - 1 /\ SameBelow(Len(stack))
<1>1. /\ Len(stack) \in Nat /\ Len(stack) >= 1 /\ Top = Len(stack)
      /\ Len(stack') = Len(stack) - 1
      /\ \A d \in 1..(Len(stack) - 1) : stack'[d] = stack[d]
  BY ReturnTop
<1>2. /\ nodes \in Seq(Node) /\ Tree \in 1..Len(nodes)
      /\ nodes[Tree].nt \in NonTerminals
      /\ \A d \in 1..Len(stack) : stack[d].node \in 1..Len(nodes)
  BY RunningActivation DEF IInv, TypeOK, StackOrdered
<1>3. Subtree(nodes[Tree].nt, Tree) \in Child
  BY <1>2 DEF Subtree, Child, Attrs
<1>4. \A m \in 1..Len(nodes) : nodes'[m].nt = nodes[m].nt
  <2>1. CASE Top = 1
    <3>1. nodes' = nodes
      BY <2>1 DEF Return
    <3> QED BY <3>1
  <2>2. CASE Top # 1
    <3>1. Top - 1 \in 1..Len(stack)
      BY <1>1, <2>2
    <3>2. PICK p \in 1..Len(nodes) : p = stack[Top - 1].node
      BY <1>2, <3>1
    <3>3. PICK c \in Child : c = Subtree(nodes[Tree].nt, Tree)
      BY <1>3
    <3>4. nodes' = AddChild(nodes, p, c)
      BY <2>2, <3>2, <3>3 DEF Return
    <3>5. DOMAIN nodes = 1..Len(nodes)
      BY <1>2, LenProperties
    <3> QED BY <1>2, <3>4, <3>5, AddChildChildren
  <2> QED BY <2>1, <2>2
<1>5. SameBelow(Len(stack))
  <2>1. \A d \in 1..(Len(stack) - 1) : stack'[d] = stack[d] /\ d \in 1..Len(stack)
    BY <1>1
  <2> QED BY <1>2, <1>4, <2>1 DEF SameBelow
<1> QED BY <1>1, <1>5

-----------------------------------------------------------------------------
(* What the first n activations still expect: F[d] is the form of all that  *)
(* is to come after the d-th has returned.                                  *)
AheadUpTo(F, n) ==
  /\ F \in [0..n -> Forms] /\ F[0] = << >>
  /\ \A d \in 1..n :
       /\ F[d] = Rest(nodes[stack[d].node].nt, stack[d].step) \o F[d - 1]
       /\ \A w \in Words : Bounded(w, nodes[stack[d].node].nt, F[d - 1])

(* Every activation is at a step of its function. *)
LEMMA StepsOf ==
  ASSUME NEW nt \in NonTerminals, NEW k, NEW ks, Progress(nt, k, ks)
  PROVE  Steps(nt, k)
<1>1. nt \in DOMAIN Script => k \in 1..(Len(Script[nt]) + 1)
  BY ProgressCases DEF ScriptProgress
<1>2. nt \in DOMAIN ChainOperand => k \in 1..2
  BY ProgressCases DEF ChainProgress
<1>3. nt = "variables" => k \in 1..4
  BY ProgressCases DEF VariablesProgress
<1>4. nt = "statements" => k = 1
  BY ProgressCases DEF StatementsProgress
<1>5. nt = "factor" => k \in 1..5
  BY ProgressCases DEF FactorProgress
<1> QED BY <1>1, <1>2, <1>3, <1>4, <1>5 DEF Steps

(* So is every one after a step. *)
LEMMA NextSteps ==
  ASSUME IInv', NEW d \in 1..Len(stack')
  PROVE  Steps(nodes'[stack'[d].node].nt, stack'[d].step)
<1>1. Progress(nodes'[stack'[d].node].nt, stack'[d].step, Pending(d)')
  BY DEF IInv, FramesProgress
<1>2. stack'[d].node \in 1..Len(nodes') /\ nodes' \in Seq(Node)
  BY DEF IInv, StackOrdered, TypeOK
<1>3. nodes'[stack'[d].node] \in Node
  BY <1>2, ElementOfSeq
<1>4. nodes'[stack'[d].node].nt \in NonTerminals
  BY <1>3 DEF Node
<1> QED BY <1>1, <1>4, StepsOf

(* What it takes to be a table of expectations after a step. *)
LEMMA AheadNext ==
  ASSUME NEW n, NEW G, G \in [0..n -> Forms], G[0] = << >>,
         \A d \in 1..n :
           /\ G[d] = Rest(nodes'[stack'[d].node].nt, stack'[d].step) \o G[d - 1]
           /\ \A w \in Words : Bounded(w, nodes'[stack'[d].node].nt, G[d - 1])
  PROVE  AheadUpTo(G, n)'
BY DEF AheadUpTo

(* The expectations of the activations that a step leaves alone. *)
LEMMA AheadKept ==
  ASSUME NEW n \in Nat, NEW m \in 1..(n + 1), NEW F, AheadUpTo(F, n), SameBelow(m)
  PROVE  \E G : /\ AheadUpTo(G, m - 1)'
                /\ \A d \in 0..(m - 1) : G[d] = F[d]
<1> DEFINE G == [d \in 0..(m - 1) |-> F[d]]
<1>1. F \in [0..n -> Forms] /\ m - 1 \in 0..n
  BY DEF AheadUpTo
<1>2. G \in [0..(m - 1) -> Forms]
  BY <1>1
<1>3. \A d \in 0..(m - 1) : G[d] = F[d]
  OBVIOUS
<1> HIDE DEF G
<1>4. G[0] = << >>
  <2>1. F[0] = << >>
    BY DEF AheadUpTo
  <2> QED BY <1>1, <1>3, <2>1
<1>5. ASSUME NEW d \in 1..(m - 1)
      PROVE  /\ G[d] = Rest(nodes'[stack'[d].node].nt, stack'[d].step) \o G[d - 1]
             /\ \A w \in Words : Bounded(w, nodes'[stack'[d].node].nt, G[d - 1])
  <2>1. d \in 1..n /\ d - 1 \in 0..(m - 1) /\ d \in 0..(m - 1)
    OBVIOUS
  <2>2. G[d] = F[d] /\ G[d - 1] = F[d - 1]
    BY <1>3, <2>1
  <2>3. /\ F[d] = Rest(nodes[stack[d].node].nt, stack[d].step) \o F[d - 1]
        /\ \A w \in Words : Bounded(w, nodes[stack[d].node].nt, F[d - 1])
    BY <2>1 DEF AheadUpTo
  <2>4. /\ nodes'[stack'[d].node].nt = nodes[stack[d].node].nt
        /\ stack'[d].step = stack[d].step
    BY DEF SameBelow
  <2> QED BY <2>2, <2>3, <2>4
<1>6. AheadUpTo(G, m - 1)'
  BY <1>2, <1>4, <1>5, AheadNext
<1> QED BY <1>3, <1>6

(* One activation more. *)
LEMMA AheadGrown ==
  ASSUME IInv', NEW n \in Nat, n + 1 \in 1..Len(stack'), NEW F, AheadUpTo(F, n)',
         \A w \in Words : Bounded(w, nodes'[stack'[n + 1].node].nt, F[n])
  PROVE  \E G : /\ AheadUpTo(G, n + 1)'
                /\ \A d \in 0..n : G[d] = F[d]
                /\ G[n + 1] = Rest(nodes'[stack'[n + 1].node].nt, stack'[n + 1].step) \o F[n]
<1>1. F \in [0..n -> Forms] /\ F[0] = << >> /\ F[n] \in Forms
  BY DEF AheadUpTo
<1>2. PICK xs : xs = Rest(nodes'[stack'[n + 1].node].nt, stack'[n + 1].step)
  OBVIOUS
<1>3. xs \in Forms
  BY <1>2, NextSteps, RestForms
<1>4. PICK ys \in Forms : ys = xs \o F[n]
  BY <1>1, <1>3, FormsConcat
<1> DEFINE G == [d \in 0..(n + 1) |-> IF d = n + 1 THEN ys ELSE F[d]]
<1>5. G \in [0..(n + 1) -> Forms]
  <2>1. \A d \in 0..(n + 1) : d # n + 1 => d \in 0..n
    OBVIOUS
  <2> QED BY <1>1, <2>1
<1>6. (\A d \in 0..n : G[d] = F[d]) /\ G[n + 1] = ys
  OBVIOUS
<1> HIDE DEF G
<1>7. ASSUME NEW d \in 1..(n + 1)
      PROVE  /\ G[d] = Rest(nodes'[stack'[d].node].nt, stack'[d].step) \o G[d - 1]
             /\ \A w \in Words : Bounded(w, nodes'[stack'[d].node].nt, G[d - 1])
  <2>1. CASE d = n + 1
    <3>1. d - 1 = n /\ G[n] = F[n]
      BY <1>6, <2>1
    <3> QED BY <1>2, <1>4, <1>6, <2>1, <3>1
  <2>2. CASE d \in 1..n
    <3>1. d - 1 \in 0..n /\ d \in 0..n
      BY <2>2
    <3>2. G[d] = F[d] /\ G[d - 1] = F[d - 1]
      BY <1>6, <3>1
    <3> QED BY <2>2, <3>2 DEF AheadUpTo
  <2>3. d = n + 1 \/ d \in 1..n
    OBVIOUS
  <2> QED BY <2>1, <2>2, <2>3
<1>8. G[0] = << >>
  BY <1>1, <1>6
<1>9. AheadUpTo(G, n + 1)'
  BY <1>5, <1>7, <1>8, AheadNext
<1> QED BY <1>2, <1>4, <1>6, <1>9

-----------------------------------------------------------------------------
(* What a step of a parse function does, seen from the grammar.             *)
Shifting ==
  \E k \in Nat, c \in Child :
    /\ nodes' = AddChild(nodes, Tree, c) /\ stack' = GoTo(k)
    /\ tok.type # "EOF" /\ NextToken(errs)
    /\ ShiftMove(nodes[Tree].nt, Step, tok.type, k)

Failing ==
  /\ nodes' # << >> /\ errs' # << >>
  /\ UNCHANGED tok \/ NextToken(Reported)
  /\ FailMove(nodes[Tree].nt, Step, tok.type)

Calling ==
  \E x \in NonTerminals, k \in Nat :
    Call(x, k) /\ CallMove(nodes[Tree].nt, Step, tok.type, x, k)

Returning == Return /\ ReturnMove(nodes[Tree].nt, Step, tok.type)

GrammarMove == stack # << >> /\ (Shifting \/ Failing \/ Calling \/ Returning)

(* A token accepted is read. *)
LEMMA AcceptMove ==
  ASSUME IInv, stack # << >>, NEW types, NEW k \in Nat, AcceptToken(types, k),
         "EOF" \notin types, ShiftMove(nodes[Tree].nt, Step, tok.type, k)
  PROVE  GrammarMove
<1>1. tok \in Token
  BY RunningActivation
<1>2. Terminal(tok) \in Child
  BY <1>1 DEF Terminal, Child, Token
<1>3. tok.type # "EOF" /\ NextToken(errs)
  BY DEF AcceptToken
<1>4. nodes' = AddChild(nodes, Tree, Terminal(tok)) /\ stack' = GoTo(k)
  BY DEF AcceptToken
<1>5. Shifting
  BY <1>2, <1>3, <1>4 DEF Shifting
<1> QED BY <1>5 DEF GrammarMove

(* A token made up is a token missed. *)
LEMMA ReplaceMove ==
  ASSUME IInv, stack # << >>, NEW type \in TokenTypes, NEW k, ReplaceToken(type, k),
         (errs' = Reported /\ UNCHANGED tok) \/ NextToken(Reported),
         FailMove(nodes[Tree].nt, Step, tok.type)
  PROVE  GrammarMove
<1>1. tok.loc \in Nat /\ nodes \in Seq(Node) /\ Tree \in 1..Len(nodes)
  BY RunningActivation DEF Token, IInv, TypeOK
<1>2. PICK c \in Child : c = Terminal(Invented(type))
  BY <1>1 DEF Terminal, Invented, Child, Attrs
<1>3. nodes' = AddChild(nodes, Tree, c)
  BY <1>2 DEF ReplaceToken
<1>4. Len(nodes') = Len(nodes)
  BY <1>1, <1>3, AddChildChildren
<1>5. Len(nodes) >= 1
  BY <1>1, LenProperties
<1>6. nodes' # << >>
  BY <1>4, <1>5, EmptySeq
<1>7. errs' # << >> /\ (UNCHANGED tok \/ NextToken(Reported))
  BY SomeReported
<1>8. Failing
  BY <1>6, <1>7 DEF Failing
<1> QED BY <1>8 DEF GrammarMove

(* expect does one or the other. *)
LEMMA ExpectMove ==
  ASSUME IInv, stack # << >>, NEW types, NEW default \in TokenTypes, NEW k \in Nat,
         ExpectToken(types, default, k), "EOF" \notin types,
         tok.type \in types => ShiftMove(nodes[Tree].nt, Step, tok.type, k),
         tok.type \notin types => FailMove(nodes[Tree].nt, Step, tok.type)
  PROVE  GrammarMove
<1>1. CASE AcceptToken(types, k)
  <2>1. tok.type \in types
    BY <1>1 DEF AcceptToken
  <2> QED BY <1>1, <2>1, AcceptMove
<1>2. CASE /\ tok.type \notin types /\ ReplaceToken(default, k)
           /\ errs' = Reported /\ UNCHANGED tok
  <2>1. FailMove(nodes[Tree].nt, Step, tok.type)
    BY <1>2
  <2> QED BY <1>2, <2>1, ReplaceMove
<1> QED BY <1>1, <1>2 DEF ExpectToken

(* A token thrown away is one that nothing expected. *)
LEMMA SkipMove ==
  ASSUME IInv, stack # << >>, SkipToken, FailMove(nodes[Tree].nt, Step, tok.type)
  PROVE  GrammarMove
<1>1. nodes \in Seq(Node) /\ Tree \in 1..Len(nodes) /\ Len(nodes) \in Nat
  BY RunningActivation, LenProperties DEF IInv, TypeOK
<1>2. nodes # << >>
  BY <1>1, EmptySeq
<1>3. NextToken(Reported) /\ nodes' = nodes
  BY DEF SkipToken
<1>4. Failing
  BY <1>2, <1>3, SomeReported DEF Failing
<1> QED BY <1>4 DEF GrammarMove

-----------------------------------------------------------------------------
(* Each parse function makes one of the moves. *)
LEMMA ParseScriptMove ==
  ASSUME IInv, ParseScript
  PROVE  GrammarMove
<1>1. PICK nt \in DOMAIN Script :
        /\ In(nt)
        /\ \/ Step > Len(Script[nt]) /\ Return
           \/ /\ Step <= Len(Script[nt])
              /\ LET x == Script[nt][Step]
                 IN \/ x \in NonTerminals /\ Call(x, Step + 1)
                    \/ x \notin NonTerminals
                       /\ ExpectToken(Expected(x), Default(x), Step + 1)
  BY DEF ParseScript
<1>2. stack # << >> /\ nodes[Tree].nt = nt
  BY <1>1 DEF In
<1>3. PICK k \in 1..(Len(Script[nt]) + 1) : k = Step
  <2>1. ScriptProgress(Script[nt], Step, Kinds(nodes[Tree]))
    BY <1>2, RunningActivation, ProgressCases
  <2> QED BY <2>1 DEF ScriptProgress
<1>4. PICK t \in TokenTypes : t = tok.type
  BY <1>2, RunningActivation DEF Token
<1>5. Len(Script[nt]) \in Nat
  BY ScriptIsForm
<1>6. CASE k > Len(Script[nt])
  <2>1. Return
    BY <1>1, <1>3, <1>5, <1>6
  <2>2. ReturnMove(nt, k, t)
    BY <1>6, ScriptMoves
  <2>3. Returning
    BY <1>2, <1>3, <1>4, <2>1, <2>2 DEF Returning
  <2> QED BY <1>2, <2>3 DEF GrammarMove
<1>7. CASE k <= Len(Script[nt])
  <2>1. PICK x : x = Script[nt][k]
    OBVIOUS
  <2>2. \/ x \in NonTerminals /\ Call(x, k + 1)
        \/ x \notin NonTerminals /\ ExpectToken(Expected(x), Default(x), k + 1)
    BY <1>1, <1>3, <1>5, <1>7, <2>1
  <2>3. k \in 1..Len(Script[nt]) /\ k + 1 \in Nat
    BY <1>5, <1>7
  <2>4. /\ x \in NonTerminals => CallMove(nt, k, t, x, k + 1)
        /\ x \notin NonTerminals =>
             /\ t \in Expected(x) => ShiftMove(nt, k, t, k + 1)
             /\ t \notin Expected(x) => FailMove(nt, k, t)
    BY <1>7, <2>1, ScriptMoves
  <2>5. CASE x \in NonTerminals
    <3>1. Call(x, k + 1) /\ CallMove(nodes[Tree].nt, Step, tok.type, x, k + 1)
      BY <1>2, <1>3, <1>4, <2>2, <2>4, <2>5
    <3>2. Calling
      BY <2>3, <2>5, <3>1 DEF Calling
    <3> QED BY <1>2, <3>2 DEF GrammarMove
  <2>6. CASE x \notin NonTerminals
    <3>1. x \in Kind \cup {"RELOP"} /\ x # "EOF"
      BY <2>1, <2>3, ScriptSymbols, ScriptWords
    <3>2. Default(x) \in TokenTypes
      BY <2>6, <3>1 DEF Default, Kind, TokenTypes
    <3>3. "EOF" \notin Expected(x)
      BY <3>1 DEF Expected, RelOps
    <3>4. ExpectToken(Expected(x), Default(x), k + 1)
      BY <2>2, <2>6
    <3>5. /\ t \in Expected(x) => ShiftMove(nt, k, t, k + 1)
          /\ t \notin Expected(x) => FailMove(nt, k, t)
      BY <2>4, <2>6
    <3>6. /\ tok.type \in Expected(x) => ShiftMove(nodes[Tree].nt, Step, tok.type, k + 1)
          /\ tok.type \notin Expected(x) => FailMove(nodes[Tree].nt, Step, tok.type)
      BY <1>2, <1>3, <1>4, <3>5
    <3>7. PICK types : types = Expected(x)
      OBVIOUS
    <3>8. PICK default \in TokenTypes : default = Default(x)
      BY <3>2
    <3> QED BY <1>2, <2>3, <3>3, <3>4, <3>6, <3>7, <3>8, ExpectMove
  <2> QED BY <2>5, <2>6
<1> QED BY <1>5, <1>6, <1>7

(* parse_variables: the first token tells a declaration from the end. *)
LEMMA ParseVariablesMove ==
  ASSUME IInv, ParseVariables
  PROVE  GrammarMove
<1>1. stack # << >> /\ nodes[Tree].nt = "variables"
  BY DEF ParseVariables, In
<1>2. PICK k \in 1..4 : k = Step
  <2>1. VariablesProgress(Step, Kinds(nodes[Tree]))
    BY <1>1, RunningActivation, ProgressCases
  <2> QED BY <2>1 DEF VariablesProgress
<1>3. PICK t \in TokenTypes : t = tok.type
  BY <1>1, RunningActivation DEF Token
<1>4. CASE Step = 1 /\ tok.type \in {"EOF", "BEGIN"} /\ Return
  <2>1. ReturnMove("variables", k, t)
    BY <1>2, <1>3, <1>4, VariablesMoves
  <2>2. Returning
    BY <1>1, <1>2, <1>3, <1>4, <2>1 DEF Returning
  <2> QED BY <1>1, <2>2 DEF GrammarMove
<1>5. CASE Step = 1 /\ AcceptToken({"IDENTIFIER"}, 2)
  <2>1. t = "IDENTIFIER"
    BY <1>3, <1>5 DEF AcceptToken
  <2>2. ShiftMove("variables", k, t, 2)
    BY <1>2, <1>5, <2>1, VariablesMoves
  <2> QED BY <1>1, <1>2, <1>3, <1>5, <2>2, AcceptMove
<1>6. CASE Step = 1 /\ tok.type \notin {"EOF", "BEGIN", "IDENTIFIER"} /\ SkipToken
  <2>1. FailMove("variables", k, t)
    BY <1>2, <1>3, <1>6, VariablesMoves
  <2> QED BY <1>1, <1>2, <1>3, <1>6, <2>1, SkipMove
<1>7. CASE /\ Step # 1
           /\ ExpectToken({Declaration[Step]}, Declaration[Step], (Step % 4) + 1)
  <2>1. PICK type : type = Declaration[k]
    OBVIOUS
  <2>2. type \in TokenTypes /\ type # "EOF" /\ k # 1
    BY <1>2, <1>7, <2>1, DeclarationNames DEF TokenTypes
  <2>3. PICK k2 \in Nat : k2 = (k % 4) + 1
    OBVIOUS
  <2>4. ExpectToken({type}, type, k2)
    BY <1>2, <1>7, <2>1, <2>3
  <2>5. /\ t = type => ShiftMove("variables", k, t, k2)
        /\ t # type => FailMove("variables", k, t)
    BY <2>1, <2>2, <2>3, VariablesMoves
  <2>6. /\ tok.type \in {type} => ShiftMove(nodes[Tree].nt, Step, tok.type, k2)
        /\ tok.type \notin {type} => FailMove(nodes[Tree].nt, Step, tok.type)
    BY <1>1, <1>2, <1>3, <2>5
  <2>7. "EOF" \notin {type}
    BY <2>2
  <2> QED BY <1>1, <2>2, <2>4, <2>6, <2>7, ExpectMove
<1> QED BY <1>4, <1>5, <1>6, <1>7 DEF ParseVariables

-----------------------------------------------------------------------------
(* parse_statements: the first token tells which statement, if any. *)
LEMMA ParseStatementsMove ==
  ASSUME IInv, ParseStatements
  PROVE  GrammarMove
<1>1. stack # << >> /\ nodes[Tree].nt = "statements"
  BY DEF ParseStatements, In
<1>2. Step = 1
  <2>1. StatementsProgress(Step, Kinds(nodes[Tree]))
    BY <1>1, RunningActivation, ProgressCases
  <2> QED BY <2>1 DEF StatementsProgress
<1>3. PICK t \in TokenTypes : t = tok.type
  BY <1>1, RunningActivation DEF Token
<1>4. CASE tok.type \in {"EOF", "ELSE", "UNTIL", "END"} /\ Return
  <2>1. ReturnMove("statements", 1, t)
    BY <1>3, <1>4, StatementsMoves
  <2>2. Returning
    BY <1>1, <1>2, <1>3, <1>4, <2>1 DEF Returning
  <2> QED BY <1>1, <2>2 DEF GrammarMove
<1>5. CASE tok.type \in Starters /\ Call(StatementOf(tok.type), 1)
  <2>1. PICK x : x = StatementOf(t)
    OBVIOUS
  <2>2. x \in NonTerminals
    BY <1>3, <1>5, <2>1 DEF Starters, StatementOf, NonTerminals
  <2>3. CallMove("statements", 1, t, x, 1)
    BY <1>3, <1>5, <2>1, StatementsMoves
  <2>4. Call(x, 1)
    BY <1>3, <1>5, <2>1
  <2>5. Calling
    BY <1>1, <1>2, <1>3, <2>2, <2>3, <2>4 DEF Calling
  <2> QED BY <1>1, <2>5 DEF GrammarMove
<1>6. CASE tok.type \notin {"EOF", "ELSE", "UNTIL", "END"} \cup Starters /\ SkipToken
  <2>1. FailMove("statements", 1, t)
    BY <1>3, <1>6, StatementsMoves
  <2> QED BY <1>1, <1>2, <1>3, <1>6, <2>1, SkipMove
<1> QED BY <1>4, <1>5, <1>6 DEF ParseStatements

(* parse_expression and parse_term: the operator tells whether to go on. *)
LEMMA ParseChainMove ==
  ASSUME IInv, NEW nt \in DOMAIN ChainOperand,
         ParseChain(nt, ChainOperand[nt], ChainOperators[nt])
  PROVE  GrammarMove
<1>1. stack # << >> /\ nodes[Tree].nt = nt
  BY DEF ParseChain, In
<1>2. PICK t \in TokenTypes : t = tok.type
  BY <1>1, RunningActivation DEF Token
<1>3. CASE Step = 1 /\ Call(ChainOperand[nt], 2)
  <2>1. PICK x : x = ChainOperand[nt]
    OBVIOUS
  <2>2. x \in NonTerminals
    BY <2>1 DEF ChainOperand, NonTerminals
  <2>3. CallMove(nt, 1, t, x, 2)
    BY <2>1, ChainMoves
  <2>4. Calling
    BY <1>1, <1>2, <1>3, <2>1, <2>2, <2>3 DEF Calling
  <2> QED BY <1>1, <2>4 DEF GrammarMove
<1>4. CASE Step = 2 /\ AcceptToken(ChainOperators[nt], 1)
  <2>1. PICK types : types = ChainOperators[nt]
    OBVIOUS
  <2>2. "EOF" \notin types
    BY <2>1 DEF ChainOperators, ChainOperand
  <2>3. AcceptToken(types, 1) /\ t \in ChainOperators[nt]
    BY <1>2, <1>4, <2>1 DEF AcceptToken
  <2>4. ShiftMove(nt, 2, t, 1)
    BY <2>3, ChainMoves
  <2> QED BY <1>1, <1>2, <1>4, <2>2, <2>3, <2>4, AcceptMove
<1>5. CASE Step = 2 /\ tok.type \notin ChainOperators[nt] /\ Return
  <2>1. ReturnMove(nt, 2, t)
    BY <1>2, <1>5, ChainMoves
  <2>2. Returning
    BY <1>1, <1>2, <1>5, <2>1 DEF Returning
  <2> QED BY <1>1, <2>2 DEF GrammarMove
<1> QED BY <1>3, <1>4, <1>5 DEF ParseChain

(* parse_factor: the first token tells the rule. *)
LEMMA ParseFactorMove ==
  ASSUME IInv, ParseFactor
  PROVE  GrammarMove
<1>1. stack # << >> /\ nodes[Tree].nt = "factor"
  BY DEF ParseFactor, In
<1>2. PICK t \in TokenTypes : t = tok.type
  BY <1>1, RunningActivation DEF Token
<1>3. CASE Step = 1 /\ AcceptToken({"LITERAL", "IDENTIFIER"}, 5)
  <2>1. ShiftMove("factor", 1, t, 5)
    BY <1>2, <1>3, FactorMoves DEF AcceptToken
  <2> QED BY <1>1, <1>2, <1>3, <2>1, AcceptMove
<1>4. CASE Step = 1 /\ AcceptToken({"PLUS", "MINUS"}, 2)
  <2>1. ShiftMove("factor", 1, t, 2)
    BY <1>2, <1>4, FactorMoves DEF AcceptToken
  <2> QED BY <1>1, <1>2, <1>4, <2>1, AcceptMove
<1>5. CASE Step = 1 /\ AcceptToken({"LPAREN"}, 3)
  <2>1. ShiftMove("factor", 1, t, 3)
    BY <1>2, <1>5, FactorMoves DEF AcceptToken
  <2> QED BY <1>1, <1>2, <1>5, <2>1, AcceptMove
<1>6. CASE /\ Step = 1
           /\ tok.type \notin {"LITERAL", "IDENTIFIER", "PLUS", "MINUS", "LPAREN"}
           /\ ReplaceToken("LITERAL", 5) /\ NextToken(Reported)
  <2>1. FailMove("factor", 1, t)
    BY <1>2, <1>6, FactorMoves
  <2>2. "LITERAL" \in TokenTypes
    BY DEF TokenTypes
  <2> QED BY <1>1, <1>2, <1>6, <2>1, <2>2, ReplaceMove
<1>7. CASE \/ Step = 2 /\ Call("factor", 5)
           \/ Step = 3 /\ Call("expression", 4)
  <2>1. CallMove("factor", 2, t, "factor", 5) /\ CallMove("factor", 3, t, "expression", 4)
    BY FactorMoves
  <2>2. "factor" \in NonTerminals /\ "expression" \in NonTerminals
    BY DEF NonTerminals
  <2>3. Calling
    BY <1>1, <1>2, <1>7, <2>1, <2>2 DEF Calling
  <2> QED BY <1>1, <2>3 DEF GrammarMove
<1>8. CASE Step = 4 /\ ExpectToken({"RPAREN"}, "RPAREN", 5)
  <2>1. /\ t = "RPAREN" => ShiftMove("factor", 4, t, 5)
        /\ t # "RPAREN" => FailMove("factor", 4, t)
    BY FactorMoves
  <2>2. "RPAREN" \in TokenTypes
    BY DEF TokenTypes
  <2> QED BY <1>1, <1>2, <1>8, <2>1, <2>2, ExpectMove
<1>9. CASE Step = 5 /\ Return
  <2>1. ReturnMove("factor", 5, t)
    BY FactorMoves
  <2>2. Returning
    BY <1>1, <1>2, <1>9, <2>1 DEF Returning
  <2> QED BY <1>1, <2>2 DEF GrammarMove
<1> QED BY <1>3, <1>4, <1>5, <1>6, <1>7, <1>8, <1>9 DEF ParseFactor

(* What a step of the parser does, seen from the grammar. *)
LEMMA NextMove ==
  ASSUME IInv, [Next]_vars
  PROVE  Parse \/ GrammarMove \/ UNCHANGED vars
<1>1. CASE ParseScript
  BY <1>1, ParseScriptMove
<1>2. CASE ParseVariables
  BY <1>2, ParseVariablesMove
<1>3. CASE ParseStatements
  BY <1>3, ParseStatementsMove
<1>4. CASE ParseExpression
  BY <1>4, ParseChainMove DEF ParseExpression, ChainOperand, ChainOperators
<1>5. CASE ParseTerm
  BY <1>5, ParseChainMove DEF ParseTerm, ChainOperand, ChainOperators
<1>6. CASE ParseFactor
  BY <1>6, ParseFactorMove
<1>7. CASE Done
  BY <1>7 DEF Done
<1> QED BY <1>1, <1>2, <1>3, <1>4, <1>5, <1>6, <1>7 DEF Next

-----------------------------------------------------------------------------
(* w may still be what the parser is reading: it begins with the tokens     *)
(* seen, but perhaps for the lookahead, which may not be a part of it.      *)
Agrees(w) ==
  /\ Len(w) >= Len(seen) - 1
  /\ \A i \in 1..Len(seen) : i <= Len(w) => w[i] = seen[i]

(* Such a w is a program exactly if it goes on with what is expected. *)
Decided(F) ==
  \A w \in Words : Agrees(w) =>
    (CodeGrammar!Sentence(w) <=> Reads(w, Len(seen), F[Len(stack)]))

(* Without an error so far, some forms ahead decide about the source. *)
Viable ==
  nodes # << >> /\ errs = << >> =>
    \E F : AheadUpTo(F, Len(stack)) /\ Decided(F)

(* After an error, no such w is a program, unless lex() reported it. *)
Refuted ==
  nodes # << >> /\ errs # << >> /\ tok.loc = Len(seen) =>
    \A w \in Words : Agrees(w) => ~CodeGrammar!Sentence(w)

(* What was seen remains so. *)
SeenGrows ==
  /\ Len(seen') \in {Len(seen), Len(seen) + 1}
  /\ \A i \in 1..Len(seen) : seen'[i] = seen[i]
  /\ tok'.loc = Len(seen') => tok.loc = Len(seen)

(* What agrees with the tokens seen did so before. *)
LEMMA AgreesBefore ==
  ASSUME SeenOK, SeenGrows, NEW w \in Words, Agrees(w)'
  PROVE  Agrees(w)
<1>1. Len(seen) \in Nat /\ Len(w) \in Nat
  BY LenProperties DEF SeenOK, Words
<1>2. Len(w) >= Len(seen) - 1
  BY <1>1 DEF Agrees, SeenGrows
<1>3. ASSUME NEW i \in 1..Len(seen), i <= Len(w)
      PROVE  w[i] = seen[i]
  <2>1. i \in 1..Len(seen')
    BY <1>1 DEF SeenGrows
  <2>2. w[i] = seen'[i]
    BY <1>3, <2>1 DEF Agrees
  <2> QED BY <2>2 DEF SeenGrows
<1> QED BY <1>2, <1>3 DEF Agrees

(* The token at hand is the next of w, if w has one more. *)
LEMMA AgreesAt ==
  ASSUME SeenOK, nodes # << >>, NEW w \in Words, Agrees(w)
  PROVE  Len(seen) \in Nat /\ Len(seen) >= 1 /\ At(w, Len(seen), tok.type)
<1>1. Len(seen) \in Nat /\ Len(seen) >= 1 /\ seen[Len(seen)] = tok.type /\ Len(w) \in Nat
  BY LenProperties DEF SeenOK, Words
<1>2. Len(seen) \in 1..Len(w) => w[Len(seen)] = seen[Len(seen)]
  BY <1>1 DEF Agrees
<1> QED BY <1>1, <1>2 DEF At

(* A source file refuted remains so. *)
LEMMA RefutedKept ==
  ASSUME SeenOK, SeenGrows, Refuted, errs # << >>, nodes # << >>
  PROVE  Refuted'
<1> SUFFICES ASSUME tok'.loc = Len(seen'), NEW w \in Words, Agrees(w)'
             PROVE  ~CodeGrammar!Sentence(w)
  BY DEF Refuted
<1>1. Agrees(w)
  BY AgreesBefore
<1>2. tok.loc = Len(seen)
  BY DEF SeenGrows
<1> QED BY <1>1, <1>2 DEF Refuted

(* What the running activation expects. *)
LEMMA TopAhead ==
  ASSUME IInv, stack # << >>, NEW F, AheadUpTo(F, Len(stack))
  PROVE  /\ Len(stack) \in Nat /\ Len(stack) >= 1
         /\ F[Len(stack) - 1] \in Forms
         /\ F[Len(stack)] = Rest(nodes[Tree].nt, Step) \o F[Len(stack) - 1]
         /\ \A w \in Words : Bounded(w, nodes[Tree].nt, F[Len(stack) - 1])
         /\ nodes[Tree].nt \in NonTerminals /\ tok.type \in TokenTypes
<1>1. /\ Top = Len(stack) /\ Len(stack) \in Nat /\ Top \in 1..Len(stack)
      /\ nodes[Tree].nt \in NonTerminals /\ tok \in Token
  BY RunningActivation DEF Top
<1>2. PICK n \in Nat : n = Len(stack) /\ n >= 1
  BY <1>1
<1>3. n \in 1..n /\ n - 1 \in 0..n
  BY <1>2
<1>4. F \in [0..n -> Forms]
  BY <1>2 DEF AheadUpTo
<1>5. F[n - 1] \in Forms
  BY <1>3, <1>4
<1>6. /\ F[n] = Rest(nodes[stack[n].node].nt, stack[n].step) \o F[n - 1]
      /\ \A w \in Words : Bounded(w, nodes[stack[n].node].nt, F[n - 1])
  BY <1>2, <1>3 DEF AheadUpTo
<1>7. Tree = stack[n].node /\ Step = stack[n].step
  BY <1>1, <1>2 DEF Tree, Step
<1>8. tok.type \in TokenTypes
  BY <1>1 DEF Token
<1> QED BY <1>1, <1>2, <1>5, <1>6, <1>7, <1>8

-----------------------------------------------------------------------------
(* Each move keeps to the grammar. *)
LEMMA FailingKeeps ==
  ASSUME IInv, stack # << >>, SeenOK, SeenGrows, Viable, Refuted, Failing, nodes # << >>
  PROVE  Viable' /\ Refuted'
<1>1. errs' # << >> /\ FailMove(nodes[Tree].nt, Step, tok.type)
  BY DEF Failing
<1>2. Viable'
  BY <1>1 DEF Viable
<1>3. CASE errs # << >>
  BY <1>2, <1>3, RefutedKept
<1>4. CASE errs = << >>
  <2>1. PICK F : AheadUpTo(F, Len(stack)) /\ Decided(F)
    BY <1>4 DEF Viable
  <2>2. /\ F[Len(stack) - 1] \in Forms
        /\ F[Len(stack)] = Rest(nodes[Tree].nt, Step) \o F[Len(stack) - 1]
        /\ \A w \in Words : Bounded(w, nodes[Tree].nt, F[Len(stack) - 1])
    BY <2>1, TopAhead
  <2>3. ASSUME NEW w \in Words, Agrees(w)'
        PROVE  ~CodeGrammar!Sentence(w)
    <3>1. Agrees(w)
      BY <2>3, AgreesBefore
    <3>2. Len(seen) \in Nat /\ At(w, Len(seen), tok.type)
      BY <3>1, AgreesAt
    <3>3. PICK i \in Nat : i = Len(seen)
      BY <3>2
    <3>4. PICK r \in Forms : r = F[Len(stack) - 1]
      BY <2>2
    <3>5. Bounded(w, nodes[Tree].nt, r) /\ At(w, i, tok.type)
      BY <2>2, <3>2, <3>3, <3>4
    <3>6. ~Reads(w, i, Rest(nodes[Tree].nt, Step) \o r)
      BY <1>1, <3>5 DEF FailMove
    <3>7. CodeGrammar!Sentence(w) <=> Reads(w, i, Rest(nodes[Tree].nt, Step) \o r)
      BY <2>1, <2>2, <3>1, <3>3, <3>4 DEF Decided
    <3> QED BY <3>6, <3>7
  <2>4. Refuted'
    BY <2>3 DEF Refuted
  <2> QED BY <1>2, <2>4
<1> QED BY <1>3, <1>4

-----------------------------------------------------------------------------
(* A token read: the form ahead is shorter by it. *)
LEMMA ShiftingKeeps ==
  ASSUME IInv, IInv', stack # << >>, SeenOK, SeenOK', SeenGrows, Viable, Refuted,
         nodes # << >>, Shifting, Len(seen') = Len(seen) + 1
  PROVE  Viable' /\ Refuted'
<1>1. PICK k \in Nat, c \in Child :
        /\ nodes' = AddChild(nodes, Tree, c) /\ stack' = GoTo(k)
        /\ tok.type # "EOF" /\ NextToken(errs)
        /\ ShiftMove(nodes[Tree].nt, Step, tok.type, k)
  BY DEF Shifting
<1>2. /\ Len(stack') = Len(stack) /\ SameBelow(Len(stack))
      /\ nodes'[stack'[Len(stack)].node].nt = nodes[Tree].nt
      /\ stack'[Len(stack)].step = k
  BY <1>1, TerminalFrames
<1>3. errs \in Seq(Error) /\ tok \in Token /\ tok.loc \in Nat
  BY RunningActivation DEF IInv, TypeOK, Token
<1>4. errs' = << >> => errs = << >>
  BY <1>1, <1>3, QuietToken
<1>5. errs = << >> /\ tok'.loc = Len(seen') => errs' = << >>
  <2> SUFFICES ASSUME errs = << >>, tok'.loc = Len(seen')
               PROVE  errs' = << >>
    OBVIOUS
  <2>1. tok'.loc = tok.loc + 1
    BY DEF SeenOK
  <2> QED BY <1>1, <1>3, <2>1, NextTokenPlace
<1>6. Refuted'
  <2>1. CASE errs # << >>
    BY <2>1, RefutedKept
  <2>2. CASE errs = << >>
    BY <1>5, <2>2 DEF Refuted
  <2> QED BY <2>1, <2>2
<1>7. ASSUME errs' = << >>
      PROVE  \E G : AheadUpTo(G, Len(stack))' /\ Decided(G)'
  <2>1. PICK F : AheadUpTo(F, Len(stack)) /\ Decided(F)
    BY <1>4, <1>7 DEF Viable
  <2>2. /\ Len(stack) \in Nat /\ Len(stack) >= 1
        /\ F[Len(stack) - 1] \in Forms
        /\ F[Len(stack)] = Rest(nodes[Tree].nt, Step) \o F[Len(stack) - 1]
        /\ \A w \in Words : Bounded(w, nodes[Tree].nt, F[Len(stack) - 1])
    BY <2>1, TopAhead
  <2>3. PICK n \in Nat : n = Len(stack) /\ n >= 1
    BY <2>2
  <2>4. n \in 1..(n + 1) /\ AheadUpTo(F, n) /\ SameBelow(n) /\ n - 1 \in Nat
        /\ n - 1 \in 0..(n - 1) /\ (n - 1) + 1 = n /\ Len(stack') = n /\ n \in 1..n
    BY <1>2, <2>1, <2>3
  <2>5. PICK E : AheadUpTo(E, n - 1)' /\ \A d \in 0..(n - 1) : E[d] = F[d]
    BY <2>4, AheadKept
  <2>6. E[n - 1] = F[n - 1]
    BY <2>4, <2>5
  <2>7. \A w \in Words : Bounded(w, nodes'[stack'[n].node].nt, E[n - 1])
    BY <1>2, <2>2, <2>3, <2>6
  <2>8. PICK m \in Nat : m = n - 1
    BY <2>4
  <2>9. /\ m + 1 \in 1..Len(stack') /\ AheadUpTo(E, m)' /\ m + 1 = n
        /\ \A w \in Words : Bounded(w, nodes'[stack'[m + 1].node].nt, E[m])
    BY <2>4, <2>5, <2>7, <2>8
  <2>10. PICK G : /\ AheadUpTo(G, m + 1)'
                  /\ G[m + 1] = Rest(nodes'[stack'[m + 1].node].nt, stack'[m + 1].step) \o E[m]
    BY <2>9, AheadGrown
  <2>11. PICK r \in Forms : r = F[n - 1]
    BY <2>2, <2>3
  <2>12. G[n] = Rest(nodes[Tree].nt, k) \o r
    BY <1>2, <2>3, <2>6, <2>8, <2>9, <2>10, <2>11
  <2>13. AheadUpTo(G, Len(stack))'
    BY <2>4, <2>9, <2>10
  <2>14. ASSUME NEW w \in Words, Agrees(w)'
         PROVE  CodeGrammar!Sentence(w) <=> Reads(w, Len(seen'), G[Len(stack')])
    <3>1. Agrees(w)
      BY <2>14, AgreesBefore
    <3>2. Len(seen) \in Nat /\ Len(seen) >= 1 /\ At(w, Len(seen), tok.type)
      BY <3>1, AgreesAt
    <3>3. PICK i \in Nat : i = Len(seen) /\ i >= 1 /\ i + 1 = Len(seen')
      BY <3>2
    <3>4. i \in 1..Len(w) /\ w[i] = tok.type
      <4>1. Len(w) >= i /\ Len(w) \in Nat
        BY <2>14, <3>3, LenProperties DEF Agrees, Words
      <4> QED BY <3>2, <3>3, <4>1 DEF At
    <3>5. Bounded(w, nodes[Tree].nt, r)
      BY <2>2, <2>3, <2>11
    <3>6. Reads(w, i, Rest(nodes[Tree].nt, Step) \o r)
            <=> Reads(w, i + 1, Rest(nodes[Tree].nt, k) \o r)
      BY <1>1, <3>4, <3>5 DEF ShiftMove
    <3>7. CodeGrammar!Sentence(w) <=> Reads(w, i, Rest(nodes[Tree].nt, Step) \o r)
      BY <2>1, <2>2, <2>3, <2>11, <3>1, <3>3 DEF Decided
    <3> QED BY <2>4, <2>12, <3>3, <3>6, <3>7
  <2>15. Decided(G)'
    BY <2>14 DEF Decided
  <2> QED BY <2>13, <2>15
<1>8. Viable'
  BY <1>7 DEF Viable
<1> QED BY <1>6, <1>8

(* Where no token is read, only the form may change. *)
LEMMA SameTokens ==
  ASSUME UNCHANGED <<tok, errs, seen>>, nodes # << >>, Viable, Refuted,
         ASSUME NEW F, AheadUpTo(F, Len(stack)), Decided(F)
         PROVE  \E G : AheadUpTo(G, Len(stack))' /\ Decided(G)'
  PROVE  Viable' /\ Refuted'
<1>1. Viable'
  BY DEF Viable
<1>2. Refuted'
  BY DEF Refuted, Agrees
<1> QED BY <1>1, <1>2

(* A call: the nonterminal gives way to what the callee reads. *)
LEMMA CallingKeeps ==
  ASSUME IInv, IInv', stack # << >>, SeenOK, UNCHANGED seen, Viable, Refuted,
         nodes # << >>, Calling
  PROVE  Viable' /\ Refuted'
<1>1. PICK x \in NonTerminals, k \in Nat :
        Call(x, k) /\ CallMove(nodes[Tree].nt, Step, tok.type, x, k)
  BY DEF Calling
<1>2. /\ Len(stack') = Len(stack) + 1 /\ SameBelow(Len(stack))
      /\ nodes'[stack'[Len(stack)].node].nt = nodes[Tree].nt
      /\ stack'[Len(stack)].step = k
      /\ nodes'[stack'[Len(stack) + 1].node].nt = x
      /\ stack'[Len(stack) + 1].step = 1
  BY <1>1, CallFrames
<1>3. UNCHANGED <<tok, errs, seen>>
  BY <1>1 DEF Call
<1>4. ASSUME NEW F, AheadUpTo(F, Len(stack)), Decided(F)
      PROVE  \E G : AheadUpTo(G, Len(stack))' /\ Decided(G)'
  <2>2. /\ Len(stack) \in Nat /\ Len(stack) >= 1
        /\ F[Len(stack) - 1] \in Forms
        /\ F[Len(stack)] = Rest(nodes[Tree].nt, Step) \o F[Len(stack) - 1]
        /\ \A w \in Words : Bounded(w, nodes[Tree].nt, F[Len(stack) - 1])
    BY <1>4, TopAhead
  <2>3. PICK n \in Nat : n = Len(stack) /\ n >= 1
    BY <2>2
  <2>4. n \in 1..(n + 1) /\ AheadUpTo(F, n) /\ SameBelow(n) /\ n - 1 \in Nat
        /\ n - 1 \in 0..(n - 1) /\ (n - 1) + 1 = n /\ Len(stack') = n + 1
        /\ n \in 1..(n + 1) /\ n + 1 \in 1..(n + 1)
    BY <1>2, <1>4, <2>3
  <2>5. PICK D : AheadUpTo(D, n - 1)' /\ \A d \in 0..(n - 1) : D[d] = F[d]
    BY <2>4, AheadKept
  <2>6. PICK r \in Forms : r = F[n - 1] /\ r = D[n - 1]
    BY <2>2, <2>3, <2>4, <2>5
  <2>7. \A w \in Words : Bounded(w, nodes'[stack'[n].node].nt, D[n - 1])
    BY <1>2, <2>2, <2>3, <2>6
  <2>8. PICK m \in Nat : m = n - 1
    BY <2>4
  <2>9. /\ m + 1 \in 1..Len(stack') /\ AheadUpTo(D, m)' /\ m + 1 = n
        /\ \A w \in Words : Bounded(w, nodes'[stack'[m + 1].node].nt, D[m])
    BY <2>4, <2>5, <2>7, <2>8
  <2>10. PICK E : /\ AheadUpTo(E, m + 1)'
                  /\ E[m + 1] = Rest(nodes'[stack'[m + 1].node].nt, stack'[m + 1].step) \o D[m]
    BY <2>9, AheadGrown
  <2>11. AheadUpTo(E, n)' /\ E[n] = Rest(nodes[Tree].nt, k) \o r
    BY <1>2, <2>3, <2>6, <2>8, <2>9, <2>10
  <2>12. \A w \in Words : Bounded(w, x, Rest(nodes[Tree].nt, k) \o r)
    BY <1>1, <2>2, <2>3, <2>6 DEF CallMove
  <2>13. \A w \in Words : Bounded(w, nodes'[stack'[n + 1].node].nt, E[n])
    BY <1>2, <2>3, <2>11, <2>12
  <2>14. n + 1 \in 1..Len(stack')
    BY <2>4
  <2>15. PICK G : /\ AheadUpTo(G, n + 1)'
                  /\ G[n + 1] = Rest(nodes'[stack'[n + 1].node].nt, stack'[n + 1].step) \o E[n]
    BY <2>11, <2>13, <2>14, AheadGrown
  <2>16. G[n + 1] = Rest(x, 1) \o (Rest(nodes[Tree].nt, k) \o r)
    BY <1>2, <2>3, <2>11, <2>15
  <2>17. AheadUpTo(G, Len(stack))'
    BY <2>4, <2>15
  <2>18. ASSUME NEW w \in Words, Agrees(w)
         PROVE  CodeGrammar!Sentence(w) <=> Reads(w, Len(seen), G[n + 1])
    <3>1. Len(seen) \in Nat /\ At(w, Len(seen), tok.type)
      BY <2>18, AgreesAt
    <3>2. PICK i \in Nat : i = Len(seen)
      BY <3>1
    <3>3. Bounded(w, nodes[Tree].nt, r) /\ At(w, i, tok.type)
      BY <2>2, <2>3, <2>6, <3>1, <3>2
    <3>4. Reads(w, i, Rest(nodes[Tree].nt, Step) \o r)
            <=> Reads(w, i, Rest(x, 1) \o (Rest(nodes[Tree].nt, k) \o r))
      BY <1>1, <3>3 DEF CallMove
    <3>5. CodeGrammar!Sentence(w) <=> Reads(w, i, Rest(nodes[Tree].nt, Step) \o r)
      BY <1>4, <2>2, <2>3, <2>6, <2>18, <3>2 DEF Decided
    <3> QED BY <2>16, <3>2, <3>4, <3>5
  <2>19. Decided(G)'
    BY <1>3, <2>4, <2>18 DEF Decided, Agrees
  <2> QED BY <2>17, <2>19
<1> QED BY <1>3, <1>4, SameTokens

(* A return: the callee had nothing left to read. *)
LEMMA ReturningKeeps ==
  ASSUME IInv, stack # << >>, SeenOK, UNCHANGED seen, Viable, Refuted,
         nodes # << >>, Returning
  PROVE  Viable' /\ Refuted'
<1>1. Return /\ ReturnMove(nodes[Tree].nt, Step, tok.type)
  BY DEF Returning
<1>2. Len(stack') = Len(stack) - 1 /\ SameBelow(Len(stack))
  BY <1>1, ReturnFrames
<1>3. UNCHANGED <<tok, errs, seen>>
  BY <1>1 DEF Return
<1>4. ASSUME NEW F, AheadUpTo(F, Len(stack)), Decided(F)
      PROVE  \E G : AheadUpTo(G, Len(stack))' /\ Decided(G)'
  <2>2. /\ Len(stack) \in Nat /\ Len(stack) >= 1
        /\ F[Len(stack) - 1] \in Forms
        /\ F[Len(stack)] = Rest(nodes[Tree].nt, Step) \o F[Len(stack) - 1]
        /\ \A w \in Words : Bounded(w, nodes[Tree].nt, F[Len(stack) - 1])
    BY <1>4, TopAhead
  <2>3. PICK n \in Nat : n = Len(stack) /\ n >= 1
    BY <2>2
  <2>4. n \in 1..(n + 1) /\ AheadUpTo(F, n) /\ SameBelow(n)
        /\ n - 1 \in 0..(n - 1) /\ Len(stack') = n - 1
    BY <1>2, <1>4, <2>3
  <2>5. PICK G : AheadUpTo(G, n - 1)' /\ \A d \in 0..(n - 1) : G[d] = F[d]
    BY <2>4, AheadKept
  <2>6. PICK r \in Forms : r = F[n - 1] /\ r = G[n - 1]
    BY <2>2, <2>3, <2>4, <2>5
  <2>7. AheadUpTo(G, Len(stack))'
    BY <2>4, <2>5
  <2>8. ASSUME NEW w \in Words, Agrees(w)
        PROVE  CodeGrammar!Sentence(w) <=> Reads(w, Len(seen), G[n - 1])
    <3>1. Len(seen) \in Nat /\ At(w, Len(seen), tok.type)
      BY <2>8, AgreesAt
    <3>2. PICK i \in Nat : i = Len(seen)
      BY <3>1
    <3>3. Bounded(w, nodes[Tree].nt, r) /\ At(w, i, tok.type)
      BY <2>2, <2>3, <2>6, <3>1, <3>2
    <3>4. Reads(w, i, Rest(nodes[Tree].nt, Step) \o r) <=> Reads(w, i, r)
      BY <1>1, <3>3 DEF ReturnMove
    <3>5. CodeGrammar!Sentence(w) <=> Reads(w, i, Rest(nodes[Tree].nt, Step) \o r)
      BY <1>4, <2>2, <2>3, <2>6, <2>8, <3>2 DEF Decided
    <3> QED BY <2>6, <3>2, <3>4, <3>5
  <2>9. Decided(G)'
    BY <1>3, <2>4, <2>8 DEF Decided, Agrees
  <2> QED BY <2>7, <2>9
<1> QED BY <1>3, <1>4, SameTokens

-----------------------------------------------------------------------------
(* What a step does to seen. *)
Sees == seen' = IF tok' = tok THEN seen ELSE Append(seen, tok'.type)

(* When lex() is called, the token it delivers is seen. *)
LEMMA LexSeen ==
  ASSUME SeenOK, nodes # << >>, NEW es \in Seq(Error), NextToken(es), Sees,
         nodes' # << >>, errs' = << >> => tok'.loc = Len(seen')
  PROVE  SeenOK' /\ SeenGrows /\ (tok.type # "EOF" => Len(seen') = Len(seen) + 1)
<1>1. /\ seen \in Words /\ tok \in Token \cup {NoToken} /\ Len(seen) <= tok.loc
      /\ tok.type = "EOF" => Len(seen) >= 1 /\ seen[Len(seen)] = tok.type
      /\ seen' = IF tok' = tok THEN seen ELSE Append(seen, tok'.type)
  BY DEF SeenOK, Sees
<1>2. /\ seen' \in Words /\ tok' \in Token
      /\ Len(seen') >= 1 /\ seen'[Len(seen')] = tok'.type
      /\ Len(seen') <= tok'.loc
      /\ Len(seen') \in {Len(seen), Len(seen) + 1}
      /\ \A i \in 1..Len(seen) : seen'[i] = seen[i]
      /\ tok'.loc = Len(seen') => tok.loc = Len(seen)
      /\ tok.type # "EOF" => Len(seen') = Len(seen) + 1
  BY <1>1, NextTokenSeen
<1>3. SeenGrows
  BY <1>2 DEF SeenGrows
<1>4. SeenOK'
  BY <1>2 DEF SeenOK
<1> QED BY <1>2, <1>3, <1>4

(* When it is not, the same tokens are. *)
LEMMA StillSeen ==
  ASSUME SeenOK, nodes # << >>, nodes' # << >>, UNCHANGED tok, Sees,
         errs' = << >> => errs = << >>
  PROVE  SeenOK' /\ SeenGrows /\ UNCHANGED seen
<1>1. UNCHANGED seen
  BY DEF Sees
<1>2. SeenOK'
  BY <1>1 DEF SeenOK
<1>3. SeenGrows
  BY <1>1 DEF SeenGrows
<1> QED BY <1>1, <1>2, <1>3

(* Every move keeps to the grammar. *)
LEMMA MoveKeeps ==
  ASSUME IInv, IInv', SeenOK, Viable, Refuted, GrammarMove, Sees
  PROVE  SeenOK' /\ Viable' /\ Refuted'
<1>1. stack # << >> /\ nodes # << >>
  BY DEF GrammarMove, SeenOK
<1>2. /\ errs \in Seq(Error) /\ tok \in Token /\ tok.loc \in Nat
      /\ nodes \in Seq(Node) /\ nodes' \in Seq(Node) /\ Tree \in 1..Len(nodes)
      /\ Len(nodes) \in Nat
  BY <1>1, RunningActivation, LenProperties DEF IInv, TypeOK, Token
<1>3. CASE Shifting
  <2>1. PICK k \in Nat, c \in Child :
          /\ nodes' = AddChild(nodes, Tree, c)
          /\ tok.type # "EOF" /\ NextToken(errs)
    BY <1>3 DEF Shifting
  <2>2. Len(nodes') = Len(nodes)
    BY <1>2, <2>1, AddChildChildren
  <2>3. nodes' # << >>
    BY <1>1, <1>2, <2>2, EmptySeq, LenProperties
  <2>4. tok.type # "EOF" /\ NextToken(errs)
    BY <2>1
  <2>5. errs' = << >> => tok'.loc = Len(seen')
    <3>1. /\ seen \in Words /\ tok \in Token \cup {NoToken} /\ Len(seen) <= tok.loc
          /\ tok.type = "EOF" => Len(seen) >= 1 /\ seen[Len(seen)] = tok.type
          /\ seen' = IF tok' = tok THEN seen ELSE Append(seen, tok'.type)
      BY <1>1 DEF SeenOK, Sees
    <3>2. Len(seen') = Len(seen) + 1
      BY <1>2, <2>4, <3>1, NextTokenSeen
    <3>3. errs' = << >> => errs = << >> /\ tok'.loc = tok.loc + 1
      BY <1>2, <2>4, QuietToken
    <3>4. errs = << >> => tok.loc = Len(seen)
      BY <1>1 DEF SeenOK
    <3> QED BY <3>2, <3>3, <3>4
  <2>6. SeenOK' /\ SeenGrows /\ Len(seen') = Len(seen) + 1
    BY <1>1, <1>2, <2>3, <2>4, <2>5, LexSeen
  <2> QED BY <1>1, <1>3, <2>6, ShiftingKeeps
<1>4. CASE Failing
  <2>1. nodes' # << >> /\ errs' # << >> /\ (UNCHANGED tok \/ NextToken(Reported))
    BY <1>4 DEF Failing
  <2>2. SeenOK' /\ SeenGrows
    <3>1. CASE UNCHANGED tok
      BY <1>1, <2>1, <3>1, StillSeen
    <3>2. CASE NextToken(Reported)
      <4>1. PICK es \in Seq(Error) : es = Reported
        BY <1>1, ReportedType
      <4> QED BY <1>1, <2>1, <3>2, <4>1, LexSeen
    <3> QED BY <2>1, <3>1, <3>2
  <2> QED BY <1>1, <1>4, <2>2, FailingKeeps
<1>5. CASE Calling
  <2>1. PICK x \in NonTerminals, k \in Nat : Call(x, k)
    BY <1>5 DEF Calling
  <2>2. UNCHANGED <<tok, errs>> /\ nodes' = MakeNonterminal(nodes, x)
    BY <2>1 DEF Call
  <2>3. DOMAIN nodes' = 1..(Len(nodes) + 1)
    BY <1>2, <2>2, MakeNonterminalChildren
  <2>4. nodes' # << >>
    BY <1>2, <2>3
  <2>5. SeenOK' /\ UNCHANGED seen
    BY <1>1, <2>2, <2>4, StillSeen
  <2> QED BY <1>1, <1>5, <2>5, CallingKeeps
<1>6. CASE Returning
  <2>1. Return
    BY <1>6 DEF Returning
  <2>2. UNCHANGED <<tok, errs>>
    BY <2>1 DEF Return
  <2>3. nodes' # << >>
    <3>1. CASE Top = 1
      BY <1>1, <2>1, <3>1 DEF Return
    <3>2. CASE Top # 1
      <4>1. nodes' = AddChild(nodes, stack[Top - 1].node, Subtree(nodes[Tree].nt, Tree))
        BY <2>1, <3>2 DEF Return
      <4>2. DOMAIN nodes' = DOMAIN nodes
        BY <4>1 DEF AddChild
      <4>3. DOMAIN nodes = 1..Len(nodes) /\ DOMAIN nodes' = 1..Len(nodes')
        BY <1>2, LenProperties
      <4> QED BY <1>2, <4>2, <4>3
    <3> QED BY <3>1, <3>2
  <2>4. SeenOK' /\ UNCHANGED seen
    BY <1>1, <2>2, <2>3, StillSeen
  <2> QED BY <1>1, <1>6, <2>4, ReturningKeeps
<1> QED BY <1>3, <1>4, <1>5, <1>6 DEF GrammarMove

(* The first token, and the call of parse_source. *)
LEMMA ParseKeeps ==
  ASSUME IInv, IInv', SeenOK, Parse, Sees
  PROVE  SeenOK' /\ Viable' /\ Refuted'
<1>1. /\ nodes = << >> /\ seen = << >> /\ errs = << >> /\ tok = NoToken
      /\ NextToken(errs) /\ stack' = <<[node |-> 1, step |-> 1]>>
      /\ nodes' = MakeNonterminal(nodes, "source")
  BY DEF Parse, SeenOK
<1>2. /\ seen \in Words /\ Len(seen) = 0 /\ tok \in Token \cup {NoToken}
      /\ tok.loc = 0 /\ tok.type # "EOF" /\ errs \in Seq(Error)
  BY <1>1, EmptySeq, AttrAssumption DEF Words, NoToken, TokenTypes
<1>3. Len(seen) <= tok.loc /\ (tok.type = "EOF" => Len(seen) >= 1 /\ seen[Len(seen)] = tok.type)
      /\ seen' = IF tok' = tok THEN seen ELSE Append(seen, tok'.type)
  BY <1>2 DEF Sees
<1>4. /\ seen' \in Words /\ tok' \in Token
      /\ Len(seen') >= 1 /\ seen'[Len(seen')] = tok'.type
      /\ Len(seen') <= tok'.loc /\ Len(seen') = 1
  <2>1. Len(seen') = Len(seen) + 1
    BY <1>1, <1>2, <1>3, NextTokenSeen
  <2>2. /\ seen' \in Words /\ tok' \in Token
        /\ Len(seen') >= 1 /\ seen'[Len(seen')] = tok'.type
        /\ Len(seen') <= tok'.loc
    BY <1>1, <1>2, <1>3, NextTokenSeen
  <2> QED BY <1>2, <2>1, <2>2
<1>5. errs' = << >> => tok'.loc = 1
  BY <1>1, <1>2, QuietToken
<1>6. tok'.loc = 1 => errs' = << >>
  BY <1>1, <1>2, NextTokenPlace
<1>7. /\ nodes' # << >> /\ Len(stack') = 1 /\ stack'[1].node = 1 /\ stack'[1].step = 1
      /\ nodes'[1].nt = "source"
  <2>1. nodes \in Seq(Node) /\ Len(nodes) = 0 /\ "source" \in NonTerminals
    BY <1>1, EmptySeq DEF NonTerminals
  <2>2. /\ DOMAIN nodes' = 1..(Len(nodes) + 1) /\ nodes'[Len(nodes) + 1].nt = "source"
    BY <1>1, <2>1, MakeNonterminalChildren
  <2>3. Len(nodes) + 1 = 1
    BY <2>1
  <2>4. nodes'[1].nt = "source" /\ DOMAIN nodes' = 1..1
    BY <2>2, <2>3
  <2>5. nodes' # << >>
    BY <2>4
  <2> QED BY <1>1, <2>4, <2>5
<1>8. SeenOK'
  BY <1>4, <1>5, <1>7 DEF SeenOK
<1>9. Refuted'
  BY <1>4, <1>6 DEF Refuted
<1>10. PICK D : D = [d \in 0..0 |-> << >>]
  OBVIOUS
<1>11. << >> \in Forms /\ "source" \in {"source", "condition"} /\ "source" \in DOMAIN Script
  BY EmptySeq, ScriptNames DEF Forms
<1>12. AheadUpTo(D, 0)' /\ D[0] = << >>
  BY <1>10, <1>11 DEF AheadUpTo
<1>13. \A w \in Words : Bounded(w, "source", D[0])
  BY FollowSets DEF Bounded
<1>14. Rest("source", 1) = Script["source"] /\ Script["source"] \in Forms
  <2>1. Script["source"] \in Forms /\ 1 \in 1..(Len(Script["source"]) + 1)
    BY <1>11, ScriptIsForm
  <2>2. From(Script["source"], 1) = Script["source"]
    BY <2>1, FormFrom
  <2> QED BY <1>11, <2>1, <2>2, RestCases
<1>15. PICK G : /\ AheadUpTo(G, 0 + 1)'
                /\ G[0 + 1] = Rest(nodes'[stack'[0 + 1].node].nt, stack'[0 + 1].step) \o D[0]
  <2>1. PICK n \in Nat : n = 0
    OBVIOUS
  <2>2. n + 1 \in 1..Len(stack') /\ AheadUpTo(D, n)'
    BY <1>7, <1>12, <2>1
  <2>3. \A w \in Words : Bounded(w, nodes'[stack'[n + 1].node].nt, D[n])
    BY <1>7, <1>13, <2>1
  <2> QED BY <2>1, <2>2, <2>3, AheadGrown
<1>16. AheadUpTo(G, Len(stack))' /\ G[Len(stack')] = Script["source"]
  <2>1. G[1] = Script["source"] \o << >>
    BY <1>7, <1>12, <1>14, <1>15
  <2>2. Script["source"] \o << >> = Script["source"]
    BY <1>11, <1>14, FormsConcat
  <2> QED BY <1>7, <1>15, <2>1, <2>2
<1>17. ASSUME NEW w \in Words
       PROVE  CodeGrammar!Sentence(w) <=> Reads(w, 1, Script["source"])
  <2>1. Script["source"] \o << >> = Script["source"] /\ <<"source">> \o << >> = <<"source">>
    <3>1. <<"source">> \in Forms
      BY DEF Forms, CodeGrammar!Symbols, CodeGrammar!Nonterminals
    <3> QED BY <1>11, <1>14, <3>1, FormsConcat
  <2>2. Reads(w, 1, <<"source">> \o << >>) <=> Reads(w, 1, Script["source"] \o << >>)
    BY <1>11, ReadsScript
  <2>3. CodeGrammar!Sentence(w) <=> Reads(w, 1, <<"source">>)
    BY DEF CodeGrammar!Sentence, Reads
  <2> QED BY <2>1, <2>2, <2>3
<1>18. Decided(G)'
  BY <1>4, <1>16, <1>17 DEF Decided
<1>19. Viable'
  BY <1>16, <1>18 DEF Viable
<1> QED BY <1>8, <1>9, <1>19

-----------------------------------------------------------------------------
(* What the parser knows of the source, besides IInv. *)
GrammarInv == IInv /\ SeenOK /\ Viable /\ Refuted

(* Before parse() is called nothing is known. *)
LEMMA InitGrammar == GrammarInit => GrammarInv
<1> SUFFICES ASSUME GrammarInit PROVE GrammarInv
  OBVIOUS
<1>1. Init /\ seen = << >>
  BY DEF GrammarInit
<1>2. IInv
  BY <1>1, InitInv
<1>3. nodes = << >> /\ stack = << >> /\ errs = << >> /\ tok = NoToken
  BY <1>1 DEF Init
<1>4. SeenOK
  BY <1>1, <1>3, EmptySeq DEF SeenOK, Words
<1> QED BY <1>2, <1>3, <1>4 DEF GrammarInv, Viable, Refuted

(* Every step preserves it. *)
LEMMA NextGrammar == GrammarInv /\ [GrammarNext]_<<vars, seen>> => GrammarInv'
<1> SUFFICES ASSUME GrammarInv, [GrammarNext]_<<vars, seen>> PROVE GrammarInv'
  OBVIOUS
<1>1. [Next]_vars /\ Sees
  BY DEF GrammarNext, Sees, vars
<1>2. IInv /\ SeenOK /\ Viable /\ Refuted
  BY DEF GrammarInv
<1>3. IInv'
  BY <1>1, <1>2, NextInv
<1>4. CASE Parse
  BY <1>1, <1>2, <1>3, <1>4, ParseKeeps DEF GrammarInv
<1>5. CASE GrammarMove
  BY <1>1, <1>2, <1>3, <1>5, MoveKeeps DEF GrammarInv
<1>6. CASE UNCHANGED vars
  <2>1. UNCHANGED <<tok, nodes, stack, errs, seen>>
    BY <1>1, <1>6 DEF vars, Sees
  <2>2. SeenOK' = SeenOK /\ Refuted' = Refuted
    BY <2>1 DEF SeenOK, Refuted, Agrees
  <2>3. Viable' = Viable
    BY <2>1 DEF Viable, AheadUpTo, Decided, Agrees
  <2> QED BY <1>2, <1>3, <2>2, <2>3 DEF GrammarInv
<1> QED BY <1>1, <1>2, <1>4, <1>5, <1>6, NextMove

(* In every reachable state it holds. *)
LEMMA GrammarInvariance == GrammarSpec => []GrammarInv
  BY InitGrammar, NextGrammar, PTL DEF GrammarSpec

(* A parse that has ended has decided about the tokens it consumed. *)
LEMMA ConsumedDecided ==
  ASSUME GrammarInv
  PROVE  ParsesTheGrammar
<1> SUFFICES ASSUME Parsed
             PROVE  errs = << >> <=> /\ tok.loc = Len(seen)
                                     /\ CodeGrammar!Sentence(Consumed)
  BY DEF ParsesTheGrammar
<1>1. nodes # << >> /\ stack = << >> /\ Len(stack) = 0
  BY DEF Parsed
<1>2. seen \in Words /\ Len(seen) >= 1 /\ Len(seen) \in Nat
      /\ (errs = << >> => tok.loc = Len(seen))
  BY <1>1, LenProperties DEF GrammarInv, SeenOK, Words
<1>3. /\ Consumed \in Words /\ Len(Consumed) = Len(seen) - 1
      /\ \A i \in 1..(Len(seen) - 1) : Consumed[i] = seen[i]
  <2>1. PICK n \in Nat : n = Len(seen) - 1
    BY <1>2
  <2>2. 1 \in Int /\ n \in Int /\ \A i \in 1..n : seen[i] \in TokenTypes
    <3>1. \A i \in 1..n : i \in 1..Len(seen)
      BY <1>2, <2>1
    <3> QED BY <1>2, <3>1, ElementOfSeq DEF Words
  <2>3. /\ SubSeq(seen, 1, n) \in Seq(TokenTypes)
        /\ Len(SubSeq(seen, 1, n)) = (IF 1 <= n THEN n - 1 + 1 ELSE 0)
        /\ \A i \in 1..(n - 1 + 1) : SubSeq(seen, 1, n)[i] = seen[1 + i - 1]
    BY <2>2, SubSeqProperties
  <2>4. Consumed = SubSeq(seen, 1, n)
    BY <2>1 DEF Consumed
  <2>5. Len(Consumed) = n /\ \A i \in 1..n : Consumed[i] = seen[i]
    BY <2>3, <2>4
  <2> QED BY <2>1, <2>3, <2>4, <2>5 DEF Words
<1>4. PICK w \in Words : w = Consumed
  BY <1>3
<1>5. Agrees(w)
  BY <1>2, <1>3, <1>4 DEF Agrees
<1>6. CASE errs = << >>
  <2>1. PICK F : AheadUpTo(F, Len(stack)) /\ Decided(F)
    BY <1>1, <1>6 DEF GrammarInv, Viable
  <2>2. F[Len(stack)] = << >>
    BY <1>1, <2>1 DEF AheadUpTo
  <2>3. PICK i \in Nat : i = Len(seen) /\ i = Len(w) + 1
    BY <1>2, <1>3, <1>4
  <2>4. CodeGrammar!Sentence(w) <=> Reads(w, i, << >>)
    BY <1>5, <2>1, <2>2, <2>3 DEF Decided
  <2>5. Reads(w, i, << >>)
    BY <2>3, ReadsEnd
  <2> QED BY <1>2, <1>4, <1>6, <2>4, <2>5
<1>7. CASE errs # << >>
  <2>1. tok.loc = Len(seen) => ~CodeGrammar!Sentence(w)
    BY <1>1, <1>5, <1>7 DEF GrammarInv, Refuted
  <2> QED BY <1>4, <1>7, <2>1
<1> QED BY <1>6, <1>7

(***************************************************************************)
(* The parse functions of src/parser.c decide the grammar that the comment *)
(* of include/parser.h gives: whatever tokens lex() delivers, parse ends   *)
(* without an error exactly when lex() reported none and the tokens that   *)
(* it consumed are a program, ":=" being the assignment sign.              *)
(***************************************************************************)
THEOREM ParserDecidesTheGrammar == GrammarSpec => []ParsesTheGrammar
<1>1. GrammarInv => ParsesTheGrammar
  BY ConsumedDecided
<1> QED BY <1>1, GrammarInvariance, PTL
=============================================================================
