---------------------------- MODULE SemanterInv ----------------------------
(***************************************************************************)
(* The inductive invariant behind the theorems about the code that the     *)
(* analyser emits: what is known, while it is under way, of the functions  *)
(* on the stack, of the operands they hold, and of the jumps they have not *)
(* yet patched.                                                            *)
(***************************************************************************)
EXTENDS SemanterProps

(* The functions that return an operand. *)
Valued == {"expression", "term", "factor", "condition"}

(* The statements that test a condition. *)
Tests == {"branch", "loop", "repeat"}

KindOf(a) == nodes[a.node].nt
KidsOf(a) == nodes[a.node].children

(* How many operands a call of analyse_nt is going to return. *)
Yields(nt) == IF nt \in Valued THEN 1 ELSE 0

(* A caller has already moved on: it will have its callee's operand. *)
Operands(d) ==
  Len(stack[d].opds)
    + IF d < Top THEN Yields(KindOf(stack[d + 1])) ELSE 0

-----------------------------------------------------------------------------
(***************************************************************************)
(* The step an activation is at, when it has n operands.                   *)
(***************************************************************************)
ChainFit(a, n) ==
  /\ a.step % 2 = 1 /\ a.step <= Len(KidsOf(a)) + 2
  /\ \/ a.step = 1 /\ n = 0
     \/ a.step >= 3 /\ n = 1
     \/ a.step >= 5 /\ n = 2

TestFit(a, n) ==
  /\ a.step \in 1..4
  /\ n = IF a.step = 1 THEN 0 ELSE 1
  /\ Len(a.ptrs) = IF a.step = 1 THEN 0 ELSE a.step - 2

Fit(a, n) ==
  /\ KindOf(a) = "source" => a.step \in 1..3
  /\ KindOf(a) = "variables" => a.step % 4 = 1
  /\ KindOf(a) \in {"statements", "input"} => a.step >= 1
  /\ KindOf(a) \in {"assign", "output"} => a.step \in 1..2 /\ n = a.step - 1
  /\ KindOf(a) \in {"branch", "loop"} => TestFit(a, n)
  /\ KindOf(a) = "repeat" =>
       a.step \in 1..3 /\ n = IF a.step = 3 THEN 1 ELSE 0
  /\ KindOf(a) \in {"expression", "term"} => ChainFit(a, n)
  /\ KindOf(a) = "factor" =>
       /\ a.step \in 1..2 /\ n = a.step - 1
       /\ a.step = 2 => KidsOf(a)[1].type \in {"PLUS", "MINUS", "LPAREN"}
  /\ KindOf(a) = "condition" => a.step \in 1..3 /\ n = a.step - 1

FramesFit ==
  \A d \in DOMAIN stack :
    stack[d].node \in DOMAIN nodes /\ Fit(stack[d], Operands(d))

RootAtBottom == stack # << >> => KindOf(stack[1]) = "source"

(* What a test waits for is its condition. *)
TestsWaitForConditions ==
  \A d \in DOMAIN stack :
    (d < Top /\ KindOf(stack[d]) \in Tests /\ KindOf(stack[d + 1]) \in Valued)
      => KindOf(stack[d + 1]) = "condition"

(* An assignment goes on only when its variable is declared. *)
AssignsDeclared ==
  \A d \in DOMAIN stack :
    KindOf(stack[d]) = "assign" /\ stack[d].step = 2
      => Usable(KidsOf(stack[d])[1])

-----------------------------------------------------------------------------
(* The activations that have yet to use the operands they hold. *)
Live(a) ==
  \/ KindOf(a) \in Valued \cup {"assign", "output"}
  \/ KindOf(a) \in {"branch", "loop"} /\ a.step = 2
  \/ KindOf(a) = "repeat" /\ a.step = 3

(* No operand is kept while a statement is analysed. *)
NoneKept ==
  \A d, e \in DOMAIN stack :
    d < e /\ KindOf(stack[e]) \notin Valued => ~Live(stack[d])

(* An operand that is yet to be used. *)
Held(o) ==
  \E d \in DOMAIN stack :
    Live(stack[d]) /\ \E i \in DOMAIN stack[d].opds : stack[d].opds[i] = o

TestsHoldTemporaries ==
  \A d \in DOMAIN stack : \A i \in DOMAIN stack[d].opds :
    KindOf(stack[d]) \in Tests => stack[d].opds[i].type = "TEMPORARY"

(* When no error was reported, an operand is set and its variable declared. *)
Sound(o) ==
  errs = << >> =>
    /\ o.type \in {"TEMPORARY", "LITERAL", "SYMBOL"}
    /\ o.type = "SYMBOL" => declared[o.val] # 0

HeldSound == \A o \in Operand : Held(o) => Sound(o)

SourcesSound == \A k \in DOMAIN instrs : \A o \in Sources(instrs[k]) : Sound(o)

-----------------------------------------------------------------------------
(* Where an instruction puts its result. *)
WellAimed(i) ==
  /\ Computes(i) => i.dest.type = "TEMPORARY" /\ i.dest.val < tmp_cnt
  /\ i.op \in {"ASSIGN", "READ"} =>
       i.dest.type = "SYMBOL" /\ declared[i.dest.val] # 0
  /\ i.op = "WRITE" => i.dest = Unset
  /\ i.op \in Jumps => i.dest.type = "LABEL"
  /\ i.op = "BRANCH" => i.src1.type = "TEMPORARY"

CodeWellAimed == \A k \in DOMAIN instrs : WellAimed(instrs[k])

(* A temporary is computed in one place. *)
ComputedOnce ==
  \A j, k \in DOMAIN instrs :
    Computes(instrs[j]) /\ Computes(instrs[k]) /\ instrs[j].dest = instrs[k].dest
      => j = k

(* The labels in the code, and those that are going to be. *)
Marks ==
  {instrs[k].dest.val : k \in {m \in DOMAIN instrs : instrs[m].op \in Jumps}}
  \cup {stack[d].start : d \in DOMAIN stack}

MarksInside == \A l \in Marks : l = NULL \/ l \in 0..Len(instrs)

(* The temporary o is computed at j, and can be used at k. *)
Reaches(o, j, k) ==
  /\ Computes(instrs[j]) /\ instrs[j].dest = o
  /\ \A m \in j..(k - 1) : instrs[m].op \notin Jumps
  /\ \A l \in Marks : l \notin j..(k - 1)

HeldReached ==
  \A o \in Operand : Held(o) /\ o.type = "TEMPORARY" =>
    \E j \in DOMAIN instrs : Reaches(o, j, Len(instrs) + 1)

SourcesReached ==
  \A k \in DOMAIN instrs : \A o \in Sources(instrs[k]) :
    o.type = "TEMPORARY" => \E j \in 1..(k - 1) : Reaches(o, j, k)

-----------------------------------------------------------------------------
(* Pointers lead to jumps. *)
PointersAtJumps ==
  \A d \in DOMAIN stack : \A i \in DOMAIN stack[d].ptrs :
    LET ptr == stack[d].ptrs[i]
    IN /\ ptr.block <= block
       /\ ptr.index \in DOMAIN instrs /\ instrs[ptr.index].op \in Jumps

(* The activation a is going to patch the jump k. *)
Awaits(a, k) ==
  /\ KindOf(a) \in {"branch", "loop"} /\ a.step \in 3..4
  /\ a.ptrs[a.step - 2].index = k

(* A jump without a label is going to be patched, if the list stays. *)
JumpsAwaited ==
  \A k \in DOMAIN instrs :
    instrs[k].op \in Jumps =>
      \/ instrs[k].dest.val \in 0..Len(instrs)
      \/ block # 0
      \/ \E d \in DOMAIN stack : Awaits(stack[d], k)

-----------------------------------------------------------------------------
(* Where control goes.  What awaits a label has none, *)
AwaitedUnset ==
  \A d \in DOMAIN stack : \A k \in DOMAIN instrs :
    Awaits(stack[d], k) => instrs[k].dest = Label(NULL)

(* and is awaited by one activation only. *)
AwaitedApart ==
  \A d, e \in DOMAIN stack : \A k \in DOMAIN instrs :
    Awaits(stack[d], k) /\ Awaits(stack[e], k) => d = e

(* A loop jumps over its goto as soon as it has tested. *)
TestedOnTop ==
  \A d \in DOMAIN stack :
    KindOf(stack[d]) = "loop" /\ stack[d].step = 3 => d = Top

(* Control passes the instructions from j to k one after the other. *)
Falls(j, k) == \A m \in j..k : instrs[m].op # "GOTO"

(* As it does from the start of a loop to the goto behind the test. *)
LoopsFall ==
  \A d \in DOMAIN stack :
    KindOf(stack[d]) = "loop" =>
      /\ stack[d].step \in 2..3 => Falls(stack[d].start + 1, Len(instrs))
      /\ stack[d].step = 4 =>
           LET g == stack[d].ptrs[2].index
           IN /\ stack[d].start < g /\ instrs[g].op = "GOTO"
              /\ Falls(stack[d].start + 1, g - 1)

(* Something jumps behind every goto, *)
GotosPassed ==
  \A l \in DOMAIN instrs : instrs[l].op = "GOTO" =>
    \E k \in 1..(l - 1) : instrs[k].op \in Jumps /\ instrs[k].dest = Label(l)

(* and what it jumps back over has a way out behind it. *)
LeavesBehind(k) ==
  \E g \in (instrs[k].dest.val + 1)..(k - 1) :
    /\ instrs[g].op = "GOTO" /\ instrs[g].dest = Label(k)
    /\ Falls(instrs[k].dest.val + 1, g - 1)

LoopsLeft ==
  \A k \in DOMAIN instrs : instrs[k].op = "GOTO" =>
    \/ instrs[k].dest = Label(NULL)
    \/ instrs[k].dest.val >= k
    \/ LeavesBehind(k)

-----------------------------------------------------------------------------
(***************************************************************************)
(* The walk over the tree.  The call for child i of a node has been made   *)
(* once the activation is at step After(nt, i).                            *)
(***************************************************************************)
After(nt, i) ==
  CASE nt \in {"statements", "expression", "term"} -> i + 1
    [] <<nt, i>> \in {<<"source", 4>>, <<"branch", 8>>, <<"repeat", 5>>,
                     <<"condition", 3>>} -> 3
    [] <<nt, i>> \in {<<"branch", 6>>, <<"loop", 6>>} -> 4
    [] OTHER -> 2

Begun(a, i) == a.step >= After(KindOf(a), i)

(* A node is called by its parent, and the variables before all others. *)
Chained ==
  /\ stack # << >> => stack[1].node = 1
  /\ \A d \in DOMAIN stack : KindOf(stack[d]) = "variables" => stack[1].step = 2
  /\ \A d, e \in DOMAIN stack : d < e => stack[d].node < stack[e].node
  /\ \A d \in DOMAIN stack : d < Top =>
       \E p \in Subtrees(nodes) :
         /\ p[1] = stack[d].node /\ Begun(stack[d], p[2])
         /\ Loc(p) = stack[d + 1].node

(* The calls for the nodes of done have returned, and no others. *)
Visited(done) ==
  /\ done \subseteq DOMAIN nodes
  /\ stack = << >> => 1 \in done
  /\ \A d \in DOMAIN stack :
       /\ stack[d].node \notin done
       /\ \A p \in Subtrees(nodes) :
            p[1] = stack[d].node /\ Begun(stack[d], p[2]) =>
              Loc(p) \in done \/ (d < Top /\ Loc(p) = stack[d + 1].node)
  /\ \A p \in Subtrees(nodes) :
       /\ errs = << >> /\ p[1] \in done => Loc(p) \in done
       /\ Loc(p) \in done =>
            \/ p[1] \in done
            \/ \E d \in DOMAIN stack :
                 stack[d].node = p[1] /\ Begun(stack[d], p[2])

(* The declarations come first, one after the other. *)
Passed(q) ==
  \/ stack = << >> \/ stack[1].step >= 3
  \/ stack[1].step = 2 /\ (Top = 1 \/ q[2] < stack[2].step)

(* A variable is declared where it is declared first. *)
FirstsDeclared ==
  /\ \A q \in Declarations : Passed(q) =>
       /\ declared[Name(q)] \in 1..Loc(q)
       /\ errs = << >> => declared[Name(q)] = Loc(q)
  /\ \A x \in Names : declared[x] # 0 =>
       \E q \in Declarations : /\ Passed(q) /\ Name(q) = x
                               /\ Loc(q) = declared[x]

(* What is wrong with the names that have been looked at is in errs. *)
Accounted(done) ==
  /\ errs = << >> =>
       \A p \in Uses : p[1] \in done => declared[Name(p)] # 0
  /\ \A i \in DOMAIN errs :
       /\ Justified(errs[i])
       /\ \E p \in Identifiers :
            /\ Loc(p) = errs[i].loc
            /\ IF p \in Uses THEN p[1] \in done ELSE Passed(p)
  /\ \A i, j \in DOMAIN errs : errs[i].loc = errs[j].loc => i = j

-----------------------------------------------------------------------------
(* About the functions, *)
FrameInv ==
  /\ TypeOK /\ nodes \in Trees
  /\ FramesFit /\ RootAtBottom /\ AssignsDeclared
  /\ TestsWaitForConditions /\ NoneKept

(* the code and its operands, *)
CodeInv ==
  /\ FrameInv
  /\ TestsHoldTemporaries /\ HeldSound /\ SourcesSound
  /\ CodeWellAimed /\ ComputedOnce
  /\ MarksInside /\ HeldReached /\ SourcesReached

(* the labels, *)
LabelInv == CodeInv /\ PointersAtJumps /\ JumpsAwaited

(* where they lead, *)
FlowInv ==
  /\ AwaitedUnset /\ AwaitedApart /\ TestedOnTop /\ LoopsFall
  /\ block = 0 => GotosPassed /\ LoopsLeft

(* and the names. *)
NamesInv ==
  Chained /\ FirstsDeclared /\ \E done : Visited(done) /\ Accounted(done)
=============================================================================
