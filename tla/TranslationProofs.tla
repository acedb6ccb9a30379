------------------------- MODULE TranslationProofs -------------------------
(***************************************************************************)
(* What the code of the analyser is.  It hangs together: every step is a   *)
(* FlowStep, and FlowInv is inductive.  And when no error was reported and *)
(* the instruction list stayed in place, it is the translation of the tree *)
(* (module Translation): TranslationInv is inductive.                      *)
(***************************************************************************)
EXTENDS Translation, SemanterProofs

(***************************************************************************)
(* Where control goes.  Only if, while and repeat jump, and only the first *)
(* two come back to a jump that they have added.  FlowInv is inductive.    *)
(***************************************************************************)

(* The functions that wait for the end of what they jump over. *)
Waiting == {"branch", "loop"}

(* The others add no goto, and patch nothing. *)
Quiet ==
  \/ instrs' = instrs
  \/ /\ Len(instrs') = Len(instrs) + 1 /\ instrs'[Len(instrs) + 1].op # "GOTO"
     /\ \A k \in 1..Len(instrs) : instrs'[k] = instrs[k]

(* Adding any other instruction is quiet, *)
LEMMA QuietAdd ==
  ASSUME FrameInv, NEW i, Add(i), i.op # "GOTO"
  PROVE  Quiet
<1>1. instrs \in Seq(Instruction) /\ instrs' = Append(instrs, i)
  BY DEF FrameInv, TypeOK, Add
<1>2. /\ Len(instrs') = Len(instrs) + 1 /\ instrs'[Len(instrs) + 1] = i
      /\ \A k \in 1..Len(instrs) : instrs'[k] = instrs[k]
  BY <1>1
<1> QED
  BY <1>2 DEF Quiet

(* and the functions that do not wait add no other. *)
LEMMA QuietOthers ==
  ASSUME FrameInv, stack # << >> => KindOf(Self) \notin Waiting, [Next]_vars
  PROVE  Quiet
<1>1. \A nt \in Waiting : ~In(nt)
  BY DEF In, KindOf
<1>2. ~AnalyseBranch /\ ~AnalyseLoop
  BY <1>1 DEF AnalyseBranch, AnalyseLoop, At, Waiting
<1>3. memory' = memory => Quiet
  BY DEF memory, Quiet
<1>4. CASE AnalyseSource \/ AnalyseStatements
  BY <1>3, <1>4 DEF AnalyseSource, AnalyseStatements, OnlyCalls
<1>5. CASE AnalyseVariables
  BY <1>3, <1>5 DEF AnalyseVariables
<1>6. CASE AnalyseAssign
  <2>1. CASE memory' = memory
    BY <1>3, <2>1
  <2>2. CASE Add(Instr("ASSIGN", Self.opds[1], Unset, Symbol(Kids[1].attr)))
    BY <2>2, QuietAdd DEF Instr
  <2> QED
    BY <1>6, <2>1, <2>2 DEF AnalyseAssign
<1>7. CASE AnalyseInput
  <2>1. CASE memory' = memory
    BY <1>3, <2>1
  <2>2. CASE Add(Instr("READ", Unset, Unset, Symbol(Kids[2].attr)))
    BY <2>2, QuietAdd DEF Instr
  <2> QED
    BY <1>7, <2>1, <2>2 DEF AnalyseInput
<1>8. CASE AnalyseOutput
  <2>1. CASE memory' = memory
    BY <1>3, <2>1
  <2>2. CASE Add(Instr("WRITE", Self.opds[1], Unset, Unset))
    BY <2>2, QuietAdd DEF Instr
  <2> QED
    BY <1>8, <2>1, <2>2 DEF AnalyseOutput, OnlyCalls
<1>9. CASE AnalyseRepeat
  <2>1. CASE memory' = memory
    BY <1>3, <2>1
  <2>2. CASE Add(Branch(Self.start))
    BY <2>2, QuietAdd DEF Branch, Instr
  <2> QED
    BY <1>9, <2>1, <2>2 DEF AnalyseRepeat, OnlyCalls
<1>10. ASSUME NEW nt \in {"expression", "term"}, AnalyseChain(nt) PROVE Quiet
  <2>1. CASE memory' = memory
    BY <1>3, <2>1
  <2>2. CASE /\ Len(Self.opds) = 2
             /\ AddTemporary(OpOf[Kids[Self.step - 3].type],
                             Self.opds[1], Self.opds[2])
    <3>1. PICK op : op = OpOf[Kids[Self.step - 3].type]
      OBVIOUS
    <3>2. op # "GOTO"
      <4>1. stack # << >> /\ KindOf(Self) = nt
        BY <1>10 DEF AnalyseChain, In, KindOf
      <4>2. /\ ChainFit(Self, Len(Self.opds)) /\ Kids = KidsOf(Self)
            /\ Self.step \in Nat /\ Len(Kids) \in Nat
            /\ \A i \in 1..Len(Kids) : i % 2 # 1 =>
                 Kids[i].type \in {"PLUS", "MINUS", "MUL", "DIV"}
        BY <1>10, <4>1, ChainFacts
      <4>3. Self.step - 3 \in 1..Len(Kids) /\ (Self.step - 3) % 2 # 1
        BY <2>2, <4>2 DEF ChainFit
      <4>4. Kids[Self.step - 3].type \in {"PLUS", "MINUS", "MUL", "DIV"}
        BY <4>2, <4>3
      <4> QED
        BY <3>1, <4>4 DEF OpOf
    <3>3. Add(Instr(op, Self.opds[1], Self.opds[2], Temporary(tmp_cnt)))
      BY <2>2, <3>1 DEF AddTemporary
    <3> QED
      BY <3>2, <3>3, QuietAdd DEF Instr
  <2> QED
    BY <1>10, <2>1, <2>2 DEF AnalyseChain, OnlyCalls
<1>11. CASE AnalyseFactor
  <2>1. CASE memory' = memory
    BY <1>3, <2>1
  <2>2. CASE /\ Kids[1].type \in {"PLUS", "MINUS"}
             /\ AddTemporary(SignOf[Kids[1].type], Self.opds[1], Unset)
    <3>1. PICK op : op = SignOf[Kids[1].type]
      OBVIOUS
    <3>2. op # "GOTO"
      BY <2>2, <3>1 DEF SignOf
    <3>3. Add(Instr(op, Self.opds[1], Unset, Temporary(tmp_cnt)))
      BY <2>2, <3>1 DEF AddTemporary
    <3> QED
      BY <3>2, <3>3, QuietAdd DEF Instr
  <2> QED
    BY <1>11, <2>1, <2>2 DEF AnalyseFactor
<1>12. CASE AnalyseCondition
  <2>1. CASE memory' = memory
    BY <1>3, <2>1
  <2>2. CASE AddTemporary(Kids[2].type, Self.opds[1], Self.opds[2])
    <3>1. Kids[2].type # "GOTO"
      <4>1. stack # << >> /\ KindOf(Self) = "condition"
        BY <1>12 DEF AnalyseCondition, At, In, KindOf
      <4>2. Self.node \in DOMAIN nodes /\ nodes \in Trees
        BY <4>1, SelfFacts DEF FrameInv
      <4>3. Has(Kinds(nodes[Self.node]), 2, RelOps)
        BY <4>1, <4>2, TreeFacts DEF Readable, KindOf
      <4>4. Kids[2].type \in RelOps
        BY <4>1, <4>3, Kid
      <4> QED
        BY <4>4 DEF RelOps
    <3>2. Add(Instr(Kids[2].type, Self.opds[1], Self.opds[2],
                    Temporary(tmp_cnt)))
      BY <2>2 DEF AddTemporary
    <3> QED
      BY <3>1, <3>2, QuietAdd DEF Instr
  <2> QED
    BY <1>12, <2>1, <2>2 DEF AnalyseCondition, OnlyCalls
<1>13. CASE UNCHANGED vars
  BY <1>13 DEF vars, Quiet
<1> QED
  BY <1>2, <1>4, <1>5, <1>6, <1>7, <1>8, <1>9, <1>10, <1>11, <1>12, <1>13
     DEF Next, Done, AnalyseExpression, AnalyseTerm

(* What an if or a while does to the code: only what it awaits is patched, *)
PatchesOwn ==
  \A k \in 1..Len(instrs) :
    /\ instrs'[k].op = instrs[k].op
    /\ \/ instrs'[k].dest = instrs[k].dest
       \/ Awaits(Self, k) /\ instrs'[k].dest = Label(Len(instrs'))
    /\ Awaits(Self, k) /\ block' = 0 => instrs'[k].dest = Label(Len(instrs'))

(* and what it adds is the test, with the goto behind it, *)
Starts(self) ==
  /\ Self.step = 1 /\ instrs' = instrs
  /\ KindOf(Self) = "loop" => self.start = Len(instrs)

AddsTest(self) ==
  /\ Self.step = 2 /\ self.start = Self.start
  /\ self.ptrs = Append(Self.ptrs, LastAdded)
  /\ Len(instrs') = Len(instrs) + 1
  /\ Added.op = "BRANCH" /\ Added.dest = Label(NULL)
  /\ \A k \in 1..Len(instrs) : instrs'[k] = instrs[k]
  /\ KindOf(Self) = "loop" => Len(stack') = Top

AddsGoto(self) ==
  /\ Self.step = 3 /\ self.start = Self.start
  /\ self.ptrs = Append(Self.ptrs, LastAdded)
  /\ Len(instrs') = Len(instrs) + 1
  /\ Added.op = "GOTO" /\ Added.dest = Label(NULL)
  /\ PatchesOwn

Advances(self) ==
  /\ self \in Activation
  /\ self.node = Self.node /\ self.step = Self.step + 1
  /\ Starts(self) \/ AddsTest(self) \/ AddsGoto(self)
  /\ stack' = Stepping(self) \/ \E c \in Child : stack' = Calling(self, c)

(* or the way back. *)
Ends ==
  /\ Self.step = 4 /\ stack' = Returned
  /\ PatchesOwn
  /\ \/ Len(instrs') = Len(instrs)
     \/ /\ KindOf(Self) = "loop" /\ Len(instrs') = Len(instrs) + 1
        /\ Added.op = "GOTO" /\ Added.dest = Label(Self.start)

(* What patching at a pointer does to the code that was there. *)
PatchesAt(ptr) ==
  \A k \in 1..Len(instrs) :
    /\ instrs'[k].op = instrs[k].op
    /\ instrs'[k].dest =
         IF ptr.block = block' /\ k = ptr.index
         THEN Label(Len(instrs')) ELSE instrs[k].dest

(* The jump at the last pointer is the one that is awaited. *)
LEMMA PatchesLast ==
  ASSUME FrameInv, PointersAtJumps, stack # << >>, KindOf(Self) \in Waiting,
         Self.step \in 3..4, block' = 0 => block = 0,
         NEW i, i = Self.step - 2, PatchesAt(Self.ptrs[i])
  PROVE  PatchesOwn
<1>1. Len(Self.ptrs) = Self.step - 2
  BY TestFacts DEF Waiting
<1>2. i \in 1..Len(Self.ptrs)
  BY <1>1
<1>3. PICK ptr : ptr = Self.ptrs[i]
  OBVIOUS
<1>4. ptr \in Pointer /\ ptr.block <= block
  <2>1. Self.ptrs[i] \in Pointer
    BY <1>2, PointerHere
  <2>2. i \in DOMAIN Self.ptrs /\ Top \in DOMAIN stack /\ stack[Top] = Self
    BY <1>2, SelfFacts
  <2> QED
    BY <1>3, <2>1, <2>2 DEF PointersAtJumps
<1>5. block' = 0 => ptr.block = block'
  BY <1>4 DEF Pointer
<1>6. \A k : Awaits(Self, k) <=> k = ptr.index
  BY <1>3 DEF Awaits, Waiting
<1> QED
  BY <1>3, <1>5, <1>6 DEF PatchesAt, PatchesOwn

(* The array does not come back to where it was. *)
LEMMA EnlargedBlock ==
  ASSUME FrameInv, Enlarge, block' = 0
  PROVE  block = 0
BY DEF Enlarge, FrameInv, TypeOK

(* The test, of both kinds. *)
LEMMA TestAdvances ==
  ASSUME FrameInv, stack # << >>, KindOf(Self) \in Waiting, Self.step = 2,
         Add(Branch(NULL)), tmp_cnt' = tmp_cnt,
         \/ stack' = Stepping(Pointing(Onward))
         \/ /\ KindOf(Self) # "loop"
            /\ \E c \in Child : stack' = Calling(Pointing(Onward), c)
  PROVE  Advances(Pointing(Onward))
<1>1. /\ Live(Self) /\ Len(Self.opds) = 1
  BY TestFacts DEF Waiting
<1>2. /\ Pointing(Onward) \in Activation
      /\ Pointing(Onward).node = Self.node
      /\ Pointing(Onward).start = Self.start
      /\ Pointing(Onward).step = Self.step + 1
      /\ Pointing(Onward).ptrs = Append(Self.ptrs, LastAdded)
  BY PointingFacts DEF Add
<1>3. Self.opds[1] \in Operand
  BY <1>1, HeldHere
<1>4. Branch(NULL) \in Instruction /\ Branch(NULL).op = "BRANCH"
      /\ Branch(NULL).dest = Label(NULL)
  BY <1>3, BranchIn DEF Branch, Instr
<1>5. /\ Len(instrs') = Len(instrs) + 1 /\ Added = Branch(NULL)
      /\ \A k \in 1..Len(instrs) : instrs'[k] = instrs[k]
  BY <1>4, AddedCode DEF FrameInv, TypeOK
<1>6. KindOf(Self) = "loop" => Len(stack') = Top
  <2>1. stack' = Stepping(Pointing(Onward)) => Len(stack') = Top
    BY SelfFacts, <1>2, StayShape
  <2> QED
    BY <2>1
<1> QED
  BY <1>2, <1>4, <1>5, <1>6 DEF Advances, AddsTest

(* The goto behind it, of both kinds. *)
LEMMA GotoAdvances ==
  ASSUME FrameInv, PointersAtJumps, stack # << >>, KindOf(Self) \in Waiting,
         Self.step = 3, Enlarge, tmp_cnt' = tmp_cnt,
         instrs' = Patched(Append(instrs, Goto(NULL)), Self.ptrs[1],
                           Len(instrs) + 1),
         \E c \in Child : stack' = Calling(Pointing(Onward), c)
  PROVE  Advances(Pointing(Onward))
<1>1. Len(Self.ptrs) = 1
  BY TestFacts DEF Waiting
<1>2. /\ Pointing(Onward) \in Activation
      /\ Pointing(Onward).node = Self.node
      /\ Pointing(Onward).start = Self.start
      /\ Pointing(Onward).step = Self.step + 1
      /\ Pointing(Onward).ptrs = Append(Self.ptrs, LastAdded)
  BY PointingFacts
<1>3. Goto(NULL) \in Instruction
  BY GotoIn
<1>4. 1 \in 1..Len(Self.ptrs) /\ Self.step - 2 = 1
  BY <1>1
<1>5. /\ Len(instrs') = Len(instrs) + 1
      /\ Added.op = "GOTO" /\ Added.dest = Label(NULL)
      /\ \A k \in 1..Len(instrs) :
           /\ instrs'[k].op = instrs[k].op
           /\ instrs'[k].dest =
                IF Self.ptrs[1].block = block' /\ k = Self.ptrs[1].index
                THEN Label(Len(instrs) + 1) ELSE instrs[k].dest
  BY <1>3, <1>4, GotoAdded
<1>6. PatchesAt(Self.ptrs[1])
  BY <1>5 DEF PatchesAt
<1>7. block' = 0 => block = 0
  BY EnlargedBlock
<1>8. PatchesOwn
  BY <1>4, <1>6, <1>7, PatchesLast
<1> QED
  BY <1>2, <1>5, <1>8 DEF Advances, AddsGoto

(* One of the two, step by step. *)
LEMMA WaitingMoves ==
  ASSUME FrameInv, PointersAtJumps, stack # << >>, KindOf(Self) \in Waiting,
         Next
  PROVE  Ends \/ \E self \in Activation : Advances(self)
<1>1. /\ Self.node \in DOMAIN nodes /\ nodes \in Trees
      /\ Self.step \in 1..4 /\ Kids[3] \in Child /\ Kids[6] \in Child
      /\ Len(Self.ptrs) = IF Self.step = 1 THEN 0 ELSE Self.step - 2
  BY TestFacts DEF Waiting
<1>2. KindOf(Self) = "branch" => Kids[8] \in Child
  <2> SUFFICES ASSUME KindOf(Self) = "branch" PROVE Kids[8] \in Child
    OBVIOUS
  <2>1. Has(Kinds(nodes[Self.node]), 8, {"statements"})
    BY <1>1, TreeFacts DEF Readable, KindOf
  <2> QED
    BY <2>1, Kid
<1>3. AnalyseBranch \/ AnalyseLoop
  BY DEF Next, Done, Analysed, AnalyseSource, AnalyseVariables, AnalyseStatements,
     AnalyseAssign, AnalyseInput, AnalyseOutput, AnalyseRepeat,
     AnalyseExpression, AnalyseTerm, AnalyseChain, AnalyseFactor,
     AnalyseCondition, At, In, KindOf, Waiting
<1>4. AnalyseBranch => KindOf(Self) = "branch"
  BY DEF AnalyseBranch, At, In, KindOf
<1>5. AnalyseLoop => KindOf(Self) = "loop"
  BY DEF AnalyseLoop, At, In, KindOf
<1>6. /\ Onward \in Activation /\ Onward.node = Self.node
      /\ Onward.step = Self.step + 1
  BY OnwardFacts
<1>7. ASSUME Self.step = 1, OnlyCalls, AnalyseBranch,
             stack' = Calling(Onward, Kids[3])
      PROVE  \E self \in Activation : Advances(self)
  <2>1. instrs' = instrs /\ KindOf(Self) # "loop"
    BY <1>4, <1>7 DEF OnlyCalls, memory
  <2>2. Advances(Onward)
    BY <1>1, <1>6, <1>7, <2>1 DEF Advances, Starts
  <2> QED
    BY <1>6, <2>2
<1>8. ASSUME Self.step = 1, OnlyCalls,
             stack' = Calling([Onward EXCEPT !.start = Len(instrs)], Kids[3])
      PROVE  \E self \in Activation : Advances(self)
  <2>1. PICK self \in Activation :
          /\ self = [Onward EXCEPT !.start = Len(instrs)]
          /\ self.node = Self.node /\ self.start = Len(instrs)
          /\ self.step = Self.step + 1
    BY StartingFacts
  <2>2. instrs' = instrs /\ stack' = Calling(self, Kids[3])
    BY <1>8, <2>1 DEF OnlyCalls, memory
  <2>3. Advances(self)
    BY <1>1, <1>8, <2>1, <2>2 DEF Advances, Starts
  <2> QED
    BY <2>3
<1>9. ASSUME Enlarge, Advances(Pointing(Onward))
      PROVE  \E self \in Activation : Advances(self)
  BY <1>9, PointingFacts
<1>10. ASSUME Self.step = 4, AnalyseBranch, stack' = Returned,
              UNCHANGED <<capacity, block, tmp_cnt>>,
              instrs' = Patched(instrs, Self.ptrs[2], Len(instrs))
       PROVE  Ends
  <2>1. /\ Self.ptrs[2] \in Pointer /\ Self.ptrs[2].index \in 1..Len(instrs)
    BY <1>1, <1>10, PointerHere
  <2>2. instrs \in Seq(Instruction) /\ Len(instrs) \in Nat
    BY LenProperties DEF FrameInv, TypeOK
  <2>3. PICK ptr \in Pointer : ptr = Self.ptrs[2]
    BY <2>1
  <2>4. /\ Len(instrs') = Len(instrs)
        /\ \A k \in 1..Len(instrs) :
             /\ instrs'[k].op = instrs[k].op
             /\ instrs'[k].dest =
                  IF ptr.block = block' /\ k = ptr.index
                  THEN Label(Len(instrs)) ELSE instrs[k].dest
    <3>1. PICK list : list = Patched(instrs, ptr, Len(instrs))
      OBVIOUS
    <3>2. /\ Len(list) = Len(instrs)
          /\ \A k \in 1..Len(instrs) :
               /\ list[k].op = instrs[k].op
               /\ list[k].dest =
                    IF ptr.block = block' /\ k = ptr.index
                    THEN Label(Len(instrs)) ELSE instrs[k].dest
      <4>1. ptr.index \in 1..Len(instrs)
        BY <2>1, <2>3
      <4> QED
        BY <2>2, <3>1, <4>1, PatchedFacts
    <3>3. instrs' = list
      BY <1>10, <2>3, <3>1
    <3> QED
      BY <3>2, <3>3
  <2>5. PatchesOwn
    <3>1. 2 = Self.step - 2 /\ Self.step \in 3..4
      BY <1>10
    <3>2. PatchesAt(Self.ptrs[2])
      BY <2>3, <2>4 DEF PatchesAt
    <3>3. block' = block
      BY <1>10
    <3> QED
      BY <3>1, <3>2, <3>3, PatchesLast
  <2> QED
    BY <1>10, <2>4, <2>5 DEF Ends
<1>11. ASSUME Self.step = 4, AnalyseLoop, stack' = Returned,
              Enlarge, tmp_cnt' = tmp_cnt,
              instrs' = Patched(Append(instrs, Goto(Self.start)), Self.ptrs[2],
                                Len(instrs) + 1)
       PROVE  Ends
  <2>1. 2 \in 1..Len(Self.ptrs) /\ Goto(Self.start) \in Instruction
    BY <1>1, <1>11, StartHere, GotoIn
  <2>2. /\ Len(instrs') = Len(instrs) + 1
        /\ Added.op = "GOTO" /\ Added.dest = Label(Self.start)
        /\ \A k \in 1..Len(instrs) :
             /\ instrs'[k].op = instrs[k].op
             /\ instrs'[k].dest =
                  IF Self.ptrs[2].block = block' /\ k = Self.ptrs[2].index
                  THEN Label(Len(instrs) + 1) ELSE instrs[k].dest
    BY <1>11, <2>1, GotoAdded
  <2>3. PatchesOwn
    <3>1. 2 = Self.step - 2 /\ Self.step \in 3..4
      BY <1>11
    <3>2. PatchesAt(Self.ptrs[2])
      BY <2>2 DEF PatchesAt
    <3>3. block' = 0 => block = 0
      BY <1>11, EnlargedBlock
    <3> QED
      BY <3>1, <3>2, <3>3, PatchesLast
  <2> QED
    BY <1>5, <1>11, <2>2, <2>3 DEF Ends
<1>12. CASE AnalyseBranch
  <2>1. CASE At("branch", 1)
    BY <1>7, <1>12, <2>1 DEF AnalyseBranch, At
  <2>2. CASE At("branch", 2)
    <3>1. /\ Self.step = 2 /\ Add(Branch(NULL)) /\ tmp_cnt' = tmp_cnt
          /\ stack' = Calling(Pointing(Onward), Kids[8])
          /\ KindOf(Self) = "branch"
      BY <1>4, <1>12, <2>2 DEF AnalyseBranch, At
    <3>2. Advances(Pointing(Onward))
      BY <1>2, <3>1, TestAdvances
    <3> QED
      BY <1>9, <3>1, <3>2 DEF Add
  <2>3. CASE At("branch", 3)
    <3>1. /\ Self.step = 3 /\ Enlarge /\ tmp_cnt' = tmp_cnt
          /\ instrs' = Patched(Append(instrs, Goto(NULL)), Self.ptrs[1],
                               Len(instrs) + 1)
          /\ stack' = Calling(Pointing(Onward), Kids[6])
      BY <1>12, <2>3 DEF AnalyseBranch, At
    <3>2. Advances(Pointing(Onward))
      BY <1>1, <3>1, GotoAdvances
    <3> QED
      BY <1>9, <3>1, <3>2
  <2>4. CASE At("branch", 4)
    BY <1>10, <1>12, <2>4 DEF AnalyseBranch, At
  <2> QED
    BY <1>12, <2>1, <2>2, <2>3, <2>4 DEF AnalyseBranch
<1>13. CASE AnalyseLoop
  <2>1. CASE At("loop", 1)
    BY <1>8, <1>13, <2>1 DEF AnalyseLoop, At
  <2>2. CASE At("loop", 2)
    <3>1. /\ Self.step = 2 /\ Add(Branch(NULL)) /\ tmp_cnt' = tmp_cnt
          /\ stack' = Stepping(Pointing(Onward))
      BY <1>13, <2>2 DEF AnalyseLoop, At
    <3>2. Advances(Pointing(Onward))
      BY <3>1, TestAdvances
    <3> QED
      BY <1>9, <3>1, <3>2 DEF Add
  <2>3. CASE At("loop", 3)
    <3>1. /\ Self.step = 3 /\ Enlarge /\ tmp_cnt' = tmp_cnt
          /\ instrs' = Patched(Append(instrs, Goto(NULL)), Self.ptrs[1],
                               Len(instrs) + 1)
          /\ stack' = Calling(Pointing(Onward), Kids[6])
      BY <1>13, <2>3 DEF AnalyseLoop, At
    <3>2. Advances(Pointing(Onward))
      BY <1>1, <3>1, GotoAdvances
    <3> QED
      BY <1>9, <3>1, <3>2
  <2>4. CASE At("loop", 4)
    BY <1>11, <1>13, <2>4 DEF AnalyseLoop, At
  <2> QED
    BY <1>13, <2>1, <2>2, <2>3, <2>4 DEF AnalyseLoop
<1> QED
  BY <1>3, <1>12, <1>13

(* An activation that a step leaves alone. *)
Below(d) ==
  /\ d \in DOMAIN stack /\ d < Top
  /\ stack'[d].node = stack[d].node /\ stack'[d].step = stack[d].step
  /\ stack'[d].ptrs = stack[d].ptrs /\ stack'[d].start = stack[d].start

(* The other activations are the one that runs and the one it calls. *)
LEMMA FramesBelow ==
  ASSUME FrameInv, StackStep, stack # << >>, NEW d \in DOMAIN stack'
  PROVE  \/ Below(d)
         \/ stack'[d].step = 1
         \/ d = Top /\ stack'[d].node = Self.node /\ Len(stack') >= Top
<1>1. /\ Top \in Nat /\ Top >= 1 /\ DOMAIN stack = 1..Top /\ stack[Top] = Self
      /\ stack \in Seq(Activation)
  BY SelfFacts
<1>2. ASSUME NEW self \in Activation, NEW c \in Child, Enters(self, c)
      PROVE  \/ Below(d) \/ stack'[d].step = 1
             \/ d = Top /\ stack'[d].node = Self.node /\ Len(stack') >= Top
  <2>1. /\ DOMAIN stack' = 1..(Top + 1) /\ Top' = Top + 1
        /\ \A e \in 1..(Top - 1) : stack'[e] = stack[e]
        /\ stack'[Top] = self /\ stack'[Top + 1] = Begin(c.at)
        /\ self.node = Self.node
    BY <1>2, EnterShape DEF Enters
  <2>2. stack'[Top + 1].step = 1
    BY <2>1 DEF Begin
  <2>3. d \in 1..(Top - 1) \/ d = Top \/ d = Top + 1
    BY <1>1, <2>1
  <2>4. Len(stack') >= Top
    BY <1>1, <2>1 DEF Top
  <2> QED
    BY <1>1, <2>1, <2>2, <2>3, <2>4 DEF Below
<1>3. ASSUME NEW self \in Activation, Stays(self)
      PROVE  \/ Below(d)
             \/ d = Top /\ stack'[d].node = Self.node /\ Len(stack') >= Top
  <2>1. /\ DOMAIN stack' = 1..Top /\ Top' = Top
        /\ \A e \in 1..(Top - 1) : stack'[e] = stack[e]
        /\ stack'[Top] = self /\ self.node = Self.node
    BY <1>3, StayShape DEF Stays
  <2>2. Len(stack') >= Top
    BY <1>1, <2>1 DEF Top
  <2> QED
    BY <1>1, <2>1, <2>2 DEF Below
<1>4. ASSUME Leaves PROVE Below(d)
  <2>1. /\ DOMAIN stack' = 1..(Top - 1)
        /\ \A e \in 1..(Top - 1) : stack'[e] = stack[e]
    BY <1>4, LeaveShape DEF Leaves
  <2> QED
    BY <1>1, <2>1 DEF Below
<1>5. ASSUME NEW o \in Operand, LeavesWith(o) PROVE Below(d)
  <2>1. /\ DOMAIN stack' = 1..(Top - 1)
        /\ \A e \in 1..(Top - 2) : stack'[e] = stack[e]
        /\ stack'[Top - 1].node = stack[Top - 1].node
        /\ stack'[Top - 1].step = stack[Top - 1].step
        /\ stack'[Top - 1].ptrs = stack[Top - 1].ptrs
        /\ stack'[Top - 1].start = stack[Top - 1].start
    BY <1>5, LeaveWithShape DEF LeavesWith
  <2>2. d \in 1..(Top - 2) \/ d = Top - 1
    BY <1>1, <2>1
  <2> QED
    BY <1>1, <2>1, <2>2 DEF Below
<1>6. CASE UNCHANGED stack
  <2>1. d < Top \/ d = Top
    BY <1>1, <1>6
  <2> QED
    BY <1>1, <1>6, <2>1 DEF Below, Top
<1> QED
  BY <1>2, <1>3, <1>4, <1>5, <1>6 DEF StackStep

(* What becomes of the functions that wait: nothing, unless one of them     *)
(* runs.                                                                    *)
LEMMA WaitingFrames ==
  ASSUME FrameInv, TestsHoldTemporaries, PointersAtJumps, stack # << >>, Next,
         NEW d \in DOMAIN stack', KindOf(stack'[d]) \in Waiting
  PROVE  \/ Below(d)
         \/ stack'[d].step = 1
         \/ d = Top /\ KindOf(Self) \in Waiting /\ Advances(stack'[d])
<1>1. StackStep
  BY NextStep DEF AnalyserStep
<1>2. CASE KindOf(Self) \notin Waiting
  <2>1. d = Top /\ stack'[d].node = Self.node => FALSE
    BY <1>2 DEF KindOf
  <2> QED
    BY <1>1, <2>1, FramesBelow
<1>3. CASE KindOf(Self) \in Waiting
  <2>2. CASE Ends
    <3>1. DOMAIN stack' = 1..(Top - 1) /\ Top \in Nat
      BY <2>2, LeaveShape, SelfFacts DEF Ends
    <3>2. d # Top
      BY <3>1
    <3>3. Len(stack') = Top - 1
      BY <2>2, LeaveShape DEF Ends
    <3> QED
      BY <1>1, <3>1, <3>2, FramesBelow
  <2>3. ASSUME NEW self \in Activation, Advances(self)
        PROVE  Below(d) \/ stack'[d].step = 1 \/ (d = Top /\ Advances(stack'[d]))
    <3>1. stack'[Top] = self
      <4>1. stack' = Stepping(self) => stack'[Top] = self
        BY StayShape
      <4>2. (\E c \in Child : stack' = Calling(self, c)) => stack'[Top] = self
        BY EnterShape
      <4> QED
        BY <2>3, <4>1, <4>2 DEF Advances
    <3> QED
      BY <1>1, <2>3, <3>1, FramesBelow
  <2> QED
    BY <1>3, <2>2, <2>3, WaitingMoves
<1> QED
  BY <1>2, <1>3

(* The functions that wait, and what they wait for. *)
LEMMA WaitFacts ==
  ASSUME LabelInv, NEW d \in DOMAIN stack, KindOf(stack[d]) \in Waiting
  PROVE  /\ stack[d] \in Activation /\ stack[d].step \in 1..4
         /\ Len(instrs) \in Nat /\ DOMAIN instrs = 1..Len(instrs)
         /\ stack[d].start \in 0..Len(instrs)
         /\ Len(stack[d].ptrs) = IF stack[d].step = 1 THEN 0 ELSE stack[d].step - 2
         /\ \A i \in 1..Len(stack[d].ptrs) :
              /\ stack[d].ptrs[i].index \in 1..Len(instrs)
              /\ instrs[stack[d].ptrs[i].index].op \in Jumps
<1>1. FrameInv /\ MarksInside /\ PointersAtJumps
  BY DEF LabelInv, CodeInv
<1>2. /\ stack \in Seq(Activation) /\ instrs \in Seq(Instruction)
      /\ Fit(stack[d], Operands(d))
  BY <1>1 DEF FrameInv, TypeOK, FramesFit
<1>3. stack[d] \in Activation
  BY <1>2, ElementOfSeq, LenProperties
<1>4. Len(instrs) \in Nat /\ DOMAIN instrs = 1..Len(instrs)
  BY <1>2, LenProperties
<1>5. TestFit(stack[d], Operands(d))
  BY <1>2 DEF Fit, Waiting
<1>6. stack[d].start \in 0..Len(instrs)
  <2>1. stack[d].start \in Marks /\ stack[d].start \in Nat
    BY <1>3 DEF Marks, Activation
  <2> QED
    BY <1>1, <2>1, CodeAssumption DEF MarksInside
<1>7. stack[d].ptrs \in Seq(Pointer)
  BY <1>3 DEF Activation
<1>8. DOMAIN stack[d].ptrs = 1..Len(stack[d].ptrs)
  BY <1>7, LenProperties
<1>9. \A i \in 1..Len(stack[d].ptrs) :
        /\ stack[d].ptrs[i].index \in 1..Len(instrs)
        /\ instrs[stack[d].ptrs[i].index].op \in Jumps
  BY <1>1, <1>4, <1>8 DEF PointersAtJumps
<1> QED
  BY <1>3, <1>4, <1>5, <1>6, <1>9 DEF TestFit

(* What is awaited is a jump. *)
LEMMA AwaitedJump ==
  ASSUME LabelInv, NEW d \in DOMAIN stack, NEW k, Awaits(stack[d], k)
  PROVE  k \in 1..Len(instrs) /\ instrs[k].op \in Jumps
<1>1. /\ KindOf(stack[d]) \in Waiting /\ stack[d].step \in 3..4
      /\ k = stack[d].ptrs[stack[d].step - 2].index
  BY DEF Awaits, Waiting
<1>2. PICK i : i = stack[d].step - 2
  OBVIOUS
<1>3. i \in 1..Len(stack[d].ptrs)
  BY <1>1, <1>2, WaitFacts
<1> QED
  BY <1>1, <1>2, <1>3, WaitFacts

(* What a step does to the code, as far as control goes. *)
FlowStep ==
  /\ nodes' = nodes /\ Len(instrs) \in Nat
  /\ Len(instrs') \in {Len(instrs), Len(instrs) + 1}
  /\ DOMAIN instrs = 1..Len(instrs) /\ DOMAIN instrs' = 1..Len(instrs')
  /\ block' = 0 => block = 0
  /\ \A k \in 1..Len(instrs) :
       /\ instrs'[k].op = instrs[k].op
       /\ \/ instrs'[k].dest = instrs[k].dest
          \/ Awaits(Self, k) /\ instrs'[k].dest = Label(Len(instrs'))
       /\ Awaits(Self, k) /\ block' = 0 => instrs'[k].dest = Label(Len(instrs'))
  /\ Len(instrs') = Len(instrs) + 1 /\ Added.op = "GOTO" =>
       /\ KindOf(Self) \in Waiting
       /\ \/ Self.step = 3 /\ Added.dest = Label(NULL)
          \/ /\ Self.step = 4 /\ KindOf(Self) = "loop"
             /\ Added.dest = Label(Self.start)

(* Every step is such a step. *)
LEMMA NextFlow ==
  ASSUME LabelInv, stack # << >>, Next
  PROVE  FlowStep
<1>1. FrameInv /\ TestsHoldTemporaries /\ PointersAtJumps
  BY DEF LabelInv, CodeInv
<1>2. AnalyserStep
  BY <1>1, NextStep
<1>3. /\ nodes' = nodes /\ Len(instrs) \in Nat
      /\ Len(instrs') \in {Len(instrs), Len(instrs) + 1}
      /\ DOMAIN instrs = 1..Len(instrs) /\ DOMAIN instrs' = 1..Len(instrs')
  BY <1>1, <1>2, OldCode DEF AnalyserStep
<1>4. Len(instrs) # Len(instrs) + 1
  <2>1. Len(instrs) \in Nat
    BY <1>1, LenProperties DEF FrameInv, TypeOK
  <2> QED
    BY <2>1
<1>5. block' = 0 => block = 0
  BY <1>1, <1>2 DEF AnalyserStep, CodeStep, MemoryOK, FrameInv, TypeOK
<1>6. CASE KindOf(Self) \notin Waiting
  <2>1. Quiet
    BY <1>1, <1>6, QuietOthers
  <2>2. \A k : ~Awaits(Self, k)
    BY <1>6 DEF Awaits, Waiting
  <2>3. \A k \in 1..Len(instrs) : instrs'[k] = instrs[k]
    BY <2>1 DEF Quiet
  <2>4. Len(instrs') = Len(instrs) + 1 => Added.op # "GOTO"
    BY <1>3, <2>1 DEF Quiet, Added
  <2> QED
    BY <1>3, <1>5, <2>2, <2>3, <2>4 DEF FlowStep
<1>7. ASSUME KindOf(Self) \in Waiting, Ends PROVE FlowStep
  <2>1. PatchesOwn
    BY <1>7 DEF Ends
  <2>2. Len(instrs') = Len(instrs) + 1 =>
          /\ Self.step = 4 /\ KindOf(Self) = "loop"
          /\ Added.dest = Label(Self.start)
    <3>1. /\ Self.step = 4
          /\ \/ Len(instrs') = Len(instrs)
             \/ KindOf(Self) = "loop" /\ Added.dest = Label(Self.start)
      BY <1>7 DEF Ends
    <3> QED
      BY <1>4, <3>1
  <2> QED
    BY <1>3, <1>5, <1>7, <2>1, <2>2 DEF FlowStep, PatchesOwn
<1>8. ASSUME KindOf(Self) \in Waiting, NEW self, Advances(self) PROVE FlowStep
  <2>1. CASE Starts(self)
    <3>1. \A k : ~Awaits(Self, k)
      BY <2>1 DEF Starts, Awaits
    <3>2. instrs' = instrs /\ Len(instrs') # Len(instrs) + 1
      BY <1>4, <2>1 DEF Starts
    <3> QED
      BY <1>3, <1>5, <3>1, <3>2 DEF FlowStep
  <2>2. CASE AddsTest(self)
    <3>1. \A k : ~Awaits(Self, k)
      BY <2>2 DEF AddsTest, Awaits
    <3> QED
      BY <1>3, <1>5, <2>2, <3>1 DEF FlowStep, AddsTest
  <2>3. CASE AddsGoto(self)
    <3>1. PatchesOwn /\ Self.step = 3 /\ Added.dest = Label(NULL)
      BY <2>3 DEF AddsGoto
    <3> QED
      BY <1>3, <1>5, <1>8, <3>1 DEF FlowStep, PatchesOwn
  <2> QED
    BY <1>8, <2>1, <2>2, <2>3 DEF Advances
<1> QED
  BY <1>1, <1>6, <1>7, <1>8, WaitingMoves

(* Who waits after a step has waited before, or the step adds what it waits *)
(* for.                                                                     *)
LEMMA AwaitsAfter ==
  ASSUME LabelInv, stack # << >>, Next,
         NEW d \in DOMAIN stack', NEW k, Awaits(stack'[d], k)
  PROVE  \/ /\ Below(d) /\ Awaits(stack[d], k) /\ k \in 1..Len(instrs)
         \/ /\ d = Top /\ k = Len(instrs) + 1 /\ Len(instrs') = Len(instrs) + 1
            /\ Added.dest = Label(NULL)
<1>1. FrameInv /\ TestsHoldTemporaries /\ PointersAtJumps
  BY DEF LabelInv, CodeInv
<1>2. /\ KindOf(stack'[d]) \in Waiting /\ stack'[d].step \in 3..4
      /\ k = stack'[d].ptrs[stack'[d].step - 2].index
  BY DEF Awaits, Waiting
<1>3. CASE Below(d)
  <2>1. Awaits(stack[d], k) /\ d \in DOMAIN stack
    BY <1>3 DEF Below, Awaits, KindOf
  <2> QED
    BY <1>3, <2>1, AwaitedJump
<1>4. ASSUME d = Top, KindOf(Self) \in Waiting, NEW self, self = stack'[d],
             Advances(self)
      PROVE  /\ k = Len(instrs) + 1 /\ Len(instrs') = Len(instrs) + 1
             /\ Added.dest = Label(NULL)
  <2>1. /\ Self.step \in 1..4
        /\ Len(Self.ptrs) = IF Self.step = 1 THEN 0 ELSE Self.step - 2
        /\ Self.ptrs \in Seq(Pointer)
    BY <1>1, <1>4, TestFacts DEF Waiting
  <2>2. self.step = Self.step + 1 /\ (AddsTest(self) \/ AddsGoto(self))
    BY <1>2, <1>4, <2>1 DEF Advances, Starts
  <2>3. /\ self.ptrs = Append(Self.ptrs, LastAdded) /\ Self.step \in 2..3
        /\ Len(instrs') = Len(instrs) + 1 /\ Added.dest = Label(NULL)
    BY <2>2 DEF AddsTest, AddsGoto
  <2>4. self.step - 2 = Len(Self.ptrs) + 1
    BY <2>1, <2>2, <2>3
  <2>5. self.ptrs[Len(Self.ptrs) + 1] = LastAdded
    BY <2>1, <2>3
  <2>6. LastAdded.index = Len(instrs) + 1
    BY DEF LastAdded
  <2> QED
    BY <1>2, <1>4, <2>3, <2>4, <2>5, <2>6
<1> QED
  BY <1>1, <1>2, <1>3, <1>4, WaitingFrames

(* The jumps that are awaited have no label yet, and each is awaited once. *)
LEMMA AwaitedStep ==
  ASSUME LabelInv, AwaitedUnset, AwaitedApart, stack # << >>, Next
  PROVE  AwaitedUnset' /\ AwaitedApart'
<1>1. FlowStep /\ FrameInv
  BY NextFlow DEF LabelInv, CodeInv
<1>2. /\ Len(instrs) \in Nat /\ DOMAIN instrs = 1..Len(instrs)
      /\ nodes' = nodes /\ Top \in DOMAIN stack /\ stack[Top] = Self
      /\ Top \in Nat /\ DOMAIN stack = 1..Top
  BY <1>1, SelfFacts DEF FlowStep
<1>3. ASSUME NEW d \in DOMAIN stack', NEW k, Awaits(stack'[d], k)
      PROVE  instrs'[k].dest = Label(NULL)
  <2>1. CASE Below(d) /\ Awaits(stack[d], k) /\ k \in 1..Len(instrs)
    <3>1. d \in DOMAIN stack /\ d < Top
      BY <2>1 DEF Below
    <3>2. instrs[k].dest = Label(NULL)
      BY <1>2, <2>1, <3>1 DEF AwaitedUnset
    <3>3. ~Awaits(Self, k)
      BY <1>2, <2>1, <3>1 DEF AwaitedApart
    <3> QED
      BY <1>1, <2>1, <3>2, <3>3 DEF FlowStep
  <2>2. CASE k = Len(instrs) + 1 /\ Added.dest = Label(NULL)
    BY <2>2 DEF Added
  <2> QED
    BY <1>3, <2>1, <2>2, AwaitsAfter
<1>4. ASSUME NEW d \in DOMAIN stack', NEW e \in DOMAIN stack', NEW k,
             Awaits(stack'[d], k), Awaits(stack'[e], k)
      PROVE  d = e
  <2>1. \/ Below(d) /\ Awaits(stack[d], k) /\ k \in 1..Len(instrs)
        \/ d = Top /\ k = Len(instrs) + 1
    BY <1>4, AwaitsAfter
  <2>2. \/ Below(e) /\ Awaits(stack[e], k) /\ k \in 1..Len(instrs)
        \/ e = Top /\ k = Len(instrs) + 1
    BY <1>4, AwaitsAfter
  <2>3. CASE k \in 1..Len(instrs)
    <3>1. Awaits(stack[d], k) /\ Awaits(stack[e], k)
      BY <1>2, <2>1, <2>2, <2>3
    <3>2. d \in DOMAIN stack /\ e \in DOMAIN stack
      BY <1>2, <2>1, <2>2 DEF Below
    <3> QED
      BY <1>2, <2>3, <3>1, <3>2 DEF AwaitedApart
  <2> QED
    BY <1>2, <2>1, <2>2, <2>3
<1>5. AwaitedUnset'
  <2> SUFFICES ASSUME NEW d \in DOMAIN stack', NEW k \in DOMAIN instrs',
                      Awaits(stack'[d], k)
               PROVE  instrs'[k].dest = Label(NULL)
    BY <1>2 DEF AwaitedUnset, Awaits, KindOf
  <2> QED
    BY <1>3
<1>6. AwaitedApart'
  <2> SUFFICES ASSUME NEW d \in DOMAIN stack', NEW e \in DOMAIN stack',
                      NEW k \in DOMAIN instrs',
                      Awaits(stack'[d], k), Awaits(stack'[e], k)
               PROVE  d = e
    BY <1>2 DEF AwaitedApart, Awaits, KindOf
  <2> QED
    BY <1>4
<1> QED
  BY <1>5, <1>6

(* A loop does not wait between its test and its goto. *)
LEMMA TestedStep ==
  ASSUME LabelInv, TestedOnTop, stack # << >>, Next
  PROVE  TestedOnTop'
<1>1. FrameInv /\ TestsHoldTemporaries /\ PointersAtJumps /\ nodes' = nodes
  BY NextFlow DEF LabelInv, CodeInv, FlowStep
<1> SUFFICES ASSUME NEW d \in DOMAIN stack',
                    KindOf(stack'[d]) = "loop", stack'[d].step = 3
             PROVE  d = Len(stack')
  BY <1>1 DEF TestedOnTop, KindOf, Top
<1>2. CASE Below(d)
  <2>1. d \in DOMAIN stack /\ KindOf(stack[d]) = "loop" /\ stack[d].step = 3
    BY <1>2 DEF Below, KindOf
  <2>2. d = Top /\ d < Top /\ Top \in Nat
    BY <1>1, <1>2, <2>1, SelfFacts DEF TestedOnTop, Below
  <2> QED
    BY <2>2
<1>3. CASE d = Top /\ Advances(stack'[d])
  <2>1. PICK self \in Activation : self = stack'[d] /\ Advances(self)
    BY <1>3 DEF Advances
  <2>2. Self.step \in Nat /\ self.node = Self.node /\ self.step = Self.step + 1
    BY <1>1, <2>1, SelfFacts DEF Advances
  <2>3. Self.step = 2 /\ KindOf(Self) = "loop"
    BY <2>1, <2>2 DEF KindOf
  <2>4. AddsTest(self)
    BY <2>1, <2>3 DEF Advances, Starts, AddsGoto
  <2>5. Len(stack') = Top
    BY <2>3, <2>4 DEF AddsTest
  <2> QED
    BY <1>3, <2>5
<1> QED
  BY <1>1, <1>2, <1>3, WaitingFrames DEF Waiting

(* Falls, after the step. *)
FallsThen(j, k) == \A m \in j..k : instrs'[m].op # "GOTO"

(* How a loop falls through, after the step. *)
LoopFalls(a) ==
  /\ a.step \in 2..3 => FallsThen(a.start + 1, Len(instrs'))
  /\ a.step = 4 => /\ a.start < a.ptrs[2].index
                   /\ instrs'[a.ptrs[2].index].op = "GOTO"
                   /\ FallsThen(a.start + 1, a.ptrs[2].index - 1)

(* From the start of a loop to its goto nothing is put that jumps away. *)
LEMMA LoopsFallStep ==
  ASSUME LabelInv, TestedOnTop, LoopsFall, stack # << >>, Next
  PROVE  LoopsFall'
<1>1. /\ FrameInv /\ TestsHoldTemporaries /\ PointersAtJumps
      /\ NoneKept
  BY DEF LabelInv, CodeInv, FrameInv
<1>2. FlowStep
  BY NextFlow
<1>3. /\ Len(instrs) \in Nat /\ Len(instrs') \in {Len(instrs), Len(instrs) + 1}
      /\ nodes' = nodes
      /\ \A k \in 1..Len(instrs) : instrs'[k].op = instrs[k].op
  BY <1>2 DEF FlowStep
<1>4. ASSUME NEW d \in DOMAIN stack', KindOf(stack'[d]) = "loop", Below(d)
      PROVE  LoopFalls(stack'[d])
  <2>1. PICK a \in Activation : a = stack[d]
    BY <1>1, <1>4, ElementOfSeq, LenProperties DEF Below, FrameInv, TypeOK
  <2>2. /\ a.step = stack'[d].step /\ a.start = stack'[d].start
        /\ a.ptrs = stack'[d].ptrs /\ KindOf(a) = "loop"
        /\ d \in DOMAIN stack /\ d < Top
    BY <1>4, <2>1 DEF Below, KindOf
  <2>3. /\ a.start \in 0..Len(instrs) /\ a.step \in 1..4
        /\ Len(a.ptrs) = IF a.step = 1 THEN 0 ELSE a.step - 2
        /\ \A i \in 1..Len(a.ptrs) : a.ptrs[i].index \in 1..Len(instrs)
    BY <2>1, <2>2, WaitFacts DEF Waiting
  <2>4. /\ a.step \in 2..3 => Falls(a.start + 1, Len(instrs))
        /\ a.step = 4 => /\ a.start < a.ptrs[2].index
                         /\ instrs[a.ptrs[2].index].op = "GOTO"
                         /\ Falls(a.start + 1, a.ptrs[2].index - 1)
    BY <2>1, <2>2 DEF LoopsFall
  <2>5. a.step # 3
    <3>1. a.step = 3 => d = Top
      BY <2>1, <2>2 DEF TestedOnTop
    <3>2. Top \in Nat
      BY <1>1, SelfFacts
    <3> QED
      BY <2>2, <3>1, <3>2
  <2>6. ASSUME a.step = 2 PROVE FallsThen(a.start + 1, Len(instrs'))
    <3>1. Live(a)
      BY <2>2, <2>6 DEF Live
    <3>2. KindOf(Self) \in Valued
      <4>1. Top \in DOMAIN stack /\ stack[Top] = Self
        BY <1>1, SelfFacts
      <4> QED
        BY <1>1, <2>1, <2>2, <3>1, <4>1 DEF NoneKept
    <3>3. KindOf(Self) \notin Waiting
      BY <3>2 DEF Valued, Waiting
    <3>4. Len(instrs') = Len(instrs) + 1 => Added.op # "GOTO"
      BY <1>2, <3>3 DEF FlowStep
    <3>5. Falls(a.start + 1, Len(instrs))
      BY <2>4, <2>6
    <3>6. \A m \in (a.start + 1)..Len(instrs') : instrs'[m].op # "GOTO"
      <4> SUFFICES ASSUME NEW m \in (a.start + 1)..Len(instrs')
                   PROVE  instrs'[m].op # "GOTO"
        OBVIOUS
      <4>1. CASE m \in 1..Len(instrs)
        <5>1. m \in (a.start + 1)..Len(instrs)
          BY <1>3, <2>3, <4>1
        <5> QED
          BY <1>3, <3>5, <4>1, <5>1 DEF Falls
      <4>2. CASE m = Len(instrs) + 1 /\ Len(instrs') = Len(instrs) + 1
        BY <3>4, <4>2 DEF Added
      <4> QED
        BY <1>3, <2>3, <4>1, <4>2
    <3> QED
      BY <3>6 DEF FallsThen
  <2>7. ASSUME a.step = 4
        PROVE  /\ a.start < a.ptrs[2].index
               /\ instrs'[a.ptrs[2].index].op = "GOTO"
               /\ FallsThen(a.start + 1, a.ptrs[2].index - 1)
    <3>1. PICK g \in 1..Len(instrs) : g = a.ptrs[2].index
      BY <2>3, <2>7
    <3>2. /\ a.start < g /\ instrs[g].op = "GOTO" /\ Falls(a.start + 1, g - 1)
      BY <2>4, <2>7, <3>1
    <3>3. \A m \in (a.start + 1)..(g - 1) : instrs'[m].op # "GOTO"
      BY <1>3, <2>3, <3>2 DEF Falls
    <3> QED
      BY <1>3, <3>1, <3>2, <3>3 DEF FallsThen
  <2> QED
    BY <2>2, <2>5, <2>6, <2>7 DEF LoopFalls
<1>5. ASSUME NEW self \in Activation, KindOf(Self) \in Waiting, Advances(self),
             KindOf(self) = "loop"
      PROVE  LoopFalls(self)
  <2>1. /\ self.node = Self.node /\ self.step = Self.step + 1
        /\ KindOf(Self) = "loop" /\ Top \in DOMAIN stack /\ stack[Top] = Self
    BY <1>1, <1>5, SelfFacts DEF Advances, KindOf
  <2>2. /\ Self.start \in 0..Len(instrs) /\ Self.step \in 1..4
        /\ Len(Self.ptrs) = IF Self.step = 1 THEN 0 ELSE Self.step - 2
        /\ Self.ptrs \in Seq(Pointer)
    BY <1>1, <1>5, <2>1, WaitFacts, TestFacts DEF Waiting
  <2>3. Self.step \in 2..3 => Falls(Self.start + 1, Len(instrs))
    BY <2>1 DEF LoopsFall
  <2>4. CASE Starts(self)
    <3>1. self.start = Len(instrs) /\ instrs' = instrs /\ Self.step = 1
      BY <2>1, <2>4 DEF Starts
    <3>2. \A m \in (Len(instrs) + 1)..Len(instrs) : FALSE
      BY <1>3
    <3>3. FallsThen(self.start + 1, Len(instrs'))
      BY <3>1, <3>2 DEF FallsThen
    <3> QED
      BY <2>1, <3>1, <3>3 DEF LoopFalls
  <2>5. CASE AddsTest(self)
    <3>1. /\ self.start = Self.start /\ Self.step = 2 /\ Added.op = "BRANCH"
          /\ Len(instrs') = Len(instrs) + 1
      BY <2>5 DEF AddsTest
    <3>2. Falls(Self.start + 1, Len(instrs))
      BY <2>3, <3>1
    <3>3. \A m \in (Self.start + 1)..(Len(instrs) + 1) : instrs'[m].op # "GOTO"
      <4> SUFFICES ASSUME NEW m \in (Self.start + 1)..(Len(instrs) + 1)
                   PROVE  instrs'[m].op # "GOTO"
        OBVIOUS
      <4>1. CASE m \in 1..Len(instrs)
        <5>1. m \in (Self.start + 1)..Len(instrs)
          BY <1>3, <2>2, <4>1
        <5> QED
          BY <1>3, <3>2, <4>1, <5>1 DEF Falls
      <4>2. CASE m = Len(instrs) + 1
        BY <3>1, <4>2 DEF Added
      <4> QED
        BY <1>3, <2>2, <4>1, <4>2
    <3>4. FallsThen(self.start + 1, Len(instrs'))
      BY <3>1, <3>3 DEF FallsThen
    <3> QED
      BY <2>1, <3>1, <3>4 DEF LoopFalls
  <2>6. CASE AddsGoto(self)
    <3>1. /\ self.start = Self.start /\ Self.step = 3 /\ Added.op = "GOTO"
          /\ self.ptrs = Append(Self.ptrs, LastAdded)
      BY <2>6 DEF AddsGoto
    <3>2. self.ptrs[2] = LastAdded
      <4>1. Len(Self.ptrs) = 1
        BY <2>2, <3>1
      <4> QED
        BY <2>2, <3>1, <4>1
    <3>3. PICK g : g = Len(instrs) + 1 /\ g = self.ptrs[2].index
      BY <3>2 DEF LastAdded
    <3>4. self.start < g /\ instrs'[g].op = "GOTO"
      BY <1>3, <2>2, <3>1, <3>3 DEF Added
    <3>5. Falls(Self.start + 1, Len(instrs))
      BY <2>3, <3>1
    <3>6. \A m \in (Self.start + 1)..(g - 1) : instrs'[m].op # "GOTO"
      BY <1>3, <2>2, <3>3, <3>5 DEF Falls
    <3>7. self.step = 4
      BY <2>1, <3>1
    <3>8. FallsThen(self.start + 1, g - 1)
      BY <3>1, <3>6 DEF FallsThen
    <3>9. self.ptrs[2].index = g
      BY <3>3
    <3>10. FallsThen(self.start + 1, self.ptrs[2].index - 1)
      BY <3>8, <3>9
    <3>11. instrs'[self.ptrs[2].index].op = "GOTO" /\ self.start < self.ptrs[2].index
      BY <3>4, <3>9
    <3> QED
      BY <3>7, <3>10, <3>11 DEF LoopFalls
  <2> QED
    BY <1>5, <2>4, <2>5, <2>6 DEF Advances
<1>6. ASSUME NEW d \in DOMAIN stack', KindOf(stack'[d]) = "loop"
      PROVE  LoopFalls(stack'[d])
  <2>1. CASE Below(d)
    BY <1>4, <1>6, <2>1
  <2>2. CASE stack'[d].step = 1
    BY <2>2 DEF LoopFalls
  <2>3. CASE KindOf(Self) \in Waiting /\ Advances(stack'[d])
    <3>1. stack'[d] \in Activation
      BY <2>3 DEF Advances
    <3> QED
      BY <1>5, <1>6, <2>3, <3>1
  <2> QED
    BY <1>1, <1>6, <2>1, <2>2, <2>3, WaitingFrames DEF Waiting
<1> QED
  BY <1>3, <1>6 DEF LoopsFall, LoopFalls, Falls, FallsThen, KindOf

(* Labels that are known are not NULL. *)
LEMMA LabelApart ==
  /\ \A l, m : Label(l) = Label(m) <=> l = m
  /\ \A l \in Int : l >= 0 => l # NULL
<1>1. \A l, m : Label(l) = Label(m) <=> l = m
  <2> SUFFICES ASSUME NEW l, NEW m, Label(l) = Label(m) PROVE l = m
    OBVIOUS
  <2>1. Label(l).val = l /\ Label(m).val = m
    BY DEF Label
  <2> QED
    BY <2>1
<1> QED
  BY <1>1, CodeAssumption

(* A jump that is not awaited keeps its label. *)
LEMMA LabelStays ==
  ASSUME LabelInv, AwaitedUnset, stack # << >>, FlowStep,
         NEW k \in 1..Len(instrs), instrs[k].dest # Label(NULL)
  PROVE  instrs'[k].dest = instrs[k].dest
<1>1. Top \in DOMAIN stack /\ stack[Top] = Self
  BY SelfFacts DEF LabelInv, CodeInv
<1>2. ~Awaits(Self, k)
  BY <1>1 DEF FlowStep, AwaitedUnset
<1> QED
  BY <1>2 DEF FlowStep

(* The jump that the function is going to patch. *)
LEMMA OwnJump ==
  ASSUME LabelInv, stack # << >>, KindOf(Self) \in Waiting, Self.step \in 3..4
  PROVE  \E k \in 1..Len(instrs) :
           /\ Awaits(Self, k) /\ instrs[k].op \in Jumps
           /\ k = Self.ptrs[Self.step - 2].index
<1>1. Top \in DOMAIN stack /\ stack[Top] = Self
  BY SelfFacts DEF LabelInv, CodeInv
<1>2. PICK k : k = Self.ptrs[Self.step - 2].index
  OBVIOUS
<1>3. Awaits(Self, k)
  BY <1>2 DEF Awaits, Waiting
<1>4. k \in 1..Len(instrs) /\ instrs[k].op \in Jumps
  BY <1>1, <1>3, AwaitedJump
<1> QED
  BY <1>2, <1>3, <1>4

(* What is jumped over. *)
LEMMA GotosPassedStep ==
  ASSUME LabelInv, AwaitedUnset, GotosPassed, stack # << >>, Next, block' = 0
  PROVE  GotosPassed'
<1>1. FlowStep
  BY NextFlow
<1>2. /\ Len(instrs) \in Nat /\ Len(instrs') \in {Len(instrs), Len(instrs) + 1}
      /\ \A k \in 1..Len(instrs) : instrs'[k].op = instrs[k].op
  BY <1>1 DEF FlowStep
<1>3. DOMAIN instrs = 1..Len(instrs) /\ DOMAIN instrs' = 1..Len(instrs')
  BY <1>1 DEF FlowStep
<1> SUFFICES ASSUME NEW l \in 1..Len(instrs'), instrs'[l].op = "GOTO"
             PROVE  \E k \in 1..(l - 1) :
                      instrs'[k].op \in Jumps /\ instrs'[k].dest = Label(l)
  BY <1>3 DEF GotosPassed
<1>4. CASE l \in 1..Len(instrs)
  <2>1. PICK k \in 1..(l - 1) : instrs[k].op \in Jumps /\ instrs[k].dest = Label(l)
    BY <1>2, <1>4, <1>3 DEF GotosPassed
  <2>2. k \in 1..Len(instrs) /\ instrs[k].dest # Label(NULL)
    BY <1>2, <1>4, <2>1, LabelApart
  <2>3. instrs'[k].dest = Label(l)
    BY <1>1, <2>1, <2>2, LabelStays
  <2> QED
    BY <1>2, <2>1, <2>2, <2>3
<1>5. CASE l = Len(instrs) + 1
  <2>1. Len(instrs') = Len(instrs) + 1 /\ Added.op = "GOTO"
    BY <1>2, <1>5 DEF Added
  <2>2. KindOf(Self) \in Waiting /\ Self.step \in 3..4
    BY <1>1, <2>1 DEF FlowStep
  <2>3. PICK k \in 1..Len(instrs) : Awaits(Self, k) /\ instrs[k].op \in Jumps
    BY <2>2, OwnJump
  <2>4. instrs'[k].dest = Label(Len(instrs'))
    BY <1>1, <2>3 DEF FlowStep
  <2>5. instrs'[k].op \in Jumps /\ instrs'[k].dest = Label(l)
    BY <1>2, <1>5, <2>1, <2>3, <2>4
  <2>6. k \in 1..(l - 1)
    BY <1>2, <1>5
  <2> QED
    BY <2>5, <2>6
<1> QED
  BY <1>2, <1>4, <1>5

(* The label of a goto that leads back. *)
LEMMA GotoLabel ==
  ASSUME LabelInv, NEW k \in 1..Len(instrs), instrs[k].op = "GOTO",
         instrs[k].dest # Label(NULL)
  PROVE  instrs[k].dest.val \in 0..Len(instrs)
<1>1. CodeWellAimed /\ MarksInside /\ instrs \in Seq(Instruction)
  BY DEF LabelInv, CodeInv, FrameInv, TypeOK
<1>2. k \in DOMAIN instrs
  BY <1>1, LenProperties
<1>3. instrs[k].dest \in Operand /\ instrs[k].dest.type = "LABEL"
  <2>1. instrs[k] \in Instruction
    BY <1>1, <1>2, ElementOfSeq, LenProperties
  <2>2. instrs[k].op \in Jumps
    BY DEF Jumps
  <2>3. WellAimed(instrs[k])
    BY <1>1, <1>2 DEF CodeWellAimed
  <2> QED
    BY <2>1, <2>2, <2>3 DEF WellAimed, Instruction
<1>4. instrs[k].dest.val # NULL
  <2>1. instrs[k].dest = Label(instrs[k].dest.val)
    BY <1>3, CodeAssumption DEF Operand, Label, Unset
  <2> QED
    BY <2>1
<1>5. instrs[k].dest.val \in Marks
  BY <1>2 DEF Marks, Jumps
<1> QED
  BY <1>1, <1>4, <1>5 DEF MarksInside

(* What a loop jumps back over. *)
LEMMA LoopsLeftStep ==
  ASSUME LabelInv, AwaitedUnset, LoopsFall, LoopsLeft, stack # << >>, Next,
         block' = 0
  PROVE  LoopsLeft'
<1>1. FlowStep
  BY NextFlow
<1>2. /\ Len(instrs) \in Nat /\ Len(instrs') \in {Len(instrs), Len(instrs) + 1}
      /\ \A k \in 1..Len(instrs) : instrs'[k].op = instrs[k].op
  BY <1>1 DEF FlowStep
<1>3. DOMAIN instrs = 1..Len(instrs) /\ DOMAIN instrs' = 1..Len(instrs')
  BY <1>1 DEF FlowStep
<1> SUFFICES ASSUME NEW k \in 1..Len(instrs'), instrs'[k].op = "GOTO",
                    instrs'[k].dest # Label(NULL), ~(instrs'[k].dest.val >= k)
             PROVE  LeavesBehind(k)'
  BY <1>3 DEF LoopsLeft
<1>4. CASE k \in 1..Len(instrs)
  <2>1. instrs'[k].dest = instrs[k].dest
    <3>1. instrs'[k].dest # Label(Len(instrs'))
      BY <1>2, <1>4 DEF Label
    <3> QED
      BY <1>1, <1>4, <3>1 DEF FlowStep
  <2>2. instrs[k].op = "GOTO" /\ LeavesBehind(k)
    BY <1>2, <1>4, <1>3, <2>1 DEF LoopsLeft
  <2>3. PICK v \in 0..Len(instrs) : v = instrs[k].dest.val
    BY <1>4, <2>1, <2>2, GotoLabel
  <2>4. PICK g \in (v + 1)..(k - 1) :
          /\ instrs[g].op = "GOTO" /\ instrs[g].dest = Label(k)
          /\ Falls(v + 1, g - 1)
    BY <2>2, <2>3 DEF LeavesBehind
  <2>5. g \in 1..Len(instrs) /\ instrs[g].dest # Label(NULL)
    BY <1>2, <1>4, <2>3, <2>4, LabelApart
  <2>6. instrs'[g].op = "GOTO" /\ instrs'[g].dest = Label(k)
    BY <1>1, <1>2, <2>4, <2>5, LabelStays
  <2>7. FallsThen(v + 1, g - 1)
    <3> SUFFICES ASSUME NEW m \in (v + 1)..(g - 1)
                 PROVE  instrs'[m].op # "GOTO"
      BY DEF FallsThen
    <3>1. m \in 1..Len(instrs)
      BY <2>3, <2>5
    <3>2. instrs[m].op # "GOTO"
      BY <2>4 DEF Falls
    <3> QED
      BY <1>2, <3>1, <3>2
  <2> QED
    BY <2>1, <2>3, <2>4, <2>6, <2>7 DEF LeavesBehind, Falls, FallsThen
<1>5. CASE k = Len(instrs) + 1
  <2>1. Len(instrs') = Len(instrs) + 1 /\ Added.op = "GOTO" /\ Added = instrs'[k]
    BY <1>2, <1>5 DEF Added
  <2>2. /\ Self.step = 4 /\ KindOf(Self) = "loop"
        /\ instrs'[k].dest = Label(Self.start)
    BY <1>1, <2>1 DEF FlowStep
  <2>3. PICK g \in 1..Len(instrs) :
          /\ Awaits(Self, g) /\ g = Self.ptrs[Self.step - 2].index
    BY <2>2, OwnJump DEF Waiting
  <2>4. Top \in DOMAIN stack /\ stack[Top] = Self
    BY SelfFacts DEF LabelInv, CodeInv
  <2>5. g = Self.ptrs[2].index
    BY <2>2, <2>3
  <2>6. /\ Self.start < g /\ instrs[g].op = "GOTO"
        /\ Falls(Self.start + 1, g - 1)
    BY <2>2, <2>4, <2>5 DEF LoopsFall
  <2>7. PICK v \in 0..Len(instrs) : v = Self.start
    BY <2>2, <2>4, WaitFacts DEF Waiting
  <2>8. instrs'[g].op = "GOTO" /\ instrs'[g].dest = Label(k)
    <3>1. instrs'[g].dest = Label(Len(instrs'))
      BY <1>1, <2>3 DEF FlowStep
    <3> QED
      BY <1>2, <1>5, <2>1, <2>6, <3>1
  <2>9. FallsThen(v + 1, g - 1)
    BY <1>2, <2>6, <2>7 DEF Falls, FallsThen
  <2>10. instrs'[k].dest.val = v
    BY <2>2, <2>7 DEF Label
  <2>11. g \in (v + 1)..(k - 1)
    BY <1>2, <1>5, <2>6, <2>7
  <2> QED
    BY <2>8, <2>9, <2>10, <2>11 DEF LeavesBehind, Falls, FallsThen
<1> QED
  BY <1>2, <1>4, <1>5

(* The steps together. *)
LEMMA FlowInvStep ==
  ASSUME LabelInv, FlowInv, [Next]_vars
  PROVE  FlowInv'
<1>1. CASE UNCHANGED vars
  BY <1>1 DEF vars, FlowInv, AwaitedUnset, AwaitedApart, TestedOnTop, LoopsFall,
     GotosPassed, LoopsLeft, LeavesBehind, Falls, Awaits, KindOf, Top
<1>2. CASE stack # << >> /\ Next
  <2>1. AwaitedUnset' /\ AwaitedApart'
    BY <1>2, AwaitedStep DEF FlowInv
  <2>2. TestedOnTop'
    BY <1>2, TestedStep DEF FlowInv
  <2>3. LoopsFall'
    BY <1>2, LoopsFallStep DEF FlowInv
  <2>4. ASSUME block' = 0 PROVE GotosPassed' /\ LoopsLeft'
    <3>1. FlowStep
      BY <1>2, NextFlow
    <3>2. block = 0
      BY <2>4, <3>1 DEF FlowStep
    <3>3. AwaitedUnset /\ LoopsFall /\ GotosPassed /\ LoopsLeft
      BY <3>2 DEF FlowInv
    <3> QED
      BY <1>2, <2>4, <3>3, GotosPassedStep, LoopsLeftStep
  <2> QED
    BY <2>1, <2>2, <2>3, <2>4 DEF FlowInv
<1>3. Next /\ stack = << >> => UNCHANGED vars
  BY DEF Next, Done, AnalyseSource, AnalyseVariables, AnalyseStatements,
     AnalyseAssign, AnalyseInput, AnalyseOutput, AnalyseBranch, AnalyseLoop,
     AnalyseRepeat, AnalyseExpression, AnalyseTerm, AnalyseChain,
     AnalyseFactor, AnalyseCondition, At, In
<1> QED
  BY <1>1, <1>2, <1>3

(* At the beginning there is no code. *)
LEMMA FlowInit ==
  ASSUME Init
  PROVE  FlowInv
<1>1. instrs = << >> /\ stack = << Begin(1) >>
  BY DEF Init
<1>2. DOMAIN instrs = {} /\ DOMAIN stack = {1} /\ stack[1].step = 1
  BY <1>1 DEF Begin
<1>3. \A d \in DOMAIN stack : stack[d].step = 1
  BY <1>2
<1>4. AwaitedUnset /\ AwaitedApart /\ GotosPassed /\ LoopsLeft
  BY <1>2 DEF AwaitedUnset, AwaitedApart, GotosPassed, LoopsLeft
<1>5. TestedOnTop /\ LoopsFall
  BY <1>3 DEF TestedOnTop, LoopsFall
<1> QED
  BY <1>4, <1>5 DEF FlowInv

(***************************************************************************)
(* Where control goes, in every state, for every tree that is Analysable.  *)
(***************************************************************************)
THEOREM FlowInvariance == Spec => [](LabelInv /\ FlowInv)
<1>1. Init => LabelInv /\ FlowInv
  BY InitInv, FlowInit
<1>2. LabelInv /\ FlowInv /\ [Next]_vars => (LabelInv /\ FlowInv)'
  BY InvStep, FlowInvStep
<1> QED
  BY <1>1, <1>2, PTL DEF Spec

Places == 0..Len(instrs)

(* One step further, from all places of B. *)
Grown(B) == B \cup UNION {Successors(m) : m \in B}

(* Control does not leave B. *)
Closed(B) == \A m \in B : Successors(m) \subseteq B

(* The places reached from l in up to n steps. *)
Spreads(u, n, l) ==
  u = [i \in 0..n |-> IF i = 0 THEN {l} ELSE Grown(u[i - 1])]

(* Place by place. *)
LEMMA SpreadFacts ==
  ASSUME NEW n \in Nat, NEW l, NEW u, Spreads(u, n, l)
  PROVE  u[0] = {l} /\ \A i \in 1..n : u[i] = Grown(u[i - 1])
<1>1. \A i \in 0..n : u[i] = IF i = 0 THEN {l} ELSE Grown(u[i - 1])
  BY DEF Spreads
<1>2. 0 \in 0..n /\ \A i \in 1..n : i \in 0..n /\ i # 0
  OBVIOUS
<1> QED
  BY <1>1, <1>2

(* They can be computed: this is what the recursion in ReachedFrom is for. *)
LEMMA SpreadExists ==
  ASSUME NEW n \in Nat, NEW l
  PROVE  \E u : Spreads(u, n, l)
<1> DEFINE Upto(k) == \E u : Spreads(u, k, l)
           T == {k \in 0..n : ~Upto(k)}
<1> SUFFICES ASSUME T # {} PROVE FALSE
  <2> SUFFICES T = {} => Upto(n)
    OBVIOUS
  <2> HIDE DEF Upto
  <2> QED
    OBVIOUS
<1>1. PICK m \in T : \A k \in T : m <= k
  <2>1. T \subseteq Nat
    OBVIOUS
  <2> HIDE DEF T
  <2> QED
    BY <2>1, Smallest
<1>2. m \in 0..n /\ ~Upto(m)
  OBVIOUS
<1>3. m # 0
  <2>1. PICK u : u = [i \in 0..0 |-> {l}]
    OBVIOUS
  <2>2. Spreads(u, 0, l)
    BY <2>1 DEF Spreads
  <2>3. Upto(0)
    BY <2>2
  <2> HIDE DEF Upto, T
  <2> QED
    BY <1>2, <2>3
<1>4. Upto(m - 1)
  <2> HIDE DEF Upto
  <2>1. m - 1 \notin T /\ m - 1 \in 0..n
    BY <1>1, <1>2, <1>3
  <2> QED
    BY <2>1
<1>5. PICK v : Spreads(v, m - 1, l)
  BY <1>4
<1>6. PICK u : u = [i \in 0..m |-> IF i = m THEN Grown(v[m - 1]) ELSE v[i]]
  OBVIOUS
<1>7. v[0] = {l} /\ \A i \in 1..(m - 1) : v[i] = Grown(v[i - 1])
  <2>1. m - 1 \in Nat
    BY <1>2, <1>3
  <2> QED
    BY <1>5, <2>1, SpreadFacts
<1>8. u[0] = {l}
  BY <1>2, <1>3, <1>6, <1>7
<1>9. \A i \in 1..m : u[i] = Grown(u[i - 1])
  <2> TAKE i \in 1..m
  <2>1. u[i - 1] = v[i - 1]
    BY <1>2, <1>6
  <2>2. CASE i = m
    BY <1>2, <1>6, <2>1, <2>2
  <2>3. CASE i # m
    <3>1. i \in 1..(m - 1) /\ u[i] = v[i]
      BY <1>2, <1>6, <2>3
    <3> QED
      BY <1>7, <2>1, <3>1
  <2> QED
    BY <2>2, <2>3
<1>10. Spreads(u, m, l)
  <2>1. u = [i \in 0..m |-> u[i]]
    BY <1>6
  <2>2. \A i \in 0..m : u[i] = IF i = 0 THEN {l} ELSE Grown(u[i - 1])
    BY <1>2, <1>8, <1>9
  <2> QED
    BY <2>1, <2>2 DEF Spreads
<1>11. Upto(m)
  BY <1>10
<1> HIDE DEF Upto
<1> QED
  BY <1>2, <1>11

(* With every step comes a new place, as long as there are any. *)
LEMMA SpreadCloses ==
  ASSUME NEW n \in Nat, n = Len(instrs), NEW l \in Places, Closed(Places),
         NEW u, Spreads(u, n, l)
  PROVE  u[n] \subseteq Places /\ l \in u[n] /\ Closed(u[n])
<1>1. u[0] = {l} /\ \A i \in 1..n : u[i] = Grown(u[i - 1])
  BY SpreadFacts
<1>2. ASSUME NEW B \in SUBSET Places
      PROVE  Grown(B) \in SUBSET Places /\ B \subseteq Grown(B)
  BY <1>2 DEF Grown, Closed
<1>3. IsFiniteSet(Places) /\ Cardinality(Places) = n + 1
  <2>1. 0 \in Int /\ n \in Int /\ ~(0 > n)
    OBVIOUS
  <2>2. IsFiniteSet(0..n) /\ Cardinality(0..n) = n - 0 + 1
    BY <2>1, FS_Interval
  <2> QED
    BY <2>2 DEF Places
<1>4. ASSUME NEW B \in SUBSET Places
      PROVE  IsFiniteSet(B) /\ Cardinality(B) \in Nat
  <2>1. IsFiniteSet(B)
    BY <1>3, FS_Subset
  <2> QED
    BY <2>1, FS_CardinalityType
<1> DEFINE Good(i) == /\ u[i] \in SUBSET Places /\ l \in u[i]
                      /\ Closed(u[i]) \/ Cardinality(u[i]) >= i + 1
           T == {i \in 0..n : ~Good(i)}
<1>5. T = {}
  <2> SUFFICES ASSUME T # {} PROVE FALSE
    OBVIOUS
  <2>1. PICK m \in T : \A k \in T : m <= k
    <3>1. T \subseteq Nat
      OBVIOUS
    <3> HIDE DEF T
    <3> QED
      BY <3>1, Smallest
  <2>2. m \in 0..n /\ ~Good(m)
    OBVIOUS
  <2>3. Good(0)
    <3>1. Cardinality({l}) = 1
      BY FS_Singleton
    <3> QED
      BY <1>1, <3>1
  <2> HIDE DEF Good
  <2>4. m # 0 /\ m \in 1..n /\ m - 1 \in 0..n /\ m \in Nat
    BY <2>2, <2>3
  <2>5. Good(m - 1)
    BY <2>1, <2>4
  <2> HIDE DEF T
  <2> USE DEF Good
  <2>6. PICK B \in SUBSET Places : B = u[m - 1]
    BY <2>5
  <2>7. l \in B /\ (Closed(B) \/ Cardinality(B) >= m)
    BY <2>4, <2>5, <2>6
  <2>8. PICK C \in SUBSET Places : C = u[m] /\ C = Grown(B) /\ B \subseteq C
    BY <1>1, <1>2, <2>4, <2>6
  <2>9. CASE Closed(B)
    <3>1. C = B
      BY <2>8, <2>9 DEF Grown, Closed
    <3> QED
      BY <2>2, <2>7, <2>8, <2>9, <3>1
  <2>10. CASE ~Closed(B)
    <3>1. PICK s \in C : s \notin B
      BY <2>8, <2>10 DEF Grown, Closed
    <3>2. /\ IsFiniteSet(B) /\ Cardinality(B) \in Nat
          /\ IsFiniteSet(C) /\ Cardinality(C) \in Nat
      BY <1>4
    <3>3. Cardinality(B \cup {s}) = Cardinality(B) + 1
      BY <3>1, <3>2, FS_AddElement
    <3>4. B \cup {s} \in SUBSET C
      BY <2>8, <3>1
    <3>5. Cardinality(B \cup {s}) <= Cardinality(C)
      BY <3>2, <3>4, FS_Subset
    <3>6. Cardinality(C) >= m + 1
      BY <2>4, <2>7, <2>10, <3>2, <3>3, <3>5
    <3> QED
      BY <2>2, <2>7, <2>8, <3>6
  <2> QED
    BY <2>9, <2>10
<1>6. Good(n)
  <2> HIDE DEF Good
  <2>1. n \in 0..n
    OBVIOUS
  <2> QED
    BY <1>5, <2>1
<1>7. CASE Closed(u[n])
  BY <1>6, <1>7
<1>8. CASE Cardinality(u[n]) >= n + 1
  <2>1. PICK B \in SUBSET Places : B = u[n]
    BY <1>6
  <2>2. Cardinality(B) <= Cardinality(Places) /\ Cardinality(B) \in Nat
    BY <1>3, <1>4, FS_Subset
  <2>3. Cardinality(Places) = Cardinality(B)
    BY <1>3, <1>8, <2>1, <2>2
  <2>4. Places = B
    BY <1>3, <2>3, FS_Subset
  <2> QED
    BY <1>6, <2>1, <2>4
<1> QED
  BY <1>6, <1>7, <1>8

(* The places reached from l: control does not leave them. *)
LEMMA ReachedClosed ==
  ASSUME Len(instrs) \in Nat, NEW l \in Places, Closed(Places)
  PROVE  /\ ReachedFrom(l) \subseteq Places /\ l \in ReachedFrom(l)
         /\ Closed(ReachedFrom(l))
<1>1. PICK n \in Nat : n = Len(instrs)
  OBVIOUS
<1> DEFINE R(u) == [i \in 0..n |-> IF i = 0 THEN {l} ELSE Grown(u[i - 1])]
<1>2. PICK u : Spreads(u, n, l)
  BY SpreadExists
<1>3. u = R(u)
  BY <1>2 DEF Spreads
<1>4. ReachedFrom(l) = (CHOOSE w : w = R(w))[n]
  BY <1>1 DEF ReachedFrom, Grown
<1>5. PICK v : v = (CHOOSE w : w = R(w)) /\ v = R(v)
  BY <1>3
<1>6. Spreads(v, n, l)
  BY <1>5 DEF Spreads
<1>7. v[n] \subseteq Places /\ l \in v[n] /\ Closed(v[n])
  BY <1>1, <1>6, SpreadCloses
<1> QED
  BY <1>4, <1>5, <1>7

(* When all labels are known, control stays within the code, *)
LEMMA PlacesClosed ==
  ASSUME Len(instrs) \in Nat, DOMAIN instrs = 1..Len(instrs), Resolved(instrs)
  PROVE  Closed(Places)
<1>1. PICK n \in Nat : n = Len(instrs)
  OBVIOUS
<1> SUFFICES ASSUME NEW l \in 0..n PROVE Successors(l) \subseteq 0..n
  BY <1>1 DEF Closed, Places
<1>2. CASE l = n
  BY <1>1, <1>2 DEF Successors
<1>3. CASE l # n
  <2>1. l + 1 \in 1..n /\ l + 1 \in 0..n
    BY <1>3
  <2>2. instrs[l + 1].op \in Jumps => LabelOf(l + 1) \in 0..n
    BY <1>1, <2>1 DEF Resolved, LabelOf
  <2> QED
    BY <1>1, <2>1, <2>2 DEF Successors, Jumps
<1> QED
  BY <1>2, <1>3

(* and goes from one instruction to the next, or where the label says. *)
LEMMA Continues ==
  ASSUME NEW n \in Nat, n = Len(instrs), NEW l \in 0..n, l # n,
         NEW B, Closed(B), l \in B
  PROVE  /\ instrs[l + 1].op # "GOTO" => l + 1 \in B
         /\ instrs[l + 1].op \in Jumps => LabelOf(l + 1) \in B
<1>1. Successors(l) \subseteq B
  BY DEF Closed
<1> QED
  BY <1>1 DEF Successors, Jumps

(* The first place that is not reached would be reached. *)
LEMMA AllReached ==
  ASSUME Len(instrs) \in Nat, DOMAIN instrs = 1..Len(instrs), GotosPassed,
         NEW B, B \subseteq Places, Closed(B), 0 \in B
  PROVE  B = Places
<1>1. PICK n \in Nat : n = Len(instrs)
  OBVIOUS
<1> DEFINE T == (0..n) \ B
<1> SUFFICES ASSUME T # {} PROVE FALSE
  BY <1>1 DEF Places
<1>2. PICK p \in T : \A k \in T : p <= k
  <2>1. T \subseteq Nat
    OBVIOUS
  <2> HIDE DEF T
  <2> QED
    BY <2>1, Smallest
<1>3. p \in 1..n /\ p \notin B /\ p - 1 \in 0..n /\ p - 1 # n /\ (p - 1) + 1 = p
  OBVIOUS
<1>4. \A k \in 0..(p - 1) : k \in B
  BY <1>2, <1>3
<1> HIDE DEF T
<1>5. p - 1 \in B
  BY <1>3, <1>4
<1>6. PICK l \in 0..n : l = p - 1
  BY <1>3
<1>7. instrs[p].op = "GOTO"
  <2>1. instrs[l + 1].op # "GOTO" => l + 1 \in B
    BY <1>1, <1>3, <1>5, <1>6, Continues
  <2> QED
    BY <1>3, <1>6, <2>1
<1>8. PICK k \in 1..(p - 1) : instrs[k].op \in Jumps /\ instrs[k].dest = Label(p)
  BY <1>1, <1>3, <1>7 DEF GotosPassed
<1>9. PICK j \in 0..n : j = k - 1 /\ j # n /\ j \in B
  BY <1>3, <1>4
<1>10. instrs[j + 1].op \in Jumps => LabelOf(j + 1) \in B
  BY <1>1, <1>9, Continues
<1>11. j + 1 = k
  BY <1>3, <1>9
<1>12. LabelOf(k) = p
  BY <1>8 DEF LabelOf, Label
<1> QED
  BY <1>3, <1>8, <1>10, <1>11, <1>12

(* What falls through from a place of B stays in B. *)
LEMMA FallsWithin ==
  ASSUME NEW n \in Nat, n = Len(instrs), NEW B, Closed(B),
         NEW v \in 0..n, v \in B, NEW g \in 1..n, v < g, Falls(v + 1, g - 1)
  PROVE  g - 1 \in B
<1> DEFINE T == (v..(g - 1)) \ B
<1> SUFFICES ASSUME T # {} PROVE FALSE
  OBVIOUS
<1>1. PICK p \in T : \A k \in T : p <= k
  <2>1. T \subseteq Nat
    OBVIOUS
  <2> HIDE DEF T
  <2> QED
    BY <2>1, Smallest
<1>2. p \in (v + 1)..(g - 1) /\ p \notin B /\ p \in 1..n
  OBVIOUS
<1>3. PICK l \in 0..n : l = p - 1 /\ l # n /\ l \in B /\ l + 1 = p
  BY <1>1, <1>2
<1> HIDE DEF T
<1>4. instrs[p].op # "GOTO"
  BY <1>2 DEF Falls
<1>5. instrs[l + 1].op # "GOTO" => l + 1 \in B
  BY <1>3, Continues
<1> QED
  BY <1>2, <1>3, <1>4, <1>5

(* From the last place that is reached there would be a way on. *)
LEMMA EndReached ==
  ASSUME Len(instrs) \in Nat, DOMAIN instrs = 1..Len(instrs),
         Resolved(instrs), LoopsLeft,
         NEW B, B \subseteq Places, Closed(B), B # {}
  PROVE  Len(instrs) \in B
<1>1. PICK n \in Nat : n = Len(instrs)
  OBVIOUS
<1>2. B \subseteq 0..n
  BY <1>1 DEF Places
<1> DEFINE T == {n - x : x \in B}
<1>3. PICK p \in B : \A x \in B : x <= p
  <2>1. T \subseteq Nat /\ T # {}
    <3>1. \A x \in B : n - x \in Nat
      BY <1>2
    <3>2. PICK x : x \in B
      OBVIOUS
    <3>3. n - x \in T
      BY <3>2
    <3> QED
      BY <3>1, <3>3
  <2>2. PICK m \in T : \A k \in T : m <= k
    <3> HIDE DEF T
    <3> QED
      BY <2>1, Smallest
  <2>3. PICK p \in B : m = n - p
    OBVIOUS
  <2>4. \A x \in B : n - p <= n - x
    BY <2>2, <2>3
  <2>5. \A x \in B : x <= p
    BY <1>2, <2>4
  <2> QED
    BY <2>5
<1> HIDE DEF T
<1>4. p \in 0..n
  BY <1>2
<1> SUFFICES ASSUME p # n PROVE FALSE
  BY <1>1
<1>5. PICK k \in 1..n : k = p + 1 /\ k \notin B
  <2>1. p + 1 \in 1..n
    BY <1>4
  <2>2. p + 1 \notin B
    BY <1>3, <1>4
  <2> QED
    BY <2>1, <2>2
<1>6. /\ instrs[p + 1].op # "GOTO" => p + 1 \in B
      /\ instrs[p + 1].op \in Jumps => LabelOf(p + 1) \in B
  BY <1>1, <1>3, <1>4, Continues
<1>7. instrs[k].op = "GOTO" /\ instrs[k].op \in Jumps /\ LabelOf(k) \in B
  BY <1>5, <1>6 DEF Jumps
<1>8. PICK v \in 0..n : v = instrs[k].dest.val /\ v \in B
  BY <1>2, <1>7 DEF LabelOf
<1>9. v < k
  BY <1>3, <1>4, <1>5, <1>8
<1>10. LeavesBehind(k)
  <2>1. instrs[k].dest # Label(NULL)
    BY <1>8, CodeAssumption DEF Label
  <2>2. ~(instrs[k].dest.val >= k)
    BY <1>8, <1>9
  <2> QED
    BY <1>1, <1>5, <1>7, <2>1, <2>2 DEF LoopsLeft
<1>11. PICK g \in (v + 1)..(k - 1) :
         /\ instrs[g].op = "GOTO" /\ instrs[g].dest = Label(k)
         /\ Falls(v + 1, g - 1)
  BY <1>8, <1>10 DEF LeavesBehind
<1>12. g \in 1..n /\ v < g
  BY <1>5, <1>8, <1>11
<1>13. g - 1 \in B
  BY <1>1, <1>8, <1>11, <1>12, FallsWithin
<1>14. PICK l \in 0..n : l = g - 1 /\ l # n /\ l + 1 = g
  BY <1>12
<1>15. LabelOf(g) = k
  BY <1>11 DEF LabelOf, Label
<1>16. instrs[l + 1].op \in Jumps => LabelOf(l + 1) \in B
  BY <1>1, <1>13, <1>14, Continues
<1> QED
  BY <1>5, <1>11, <1>14, <1>15, <1>16 DEF Jumps

(* Together: what is reached from the first instruction is everything, and  *)
(* what is reached from any of them contains the end.                       *)
LEMMA ConnectedCode ==
  LabelInv /\ FlowInv => CodeConnected
<1> SUFFICES ASSUME LabelInv, FlowInv, Analysed, InPlace
             PROVE  /\ ReachedFrom(0) = 0..Len(instrs)
                    /\ \A l \in 0..Len(instrs) : Len(instrs) \in ReachedFrom(l)
  BY DEF CodeConnected
<1>1. /\ Len(instrs) \in Nat /\ DOMAIN instrs = 1..Len(instrs)
  BY LenProperties DEF LabelInv, CodeInv, FrameInv, TypeOK
<1>2. Resolved(instrs)
  BY ResolvedLabels DEF LabelsResolved
<1>3. GotosPassed /\ LoopsLeft
  BY DEF FlowInv, InPlace
<1>4. Closed(Places)
  BY <1>1, <1>2, PlacesClosed
<1>5. ReachedFrom(0) = Places
  <2>1. 0 \in Places
    BY <1>1 DEF Places
  <2>2. PICK B : B = ReachedFrom(0)
    OBVIOUS
  <2>3. B \subseteq Places /\ 0 \in B /\ Closed(B)
    BY <1>1, <1>4, <2>1, <2>2, ReachedClosed
  <2> QED
    BY <1>1, <1>3, <2>2, <2>3, AllReached
<1>6. ASSUME NEW l \in Places PROVE Len(instrs) \in ReachedFrom(l)
  <2>1. PICK B : B = ReachedFrom(l)
    OBVIOUS
  <2>2. B \subseteq Places /\ l \in B /\ Closed(B)
    BY <1>1, <1>4, <2>1, ReachedClosed
  <2>3. B # {}
    BY <2>2
  <2> QED
    BY <1>1, <1>2, <1>3, <2>1, <2>2, <2>3, EndReached
<1> QED
  BY <1>5, <1>6 DEF Places

(***************************************************************************)
(* The code hangs together, for every tree that is Analysable: wherever    *)
(* control is, the end can be reached, and every instruction is reached    *)
(* from the first.                                                         *)
(***************************************************************************)
THEOREM CodeAlwaysConnected == Spec => []CodeConnected
BY FlowInvariance, ConnectedCode, PTL

-----------------------------------------------------------------------------
(* The places of the nonterminal children of a node, *)
Visits(n) ==
  {i \in DOMAIN nodes[n].children : nodes[n].children[i].type \in NonTerminals}

(* where every kind of node has them. *)
LEMMA KidPlaces ==
  ASSUME nodes \in Trees, NEW n \in DOMAIN nodes
  PROVE  /\ Arity(nodes, n) \in Nat /\ DOMAIN nodes[n].children = 1..Arity(nodes, n)
         /\ nodes[n].nt = "source" => {2, 4} \subseteq Visits(n)
         /\ nodes[n].nt = "statements" => 1..Arity(nodes, n) \subseteq Visits(n)
         /\ nodes[n].nt = "assign" => 3 \in Visits(n)
         /\ nodes[n].nt = "output" => 2 \in Visits(n)
         /\ nodes[n].nt = "branch" => {3, 6, 8} \subseteq Visits(n)
         /\ nodes[n].nt = "loop" => {3, 6} \subseteq Visits(n)
         /\ nodes[n].nt = "repeat" => {2, 5} \subseteq Visits(n)
         /\ nodes[n].nt = "condition" => {1, 3} \subseteq Visits(n)
         /\ nodes[n].nt \in {"expression", "term"} =>
              /\ Arity(nodes, n) % 2 = 1
              /\ \A i \in 1..Arity(nodes, n) : i % 2 = 1 => i \in Visits(n)
         /\ nodes[n].nt = "factor" /\ Word(nodes, n, 1) \in {"PLUS", "MINUS", "LPAREN"}
              => 2 \in Visits(n)
<1>1. /\ nodes[n] \in Node /\ Readable(nodes[n])
      /\ nodes[n].children \in Seq(Child)
  BY TreeFacts
<1>2. Arity(nodes, n) \in Nat /\ DOMAIN nodes[n].children = 1..Arity(nodes, n)
  BY <1>1, LenProperties DEF Arity
<1>3. \A i \in Nat : \A kinds : Has(Kinds(nodes[n]), i, kinds) =>
        i \in DOMAIN nodes[n].children /\ nodes[n].children[i].type \in kinds
  BY <1>1, HasKid
<1>4. \A i \in Nat : \A kinds : Has(Kinds(nodes[n]), i, kinds) /\ kinds \subseteq NonTerminals
        => i \in Visits(n)
  BY <1>3 DEF Visits
<1>5. \A k \in NonTerminals : {k} \subseteq NonTerminals
  OBVIOUS
<1>6. {"variables", "statements", "expression", "term", "factor", "condition"}
        \subseteq NonTerminals /\ Statements \subseteq NonTerminals
  BY DEF NonTerminals, Statements
<1>7. /\ nodes[n].nt = "source" => {2, 4} \subseteq Visits(n)
      /\ nodes[n].nt = "assign" => 3 \in Visits(n)
      /\ nodes[n].nt = "output" => 2 \in Visits(n)
      /\ nodes[n].nt = "branch" => {3, 6, 8} \subseteq Visits(n)
      /\ nodes[n].nt = "loop" => {3, 6} \subseteq Visits(n)
      /\ nodes[n].nt = "repeat" => {2, 5} \subseteq Visits(n)
      /\ nodes[n].nt = "condition" => {1, 3} \subseteq Visits(n)
  BY <1>1, <1>4, <1>5, <1>6 DEF Readable
<1>8. DOMAIN Kinds(nodes[n]) = 1..Arity(nodes, n)
      /\ Len(Kinds(nodes[n])) = Arity(nodes, n)
      /\ \A i \in 1..Arity(nodes, n) :
           Kinds(nodes[n])[i] = nodes[n].children[i].type
  <2>1. Kinds(nodes[n]) = [i \in 1..Arity(nodes, n) |-> nodes[n].children[i].type]
    BY DEF Kinds, Arity
  <2>2. DOMAIN Kinds(nodes[n]) = 1..Arity(nodes, n)
    BY <2>1
  <2>3. Kinds(nodes[n]) \in Seq({nodes[n].children[i].type : i \in 1..Arity(nodes, n)})
    BY <1>2, <2>1, SeqDef
  <2> QED
    BY <1>2, <2>1, <2>2, <2>3, LenProperties
<1>9. ASSUME nodes[n].nt = "statements"
      PROVE  1..Arity(nodes, n) \subseteq Visits(n)
  BY <1>1, <1>2, <1>6, <1>8, <1>9 DEF Readable, Visits
<1>10. ASSUME nodes[n].nt \in {"expression", "term"}
       PROVE  /\ Arity(nodes, n) % 2 = 1
              /\ \A i \in 1..Arity(nodes, n) : i % 2 = 1 => i \in Visits(n)
  <2>1. \E o \in NonTerminals : \E os : ChainReadable(Kinds(nodes[n]), o, os)
    BY <1>1, <1>6, <1>10 DEF Readable
  <2>2. PICK o \in NonTerminals : \E os : ChainReadable(Kinds(nodes[n]), o, os)
    BY <2>1
  <2>3. Arity(nodes, n) % 2 = 1
    BY <1>8, <2>2 DEF ChainReadable
  <2>4. \A i \in 1..Arity(nodes, n) : i % 2 = 1 => nodes[n].children[i].type = o
    BY <1>8, <2>2 DEF ChainReadable
  <2> QED
    BY <1>2, <2>3, <2>4 DEF Visits
<1>11. ASSUME nodes[n].nt = "factor",
              Word(nodes, n, 1) \in {"PLUS", "MINUS", "LPAREN"}
       PROVE  2 \in Visits(n)
  <2>1. FactorReadable(Kinds(nodes[n]))
    BY <1>1, <1>11 DEF Readable
  <2>2. \/ Has(Kinds(nodes[n]), 2, {"factor"})
        \/ Has(Kinds(nodes[n]), 2, {"expression"})
    BY <1>3, <1>11, <2>1 DEF FactorReadable, Word
  <2> QED
    BY <1>4, <1>5, <1>6, <2>2
<1> QED
  BY <1>2, <1>7, <1>9, <1>10, <1>11

-----------------------------------------------------------------------------
(* Two translations agree on a child, *)
Alike(t, u, n, i) ==
  /\ From(nodes, u, n, i) = From(nodes, t, n, i)
  /\ To(nodes, u, n, i) = To(nodes, t, n, i)
  /\ Opd(nodes, u, n, i) = Opd(nodes, t, n, i)

(* and a code is a longer one, but for the labels that are not yet set, of  *)
(* which those of ks are not set either.                                    *)
Extends(code, longer, ks) ==
  /\ Len(code) \in Nat /\ Len(longer) \in Nat /\ Len(code) <= Len(longer)
  /\ \A k \in 1..Len(code) :
       code[k].dest # Label(NULL) \/ k \in ks => longer[k] = code[k]

(* An instruction that nobody is going to patch stays where it was put, *)
LEMMA PutsKept ==
  ASSUME NEW code, NEW longer, NEW ks, Extends(code, longer, ks),
         NEW l \in Nat, NEW i, Puts(code, l, i),
         i.dest # Label(NULL) \/ l + 1 \in ks
  PROVE  Puts(longer, l, i) /\ longer[l + 1] = code[l + 1]
<1>1. l + 1 \in 1..Len(code) /\ code[l + 1] = i
  BY DEF Puts
<1>2. longer[l + 1] = code[l + 1]
  BY <1>1 DEF Extends
<1>3. l + 1 \in 1..Len(longer)
  BY <1>1 DEF Extends
<1> QED
  BY <1>1, <1>2, <1>3 DEF Puts

(* What is combined stays so. *)
LEMMA ValueKept ==
  ASSUME NEW code, NEW longer, NEW ks, Extends(code, longer, ks),
         NEW t, NEW u, NEW n, NEW k \in Nat,
         Alike(t, u, n, k), To(nodes, t, n, k) \in Nat,
         k = 1 \/ Combines(nodes, code, t, n, k)
  PROVE  /\ End(nodes, u, n, k) = End(nodes, t, n, k)
         /\ Value(nodes, longer, u, n, k) = Value(nodes, code, t, n, k)
<1>1. End(nodes, u, n, k) = End(nodes, t, n, k)
  BY DEF End, Alike
<1>2. CASE k = 1
  BY <1>1, <1>2 DEF Value, Alike
<1>3. CASE k # 1 /\ Combines(nodes, code, t, n, k)
  <2>1. PICK i : /\ Puts(code, To(nodes, t, n, k), i)
                 /\ i.dest = Value(nodes, code, t, n, k)
    BY <1>3 DEF Combines, Instr
  <2>2. i.dest.type = "TEMPORARY"
    BY <1>3, <2>1 DEF Combines
  <2>3. i.dest # Label(NULL)
    BY <2>2 DEF Label
  <2>4. longer[To(nodes, t, n, k) + 1] = code[To(nodes, t, n, k) + 1]
    BY <2>1, <2>3, PutsKept
  <2> QED
    BY <1>1, <1>3, <2>4 DEF Value, Alike
<1> QED
  BY <1>2, <1>3

ChainAlike(t, u, n, k) ==
  \A i \in 1..k : i % 2 = 1 => Alike(t, u, n, i) /\ To(nodes, t, n, i) \in Nat

(* and with it what a chain has combined. *)
LEMMA ChainKept ==
  ASSUME NEW code, NEW longer, NEW ks, Extends(code, longer, ks),
         NEW t, NEW u, NEW n, NEW k \in Int, u.from[n] = t.from[n],
         ChainAlike(t, u, n, k),
         ChainUpTo(nodes, code, t, n, k)
  PROVE  /\ ChainUpTo(nodes, longer, u, n, k)
         /\ \A i \in 1..k : i % 2 = 1 =>
              /\ End(nodes, u, n, i) = End(nodes, t, n, i)
              /\ Value(nodes, longer, u, n, i) = Value(nodes, code, t, n, i)
<1> USE DEF ChainAlike
<1>1. ASSUME NEW i \in 1..k, i % 2 = 1
      PROVE  /\ End(nodes, u, n, i) = End(nodes, t, n, i)
             /\ Value(nodes, longer, u, n, i) = Value(nodes, code, t, n, i)
  <2>1. i = 1 \/ Combines(nodes, code, t, n, i)
    BY <1>1 DEF ChainUpTo
  <2> QED
    BY <1>1, <2>1, ValueKept
<1>2. ASSUME NEW i \in 2..k, i % 2 = 1
      PROVE  Combines(nodes, longer, u, n, i)
  <2>1. i \in 1..k /\ i - 2 \in 1..k /\ (i - 2) % 2 = 1 /\ i # 1
    BY <1>2
  <2>2. Combines(nodes, code, t, n, i)
    BY <1>2 DEF ChainUpTo
  <2>3. PICK j : j = Instr(OpOf[Word(nodes, n, i - 1)],
                           Value(nodes, code, t, n, i - 2),
                           Opd(nodes, t, n, i), Value(nodes, code, t, n, i))
    OBVIOUS
  <2>4. j.dest # Label(NULL)
    <3>1. j.dest.type = "TEMPORARY"
      BY <2>2, <2>3 DEF Combines, Instr
    <3> QED
      BY <3>1 DEF Label
  <2>5. Puts(longer, To(nodes, t, n, i), j)
    BY <1>2, <2>1, <2>2, <2>3, <2>4, PutsKept DEF Combines
  <2>6. Alike(t, u, n, i)
    BY <1>2, <2>1
  <2> QED
    BY <1>1, <1>2, <2>1, <2>2, <2>3, <2>5, <2>6 DEF Combines, Alike
<1>3. k >= 1 => From(nodes, u, n, 1) = u.from[n]
  <2> SUFFICES ASSUME k >= 1 PROVE From(nodes, u, n, 1) = u.from[n]
    OBVIOUS
  <2>1. 1 \in 1..k
    OBVIOUS
  <2> QED
    BY <2>1 DEF ChainUpTo, Alike
<1> QED
  BY <1>1, <1>2, <1>3 DEF ChainUpTo

-----------------------------------------------------------------------------
(* The children of a node have their places. *)
LEMMA PlacesOfKids ==
  ASSUME nodes \in Trees, NEW t \in Translations(nodes),
         NEW n \in DOMAIN nodes, NEW i \in Visits(n)
  PROVE  /\ Sub(nodes, n, i) \in DOMAIN nodes
         /\ From(nodes, t, n, i) \in Nat /\ To(nodes, t, n, i) \in Nat
         /\ Opd(nodes, t, n, i) \in Operand
<1>1. Sub(nodes, n, i) \in DOMAIN nodes
  BY ChildFacts DEF Visits, Sub
<1> QED
  BY <1>1 DEF Translations, From, To, Opd

(* A label that is written where it was awaited. *)
LEMMA LabelSet ==
  /\ \A l \in Nat : Label(l) # Label(NULL)
  /\ \A o : o.type # "LABEL" => o # Label(NULL)
BY CodeAssumption DEF Label

(* The label of an instruction that jumps, and of the others. *)
LEMMA DestOf ==
  /\ \A l : Jump(l).dest = Label(l)
  /\ \A o, l : Test(o, l).dest = Label(l)
  /\ \A op, a, b, o : Instr(op, a, b, o).dest = o
  /\ Unset # Label(NULL) /\ \A x : Symbol(x) # Label(NULL)
BY CodeAssumption DEF Jump, Test, Instr, Label, Unset, Symbol

(* What is translated stays so. *)
LEMMA TranslatesKept ==
  ASSUME nodes \in Trees, NEW n \in DOMAIN nodes,
         NEW code, NEW longer, NEW ks, Extends(code, longer, ks),
         NEW t \in Translations(nodes), NEW u,
         u.from[n] = t.from[n], u.to[n] = t.to[n], u.opd[n] = t.opd[n],
         \A i \in Visits(n) : Alike(t, u, n, i),
         Translates(nodes, code, t, n)
  PROVE  Translates(nodes, longer, u, n)
<1>1. \A i \in Visits(n) : /\ From(nodes, t, n, i) \in Nat
                           /\ To(nodes, t, n, i) \in Nat
  BY PlacesOfKids
<1>2. t.from[n] \in Nat /\ t.to[n] \in Nat
  BY DEF Translations
<1>3. u.from[n] <= u.to[n] /\ u.to[n] <= Len(longer)
  BY <1>2 DEF Translates, Extends
<1>4. CASE nodes[n].nt = "source"
  <2>1. 2 \in Visits(n) /\ 4 \in Visits(n)
    BY <1>4, KidPlaces
  <2>2. TranslatesSource(nodes, t, n)
    BY <1>4 DEF Translates
  <2>3. TranslatesSource(nodes, u, n)
    BY <2>1, <2>2 DEF TranslatesSource, Alike
  <2> QED
    BY <1>3, <1>4, <2>3 DEF Translates
<1>5. CASE nodes[n].nt = "variables"
  <2>1. u.to[n] = u.from[n]
    BY <1>5 DEF Translates
  <2> QED
    BY <1>3, <1>5, <2>1 DEF Translates
<1>6. CASE nodes[n].nt = "statements"
  <2>1. PICK k \in Nat : k = Arity(nodes, n) /\ 1..k \subseteq Visits(n)
    BY <1>6, KidPlaces
  <2>2. ListUpTo(nodes, t, n, k) /\ t.to[n] = ListEnd(nodes, t, n, k)
    BY <1>6, <2>1 DEF Translates
  <2>3. \A i \in 0..k : ListEnd(nodes, u, n, i) = ListEnd(nodes, t, n, i)
    <3> TAKE i \in 0..k
    <3>1. i # 0 => Alike(t, u, n, i)
      BY <2>1
    <3> QED
      BY <3>1 DEF ListEnd, Alike
  <2>4. ListUpTo(nodes, u, n, k)
    <3> SUFFICES ASSUME NEW i \in 1..k
                 PROVE  From(nodes, u, n, i) = ListEnd(nodes, u, n, i - 1)
      BY DEF ListUpTo
    <3>1. Alike(t, u, n, i) /\ i - 1 \in 0..k
      BY <2>1
    <3> QED
      BY <2>2, <2>3, <3>1 DEF ListUpTo, Alike
  <2>5. u.to[n] = ListEnd(nodes, u, n, k)
    BY <2>1, <2>2, <2>3
  <2> QED
    BY <1>3, <1>6, <2>1, <2>4, <2>5 DEF Translates
<1>7. CASE nodes[n].nt = "assign"
  <2>1. 3 \in Visits(n)
    BY <1>7, KidPlaces
  <2>2. TranslatesAssign(nodes, code, t, n)
    BY <1>7 DEF Translates
  <2>3. TranslatesAssign(nodes, longer, u, n)
    BY <1>1, <2>1, <2>2, PutsKept, DestOf DEF TranslatesAssign, Alike
  <2> QED
    BY <1>3, <1>7, <2>3 DEF Translates
<1>8. CASE nodes[n].nt = "input"
  <2>1. TranslatesInput(nodes, code, t, n)
    BY <1>8 DEF Translates
  <2>2. TranslatesInput(nodes, longer, u, n)
    BY <1>2, <2>1, PutsKept, DestOf DEF TranslatesInput
  <2> QED
    BY <1>3, <1>8, <2>2 DEF Translates
<1>9. CASE nodes[n].nt = "output"
  <2>1. 2 \in Visits(n)
    BY <1>9, KidPlaces
  <2>2. TranslatesOutput(nodes, code, t, n)
    BY <1>9 DEF Translates
  <2>3. TranslatesOutput(nodes, longer, u, n)
    BY <1>1, <2>1, <2>2, PutsKept, DestOf DEF TranslatesOutput, Alike
  <2> QED
    BY <1>3, <1>9, <2>3 DEF Translates
<1>10. CASE nodes[n].nt = "branch"
  <2>1. 3 \in Visits(n) /\ 6 \in Visits(n) /\ 8 \in Visits(n)
    BY <1>10, KidPlaces
  <2>2. TranslatesBranch(nodes, code, t, n)
    BY <1>10 DEF Translates
  <2>3. /\ Puts(longer, To(nodes, t, n, 3),
                Test(Opd(nodes, t, n, 3), From(nodes, t, n, 6)))
        /\ Puts(longer, To(nodes, t, n, 8), Jump(t.to[n]))
    BY <1>1, <1>2, <2>1, <2>2, PutsKept, DestOf, LabelSet DEF TranslatesBranch
  <2>4. TranslatesBranch(nodes, longer, u, n)
    BY <2>1, <2>2, <2>3 DEF TranslatesBranch, Alike
  <2> QED
    BY <1>3, <1>10, <2>4 DEF Translates
<1>11. CASE nodes[n].nt = "loop"
  <2>1. 3 \in Visits(n) /\ 6 \in Visits(n)
    BY <1>11, KidPlaces
  <2>2. TranslatesLoop(nodes, code, t, n)
    BY <1>11 DEF Translates
  <2>3. To(nodes, t, n, 3) + 1 \in Nat
    BY <1>1, <2>1
  <2>4. /\ Puts(longer, To(nodes, t, n, 3),
                Test(Opd(nodes, t, n, 3), From(nodes, t, n, 6)))
        /\ Puts(longer, To(nodes, t, n, 3) + 1, Jump(t.to[n]))
        /\ Puts(longer, To(nodes, t, n, 6), Jump(t.from[n]))
    BY <1>1, <1>2, <2>1, <2>2, <2>3, PutsKept, DestOf, LabelSet
       DEF TranslatesLoop
  <2>5. TranslatesLoop(nodes, longer, u, n)
    BY <2>1, <2>2, <2>4 DEF TranslatesLoop, Alike
  <2> QED
    BY <1>3, <1>11, <2>5 DEF Translates
<1>12. CASE nodes[n].nt = "repeat"
  <2>1. 2 \in Visits(n) /\ 5 \in Visits(n)
    BY <1>12, KidPlaces
  <2>2. TranslatesRepeat(nodes, code, t, n)
    BY <1>12 DEF Translates
  <2>3. Puts(longer, To(nodes, t, n, 5), Test(Opd(nodes, t, n, 5), t.from[n]))
    BY <1>1, <1>2, <2>1, <2>2, PutsKept, DestOf, LabelSet DEF TranslatesRepeat
  <2>4. TranslatesRepeat(nodes, longer, u, n)
    BY <2>1, <2>2, <2>3 DEF TranslatesRepeat, Alike
  <2> QED
    BY <1>3, <1>12, <2>4 DEF Translates
<1>13. CASE nodes[n].nt = "condition"
  <2>1. 1 \in Visits(n) /\ 3 \in Visits(n)
    BY <1>13, KidPlaces
  <2>2. TranslatesCondition(nodes, code, t, n)
    BY <1>13 DEF Translates
  <2>3. t.opd[n] # Label(NULL)
    BY <2>2, LabelSet DEF TranslatesCondition
  <2>4. Puts(longer, To(nodes, t, n, 3),
             Instr(Word(nodes, n, 2), Opd(nodes, t, n, 1), Opd(nodes, t, n, 3),
                   t.opd[n]))
    BY <1>1, <2>1, <2>2, <2>3, PutsKept, DestOf DEF TranslatesCondition
  <2>5. TranslatesCondition(nodes, longer, u, n)
    BY <2>1, <2>2, <2>4 DEF TranslatesCondition, Alike
  <2> QED
    BY <1>3, <1>13, <2>5 DEF Translates
<1>14. CASE nodes[n].nt \in {"expression", "term"}
  <2>1. PICK k \in Nat : /\ k = Arity(nodes, n) /\ k % 2 = 1
                         /\ \A i \in 1..k : i % 2 = 1 => i \in Visits(n)
    BY <1>14, KidPlaces
  <2>2. TranslatesChain(nodes, code, t, n)
    BY <1>14 DEF Translates
  <2>3. /\ ChainUpTo(nodes, longer, u, n, k)
        /\ \A i \in 1..k : i % 2 = 1 =>
             /\ End(nodes, u, n, i) = End(nodes, t, n, i)
             /\ Value(nodes, longer, u, n, i) = Value(nodes, code, t, n, i)
    <3>1. k \in Int /\ ChainUpTo(nodes, code, t, n, k)
      BY <2>1, <2>2 DEF TranslatesChain
    <3>2. ChainAlike(t, u, n, k)
      BY <1>1, <2>1 DEF ChainAlike
    <3> QED
      BY <3>1, <3>2, ChainKept
  <2>4. k \in 1..k
    BY <2>1
  <2>5. TranslatesChain(nodes, longer, u, n)
    BY <2>1, <2>2, <2>3, <2>4 DEF TranslatesChain
  <2> QED
    BY <1>3, <1>14, <2>5 DEF Translates
<1>15. CASE nodes[n].nt = "factor"
  <2>1. Word(nodes, n, 1) \in {"PLUS", "MINUS", "LPAREN"} => 2 \in Visits(n)
    BY <1>15, KidPlaces
  <2>2. TranslatesFactor(nodes, code, t, n)
    BY <1>15 DEF Translates
  <2>3. Word(nodes, n, 1) \in {"PLUS", "MINUS"} =>
          Puts(longer, To(nodes, t, n, 2),
               Instr(SignOf[Word(nodes, n, 1)], Opd(nodes, t, n, 2), Unset,
                     t.opd[n]))
    <3> SUFFICES ASSUME Word(nodes, n, 1) \in {"PLUS", "MINUS"}
                 PROVE  Puts(longer, To(nodes, t, n, 2),
                             Instr(SignOf[Word(nodes, n, 1)],
                                   Opd(nodes, t, n, 2), Unset, t.opd[n]))
      OBVIOUS
    <3>1. t.opd[n] # Label(NULL)
      BY <2>2, LabelSet DEF TranslatesFactor
    <3> QED
      BY <1>1, <2>1, <2>2, <3>1, PutsKept, DestOf DEF TranslatesFactor
  <2>4. TranslatesFactor(nodes, longer, u, n)
    BY <2>1, <2>2, <2>3 DEF TranslatesFactor, Alike
  <2> QED
    BY <1>3, <1>15, <2>4 DEF Translates
<1> QED
  <2>1. nodes[n].nt \in NonTerminals
    BY TreeFacts
  <2> QED
    BY <1>4, <1>5, <1>6, <1>7, <1>8, <1>9, <1>10, <1>11, <1>12, <1>13, <1>14,
       <1>15, <2>1 DEF NonTerminals

-----------------------------------------------------------------------------
(* The children that have returned while a caller waits. *)
Heard(a) ==
  {i \in Visits(a.node) : Begun(a, i) /\ i # Called(KindOf(a), a.step)}

(* What has been said of the children holds of a translation like it. *)
LEMMA HeardKids ==
  ASSUME nodes \in Trees, NEW a \in Activation, a.node \in DOMAIN nodes
  PROVE  /\ KindOf(a) = "source" /\ a.step = 3 => 2 \in Heard(a)
         /\ KindOf(a) = "branch" /\ a.step \in 3..4 => 3 \in Heard(a)
         /\ KindOf(a) = "branch" /\ a.step = 4 => 8 \in Heard(a)
         /\ KindOf(a) = "loop" /\ a.step = 4 => 3 \in Heard(a)
         /\ KindOf(a) = "repeat" /\ a.step = 3 => 2 \in Heard(a)
         /\ KindOf(a) = "condition" /\ a.step = 3 => 1 \in Heard(a)
         /\ KindOf(a) = "statements" /\ a.step - 1 \in 1..Arity(nodes, a.node) =>
              1..(a.step - 2) \subseteq Heard(a)
         /\ KindOf(a) \in {"expression", "term"}
            /\ a.step - 2 \in 1..Arity(nodes, a.node) =>
              \A i \in 1..(a.step - 4) : i % 2 = 1 => i \in Heard(a)
<1>1. a.step \in Nat
  BY DEF Activation
<1>2. PICK m \in Nat : m = Arity(nodes, a.node)
  BY KidPlaces
<1>3. /\ KindOf(a) = "source" /\ a.step = 3 => 2 \in Heard(a)
      /\ KindOf(a) = "branch" /\ a.step \in 3..4 => 3 \in Heard(a)
      /\ KindOf(a) = "branch" /\ a.step = 4 => 8 \in Heard(a)
      /\ KindOf(a) = "loop" /\ a.step = 4 => 3 \in Heard(a)
      /\ KindOf(a) = "repeat" /\ a.step = 3 => 2 \in Heard(a)
      /\ KindOf(a) = "condition" /\ a.step = 3 => 1 \in Heard(a)
  BY <1>1, KidPlaces, AfterFacts DEF Heard, Begun, Called, KindOf
<1>4. ASSUME KindOf(a) = "statements", a.step - 1 \in 1..m,
             NEW i \in 1..(a.step - 2)
      PROVE  i \in Heard(a)
  <2>1. i \in 1..m /\ 1..m \subseteq Visits(a.node)
    BY <1>1, <1>2, <1>4, KidPlaces DEF KindOf
  <2>2. After(KindOf(a), i) = i + 1 /\ Called(KindOf(a), a.step) = a.step - 1
    BY <1>4, AfterFacts DEF Called
  <2> QED
    BY <1>1, <1>4, <2>1, <2>2 DEF Heard, Begun
<1>5. ASSUME KindOf(a) \in {"expression", "term"}, a.step - 2 \in 1..m,
             NEW i \in 1..(a.step - 4), i % 2 = 1
      PROVE  i \in Heard(a)
  <2>1. i \in 1..m /\ i \in Visits(a.node)
    BY <1>1, <1>2, <1>5, KidPlaces DEF KindOf
  <2>2. After(KindOf(a), i) = i + 1 /\ Called(KindOf(a), a.step) = a.step - 2
    BY <1>5, AfterFacts DEF Called
  <2> QED
    BY <1>1, <1>5, <2>1, <2>2 DEF Heard, Begun
<1> QED
  BY <1>2, <1>3, <1>4, <1>5

(* A caller that waits is not disturbed. *)
LEMMA WaitsKept ==
  ASSUME nodes \in Trees, NEW a \in Activation, a.node \in DOMAIN nodes,
         NEW code, NEW longer, NEW ks, Extends(code, longer, ks),
         NEW t \in Translations(nodes), NEW u,
         u.from[a.node] = t.from[a.node],
         \A i \in Heard(a) : Alike(t, u, a.node, i),
         \A k \in 1..Len(code) : Awaits(a, k) => k \in ks,
         NEW os, NEW h \in Nat, Waits(nodes, code, t, a, os, h)
  PROVE  Waits(nodes, longer, u, a, os, h)
<1> DEFINE n == a.node
<1>1. \A i \in Heard(a) : /\ From(nodes, t, n, i) \in Nat
                          /\ To(nodes, t, n, i) \in Nat
  BY PlacesOfKids DEF Heard
<1>2. a.step \in Nat /\ nodes[n].nt = KindOf(a)
  BY DEF Activation, KindOf
<1>3. CASE KindOf(a) = "source"
  <2>1. WaitsInSource(nodes, t, a, h)
    BY <1>2, <1>3 DEF Waits
  <2>2. a.step = 3 => 2 \in Heard(a)
    BY <1>3, HeardKids
  <2>3. WaitsInSource(nodes, u, a, h)
    BY <2>1, <2>2 DEF WaitsInSource, Alike
  <2> QED
    BY <1>2, <1>3, <2>3 DEF Waits
<1>4. CASE KindOf(a) = "statements"
  <2>1. WaitsInList(nodes, t, a, h)
    BY <1>2, <1>4 DEF Waits
  <2>2. PICK k \in Int : k = a.step - 2
    BY <1>2
  <2>3. /\ a.step - 1 \in 1..Arity(nodes, n) /\ ListUpTo(nodes, t, n, k)
        /\ h = ListEnd(nodes, t, n, k)
    BY <2>1, <2>2 DEF WaitsInList
  <2>4. k \in 0..k /\ 1..k \subseteq Heard(a)
    BY <1>2, <1>4, <2>2, <2>3, HeardKids
  <2>5. \A i \in 0..k : ListEnd(nodes, u, n, i) = ListEnd(nodes, t, n, i)
    <3> TAKE i \in 0..k
    <3>1. i # 0 => Alike(t, u, n, i)
      BY <2>4
    <3> QED
      BY <3>1 DEF ListEnd, Alike
  <2>6. ListUpTo(nodes, u, n, k)
    <3> SUFFICES ASSUME NEW i \in 1..k
                 PROVE  From(nodes, u, n, i) = ListEnd(nodes, u, n, i - 1)
      BY DEF ListUpTo
    <3>1. Alike(t, u, n, i) /\ i - 1 \in 0..k
      BY <2>4
    <3> QED
      BY <2>3, <2>5, <3>1 DEF ListUpTo, Alike
  <2>7. WaitsInList(nodes, u, a, h)
    BY <2>2, <2>3, <2>4, <2>5, <2>6 DEF WaitsInList
  <2> QED
    BY <1>2, <1>4, <2>7 DEF Waits
<1>5. CASE KindOf(a) = "branch"
  <2>1. WaitsInBranch(nodes, code, t, a, h)
    BY <1>2, <1>5 DEF Waits
  <2>2. /\ a.step \in 3..4 => 3 \in Heard(a)
        /\ a.step = 4 => 8 \in Heard(a)
    BY <1>5, HeardKids
  <2>3. ASSUME a.step = 3
        PROVE  Puts(longer, To(nodes, t, n, 3), Test(Opd(nodes, t, n, 3), NULL))
    <3>1. Puts(code, To(nodes, t, n, 3), Test(Opd(nodes, t, n, 3), NULL))
          /\ a.ptrs[1].index = To(nodes, t, n, 3) + 1
      BY <2>1, <2>3 DEF WaitsInBranch
    <3>2. To(nodes, t, n, 3) + 1 \in ks
      BY <1>5, <2>3, <3>1 DEF Puts, Awaits
    <3> QED
      BY <1>1, <2>2, <2>3, <3>1, <3>2, PutsKept
  <2>4. ASSUME a.step = 4
        PROVE  /\ Puts(longer, To(nodes, t, n, 3), Test(Opd(nodes, t, n, 3), h))
               /\ Puts(longer, To(nodes, t, n, 8), Jump(NULL))
    <3>1. /\ Puts(code, To(nodes, t, n, 3), Test(Opd(nodes, t, n, 3), h))
          /\ Puts(code, To(nodes, t, n, 8), Jump(NULL))
          /\ a.ptrs[2].index = To(nodes, t, n, 8) + 1
      BY <2>1, <2>4 DEF WaitsInBranch
    <3>2. To(nodes, t, n, 8) + 1 \in ks
      BY <1>5, <2>4, <3>1 DEF Puts, Awaits
    <3>3. Puts(longer, To(nodes, t, n, 3), Test(Opd(nodes, t, n, 3), h))
      BY <1>1, <2>2, <2>4, <3>1, PutsKept, DestOf, LabelSet
    <3>4. Puts(longer, To(nodes, t, n, 8), Jump(NULL))
      BY <1>1, <2>2, <2>4, <3>1, <3>2, PutsKept
    <3> QED
      BY <3>3, <3>4
  <2>5. WaitsInBranch(nodes, longer, u, a, h)
    BY <2>1, <2>2, <2>3, <2>4 DEF WaitsInBranch, Alike
  <2> QED
    BY <1>2, <1>5, <2>5 DEF Waits
<1>6. CASE KindOf(a) = "loop"
  <2>1. WaitsInLoop(nodes, code, t, a, h)
    BY <1>2, <1>6 DEF Waits
  <2>2. a.step = 4 => 3 \in Heard(a)
    BY <1>6, HeardKids
  <2>3. ASSUME a.step = 4
        PROVE  /\ Puts(longer, To(nodes, t, n, 3), Test(Opd(nodes, t, n, 3), h))
               /\ Puts(longer, To(nodes, t, n, 3) + 1, Jump(NULL))
    <3>1. /\ Puts(code, To(nodes, t, n, 3), Test(Opd(nodes, t, n, 3), h))
          /\ Puts(code, To(nodes, t, n, 3) + 1, Jump(NULL))
          /\ a.ptrs[2].index = To(nodes, t, n, 3) + 1 + 1
      BY <1>1, <2>1, <2>2, <2>3 DEF WaitsInLoop
    <3>2. To(nodes, t, n, 3) + 1 + 1 \in ks
      BY <1>6, <2>3, <3>1 DEF Puts, Awaits
    <3>3. Puts(longer, To(nodes, t, n, 3), Test(Opd(nodes, t, n, 3), h))
      BY <1>1, <2>2, <2>3, <3>1, PutsKept, DestOf, LabelSet
    <3>4. To(nodes, t, n, 3) + 1 \in Nat
      BY <1>1, <2>2, <2>3
    <3>5. Puts(longer, To(nodes, t, n, 3) + 1, Jump(NULL))
      BY <3>1, <3>2, <3>4, PutsKept
    <3> QED
      BY <3>3, <3>5
  <2>4. WaitsInLoop(nodes, longer, u, a, h)
    BY <2>1, <2>2, <2>3 DEF WaitsInLoop, Alike
  <2> QED
    BY <1>2, <1>6, <2>4 DEF Waits
<1>7. CASE KindOf(a) = "repeat"
  <2>1. WaitsInRepeat(nodes, t, a, h)
    BY <1>2, <1>7 DEF Waits
  <2>2. a.step = 3 => 2 \in Heard(a)
    BY <1>7, HeardKids
  <2>3. WaitsInRepeat(nodes, u, a, h)
    BY <2>1, <2>2 DEF WaitsInRepeat, Alike
  <2> QED
    BY <1>2, <1>7, <2>3 DEF Waits
<1>8. CASE KindOf(a) = "condition"
  <2>1. WaitsInCondition(nodes, t, a, os, h)
    BY <1>2, <1>8 DEF Waits
  <2>2. a.step = 3 => 1 \in Heard(a)
    BY <1>8, HeardKids
  <2>3. WaitsInCondition(nodes, u, a, os, h)
    BY <2>1, <2>2 DEF WaitsInCondition, Alike
  <2> QED
    BY <1>2, <1>8, <2>3 DEF Waits
<1>9. CASE KindOf(a) \in {"expression", "term"}
  <2>1. WaitsInChain(nodes, code, t, a, os, h)
    BY <1>2, <1>9 DEF Waits
  <2>2. PICK k \in Int : k = a.step - 4
    BY <1>2
  <2>3. /\ a.step - 2 \in 1..Arity(nodes, n) /\ a.step % 2 = 1
        /\ ChainUpTo(nodes, code, t, n, k)
    BY <2>1, <2>2 DEF WaitsInChain
  <2>4. ChainAlike(t, u, n, k)
    BY <1>1, <1>9, <2>2, <2>3, HeardKids DEF ChainAlike
  <2>5. /\ ChainUpTo(nodes, longer, u, n, k)
        /\ \A i \in 1..k : i % 2 = 1 =>
             /\ End(nodes, u, n, i) = End(nodes, t, n, i)
             /\ Value(nodes, longer, u, n, i) = Value(nodes, code, t, n, i)
    BY <2>3, <2>4, ChainKept
  <2>6. a.step # 3 => k \in 1..k /\ k % 2 = 1
    BY <1>2, <2>2, <2>3
  <2>7. WaitsInChain(nodes, longer, u, a, os, h)
    BY <2>1, <2>2, <2>5, <2>6 DEF WaitsInChain
  <2> QED
    BY <1>2, <1>9, <2>7 DEF Waits
<1>10. CASE KindOf(a) \in {"variables", "assign", "input", "output", "factor"}
  BY <1>2, <1>10 DEF Waits
<1> QED
  <2>1. KindOf(a) \in NonTerminals
    BY <1>2, TreeFacts
  <2> QED
    BY <1>3, <1>4, <1>5, <1>6, <1>7, <1>8, <1>9, <1>10, <2>1 DEF NonTerminals

-----------------------------------------------------------------------------
(* A step of an analyser that has nothing to report, while the list stays   *)
(* in place.                                                                *)
Going(done, t) ==
  /\ LabelInv /\ FlowInv /\ Chained /\ Visited(done) /\ Translated(done, t)
  /\ stack # << >> /\ Next /\ WalkStep
  /\ errs = << >> /\ errs' = << >> /\ block = 0 /\ block' = 0

(* What the callers of the function that runs are going to patch. *)
AwaitedBelow ==
  {k \in 1..Len(instrs) : \E d \in DOMAIN stack : d # Top /\ Awaits(stack[d], k)}

(* What is known then. *)
LEMMA GoingFacts ==
  ASSUME NEW done, NEW t, Going(done, t)
  PROVE  /\ FrameInv /\ CodeInv /\ PointersAtJumps /\ nodes' = nodes /\ nodes \in Trees
         /\ t \in Translations(nodes) /\ t.from[1] = 0
         /\ \A n \in done : n \in DOMAIN nodes /\ Translates(nodes, instrs, t, n)
         /\ Self.node \in DOMAIN nodes /\ Self.node \notin done
         /\ t.from[Self.node] \in Nat /\ t.from[Self.node] <= Len(instrs)
         /\ Goes(nodes, instrs, t, Self)
         /\ FlowStep /\ AnalyserStep
         /\ Len(instrs) \in Nat /\ Len(instrs') \in Nat
         /\ Len(instrs) <= Len(instrs')
<1>1. /\ FrameInv /\ CodeInv /\ PointersAtJumps /\ nodes \in Trees
      /\ TestsHoldTemporaries
  BY DEF Going, LabelInv, CodeInv, FrameInv
<1>2. FlowStep /\ AnalyserStep
  BY <1>1, NextFlow, NextStep DEF Going
<1>3. Top \in DOMAIN stack /\ stack[Top] = Self /\ Self.node \in DOMAIN nodes
  BY <1>1, SelfFacts DEF Going
<1>4. t \in Translations(nodes) /\ t.from[1] = 0
  BY DEF Going, Translated
<1>5. Self.node \notin done /\ done \subseteq DOMAIN nodes
  BY <1>3 DEF Going, Visited
<1>6. t.from[Self.node] <= Len(instrs) /\ Goes(nodes, instrs, t, Self)
  BY <1>3 DEF Going, Translated
<1>7. t.from[Self.node] \in Nat
  BY <1>3, <1>4 DEF Translations
<1>8. \A n \in done : Translates(nodes, instrs, t, n)
  BY DEF Going, Translated
<1> QED
  BY <1>1, <1>2, <1>3, <1>4, <1>5, <1>6, <1>7, <1>8, OldCode DEF FlowStep

(* An instruction is what is in its fields. *)
LEMMA SameInstruction ==
  ASSUME NEW i \in Instruction, NEW j \in Instruction,
         i.op = j.op, i.src1 = j.src1, i.src2 = j.src2, i.dest = j.dest
  PROVE  i = j
BY DEF Instruction

(* What a step leaves of the code: all but the label that it patches. *)
LEMMA CodeKept ==
  ASSUME NEW done, NEW t, Going(done, t)
  PROVE  Extends(instrs, instrs', AwaitedBelow)
<1>1. /\ FrameInv /\ FlowStep /\ AnalyserStep /\ Len(instrs) \in Nat
      /\ Len(instrs') \in Nat /\ Len(instrs) <= Len(instrs')
  BY GoingFacts
<1>2. Top \in DOMAIN stack /\ stack[Top] = Self
  BY <1>1, SelfFacts DEF Going
<1>3. ASSUME NEW k \in 1..Len(instrs),
             instrs[k].dest # Label(NULL) \/ k \in AwaitedBelow
      PROVE  instrs'[k] = instrs[k]
  <2>1. ASSUME instrs[k].dest # Label(NULL)
        PROVE  instrs'[k].dest = instrs[k].dest
    <3>1. LabelInv /\ AwaitedUnset /\ stack # << >>
      BY DEF Going, FlowInv
    <3> QED
      BY <1>1, <2>1, <3>1, LabelStays
  <2>2. ASSUME k \in AwaitedBelow
        PROVE  instrs'[k].dest = instrs[k].dest
    <3>1. PICK d \in DOMAIN stack : d # Top /\ Awaits(stack[d], k)
      BY <2>2 DEF AwaitedBelow
    <3>2. k \in DOMAIN instrs
      BY <1>1 DEF FlowStep
    <3>3. ~Awaits(Self, k)
      BY <1>2, <3>1, <3>2 DEF Going, FlowInv, AwaitedApart
    <3> QED
      BY <1>1, <3>3 DEF FlowStep
  <2>3. instrs'[k].dest = instrs[k].dest
    BY <1>3, <2>1, <2>2
  <2>4. /\ instrs'[k] \in Instruction /\ instrs[k] \in Instruction
        /\ instrs'[k].op = instrs[k].op /\ instrs'[k].src1 = instrs[k].src1
    BY <1>1, OldCode
  <2>5. instrs'[k].src2 = instrs[k].src2
    BY <1>1 DEF AnalyserStep, CodeStep
  <2> QED
    BY <2>3, <2>4, <2>5, SameInstruction
<1> QED
  BY <1>1, <1>3 DEF Extends

(* And what it puts there is the label of the next instruction. *)
LEMMA CodePatched ==
  ASSUME NEW done, NEW t, Going(done, t), NEW l \in Nat, Awaits(Self, l + 1)
  PROVE  /\ \A o : Puts(instrs, l, Test(o, NULL)) =>
                     Puts(instrs', l, Test(o, Len(instrs')))
         /\ Puts(instrs, l, Jump(NULL)) => Puts(instrs', l, Jump(Len(instrs')))
<1>1. /\ FrameInv /\ FlowStep /\ AnalyserStep /\ Len(instrs) \in Nat
      /\ Len(instrs') \in Nat /\ Len(instrs) <= Len(instrs')
  BY GoingFacts
<1>2. ASSUME l + 1 \in 1..Len(instrs)
      PROVE  /\ l + 1 \in 1..Len(instrs')
             /\ instrs'[l + 1] = [instrs[l + 1] EXCEPT !.dest = Label(Len(instrs'))]
  <2>1. /\ instrs'[l + 1] \in Instruction /\ instrs[l + 1] \in Instruction
        /\ instrs'[l + 1].op = instrs[l + 1].op
        /\ instrs'[l + 1].src1 = instrs[l + 1].src1
    BY <1>1, <1>2, OldCode
  <2>2. instrs'[l + 1].src2 = instrs[l + 1].src2
    BY <1>1, <1>2 DEF AnalyserStep, CodeStep
  <2>3. instrs'[l + 1].dest = Label(Len(instrs'))
    BY <1>1, <1>2 DEF FlowStep, Going
  <2> QED
    BY <1>1, <1>2, <2>1, <2>2, <2>3 DEF Instruction
<1> QED
  BY <1>2 DEF Puts, Test, Jump, Instr

-----------------------------------------------------------------------------
(* Two translations agree on some nodes, *)
AgreeOn(t, u, ns) ==
  \A n \in ns : u.from[n] = t.from[n] /\ u.to[n] = t.to[n] /\ u.opd[n] = t.opd[n]

(* and so on children that are among them. *)
LEMMA AgreeAlike ==
  ASSUME NEW t, NEW u, NEW ns, AgreeOn(t, u, ns), NEW n, NEW i,
         Sub(nodes, n, i) \in ns
  PROVE  Alike(t, u, n, i)
BY DEF AgreeOn, Alike, From, To, Opd

(* What has been translated stays so. *)
LEMMA DoneKept ==
  ASSUME NEW done, NEW t, Going(done, t),
         NEW u \in Translations(nodes), AgreeOn(t, u, done)
  PROVE  \A n \in done : Translates(nodes, instrs', u, n)
<1> SUFFICES ASSUME NEW n \in done PROVE Translates(nodes, instrs', u, n)
  OBVIOUS
<1>1. /\ nodes \in Trees /\ t \in Translations(nodes)
      /\ n \in DOMAIN nodes /\ Translates(nodes, instrs, t, n)
  BY GoingFacts
<1>2. \A i \in Visits(n) : Alike(t, u, n, i)
  <2> TAKE i \in Visits(n)
  <2>1. <<n, i>> \in Subtrees(nodes) /\ Loc(<<n, i>>) = Sub(nodes, n, i)
    BY <1>1, SubtreeHere DEF Visits, Sub
  <2>2. Sub(nodes, n, i) \in done
    BY <2>1 DEF Going, Visited
  <2> QED
    BY <2>2, AgreeAlike
<1>3. u.from[n] = t.from[n] /\ u.to[n] = t.to[n] /\ u.opd[n] = t.opd[n]
  BY DEF AgreeOn
<1>4. PICK ks : Extends(instrs, instrs', ks)
  BY CodeKept
<1> QED
  BY <1>1, <1>2, <1>3, <1>4, TranslatesKept

(* The callers of the function that runs. *)
LEMMA Callers ==
  ASSUME NEW done, NEW t, Going(done, t), NEW d \in DOMAIN stack, d # Top
  PROVE  /\ d \in Nat /\ d + 1 \in DOMAIN stack /\ stack[d] \in Activation
         /\ stack[d].node \in DOMAIN nodes
         /\ stack[d + 1].node \in DOMAIN nodes
         /\ t.from[stack[d + 1].node] \in Nat
         /\ LET i == Called(KindOf(stack[d]), stack[d].step)
            IN /\ <<stack[d].node, i>> \in Subtrees(nodes)
               /\ i \in Visits(stack[d].node)
               /\ stack[d + 1].node = Sub(nodes, stack[d].node, i)
         /\ Waits(nodes, instrs, t, stack[d], stack[d].opds,
                  t.from[stack[d + 1].node])
<1>1. FrameInv /\ nodes \in Trees /\ t \in Translations(nodes)
  BY GoingFacts
<1>2. /\ Top \in Nat /\ DOMAIN stack = 1..Top /\ stack \in Seq(Activation)
      /\ Top = Len(stack)
  BY <1>1, SelfFacts DEF Going
<1>3. d \in Nat /\ d + 1 \in DOMAIN stack /\ d < Top
  BY <1>2
<1>4. stack[d] \in Activation
  BY <1>2, ElementOfSeq
<1>5. stack[d].node \in DOMAIN nodes /\ stack[d + 1].node \in DOMAIN nodes
  BY <1>1, <1>3 DEF FrameInv, FramesFit
<1>6. PICK i : i = Called(KindOf(stack[d]), stack[d].step)
  OBVIOUS
<1>7. /\ <<stack[d].node, i>> \in Subtrees(nodes)
      /\ stack[d + 1].node = Sub(nodes, stack[d].node, i)
      /\ Waits(nodes, instrs, t, stack[d], stack[d].opds,
               t.from[stack[d + 1].node])
  BY <1>3, <1>6 DEF Going, Translated, WaitsFor, KindOf
<1>8. i \in Visits(stack[d].node)
  <2>1. PICK p \in Subtrees(nodes) : p = <<stack[d].node, i>>
    BY <1>7
  <2>2. p[1] = stack[d].node /\ p[2] = i
    BY <2>1
  <2>3. /\ p[2] \in DOMAIN nodes[p[1]].children
        /\ nodes[p[1]].children[p[2]].type \in NonTerminals
    BY <1>1, SubtreeFacts
  <2> QED
    BY <2>2, <2>3 DEF Visits
<1>9. t.from[stack[d + 1].node] \in Nat
  BY <1>1, <1>5 DEF Translations
<1> QED
  BY <1>3, <1>4, <1>5, <1>6, <1>7, <1>8, <1>9

(* What they have heard of is translated. *)
LEMMA HeardDone ==
  ASSUME NEW done, NEW t, Going(done, t), NEW d \in DOMAIN stack, d # Top,
         NEW i \in Heard(stack[d])
  PROVE  Sub(nodes, stack[d].node, i) \in done
<1>1. FrameInv /\ nodes \in Trees
  BY GoingFacts
<1>2. PICK n, c : n = stack[d].node /\ c = Called(KindOf(stack[d]), stack[d].step)
  OBVIOUS
<1>3. /\ i \in Visits(n) /\ Begun(stack[d], i) /\ i # c
  BY <1>2 DEF Heard
<1>4. /\ n \in DOMAIN nodes /\ c \in Visits(n)
      /\ stack[d + 1].node = Sub(nodes, n, c)
  BY <1>2, Callers
<1>5. /\ <<n, i>> \in Subtrees(nodes) /\ Loc(<<n, i>>) = Sub(nodes, n, i)
      /\ <<n, c>> \in Subtrees(nodes) /\ Loc(<<n, c>>) = Sub(nodes, n, c)
  BY <1>3, <1>4, SubtreeHere DEF Visits, Sub
<1>6. <<n, i>> # <<n, c>>
  BY <1>3
<1>7. Sub(nodes, n, i) # stack[d + 1].node
  BY <1>1, <1>4, <1>5, <1>6, ParentFacts
<1>8. PICK p \in Subtrees(nodes) : p = <<n, i>>
  BY <1>5
<1>9. p[1] = stack[d].node /\ Begun(stack[d], p[2]) /\ Loc(p) = Sub(nodes, n, i)
  BY <1>2, <1>3, <1>5, <1>8
<1>10. Loc(p) \in done \/ Loc(p) = stack[d + 1].node
  BY <1>9 DEF Going, Visited
<1> QED
  BY <1>2, <1>7, <1>9, <1>10

(* They go on waiting. *)
LEMMA CallersWait ==
  ASSUME NEW done, NEW t, Going(done, t),
         NEW u, AgreeOn(t, u, done),
         NEW d \in DOMAIN stack, d # Top,
         u.from[stack[d].node] = t.from[stack[d].node]
  PROVE  Waits(nodes, instrs', u, stack[d], stack[d].opds,
               t.from[stack[d + 1].node])
<1>1. nodes \in Trees /\ t \in Translations(nodes)
  BY GoingFacts
<1>2. PICK a \in Activation, h \in Nat :
        a = stack[d] /\ h = t.from[stack[d + 1].node]
  BY Callers
<1>3. /\ a.node \in DOMAIN nodes
      /\ Waits(nodes, instrs, t, a, a.opds, h)
  BY <1>2, Callers
<1>4. \A i \in Heard(a) : Alike(t, u, a.node, i)
  BY <1>2, HeardDone, AgreeAlike
<1>5. \A k \in 1..Len(instrs) : Awaits(a, k) => k \in AwaitedBelow
  BY <1>2 DEF AwaitedBelow
<1>6. PICK ks : /\ Extends(instrs, instrs', ks)
                /\ \A k \in 1..Len(instrs) : Awaits(a, k) => k \in ks
  BY <1>5, CodeKept
<1>7. u.from[a.node] = t.from[a.node]
  BY <1>2
<1>8. PICK os : os = a.opds
  OBVIOUS
<1>9. Waits(nodes, instrs', u, a, os, h)
  BY <1>1, <1>3, <1>4, <1>6, <1>7, <1>8, WaitsKept
<1> QED
  BY <1>2, <1>8, <1>9

(* Who waits does not look at the operands in its activation. *)
LEMMA WaitsAnyway ==
  ASSUME NEW a, NEW b, b.node = a.node, b.step = a.step, b.ptrs = a.ptrs,
         b.start = a.start, NEW code, NEW t, NEW os, NEW h,
         Waits(nodes, code, t, a, os, h)
  PROVE  Waits(nodes, code, t, b, os, h)
BY DEF Waits, WaitsInBranch, WaitsInLoop, WaitsInRepeat, WaitsInCondition,
   WaitsInChain, WaitsInSource, WaitsInList

-----------------------------------------------------------------------------
(* How much longer or shorter the stack is tells what the step has done. *)
LEMMA WalkKinds ==
  ASSUME FrameInv, Chained, WalkStep, stack # << >>, errs' = << >>, errs = << >>
  PROVE  /\ Top \in Nat
         /\ \/ Top' = Top + 1 /\ \E self \in Activation, i \in Nat : CallsFor(self, i)
            \/ Top' = Top - 1 /\ Finishes /\ Satisfied
            \/ /\ Top' = Top
               /\ \/ UNCHANGED <<stack, declared, errs>>
                  \/ \E self \in Activation : Proceeds(self)
                  \/ \E q \in Declarations : Declares(q)
<1>1. Top \in Nat
  BY SelfFacts
<1>2. CASE UNCHANGED <<stack, declared, errs>>
  BY <1>1, <1>2 DEF Top
<1>3. ASSUME NEW self \in Activation, NEW i \in Nat, CallsFor(self, i)
      PROVE  Top' = Top + 1
  BY <1>3, DescendShape
<1>4. ASSUME NEW self \in Activation, Proceeds(self)
      PROVE  Top' = Top
  BY <1>4, ProceedShape DEF Proceeds
<1>5. ASSUME Finishes PROVE Top' = Top - 1
  BY <1>5, FinishShape
<1>6. ASSUME NEW p \in Uses, Reports(p) PROVE FALSE
  <2>1. PICK e : errs' = Append(errs, e)
    BY <1>6 DEF Reports
  <2>2. Append(<< >>, e) # << >>
    OBVIOUS
  <2> QED
    BY <2>1, <2>2
<1>7. ASSUME NEW q \in Declarations, Declares(q) PROVE Top' = Top
  BY <1>7, DeclareShape
<1> QED
  BY <1>1, <1>2, <1>3, <1>4, <1>5, <1>6, <1>7 DEF WalkStep

(* A call for a child, *)
LEMMA WalksDown ==
  ASSUME NEW done, NEW t, Going(done, t), NEW self \in Activation,
         NEW i \in Visits(Self.node), stack' = Calling(self, Kids[i])
  PROVE  /\ CallsFor(self, i) /\ Visited(done)'
         /\ <<Self.node, i>> \in Subtrees(nodes)
         /\ Sub(nodes, Self.node, i) = Loc(<<Self.node, i>>)
         /\ Kids[i] \in Child /\ Kids[i].at = Sub(nodes, Self.node, i)
<1>1. /\ FrameInv /\ nodes \in Trees /\ nodes' = nodes /\ Self.node \in DOMAIN nodes
  BY GoingFacts
<1>2. /\ i \in DOMAIN nodes[Self.node].children
      /\ <<Self.node, i>> \in Subtrees(nodes)
      /\ Sub(nodes, Self.node, i) = Loc(<<Self.node, i>>)
      /\ Kids[i] \in Child /\ Kids[i].at = Sub(nodes, Self.node, i)
  BY <1>1, SubtreeHere, ChildFacts DEF Visits, Sub, Kids
<1>3. Top' = Top + 1 /\ stack'[Top] = self
      /\ stack'[Top + 1].node = Sub(nodes, Self.node, i)
  <2>1. PICK c \in Child : c = Kids[i] /\ c.at = Sub(nodes, Self.node, i)
    BY <1>2
  <2>2. stack # << >> /\ stack' = Calling(self, c)
    BY <2>1 DEF Going
  <2>3. Top' = Top + 1 /\ stack'[Top] = self /\ stack'[Top + 1] = Begin(c.at)
    BY <1>1, <2>2, EnterShape
  <2> QED
    BY <2>1, <2>3 DEF Begin
<1>4. PICK self2 \in Activation, j \in Nat : CallsFor(self2, j)
  BY <1>1, <1>3, WalkKinds DEF Going
<1>5. stack' = Calling(self2, Kids[j]) /\ <<Self.node, j>> \in Subtrees(nodes)
  BY <1>4 DEF CallsFor
<1>6. stack'[Top + 1].node = Loc(<<Self.node, j>>)
  BY <1>1, <1>4, DescendShape DEF Going
<1>7. j = i
  <2>1. <<Self.node, j>> = <<Self.node, i>>
    BY <1>1, <1>2, <1>3, <1>5, <1>6, ParentFacts
  <2> QED
    BY <2>1
<1>8. stack'[Top] = self2
  <2>1. Kids[j] \in Child
    BY <1>2, <1>7
  <2> QED
    BY <1>1, <1>5, <2>1, EnterShape DEF Going
<1>9. CallsFor(self, i)
  BY <1>3, <1>4, <1>7, <1>8
<1>10. Visited(done)'
  BY <1>1, <1>4, VisitedDescends DEF Going
<1> QED
  BY <1>2, <1>9, <1>10

(* a step within the function, *)
LEMMA WalksOn ==
  ASSUME NEW done, NEW t, Going(done, t), NEW self \in Activation,
         stack' = Stepping(self)
  PROVE  Visited(done)'
<1>1. /\ FrameInv /\ nodes \in Trees /\ nodes' = nodes
  BY GoingFacts
<1>2. Top' = Top
  BY <1>1, StayShape DEF Going
<1>3. CASE UNCHANGED <<stack, declared, errs>>
  BY <1>1, <1>3 DEF Going, Visited, Begun, KindOf, Loc, Top
<1>4. ASSUME NEW self2 \in Activation, Proceeds(self2)
      PROVE  Visited(done)'
  BY <1>1, <1>4, VisitedProceeds DEF Going
<1>5. ASSUME NEW q \in Declarations, Declares(q)
      PROVE  Visited(done)'
  BY <1>1, <1>5, VisitedDeclares DEF Going
<1> QED
  BY <1>1, <1>2, <1>3, <1>4, <1>5, WalkKinds DEF Going

(* and its end. *)
LEMMA WalksUp ==
  ASSUME NEW done, NEW t, Going(done, t), Finishes, NEW n, n = Self.node
  PROVE  /\ Visited(done \cup {n})'
         /\ \A i \in Visits(n) : Begun(Self, i) /\ Sub(nodes, n, i) \in done
<1>1. FrameInv /\ nodes \in Trees /\ nodes' = nodes /\ Self.node \in DOMAIN nodes
  BY GoingFacts
<1>2. Top' = Top - 1
  BY <1>1, FinishShape DEF Going
<1>3. Satisfied
  BY <1>1, <1>2, WalkKinds DEF Going
<1>4. Visited(done \cup {n})'
  BY <1>1, <1>3, VisitedFinishes DEF Going
<1>5. ASSUME NEW i \in Visits(n)
      PROVE  Begun(Self, i) /\ Sub(nodes, n, i) \in done
  <2>1. PICK p \in Subtrees(nodes) :
          /\ p = <<n, i>> /\ Loc(p) = Sub(nodes, n, i)
    BY <1>1, SubtreeHere DEF Visits, Sub
  <2>2. p[1] = Self.node /\ p[2] = i
    BY <2>1
  <2>3. Begun(Self, p[2])
    BY <1>3, <2>2 DEF Satisfied
  <2>4. Top \in DOMAIN stack /\ stack[Top] = Self /\ ~(Top < Top)
    BY <1>1, SelfFacts DEF Going
  <2> QED
    BY <2>1, <2>2, <2>3, <2>4 DEF Going, Visited
<1> QED
  BY <1>4, <1>5

-----------------------------------------------------------------------------
(* The activations of the callers, after the step, as a translation u sees  *)
(* them that agrees with the one before on what they know.                  *)
LEMMA CallersAfter ==
  ASSUME NEW done, NEW t, Going(done, t),
         NEW u, AgreeOn(t, u, done),
         NEW d \in DOMAIN stack, d # Top,
         u.from[stack[d].node] = t.from[stack[d].node],
         u.from[stack[d + 1].node] = t.from[stack[d + 1].node],
         NEW b, b = stack[d], NEW m, m = stack[d + 1].node
  PROVE  u.from[b.node] <= Len(instrs') /\ WaitsFor(nodes, instrs', u, b, m)
<1>1. /\ Len(instrs) \in Nat /\ Len(instrs') \in Nat
      /\ Len(instrs) <= Len(instrs') /\ t \in Translations(nodes)
  BY GoingFacts
<1>2. /\ <<b.node, Called(KindOf(b), b.step)>> \in Subtrees(nodes)
      /\ m = Sub(nodes, b.node, Called(KindOf(b), b.step))
      /\ b.node \in DOMAIN nodes
  BY Callers
<1>3. t.from[b.node] <= Len(instrs) /\ t.from[b.node] \in Nat
  BY <1>1, <1>2 DEF Going, Translated, Translations
<1>4. Waits(nodes, instrs', u, b, b.opds, u.from[m])
  BY CallersWait
<1>5. WaitsFor(nodes, instrs', u, b, m)
  BY <1>2, <1>4 DEF WaitsFor, KindOf
<1> QED
  BY <1>1, <1>3, <1>5

(* The function that runs calls another: what it waits for begins here. *)
LEMMA Descend ==
  ASSUME NEW done, NEW t, Going(done, t),
         NEW self \in Activation, NEW i \in Visits(Self.node),
         stack' = Calling(self, Kids[i]), i = Called(KindOf(self), self.step),
         Waits(nodes, instrs', t, self, self.opds, Len(instrs'))
  PROVE  Visited(done)' /\ \E u : Translated(done, u)'
<1>1. /\ FrameInv /\ nodes \in Trees /\ nodes' = nodes /\ t \in Translations(nodes)
      /\ t.from[1] = 0 /\ Self.node \in DOMAIN nodes
      /\ t.from[Self.node] \in Nat /\ t.from[Self.node] <= Len(instrs)
      /\ Len(instrs) \in Nat /\ Len(instrs') \in Nat /\ Len(instrs) <= Len(instrs')
  BY GoingFacts
<1>2. PICK c : c = Sub(nodes, Self.node, i)
  OBVIOUS
<1>3. /\ CallsFor(self, i) /\ Visited(done)' /\ self.node = Self.node
      /\ <<Self.node, i>> \in Subtrees(nodes)
      /\ c = Loc(<<Self.node, i>>) /\ Kids[i] \in Child /\ Kids[i].at = c
  BY <1>2, WalksDown DEF CallsFor
<1>4. /\ Top \in Nat /\ Top >= 1 /\ DOMAIN stack = 1..Top /\ stack[Top] = Self
  BY <1>1, SelfFacts DEF Going
<1>5. /\ stack' # << >> /\ Top' = Top + 1 /\ DOMAIN stack' = 1..(Top + 1)
      /\ \A d \in 1..(Top - 1) : stack'[d] = stack[d]
      /\ stack'[Top] = self /\ stack'[Top + 1] = Begin(c)
  <2>1. PICK k \in Child : k = Kids[i] /\ k.at = c
    BY <1>3
  <2>2. stack # << >> /\ stack' = Calling(self, k)
    BY <2>1 DEF Going
  <2> QED
    BY <1>1, <2>1, <2>2, EnterShape
<1>6. c \in DOMAIN nodes /\ c > Self.node /\ c \in Nat /\ Self.node \in Nat
      /\ Self.node >= 1
  <2>1. PICK p \in Subtrees(nodes) : p = <<Self.node, i>> /\ Loc(p) = c
    BY <1>3
  <2>2. p[1] = Self.node
    BY <2>1
  <2> QED
    BY <1>1, <2>1, <2>2, SubtreeFacts, TreeFacts
<1>7. c \notin done
  <2>1. stack'[Top + 1].node \notin done
    BY <1>3, <1>4, <1>5 DEF Visited
  <2> QED
    BY <1>5, <2>1 DEF Begin
<1>8. PICK u : u = [t EXCEPT !.from = [t.from EXCEPT ![c] = Len(instrs')]]
  OBVIOUS
<1>9. /\ u \in Translations(nodes) /\ u.from[c] = Len(instrs')
      /\ \A n \in DOMAIN nodes : n # c => u.from[n] = t.from[n]
      /\ u.to = t.to /\ u.opd = t.opd
  BY <1>1, <1>6, <1>8 DEF Translations
<1>10. AgreeOn(t, u, done)
  <2>1. \A n \in done : n \in DOMAIN nodes /\ n # c
    BY <1>7, GoingFacts
  <2> QED
    BY <1>9, <2>1 DEF AgreeOn
<1>11. \A d \in DOMAIN stack :
         stack[d].node \in DOMAIN nodes /\ stack[d].node # c
         /\ u.from[stack[d].node] = t.from[stack[d].node]
  <2> TAKE d \in DOMAIN stack
  <2>1. stack[d].node \in DOMAIN nodes /\ stack[d].node \in Nat
    BY <1>1, TreeFacts DEF FrameInv, FramesFit
  <2>2. d = Top \/ d < Top
    BY <1>4
  <2>3. d = Top \/ stack[d].node < Self.node
    BY <1>4, <2>2 DEF Going, Chained
  <2>4. stack[d].node # c
    BY <1>4, <1>6, <2>1, <2>3
  <2> QED
    BY <1>9, <2>1, <2>4
<1>12. u.from[1] = 0
  <2>1. 1 \in DOMAIN nodes /\ c # 1
    BY <1>1, <1>4, <1>6, TreeFacts
  <2> QED
    BY <1>1, <1>9, <2>1
<1>13. \A n \in done : Translates(nodes, instrs', u, n)
  BY <1>9, <1>10, DoneKept
<1>14. Waits(nodes, instrs', u, self, self.opds, u.from[c])
  <2>1. \A k \in Heard(self) : Alike(t, u, self.node, k)
    <3> TAKE k \in Heard(self)
    <3>1. k \in Visits(Self.node) /\ Begun(self, k) /\ k # i
      BY <1>3 DEF Heard
    <3>2. PICK p \in Subtrees(nodes) :
            p = <<Self.node, k>> /\ Loc(p) = Sub(nodes, Self.node, k)
      BY <1>1, <3>1, SubtreeHere DEF Visits, Sub
    <3>3. p[1] = Self.node /\ p[2] = k
      BY <3>2
    <3>4. Begun(Self, p[2])
      BY <1>3, <3>1, <3>3 DEF CallsFor
    <3>5. Loc(p) \in done
      BY <1>4, <3>3, <3>4 DEF Going, Visited
    <3> QED
      BY <1>3, <1>10, <3>2, <3>5, AgreeAlike
  <2>2. PICK code, ks : /\ code = instrs' /\ ks = 1..Len(code)
    OBVIOUS
  <2>3. Extends(code, code, ks)
    BY <1>1, <2>2 DEF Extends
  <2>4. /\ self.node \in DOMAIN nodes /\ u.from[self.node] = t.from[self.node]
        /\ \A k \in 1..Len(code) : Awaits(self, k) => k \in ks
    BY <1>1, <1>3, <1>4, <1>11, <2>2
  <2>5a. PICK os : os = self.opds
    OBVIOUS
  <2>5. PICK h \in Nat : h = Len(instrs')
    BY <1>1
  <2>6. Waits(nodes, code, t, self, os, h)
    BY <2>2, <2>5, <2>5a
  <2>7. Waits(nodes, code, u, self, os, h)
    BY <1>1, <2>1, <2>3, <2>4, <2>6, WaitsKept
  <2> QED
    BY <1>9, <2>2, <2>5, <2>5a, <2>7
<1>15. WaitsFor(nodes, instrs', u, self, c)
  BY <1>2, <1>3, <1>14 DEF WaitsFor, KindOf
<1>16. Goes(nodes, instrs', u, Begin(c))
  BY <1>9 DEF Goes, Begin
<1>17. ASSUME NEW d \in 1..(Top - 1)
       PROVE  /\ u.from[stack'[d].node] <= Len(instrs')
              /\ WaitsFor(nodes, instrs', u, stack'[d], stack'[d + 1].node)
  <2>1. d \in DOMAIN stack /\ d # Top /\ stack'[d] = stack[d]
        /\ d + 1 \in DOMAIN stack
    BY <1>4, <1>5
  <2>2. stack'[d + 1].node = stack[d + 1].node
    <3>1. d + 1 \in 1..(Top - 1) \/ d + 1 = Top
      BY <1>4
    <3> QED
      BY <1>3, <1>4, <1>5, <3>1
  <2>3. PICK b, m : b = stack'[d] /\ m = stack'[d + 1].node
    OBVIOUS
  <2>4. /\ b = stack[d] /\ m = stack[d + 1].node
        /\ u.from[stack[d].node] = t.from[stack[d].node]
        /\ u.from[stack[d + 1].node] = t.from[stack[d + 1].node]
    BY <1>11, <2>1, <2>2, <2>3
  <2>5. /\ u.from[b.node] <= Len(instrs')
        /\ WaitsFor(nodes, instrs', u, b, m)
    BY <1>10, <2>1, <2>4, CallersAfter
  <2> QED
    BY <2>3, <2>5
<1>18. u.from[self.node] <= Len(instrs') /\ u.from[c] <= Len(instrs')
  <2>1. u.from[self.node] = t.from[Self.node]
    BY <1>3, <1>4, <1>11
  <2> QED
    BY <1>1, <1>9, <2>1
<1>19. stack'[Top + 1].node = c
  BY <1>5 DEF Begin
<1>20. ASSUME NEW d \in 1..(Top + 1)
       PROVE  /\ u.from[stack'[d].node] <= Len(instrs')
              /\ d = Top + 1 => Goes(nodes, instrs', u, stack'[d])
              /\ d < Top + 1 =>
                   WaitsFor(nodes, instrs', u, stack'[d], stack'[d + 1].node)
  <2>1. d \in 1..(Top - 1) \/ d = Top \/ d = Top + 1
    BY <1>4
  <2> QED
    BY <1>4, <1>5, <1>15, <1>16, <1>17, <1>18, <1>19, <2>1
<1>21. Translated(done, u)'
  BY <1>1, <1>5, <1>9, <1>12, <1>13, <1>20 DEF Translated
<1> QED
  BY <1>3, <1>21

(* It goes on without a call. *)
LEMMA Proceed ==
  ASSUME NEW done, NEW t, Going(done, t), NEW self \in Activation,
         self.node = Self.node, stack' = Stepping(self),
         Goes(nodes, instrs', t, self)
  PROVE  Visited(done)' /\ \E u : Translated(done, u)'
<1>1. /\ FrameInv /\ nodes' = nodes /\ t \in Translations(nodes)
      /\ t.from[1] = 0 /\ Self.node \in DOMAIN nodes
      /\ t.from[Self.node] \in Nat /\ t.from[Self.node] <= Len(instrs)
      /\ Len(instrs) \in Nat /\ Len(instrs') \in Nat /\ Len(instrs) <= Len(instrs')
  BY GoingFacts
<1>2. /\ Top \in Nat /\ Top >= 1 /\ DOMAIN stack = 1..Top /\ stack[Top] = Self
  BY <1>1, SelfFacts DEF Going
<1>3. /\ stack' # << >> /\ Top' = Top /\ DOMAIN stack' = 1..Top
      /\ \A d \in 1..(Top - 1) : stack'[d] = stack[d]
      /\ stack'[Top] = self
  BY <1>1, StayShape DEF Going
<1>4. AgreeOn(t, t, done)
  BY DEF AgreeOn
<1>5. \A n \in done : Translates(nodes, instrs', t, n)
  BY <1>1, <1>4, DoneKept
<1>6. ASSUME NEW d \in 1..(Top - 1)
      PROVE  /\ t.from[stack'[d].node] <= Len(instrs')
             /\ WaitsFor(nodes, instrs', t, stack'[d], stack'[d + 1].node)
  <2>1. d \in DOMAIN stack /\ d # Top /\ stack'[d] = stack[d]
        /\ d + 1 \in DOMAIN stack
    BY <1>2, <1>3
  <2>2. stack'[d + 1].node = stack[d + 1].node
    <3>1. d + 1 \in 1..(Top - 1) \/ d + 1 = Top
      BY <1>2
    <3> QED
      BY <1>2, <1>3, <3>1
  <2>3. PICK b, m : b = stack'[d] /\ m = stack'[d + 1].node
    OBVIOUS
  <2>4. b = stack[d] /\ m = stack[d + 1].node
    BY <2>1, <2>2, <2>3
  <2>5. t.from[b.node] <= Len(instrs') /\ WaitsFor(nodes, instrs', t, b, m)
    BY <1>4, <2>1, <2>4, CallersAfter
  <2> QED
    BY <2>3, <2>5
<1>7. t.from[self.node] <= Len(instrs')
  BY <1>1
<1>8. ASSUME NEW d \in 1..Top
      PROVE  /\ t.from[stack'[d].node] <= Len(instrs')
             /\ d = Top => Goes(nodes, instrs', t, stack'[d])
             /\ d < Top =>
                  WaitsFor(nodes, instrs', t, stack'[d], stack'[d + 1].node)
  <2>1. d \in 1..(Top - 1) \/ d = Top
    BY <1>2
  <2> QED
    BY <1>2, <1>3, <1>6, <1>7, <2>1
<1>9. Translated(done, t)'
  BY <1>1, <1>3, <1>5, <1>8 DEF Translated
<1> QED
  BY <1>9, WalksOn

-----------------------------------------------------------------------------
(* However the node that is left is entered in a translation, it is right.  *)
Fulfils(t, n, e, o) ==
  \A u \in Translations(nodes) :
    /\ u.from[n] = t.from[n] /\ u.to[n] = e /\ u.opd[n] = o
    /\ \A i \in Visits(n) : Alike(t, u, n, i)
    => Translates(nodes, instrs', u, n)

(* A caller goes on with what the function has returned. *)
LEMMA Resumes ==
  ASSUME NEW done, NEW t, Going(done, t),
         NEW u, AgreeOn(t, u, done),
         NEW d \in DOMAIN stack, d # Top,
         u.from[stack[d].node] = t.from[stack[d].node],
         NEW m, m = stack[d + 1].node, u.from[m] = t.from[m],
         u.to[m] = Len(instrs'),
         NEW b \in Activation, b.node = stack[d].node, b.step = stack[d].step,
         b.ptrs = stack[d].ptrs, b.start = stack[d].start,
         b.opds = IF nodes[m].nt \in Valued THEN Append(stack[d].opds, u.opd[m])
                  ELSE stack[d].opds
  PROVE  u.from[b.node] <= Len(instrs') /\ Goes(nodes, instrs', u, b)
<1>1. FrameInv /\ Chained /\ stack # << >>
  BY GoingFacts DEF Going
<1>2. PICK i : i = Called(KindOf(stack[d]), stack[d].step)
  OBVIOUS
<1>3. /\ <<b.node, i>> \in Subtrees(nodes) /\ m = Sub(nodes, b.node, i)
      /\ stack[d].opds \in Seq(Operand)
  BY <1>2, Callers DEF Activation
<1>4. i = Called(nodes[b.node].nt, b.step)
  BY <1>2 DEF KindOf
<1>5. /\ u.from[b.node] <= Len(instrs')
      /\ WaitsFor(nodes, instrs', u, stack[d], m)
  BY CallersAfter
<1>6. PICK os \in Seq(Operand) : os = stack[d].opds
  BY <1>3
<1>7. Waits(nodes, instrs', u, stack[d], os, u.from[m])
  BY <1>5, <1>6 DEF WaitsFor
<1>8. Waits(nodes, instrs', u, b, os, u.from[m])
  BY <1>7, WaitsAnyway
<1>9. Resumed(nodes, instrs', u, b)
  BY <1>3, <1>4, <1>6, <1>8 DEF Resumed, From, To, Opd
<1>10. b.step # 1
  <2>1. d \in DOMAIN stack /\ d < Top
    BY <1>1, SelfFacts
  <2>2. PICK p \in Subtrees(nodes) : p[1] = stack[d].node /\ Begun(stack[d], p[2])
    BY <2>1 DEF Going, Chained
  <2>3. p[2] \in Nat /\ p[2] >= 1
    <3>1. /\ nodes \in Trees /\ p[1] \in DOMAIN nodes
          /\ p[2] \in DOMAIN nodes[p[1]].children
      BY <1>1, <2>2, SubtreeFacts DEF FrameInv
    <3> QED
      BY <3>1, KidPlaces
  <2>4. After(KindOf(stack[d]), p[2]) >= 2
    BY <2>3, AfterBegin
  <2>5. After(KindOf(stack[d]), p[2]) \in Nat
    BY <2>3 DEF After
  <2>6. stack[d].step \in Nat
    BY Callers DEF Activation
  <2> QED
    BY <2>2, <2>4, <2>5, <2>6 DEF Begun
<1>11. nodes[b.node].nt \notin {"variables", "input"}
  <2>1. PICK p \in Subtrees(nodes) : p[1] = b.node
    <3>1. PICK p \in Subtrees(nodes) : p = <<b.node, i>>
      BY <1>3
    <3> QED
      BY <3>1
  <2> QED
    BY <1>1, <2>1, SubtreeKinds DEF FrameInv
<1> QED
  BY <1>5, <1>9, <1>10, <1>11 DEF Goes

(* The stack, when the function that runs has returned. *)
Gives(o) ==
  \/ stack' = Returned /\ KindOf(Self) \notin Valued
  \/ stack' = Returning(o) /\ KindOf(Self) \in Valued

(* What that does to the stack. *)
LEMMA GivesShape ==
  ASSUME FrameInv, stack # << >>, NEW o \in Operand, Gives(o)
  PROVE  /\ Finishes /\ Top' = Top - 1 /\ DOMAIN stack' = 1..(Top - 1)
         /\ stack' = << >> => Top = 1
         /\ \A d \in 1..(Top - 2) : stack'[d] = stack[d]
         /\ Top >= 2 =>
              /\ stack'[Top - 1] \in Activation
              /\ stack'[Top - 1].node = stack[Top - 1].node
              /\ stack'[Top - 1].step = stack[Top - 1].step
              /\ stack'[Top - 1].ptrs = stack[Top - 1].ptrs
              /\ stack'[Top - 1].start = stack[Top - 1].start
              /\ stack'[Top - 1].opds = IF KindOf(Self) \in Valued
                                        THEN Append(stack[Top - 1].opds, o)
                                        ELSE stack[Top - 1].opds
<1>1. Top \in Nat /\ Top >= 1
  BY SelfFacts
<1>2. Finishes
  BY DEF Gives, Finishes
<1>3. /\ Top' = Top - 1 /\ DOMAIN stack' = 1..(Top - 1)
      /\ stack' = << >> => Top = 1
  BY <1>2, FinishShape
<1>4. CASE stack' = Returned /\ KindOf(Self) \notin Valued
  <2>1. \A d \in 1..(Top - 1) : Returned[d] = stack[d]
    BY LeaveShape
  <2>2. Returned \in Seq(Activation) /\ DOMAIN Returned = 1..(Top - 1)
    BY LeaveShape
  <2>3. Top >= 2 => Top - 1 \in 1..(Top - 1)
    BY <1>1
  <2>4. Top >= 2 => Returned[Top - 1] = stack[Top - 1] /\ Returned[Top - 1] \in Activation
    BY <2>1, <2>2, <2>3, ElementOfSeq
  <2>5. \A d \in 1..(Top - 2) : stack'[d] = stack[d]
    BY <1>1, <1>4, <2>1
  <2> QED
    BY <1>2, <1>3, <1>4, <2>4, <2>5
<1>5. CASE stack' = Returning(o) /\ KindOf(Self) \in Valued
  <2>1. stack' \in Seq(Activation) /\ Top >= 2 /\ Top - 1 \in DOMAIN stack'
    BY <1>1, <1>3, <1>5, LeaveWithShape
  <2>2. stack'[Top - 1] \in Activation
    BY <2>1, ElementOfSeq
  <2> QED
    BY <1>2, <1>3, <1>5, <2>2, LeaveWithShape
<1> QED
  BY <1>4, <1>5 DEF Gives

(* The function that runs returns. *)
LEMMA Return ==
  ASSUME NEW done, NEW t, Going(done, t), NEW o \in Operand, Gives(o),
         NEW n, n = Self.node, Fulfils(t, n, Len(instrs'), o)
  PROVE  \E more, u : Visited(more)' /\ Translated(more, u)'
<1>1. /\ FrameInv /\ nodes' = nodes /\ t \in Translations(nodes)
      /\ t.from[1] = 0 /\ n \in DOMAIN nodes /\ n \notin done
      /\ t.from[n] \in Nat /\ t.from[n] <= Len(instrs)
      /\ Len(instrs) \in Nat /\ Len(instrs') \in Nat /\ Len(instrs) <= Len(instrs')
  BY GoingFacts
<1>2. /\ Top \in Nat /\ Top >= 1 /\ DOMAIN stack = 1..Top /\ stack[Top] = Self
      /\ stack # << >> /\ Chained
  BY <1>1, SelfFacts DEF Going
<1>3. Finishes
  BY <1>1, <1>2, GivesShape
<1>4. /\ Visited(done \cup {n})'
      /\ \A i \in Visits(n) : Sub(nodes, n, i) \in done
  BY <1>3, WalksUp
<1>5. PICK u : u = [t EXCEPT !.to = [t.to EXCEPT ![n] = Len(instrs')],
                             !.opd = [t.opd EXCEPT ![n] = o]]
  OBVIOUS
<1>6. /\ u \in Translations(nodes) /\ u.from = t.from
      /\ u.to[n] = Len(instrs') /\ u.opd[n] = o
      /\ \A m \in DOMAIN nodes : m # n => u.to[m] = t.to[m] /\ u.opd[m] = t.opd[m]
  BY <1>1, <1>5 DEF Translations
<1>7. AgreeOn(t, u, done)
  <2>1. \A m \in done : m \in DOMAIN nodes /\ m # n
    BY <1>1, GoingFacts
  <2> QED
    BY <1>6, <2>1 DEF AgreeOn
<1>8. Translates(nodes, instrs', u, n)
  <2>1. \A i \in Visits(n) : Alike(t, u, n, i)
    BY <1>4, <1>7, AgreeAlike
  <2> QED
    BY <1>6, <2>1 DEF Fulfils
<1>9. \A m \in done \cup {n} : Translates(nodes, instrs', u, m)
  <2>1. \A m \in done : Translates(nodes, instrs', u, m)
    BY <1>6, <1>7, DoneKept
  <2> QED
    BY <1>8, <2>1
<1>10. stack' = << >> => u.to[1] = Len(instrs')
  <2>1. stack' = << >> => Self.node = 1
    BY <1>1, <1>2, GivesShape DEF Chained
  <2> QED
    BY <1>6, <2>1
<1>11. /\ Top' = Top - 1 /\ DOMAIN stack' = 1..(Top - 1)
       /\ \A d \in 1..(Top - 2) : stack'[d] = stack[d]
  BY <1>1, <1>2, GivesShape
<1>12. ASSUME NEW d \in 1..(Top - 2)
       PROVE  /\ u.from[stack'[d].node] <= Len(instrs')
              /\ WaitsFor(nodes, instrs', u, stack'[d], stack'[d + 1].node)
  <2>1. d \in DOMAIN stack /\ d # Top /\ stack'[d] = stack[d]
        /\ d + 1 \in DOMAIN stack
    BY <1>2, <1>11
  <2>2. stack'[d + 1].node = stack[d + 1].node
    <3>1. d + 1 \in 1..(Top - 2) \/ (d + 1 = Top - 1 /\ Top >= 2)
      BY <1>2
    <3> QED
      BY <1>1, <1>2, <1>11, <3>1, GivesShape
  <2>3. PICK b, m : b = stack'[d] /\ m = stack'[d + 1].node
    OBVIOUS
  <2>4. b = stack[d] /\ m = stack[d + 1].node
    BY <2>1, <2>2, <2>3
  <2>5. /\ u.from[stack[d].node] = t.from[stack[d].node]
        /\ u.from[stack[d + 1].node] = t.from[stack[d + 1].node]
    BY <1>6
  <2>6. u.from[b.node] <= Len(instrs') /\ WaitsFor(nodes, instrs', u, b, m)
    BY <1>7, <2>1, <2>4, <2>5, CallersAfter
  <2> QED
    BY <2>3, <2>6
<1>13. ASSUME Top >= 2
       PROVE  /\ u.from[stack'[Top - 1].node] <= Len(instrs')
              /\ Goes(nodes, instrs', u, stack'[Top - 1])
  <2>1. PICK d \in DOMAIN stack : d = Top - 1
    BY <1>2, <1>13
  <2>2. PICK b : b = stack'[Top - 1]
    OBVIOUS
  <2>3. /\ b \in Activation /\ b.node = stack[d].node /\ b.step = stack[d].step
        /\ b.ptrs = stack[d].ptrs /\ b.start = stack[d].start
        /\ b.opds = IF KindOf(Self) \in Valued THEN Append(stack[d].opds, o)
                    ELSE stack[d].opds
    BY <1>1, <1>2, <1>13, <2>1, <2>2, GivesShape
  <2>4. d # Top /\ n = stack[d + 1].node
    BY <1>2, <2>1
  <2>5. b.opds = IF nodes[n].nt \in Valued THEN Append(stack[d].opds, u.opd[n])
                 ELSE stack[d].opds
    BY <1>6, <2>3 DEF KindOf
  <2>6. u.from[stack[d].node] = t.from[stack[d].node] /\ u.from[n] = t.from[n]
    BY <1>6
  <2>7. u.from[b.node] <= Len(instrs') /\ Goes(nodes, instrs', u, b)
    BY <1>6, <1>7, <2>3, <2>4, <2>5, <2>6, Resumes
  <2> QED
    BY <2>2, <2>7
<1>14. ASSUME NEW d \in 1..(Top - 1)
       PROVE  /\ u.from[stack'[d].node] <= Len(instrs')
              /\ d = Top - 1 => Goes(nodes, instrs', u, stack'[d])
              /\ d < Top - 1 =>
                   WaitsFor(nodes, instrs', u, stack'[d], stack'[d + 1].node)
  <2>1. d \in 1..(Top - 2) \/ (d = Top - 1 /\ Top >= 2)
    BY <1>2
  <2> QED
    BY <1>2, <1>12, <1>13, <2>1
<1>15. Translated(done \cup {n}, u)'
  BY <1>1, <1>6, <1>9, <1>10, <1>11, <1>14 DEF Translated
<1> QED
  BY <1>4, <1>15

-----------------------------------------------------------------------------
(* The function that runs, and its node n. *)
Here(n, t) ==
  /\ n = Self.node /\ n \in DOMAIN nodes /\ FrameInv /\ nodes \in Trees
  /\ t \in Translations(nodes) /\ t.from[n] \in Nat /\ t.from[n] <= Len(instrs)
  /\ Len(instrs) \in Nat /\ Len(instrs') \in Nat /\ Len(instrs) <= Len(instrs')
  /\ instrs \in Seq(Instruction) /\ DOMAIN instrs = 1..Len(instrs)
  /\ Kids = nodes[n].children /\ KindOf(Self) = nodes[n].nt
  /\ Self.step \in Nat /\ Self.opds \in Seq(Operand) /\ Fit(Self, Len(Self.opds))
  /\ Self \in Activation

(* The facts about the activation that runs. *)
LEMMA GoingHere ==
  ASSUME NEW done, NEW t, Going(done, t), NEW n, n = Self.node
  PROVE  Here(n, t)
<1>1. FrameInv /\ stack # << >>
  BY GoingFacts DEF Going
<1>2. instrs \in Seq(Instruction)
  BY <1>1 DEF FrameInv, TypeOK
<1> QED
  BY <1>1, <1>2, GoingFacts, SelfFacts DEF Here, KindOf, KidsOf

(* At its first step, nothing is done yet; then a call has come back. *)
LEMMA GoingOn ==
  ASSUME NEW done, NEW t, Going(done, t), NEW n, n = Self.node
  PROVE  /\ Self.step = 1 \/ nodes[n].nt \in {"variables", "input"} =>
              Len(instrs) = t.from[n]
         /\ Self.step # 1
            /\ nodes[n].nt \notin {"variables", "input", "loop", "expression", "term"}
            => Resumed(nodes, instrs, t, Self)
BY GoingFacts DEF Goes, Combined, Tested

(* An activation that is neither at its start nor in between has resumed. *)
LEMMA HasResumed ==
  ASSUME NEW code, NEW t, NEW a, Resumed(nodes, code, t, a),
         NEW n, n = a.node, NEW c, c = Called(nodes[n].nt, a.step)
  PROVE  /\ Len(code) = To(nodes, t, n, c)
         /\ \E os \in Seq(Operand) :
              /\ Waits(nodes, code, t, a, os, From(nodes, t, n, c))
              /\ IF nodes[Sub(nodes, n, c)].nt \in Valued
                 THEN /\ Len(a.opds) = Len(os) + 1
                      /\ a.opds[Len(os) + 1] = Opd(nodes, t, n, c)
                      /\ \A i \in 1..Len(os) : a.opds[i] = os[i]
                 ELSE a.opds = os
<1>1. PICK os \in Seq(Operand) :
        /\ Waits(nodes, code, t, a, os, From(nodes, t, n, c))
        /\ a.opds = IF nodes[Sub(nodes, n, c)].nt \in Valued
                    THEN Append(os, Opd(nodes, t, n, c)) ELSE os
        /\ Len(code) = To(nodes, t, n, c)
  BY DEF Resumed
<1>2. PICK o : o = Opd(nodes, t, n, c)
  OBVIOUS
<1>3. /\ Len(Append(os, o)) = Len(os) + 1
      /\ Append(os, o)[Len(os) + 1] = o
      /\ \A i \in 1..Len(os) : Append(os, o)[i] = os[i]
  OBVIOUS
<1> QED
  BY <1>1, <1>2, <1>3

(* The children that return an operand. *)
LEMMA ValuedKids ==
  ASSUME nodes \in Trees, NEW n \in DOMAIN nodes
  PROVE  /\ nodes[n].nt = "source" =>
              /\ nodes[Sub(nodes, n, 2)].nt \notin Valued
              /\ nodes[Sub(nodes, n, 4)].nt \notin Valued
         /\ nodes[n].nt = "statements" => \A i \in 1..Arity(nodes, n) :
              nodes[Sub(nodes, n, i)].nt \notin Valued
         /\ nodes[n].nt = "assign" => nodes[Sub(nodes, n, 3)].nt \in Valued
         /\ nodes[n].nt = "output" => nodes[Sub(nodes, n, 2)].nt \in Valued
         /\ nodes[n].nt = "branch" =>
              /\ nodes[Sub(nodes, n, 3)].nt \in Valued
              /\ nodes[Sub(nodes, n, 6)].nt \notin Valued
              /\ nodes[Sub(nodes, n, 8)].nt \notin Valued
         /\ nodes[n].nt = "loop" =>
              /\ nodes[Sub(nodes, n, 3)].nt \in Valued
              /\ nodes[Sub(nodes, n, 6)].nt \notin Valued
         /\ nodes[n].nt = "repeat" =>
              /\ nodes[Sub(nodes, n, 2)].nt \notin Valued
              /\ nodes[Sub(nodes, n, 5)].nt \in Valued
         /\ nodes[n].nt = "condition" =>
              /\ nodes[Sub(nodes, n, 1)].nt \in Valued
              /\ nodes[Sub(nodes, n, 3)].nt \in Valued
         /\ nodes[n].nt \in {"expression", "term"} =>
              \A i \in 1..Arity(nodes, n) : i % 2 = 1 =>
                nodes[Sub(nodes, n, i)].nt \in Valued
         /\ nodes[n].nt = "factor" /\ Word(nodes, n, 1) \in {"PLUS", "MINUS", "LPAREN"}
            => nodes[Sub(nodes, n, 2)].nt \in Valued
<1>1. /\ nodes[n] \in Node /\ Readable(nodes[n])
      /\ nodes[n].children \in Seq(Child)
  BY TreeFacts
<1>2. /\ Arity(nodes, n) \in Nat /\ DOMAIN nodes[n].children = 1..Arity(nodes, n)
      /\ DOMAIN Kinds(nodes[n]) = 1..Arity(nodes, n)
      /\ \A i \in 1..Arity(nodes, n) :
           Kinds(nodes[n])[i] = nodes[n].children[i].type
  BY <1>1, KidPlaces DEF Kinds, Arity
<1>3. \A i \in DOMAIN nodes[n].children :
        nodes[n].children[i].type \in NonTerminals =>
          nodes[Sub(nodes, n, i)].nt = nodes[n].children[i].type
  BY ChildFacts DEF Sub
<1>4. \A i \in Nat : \A kinds : Has(Kinds(nodes[n]), i, kinds) =>
        i \in DOMAIN nodes[n].children /\ nodes[n].children[i].type \in kinds
  BY <1>1, HasKid
<1>5. /\ {"variables", "statements", "expression", "term", "factor", "condition"}
           \subseteq NonTerminals
      /\ Statements \subseteq NonTerminals
  BY DEF NonTerminals, Statements
<1>6. \A i \in Nat : \A kinds :
        Has(Kinds(nodes[n]), i, kinds) /\ kinds \subseteq NonTerminals
        => nodes[Sub(nodes, n, i)].nt \in kinds
  BY <1>3, <1>4
<1>7. /\ {"variables"} \subseteq NonTerminals /\ {"statements"} \subseteq NonTerminals
      /\ {"expression"} \subseteq NonTerminals /\ {"condition"} \subseteq NonTerminals
      /\ {"factor"} \subseteq NonTerminals
  BY <1>5
<1>8. \A i \in Nat : LET m == Sub(nodes, n, i)
      IN /\ Has(Kinds(nodes[n]), i, {"variables"}) => nodes[m].nt \notin Valued
         /\ Has(Kinds(nodes[n]), i, {"statements"}) => nodes[m].nt \notin Valued
         /\ Has(Kinds(nodes[n]), i, {"expression"}) => nodes[m].nt \in Valued
         /\ Has(Kinds(nodes[n]), i, {"condition"}) => nodes[m].nt \in Valued
         /\ Has(Kinds(nodes[n]), i, {"factor"}) => nodes[m].nt \in Valued
  BY <1>6, <1>7 DEF Valued
<1>9. /\ nodes[n].nt = "source" =>
           /\ nodes[Sub(nodes, n, 2)].nt \notin Valued
           /\ nodes[Sub(nodes, n, 4)].nt \notin Valued
      /\ nodes[n].nt = "assign" => nodes[Sub(nodes, n, 3)].nt \in Valued
      /\ nodes[n].nt = "output" => nodes[Sub(nodes, n, 2)].nt \in Valued
      /\ nodes[n].nt = "branch" =>
           /\ nodes[Sub(nodes, n, 3)].nt \in Valued
           /\ nodes[Sub(nodes, n, 6)].nt \notin Valued
           /\ nodes[Sub(nodes, n, 8)].nt \notin Valued
      /\ nodes[n].nt = "loop" =>
           /\ nodes[Sub(nodes, n, 3)].nt \in Valued
           /\ nodes[Sub(nodes, n, 6)].nt \notin Valued
      /\ nodes[n].nt = "repeat" =>
           /\ nodes[Sub(nodes, n, 2)].nt \notin Valued
           /\ nodes[Sub(nodes, n, 5)].nt \in Valued
      /\ nodes[n].nt = "condition" =>
           /\ nodes[Sub(nodes, n, 1)].nt \in Valued
           /\ nodes[Sub(nodes, n, 3)].nt \in Valued
  BY <1>1, <1>8 DEF Readable
<1>10. ASSUME nodes[n].nt = "statements", NEW i \in 1..Arity(nodes, n)
       PROVE  nodes[Sub(nodes, n, i)].nt \notin Valued
  <2>1. nodes[n].children[i].type \in Statements
    BY <1>1, <1>2, <1>10 DEF Readable
  <2>2. nodes[Sub(nodes, n, i)].nt \in Statements
    BY <1>2, <1>3, <1>5, <2>1
  <2> QED
    BY <2>2 DEF Statements, Valued
<1>11. ASSUME nodes[n].nt \in {"expression", "term"},
              NEW i \in 1..Arity(nodes, n), i % 2 = 1
       PROVE  nodes[Sub(nodes, n, i)].nt \in Valued
  <2>1. nodes[n].children[i].type \in {"term", "factor"}
    BY <1>1, <1>2, <1>11 DEF Readable, ChainReadable
  <2>2. nodes[Sub(nodes, n, i)].nt \in {"term", "factor"}
    BY <1>2, <1>3, <1>5, <2>1
  <2> QED
    BY <2>2 DEF Valued
<1>12. ASSUME nodes[n].nt = "factor",
              Word(nodes, n, 1) \in {"PLUS", "MINUS", "LPAREN"}
       PROVE  nodes[Sub(nodes, n, 2)].nt \in Valued
  <2>1. FactorReadable(Kinds(nodes[n]))
    BY <1>1, <1>12 DEF Readable
  <2>2. \/ Has(Kinds(nodes[n]), 2, {"factor"})
        \/ Has(Kinds(nodes[n]), 2, {"expression"})
    BY <1>4, <1>12, <2>1 DEF FactorReadable, Word
  <2> QED
    BY <1>8, <2>2
<1> QED
  BY <1>9, <1>10, <1>11, <1>12

(* An instruction is added behind the others. *)
LEMMA Adds ==
  ASSUME instrs \in Seq(Instruction), NEW i, Add(i)
  PROVE  /\ Len(instrs') = Len(instrs) + 1 /\ Puts(instrs', Len(instrs), i)
         /\ \A l \in Nat : \A j : Puts(instrs, l, j) =>
              Puts(instrs', l, j) /\ instrs'[l + 1] = instrs[l + 1]
BY DEF Add, Puts

(* After the step, too, the code is on its way to a translation. *)
Grows == \E more, u : Visited(more)' /\ Translated(more, u)'

(* The same for a call, a step on, and a return. *)
LEMMA GrowsDown ==
  ASSUME NEW done, NEW t, Going(done, t), NEW n, n = Self.node,
         NEW self \in Activation, NEW i \in Visits(n),
         NEW c, c = Kids[i], stack' = Calling(self, c),
         i = Called(nodes[n].nt, self.step), self.node = n,
         NEW e, e = Len(instrs'),
         Waits(nodes, instrs', t, self, self.opds, e)
  PROVE  Grows
<1>1. KindOf(self) = nodes[n].nt
  BY DEF KindOf
<1>2. Visited(done)' /\ \E u : Translated(done, u)'
  BY <1>1, Descend
<1> QED
  BY <1>2 DEF Grows

(* or goes on by itself, *)
LEMMA GrowsOn ==
  ASSUME NEW done, NEW t, Going(done, t), NEW self \in Activation,
         self.node = Self.node, stack' = Stepping(self),
         Goes(nodes, instrs', t, self)
  PROVE  Grows
BY Proceed DEF Grows

(* or returns with its node translated. *)
LEMMA GrowsUp ==
  ASSUME NEW done, NEW t, Going(done, t), NEW o \in Operand, Gives(o),
         NEW n, n = Self.node, Fulfils(t, n, Len(instrs'), o)
  PROVE  Grows
BY Return DEF Grows

-----------------------------------------------------------------------------
(* The program: its variables and then its statements. *)
LEMMA SourceGrows ==
  ASSUME NEW done, NEW t, Going(done, t), AnalyseSource
  PROVE  Grows
<1>1. PICK n : n = Self.node
  OBVIOUS
<1>2. Here(n, t) /\ stack # << >>
  BY <1>1, GoingHere DEF Going
<1>3. /\ nodes[n].nt = "source" /\ instrs' = instrs /\ Self.step \in 1..3
      /\ stack' = CASE Self.step = 1 -> Calling(Onward, Kids[2])
                    [] Self.step = 2 -> Calling(Onward, Kids[4])
                    [] Self.step = 3 -> Returned
  BY <1>1, <1>2 DEF AnalyseSource, In, OnlyCalls, memory, Here, Fit
<1>4. /\ Onward \in Activation /\ Onward.node = n /\ Onward.step = Self.step + 1
  BY <1>1, <1>2, OnwardFacts DEF Here
<1>5. {2, 4} \subseteq Visits(n)
  BY <1>2, <1>3, KidPlaces DEF Here
<1>6. ASSUME Self.step # 1
      PROVE  LET i == Called("source", Self.step) IN
             /\ Len(instrs) = To(nodes, t, n, i)
             /\ \E os : WaitsInSource(nodes, t, Self, From(nodes, t, n, i))
  <2>1. Resumed(nodes, instrs, t, Self)
    BY <1>1, <1>3, <1>6, GoingOn
  <2>2. PICK i : i = Called("source", Self.step)
    OBVIOUS
  <2>3. /\ Len(instrs) = To(nodes, t, n, i)
        /\ \E os : Waits(nodes, instrs, t, Self, os, From(nodes, t, n, i))
    BY <1>1, <1>3, <2>1, <2>2, HasResumed
  <2> QED
    BY <1>1, <1>3, <2>2, <2>3 DEF Waits
<1>7. CASE Self.step = 1
  <2>1. Len(instrs) = t.from[n]
    BY <1>1, <1>7, GoingOn
  <2>2. WaitsInSource(nodes, t, Onward, Len(instrs'))
    BY <1>3, <1>4, <1>7, <2>1 DEF WaitsInSource
  <2>3. Waits(nodes, instrs', t, Onward, Onward.opds, Len(instrs'))
    BY <1>3, <1>4, <2>2 DEF Waits
  <2>4. 2 = Called(nodes[n].nt, Onward.step) /\ stack' = Calling(Onward, Kids[2])
    BY <1>3, <1>4, <1>7 DEF Called
  <2> QED
    BY <1>1, <1>4, <1>5, <2>3, <2>4, GrowsDown
<1>8. CASE Self.step = 2
  <2>1. /\ Called("source", Self.step) = 2 /\ Called("source", Onward.step) = 4
    BY <1>4, <1>8 DEF Called
  <2>2. Len(instrs) = To(nodes, t, n, 2) /\ From(nodes, t, n, 2) = t.from[n]
    BY <1>1, <1>6, <1>8, <2>1 DEF WaitsInSource
  <2>3. WaitsInSource(nodes, t, Onward, Len(instrs'))
    BY <1>3, <1>4, <1>8, <2>2 DEF WaitsInSource
  <2>4. Waits(nodes, instrs', t, Onward, Onward.opds, Len(instrs'))
    BY <1>3, <1>4, <2>3 DEF Waits
  <2>5. 4 = Called(nodes[n].nt, Onward.step) /\ stack' = Calling(Onward, Kids[4])
    BY <1>3, <1>8, <2>1
  <2> QED
    BY <1>1, <1>4, <1>5, <2>4, <2>5, GrowsDown
<1>9. CASE Self.step = 3
  <2>1. Called("source", Self.step) = 4
    BY <1>9 DEF Called
  <2>2. /\ Len(instrs) = To(nodes, t, n, 4) /\ From(nodes, t, n, 2) = t.from[n]
        /\ From(nodes, t, n, 4) = To(nodes, t, n, 2)
    BY <1>1, <1>6, <1>9, <2>1 DEF WaitsInSource
  <2>3. ASSUME NEW u, u.from[n] = t.from[n], u.to[n] = Len(instrs'),
               \A i \in Visits(n) : Alike(t, u, n, i)
        PROVE  Translates(nodes, instrs', u, n)
    <3>1. Alike(t, u, n, 2) /\ Alike(t, u, n, 4)
      BY <1>5, <2>3
    <3>2. TranslatesSource(nodes, u, n)
      BY <1>3, <2>2, <2>3, <3>1 DEF TranslatesSource, Alike
    <3> QED
      BY <1>2, <1>3, <2>3, <3>2 DEF Translates, Here
  <2>4. Fulfils(t, n, Len(instrs'), Unset)
    BY <2>3 DEF Fulfils
  <2>5. Gives(Unset) /\ Unset \in Operand
    BY <1>2, <1>3, <1>9 DEF Gives, Valued, Here, Operand
  <2> QED
    BY <1>1, <2>4, <2>5, GrowsUp
<1> QED
  BY <1>3, <1>7, <1>8, <1>9

(* The declarations leave the code alone. *)
LEMMA VariablesGrows ==
  ASSUME NEW done, NEW t, Going(done, t), AnalyseVariables
  PROVE  Grows
<1>1. PICK n : n = Self.node
  OBVIOUS
<1>2. Here(n, t) /\ stack # << >>
  BY <1>1, GoingHere DEF Going
<1>3. nodes[n].nt = "variables" /\ instrs' = instrs
  BY <1>1 DEF AnalyseVariables, In, memory
<1>4. Len(instrs) = t.from[n]
  BY <1>1, <1>3, GoingOn
<1>5. CASE stack' = Returned
  <2>1. ASSUME NEW u, u.from[n] = t.from[n], u.to[n] = Len(instrs')
        PROVE  Translates(nodes, instrs', u, n)
    BY <1>2, <1>3, <1>4, <2>1 DEF Translates, Here
  <2>2. Fulfils(t, n, Len(instrs'), Unset)
    BY <2>1 DEF Fulfils
  <2>3. Gives(Unset) /\ Unset \in Operand
    BY <1>2, <1>3, <1>5 DEF Gives, Valued, Here, Operand
  <2> QED
    BY <1>1, <2>2, <2>3, GrowsUp
<1>6. CASE stack' = Stepping([Self EXCEPT !.step = @ + 4])
  <2>1. PICK self : self = [Self EXCEPT !.step = @ + 4]
    OBVIOUS
  <2>a. PICK k \in Nat : k = Self.step + 4
    BY <1>2 DEF Here
  <2>b. self = [Self EXCEPT !.step = k]
    BY <2>1, <2>a
  <2>2. self \in Activation /\ self.node = n
    BY <1>1, <1>2, <2>b, AtStep DEF Here
  <2>3. Goes(nodes, instrs', t, self)
    BY <1>3, <1>4, <2>2 DEF Goes
  <2> QED
    BY <1>1, <1>6, <2>1, <2>2, <2>3, GrowsOn
<1> QED
  BY <1>5, <1>6 DEF AnalyseVariables

(* Statements follow one another. *)
LEMMA StatementsGrows ==
  ASSUME NEW done, NEW t, Going(done, t), AnalyseStatements
  PROVE  Grows
<1>1. PICK n : n = Self.node
  OBVIOUS
<1>2. Here(n, t) /\ stack # << >>
  BY <1>1, GoingHere DEF Going
<1>3. PICK k \in Nat : k = Self.step
  BY <1>2 DEF Here
<1>4. /\ nodes[n].nt = "statements" /\ instrs' = instrs /\ k >= 1
      /\ stack' = IF k <= Len(Kids) THEN Calling(Onward, Kids[k]) ELSE Returned
      /\ Len(Kids) = Arity(nodes, n)
  BY <1>1, <1>2, <1>3 DEF AnalyseStatements, In, OnlyCalls, memory, Here, Fit, Arity
<1>5. /\ Onward \in Activation /\ Onward.node = n /\ Onward.step = k + 1
  BY <1>1, <1>2, <1>3, OnwardFacts DEF Here
<1>6. /\ 1..Arity(nodes, n) \subseteq Visits(n) /\ Arity(nodes, n) \in Nat
  BY <1>2, <1>4, KidPlaces DEF Here
<1>7. /\ ListUpTo(nodes, t, n, k - 1) /\ k - 1 <= Arity(nodes, n)
      /\ Len(instrs) = ListEnd(nodes, t, n, k - 1)
  <2>1. CASE k = 1
    <3>1. Len(instrs) = t.from[n]
      BY <1>1, <1>3, <2>1, GoingOn
    <3> QED
      BY <1>6, <2>1, <3>1 DEF ListUpTo, ListEnd
  <2>2. CASE k # 1
    <3>1. Resumed(nodes, instrs, t, Self)
      BY <1>1, <1>3, <1>4, <2>2, GoingOn
    <3>2. PICK c : c = Called(nodes[n].nt, Self.step)
      OBVIOUS
    <3>3. c = k - 1
      BY <1>3, <1>4, <3>2 DEF Called
    <3>4. /\ Len(instrs) = To(nodes, t, n, c)
          /\ \E os : Waits(nodes, instrs, t, Self, os, From(nodes, t, n, c))
      BY <1>1, <3>1, <3>2, HasResumed
    <3>5. WaitsInList(nodes, t, Self, From(nodes, t, n, c))
      BY <1>1, <1>4, <3>4 DEF Waits
    <3>6. /\ k - 1 \in 1..Arity(nodes, n)
          /\ \A i \in 1..(k - 2) : From(nodes, t, n, i) = ListEnd(nodes, t, n, i - 1)
          /\ From(nodes, t, n, k - 1) = ListEnd(nodes, t, n, k - 2)
      BY <1>1, <1>3, <3>3, <3>5 DEF WaitsInList, ListUpTo
    <3>7. \A i \in 1..(k - 1) : From(nodes, t, n, i) = ListEnd(nodes, t, n, i - 1)
      <4> TAKE i \in 1..(k - 1)
      <4>1. i \in 1..(k - 2) \/ (i = k - 1 /\ i - 1 = k - 2)
        BY <1>3
      <4> QED
        BY <3>6, <4>1
    <3>8. ListEnd(nodes, t, n, k - 1) = To(nodes, t, n, k - 1)
      BY <1>3, <2>2 DEF ListEnd
    <3> QED
      BY <1>6, <3>3, <3>4, <3>6, <3>7, <3>8 DEF ListUpTo
  <2> QED
    BY <2>1, <2>2
<1>8. CASE k <= Arity(nodes, n)
  <2>1. k \in Visits(n) /\ k + 1 - 1 = k /\ k + 1 - 2 = k - 1
    BY <1>4, <1>6, <1>8
  <2>2. WaitsInList(nodes, t, Onward, Len(instrs'))
    BY <1>4, <1>5, <1>6, <1>7, <1>8, <2>1 DEF WaitsInList
  <2>3. Waits(nodes, instrs', t, Onward, Onward.opds, Len(instrs'))
    BY <1>4, <1>5, <2>2 DEF Waits
  <2>4. k = Called(nodes[n].nt, Onward.step) /\ stack' = Calling(Onward, Kids[k])
    BY <1>4, <1>5, <1>8, <2>1 DEF Called
  <2> QED
    BY <1>1, <1>5, <2>1, <2>3, <2>4, GrowsDown
<1>9. CASE k > Arity(nodes, n)
  <2>1. k - 1 = Arity(nodes, n)
    BY <1>6, <1>7, <1>9
  <2>2. ASSUME NEW u, u.from[n] = t.from[n], u.to[n] = Len(instrs'),
               \A i \in Visits(n) : Alike(t, u, n, i)
        PROVE  Translates(nodes, instrs', u, n)
    <3>1. \A i \in 1..Arity(nodes, n) : Alike(t, u, n, i)
      BY <1>6, <2>2
    <3>2. \A i \in 0..Arity(nodes, n) : ListEnd(nodes, u, n, i) = ListEnd(nodes, t, n, i)
      BY <1>6, <2>2, <3>1 DEF ListEnd, Alike
    <3>3. ListUpTo(nodes, u, n, Arity(nodes, n))
      <4> SUFFICES ASSUME NEW i \in 1..Arity(nodes, n)
                   PROVE  From(nodes, u, n, i) = ListEnd(nodes, u, n, i - 1)
        BY DEF ListUpTo
      <4>1. i - 1 \in 0..Arity(nodes, n)
        BY <1>6
      <4> QED
        BY <1>7, <2>1, <3>1, <3>2, <4>1 DEF ListUpTo, Alike
    <3>4. u.to[n] = ListEnd(nodes, u, n, Arity(nodes, n))
      BY <1>4, <1>6, <1>7, <2>1, <2>2, <3>2
    <3> QED
      BY <1>2, <1>4, <2>2, <3>3, <3>4 DEF Translates, Here
  <2>3. Fulfils(t, n, Len(instrs'), Unset)
    BY <2>2 DEF Fulfils
  <2>4. stack' = Returned
    BY <1>4, <1>6, <1>9
  <2>5. Gives(Unset) /\ Unset \in Operand
    BY <1>2, <1>4, <2>4 DEF Gives, Valued, Here, Operand
  <2> QED
    BY <1>1, <2>3, <2>5, GrowsUp
<1> QED
  BY <1>6, <1>8, <1>9

(* No error is reported: the name that is used is declared. *)
LEMMA NoComplaint ==
  ASSUME NEW c, errs = << >>, errs' = << >>, errs' = Complaints(c), c.attr # NULL
  PROVE  Usable(c)
<1>1. \A e : Append(<< >>, e) # << >>
  OBVIOUS
<1> QED
  BY <1>1 DEF Complaints

(* An assignment: the value and then ASSIGN. *)
LEMMA AssignGrows ==
  ASSUME NEW done, NEW t, Going(done, t), AnalyseAssign
  PROVE  Grows
<1>1. PICK n : n = Self.node
  OBVIOUS
<1>2. Here(n, t) /\ stack # << >> /\ nodes[n].nt = "assign"
  BY <1>1, GoingHere DEF Going, AnalyseAssign, At, In
<1>3. /\ Onward \in Activation /\ Onward.node = n /\ Onward.step = Self.step + 1
  BY <1>1, <1>2, OnwardFacts DEF Here
<1>4. 3 \in Visits(n) /\ nodes[Sub(nodes, n, 3)].nt \in Valued
  BY <1>2, KidPlaces, ValuedKids DEF Here
<1>5. CASE Self.step = 1
  <2>1. /\ stack' = IF Usable(Kids[1]) THEN Calling(Onward, Kids[3]) ELSE Returned
        /\ errs' = Complaints(Kids[1]) /\ instrs' = instrs
    BY <1>5 DEF AnalyseAssign, At, memory
  <2>2. Usable(Kids[1])
    <3>1. 1 \in DOMAIN nodes[n].children /\ nodes[n].children[1].type = "IDENTIFIER"
      <4>1. /\ Readable(nodes[n]) /\ nodes[n].children \in Seq(Child)
            /\ nodes[n] \in Node
        BY <1>2, TreeFacts DEF Here
      <4>2. Has(Kinds(nodes[n]), 1, {"IDENTIFIER"})
        BY <1>2, <4>1 DEF Readable
      <4> QED
        BY <4>1, <4>2, HasKid
    <3>2. Kids[1].attr \in Names
      BY <1>2, <3>1, ChildFacts DEF Here
    <3> QED
      BY <2>1, <3>2, NoComplaint, AttrAssumption DEF Going
  <2>3. Len(instrs) = t.from[n]
    BY <1>1, <1>5, GoingOn
  <2>4. Waits(nodes, instrs', t, Onward, Onward.opds, Len(instrs'))
    BY <1>2, <1>3, <2>1, <2>3 DEF Waits
  <2>5. 3 = Called(nodes[n].nt, Onward.step) /\ stack' = Calling(Onward, Kids[3])
    BY <1>2, <1>3, <1>5, <2>1, <2>2 DEF Called
  <2> QED
    BY <1>1, <1>3, <1>4, <2>4, <2>5, GrowsDown
<1>6. CASE Self.step = 2
  <2>1. PICK i : i = Instr("ASSIGN", Self.opds[1], Unset, Symbol(Kids[1].attr))
    OBVIOUS
  <2>2. Add(i) /\ stack' = Returned
    BY <1>6, <2>1 DEF AnalyseAssign, At
  <2>3. /\ Len(instrs') = Len(instrs) + 1 /\ Puts(instrs', Len(instrs), i)
    BY <1>2, <2>2, Adds DEF Here
  <2>4. Called(nodes[n].nt, Self.step) = 3
    BY <1>2, <1>6 DEF Called
  <2>5. Resumed(nodes, instrs, t, Self)
    BY <1>1, <1>2, <1>6, GoingOn
  <2>6. PICK os \in Seq(Operand) :
          /\ Len(instrs) = To(nodes, t, n, 3)
          /\ Waits(nodes, instrs, t, Self, os, From(nodes, t, n, 3))
          /\ Len(Self.opds) = Len(os) + 1
          /\ Self.opds[Len(os) + 1] = Opd(nodes, t, n, 3)
    BY <1>1, <1>4, <2>4, <2>5, HasResumed
  <2>7. Len(Self.opds) = 1 /\ Self.opds[1] = Opd(nodes, t, n, 3)
    <3>1. Len(Self.opds) = 1
      BY <1>2, <1>6 DEF Here, Fit
    <3> QED
      BY <2>6, <3>1
  <2>8. From(nodes, t, n, 3) = t.from[n]
    BY <1>1, <1>2, <2>6 DEF Waits
  <2>9. ASSUME NEW u, u.from[n] = t.from[n], u.to[n] = Len(instrs'),
               \A k \in Visits(n) : Alike(t, u, n, k)
        PROVE  Translates(nodes, instrs', u, n)
    <3>1. Alike(t, u, n, 3)
      BY <1>4, <2>9
    <3>2. /\ From(nodes, u, n, 3) = From(nodes, t, n, 3)
          /\ To(nodes, u, n, 3) = Len(instrs)
          /\ Opd(nodes, u, n, 3) = Opd(nodes, t, n, 3)
      BY <2>6, <3>1 DEF Alike
    <3>3. i = Instr("ASSIGN", Opd(nodes, u, n, 3), Unset, Symbol(Attr(nodes, n, 1)))
      BY <1>2, <2>1, <2>7, <3>2 DEF Attr, Here
    <3>4. TranslatesAssign(nodes, instrs', u, n)
      BY <2>3, <2>8, <2>9, <3>2, <3>3 DEF TranslatesAssign
    <3> QED
      BY <1>2, <2>9, <3>4 DEF Translates, Here
  <2>10. Fulfils(t, n, Len(instrs'), Unset)
    BY <2>9 DEF Fulfils
  <2>11. Gives(Unset) /\ Unset \in Operand
    BY <1>2, <2>2 DEF Gives, Valued, Here, Operand
  <2> QED
    BY <1>1, <2>10, <2>11, GrowsUp
<1> QED
  BY <1>5, <1>6 DEF AnalyseAssign, At

(* An input is a READ, unless the parser found no name. *)
LEMMA InputGrows ==
  ASSUME NEW done, NEW t, Going(done, t), AnalyseInput
  PROVE  Grows
<1>1. PICK n : n = Self.node
  OBVIOUS
<1>2. Here(n, t) /\ stack # << >> /\ nodes[n].nt = "input"
  BY <1>1, GoingHere DEF Going, AnalyseInput, In
<1>3. Len(instrs) = t.from[n] /\ Kids[2].attr = Attr(nodes, n, 2)
  BY <1>1, <1>2, GoingOn DEF Attr, Here
<1>4. stack' = Returned /\ errs' = Complaints(Kids[2])
  BY DEF AnalyseInput
<1>5. PICK i : i = Instr("READ", Unset, Unset, Symbol(Attr(nodes, n, 2)))
  OBVIOUS
<1>6. IF Attr(nodes, n, 2) = NULL THEN instrs' = instrs ELSE Add(i)
  <2>1. CASE Attr(nodes, n, 2) = NULL
    BY <1>3, <2>1 DEF AnalyseInput, Usable, memory
  <2>2. CASE Attr(nodes, n, 2) # NULL
    <3>1. Usable(Kids[2])
      BY <1>3, <1>4, <2>2, NoComplaint DEF Going
    <3> QED
      BY <1>3, <1>5, <2>2, <3>1 DEF AnalyseInput
  <2> QED
    BY <2>1, <2>2
<1>7. ASSUME NEW u, u.from[n] = t.from[n], u.to[n] = Len(instrs')
      PROVE  Translates(nodes, instrs', u, n)
  <2>1. Attr(nodes, n, 2) # NULL =>
          Len(instrs') = Len(instrs) + 1 /\ Puts(instrs', Len(instrs), i)
    BY <1>2, <1>6, Adds DEF Here
  <2>2. TranslatesInput(nodes, instrs', u, n)
    BY <1>3, <1>5, <1>6, <1>7, <2>1 DEF TranslatesInput
  <2> QED
    BY <1>2, <1>7, <2>2 DEF Translates, Here
<1>8. Fulfils(t, n, Len(instrs'), Unset)
  BY <1>7 DEF Fulfils
<1>9. Gives(Unset) /\ Unset \in Operand
  BY <1>2, <1>4 DEF Gives, Valued, Here, Operand
<1> QED
  BY <1>1, <1>8, <1>9, GrowsUp

(* An output: the value and then WRITE. *)
LEMMA OutputGrows ==
  ASSUME NEW done, NEW t, Going(done, t), AnalyseOutput
  PROVE  Grows
<1>1. PICK n : n = Self.node
  OBVIOUS
<1>2. Here(n, t) /\ stack # << >> /\ nodes[n].nt = "output"
  BY <1>1, GoingHere DEF Going, AnalyseOutput, At, In
<1>3. /\ Onward \in Activation /\ Onward.node = n /\ Onward.step = Self.step + 1
  BY <1>1, <1>2, OnwardFacts DEF Here
<1>4. 2 \in Visits(n) /\ nodes[Sub(nodes, n, 2)].nt \in Valued
  BY <1>2, KidPlaces, ValuedKids DEF Here
<1>5. CASE Self.step = 1
  <2>1. stack' = Calling(Onward, Kids[2]) /\ instrs' = instrs
    BY <1>5 DEF AnalyseOutput, At, OnlyCalls, memory
  <2>3. Len(instrs) = t.from[n]
    BY <1>1, <1>5, GoingOn
  <2>4. Waits(nodes, instrs', t, Onward, Onward.opds, Len(instrs'))
    BY <1>2, <1>3, <2>1, <2>3 DEF Waits
  <2>5. 2 = Called(nodes[n].nt, Onward.step)
    BY <1>2, <1>3, <1>5 DEF Called
  <2> QED
    BY <1>1, <1>3, <1>4, <2>1, <2>4, <2>5, GrowsDown
<1>6. CASE Self.step = 2
  <2>1. PICK i : i = Instr("WRITE", Self.opds[1], Unset, Unset)
    OBVIOUS
  <2>2. Add(i) /\ stack' = Returned
    BY <1>6, <2>1 DEF AnalyseOutput, At
  <2>3. /\ Len(instrs') = Len(instrs) + 1 /\ Puts(instrs', Len(instrs), i)
    BY <1>2, <2>2, Adds DEF Here
  <2>4. Called(nodes[n].nt, Self.step) = 2
    BY <1>2, <1>6 DEF Called
  <2>5. Resumed(nodes, instrs, t, Self)
    BY <1>1, <1>2, <1>6, GoingOn
  <2>6. PICK os \in Seq(Operand) :
          /\ Len(instrs) = To(nodes, t, n, 2)
          /\ Waits(nodes, instrs, t, Self, os, From(nodes, t, n, 2))
          /\ Len(Self.opds) = Len(os) + 1
          /\ Self.opds[Len(os) + 1] = Opd(nodes, t, n, 2)
    BY <1>1, <1>4, <2>4, <2>5, HasResumed
  <2>7. Self.opds[1] = Opd(nodes, t, n, 2)
    <3>1. Len(Self.opds) = 1
      BY <1>2, <1>6 DEF Here, Fit
    <3> QED
      BY <2>6, <3>1
  <2>8. From(nodes, t, n, 2) = t.from[n]
    BY <1>1, <1>2, <2>6 DEF Waits
  <2>9. ASSUME NEW u, u.from[n] = t.from[n], u.to[n] = Len(instrs'),
               \A k \in Visits(n) : Alike(t, u, n, k)
        PROVE  Translates(nodes, instrs', u, n)
    <3>1. Alike(t, u, n, 2)
      BY <1>4, <2>9
    <3>2. /\ From(nodes, u, n, 2) = From(nodes, t, n, 2)
          /\ To(nodes, u, n, 2) = Len(instrs)
          /\ Opd(nodes, u, n, 2) = Opd(nodes, t, n, 2)
      BY <2>6, <3>1 DEF Alike
    <3>3. i = Instr("WRITE", Opd(nodes, u, n, 2), Unset, Unset)
      BY <1>2, <2>1, <2>7, <3>2
    <3>4. TranslatesOutput(nodes, instrs', u, n)
      BY <2>3, <2>8, <2>9, <3>2, <3>3 DEF TranslatesOutput
    <3> QED
      BY <1>2, <2>9, <3>4 DEF Translates, Here
  <2>10. Fulfils(t, n, Len(instrs'), Unset)
    BY <2>9 DEF Fulfils
  <2>11. Gives(Unset) /\ Unset \in Operand
    BY <1>2, <2>2 DEF Gives, Valued, Here, Operand
  <2> QED
    BY <1>1, <2>10, <2>11, GrowsUp
<1> QED
  BY <1>5, <1>6 DEF AnalyseOutput, At

(* A repeat: the body, the condition and a branch back to the body. *)
LEMMA RepeatGrows ==
  ASSUME NEW done, NEW t, Going(done, t), AnalyseRepeat
  PROVE  Grows
<1>1. PICK n : n = Self.node
  OBVIOUS
<1>2. Here(n, t) /\ stack # << >> /\ nodes[n].nt = "repeat"
  BY <1>1, GoingHere DEF Going, AnalyseRepeat, At, In
<1>3. /\ Onward \in Activation /\ Onward.node = n /\ Onward.step = Self.step + 1
      /\ Onward.start = Self.start
  BY <1>1, <1>2, OnwardFacts DEF Here
<1>4. /\ 2 \in Visits(n) /\ 5 \in Visits(n)
      /\ nodes[Sub(nodes, n, 5)].nt \in Valued
  BY <1>2, KidPlaces, ValuedKids DEF Here
<1>5. CASE Self.step = 1
  <2>1. PICK self : self = [Onward EXCEPT !.start = Len(instrs)]
    OBVIOUS
  <2>2. stack' = Calling(self, Kids[2]) /\ instrs' = instrs
    BY <1>5, <2>1 DEF AnalyseRepeat, At, OnlyCalls, memory
  <2>3. /\ self \in Activation /\ self.node = n /\ self.step = 2
        /\ self.start = Len(instrs)
    BY <1>1, <1>2, <1>5, <2>1, StartingFacts DEF Here
  <2>4. Len(instrs) = t.from[n]
    BY <1>1, <1>5, GoingOn
  <2>5. WaitsInRepeat(nodes, t, self, Len(instrs'))
    BY <2>2, <2>3, <2>4 DEF WaitsInRepeat
  <2>6. Waits(nodes, instrs', t, self, self.opds, Len(instrs'))
    BY <1>2, <2>3, <2>5 DEF Waits
  <2>7. 2 = Called(nodes[n].nt, self.step)
    BY <1>2, <2>3 DEF Called
  <2> QED
    BY <1>1, <1>4, <2>2, <2>3, <2>6, <2>7, GrowsDown
<1>6. CASE Self.step = 2
  <2>1. stack' = Calling(Onward, Kids[5]) /\ instrs' = instrs
    BY <1>6 DEF AnalyseRepeat, At, OnlyCalls, memory
  <2>2. Resumed(nodes, instrs, t, Self)
    BY <1>1, <1>2, <1>6, GoingOn
  <2>3. Called(nodes[n].nt, Self.step) = 2
    BY <1>2, <1>6 DEF Called
  <2>4. /\ Len(instrs) = To(nodes, t, n, 2)
        /\ \E os : Waits(nodes, instrs, t, Self, os, From(nodes, t, n, 2))
    BY <1>1, <2>2, <2>3, HasResumed
  <2>5. WaitsInRepeat(nodes, t, Self, From(nodes, t, n, 2))
    BY <1>1, <1>2, <2>4 DEF Waits
  <2>6. WaitsInRepeat(nodes, t, Onward, Len(instrs'))
    BY <1>1, <1>3, <1>6, <2>1, <2>4, <2>5 DEF WaitsInRepeat
  <2>7. Waits(nodes, instrs', t, Onward, Onward.opds, Len(instrs'))
    BY <1>2, <1>3, <2>6 DEF Waits
  <2>8. 5 = Called(nodes[n].nt, Onward.step)
    BY <1>2, <1>3, <1>6 DEF Called
  <2> QED
    BY <1>1, <1>3, <1>4, <2>1, <2>7, <2>8, GrowsDown
<1>7. CASE Self.step = 3
  <2>1. PICK i : i = Branch(Self.start)
    OBVIOUS
  <2>2. Add(i) /\ stack' = Returned
    BY <1>7, <2>1 DEF AnalyseRepeat, At
  <2>3. /\ Len(instrs') = Len(instrs) + 1 /\ Puts(instrs', Len(instrs), i)
    BY <1>2, <2>2, Adds DEF Here
  <2>4. Called(nodes[n].nt, Self.step) = 5
    BY <1>2, <1>7 DEF Called
  <2>5. Resumed(nodes, instrs, t, Self)
    BY <1>1, <1>2, <1>7, GoingOn
  <2>6. PICK os \in Seq(Operand) :
          /\ Len(instrs) = To(nodes, t, n, 5)
          /\ Waits(nodes, instrs, t, Self, os, From(nodes, t, n, 5))
          /\ Len(Self.opds) = Len(os) + 1
          /\ Self.opds[Len(os) + 1] = Opd(nodes, t, n, 5)
    BY <1>1, <1>4, <2>4, <2>5, HasResumed
  <2>7. Self.opds[1] = Opd(nodes, t, n, 5)
    <3>1. Len(Self.opds) = 1
      BY <1>2, <1>7 DEF Here, Fit
    <3> QED
      BY <2>6, <3>1
  <2>8. WaitsInRepeat(nodes, t, Self, From(nodes, t, n, 5))
    BY <1>1, <1>2, <2>6 DEF Waits
  <2>9. ASSUME NEW u, u.from[n] = t.from[n], u.to[n] = Len(instrs'),
               \A k \in Visits(n) : Alike(t, u, n, k)
        PROVE  Translates(nodes, instrs', u, n)
    <3>1. Alike(t, u, n, 2) /\ Alike(t, u, n, 5)
      BY <1>4, <2>9
    <3>2. i = Test(Opd(nodes, u, n, 5), u.from[n])
      BY <1>1, <1>7, <2>1, <2>7, <2>8, <2>9, <3>1
         DEF Alike, Branch, Test, WaitsInRepeat
    <3>3. TranslatesRepeat(nodes, instrs', u, n)
      BY <1>1, <1>7, <2>3, <2>6, <2>8, <2>9, <3>1, <3>2
         DEF TranslatesRepeat, WaitsInRepeat, Alike
    <3> QED
      BY <1>2, <2>9, <3>3 DEF Translates, Here
  <2>10. Fulfils(t, n, Len(instrs'), Unset)
    BY <2>9 DEF Fulfils
  <2>11. Gives(Unset) /\ Unset \in Operand
    BY <1>2, <2>2 DEF Gives, Valued, Here, Operand
  <2> QED
    BY <1>1, <2>10, <2>11, GrowsUp
<1> QED
  BY <1>5, <1>6, <1>7 DEF AnalyseRepeat, At

-----------------------------------------------------------------------------
(* What has no label to wait for stays in place. *)
LEMMA PutsStays ==
  ASSUME NEW done, NEW t, Going(done, t), NEW l \in Nat, NEW i,
         Puts(instrs, l, i), i.dest # Label(NULL)
  PROVE  Puts(instrs', l, i)
BY CodeKept, PutsKept

(* What the functions of the tests do to the code. *)
LEMMA PatchedShape ==
  ASSUME NEW code \in Seq(Instruction), NEW ptr, NEW label
  PROVE  /\ Len(Patched(code, ptr, label)) = Len(code)
         /\ \A k \in 1..Len(code) : k # ptr.index =>
              Patched(code, ptr, label)[k] = code[k]
<1>1. CASE ptr.block = block'
  <2>1. PICK c : c = [code EXCEPT ![ptr.index].dest = Label(label)]
    OBVIOUS
  <2>2. /\ DOMAIN c = 1..Len(code) /\ Len(code) \in Nat
        /\ \A k \in 1..Len(code) : k # ptr.index => c[k] = code[k]
    BY <2>1
  <2>3. c = [k \in 1..Len(code) |-> c[k]]
    BY <2>1, <2>2
  <2>4. Len(c) = Len(code)
    BY <2>2, <2>3
  <2> QED
    BY <1>1, <2>1, <2>2, <2>4 DEF Patched
<1>2. CASE ptr.block # block'
  BY <1>2 DEF Patched
<1> QED
  BY <1>1, <1>2

(* A goto is added, and a label known that points behind it. *)
LEMMA GotoPuts ==
  ASSUME NEW done, NEW t, Going(done, t), NEW i \in Instruction,
         NEW ptr, ptr.index \in 1..Len(instrs), NEW label,
         instrs' = Patched(Append(instrs, i), ptr, label)
  PROVE  Len(instrs') = Len(instrs) + 1 /\ Puts(instrs', Len(instrs), i)
<1>1. PICK n : n = Self.node
  OBVIOUS
<1>2. instrs \in Seq(Instruction) /\ Len(instrs) \in Nat
  BY <1>1, GoingHere DEF Here
<1>3. PICK code : code = Append(instrs, i)
  OBVIOUS
<1>4. /\ code \in Seq(Instruction)
      /\ Len(code) = Len(instrs) + 1 /\ code[Len(instrs) + 1] = i
  BY <1>2, <1>3, AppendProperties
<1>a. instrs' = Patched(code, ptr, label)
  BY <1>3
<1>5. /\ Len(instrs') = Len(code)
      /\ \A k \in 1..Len(code) : k # ptr.index => instrs'[k] = code[k]
  BY <1>4, <1>a, PatchedShape
<1>6. Len(instrs) + 1 \in 1..Len(code) /\ Len(instrs) + 1 # ptr.index
  BY <1>2, <1>4
<1> QED
  BY <1>2, <1>4, <1>5, <1>6 DEF Puts

(* The pointer that is remembered leads behind the last instruction. *)
LEMMA PointingAt ==
  ASSUME FrameInv, stack # << >>, Enlarge, NEW self, self = Pointing(Onward)
  PROVE  /\ self \in Activation /\ self.node = Self.node /\ self.opds = Self.opds
         /\ self.start = Self.start /\ self.step = Self.step + 1
         /\ \A k \in Nat : k = Len(Self.ptrs) =>
              self.ptrs[k + 1].index = Len(instrs) + 1
<1>1. /\ self \in Activation /\ self.node = Self.node /\ self.opds = Self.opds
      /\ self.start = Self.start /\ self.step = Self.step + 1
      /\ self.ptrs = Append(Self.ptrs, LastAdded) /\ LastAdded \in Pointer
  BY PointingFacts
<1>2. Self.ptrs \in Seq(Pointer)
  BY SelfFacts DEF Activation
<1>3. LastAdded.index = Len(instrs) + 1
  BY DEF LastAdded
<1>4. Append(Self.ptrs, LastAdded)[Len(Self.ptrs) + 1] = LastAdded
  BY <1>1, <1>2
<1> QED
  BY <1>1, <1>3, <1>4

(* A goto is an instruction. *)
LEMMA GotoTyped == Goto(NULL) \in Instruction /\ \A l \in Nat : Goto(l) \in Instruction
BY DEF Goto, Instr, Instruction, Ops, Jumps, Operand, Unset, Label

(* A branch: condition, branch, else part, goto, then part. *)
LEMMA BranchGrows ==
  ASSUME NEW done, NEW t, Going(done, t), AnalyseBranch
  PROVE  Grows
<1>1. PICK n : n = Self.node
  OBVIOUS
<1>2. Here(n, t) /\ stack # << >> /\ nodes[n].nt = "branch" /\ PointersAtJumps
  BY <1>1, GoingHere, GoingFacts DEF Going, AnalyseBranch, At, In
<1>3. /\ Onward \in Activation /\ Onward.node = n /\ Onward.step = Self.step + 1
  BY <1>1, <1>2, OnwardFacts DEF Here
<1>4. /\ 3 \in Visits(n) /\ 6 \in Visits(n) /\ 8 \in Visits(n)
      /\ nodes[Sub(nodes, n, 3)].nt \in Valued
  BY <1>2, KidPlaces, ValuedKids DEF Here
<1>5. /\ Self.step # 1 => Len(Self.opds) = 1 /\ Len(Self.ptrs) = Self.step - 2
      /\ Self.step \in 1..4
  BY <1>2 DEF Here, Fit, TestFit
<1>6. \A i \in {3, 6, 8} :
        /\ From(nodes, t, n, i) \in Nat /\ To(nodes, t, n, i) \in Nat
  BY <1>2, <1>4, PlacesOfKids DEF Here
<1>7. ASSUME Self.step # 1, NEW c, c = Called("branch", Self.step)
      PROVE  /\ Len(instrs) = To(nodes, t, n, c)
             /\ \E os \in Seq(Operand) :
                  /\ WaitsInBranch(nodes, instrs, t, Self, From(nodes, t, n, c))
                  /\ nodes[Sub(nodes, n, c)].nt \in Valued =>
                       /\ Len(Self.opds) = Len(os) + 1
                       /\ Self.opds[Len(os) + 1] = Opd(nodes, t, n, c)
  <2>1. Resumed(nodes, instrs, t, Self)
    BY <1>1, <1>2, <1>7, GoingOn
  <2>2. c = Called(nodes[n].nt, Self.step)
    BY <1>2, <1>7
  <2>3. /\ Len(instrs) = To(nodes, t, n, c)
        /\ \E os \in Seq(Operand) :
             /\ Waits(nodes, instrs, t, Self, os, From(nodes, t, n, c))
             /\ nodes[Sub(nodes, n, c)].nt \in Valued =>
                  /\ Len(Self.opds) = Len(os) + 1
                  /\ Self.opds[Len(os) + 1] = Opd(nodes, t, n, c)
    BY <1>1, <2>1, <2>2, HasResumed
  <2> QED
    BY <1>1, <1>2, <2>3 DEF Waits
<1>8. CASE Self.step = 1
  <2>1. stack' = Calling(Onward, Kids[3]) /\ instrs' = instrs
    BY <1>8 DEF AnalyseBranch, At, OnlyCalls, memory
  <2>2. Len(instrs) = t.from[n]
    BY <1>1, <1>8, GoingOn
  <2>3. WaitsInBranch(nodes, instrs', t, Onward, Len(instrs'))
    BY <1>3, <1>8, <2>1, <2>2 DEF WaitsInBranch
  <2>4. Waits(nodes, instrs', t, Onward, Onward.opds, Len(instrs'))
    BY <1>2, <1>3, <2>3 DEF Waits
  <2>5. 3 = Called(nodes[n].nt, Onward.step)
    BY <1>2, <1>3, <1>8 DEF Called
  <2> QED
    BY <1>1, <1>3, <1>4, <2>1, <2>4, <2>5, GrowsDown
<1>9. CASE Self.step = 2
  <2>1. PICK self : self = Pointing(Onward)
    OBVIOUS
  <2>2. stack' = Calling(self, Kids[8]) /\ Add(Branch(NULL)) /\ Enlarge
    BY <1>9, <2>1 DEF AnalyseBranch, At, Add
  <2>3. /\ self \in Activation /\ self.node = n /\ self.step = 3
        /\ self.ptrs[1].index = Len(instrs) + 1
    <3>1. Len(Self.ptrs) = 0
      BY <1>5, <1>9
    <3> QED
      BY <1>1, <1>2, <1>9, <2>1, <2>2, <3>1, PointingAt DEF Here
  <2>4. Called("branch", Self.step) = 3
    BY <1>9 DEF Called
  <2>5. /\ Len(instrs) = To(nodes, t, n, 3)
        /\ WaitsInBranch(nodes, instrs, t, Self, From(nodes, t, n, 3))
        /\ Self.opds[1] = Opd(nodes, t, n, 3)
    BY <1>4, <1>5, <1>7, <1>9, <2>4
  <2>6. /\ Len(instrs') = Len(instrs) + 1
        /\ Puts(instrs', Len(instrs), Branch(NULL))
    BY <1>2, <2>2, Adds DEF Here
  <2>7. Branch(NULL) = Test(Opd(nodes, t, n, 3), NULL)
    BY <2>5 DEF Branch, Test
  <2>8. WaitsInBranch(nodes, instrs', t, self, Len(instrs'))
    BY <1>1, <1>9, <2>3, <2>5, <2>6, <2>7 DEF WaitsInBranch
  <2>9. Waits(nodes, instrs', t, self, self.opds, Len(instrs'))
    BY <1>2, <2>3, <2>8 DEF Waits
  <2>10. 8 = Called(nodes[n].nt, self.step)
    BY <1>2, <2>3 DEF Called
  <2> QED
    BY <1>1, <1>4, <2>2, <2>3, <2>9, <2>10, GrowsDown
<1>10. CASE Self.step = 3
  <2>1. PICK self : self = Pointing(Onward)
    OBVIOUS
  <2>2. /\ stack' = Calling(self, Kids[6]) /\ Enlarge
        /\ instrs' = Patched(Append(instrs, Goto(NULL)), Self.ptrs[1],
                             Len(instrs) + 1)
    BY <1>10, <2>1 DEF AnalyseBranch, At
  <2>3. /\ self \in Activation /\ self.node = n /\ self.step = 4
        /\ self.ptrs[2].index = Len(instrs) + 1
    <3>1. Len(Self.ptrs) = 1
      BY <1>5, <1>10
    <3> QED
      BY <1>1, <1>2, <1>10, <2>1, <2>2, <3>1, PointingAt DEF Here
  <2>4. Called("branch", Self.step) = 8
    BY <1>10 DEF Called
  <2>5. /\ Len(instrs) = To(nodes, t, n, 8)
        /\ WaitsInBranch(nodes, instrs, t, Self, From(nodes, t, n, 8))
    BY <1>7, <1>10, <2>4
  <2>6. /\ From(nodes, t, n, 3) = t.from[n]
        /\ From(nodes, t, n, 8) = To(nodes, t, n, 3) + 1
        /\ Puts(instrs, To(nodes, t, n, 3), Test(Opd(nodes, t, n, 3), NULL))
        /\ Self.ptrs[1].index = To(nodes, t, n, 3) + 1
    BY <1>1, <1>10, <2>5 DEF WaitsInBranch
  <2>7. /\ Len(instrs') = Len(instrs) + 1
        /\ Puts(instrs', To(nodes, t, n, 8), Jump(NULL))
    <3>1. Self.ptrs[1].index \in 1..Len(instrs)
      BY <2>6 DEF Puts
    <3>2. Goto(NULL) = Jump(NULL)
      BY DEF Goto, Jump
    <3> QED
      BY <2>2, <2>5, <3>1, <3>2, GotoPuts, GotoTyped
  <2>8. Puts(instrs', To(nodes, t, n, 3), Test(Opd(nodes, t, n, 3), Len(instrs')))
    <3>1. Awaits(Self, To(nodes, t, n, 3) + 1)
      BY <1>1, <1>2, <1>10, <2>6 DEF Awaits, Here
    <3> QED
      BY <1>6, <2>6, <3>1, CodePatched
  <2>9. WaitsInBranch(nodes, instrs', t, self, Len(instrs'))
    BY <2>3, <2>5, <2>6, <2>7, <2>8 DEF WaitsInBranch
  <2>10. Waits(nodes, instrs', t, self, self.opds, Len(instrs'))
    BY <1>2, <2>3, <2>9 DEF Waits
  <2>11. 6 = Called(nodes[n].nt, self.step)
    BY <1>2, <2>3 DEF Called
  <2> QED
    BY <1>1, <1>4, <2>2, <2>3, <2>10, <2>11, GrowsDown
<1>11. CASE Self.step = 4
  <2>1. /\ stack' = Returned
        /\ instrs' = Patched(instrs, Self.ptrs[2], Len(instrs))
    BY <1>11 DEF AnalyseBranch, At
  <2>2. Len(instrs') = Len(instrs)
    BY <1>2, <2>1, PatchedShape DEF Here
  <2>3. Called("branch", Self.step) = 6
    BY <1>11 DEF Called
  <2>4. /\ Len(instrs) = To(nodes, t, n, 6)
        /\ WaitsInBranch(nodes, instrs, t, Self, From(nodes, t, n, 6))
    BY <1>7, <1>11, <2>3
  <2>5. /\ From(nodes, t, n, 3) = t.from[n]
        /\ Puts(instrs, To(nodes, t, n, 3),
                Test(Opd(nodes, t, n, 3), From(nodes, t, n, 6)))
        /\ From(nodes, t, n, 8) = To(nodes, t, n, 3) + 1
        /\ Puts(instrs, To(nodes, t, n, 8), Jump(NULL))
        /\ From(nodes, t, n, 6) = To(nodes, t, n, 8) + 1
        /\ Self.ptrs[2].index = To(nodes, t, n, 8) + 1
    BY <1>1, <1>11, <2>4 DEF WaitsInBranch
  <2>6. Puts(instrs', To(nodes, t, n, 8), Jump(Len(instrs')))
    <3>1. Awaits(Self, To(nodes, t, n, 8) + 1)
      BY <1>1, <1>2, <1>11, <2>5 DEF Awaits, Here
    <3> QED
      BY <1>6, <2>5, <3>1, CodePatched
  <2>7. Puts(instrs', To(nodes, t, n, 3),
             Test(Opd(nodes, t, n, 3), From(nodes, t, n, 6)))
    BY <1>6, <2>5, PutsStays, LabelSet, DestOf
  <2>8. ASSUME NEW u, u.from[n] = t.from[n], u.to[n] = Len(instrs'),
               \A k \in Visits(n) : Alike(t, u, n, k)
        PROVE  Translates(nodes, instrs', u, n)
    <3>1. Alike(t, u, n, 3) /\ Alike(t, u, n, 6) /\ Alike(t, u, n, 8)
      BY <1>4, <2>8
    <3>2. TranslatesBranch(nodes, instrs', u, n)
      BY <2>2, <2>4, <2>5, <2>6, <2>7, <2>8, <3>1 DEF TranslatesBranch, Alike
    <3> QED
      BY <1>2, <2>8, <3>2 DEF Translates, Here
  <2>9. Fulfils(t, n, Len(instrs'), Unset)
    BY <2>8 DEF Fulfils
  <2>10. Gives(Unset) /\ Unset \in Operand
    BY <1>2, <2>1 DEF Gives, Valued, Here, Operand
  <2> QED
    BY <1>1, <2>9, <2>10, GrowsUp
<1> QED
  BY <1>5, <1>8, <1>9, <1>10, <1>11

(* A loop: condition, branch, goto, body and a goto back. *)
LEMMA LoopGrows ==
  ASSUME NEW done, NEW t, Going(done, t), AnalyseLoop
  PROVE  Grows
<1>1. PICK n : n = Self.node
  OBVIOUS
<1>2. Here(n, t) /\ stack # << >> /\ nodes[n].nt = "loop" /\ PointersAtJumps
  BY <1>1, GoingHere, GoingFacts DEF Going, AnalyseLoop, At, In
<1>3. /\ 3 \in Visits(n) /\ 6 \in Visits(n)
      /\ nodes[Sub(nodes, n, 3)].nt \in Valued
  BY <1>2, KidPlaces, ValuedKids DEF Here
<1>4. /\ Self.step # 1 => Len(Self.opds) = 1 /\ Len(Self.ptrs) = Self.step - 2
      /\ Self.step \in 1..4
  BY <1>2 DEF Here, Fit, TestFit
<1>5. \A i \in {3, 6} :
        /\ From(nodes, t, n, i) \in Nat /\ To(nodes, t, n, i) \in Nat
  BY <1>2, <1>3, PlacesOfKids DEF Here
<1>6. ASSUME Resumed(nodes, instrs, t, Self), NEW c, c = Called("loop", Self.step)
      PROVE  /\ Len(instrs) = To(nodes, t, n, c)
             /\ \E os \in Seq(Operand) :
                  /\ WaitsInLoop(nodes, instrs, t, Self, From(nodes, t, n, c))
                  /\ nodes[Sub(nodes, n, c)].nt \in Valued =>
                       /\ Len(Self.opds) = Len(os) + 1
                       /\ Self.opds[Len(os) + 1] = Opd(nodes, t, n, c)
  <2>1. c = Called(nodes[n].nt, Self.step)
    BY <1>2, <1>6
  <2>2. /\ Len(instrs) = To(nodes, t, n, c)
        /\ \E os \in Seq(Operand) :
             /\ Waits(nodes, instrs, t, Self, os, From(nodes, t, n, c))
             /\ nodes[Sub(nodes, n, c)].nt \in Valued =>
                  /\ Len(Self.opds) = Len(os) + 1
                  /\ Self.opds[Len(os) + 1] = Opd(nodes, t, n, c)
    BY <1>1, <1>6, <2>1, HasResumed
  <2> QED
    BY <1>1, <1>2, <2>2 DEF Waits
<1>7. /\ Self.step = 1 => Len(instrs) = t.from[n]
      /\ Self.step \in {2, 4} => Resumed(nodes, instrs, t, Self)
      /\ Self.step = 3 => Tested(nodes, instrs, t, Self)
  <2>1. Goes(nodes, instrs, t, Self)
    BY GoingFacts
  <2>2. ASSUME Resumed(nodes, instrs, t, Self) PROVE Self.step # 3
    BY <1>6, <2>2 DEF WaitsInLoop
  <2> QED
    BY <1>1, <1>2, <2>1, <2>2 DEF Goes, Combined, Tested
<1>8. CASE Self.step = 1
  <2>1. PICK self : self = [Onward EXCEPT !.start = Len(instrs)]
    OBVIOUS
  <2>2. stack' = Calling(self, Kids[3]) /\ instrs' = instrs
    BY <1>8, <2>1 DEF AnalyseLoop, At, OnlyCalls, memory
  <2>3. /\ self \in Activation /\ self.node = n /\ self.step = 2
        /\ self.start = Len(instrs)
    BY <1>1, <1>2, <1>8, <2>1, StartingFacts DEF Here
  <2>4. WaitsInLoop(nodes, instrs', t, self, Len(instrs'))
    BY <1>7, <1>8, <2>2, <2>3 DEF WaitsInLoop
  <2>5. Waits(nodes, instrs', t, self, self.opds, Len(instrs'))
    BY <1>2, <2>3, <2>4 DEF Waits
  <2>6. 3 = Called(nodes[n].nt, self.step)
    BY <1>2, <2>3 DEF Called
  <2> QED
    BY <1>1, <1>3, <2>2, <2>3, <2>5, <2>6, GrowsDown
<1>9. CASE Self.step = 2
  <2>1. PICK self : self = Pointing(Onward)
    OBVIOUS
  <2>2. stack' = Stepping(self) /\ Add(Branch(NULL)) /\ Enlarge
    BY <1>9, <2>1 DEF AnalyseLoop, At, Add
  <2>3. /\ self \in Activation /\ self.node = n /\ self.step = 3
        /\ self.start = Self.start
        /\ self.ptrs[1].index = Len(instrs) + 1
    <3>1. Len(Self.ptrs) = 0
      BY <1>4, <1>9
    <3> QED
      BY <1>1, <1>2, <1>9, <2>1, <2>2, <3>1, PointingAt DEF Here
  <2>4. Called("loop", Self.step) = 3
    BY <1>9 DEF Called
  <2>5. /\ Len(instrs) = To(nodes, t, n, 3)
        /\ WaitsInLoop(nodes, instrs, t, Self, From(nodes, t, n, 3))
        /\ Self.opds[1] = Opd(nodes, t, n, 3)
    BY <1>3, <1>4, <1>6, <1>7, <1>9, <2>4
  <2>6. /\ Len(instrs') = Len(instrs) + 1
        /\ Puts(instrs', Len(instrs), Branch(NULL))
    BY <1>2, <2>2, Adds DEF Here
  <2>7. Branch(NULL) = Test(Opd(nodes, t, n, 3), NULL)
    BY <2>5 DEF Branch, Test
  <2>8. Self.start = t.from[n] /\ From(nodes, t, n, 3) = t.from[n]
    BY <1>1, <1>9, <2>5 DEF WaitsInLoop
  <2>9. Tested(nodes, instrs', t, self)
    BY <1>2, <2>3, <2>5, <2>6, <2>7, <2>8 DEF Tested
  <2>10. Goes(nodes, instrs', t, self)
    BY <1>2, <2>3, <2>9 DEF Goes
  <2> QED
    BY <1>1, <2>2, <2>3, <2>10, GrowsOn
<1>10. CASE Self.step = 3
  <2>1. PICK self : self = Pointing(Onward)
    OBVIOUS
  <2>2. /\ stack' = Calling(self, Kids[6]) /\ Enlarge
        /\ instrs' = Patched(Append(instrs, Goto(NULL)), Self.ptrs[1],
                             Len(instrs) + 1)
    BY <1>10, <2>1 DEF AnalyseLoop, At
  <2>3. /\ self \in Activation /\ self.node = n /\ self.step = 4
        /\ self.start = Self.start
        /\ self.ptrs[2].index = Len(instrs) + 1
    <3>1. Len(Self.ptrs) = 1
      BY <1>4, <1>10
    <3> QED
      BY <1>1, <1>2, <1>10, <2>1, <2>2, <3>1, PointingAt DEF Here
  <2>4. /\ Self.start = t.from[n] /\ From(nodes, t, n, 3) = t.from[n]
        /\ Len(instrs) = To(nodes, t, n, 3) + 1
        /\ Puts(instrs, To(nodes, t, n, 3), Test(Opd(nodes, t, n, 3), NULL))
        /\ Self.ptrs[1].index = Len(instrs)
    BY <1>1, <1>7, <1>10 DEF Tested
  <2>5. /\ Len(instrs') = Len(instrs) + 1
        /\ Puts(instrs', To(nodes, t, n, 3) + 1, Jump(NULL))
    <3>1. Self.ptrs[1].index \in 1..Len(instrs)
      BY <2>4 DEF Puts
    <3>2. Goto(NULL) = Jump(NULL)
      BY DEF Goto, Jump
    <3> QED
      BY <2>2, <2>4, <3>1, <3>2, GotoPuts, GotoTyped
  <2>6. Puts(instrs', To(nodes, t, n, 3), Test(Opd(nodes, t, n, 3), Len(instrs')))
    <3>1. Awaits(Self, To(nodes, t, n, 3) + 1)
      BY <1>1, <1>2, <1>10, <2>4 DEF Awaits, Here
    <3> QED
      BY <1>5, <2>4, <3>1, CodePatched
  <2>7. WaitsInLoop(nodes, instrs', t, self, Len(instrs'))
    BY <1>5, <2>3, <2>4, <2>5, <2>6 DEF WaitsInLoop
  <2>8. Waits(nodes, instrs', t, self, self.opds, Len(instrs'))
    BY <1>2, <2>3, <2>7 DEF Waits
  <2>9. 6 = Called(nodes[n].nt, self.step)
    BY <1>2, <2>3 DEF Called
  <2> QED
    BY <1>1, <1>3, <2>2, <2>3, <2>8, <2>9, GrowsDown
<1>11. CASE Self.step = 4
  <2>1. /\ stack' = Returned
        /\ instrs' = Patched(Append(instrs, Goto(Self.start)), Self.ptrs[2],
                             Len(instrs) + 1)
    BY <1>11 DEF AnalyseLoop, At
  <2>2. Called("loop", Self.step) = 6
    BY <1>11 DEF Called
  <2>3. /\ Len(instrs) = To(nodes, t, n, 6)
        /\ WaitsInLoop(nodes, instrs, t, Self, From(nodes, t, n, 6))
    BY <1>6, <1>7, <1>11, <2>2
  <2>4. /\ Self.start = t.from[n] /\ From(nodes, t, n, 3) = t.from[n]
        /\ Puts(instrs, To(nodes, t, n, 3),
                Test(Opd(nodes, t, n, 3), From(nodes, t, n, 6)))
        /\ Puts(instrs, To(nodes, t, n, 3) + 1, Jump(NULL))
        /\ From(nodes, t, n, 6) = To(nodes, t, n, 3) + 2
        /\ Self.ptrs[2].index = From(nodes, t, n, 6)
    BY <1>1, <1>11, <2>3 DEF WaitsInLoop
  <2>5. /\ Len(instrs') = Len(instrs) + 1
        /\ Puts(instrs', Len(instrs), Jump(t.from[n]))
    <3>1. Self.ptrs[2].index \in 1..Len(instrs)
      BY <1>5, <2>4 DEF Puts
    <3>2. Goto(Self.start) = Jump(t.from[n]) /\ t.from[n] \in Nat
      BY <1>2, <2>4 DEF Goto, Jump, Here
    <3>3. Goto(Self.start) \in Instruction
      BY <2>4, <3>2, GotoTyped
    <3> QED
      BY <2>1, <3>1, <3>2, <3>3, GotoPuts
  <2>6. Puts(instrs', To(nodes, t, n, 3) + 1, Jump(Len(instrs')))
    <3>1. /\ To(nodes, t, n, 3) + 1 \in Nat
          /\ Self.ptrs[2].index = (To(nodes, t, n, 3) + 1) + 1
      BY <1>5, <2>4
    <3>2. Awaits(Self, (To(nodes, t, n, 3) + 1) + 1)
      BY <1>1, <1>2, <1>11, <3>1 DEF Awaits, Here
    <3> QED
      BY <2>4, <3>1, <3>2, CodePatched
  <2>7. Puts(instrs', To(nodes, t, n, 3),
             Test(Opd(nodes, t, n, 3), From(nodes, t, n, 6)))
    BY <1>5, <2>4, PutsStays, LabelSet, DestOf
  <2>8. ASSUME NEW u, u.from[n] = t.from[n], u.to[n] = Len(instrs'),
               \A k \in Visits(n) : Alike(t, u, n, k)
        PROVE  Translates(nodes, instrs', u, n)
    <3>1. Alike(t, u, n, 3) /\ Alike(t, u, n, 6)
      BY <1>3, <2>8
    <3>2. TranslatesLoop(nodes, instrs', u, n)
      BY <2>3, <2>4, <2>5, <2>6, <2>7, <2>8, <3>1 DEF TranslatesLoop, Alike
    <3> QED
      BY <1>2, <2>8, <3>2 DEF Translates, Here
  <2>9. Fulfils(t, n, Len(instrs'), Unset)
    BY <2>8 DEF Fulfils
  <2>10. Gives(Unset) /\ Unset \in Operand
    BY <1>2, <2>1 DEF Gives, Valued, Here, Operand
  <2> QED
    BY <1>1, <2>9, <2>10, GrowsUp
<1> QED
  BY <1>4, <1>8, <1>9, <1>10, <1>11

(* A new temporary, and the instruction that computes it. *)
LEMMA AddsTemporary ==
  ASSUME FrameInv, NEW op, NEW a, NEW b, AddTemporary(op, a, b),
         NEW o, o = Temporary(tmp_cnt)
  PROVE  /\ Len(instrs') = Len(instrs) + 1
         /\ Puts(instrs', Len(instrs), Instr(op, a, b, o))
         /\ o \in Operand /\ o.type = "TEMPORARY"
<1>1. instrs \in Seq(Instruction) /\ tmp_cnt \in Nat
  BY DEF FrameInv, TypeOK
<1>2. Add(Instr(op, a, b, o))
  BY DEF AddTemporary
<1> QED
  BY <1>1, <1>2, Adds DEF Temporary, Operand

(* A condition: both operands and then the relation. *)
LEMMA ConditionGrows ==
  ASSUME NEW done, NEW t, Going(done, t), AnalyseCondition
  PROVE  Grows
<1>1. PICK n : n = Self.node
  OBVIOUS
<1>2. Here(n, t) /\ stack # << >> /\ nodes[n].nt = "condition" /\ FrameInv
  BY <1>1, GoingHere, GoingFacts DEF Going, AnalyseCondition, At, In
<1>3. /\ Onward \in Activation /\ Onward.node = n /\ Onward.step = Self.step + 1
      /\ Onward.opds = Self.opds
  BY <1>1, <1>2, OnwardFacts
<1>4. /\ 1 \in Visits(n) /\ 3 \in Visits(n)
      /\ nodes[Sub(nodes, n, 1)].nt \in Valued
      /\ nodes[Sub(nodes, n, 3)].nt \in Valued
  BY <1>2, KidPlaces, ValuedKids DEF Here
<1>5. Len(Self.opds) = Self.step - 1 /\ Self.step \in 1..3
      /\ Self.opds \in Seq(Operand)
  BY <1>2 DEF Here, Fit
<1>6. ASSUME Self.step # 1, NEW c, c = Called("condition", Self.step), c \in {1, 3}
      PROVE  /\ Len(instrs) = To(nodes, t, n, c)
             /\ \E os \in Seq(Operand) :
                  /\ WaitsInCondition(nodes, t, Self, os, From(nodes, t, n, c))
                  /\ Len(Self.opds) = Len(os) + 1
                  /\ Self.opds[Len(os) + 1] = Opd(nodes, t, n, c)
                  /\ \A i \in 1..Len(os) : Self.opds[i] = os[i]
  <2>1. Resumed(nodes, instrs, t, Self)
    BY <1>1, <1>2, <1>6, GoingOn
  <2>2. c = Called(nodes[n].nt, Self.step) /\ nodes[Sub(nodes, n, c)].nt \in Valued
    BY <1>2, <1>4, <1>6
  <2>3. /\ Len(instrs) = To(nodes, t, n, c)
        /\ \E os \in Seq(Operand) :
             /\ Waits(nodes, instrs, t, Self, os, From(nodes, t, n, c))
             /\ Len(Self.opds) = Len(os) + 1
             /\ Self.opds[Len(os) + 1] = Opd(nodes, t, n, c)
             /\ \A i \in 1..Len(os) : Self.opds[i] = os[i]
    BY <1>1, <2>1, <2>2, HasResumed
  <2> QED
    BY <1>1, <1>2, <2>3 DEF Waits
<1>7. CASE Self.step = 1
  <2>1. stack' = Calling(Onward, Kids[1]) /\ instrs' = instrs
    BY <1>7 DEF AnalyseCondition, At, OnlyCalls, memory
  <2>2. Len(instrs) = t.from[n]
    BY <1>1, <1>7, GoingOn
  <2>3. WaitsInCondition(nodes, t, Onward, Onward.opds, Len(instrs'))
    BY <1>3, <1>7, <2>1, <2>2 DEF WaitsInCondition
  <2>4. Waits(nodes, instrs', t, Onward, Onward.opds, Len(instrs'))
    BY <1>2, <1>3, <2>3 DEF Waits
  <2>5. 1 = Called(nodes[n].nt, Onward.step)
    BY <1>2, <1>3, <1>7 DEF Called
  <2> QED
    BY <1>1, <1>3, <1>4, <2>1, <2>4, <2>5, GrowsDown
<1>8. CASE Self.step = 2
  <2>1. stack' = Calling(Onward, Kids[3]) /\ instrs' = instrs
    BY <1>8 DEF AnalyseCondition, At, OnlyCalls, memory
  <2>2. Called("condition", Self.step) = 1
    BY <1>8 DEF Called
  <2>3. PICK os \in Seq(Operand) :
          /\ Len(instrs) = To(nodes, t, n, 1)
          /\ WaitsInCondition(nodes, t, Self, os, From(nodes, t, n, 1))
          /\ Len(Self.opds) = Len(os) + 1
          /\ Self.opds[Len(os) + 1] = Opd(nodes, t, n, 1)
    BY <1>6, <1>8, <2>2
  <2>4. Self.opds = <<Opd(nodes, t, n, 1)>>
    BY <1>5, <1>8, <2>3
  <2>5. From(nodes, t, n, 1) = t.from[n]
    BY <1>1, <1>8, <2>3 DEF WaitsInCondition
  <2>6. WaitsInCondition(nodes, t, Onward, Onward.opds, Len(instrs'))
    BY <1>3, <1>8, <2>1, <2>3, <2>4, <2>5 DEF WaitsInCondition
  <2>7. Waits(nodes, instrs', t, Onward, Onward.opds, Len(instrs'))
    BY <1>2, <1>3, <2>6 DEF Waits
  <2>8. 3 = Called(nodes[n].nt, Onward.step)
    BY <1>2, <1>3, <1>8 DEF Called
  <2> QED
    BY <1>1, <1>3, <1>4, <2>1, <2>7, <2>8, GrowsDown
<1>9. CASE Self.step = 3
  <2>1. PICK o : o = Temporary(tmp_cnt)
    OBVIOUS
  <2>2. /\ AddTemporary(Kids[2].type, Self.opds[1], Self.opds[2])
        /\ stack' = Returning(o)
    BY <1>9, <2>1 DEF AnalyseCondition, At
  <2>3. /\ Len(instrs') = Len(instrs) + 1
        /\ Puts(instrs', Len(instrs),
                Instr(Kids[2].type, Self.opds[1], Self.opds[2], o))
        /\ o \in Operand /\ o.type = "TEMPORARY"
    BY <1>2, <2>1, <2>2, AddsTemporary
  <2>4. Called("condition", Self.step) = 3
    BY <1>9 DEF Called
  <2>5. PICK os \in Seq(Operand) :
          /\ Len(instrs) = To(nodes, t, n, 3)
          /\ WaitsInCondition(nodes, t, Self, os, From(nodes, t, n, 3))
          /\ Len(Self.opds) = Len(os) + 1
          /\ Self.opds[Len(os) + 1] = Opd(nodes, t, n, 3)
          /\ \A i \in 1..Len(os) : Self.opds[i] = os[i]
    BY <1>6, <1>9, <2>4
  <2>6. /\ From(nodes, t, n, 1) = t.from[n]
        /\ From(nodes, t, n, 3) = To(nodes, t, n, 1)
        /\ os = <<Opd(nodes, t, n, 1)>>
    BY <1>1, <1>9, <2>5 DEF WaitsInCondition
  <2>7. Self.opds[1] = Opd(nodes, t, n, 1) /\ Self.opds[2] = Opd(nodes, t, n, 3)
    BY <2>5, <2>6
  <2>8. ASSUME NEW u, u.from[n] = t.from[n], u.to[n] = Len(instrs'), u.opd[n] = o,
               \A k \in Visits(n) : Alike(t, u, n, k)
        PROVE  Translates(nodes, instrs', u, n)
    <3>1. Alike(t, u, n, 1) /\ Alike(t, u, n, 3)
      BY <1>4, <2>8
    <3>2. Instr(Kids[2].type, Self.opds[1], Self.opds[2], o)
            = Instr(Word(nodes, n, 2), Opd(nodes, u, n, 1), Opd(nodes, u, n, 3),
                    u.opd[n])
      BY <1>2, <2>7, <2>8, <3>1 DEF Word, Here, Alike
    <3>3. To(nodes, u, n, 3) = Len(instrs)
      BY <2>5, <3>1 DEF Alike
    <3>4. TranslatesCondition(nodes, instrs', u, n)
      BY <2>3, <2>5, <2>6, <2>8, <3>1, <3>2, <3>3 DEF TranslatesCondition, Alike
    <3> QED
      BY <1>2, <2>8, <3>4 DEF Translates, Here
  <2>9. Fulfils(t, n, Len(instrs'), o)
    BY <2>8 DEF Fulfils
  <2>10. Gives(o)
    BY <1>2, <2>2 DEF Gives, Valued, Here
  <2> QED
    BY <1>1, <2>3, <2>9, <2>10, GrowsUp
<1> QED
  BY <1>5, <1>7, <1>8, <1>9

(* A factor: an operand, a parenthesis or a sign. *)
LEMMA FactorGrows ==
  ASSUME NEW done, NEW t, Going(done, t), AnalyseFactor
  PROVE  Grows
<1>1. PICK n : n = Self.node
  OBVIOUS
<1>2. Here(n, t) /\ stack # << >> /\ nodes[n].nt = "factor" /\ FrameInv
  BY <1>1, GoingHere, GoingFacts DEF Going, AnalyseFactor, In
<1>3. /\ Onward \in Activation /\ Onward.node = n /\ Onward.step = Self.step + 1
      /\ Onward.opds = Self.opds
  BY <1>1, <1>2, OnwardFacts
<1>4. PICK c : c = nodes[n].children[1]
  OBVIOUS
<1>5. Kids[1] = c /\ Word(nodes, n, 1) = c.type /\ Attr(nodes, n, 1) = c.attr
  BY <1>2, <1>4 DEF Here, Word, Attr
<1>6. /\ Self.step \in 1..2 /\ Len(Self.opds) = Self.step - 1
      /\ Self.step = 2 => c.type \in {"PLUS", "MINUS", "LPAREN"}
  BY <1>2, <1>4 DEF Here, Fit, KidsOf, KindOf
<1>7. 1 \in DOMAIN nodes[n].children
  <2>1. /\ Readable(nodes[n]) /\ nodes[n].children \in Seq(Child)
        /\ nodes[n] \in Node
    BY <1>2, TreeFacts DEF Here
  <2>2. \E kinds : Has(Kinds(nodes[n]), 1, kinds)
    BY <1>2, <2>1 DEF Readable, FactorReadable
  <2> QED
    BY <2>1, <2>2, HasKid
<1>8. Self.step = 1 => Len(instrs) = t.from[n]
  BY <1>1, GoingOn
<1>9. CASE c.type \in {"LITERAL", "IDENTIFIER"}
  <2>1. PICK o : o = IF c.type = "LITERAL" THEN Literal(ValueOf(c)) ELSE Symbol(c.attr)
    OBVIOUS
  <2>2. Self.step = 1
    BY <1>6, <1>9
  <2>3. instrs' = instrs
    BY <1>5, <1>9 DEF AnalyseFactor, memory
  <2>4. stack' = Returning(o) /\ o \in Operand
    <3>1. CASE c.type = "LITERAL"
      <4>1. stack' = Returning(Literal(ValueOf(c)))
        BY <1>5, <3>1 DEF AnalyseFactor
      <4>2. c.attr \in Literals \cup {NULL}
        BY <1>2, <1>4, <1>7, <3>1, ChildFacts DEF Here
      <4> QED
        BY <2>1, <3>1, <4>1, <4>2 DEF ValueOf, Literal, Operand
    <3>2. CASE c.type = "IDENTIFIER"
      <4>1. /\ stack' = Returning(IF Usable(c) THEN Symbol(c.attr) ELSE Unset)
            /\ errs' = Complaints(c)
        BY <1>5, <3>2 DEF AnalyseFactor
      <4>2. c.attr \in Names
        BY <1>2, <1>4, <1>7, <3>2, ChildFacts DEF Here
      <4>3. Usable(c)
        BY <4>1, <4>2, NoComplaint, AttrAssumption DEF Going
      <4> QED
        BY <2>1, <3>2, <4>1, <4>2, <4>3 DEF Symbol, Operand
    <3> QED
      BY <1>9, <3>1, <3>2
  <2>5. ASSUME NEW u, u.from[n] = t.from[n], u.to[n] = Len(instrs'), u.opd[n] = o
        PROVE  Translates(nodes, instrs', u, n)
    <3>1. u.to[n] = u.from[n]
      BY <1>8, <2>2, <2>3, <2>5
    <3>2. TranslatesFactor(nodes, instrs', u, n)
      BY <1>4, <1>5, <1>9, <2>1, <2>5, <3>1 DEF TranslatesFactor
    <3> QED
      BY <1>2, <2>3, <2>5, <3>1, <3>2 DEF Translates, Here
  <2>6. Fulfils(t, n, Len(instrs'), o)
    BY <2>5 DEF Fulfils
  <2>7. Gives(o)
    BY <1>2, <2>4 DEF Gives, Valued, Here
  <2> QED
    BY <1>1, <2>4, <2>6, <2>7, GrowsUp
<1>10. CASE c.type \in {"PLUS", "MINUS", "LPAREN"} /\ Self.step = 1
  <2>1. 2 \in Visits(n)
    BY <1>2, <1>5, <1>10, KidPlaces DEF Here
  <2>2. stack' = Calling(Onward, Kids[2]) /\ instrs' = instrs
    BY <1>5, <1>10 DEF AnalyseFactor, memory
  <2>3. Waits(nodes, instrs', t, Onward, Onward.opds, Len(instrs'))
    BY <1>2, <1>3, <1>8, <1>10, <2>2 DEF Waits
  <2>4. 2 = Called(nodes[n].nt, Onward.step)
    BY <1>2 DEF Called
  <2> QED
    BY <1>1, <1>3, <2>1, <2>2, <2>3, <2>4, GrowsDown
<1>11. CASE c.type \in {"PLUS", "MINUS", "LPAREN"} /\ Self.step = 2
  <2>1. 2 \in Visits(n) /\ nodes[Sub(nodes, n, 2)].nt \in Valued
    BY <1>2, <1>5, <1>11, KidPlaces, ValuedKids DEF Here
  <2>2. Called(nodes[n].nt, Self.step) = 2
    BY <1>2 DEF Called
  <2>3. Resumed(nodes, instrs, t, Self)
    BY <1>1, <1>2, <1>11, GoingOn
  <2>4. PICK os \in Seq(Operand) :
          /\ Len(instrs) = To(nodes, t, n, 2)
          /\ Waits(nodes, instrs, t, Self, os, From(nodes, t, n, 2))
          /\ Len(Self.opds) = Len(os) + 1
          /\ Self.opds[Len(os) + 1] = Opd(nodes, t, n, 2)
    BY <1>1, <2>1, <2>2, <2>3, HasResumed
  <2>5. Self.opds[1] = Opd(nodes, t, n, 2)
    BY <1>6, <1>11, <2>4
  <2>6. From(nodes, t, n, 2) = t.from[n]
    BY <1>1, <1>2, <2>4 DEF Waits
  <2>7. Self.opds[1] \in Operand
    BY <1>6, <1>11, <1>2, ElementOfSeq DEF Here
  <2>8. CASE c.type = "LPAREN"
    <3>1. PICK o \in Operand : o = Self.opds[1]
      BY <2>7
    <3>2. stack' = Returning(o) /\ instrs' = instrs
      BY <1>5, <1>11, <2>8, <3>1 DEF AnalyseFactor, memory
    <3>3. ASSUME NEW u, u.from[n] = t.from[n], u.to[n] = Len(instrs'), u.opd[n] = o,
                 \A k \in Visits(n) : Alike(t, u, n, k)
          PROVE  Translates(nodes, instrs', u, n)
      <4>1. Alike(t, u, n, 2)
        BY <2>1, <3>3
      <4>2. TranslatesFactor(nodes, instrs', u, n)
        BY <1>5, <2>4, <2>5, <2>6, <2>8, <3>1, <3>2, <3>3, <4>1
           DEF TranslatesFactor, Alike
      <4> QED
        BY <1>2, <3>3, <4>2 DEF Translates, Here
    <3>4. Fulfils(t, n, Len(instrs'), o)
      BY <3>3 DEF Fulfils
    <3>5. Gives(o)
      BY <1>2, <3>2 DEF Gives, Valued, Here
    <3> QED
      BY <1>1, <3>4, <3>5, GrowsUp
  <2>9. CASE c.type \in {"PLUS", "MINUS"}
    <3>1. PICK o : o = Temporary(tmp_cnt)
      OBVIOUS
    <3>2. /\ AddTemporary(SignOf[c.type], Self.opds[1], Unset)
          /\ stack' = Returning(o)
      BY <1>5, <1>11, <2>9, <3>1 DEF AnalyseFactor
    <3>3. /\ Len(instrs') = Len(instrs) + 1
          /\ Puts(instrs', Len(instrs),
                  Instr(SignOf[c.type], Self.opds[1], Unset, o))
          /\ o \in Operand /\ o.type = "TEMPORARY"
      BY <1>2, <3>1, <3>2, AddsTemporary
    <3>4. ASSUME NEW u, u.from[n] = t.from[n], u.to[n] = Len(instrs'), u.opd[n] = o,
                 \A k \in Visits(n) : Alike(t, u, n, k)
          PROVE  Translates(nodes, instrs', u, n)
      <4>1. Alike(t, u, n, 2)
        BY <2>1, <3>4
      <4>2. /\ From(nodes, u, n, 2) = u.from[n] /\ To(nodes, u, n, 2) = Len(instrs)
            /\ Opd(nodes, u, n, 2) = Self.opds[1]
        BY <2>4, <2>5, <2>6, <3>4, <4>1 DEF Alike
      <4>3. Puts(instrs', To(nodes, u, n, 2),
                 Instr(SignOf[Word(nodes, n, 1)], Opd(nodes, u, n, 2), Unset,
                       u.opd[n]))
        BY <1>5, <3>3, <3>4, <4>2
      <4>4. TranslatesFactor(nodes, instrs', u, n)
        BY <1>5, <2>9, <3>3, <3>4, <4>2, <4>3 DEF TranslatesFactor
      <4> QED
        BY <1>2, <3>4, <4>4 DEF Translates, Here
    <3>5. Fulfils(t, n, Len(instrs'), o)
      BY <3>4 DEF Fulfils
    <3>6. Gives(o)
      BY <1>2, <3>2 DEF Gives, Valued, Here
    <3> QED
      BY <1>1, <3>3, <3>5, <3>6, GrowsUp
  <2> QED
    BY <1>11, <2>8, <2>9
<1> QED
  BY <1>5, <1>6, <1>9, <1>10, <1>11 DEF AnalyseFactor

-----------------------------------------------------------------------------
(* A chain that has the value of what is before its step. *)
Ready(n, t, k) ==
  /\ k \in 1..Arity(nodes, n) /\ k % 2 = 1 /\ Self.step = k + 2
  /\ ChainUpTo(nodes, instrs, t, n, k)
  /\ Self.opds = <<Value(nodes, instrs, t, n, k)>>
  /\ Len(instrs) = End(nodes, t, n, k)

(* In a chain, a call has come back with one operand or the other. *)
LEMMA ChainResumed ==
  ASSUME NEW done, NEW t, Going(done, t), NEW n, n = Self.node,
         nodes[n].nt \in {"expression", "term"}, Resumed(nodes, instrs, t, Self),
         NEW k \in Nat, Self.step = k + 2
  PROVE  /\ k \in 1..Arity(nodes, n) /\ k % 2 = 1 /\ Len(instrs) = To(nodes, t, n, k)
         /\ ChainUpTo(nodes, instrs, t, n, k - 2)
         /\ Self.opds[Len(Self.opds)] = Opd(nodes, t, n, k)
         /\ k = 1 => Len(Self.opds) >= 1 /\ From(nodes, t, n, k) = t.from[n]
         /\ k # 1 => /\ From(nodes, t, n, k) = End(nodes, t, n, k - 2)
                     /\ Len(Self.opds) = 2
                     /\ Self.opds[1] = Value(nodes, instrs, t, n, k - 2)
<1>1. Here(n, t)
  BY GoingHere
<1>2. k = Called(nodes[n].nt, Self.step)
  BY DEF Called
<1>3. PICK os \in Seq(Operand) :
        /\ Len(instrs) = To(nodes, t, n, k)
        /\ Waits(nodes, instrs, t, Self, os, From(nodes, t, n, k))
        /\ IF nodes[Sub(nodes, n, k)].nt \in Valued
           THEN /\ Len(Self.opds) = Len(os) + 1
                /\ Self.opds[Len(os) + 1] = Opd(nodes, t, n, k)
                /\ \A i \in 1..Len(os) : Self.opds[i] = os[i]
           ELSE Self.opds = os
  BY <1>2, HasResumed
<1>4. WaitsInChain(nodes, instrs, t, Self, os, From(nodes, t, n, k))
  BY <1>3 DEF Waits
<1>5. /\ k \in 1..Arity(nodes, n) /\ k % 2 = 1
      /\ ChainUpTo(nodes, instrs, t, n, k - 2)
      /\ k = 1 => From(nodes, t, n, k) = t.from[n]
      /\ k # 1 => /\ From(nodes, t, n, k) = End(nodes, t, n, k - 2)
                  /\ os = <<Value(nodes, instrs, t, n, k - 2)>>
  <2>1. Self.step - 2 = k /\ Self.step - 4 = k - 2 /\ (Self.step = 3 <=> k = 1)
        /\ (Self.step % 2 = 1 => k % 2 = 1)
    OBVIOUS
  <2> QED
    BY <1>4, <2>1 DEF WaitsInChain
<1>6. nodes[Sub(nodes, n, k)].nt \in Valued
  BY <1>1, <1>5, ValuedKids DEF Here
<1>7. /\ Len(Self.opds) = Len(os) + 1 /\ Len(os) \in Nat
      /\ Self.opds[Len(os) + 1] = Opd(nodes, t, n, k)
      /\ \A i \in 1..Len(os) : Self.opds[i] = os[i]
  BY <1>3, <1>6, LenProperties
<1>8. k # 1 => Len(os) = 1 /\ os[1] = Value(nodes, instrs, t, n, k - 2)
  BY <1>5
<1> QED
  BY <1>3, <1>5, <1>7, <1>8

(* and with the value of what is before the operator. *)
LEMMA ChainReady ==
  ASSUME NEW done, NEW t, Going(done, t), NEW n, n = Self.node,
         nodes[n].nt \in {"expression", "term"},
         NEW k \in Nat, Self.step = k + 2, Len(Self.opds) = 1
  PROVE  Ready(n, t, k)
<1>1. Here(n, t)
  BY GoingHere
<1>2. k % 2 = 1 /\ k <= Arity(nodes, n) /\ Arity(nodes, n) \in Nat
      /\ Self.opds \in Seq(Operand)
  <2>1. ChainFit(Self, 1) /\ KidsOf(Self) = nodes[n].children
    BY <1>1 DEF Here, Fit, KidsOf
  <2>2. Arity(nodes, n) \in Nat
    BY <1>1, KidPlaces DEF Here
  <2> QED
    BY <1>1, <2>1, <2>2 DEF ChainFit, Arity, Here
<1>3. k \in 1..Arity(nodes, n)
  BY <1>2
<1>4. Goes(nodes, instrs, t, Self) /\ Self.step # 1
  BY GoingFacts
<1>5. CASE Resumed(nodes, instrs, t, Self)
  <2>1. k = 1
    BY <1>5, ChainResumed
  <2>2. /\ From(nodes, t, n, 1) = t.from[n] /\ Self.opds[1] = Opd(nodes, t, n, 1)
        /\ Len(instrs) = To(nodes, t, n, 1)
    BY <1>5, <2>1, ChainResumed
  <2>3. ChainUpTo(nodes, instrs, t, n, 1)
    BY <2>2 DEF ChainUpTo
  <2>4. Self.opds = <<Opd(nodes, t, n, 1)>>
    BY <1>2, <2>2
  <2> QED
    BY <1>2, <1>3, <2>1, <2>2, <2>3, <2>4 DEF Ready, End, Value
<1>6. CASE Combined(nodes, instrs, t, Self)
  <2>1. Self.step - 2 = k
    OBVIOUS
  <2> QED
    BY <1>2, <1>3, <1>6, <2>1 DEF Combined, Ready
<1> QED
  BY <1>4, <1>5, <1>6 DEF Goes, Tested

(* A chain: its operands from left to right, each combined as it comes. *)
LEMMA ChainGrows ==
  ASSUME NEW done, NEW t, Going(done, t),
         NEW nt \in {"expression", "term"}, AnalyseChain(nt)
  PROVE  Grows
<1>1. PICK n : n = Self.node
  OBVIOUS
<1>2. Here(n, t) /\ stack # << >> /\ nodes[n].nt = nt /\ FrameInv
  BY <1>1, GoingHere, GoingFacts DEF Going, AnalyseChain, In
<1>3. /\ Arity(nodes, n) \in Nat /\ Len(Kids) = Arity(nodes, n)
      /\ Arity(nodes, n) % 2 = 1
      /\ \A i \in 1..Arity(nodes, n) : i % 2 = 1 => i \in Visits(n)
  BY <1>2, KidPlaces DEF Here, Arity
<1>4. /\ Self.step \in Nat /\ Self.step % 2 = 1 /\ Self.step <= Arity(nodes, n) + 2
      /\ \/ Self.step = 1 /\ Len(Self.opds) = 0
         \/ Self.step >= 3 /\ Len(Self.opds) = 1
         \/ Self.step >= 5 /\ Len(Self.opds) = 2
  <2>1. ChainFit(Self, Len(Self.opds)) /\ KidsOf(Self) = nodes[n].children
    BY <1>1, <1>2 DEF Here, Fit, KidsOf
  <2> QED
    BY <1>2, <2>1 DEF ChainFit, Arity, Here
<1>5. CASE /\ Len(Self.opds) < 2 /\ Self.step <= Len(Kids)
           /\ stack' = Calling([Self EXCEPT !.step = @ + 2], Kids[Self.step])
           /\ OnlyCalls
  <2>1. PICK k \in Nat : k = Self.step + 2
    BY <1>4
  <2>2. PICK self : self = [Self EXCEPT !.step = k]
    OBVIOUS
  <2>3. /\ self \in Activation /\ self.node = n /\ self.step = Self.step + 2
        /\ self.opds = Self.opds
    BY <1>1, <1>2, <2>1, <2>2, AtStep DEF Here
  <2>4. stack' = Calling(self, Kids[Self.step]) /\ instrs' = instrs
    BY <1>5, <2>1, <2>2 DEF OnlyCalls, memory
  <2>5. Self.step \in Visits(n) /\ Self.step \in 1..Arity(nodes, n)
    BY <1>3, <1>4, <1>5
  <2>6. Self.step = Called(nodes[n].nt, self.step)
    BY <1>2, <1>4, <2>3 DEF Called
  <2>7. WaitsInChain(nodes, instrs', t, self, self.opds, Len(instrs'))
    <3>1. CASE Self.step = 1
      <4>1. Len(instrs) = t.from[n]
        BY <1>1, <3>1, GoingOn
      <4>2. self.step = 3 /\ self.step - 2 = 1 /\ self.step - 4 = -1
        BY <2>3, <3>1
      <4>3. ChainUpTo(nodes, instrs', t, n, -1)
        BY DEF ChainUpTo
      <4> QED
        BY <2>3, <2>4, <2>5, <3>1, <4>1, <4>2, <4>3 DEF WaitsInChain
    <3>2. CASE Self.step >= 3 /\ Len(Self.opds) = 1
      <4>1. PICK j \in Nat : Self.step = j + 2
        BY <1>4, <3>2
      <4>2. Ready(n, t, j)
        BY <1>1, <1>2, <3>2, <4>1, ChainReady
      <4>3. self.step - 4 = j /\ self.step - 2 = Self.step /\ self.step # 3
            /\ self.step % 2 = 1
        BY <1>4, <2>3, <3>2, <4>1
      <4> QED
        BY <2>3, <2>4, <2>5, <4>2, <4>3 DEF WaitsInChain, Ready
    <3>3. ~(Len(Self.opds) = 2)
      <4>1. Len(Self.opds) < 2
        BY <1>5
      <4> QED
        BY <4>1
    <3> QED
      BY <1>4, <3>1, <3>2, <3>3
  <2>8. Waits(nodes, instrs', t, self, self.opds, Len(instrs'))
    BY <1>2, <2>3, <2>7 DEF Waits
  <2> QED
    BY <1>1, <2>3, <2>4, <2>5, <2>6, <2>8, GrowsDown
<1>6. CASE /\ Len(Self.opds) = 2
           /\ AddTemporary(OpOf[Kids[Self.step - 3].type],
                           Self.opds[1], Self.opds[2])
           /\ stack' = Stepping([Self EXCEPT !.opds = <<Temporary(tmp_cnt)>>])
  <2>a. Len(Self.opds) = 2
    BY <1>6
  <2>b. Self.step >= 5
    BY <1>4, <2>a
  <2>c. Self.step - 2 \in Nat /\ Self.step = (Self.step - 2) + 2 /\ Self.step - 2 >= 3
    BY <1>4, <2>b
  <2>1. PICK k \in Nat : Self.step = k + 2 /\ k >= 3
    BY <2>c
  <2>2. PICK o : o = Temporary(tmp_cnt)
    OBVIOUS
  <2>3. PICK self : self = [Self EXCEPT !.opds = <<o>>]
    OBVIOUS
  <2>4. stack' = Stepping(self)
    BY <1>6, <2>2, <2>3
  <2>5. /\ Len(instrs') = Len(instrs) + 1
        /\ Puts(instrs', Len(instrs),
                Instr(OpOf[Kids[Self.step - 3].type], Self.opds[1], Self.opds[2], o))
        /\ o \in Operand /\ o.type = "TEMPORARY"
    BY <1>2, <1>6, <2>2, AddsTemporary
  <2>6. /\ self \in Activation /\ self.node = n /\ self.step = Self.step
        /\ self.opds = <<o>>
    <3>1. Self \in Activation /\ <<o>> \in Seq(Operand)
      BY <1>2, <2>5 DEF Here
    <3> QED
      BY <1>1, <2>3, <3>1 DEF Activation
  <2>7. Resumed(nodes, instrs, t, Self)
    <3>1. Goes(nodes, instrs, t, Self) /\ Self.step # 1
      BY <2>b, GoingFacts
    <3>2. ASSUME Combined(nodes, instrs, t, Self) PROVE FALSE
      <4>1. PICK x : Self.opds = <<x>>
        BY <3>2 DEF Combined
      <4>2. Len(<<x>>) = 1
        OBVIOUS
      <4> QED
        BY <2>a, <4>1, <4>2
    <3> QED
      BY <1>1, <1>2, <3>1, <3>2 DEF Goes, Tested
  <2>8. /\ k \in 1..Arity(nodes, n) /\ k % 2 = 1 /\ Len(instrs) = To(nodes, t, n, k)
        /\ ChainUpTo(nodes, instrs, t, n, k - 2)
        /\ Self.opds[2] = Opd(nodes, t, n, k)
        /\ From(nodes, t, n, k) = End(nodes, t, n, k - 2)
        /\ Self.opds[1] = Value(nodes, instrs, t, n, k - 2)
    BY <1>1, <1>2, <1>6, <2>1, <2>7, ChainResumed
  <2>9. PICK ks : Extends(instrs, instrs', ks)
    BY CodeKept
  <2>10. ChainAlike(t, t, n, k - 2)
    <3>1. \A i \in 1..(k - 2) : i % 2 = 1 => To(nodes, t, n, i) \in Nat
      <4>1. \A i \in 1..(k - 2) : i \in 1..Arity(nodes, n)
        BY <1>3, <2>8
      <4>2. \A i \in Visits(n) : To(nodes, t, n, i) \in Nat
        BY <1>2, PlacesOfKids DEF Here
      <4> QED
        BY <1>3, <4>1, <4>2
    <3> QED
      BY <3>1 DEF ChainAlike, Alike
  <2>11. /\ ChainUpTo(nodes, instrs', t, n, k - 2)
         /\ \A i \in 1..(k - 2) : i % 2 = 1 =>
              Value(nodes, instrs', t, n, i) = Value(nodes, instrs, t, n, i)
    <3>1. k - 2 \in Int
      BY <2>1
    <3> QED
      BY <2>8, <2>9, <2>10, <3>1, ChainKept
  <2>12. Value(nodes, instrs', t, n, k - 2) = Self.opds[1]
    <3>1. k - 2 \in 1..(k - 2) /\ (k - 2) % 2 = 1
      BY <2>1, <2>8
    <3> QED
      BY <2>8, <2>11, <3>1
  <2>13. Value(nodes, instrs', t, n, k) = o
    BY <2>1, <2>5, <2>8 DEF Value, Puts, Instr
  <2>14. Kids[Self.step - 3].type = Word(nodes, n, k - 1)
    BY <1>2, <2>1 DEF Word, Here
  <2>15. Combines(nodes, instrs', t, n, k)
    BY <2>5, <2>8, <2>12, <2>13, <2>14 DEF Combines
  <2>16. ChainUpTo(nodes, instrs', t, n, k)
    <3>1. From(nodes, t, n, 1) = t.from[n]
      BY <2>1, <2>8 DEF ChainUpTo
    <3>2. ASSUME NEW i \in 2..k, i % 2 = 1 PROVE Combines(nodes, instrs', t, n, i)
      <4>1. i \in 2..(k - 2) \/ i = k
        BY <2>1, <2>8, <3>2
      <4> QED
        BY <2>11, <2>15, <3>2, <4>1 DEF ChainUpTo
    <3> QED
      BY <3>1, <3>2 DEF ChainUpTo
  <2>17. Len(instrs') = End(nodes, t, n, k)
    BY <2>1, <2>5, <2>8 DEF End
  <2>18. Combined(nodes, instrs', t, self)
    <3>1. self.step - 2 = k /\ self.step >= 5
      BY <2>1, <2>6
    <3> QED
      BY <1>2, <2>6, <2>13, <2>16, <2>17, <3>1 DEF Combined
  <2>19. Goes(nodes, instrs', t, self)
    BY <1>2, <2>1, <2>6, <2>18 DEF Goes
  <2> QED
    BY <1>1, <2>4, <2>6, <2>19, GrowsOn
<1>7. CASE /\ Len(Self.opds) = 1 /\ Self.step > Len(Kids)
           /\ stack' = Returning(Self.opds[1])
           /\ OnlyCalls
  <2>1. PICK k \in Nat : Self.step = k + 2 /\ k = Arity(nodes, n)
    BY <1>3, <1>4, <1>7
  <2>2. Ready(n, t, k)
    BY <1>1, <1>2, <1>7, <2>1, ChainReady
  <2>3. Self.opds[1] \in Operand
    BY <1>2, <1>7, ElementOfSeq DEF Here
  <2>4. PICK o \in Operand : o = Self.opds[1]
    BY <2>3
  <2>5. stack' = Returning(o) /\ instrs' = instrs
    BY <1>7, <2>4 DEF OnlyCalls, memory
  <2>6. /\ ChainUpTo(nodes, instrs, t, n, k) /\ o = Value(nodes, instrs, t, n, k)
        /\ Len(instrs) = End(nodes, t, n, k) /\ k \in 1..Arity(nodes, n) /\ k % 2 = 1
    BY <2>2, <2>4 DEF Ready
  <2>7. ASSUME NEW u, u.from[n] = t.from[n], u.to[n] = Len(instrs'), u.opd[n] = o,
               \A i \in Visits(n) : Alike(t, u, n, i)
        PROVE  Translates(nodes, instrs', u, n)
    <3>1. PICK ks : Extends(instrs, instrs', ks)
      BY CodeKept
    <3>2. ChainAlike(t, u, n, k)
      <4>1. \A i \in 1..k : i % 2 = 1 => i \in Visits(n)
        BY <1>3, <2>6
      <4> QED
        BY <1>2, <2>7, <4>1, PlacesOfKids DEF ChainAlike, Here
    <3>3. /\ ChainUpTo(nodes, instrs', u, n, k)
          /\ \A i \in 1..k : i % 2 = 1 =>
               /\ End(nodes, u, n, i) = End(nodes, t, n, i)
               /\ Value(nodes, instrs', u, n, i) = Value(nodes, instrs, t, n, i)
      <4>1. k \in Int
        OBVIOUS
      <4> QED
        BY <2>6, <2>7, <3>1, <3>2, <4>1, ChainKept
    <3>4. k \in 1..k
      BY <2>6
    <3>5. TranslatesChain(nodes, instrs', u, n)
      BY <2>1, <2>5, <2>6, <2>7, <3>3, <3>4 DEF TranslatesChain
    <3>6. u.from[n] <= u.to[n] /\ u.to[n] <= Len(instrs')
      BY <1>2, <2>7 DEF Here
    <3>7. CASE nt = "expression"
      <4>1. nodes[n].nt = "expression"
        BY <1>2, <3>7
      <4> QED
        BY <3>5, <3>6, <4>1 DEF Translates
    <3>8. CASE nt = "term"
      <4>1. nodes[n].nt = "term"
        BY <1>2, <3>8
      <4> QED
        BY <3>5, <3>6, <4>1 DEF Translates
    <3> QED
      BY <3>7, <3>8
  <2>8. Fulfils(t, n, Len(instrs'), o)
    BY <2>7 DEF Fulfils
  <2>9. Gives(o)
    BY <1>2, <2>5 DEF Gives, Valued, Here
  <2> QED
    BY <1>1, <2>8, <2>9, GrowsUp
<1> QED
  BY <1>5, <1>6, <1>7 DEF AnalyseChain

(* Whatever the function does that runs, the translation goes on. *)
LEMMA NextGrows ==
  ASSUME NEW done, NEW t, Going(done, t)
  PROVE  Grows
<1>1. CASE AnalyseExpression
  BY <1>1, ChainGrows DEF AnalyseExpression
<1>2. CASE AnalyseTerm
  BY <1>2, ChainGrows DEF AnalyseTerm
<1>3. CASE Done
  BY <1>3 DEF Done, Analysed, Going
<1> QED
  BY <1>1, <1>2, <1>3, SourceGrows, VariablesGrows, StatementsGrows, AssignGrows,
     InputGrows, OutputGrows, BranchGrows, LoopGrows, RepeatGrows, FactorGrows,
     ConditionGrows DEF Next, Going

(* A step keeps the code a translation of what has been analysed. *)
LEMMA TranslationStep ==
  ASSUME LabelInv, FlowInv, NamesInv, TranslationInv, [Next]_vars
  PROVE  TranslationInv'
<1>1. FrameInv /\ TestsHoldTemporaries /\ PointersAtJumps
  BY DEF LabelInv, CodeInv
<1> SUFFICES ASSUME errs' = << >>, block' = 0
             PROVE  Grows
  BY DEF TranslationInv, Grows
<1>2. CASE UNCHANGED vars
  <2>1. PICK done, t : Visited(done) /\ Translated(done, t)
    BY <1>2 DEF TranslationInv, vars, memory
  <2>2. Visited(done)'
    BY <1>2, <2>1 DEF Visited, Begun, KindOf, Loc, Top, vars, memory
  <2>3. Translated(done, t)'
    BY <1>2, <2>1 DEF Translated, Top, vars, memory
  <2> QED
    BY <2>2, <2>3 DEF Grows
<1>3. CASE stack # << >> /\ Next
  <2>1. WalkStep /\ FlowStep /\ AnalyserStep
    BY <1>1, <1>3, NextWalk, NextFlow, NextStep
  <2>2. errs = << >> /\ block = 0
    BY <2>1 DEF FlowStep, AnalyserStep, ErrorStep
  <2>3. PICK done, t : Visited(done) /\ Translated(done, t)
    BY <2>2 DEF TranslationInv
  <2>4. Going(done, t)
    BY <1>3, <2>1, <2>2, <2>3 DEF Going, NamesInv
  <2> QED
    BY <2>4, NextGrows
<1>4. stack = << >> /\ Next => UNCHANGED vars
  <2>1. ASSUME stack = << >>, NEW nt, In(nt) PROVE FALSE
    BY <2>1 DEF In
  <2> QED
    BY <2>1 DEF Next, Done, AnalyseSource, AnalyseVariables, AnalyseStatements,
       AnalyseAssign, AnalyseInput, AnalyseOutput, AnalyseBranch, AnalyseLoop,
       AnalyseRepeat, AnalyseExpression, AnalyseTerm, AnalyseFactor,
       AnalyseCondition, AnalyseChain, At
<1> QED
  BY <1>2, <1>3, <1>4

(* At the beginning there is nothing to translate. *)
LEMMA TranslationInit ==
  ASSUME Init
  PROVE  TranslationInv
<1>1. /\ nodes \in Trees /\ stack = <<Begin(1)>> /\ errs = << >> /\ instrs = << >>
      /\ NamesInv
  BY NamesInit DEF Init
<1>2. /\ Top = 1 /\ DOMAIN stack = {1} /\ stack # << >> /\ Len(instrs) = 0
      /\ stack[1].node = 1 /\ stack[1].step = 1
  BY <1>1 DEF Top, Begin
<1>3. 1 \in DOMAIN nodes
  BY <1>1, OneDeclarer
<1>4. Visited({})
  BY VisitedInit
<1>5. PICK t : t = [from |-> [n \in DOMAIN nodes |-> 0],
                    to |-> [n \in DOMAIN nodes |-> 0],
                    opd |-> [n \in DOMAIN nodes |-> Unset]]
  OBVIOUS
<1>6. t \in Translations(nodes)
  BY <1>5 DEF Translations, Operand, Unset
<1>7. Goes(nodes, instrs, t, stack[1])
  BY <1>2, <1>3, <1>5 DEF Goes
<1>8. Translated({}, t)
  BY <1>2, <1>3, <1>5, <1>6, <1>7 DEF Translated
<1> QED
  BY <1>4, <1>8 DEF TranslationInv

(* So it holds of every analysis, *)
THEOREM TranslationInvariance ==
  Spec => [](LabelInv /\ FlowInv /\ NamesInv /\ TranslationInv)
<1>1. Init => TranslationInv
  BY TranslationInit
<1>2. LabelInv /\ FlowInv /\ NamesInv /\ TranslationInv /\ [Next]_vars
        => TranslationInv'
  BY TranslationStep
<1>3. Spec => [](LabelInv /\ FlowInv) /\ [](FrameInv /\ NamesInv)
  BY FlowInvariance, NamesInvariance, PTL
<1> QED
  BY <1>1, <1>2, <1>3, PTL DEF Spec

(* and when the analyser has returned, all of the tree is translated.      *)
LEMMA TranslatedWhole ==
  LabelInv /\ NamesInv /\ TranslationInv => CodeTranslates
<1> SUFFICES ASSUME LabelInv, NamesInv, TranslationInv,
                    Analysed, errs = << >>, block = 0
             PROVE  \E t \in Translations(nodes) :
                      /\ t.from[1] = 0 /\ t.to[1] = Len(instrs)
                      /\ \A n \in DOMAIN nodes : Translates(nodes, instrs, t, n)
  BY DEF CodeTranslates, InPlace
<1>1. PICK done, t : Visited(done) /\ Translated(done, t)
  BY DEF TranslationInv
<1>2. nodes \in Trees /\ stack = << >>
  BY DEF LabelInv, CodeInv, FrameInv, Analysed
<1>3. DOMAIN nodes \subseteq done
  BY <1>1, <1>2, AllVisited
<1> QED
  BY <1>1, <1>2, <1>3 DEF Translated

(***************************************************************************)
(* The code of a program is the translation of its tree.                   *)
(***************************************************************************)
THEOREM CodeAlwaysTranslates == Spec => []CodeTranslates
BY TranslatedWhole, TranslationInvariance, PTL
=============================================================================
