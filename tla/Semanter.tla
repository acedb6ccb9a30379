------------------------------ MODULE Semanter ------------------------------
(***************************************************************************)
(* The semantic analyser of src/semanter.c: it walks the tree, declares    *)
(* and checks the variables, and emits three-address code into the growing *)
(* instruction list of src/instruction.c.                                  *)
(*                                                                         *)
(* As in module Parser the C call stack is the variable stack, and every   *)
(* analyse function an action: one step from a call to the next.  An       *)
(* activation holds the locals of its function: the operands that the      *)
(* calls have returned (opds), the pointers into the instruction list      *)
(* (ptrs) and the label of a loop (start).                                 *)
(*                                                                         *)
(* The instruction list is the block of memory it lives in: block is its   *)
(* address, which changes when yrealloc moves it.  What is written through *)
(* a pointer into a block that was moved does not reach the list.          *)
(***************************************************************************)
EXTENDS Code

CONSTANTS Trees,   (* the trees to analyse, as heaps rooted at address 1   *)
          Growth,  (* by how much instruction_list_add enlarges the list: 8 *)
          Moves    (* whether yrealloc may move the block: some BOOLEANs   *)

ASSUME SemanterAssumption ==
  /\ \A t \in Trees : t \in Seq(Node) /\ Analysable(t) /\ Orderly(t)
  /\ Growth \in Nat \ {0}
  /\ Moves \in (SUBSET BOOLEAN) \ {{}}

VARIABLES nodes,    (* ctx->tree                                           *)
          stack,    (* the activations of the analyse functions            *)
          declared, (* where a symbol is declared (0: SYMBOL_UNKNOW)       *)
          errs,     (* the errors added to ctx->errs                       *)
          instrs,   (* ctx->instrs.data, the first instrs.size of it       *)
          capacity, (* ctx->instrs.capacity                                *)
          block,    (* the address in ctx->instrs.data                     *)
          tmp_cnt   (* ctx->tmp_cnt                                        *)

memory == <<instrs, capacity, block>>
vars == <<nodes, stack, declared, errs, instrs, capacity, block, tmp_cnt>>

-----------------------------------------------------------------------------
Pointer == [block : Nat, index : Nat]

Activation == [node : Nat, step : Nat, opds : Seq(Operand),
               ptrs : Seq(Pointer), start : Nat]

Begin(n) == [node |-> n, step |-> 1, opds |-> << >>, ptrs |-> << >>,
             start |-> 0]

SemanticError ==
  [kind : {"UNDECLARED_VAR", "MULTIPLE_DECL"}, loc : Nat, first : Nat]

-----------------------------------------------------------------------------
(* The activation that runs, and the children of its node. *)
Top == Len(stack)
Self == stack[Top]
Kids == nodes[Self.node].children
In(nt) == stack # << >> /\ nodes[Self.node].nt = nt
At(nt, k) == In(nt) /\ Self.step = k

(* The stack when the activation, which is now self, calls analyse_*(c). *)
Calling(self, c) == Append([stack EXCEPT ![Top] = self], Begin(c.at))

(* The stack when it goes on at step k, *)
Stepping(self) == [stack EXCEPT ![Top] = self]

(* and when it returns nothing, or the operand o. *)
Returned == SubSeq(stack, 1, Top - 1)
Returning(o) == [Returned EXCEPT ![Top - 1].opds = Append(@, o)]

(* The activation at its next step. *)
Onward == [Self EXCEPT !.step = @ + 1]

\* Mutant of Enlarge: the capacity is left as it was.
EnlargeForgotten ==
  /\ UNCHANGED capacity
  /\ \E moved \in Moves : block' = IF moved THEN block + 1 ELSE block

(***************************************************************************)
(* instruction_list_add: a full list is reallocated, and may move.         *)
(***************************************************************************)
Enlarge ==
  \/ /\ Len(instrs) < capacity
     /\ UNCHANGED <<capacity, block>>
  \/ /\ Len(instrs) >= capacity
     /\ capacity' = capacity + Growth
     /\ \E moved \in Moves : block' = IF moved THEN block + 1 ELSE block

Add(instr) ==
  /\ Enlarge
  /\ instrs' = Append(instrs, instr)

\* Mutant of LastAdded: the size from before the instruction was added.
LastAddedEarly == [block |-> block', index |-> Len(instrs)]

(* &instrs.data[instrs.size - 1], after the instruction has been added *)
LastAdded == [block |-> block', index |-> Len(instrs) + 1]

\* Mutant of Patched: the index of the last instruction, for the next one.
PatchedShort(list, ptr, label) ==
  IF ptr.block = block'
  THEN [list EXCEPT ![ptr.index].dest = Label(label - 1)]
  ELSE list

(* The list after ptr->dest.index = label: no write to a block that moved. *)
Patched(list, ptr, label) ==
  IF ptr.block = block'
  THEN [list EXCEPT ![ptr.index].dest = Label(label)]
  ELSE list

\* Mutant of AddTemporary: the counter is not incremented.
AddTemporaryAgain(op, src1, src2) ==
  /\ Add(Instr(op, src1, src2, Temporary(tmp_cnt)))
  /\ UNCHANGED tmp_cnt

(* next_temporary: an instruction with a new temporary as destination *)
AddTemporary(op, src1, src2) ==
  /\ Add(Instr(op, src1, src2, Temporary(tmp_cnt)))
  /\ tmp_cnt' = tmp_cnt + 1

\* Mutant of Usable: the declaration is not checked.
UsableUnchecked(c) == c.attr # NULL

(* accept_variable, and the test for a null symbol in front of it *)
Usable(c) == c.attr # NULL /\ declared[c.attr] # 0

\* Mutant of Complaints: nothing is added to the list.
ComplaintsNone(c) == errs

Complaints(c) ==
  IF c.attr = NULL \/ Usable(c) THEN errs
  ELSE Append(errs, [kind |-> "UNDECLARED_VAR", loc |-> c.at, first |-> 0])

OnlyCalls == UNCHANGED <<nodes, declared, errs, memory, tmp_cnt>>

-----------------------------------------------------------------------------
(* semantic_context_analyse *)
AnalyseSource ==
  /\ In("source")
  /\ stack' = CASE Self.step = 1 -> Calling(Onward, Kids[2])
                [] Self.step = 2 -> Calling(Onward, Kids[4])
                [] Self.step = 3 -> Returned
  /\ OnlyCalls

\* Mutant of DeclaredBy: the last declaration counts.
DeclaredByLast(id, type) ==
  IF id.attr # NULL /\ type = "INT"
  THEN [declared EXCEPT ![id.attr] = id.at]
  ELSE declared

(* The symbols after the declaration of id with a type: the first counts. *)
DeclaredBy(id, type) ==
  IF id.attr # NULL /\ declared[id.attr] = 0 /\ type = "INT"
  THEN [declared EXCEPT ![id.attr] = id.at]
  ELSE declared

(* One declaration per step. *)
AnalyseVariables ==
  /\ In("variables")
  /\ \/ /\ Self.step > Len(Kids)
        /\ stack' = Returned
        /\ UNCHANGED <<declared, errs>>
     \/ /\ Self.step <= Len(Kids)
        /\ stack' = Stepping([Self EXCEPT !.step = @ + 4])
        /\ LET id   == Kids[Self.step]
               type == Kids[Self.step + 2].type
               first == IF id.attr = NULL THEN 0 ELSE declared[id.attr]
           IN /\ errs' = IF first = 0 THEN errs
                         ELSE Append(errs, [kind |-> "MULTIPLE_DECL",
                                            loc |-> id.at, first |-> first])
              /\ declared' = DeclaredBy(id, type)
  /\ UNCHANGED <<nodes, memory, tmp_cnt>>

AnalyseStatements ==
  /\ In("statements")
  /\ stack' = IF Self.step <= Len(Kids)
              THEN Calling(Onward, Kids[Self.step])
              ELSE Returned
  /\ OnlyCalls

AnalyseAssign ==
  \/ /\ At("assign", 1)
     /\ stack' = IF Usable(Kids[1]) THEN Calling(Onward, Kids[3]) ELSE Returned
     /\ errs' = Complaints(Kids[1])
     /\ UNCHANGED <<nodes, declared, memory, tmp_cnt>>
  \/ /\ At("assign", 2)
     /\ Add(Instr("ASSIGN", Self.opds[1], Unset, Symbol(Kids[1].attr)))
     /\ stack' = Returned
     /\ UNCHANGED <<nodes, declared, errs, tmp_cnt>>

AnalyseInput ==
  /\ In("input")
  /\ stack' = Returned
  /\ errs' = Complaints(Kids[2])
  /\ \/ /\ Usable(Kids[2])
        /\ Add(Instr("READ", Unset, Unset, Symbol(Kids[2].attr)))
     \/ /\ ~Usable(Kids[2])
        /\ UNCHANGED memory
  /\ UNCHANGED <<nodes, declared, tmp_cnt>>

AnalyseOutput ==
  \/ /\ At("output", 1)
     /\ stack' = Calling(Onward, Kids[2])
     /\ OnlyCalls
  \/ /\ At("output", 2)
     /\ Add(Instr("WRITE", Self.opds[1], Unset, Unset))
     /\ stack' = Returned
     /\ UNCHANGED <<nodes, declared, errs, tmp_cnt>>

(* The activation that remembers the instruction added last. *)
Pointing(self) == [self EXCEPT !.ptrs = Append(@, LastAdded)]

Goto(label) == Instr("GOTO", Unset, Unset, Label(label))
Branch(label) == Instr("BRANCH", Self.opds[1], Unset, Label(label))

(* The else part comes first: the condition jumps over it. *)
AnalyseBranch ==
  \/ /\ At("branch", 1)
     /\ stack' = Calling(Onward, Kids[3])
     /\ OnlyCalls
  \/ /\ At("branch", 2)
     /\ Add(Branch(NULL))
     /\ stack' = Calling(Pointing(Onward), Kids[8])
     /\ UNCHANGED <<nodes, declared, errs, tmp_cnt>>
  \/ /\ At("branch", 3)
     /\ Enlarge
     /\ instrs' = Patched(Append(instrs, Goto(NULL)), Self.ptrs[1],
                          Len(instrs) + 1)
     /\ stack' = Calling(Pointing(Onward), Kids[6])
     /\ UNCHANGED <<nodes, declared, errs, tmp_cnt>>
  \/ /\ At("branch", 4)
     /\ UNCHANGED <<capacity, block>>
     /\ instrs' = Patched(instrs, Self.ptrs[2], Len(instrs))
     /\ stack' = Returned
     /\ UNCHANGED <<nodes, declared, errs, tmp_cnt>>

AnalyseLoop ==
  \/ /\ At("loop", 1)
     /\ stack' = Calling([Onward EXCEPT !.start = Len(instrs)], Kids[3])
     /\ OnlyCalls
  \/ /\ At("loop", 2)
     /\ Add(Branch(NULL))
     /\ stack' = Stepping(Pointing(Onward))
     /\ UNCHANGED <<nodes, declared, errs, tmp_cnt>>
  \/ /\ At("loop", 3)
     /\ Enlarge
     /\ instrs' = Patched(Append(instrs, Goto(NULL)), Self.ptrs[1],
                          Len(instrs) + 1)
     /\ stack' = Calling(Pointing(Onward), Kids[6])
     /\ UNCHANGED <<nodes, declared, errs, tmp_cnt>>
  \/ /\ At("loop", 4)
     /\ Enlarge
     /\ instrs' = Patched(Append(instrs, Goto(Self.start)), Self.ptrs[2],
                          Len(instrs) + 1)
     /\ stack' = Returned
     /\ UNCHANGED <<nodes, declared, errs, tmp_cnt>>

AnalyseRepeat ==
  \/ /\ At("repeat", 1)
     /\ stack' = Calling([Onward EXCEPT !.start = Len(instrs)], Kids[2])
     /\ OnlyCalls
  \/ /\ At("repeat", 2)
     /\ stack' = Calling(Onward, Kids[5])
     /\ OnlyCalls
  \/ /\ At("repeat", 3)
     /\ Add(Branch(Self.start))
     /\ stack' = Returned
     /\ UNCHANGED <<nodes, declared, errs, tmp_cnt>>

(***************************************************************************)
(* analyse_expression and analyse_term: from left to right, opds holding   *)
(* opd1 or, after the call for the right operand, opd1 and opd2.           *)
(***************************************************************************)
OpOf == [PLUS |-> "ADD", MINUS |-> "SUB", MUL |-> "MUL", DIV |-> "DIV"]

AnalyseChain(nt) ==
  /\ In(nt)
  /\ \/ /\ Len(Self.opds) < 2 /\ Self.step <= Len(Kids)
        /\ stack' = Calling([Self EXCEPT !.step = @ + 2], Kids[Self.step])
        /\ OnlyCalls
     \/ /\ Len(Self.opds) = 2
        /\ AddTemporary(OpOf[Kids[Self.step - 3].type],
                        Self.opds[1], Self.opds[2])
        /\ stack' = Stepping([Self EXCEPT !.opds = <<Temporary(tmp_cnt)>>])
        /\ UNCHANGED <<nodes, declared, errs>>
     \/ /\ Len(Self.opds) = 1 /\ Self.step > Len(Kids)
        /\ stack' = Returning(Self.opds[1])
        /\ OnlyCalls

AnalyseExpression == AnalyseChain("expression")

AnalyseTerm == AnalyseChain("term")

\* A null symbol pointer, in the union of the token, is the literal 0.
ValueOf(c) == IF c.attr = NULL THEN 0 ELSE c.attr

SignOf == [PLUS |-> "PLS", MINUS |-> "NEG"]

AnalyseFactor ==
  LET c == Kids[1]
  IN /\ In("factor")
     /\ \/ /\ c.type = "LITERAL"
           /\ stack' = Returning(Literal(ValueOf(c)))
           /\ UNCHANGED <<errs, memory, tmp_cnt>>
        \/ /\ c.type = "IDENTIFIER"
           /\ stack' = Returning(IF Usable(c) THEN Symbol(c.attr) ELSE Unset)
           /\ errs' = Complaints(c)
           /\ UNCHANGED <<memory, tmp_cnt>>
        \/ /\ c.type \in {"PLUS", "MINUS", "LPAREN"} /\ Self.step = 1
           /\ stack' = Calling(Onward, Kids[2])
           /\ UNCHANGED <<errs, memory, tmp_cnt>>
        \/ /\ c.type \in {"PLUS", "MINUS"} /\ Self.step = 2
           /\ AddTemporary(SignOf[c.type], Self.opds[1], Unset)
           /\ stack' = Returning(Temporary(tmp_cnt))
           /\ UNCHANGED errs
        \/ /\ c.type = "LPAREN" /\ Self.step = 2
           /\ stack' = Returning(Self.opds[1])
           /\ UNCHANGED <<errs, memory, tmp_cnt>>
     /\ UNCHANGED <<nodes, declared>>

AnalyseCondition ==
  \/ /\ At("condition", 1)
     /\ stack' = Calling(Onward, Kids[1])
     /\ OnlyCalls
  \/ /\ At("condition", 2)
     /\ stack' = Calling(Onward, Kids[3])
     /\ OnlyCalls
  \/ /\ At("condition", 3)
     /\ AddTemporary(Kids[2].type, Self.opds[1], Self.opds[2])
     /\ stack' = Returning(Temporary(tmp_cnt))
     /\ UNCHANGED <<nodes, declared, errs>>

(* The instruction list has been returned. *)
Analysed == stack = << >>

Done == Analysed /\ UNCHANGED vars

-----------------------------------------------------------------------------
(* semantic_context_init, and the call *)
Init ==
  /\ nodes \in Trees
  /\ stack = <<Begin(1)>>
  /\ declared = [x \in Names |-> 0]
  /\ errs = << >>
  /\ instrs = << >>
  /\ capacity = 0
  /\ block = 0
  /\ tmp_cnt = 0

Next ==
  \/ AnalyseSource \/ AnalyseVariables \/ AnalyseStatements
  \/ AnalyseAssign \/ AnalyseInput \/ AnalyseOutput
  \/ AnalyseBranch \/ AnalyseLoop \/ AnalyseRepeat
  \/ AnalyseExpression \/ AnalyseTerm \/ AnalyseFactor \/ AnalyseCondition
  \/ Done

Spec == Init /\ [][Next]_vars
=============================================================================
