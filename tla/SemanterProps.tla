--------------------------- MODULE SemanterProps ---------------------------
(***************************************************************************)
(* What the analyser promises to the user, who sees its errors, and to the *)
(* interpreter, which runs its code without checking it                    *)
(* (src/interpreter.c indexes, dereferences and jumps as it is told).      *)
(***************************************************************************)
EXTENDS Semanter, FiniteSets

(* Every variable has its type.                                             *)
TypeOK ==
  /\ nodes \in Seq(Node)
  /\ stack \in Seq(Activation)
  /\ declared \in [Names -> Nat]
  /\ errs \in Seq(SemanticError)
  /\ instrs \in Seq(Instruction)
  /\ capacity \in Nat /\ Len(instrs) <= capacity
  /\ block \in Nat
  /\ tmp_cnt \in Nat

(* The identifiers of the tree that a token of the source names, with the  *)
(* place in the tree: node and child.                                      *)
Identifiers == NamesIn(nodes)

Name(p) == nodes[p[1]].children[p[2]].attr
Loc(p) == nodes[p[1]].children[p[2]].at
Declarations == {p \in Identifiers : nodes[p[1]].nt = "variables"}
Uses == Identifiers \ Declarations

(***************************************************************************)
(* A program is run only when all the variables it names are declared, and *)
(* once each: although the right-hand side of an assignment to an          *)
(* undeclared variable is not analysed at all, something is reported.      *)
(***************************************************************************)
AcceptedIsDeclared ==
  (Analysed /\ errs = << >>) =>
    /\ \A p \in Uses : \E q \in Declarations : Name(p) = Name(q)
    /\ \A p, q \in Declarations : Name(p) = Name(q) => p = q

(* An error is at a use of a variable that is declared nowhere, or at a    *)
(* declaration of a variable that is declared before, and then it points   *)
(* at the first declaration.                                               *)
Justified(e) ==
  CASE e.kind = "UNDECLARED_VAR" ->
         \E p \in Uses : /\ Loc(p) = e.loc
                         /\ \A q \in Declarations : Name(q) # Name(p)
    [] e.kind = "MULTIPLE_DECL" ->
         \E p, q \in Declarations :
           /\ Loc(p) = e.loc /\ Loc(q) = e.first
           /\ Name(p) = Name(q) /\ Loc(q) < Loc(p)
           /\ \A r \in Declarations : Name(r) = Name(p) => Loc(q) <= Loc(r)

(***************************************************************************)
(* No false alarm, and none twice.                                         *)
(***************************************************************************)
ErrorsJustified ==
  /\ \A i, j \in DOMAIN errs : errs[i].loc = errs[j].loc => i = j
  /\ \A i \in DOMAIN errs : Justified(errs[i])

-----------------------------------------------------------------------------
(***************************************************************************)
(* When no error was reported the interpreter finds what it takes for      *)
(* granted: each operand is set and of the right kind, there is room for   *)
(* every temporary, and the variables are declared.                        *)
(***************************************************************************)
OperandsReady ==
  (Analysed /\ errs = << >>) =>
    /\ Addressed(instrs, tmp_cnt)
    /\ \A k \in DOMAIN instrs :
         \A o \in Sources(instrs[k]) \cup {instrs[k].dest} :
           o.type = "SYMBOL" => declared[o.val] # 0

(***************************************************************************)
(* Every jump goes to an instruction or to the end: include/instruction.h  *)
(* line 25, "the index of an instruction".                                 *)
(***************************************************************************)
JumpsResolved == Analysed => Resolved(instrs)

(* The instruction list has not moved while it grew. *)
InPlace == block = 0

(***************************************************************************)
(* The labels of if and while are known only after the statements they     *)
(* jump over, and are written later, through pointers: to the right jumps, *)
(* and none is forgotten, as long as the list stays where it is.           *)
(***************************************************************************)
LabelsResolved == Analysed /\ InPlace => Resolved(instrs)

(***************************************************************************)
(* A temporary is computed once, and used after that in the same stretch   *)
(* of straight-line code: between the two nothing jumps, and no jump lands *)
(* there.  Hence no path reaches a use of a temporary that holds nothing   *)
(* (interpreter_init does not clear them) or an old value: see module      *)
(* InterpreterProofs.  This holds even of labels that were lost.           *)
(***************************************************************************)
TemporariesStraight == Analysed => Straight(instrs)

LabelOf(k) == instrs[k].dest.val

(* Where control may go from place l, as interpreter_execute does.          *)
Successors(l) ==
  IF l = Len(instrs) THEN {}
  ELSE CASE instrs[l + 1].op = "GOTO"   -> {LabelOf(l + 1)}
         [] instrs[l + 1].op = "BRANCH" -> {LabelOf(l + 1), l + 1}
         [] OTHER                       -> {l + 1}

(* The places reached from l. *)
ReachedFrom(l) ==
  LET reach[n \in 0..Len(instrs)] ==
        IF n = 0 THEN {l}
        ELSE LET before == reach[n-1]
             IN before \cup UNION {Successors(m) : m \in before}
  IN reach[Len(instrs)]

(***************************************************************************)
(* The code hangs together: every instruction is reached from the first,   *)
(* and the end from every instruction, so that no statement is dead code   *)
(* and no loop is without an exit.                                         *)
(***************************************************************************)
CodeConnected ==
  Analysed /\ InPlace =>
    /\ ReachedFrom(0) = 0..Len(instrs)
    /\ \A l \in 0..Len(instrs) : Len(instrs) \in ReachedFrom(l)
=============================================================================
