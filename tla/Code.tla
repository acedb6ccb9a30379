-------------------------------- MODULE Code --------------------------------
(***************************************************************************)
(* The three-address code of include/instruction.h, which the analyser     *)
(* emits and the interpreter executes, and what makes a code one that can  *)
(* be executed without a check.                                            *)
(***************************************************************************)
EXTENDS Ast

ASSUME CodeAssumption ==
  /\ NULL \notin {"TEMPORARY", "LITERAL", "SYMBOL", "LABEL"}
  /\ NULL \notin Nat

-----------------------------------------------------------------------------
(* struct operand.  A field that the code has not set holds Unset. *)
Unset == [type |-> NULL, val |-> NULL]
Temporary(i) == [type |-> "TEMPORARY", val |-> i]
Literal(v) == [type |-> "LITERAL", val |-> v]
Symbol(x) == [type |-> "SYMBOL", val |-> x]
Label(l) == [type |-> "LABEL", val |-> l]

Operand ==
  {Unset, Label(NULL)}
  \cup [type : {"TEMPORARY", "LABEL"}, val : Nat]
  \cup [type : {"LITERAL"}, val : Literals \cup {0}]
  \cup [type : {"SYMBOL"}, val : Names]

(* struct instruction *)
Arithmetic == {"ADD", "SUB", "MUL", "DIV"}
Unary == {"PLS", "NEG"}
Jumps == {"GOTO", "BRANCH"}
Ops == {"ASSIGN", "READ", "WRITE"} \cup Arithmetic \cup Unary \cup RelOps \cup Jumps

Instruction == [op : Ops, src1 : Operand, src2 : Operand, dest : Operand]

Instr(op, src1, src2, dest) ==
  [op |-> op, src1 |-> src1, src2 |-> src2, dest |-> dest]

(* What the execute_ function of an instruction reads, *)
Sources(i) ==
  CASE i.op \in Arithmetic \cup RelOps -> {i.src1, i.src2}
    [] i.op \in Unary \cup {"ASSIGN", "WRITE", "BRANCH"} -> {i.src1}
    [] OTHER -> {}

(* and what it takes for a temporary, whatever the type of the operand. *)
Computes(i) == i.op \in Arithmetic \cup RelOps \cup Unary

-----------------------------------------------------------------------------
(***************************************************************************)
(* Every operand that is read is set, the condition of a branch is a       *)
(* temporary (interpreter.c:208 does not look), values go to variables or  *)
(* temporaries, and there is room for every temporary.                     *)
(***************************************************************************)
Addressed(code, tmps) ==
  \A k \in DOMAIN code :
    /\ \A o \in Sources(code[k]) :
         /\ o.type \in {"TEMPORARY", "LITERAL", "SYMBOL"}
         /\ o.type = "TEMPORARY" => o.val < tmps
    /\ Computes(code[k]) => /\ code[k].dest.type = "TEMPORARY"
                            /\ code[k].dest.val < tmps
    /\ code[k].op \in {"ASSIGN", "READ"} => code[k].dest.type = "SYMBOL"
    /\ code[k].op = "BRANCH" => code[k].src1.type = "TEMPORARY"

(* Every jump goes to an instruction or to the end.  Label l is the place   *)
(* before code[l + 1]: C counts from 0.                                     *)
Resolved(code) ==
  \A k \in DOMAIN code :
    code[k].op \in Jumps => /\ code[k].dest.type = "LABEL"
                            /\ code[k].dest.val \in 0..Len(code)

(* Between the instructions j and k nothing jumps, and no jump lands there. *)
StraightFrom(code, j, k) ==
  /\ \A m \in j..(k - 1) : code[m].op \notin Jumps
  /\ \A m \in DOMAIN code :
       code[m].op \in Jumps => code[m].dest.val \notin j..(k - 1)

(* A temporary is computed in one place, and used after that in the same    *)
(* stretch of straight-line code.                                           *)
Straight(code) ==
  \A k \in DOMAIN code : \A o \in Sources(code[k]) :
    o.type = "TEMPORARY" =>
      \E j \in 1..(k - 1) :
        /\ Computes(code[j]) /\ code[j].dest = o
        /\ \A m \in DOMAIN code : code[m].dest = o => m = j
        /\ StraightFrom(code, j, k)

Executable(code, tmps) ==
  Addressed(code, tmps) /\ Resolved(code) /\ Straight(code)
=============================================================================
