----------------------------- MODULE Interpreter -----------------------------
(***************************************************************************)
(* The interpreter of src/interpreter.c: one step per instruction.         *)
(*                                                                         *)
(* The numbers of an int64_t are -MaxInt - 1 .. MaxInt.  Sums, differences,*)
(* products and negations that leave this range are undefined in C; the    *)
(* machine instructions that they compile to wrap around.  The quotient of *)
(* the least number and -1 does not fit either: where the machine traps    *)
(* the process is killed, elsewhere it wraps around.                       *)
(*                                                                         *)
(* What memory holds before it is set is one of Garbage: the values of the *)
(* variables, and the temporaries, which are Uninit until then.            *)
(***************************************************************************)
EXTENDS Code

CONSTANTS Programs,  (* codes with their numbers of temporaries            *)
          MaxInt,    (* INT64_MAX                                          *)
          DivTraps,  (* whether the machine traps when a quotient overflows*)
          Garbage,   (* what malloc may leave in the memory                *)
          Inputs     (* the numbers that the user enters                   *)

Int64 == (-MaxInt - 1)..MaxInt

ASSUME InterpreterAssumption ==
  /\ \A p \in Programs : /\ p.code \in Seq(Instruction) /\ p.tmps \in Nat
                         /\ Executable(p.code, p.tmps)
  /\ MaxInt \in Nat \ {0} /\ DivTraps \in BOOLEAN
  /\ Garbage \subseteq Int64 /\ Garbage # {} /\ Inputs \subseteq Int
  /\ Literals \subseteq Int64
  /\ NULL \notin Int64

VARIABLES instrs, tmp_cnt,  (* what the analyser has made                  *)
          pc, temporary,    (* vm->pc, vm->temporary                       *)
          value,            (* the values of the symbols                   *)
          input,            (* "stuck" when scanf() finds no number: then  *)
                            (* it never does again, and "open" before      *)
          output,           (* the number printed last, and whether the    *)
                            (* count of the numbers printed is odd         *)
          status            (* how the execution goes                      *)

program == <<instrs, tmp_cnt>>
io == <<input, output>>
vars == <<instrs, tmp_cnt, pc, temporary, value, input, output, status>>

Uninit == NULL

-----------------------------------------------------------------------------
(* The instruction at vm->pc.  TLA+ counts from 1. *)
Current == instrs[pc + 1]

Executing(ops) ==
  status = "running" /\ pc < Len(instrs) /\ Current.op \in ops

Onward == pc' = pc + 1

(* operand_get_value: what it may return *)
Fetched(o) ==
  CASE o.type = "TEMPORARY" /\ temporary[o.val] = Uninit -> Garbage
    [] o.type = "TEMPORARY" /\ temporary[o.val] # Uninit -> {temporary[o.val]}
    [] o.type = "SYMBOL"                                 -> {value[o.val]}
    [] OTHER                                             -> {o.val}

\* Mutant of Wrapped: the number as it is.
WrappedNot(n) == n

(* A number in 64 bits. *)
Wrapped(n) == ((n + MaxInt + 1) % (2 * MaxInt + 2)) - MaxInt - 1

(* The place of the result of an instruction. *)
Store(v) == temporary' = [temporary EXCEPT ![Current.dest.val] = v]

Magnitude(n) == IF n < 0 THEN -n ELSE n

(* In C a quotient is rounded towards zero. *)
Quotient(l, r) ==
  IF (l < 0) = (r < 0) THEN Magnitude(l) \div Magnitude(r)
  ELSE -(Magnitude(l) \div Magnitude(r))

\* Mutant of Result: the operands of a difference are swapped.
ResultSwapped(op, l, r) ==
  CASE op = "ADD" -> l + r [] op = "SUB" -> r - l [] op = "MUL" -> l * r
    [] op = "DIV" -> Quotient(l, r)

Result(op, l, r) ==
  CASE op = "ADD" -> l + r [] op = "SUB" -> l - r [] op = "MUL" -> l * r
    [] op = "DIV" -> Quotient(l, r)

Compared(op, l, r) ==
  CASE op = "EQ" -> l = r [] op = "NEQ" -> l # r [] op = "LT" -> l < r
    [] op = "LTE" -> l <= r [] op = "GT" -> l > r [] op = "GTE" -> l >= r

-----------------------------------------------------------------------------
ExecuteAssign ==
  /\ Executing({"ASSIGN"})
  /\ \E v \in Fetched(Current.src1) :
       value' = [value EXCEPT ![Current.dest.val] = v]
  /\ Onward
  /\ UNCHANGED <<program, temporary, io, status>>

(* A number too large or too small for scanf() is replaced by the nearest. *)
Saturated(n) ==
  IF n > MaxInt THEN MaxInt ELSE IF n < -MaxInt - 1 THEN -MaxInt - 1 ELSE n

(* The result of scanf() is ignored: no number, no new value.  A lone sign  *)
(* is consumed and the next call may find a number, but what cannot begin   *)
(* one stays, like the end of the input, and no later call gets past it.    *)
ExecuteRead ==
  /\ Executing({"READ"})
  /\ \/ /\ input = "open"
        /\ \E n \in Inputs :
             value' = [value EXCEPT ![Current.dest.val] = Saturated(n)]
        /\ UNCHANGED input
     \/ /\ input' \in {input, "stuck"}
        /\ UNCHANGED value
  /\ Onward
  /\ UNCHANGED <<program, temporary, output, status>>

ExecuteWrite ==
  /\ Executing({"WRITE"})
  /\ \E v \in Fetched(Current.src1) : output' = [val |-> v, odd |-> ~output.odd]
  /\ Onward
  /\ UNCHANGED <<program, temporary, value, input, status>>

(* The quotient that does not fit, where the machine cannot ignore it. *)
Traps(l, r) == DivTraps /\ l = -MaxInt - 1 /\ r = -1

Compute(l, r) ==
  /\ Store(Wrapped(Result(Current.op, l, r)))
  /\ Onward
  /\ UNCHANGED status

Abort(s) == status' = s /\ UNCHANGED <<pc, temporary>>

(* execute_div: yassert() ends the process. *)
Divide(l, r) ==
  \/ r = 0 /\ Abort("failed")
  \/ r # 0 /\ Traps(l, r) /\ Abort("trapped")
  \/ r # 0 /\ ~Traps(l, r) /\ Compute(l, r)

(* execute_add to execute_div *)
ExecuteArithmetic ==
  /\ Executing(Arithmetic)
  /\ \E l \in Fetched(Current.src1), r \in Fetched(Current.src2) :
       IF Current.op = "DIV" THEN Divide(l, r) ELSE Compute(l, r)
  /\ UNCHANGED <<program, value, io>>

(* execute_pls and execute_neg *)
ExecuteSign ==
  /\ Executing(Unary)
  /\ \E v \in Fetched(Current.src1) :
       Store(IF Current.op = "NEG" THEN Wrapped(-v) ELSE v)
  /\ Onward
  /\ UNCHANGED <<program, value, io, status>>

(* execute_eq to execute_gte *)
ExecuteCompare ==
  /\ Executing(RelOps)
  /\ \E l \in Fetched(Current.src1), r \in Fetched(Current.src2) :
       Store(IF Compared(Current.op, l, r) THEN 1 ELSE 0)
  /\ Onward
  /\ UNCHANGED <<program, value, io, status>>

ExecuteGoto ==
  /\ Executing({"GOTO"})
  /\ pc' = Current.dest.val
  /\ UNCHANGED <<program, temporary, value, io, status>>

\* Mutant of ExecuteBranch: the place behind the label.
ExecuteBranchBehind ==
  /\ Executing({"BRANCH"})
  /\ \E v \in Fetched(Current.src1) :
       pc' = IF v # 0 THEN Current.dest.val + 1 ELSE pc + 1
  /\ UNCHANGED <<program, temporary, value, io, status>>

(* The condition is a temporary whatever the type of the operand says. *)
ExecuteBranch ==
  /\ Executing({"BRANCH"})
  /\ \E v \in Fetched(Temporary(Current.src1.val)) :
       pc' = IF v # 0 THEN Current.dest.val ELSE pc + 1
  /\ UNCHANGED <<program, temporary, value, io, status>>

\* Mutant of Clear: the loop goes on behind the last instruction.
ClearLate ==
  /\ status = "running" /\ pc > Len(instrs)
  /\ status' = "finished"
  /\ pc' = 0 /\ temporary' = << >>
  /\ UNCHANGED <<program, value, io>>

(* The end of the loop in interpreter_execute, and interpreter_clear. *)
Clear ==
  /\ status = "running" /\ pc >= Len(instrs)
  /\ status' = "finished"
  /\ pc' = 0 /\ temporary' = << >>
  /\ UNCHANGED <<program, value, io>>

-----------------------------------------------------------------------------
(* interpreter_init: malloc leaves what it finds. *)
Fresh(tmps) == [i \in 0..(tmps - 1) |-> Uninit]

Init ==
  /\ \E p \in Programs : instrs = p.code /\ tmp_cnt = p.tmps
  /\ pc = 0 /\ temporary = Fresh(tmp_cnt)
  /\ value \in [Names -> Garbage]
  /\ input = "open" /\ output = [val |-> 0, odd |-> FALSE]
  /\ status = "running"

Next ==
  \/ ExecuteAssign \/ ExecuteRead \/ ExecuteWrite \/ ExecuteArithmetic
  \/ ExecuteSign \/ ExecuteCompare \/ ExecuteGoto \/ ExecuteBranch \/ Clear

Spec == Init /\ [][Next]_vars
=============================================================================
