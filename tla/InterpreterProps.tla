-------------------------- MODULE InterpreterProps --------------------------
(***************************************************************************)
(* What the interpreter may rely on, when its code is executable.          *)
(***************************************************************************)
EXTENDS Interpreter

(* Every variable has its type: execution stays inside the code, and every *)
(* number in 64 bits.                                                      *)
TypeOK ==
  /\ instrs \in Seq(Instruction) /\ tmp_cnt \in Nat
  /\ pc \in 0..Len(instrs)
  /\ status \in {"running", "failed", "trapped"} =>
       temporary \in [0..(tmp_cnt - 1) -> Int64 \cup {Uninit}]
  /\ value \in [Names -> Int64]
  /\ input \in {"open", "stuck"}
  /\ output \in [val : Int64, odd : BOOLEAN]
  /\ status \in {"running", "failed", "trapped", "finished"}

(***************************************************************************)
(* No instruction reads a temporary that has not been computed, whatever   *)
(* the jumps on the way to it: interpreter_init does not clear them.       *)
(***************************************************************************)
TemporariesComputed ==
  (status = "running" /\ pc < Len(instrs)) =>
    \A o \in Sources(Current) :
      o.type = "TEMPORARY" => temporary[o.val] # Uninit
=============================================================================
