------------------------------ MODULE YogProps ------------------------------
(***************************************************************************)
(* What yog promises to its user.                                          *)
(***************************************************************************)
EXTENDS Yog

(* Every variable of main, and of the interpreter as it runs, has its type. *)
TypeOK ==
  /\ phase \in {"open", "analyse", "execute", "show", "cleanup", "returned"}
  /\ parsed \in Nat
  /\ exit \in {-1, 0, 1, 2}
  /\ {freed, todo} \subseteq Seq(DOMAIN nodes)
  /\ turn \in BOOLEAN
  /\ status \in {"none", "running", "failed", "trapped", "finished"}
  /\ value \in [Names -> VM!Int64]
  /\ status # "none" => pc \in 0..Len(instrs)

(***************************************************************************)
(* The interpreter runs no code but that of a program without an error,    *)
(* and this is code that it can run without a check (include/instruction.h *)
(* and module InterpreterProofs): nothing else stands between an operand   *)
(* that was never set and the memory.                                      *)
(***************************************************************************)
CodeTrusted ==
  phase = "execute" => parsed = 0 /\ errs = << >> /\ Executable(instrs, tmp_cnt)

(***************************************************************************)
(* yog refuses the programs that have an error, and those only, and runs   *)
(* the others as their source means: statement by statement and decision   *)
(* by decision, in 64 bits, until the end or a division that cannot be     *)
(* done, whatever the user enters.                                         *)
(***************************************************************************)
ImplementsMeaning == Source!Spec

(***************************************************************************)
(* It never stops in between: the program is refused, or the interpreter   *)
(* gets to the end of the code, or it goes on for ever with what the       *)
(* source does, and never round a loop in the code that is none in the     *)
(* source.                                                                 *)
(***************************************************************************)
NeverStuck == Source!Progress
=============================================================================
