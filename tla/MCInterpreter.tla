--------------------------- MODULE MCInterpreter ---------------------------
(***************************************************************************)
(* The executable codes of up to four instructions out of a short list of  *)
(* them (Some), over two temporaries, one variable and one literal, with   *)
(* the jumps to each place of the code.                                    *)
(***************************************************************************)
EXTENDS InterpreterProps

CONSTANT x  \* the variable

MinusOne == {-1}
Least == {-4, 1}

Place(n) == 0..n
Values == {Temporary(0), Temporary(1), Symbol(x), Literal(-1)}

(* The instructions of a code of n. *)
Some(n) ==
  {Instr("ASSIGN", v, Unset, Symbol(x)) : v \in {Temporary(0), Temporary(1)}}
  \cup {Instr("READ", Unset, Unset, Symbol(x))}
  \cup {Instr("WRITE", v, Unset, Unset) : v \in {Temporary(0), Symbol(x)}}
  \cup {Instr(op, v, w, Temporary(i)) :
          op \in {"DIV", "LT"}, v \in {Symbol(x)}, w \in {Temporary(1), Literal(-1)}, i \in {0}}
  \cup {Instr("NEG", v, Unset, Temporary(i)) : v \in {Temporary(0), Symbol(x)}, i \in {0, 1}}
  \cup {Instr("GOTO", Unset, Unset, Label(l)) : l \in Place(n)}
  \cup {Instr("BRANCH", Temporary(0), Unset, Label(l)) : l \in Place(n)}

Codes(n) == {c \in [1..n -> Some(n)] : Executable(c, 2)}

SmallPrograms == [code : UNION {Codes(n) : n \in 0..4}, tmps : {2}]
=============================================================================
