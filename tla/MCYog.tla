------------------------------- MODULE MCYog -------------------------------
(***************************************************************************)
(* Programs to be analysed and run, over one variable and the numbers of   *)
(* three bits, and a few that are refused.                                 *)
(***************************************************************************)
EXTENDS YogProps, MCTrees

Least == {-4}
Answers == {-9, 0, 2}

(* An expression of one term. *)
Alone(t) == N("expression", <<t>>)

(* -a   a - 1   1 / a   a / -1   (a + 1) * a *)
Results ==
  {Expr(Signed("MINUS", A)), Sum(Term(A), "MINUS", Term(One)),
   Alone(Product(One, "DIV", A)), Alone(Product(A, "DIV", Signed("MINUS", One))),
   Alone(Product(Paren(Sum(Term(A), "PLUS", Term(One))), "MUL", A))}

Steps == {Read(a), Write(Expr(A))} \cup {Assign(a, e) : e \in Results}

(* a compared with 1, +a with 1 / a, and a - 1 with -a *)
Tests ==
  {Cond(Expr(A), op, Expr(One)) : op \in {"EQ", "LT", "GT"}}
  \cup {Cond(Expr(Signed("PLUS", A)), "LTE", Alone(Product(One, "DIV", A))),
        Cond(Sum(Term(A), "MINUS", Term(One)), "GTE", Expr(Signed("MINUS", A))),
        Cond(Expr(A), "NEQ", Expr(One))}

Few == {Read(a), Write(Expr(A)), Assign(a, Sum(Term(A), "MINUS", Term(One)))}

Nest(ss, ts, cs) ==
  {If(c, s, t) : c \in cs, s \in ss, t \in ts}
  \cup {While(c, s) : c \in cs, s \in ss}
  \cup {Repeat(s, c) : c \in cs, s \in ss}

Below == Cond(Expr(A), "LT", Expr(One))
Other == Cond(Expr(A), "NEQ", Expr(One))

Singles == {<<s>> : s \in Steps}
Inner == Nest({<<s>> : s \in Few} \cup {<< >>}, {<< >>, <<Read(a)>>}, {Below})

(* Sequences, control structures, empty ones too, and one inside another. *)
Bodies ==
  {<<s, t>> : s, t \in Steps}
  \cup {<<s>> : s \in Nest(Singles \cup {<< >>}, Singles \cup {<< >>}, Tests)}
  \cup {<<s, Write(Expr(A))>> :
          s \in Nest({<<t, u>> : t \in Few, u \in Inner}, {<< >>}, {Other})}

RunTrees ==
  {Program(<<Decl(a)>>, ss) : ss \in Bodies}
  \cup {Program(ds, <<s>>) :
          ds \in {<< >>, <<Decl(a), Decl(a)>>, <<Decl(b)>>, <<Decl(b), Decl(a)>>},
          s \in Steps \cup {Write(Expr(One))}}
  \cup {Program(<<Decl(a)>>, <<Write(Expr(Factor(Lit(NULL))))>>)}
=============================================================================
