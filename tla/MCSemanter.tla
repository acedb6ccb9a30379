----------------------------- MODULE MCSemanter -----------------------------
(***************************************************************************)
(* Trees for the analyser: what the parser builds for small programs, and  *)
(* for erroneous ones after its repairs.                                   *)
(***************************************************************************)
EXTENDS SemanterProps, MCTrees

(* a   -b   (1 + a) * b - 1 / +a   and a repaired operand *)
Exprs ==
  {Expr(A), Expr(Signed("MINUS", B)), Expr(Factor(Lit(NULL))),
   Sum(Product(Paren(Sum(Term(One), "PLUS", Term(A))), "MUL", B), "MINUS",
       Product(One, "DIV", Signed("PLUS", A)))}

(* a = 1   (-b) < 1 + a *)
Conds ==
  {Cond(Expr(A), "EQ", Expr(One)),
   Cond(Expr(Paren(Expr(Signed("MINUS", B)))), "LT",
        Sum(Term(One), "PLUS", Term(A)))}

Simple == {Assign(x, e) : x \in {a, b}, e \in Exprs}
          \cup {Read(x) : x \in {a, NULL}} \cup {Write(e) : e \in Exprs}

Compound(ss, cs) ==
  {If(c, s, t) : c \in cs, s \in ss, t \in ss}
  \cup {While(c, s) : c \in cs, s \in ss}
  \cup {Repeat(s, c) : c \in cs, s \in ss}

(* Declarations, one too many or too few, in front of short programs. *)
CheckTrees ==
  {Program(ds, ss) :
     ds \in {<< >>, <<Decl(a)>>, <<Decl(b), Decl(a)>>, <<Decl(a), Decl(a)>>,
             <<Decl(a), Decl(b), Decl(a), Decl(a)>>},
     ss \in {<<s, t>> : s, t \in Simple}
            \cup {<<s>> : s \in Compound({<< >>, <<Read(NULL)>>,
                                          <<Assign(b, Expr(A))>>,
                                          <<Write(Expr(B))>>}, Conds)}}

(* Control structures inside control structures, two deep and in sequence. *)
Small == {<< >>, <<Read(a)>>, <<Assign(a, Sum(Term(A), "PLUS", Term(One)))>>}
Inner == Compound(Small, {Cond(Expr(A), "EQ", Expr(One))})
Outer == Compound(Small \cup {<<s>> : s \in Inner},
                  {Cond(Expr(A), "GT", Expr(One))})

CodeTrees ==
  {Program(<<Decl(a)>>, ss) :
     ss \in {<<s>> : s \in Outer} \cup {<<s, t>> : s, t \in Inner}
            \cup {<<Write(e)>> : e \in {Expr(A), Expr(One)}}}

AllTrees == CheckTrees \cup CodeTrees

(* while (a = 1) begin write 1; ... end, with eight writes *)
LongLoop ==
  {Program(<<Decl(a)>>, <<While(Cond(Expr(A), "EQ", Expr(One)),
                                [i \in 1..8 |-> Write(Expr(One))])>>)}
=============================================================================
