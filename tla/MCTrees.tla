------------------------------ MODULE MCTrees ------------------------------
(***************************************************************************)
(* Trees as the parser builds them for small programs, and for erroneous   *)
(* ones after its repairs, laid out on the heap in the order of the parser.*)
(***************************************************************************)
EXTENDS Ast, SequencesExt

CONSTANTS a, b  \* the identifiers

T(type) == [type |-> type, attr |-> NULL]
Id(x) == [type |-> "IDENTIFIER", attr |-> x]
Lit(v) == [type |-> "LITERAL", attr |-> v]
(* Sub-tree t, moved d addresses and l locations further. *)
Shifted(t, d, l) ==
  [n \in DOMAIN t |->
     [t[n] EXCEPT !.children =
        [i \in DOMAIN @ |->
           [@[i] EXCEPT !.at = @ + (IF t[n].children[i].type \in NonTerminals
                                    THEN d ELSE l)]]]]

(* A tree, its tokens counted, with one more child of its root. *)
Attach(t, kid) ==
  IF "heap" \in DOMAIN kid
  THEN [heap |-> AddChild(t.heap, 1, Subtree(kid.heap[1].nt, Len(t.heap) + 1))
                   \o Shifted(kid.heap, Len(t.heap), t.cnt),
        cnt  |-> t.cnt + kid.cnt]
  ELSE [heap |-> AddChild(t.heap, 1, [type |-> kid.type, attr |-> kid.attr,
                                      at |-> t.cnt + 1]),
        cnt  |-> t.cnt + 1]

N(nt, kids) ==
  FoldLeft(Attach, [heap |-> MakeNonterminal(<< >>, nt), cnt |-> 0], kids)

-----------------------------------------------------------------------------
Factor(tok) == N("factor", <<tok>>)
Signed(sign, f) == N("factor", <<T(sign), f>>)
Paren(e) == N("factor", <<T("LPAREN"), e, T("RPAREN")>>)
Term(f) == N("term", <<f>>)
Expr(f) == N("expression", <<Term(f)>>)
Sum(t, op, u) == N("expression", <<t, T(op), u>>)
Product(f, op, g) == N("term", <<f, T(op), g>>)
Cond(e, op, f) == N("condition", <<e, T(op), f>>)

Decl(x) == <<Id(x), T("COLON"), T("INT"), T("SEMICOLON")>>
Assign(x, e) == N("assign", <<Id(x), T("ASSIGN"), e, T("SEMICOLON")>>)
Read(x) == N("input", <<T("READ"), Id(x), T("SEMICOLON")>>)
Write(e) == N("output", <<T("WRITE"), e, T("SEMICOLON")>>)
Body(ss) == N("statements", ss)
If(c, ss, ts) ==
  N("branch", <<T("IF"), T("LPAREN"), c, T("RPAREN"), T("BEGIN"), Body(ss),
                T("ELSE"), Body(ts), T("END")>>)
While(c, ss) ==
  N("loop", <<T("WHILE"), T("LPAREN"), c, T("RPAREN"), T("BEGIN"), Body(ss),
              T("END")>>)
Repeat(ss, c) ==
  N("repeat", <<T("REPEAT"), Body(ss), T("UNTIL"), T("LPAREN"), c,
                T("RPAREN")>>)
Program(ds, ss) ==
  N("source", <<T("VAR"), N("variables", FlattenSeq(ds)), T("BEGIN"),
                Body(ss), T("END")>>).heap

One == Factor(Lit(1))
A == Factor(Id(a))
B == Factor(Id(b))
=============================================================================
