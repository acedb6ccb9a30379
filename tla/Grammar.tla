------------------------------ MODULE Grammar ------------------------------
(***************************************************************************)
(* The grammar of the language, in the EBNF of include/parser.h, as a      *)
(* reference definition by leftmost derivations.  A form is a sequence of  *)
(* terminals and nonterminals; After(w)[xs][i] is the set of the places in *)
(* w where a phrase of the form xs that begins at place i may end.  The    *)
(* token that stands between the two sides of an assignment is a           *)
(* parameter, because the comment and the code disagree about it.          *)
(***************************************************************************)
EXTENDS Integers, Sequences

CONSTANTS AssignSign

Nonterminals ==
  {"source", "variables", "declaration", "statements", "statement",
   "expression", "addends", "addend", "term", "multipliers", "multiplier",
   "factor", "condition"}

Symbols ==
  Nonterminals \cup
  {"VAR", "BEGIN", "END", "INT", "IDENTIFIER", "LITERAL", "READ", "WRITE",
   "IF", "ELSE", "WHILE", "REPEAT", "UNTIL", "COLON", "SEMICOLON", "LPAREN",
   "RPAREN", "sign", "muldiv", "RELOP", AssignSign}

RelationalOperators == {"EQ", "NEQ", "LT", "LTE", "GT", "GTE"}

(* The token types that a terminal of the grammar stands for. *)
Terminals(x) ==
  CASE x = "sign"   -> {"PLUS", "MINUS"}
    [] x = "muldiv" -> {"MUL", "DIV"}
    [] x = "RELOP"  -> RelationalOperators
    [] OTHER        -> {x}

(* What the statements may be. *)
StatementForms ==
  {<<"IDENTIFIER", AssignSign, "expression", "SEMICOLON">>,
   <<"READ", "IDENTIFIER", "SEMICOLON">>,
   <<"WRITE", "expression", "SEMICOLON">>,
   <<"IF", "LPAREN", "condition", "RPAREN", "BEGIN", "statements", "ELSE",
     "statements", "END">>,
   <<"WHILE", "LPAREN", "condition", "RPAREN", "BEGIN", "statements", "END">>,
   <<"REPEAT", "statements", "UNTIL", "LPAREN", "condition", "RPAREN">>}

(* A rule in braces: nothing, or one more and then the same again. *)
Braces(x, y) == {<< >>, <<x, y>>}

(* The right-hand sides of a nonterminal's rule; a terminal has none. *)
Alternatives(x) ==
  CASE x = "source"      -> {<<"VAR", "variables", "BEGIN", "statements", "END">>}
    [] x = "variables"   -> Braces("declaration", x)
    [] x = "declaration" -> {<<"IDENTIFIER", "COLON", "INT", "SEMICOLON">>}
    [] x = "statements"  -> Braces("statement", x)
    [] x = "statement"   -> StatementForms
    [] x = "expression"  -> {<<"term", "addends">>}
    [] x = "addends"     -> Braces("addend", x)
    [] x = "addend"      -> {<<"sign", "term">>}
    [] x = "term"        -> {<<"factor", "multipliers">>}
    [] x = "multipliers" -> Braces("multiplier", x)
    [] x = "multiplier"  -> {<<"muldiv", "factor">>}
    [] x = "factor"      -> {<<"LITERAL">>, <<"IDENTIFIER">>, <<"sign", "factor">>,
                             <<"LPAREN", "expression", "RPAREN">>}
    [] x = "condition"   -> {<<"expression", "RELOP", "expression">>}
    [] OTHER             -> {}

(* A terminal at the head of a form is the token at place i, a nonterminal  *)
(* gives way to one of its right-hand sides.                                *)
After(w) ==
  LET after[xs \in Seq(Symbols)] ==
        [i \in Nat |->
           IF xs = << >> THEN {i}
           ELSE IF Alternatives(Head(xs)) = {}
           THEN IF i \in DOMAIN w /\ w[i] \in Terminals(Head(xs))
                THEN after[Tail(xs)][i + 1] ELSE {}
           ELSE UNION {after[ys \o Tail(xs)][i] : ys \in Alternatives(Head(xs))}]
  IN after

(* The token types w are a whole program. *)
Sentence(w) == Len(w) + 1 \in After(w)[<<"source">>][1]
=============================================================================
