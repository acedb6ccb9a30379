------------------------------ MODULE MCParser ------------------------------
(* Instances of the parser for TLC. *)
EXTENDS ParserInv

CONSTANTS a  \* an identifier

Lex(types) ==
  {x \in [type : types, attr : {a, 1, NULL}] :
     x.attr = CASE x.type = "IDENTIFIER" -> a
                [] x.type = "LITERAL"    -> 1
                [] OTHER                 -> NULL}

(* Every token of the language. *)
AllTokens == Lex(TokenTypes \ {"EOF"})
=============================================================================
