----------------------------- MODULE MCGrammar -----------------------------
(* Instances of the parser against the grammar for TLC. *)
EXTENDS ParserGrammar

CONSTANTS a  \* an identifier

Lex(types) ==
  {x \in [type : types, attr : {a, 1, NULL}] :
     x.attr = CASE x.type = "IDENTIFIER" -> a
                [] x.type = "LITERAL"    -> 1
                [] OTHER                 -> NULL}

(* One token of each syntactic class. *)
ClassTokens ==
  Lex({"VAR", "BEGIN", "END", "INT", "READ", "WRITE", "COLON", "SEMICOLON",
       "LITERAL", "IDENTIFIER", "PLUS", "MUL", "ASSIGN", "LPAREN", "RPAREN",
       "IF", "ELSE", "WHILE", "REPEAT", "UNTIL", "EQ"})

(* The control structures, over conditions on literals. *)
ControlTypes ==
  {"VAR", "BEGIN", "END", "LITERAL", "LPAREN", "RPAREN", "IF", "ELSE",
   "WHILE", "REPEAT", "UNTIL", "EQ"}

(* Bound: a source that is longer than that holds control structures only. *)
CONSTANT MaxMixed

Fits ==
  \/ tok'.type = "EOF"
  \/ Len(seen') <= MaxMixed
  \/ {seen'[i] : i \in DOMAIN seen'} \subseteq ControlTypes

MixedSpec == GrammarInit /\ [][GrammarNext /\ Fits]_<<vars, seen>>
=============================================================================
