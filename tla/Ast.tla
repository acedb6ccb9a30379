-------------------------------- MODULE Ast --------------------------------
(***************************************************************************)
(* Tokens and the abstract syntax tree that the parser builds and the      *)
(* semantic analyser walks (include/token.h, include/ast.h, src/ast.c).    *)
(*                                                                         *)
(* A token carries its type, its attribute (the symbol of an identifier,   *)
(* the value of a literal) and its location.  The attribute is the C union *)
(* of token.h: NULL stands for a null symbol pointer.  A symbol is named   *)
(* by its identifier, which is sound because the symbol table hands out    *)
(* one symbol per identifier (module SymbolTable).                         *)
(*                                                                         *)
(* The tree is the heap the C code allocates it on: a sequence of          *)
(* nonterminal nodes, the index of a node being its address.  A child is   *)
(* either a terminal (the type is a token type, at is its location) or a   *)
(* nonterminal (the type is a nonterminal, at is the address of the node). *)
(***************************************************************************)
EXTENDS Integers, Sequences

CONSTANTS Names,     (* the identifiers of the source                      *)
          Literals,  (* the values of the literals of the source           *)
          NULL       (* the null symbol pointer, and "no attribute"        *)

TokenTypes ==
  {"EOF", "VAR", "BEGIN", "END", "INT", "READ", "WRITE", "COLON",
   "SEMICOLON", "LITERAL", "IDENTIFIER", "PLUS", "MINUS", "MUL", "DIV",
   "ASSIGN", "LPAREN", "RPAREN", "IF", "ELSE", "WHILE", "REPEAT", "UNTIL",
   "EQ", "NEQ", "LT", "LTE", "GT", "GTE"}

ASSUME AttrAssumption ==
  /\ Literals \subseteq Int
  /\ NULL \notin Names \cup Literals
  /\ NULL \notin TokenTypes

RelOps == {"EQ", "NEQ", "LT", "LTE", "GT", "GTE"}

NonTerminals ==
  {"source", "variables", "statements", "assign", "input", "output",
   "branch", "loop", "repeat", "expression", "term", "factor", "condition"}

Statements == {"assign", "input", "output", "branch", "loop", "repeat"}

Attrs == Names \cup Literals \cup {NULL}

Token == [type : TokenTypes, attr : Attrs, loc : Nat]

(* A token as the scanner delivers it, before it has a location. *)
Lexeme ==
  {x \in [type : TokenTypes, attr : Attrs] :
     x.attr \in CASE x.type = "IDENTIFIER" -> Names
                  [] x.type = "LITERAL"    -> Literals
                  [] OTHER                 -> {NULL}}

Child == [type : TokenTypes \cup NonTerminals, attr : Attrs, at : Nat]

Node == [nt : NonTerminals, children : Seq(Child)]

(***************************************************************************)
(* ast_make_terminal, ast_make_nonterminal and ast_add_child.              *)
(***************************************************************************)
Terminal(t) == [type |-> t.type, attr |-> t.attr, at |-> t.loc]

Subtree(nt, n) == [type |-> nt, attr |-> NULL, at |-> n]

MakeNonterminal(heap, nt) ==
  Append(heap, [nt |-> nt, children |-> << >>])

AddChild(heap, n, c) ==
  [heap EXCEPT ![n] = [nt |-> heap[n].nt,
                       children |-> Append(heap[n].children, c)]]

\* Mutant of Cleared: the last child is left out.
ClearedShort(heap, n) ==
  LET of[m \in DOMAIN heap] ==
        LET cs == heap[m].children
            upto[i \in 0..Len(cs)] ==
              IF i = 0 THEN << >>
              ELSE LET before == upto[i - 1]
                   IN IF cs[i].type \in NonTerminals /\ i < Len(cs)
                      THEN before \o of[cs[i].at]
                      ELSE before
        IN Append(upto[Len(cs)], m)
  IN of[n]

(* ast_clear: the nonterminal nodes in the order in which they are freed, a *)
(* node behind its children.  A terminal is freed in its place among them.  *)
Cleared(heap, n) ==
  LET of[m \in DOMAIN heap] ==
        LET cs == heap[m].children
            upto[i \in 0..Len(cs)] ==
              IF i = 0 THEN << >>
              ELSE LET before == upto[i - 1]
                   IN IF cs[i].type \in NonTerminals THEN before \o of[cs[i].at]
                      ELSE before
        IN Append(upto[Len(cs)], m)
  IN of[n]

Kinds(node) == [i \in 1..Len(node.children) |-> node.children[i].type]

(***************************************************************************)
(* What src/semanter.c dereferences in a node of each kind, without any    *)
(* check of its own: analyse_* index the children of a node by position,   *)
(* read the token of a terminal and recurse into a nonterminal.  C counts  *)
(* children from 0, TLA+ from 1.                                           *)
(***************************************************************************)
Has(ks, i, kinds) == i \in DOMAIN ks /\ ks[i] \in kinds

VariablesReadable(ks) ==
  /\ Len(ks) % 4 = 0
  /\ \A i \in DOMAIN ks : i % 4 = 1 => /\ ks[i] = "IDENTIFIER"
                                       /\ Has(ks, i + 2, TokenTypes)

\* analyse_expression and analyse_term: operands at the odd places.
ChainReadable(ks, operand, operators) ==
  /\ Len(ks) % 2 = 1
  /\ \A i \in DOMAIN ks : ks[i] \in IF i % 2 = 1 THEN {operand}
                                                 ELSE operators

FactorReadable(ks) ==
  \/ Has(ks, 1, {"LITERAL", "IDENTIFIER"})
  \/ Has(ks, 1, {"PLUS", "MINUS"}) /\ Has(ks, 2, {"factor"})
  \/ Has(ks, 1, {"LPAREN"}) /\ Has(ks, 2, {"expression"})

Readable(node) ==
  LET ks == Kinds(node)
  IN CASE node.nt = "source"     -> Has(ks, 2, {"variables"})
                                    /\ Has(ks, 4, {"statements"})
       [] node.nt = "variables"  -> VariablesReadable(ks)
       [] node.nt = "statements" -> \A i \in DOMAIN ks : ks[i] \in Statements
       [] node.nt = "assign"     -> Has(ks, 1, {"IDENTIFIER"})
                                    /\ Has(ks, 3, {"expression"})
       [] node.nt = "input"      -> Has(ks, 2, {"IDENTIFIER"})
       [] node.nt = "output"     -> Has(ks, 2, {"expression"})
       [] node.nt = "branch"     -> Has(ks, 3, {"condition"})
                                    /\ Has(ks, 6, {"statements"})
                                    /\ Has(ks, 8, {"statements"})
       [] node.nt = "loop"       -> Has(ks, 3, {"condition"})
                                    /\ Has(ks, 6, {"statements"})
       [] node.nt = "repeat"     -> Has(ks, 2, {"statements"})
                                    /\ Has(ks, 5, {"condition"})
       [] node.nt = "condition"  -> Has(ks, 1, {"expression"})
                                    /\ Has(ks, 2, RelOps)
                                    /\ Has(ks, 3, {"expression"})
       [] node.nt = "expression" -> ChainReadable(ks, "term", {"PLUS", "MINUS"})
       [] node.nt = "term"       -> ChainReadable(ks, "factor", {"MUL", "DIV"})
       [] node.nt = "factor"     -> FactorReadable(ks)

(***************************************************************************)
(* What it takes for granted of a whole tree: the root is a source, every  *)
(* node is readable, a child is of the kind that its parent says, and an   *)
(* identifier has a symbol, which accept_variable dereferences; only the   *)
(* operand of "read" may be without.                                       *)
(***************************************************************************)
Follows(tree, nt, c) ==
  /\ c.type \in NonTerminals => c.at \in DOMAIN tree /\ tree[c.at].nt = c.type
  /\ c.type = "IDENTIFIER" =>
       c.attr \in Names \/ (c.attr = NULL /\ nt = "input")
  /\ c.type = "LITERAL" => c.attr \in Literals \cup {NULL}

Analysable(tree) ==
  /\ tree # << >> /\ tree[1].nt = "source"
  /\ \A n \in DOMAIN tree :
       /\ Readable(tree[n])
       /\ \A i \in DOMAIN tree[n].children :
            Follows(tree, tree[n].nt, tree[n].children[i])

(***************************************************************************)
(* What its results rest on besides.  It looks at an identifier, and       *)
(* recurses into a nonterminal, at some places of a node only: at those it *)
(* has to find all that there are.                                         *)
(***************************************************************************)
NamedAt(nt) ==
  CASE nt = "variables"            -> {i \in Nat : i % 4 = 1}
    [] nt \in {"assign", "factor"} -> {1}
    [] nt = "input"                -> {2}
    [] OTHER                       -> {}

VisitedAt(nt, ks) ==
  CASE nt \in {"statements", "expression", "term"} -> DOMAIN ks
    [] nt = "source"                -> {2, 4}
    [] nt = "assign"                -> {3}
    [] nt = "output"                -> {2}
    [] nt = "branch"                -> {3, 6, 8}
    [] nt = "loop"                  -> {3, 6}
    [] nt = "repeat"                -> {2, 5}
    [] nt = "condition"             -> {1, 3}
    [] nt = "factor" /\ Has(ks, 1, {"PLUS", "MINUS", "LPAREN"}) -> {2}
    [] OTHER                        -> {}

(* An identifier that a token of the source names. *)
Named(c) == c.type = "IDENTIFIER" /\ c.attr # NULL

(* The nonterminal children, as places: node and child. *)
Subtrees(tree) ==
  {p \in UNION {{n} \X DOMAIN tree[n].children : n \in DOMAIN tree} :
     tree[p[1]].children[p[2]].type \in NonTerminals}

(* And the identifiers. *)
NamesIn(tree) ==
  {p \in UNION {{n} \X DOMAIN tree[n].children : n \in DOMAIN tree} :
     Named(tree[p[1]].children[p[2]])}

(* Nothing is where the analyser does not look, a declaration has the one  *)
(* type there is, every node but the root has one parent, which is older,  *)
(* and the names of the source have locations of their own, ascending in   *)
(* the declarations.                                                       *)
Orderly(tree) ==
  LET Kid(p) == tree[p[1]].children[p[2]]
      Kind(p) == tree[p[1]].nt
  IN /\ \A p \in NamesIn(tree) : p[2] \in NamedAt(Kind(p)) /\ Kid(p).at > 0
     /\ \A p \in Subtrees(tree) :
          p[2] \in VisitedAt(Kind(p), Kinds(tree[p[1]])) /\ Kid(p).at > p[1]
     /\ \A p \in NamesIn(tree) :
          Kind(p) = "variables" =>
            tree[p[1]].children[p[2] + 2].type = "INT"
     /\ \A m \in DOMAIN tree \ {1} : \E p \in Subtrees(tree) : Kid(p).at = m
     /\ \A p, q \in Subtrees(tree) : Kid(p).at = Kid(q).at => p = q
     /\ \A p, q \in NamesIn(tree) :
          /\ Kid(p).at = Kid(q).at => p = q
          /\ p[1] = q[1] /\ p[2] < q[2] => Kid(p).at < Kid(q).at
=============================================================================
