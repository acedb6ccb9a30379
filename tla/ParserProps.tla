---------------------------- MODULE ParserProps ----------------------------
(***************************************************************************)
(* What the parser promises to the semantic analyser and to the user.      *)
(***************************************************************************)
EXTENDS Parser

(* Every variable has its type (the fields of struct parse_context).        *)
TypeOK ==
  /\ tok \in Token \cup {NoToken}
  /\ nodes \in Seq(Node)
  /\ stack \in Seq(Activation)
  /\ errs \in Seq(Error)

(* A node is finished when the parse function that builds it has returned.  *)
Finished == DOMAIN nodes \ {stack[d].node : d \in DOMAIN stack}

(***************************************************************************)
(* Whatever the tokens, and however many of them error recovery invented   *)
(* or threw away, each finished node has the children that the semantic    *)
(* analyser reads without a check (src/semanter.c runs on every tree, the  *)
(* erroneous ones included).                                               *)
(***************************************************************************)
TreeReadable == \A n \in Finished : Readable(nodes[n])

(* The nonterminal children of a node, in place. *)
SubtreesOf(n) ==
  {i \in DOMAIN nodes[n].children : nodes[n].children[i].type \in NonTerminals}

(***************************************************************************)
(* The tree is a tree: a child is a finished node of the kind its parent   *)
(* says, made after it, and each finished node but the root is the child   *)
(* of one node only.                                                       *)
(***************************************************************************)
TreeLinked ==
  /\ \A n \in DOMAIN nodes : \A i \in SubtreesOf(n) :
       LET c == nodes[n].children[i]
       IN c.at \in Finished /\ c.at > n /\ nodes[c.at].nt = c.type
  /\ \A m \in Finished \ {1} :
       \E n \in DOMAIN nodes : \E i \in SubtreesOf(n) :
         /\ nodes[n].children[i].at = m
         /\ \A k \in DOMAIN nodes : \A j \in SubtreesOf(k) :
              nodes[k].children[j].at = m => k = n /\ j = i

(***************************************************************************)
(* ast_clear, at the end of main, frees each node of the tree once: a node *)
(* with two parents would be freed twice, one without would leak.          *)
(***************************************************************************)
TreeFreedOnce ==
  Parsed =>
    LET freed == Cleared(nodes, 1)
    IN /\ Len(freed) = Len(nodes)
       /\ DOMAIN nodes = {freed[i] : i \in DOMAIN freed}

(* The locations of the terminals under node n, from left to right. *)
Fringe ==
  LET f[n \in DOMAIN nodes] ==
        LET cs == nodes[n].children
            g[i \in 0..Len(cs)] ==
              IF i = 0 THEN << >>
              ELSE g[i-1] \o IF cs[i].type \in NonTerminals THEN f[cs[i].at]
                             ELSE <<cs[i].at>>
        IN g[Len(cs)]
  IN f[1]

(***************************************************************************)
(* No silent repair: when no error was reported the tree holds every token *)
(* read so far, once each and in source order, and none but those.  main   *)
(* executes the program exactly when the error list is empty.              *)
(***************************************************************************)
ExactUnlessReported ==
  (Parsed /\ errs = << >>) => Fringe = [i \in 1..(tok.loc - 1) |-> i]

(***************************************************************************)
(* A null symbol reaches the tree only as the operand of "read": an        *)
(* assignment or a declaration is begun on a real identifier, and a factor *)
(* is repaired with a literal.                                             *)
(***************************************************************************)
NullSymbolOnlyInRead ==
  \A n \in DOMAIN nodes : \A i \in DOMAIN nodes[n].children :
    LET c == nodes[n].children[i]
    IN c.type = "IDENTIFIER" /\ c.attr = NULL => nodes[n].nt = "input"

(***************************************************************************)
(* The list shows the errors of the parse in source order: lexical errors, *)
(* reported by lex() while it looks for the next token, and syntactic      *)
(* ones, reported at the lookahead token, never overtake each other.       *)
(***************************************************************************)
ErrorsInSourceOrder ==
  \A i, j \in DOMAIN errs : i < j => errs[i].loc <= errs[j].loc

(***************************************************************************)
(* The parser returns, whatever it reads: no recovery loop spins on a      *)
(* token, at the end of the file in particular.                            *)
(***************************************************************************)
Terminates == <>Parsed
=============================================================================
