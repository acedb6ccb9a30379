----------------------------- MODULE ParserInv -----------------------------
(***************************************************************************)
(* The inductive invariant behind ParserProps!TreeReadable: what is known  *)
(* of every activation on the stack while the node it builds is still      *)
(* incomplete.                                                             *)
(***************************************************************************)
EXTENDS ParserProps

ChainOperand == [expression |-> "term", term |-> "factor"]

ChainOperators == [expression |-> {"PLUS", "MINUS"}, term |-> {"MUL", "DIV"}]

(***************************************************************************)
(* The kinds ks of the children that a node of kind nt has when its parse  *)
(* function is about to execute step k.                                    *)
(***************************************************************************)
ScriptProgress(script, k, ks) ==
  /\ k \in 1..(Len(script) + 1)
  /\ Len(ks) = k - 1
  /\ \A i \in 1..Len(ks) : ks[i] \in Expected(script[i])

VariablesProgress(k, ks) ==
  /\ k \in 1..4
  /\ Len(ks) % 4 = k - 1
  /\ \A i \in 1..Len(ks) : ks[i] = Declaration[((i - 1) % 4) + 1]

StatementsProgress(k, ks) ==
  /\ k = 1
  /\ \A i \in 1..Len(ks) : ks[i] \in Statements

ChainProgress(nt, k, ks) ==
  /\ k \in 1..2
  /\ Len(ks) % 2 = k - 1
  /\ \A i \in 1..Len(ks) : ks[i] \in IF i % 2 = 1 THEN {ChainOperand[nt]}
                                                  ELSE ChainOperators[nt]

FactorComplete(ks) ==
  \/ Len(ks) = 1 /\ ks[1] \in {"LITERAL", "IDENTIFIER"}
  \/ Len(ks) = 2 /\ ks[1] \in {"PLUS", "MINUS"} /\ ks[2] = "factor"
  \/ /\ Len(ks) = 3
     /\ ks[1] = "LPAREN" /\ ks[2] = "expression" /\ ks[3] = "RPAREN"

FactorProgress(k, ks) ==
  \/ k = 1 /\ Len(ks) = 0
  \/ k = 2 /\ Len(ks) = 1 /\ ks[1] \in {"PLUS", "MINUS"}
  \/ k = 3 /\ Len(ks) = 1 /\ ks[1] = "LPAREN"
  \/ k = 4 /\ Len(ks) = 2 /\ ks[1] = "LPAREN" /\ ks[2] = "expression"
  \/ k = 5 /\ FactorComplete(ks)

Progress(nt, k, ks) ==
  /\ nt \in DOMAIN Script => ScriptProgress(Script[nt], k, ks)
  /\ nt = "variables" => VariablesProgress(k, ks)
  /\ nt = "statements" => StatementsProgress(k, ks)
  /\ nt \in DOMAIN ChainOperand => ChainProgress(nt, k, ks)
  /\ nt = "factor" => FactorProgress(k, ks)

(* A caller has already moved on: it will have its callee's node as a child. *)
Pending(d) ==
  LET ks == Kinds(nodes[stack[d].node])
  IN IF d < Len(stack) THEN Append(ks, nodes[stack[d + 1].node].nt) ELSE ks

(* A callee's node is made after its caller's. *)
StackOrdered ==
  /\ \A d \in 1..Len(stack) : stack[d].node \in 1..Len(nodes)
  /\ \A d, e \in 1..Len(stack) : d < e => stack[d].node < stack[e].node

FramesProgress ==
  \A d \in 1..Len(stack) :
    Progress(nodes[stack[d].node].nt, stack[d].step, Pending(d))

(* The parser runs with a token at hand. *)
TokenAtHand == stack # << >> => tok \in Token

IInv ==
  /\ TypeOK
  /\ TokenAtHand
  /\ StackOrdered
  /\ FramesProgress
  /\ TreeReadable
=============================================================================
