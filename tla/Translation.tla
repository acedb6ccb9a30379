---------------------------- MODULE Translation ----------------------------
(***************************************************************************)
(* What the analyser makes of a tree: where the code of every node begins  *)
(* and ends, what stands in it, and which operand has its value.  A        *)
(* translation t is three functions of the nodes:                          *)
(*                                                                         *)
(*   t.from  the place where the code of the node begins,                  *)
(*   t.to    the place where it ends,                                      *)
(*   t.opd   the operand that the call for the node has returned.          *)
(*                                                                         *)
(* Place l is the one before code[l + 1].                                  *)
(***************************************************************************)
EXTENDS SemanterInv

Translations(tree) ==
  [from : [DOMAIN tree -> Nat], to : [DOMAIN tree -> Nat],
   opd : [DOMAIN tree -> Operand]]

(* The same for child i of node n. *)
Sub(tree, n, i) == tree[n].children[i].at
From(tree, t, n, i) == t.from[Sub(tree, n, i)]
To(tree, t, n, i) == t.to[Sub(tree, n, i)]
Opd(tree, t, n, i) == t.opd[Sub(tree, n, i)]

Word(tree, n, i) == tree[n].children[i].type
Attr(tree, n, i) == tree[n].children[i].attr
Arity(tree, n) == Len(tree[n].children)

Puts(code, l, i) == l + 1 \in 1..Len(code) /\ code[l + 1] = i

Jump(label) == Instr("GOTO", Unset, Unset, Label(label))
Test(o, label) == Instr("BRANCH", o, Unset, Label(label))

-----------------------------------------------------------------------------
(* Statements follow one another, *)
ListEnd(tree, t, n, k) == IF k = 0 THEN t.from[n] ELSE To(tree, t, n, k)

ListUpTo(tree, t, n, k) ==
  \A i \in 1..k : From(tree, t, n, i) = ListEnd(tree, t, n, i - 1)

(* and so do the operands of a chain, each one but the first combined with *)
(* the value of what is before it.                                         *)
End(tree, t, n, k) ==
  IF k = 1 THEN To(tree, t, n, 1) ELSE To(tree, t, n, k) + 1

Value(tree, code, t, n, k) ==
  IF k = 1 THEN Opd(tree, t, n, 1) ELSE code[To(tree, t, n, k) + 1].dest

Combines(tree, code, t, n, k) ==
  /\ From(tree, t, n, k) = End(tree, t, n, k - 2)
  /\ Puts(code, To(tree, t, n, k),
          Instr(OpOf[Word(tree, n, k - 1)], Value(tree, code, t, n, k - 2),
                Opd(tree, t, n, k), Value(tree, code, t, n, k)))
  /\ Value(tree, code, t, n, k).type = "TEMPORARY"

ChainUpTo(tree, code, t, n, k) ==
  /\ k >= 1 => From(tree, t, n, 1) = t.from[n]
  /\ \A i \in 2..k : i % 2 = 1 => Combines(tree, code, t, n, i)

-----------------------------------------------------------------------------
(* The code of each kind of node. *)
TranslatesAssign(tree, code, t, n) ==
  /\ From(tree, t, n, 3) = t.from[n] /\ t.to[n] = To(tree, t, n, 3) + 1
  /\ Puts(code, To(tree, t, n, 3),
          Instr("ASSIGN", Opd(tree, t, n, 3), Unset, Symbol(Attr(tree, n, 1))))

(* The parser may have found no name to read. *)
TranslatesInput(tree, code, t, n) ==
  IF Attr(tree, n, 2) = NULL THEN t.to[n] = t.from[n]
  ELSE /\ t.to[n] = t.from[n] + 1
       /\ Puts(code, t.from[n],
               Instr("READ", Unset, Unset, Symbol(Attr(tree, n, 2))))

TranslatesOutput(tree, code, t, n) ==
  /\ From(tree, t, n, 2) = t.from[n] /\ t.to[n] = To(tree, t, n, 2) + 1
  /\ Puts(code, To(tree, t, n, 2),
          Instr("WRITE", Opd(tree, t, n, 2), Unset, Unset))

(* condition, branch, else part, goto, then part *)
TranslatesBranch(tree, code, t, n) ==
  /\ From(tree, t, n, 3) = t.from[n]
  /\ Puts(code, To(tree, t, n, 3),
          Test(Opd(tree, t, n, 3), From(tree, t, n, 6)))
  /\ From(tree, t, n, 8) = To(tree, t, n, 3) + 1
  /\ Puts(code, To(tree, t, n, 8), Jump(t.to[n]))
  /\ From(tree, t, n, 6) = To(tree, t, n, 8) + 1
  /\ t.to[n] = To(tree, t, n, 6)

(* condition, branch, goto behind the loop, body, goto the condition *)
TranslatesLoop(tree, code, t, n) ==
  /\ From(tree, t, n, 3) = t.from[n]
  /\ Puts(code, To(tree, t, n, 3),
          Test(Opd(tree, t, n, 3), From(tree, t, n, 6)))
  /\ Puts(code, To(tree, t, n, 3) + 1, Jump(t.to[n]))
  /\ From(tree, t, n, 6) = To(tree, t, n, 3) + 2
  /\ Puts(code, To(tree, t, n, 6), Jump(t.from[n]))
  /\ t.to[n] = To(tree, t, n, 6) + 1

TranslatesRepeat(tree, code, t, n) ==
  /\ From(tree, t, n, 2) = t.from[n]
  /\ From(tree, t, n, 5) = To(tree, t, n, 2)
  /\ Puts(code, To(tree, t, n, 5), Test(Opd(tree, t, n, 5), t.from[n]))
  /\ t.to[n] = To(tree, t, n, 5) + 1

TranslatesCondition(tree, code, t, n) ==
  /\ From(tree, t, n, 1) = t.from[n]
  /\ From(tree, t, n, 3) = To(tree, t, n, 1)
  /\ Puts(code, To(tree, t, n, 3),
          Instr(Word(tree, n, 2), Opd(tree, t, n, 1), Opd(tree, t, n, 3),
                t.opd[n]))
  /\ t.opd[n].type = "TEMPORARY"
  /\ t.to[n] = To(tree, t, n, 3) + 1

TranslatesChain(tree, code, t, n) ==
  /\ ChainUpTo(tree, code, t, n, Arity(tree, n))
  /\ t.to[n] = End(tree, t, n, Arity(tree, n))
  /\ t.opd[n] = Value(tree, code, t, n, Arity(tree, n))

TranslatesFactor(tree, code, t, n) ==
  /\ Word(tree, n, 1) = "LITERAL" =>
       t.to[n] = t.from[n] /\ t.opd[n] = Literal(ValueOf(tree[n].children[1]))
  /\ Word(tree, n, 1) = "IDENTIFIER" =>
       t.to[n] = t.from[n] /\ t.opd[n] = Symbol(Attr(tree, n, 1))
  /\ Word(tree, n, 1) = "LPAREN" =>
       /\ From(tree, t, n, 2) = t.from[n] /\ t.to[n] = To(tree, t, n, 2)
       /\ t.opd[n] = Opd(tree, t, n, 2)
  /\ Word(tree, n, 1) \in {"PLUS", "MINUS"} =>
       /\ From(tree, t, n, 2) = t.from[n] /\ t.to[n] = To(tree, t, n, 2) + 1
       /\ Puts(code, To(tree, t, n, 2),
               Instr(SignOf[Word(tree, n, 1)], Opd(tree, t, n, 2), Unset,
                     t.opd[n]))
       /\ t.opd[n].type = "TEMPORARY"

TranslatesSource(tree, t, n) ==
  /\ From(tree, t, n, 2) = t.from[n]
  /\ From(tree, t, n, 4) = To(tree, t, n, 2)
  /\ t.to[n] = To(tree, t, n, 4)

Translates(tree, code, t, n) ==
  /\ t.from[n] <= t.to[n] /\ t.to[n] <= Len(code)
  /\ CASE tree[n].nt = "source"     -> TranslatesSource(tree, t, n)
       [] tree[n].nt = "variables"  -> t.to[n] = t.from[n]
       [] tree[n].nt = "statements" ->
            /\ ListUpTo(tree, t, n, Arity(tree, n))
            /\ t.to[n] = ListEnd(tree, t, n, Arity(tree, n))
       [] tree[n].nt = "assign"     -> TranslatesAssign(tree, code, t, n)
       [] tree[n].nt = "input"      -> TranslatesInput(tree, code, t, n)
       [] tree[n].nt = "output"     -> TranslatesOutput(tree, code, t, n)
       [] tree[n].nt = "branch"     -> TranslatesBranch(tree, code, t, n)
       [] tree[n].nt = "loop"       -> TranslatesLoop(tree, code, t, n)
       [] tree[n].nt = "repeat"     -> TranslatesRepeat(tree, code, t, n)
       [] tree[n].nt = "condition"  -> TranslatesCondition(tree, code, t, n)
       [] tree[n].nt \in {"expression", "term"} ->
                                       TranslatesChain(tree, code, t, n)
       [] tree[n].nt = "factor"     -> TranslatesFactor(tree, code, t, n)

-----------------------------------------------------------------------------
(* The child that analyse_nt calls as it goes on to step k. *)
Called(nt, k) ==
  CASE nt = "statements"            -> k - 1
    [] nt \in {"expression", "term"} -> k - 2
    [] nt = "source"                -> IF k = 2 THEN 2 ELSE 4
    [] nt = "assign"                -> 3
    [] nt \in {"output", "factor"}  -> 2
    [] nt = "branch"                -> IF k = 2 THEN 3 ELSE IF k = 3 THEN 8 ELSE 6
    [] nt = "loop"                  -> IF k = 2 THEN 3 ELSE 6
    [] nt = "repeat"                -> IF k = 2 THEN 2 ELSE 5
    [] nt = "condition"             -> IF k = 2 THEN 1 ELSE 3
    [] OTHER                        -> 0

(* What an activation with the operands os has done, when it has called a  *)
(* child and h is the place where the code of that child begins.           *)
WaitsInBranch(tree, code, t, a, h) ==
  LET n == a.node
  IN /\ a.step = 2 => h = t.from[n]
     /\ a.step = 3 =>
          /\ From(tree, t, n, 3) = t.from[n] /\ h = To(tree, t, n, 3) + 1
          /\ Puts(code, To(tree, t, n, 3), Test(Opd(tree, t, n, 3), NULL))
          /\ a.ptrs[1].index = h
     /\ a.step = 4 =>
          /\ From(tree, t, n, 3) = t.from[n]
          /\ Puts(code, To(tree, t, n, 3), Test(Opd(tree, t, n, 3), h))
          /\ From(tree, t, n, 8) = To(tree, t, n, 3) + 1
          /\ Puts(code, To(tree, t, n, 8), Jump(NULL))
          /\ h = To(tree, t, n, 8) + 1 /\ a.ptrs[2].index = h

WaitsInLoop(tree, code, t, a, h) ==
  LET n == a.node
  IN /\ a.start = t.from[n] /\ a.step # 3
     /\ a.step = 2 => h = t.from[n]
     /\ a.step = 4 =>
          /\ From(tree, t, n, 3) = t.from[n]
          /\ Puts(code, To(tree, t, n, 3), Test(Opd(tree, t, n, 3), h))
          /\ Puts(code, To(tree, t, n, 3) + 1, Jump(NULL))
          /\ h = To(tree, t, n, 3) + 2 /\ a.ptrs[2].index = h

WaitsInRepeat(tree, t, a, h) ==
  LET n == a.node
  IN /\ a.start = t.from[n]
     /\ a.step = 2 => h = t.from[n]
     /\ a.step = 3 => From(tree, t, n, 2) = t.from[n] /\ h = To(tree, t, n, 2)

WaitsInCondition(tree, t, a, os, h) ==
  LET n == a.node
  IN /\ a.step = 2 => h = t.from[n]
     /\ a.step = 3 => /\ From(tree, t, n, 1) = t.from[n]
                      /\ h = To(tree, t, n, 1) /\ os = <<Opd(tree, t, n, 1)>>

WaitsInChain(tree, code, t, a, os, h) ==
  LET n == a.node
  IN /\ a.step - 2 \in 1..Arity(tree, n) /\ a.step % 2 = 1
     /\ ChainUpTo(tree, code, t, n, a.step - 4)
     /\ IF a.step = 3 THEN h = t.from[n]
        ELSE /\ h = End(tree, t, n, a.step - 4)
             /\ os = <<Value(tree, code, t, n, a.step - 4)>>

WaitsInSource(tree, t, a, h) ==
  LET n == a.node
  IN /\ a.step = 2 => h = t.from[n]
     /\ a.step = 3 => From(tree, t, n, 2) = t.from[n] /\ h = To(tree, t, n, 2)

WaitsInList(tree, t, a, h) ==
  LET n == a.node
  IN /\ a.step - 1 \in 1..Arity(tree, n)
     /\ ListUpTo(tree, t, n, a.step - 2)
     /\ h = ListEnd(tree, t, n, a.step - 2)

Waits(tree, code, t, a, os, h) ==
  LET n == a.node
  IN CASE tree[n].nt = "source"    -> WaitsInSource(tree, t, a, h)
       [] tree[n].nt = "statements" -> WaitsInList(tree, t, a, h)
       [] tree[n].nt = "branch"    -> WaitsInBranch(tree, code, t, a, h)
       [] tree[n].nt = "loop"      -> WaitsInLoop(tree, code, t, a, h)
       [] tree[n].nt = "repeat"    -> WaitsInRepeat(tree, t, a, h)
       [] tree[n].nt = "condition" -> WaitsInCondition(tree, t, a, os, h)
       [] tree[n].nt \in {"expression", "term"} ->
                                      WaitsInChain(tree, code, t, a, os, h)
       [] OTHER                    -> h = t.from[n]

(* The child has returned, with an operand if it is valued; *)
Resumed(tree, code, t, a) ==
  LET n == a.node
      c == Called(tree[n].nt, a.step)
  IN \E os \in Seq(Operand) :
       /\ Waits(tree, code, t, a, os, From(tree, t, n, c))
       /\ a.opds = IF tree[Sub(tree, n, c)].nt \in Valued
                   THEN Append(os, Opd(tree, t, n, c)) ELSE os
       /\ Len(code) = To(tree, t, n, c)

(* a chain has combined two operands; *)
Combined(tree, code, t, a) ==
  LET n == a.node
  IN /\ tree[n].nt \in {"expression", "term"} /\ a.step >= 5
     /\ ChainUpTo(tree, code, t, n, a.step - 2)
     /\ a.opds = <<Value(tree, code, t, n, a.step - 2)>>
     /\ Len(code) = End(tree, t, n, a.step - 2)

(* a loop has tested. *)
Tested(tree, code, t, a) ==
  LET n == a.node
  IN /\ tree[n].nt = "loop" /\ a.step = 3 /\ a.start = t.from[n]
     /\ From(tree, t, n, 3) = t.from[n] /\ Len(code) = To(tree, t, n, 3) + 1
     /\ Puts(code, To(tree, t, n, 3), Test(Opd(tree, t, n, 3), NULL))
     /\ a.ptrs[1].index = Len(code)

(* The activation that runs. *)
Goes(tree, code, t, a) ==
  IF a.step = 1 \/ tree[a.node].nt \in {"variables", "input"}
  THEN Len(code) = t.from[a.node]
  ELSE \/ Resumed(tree, code, t, a)
       \/ Combined(tree, code, t, a)
       \/ Tested(tree, code, t, a)

-----------------------------------------------------------------------------
(* The activation a has called analyse_* for node c. *)
WaitsFor(tree, code, t, a, c) ==
  LET i == Called(tree[a.node].nt, a.step)
  IN /\ <<a.node, i>> \in Subtrees(tree) /\ c = Sub(tree, a.node, i)
     /\ Waits(tree, code, t, a, a.opds, t.from[c])

(* The nodes of done are translated, the others are on their way. *)
Translated(done, t) ==
  /\ t \in Translations(nodes) /\ t.from[1] = 0
  /\ stack = << >> => t.to[1] = Len(instrs)
  /\ \A n \in done : Translates(nodes, instrs, t, n)
  /\ \A d \in DOMAIN stack :
       /\ t.from[stack[d].node] <= Len(instrs)
       /\ d = Top => Goes(nodes, instrs, t, stack[d])
       /\ d < Top => WaitsFor(nodes, instrs, t, stack[d], stack[d + 1].node)

(* The code, when nothing was reported and the list stayed in place. *)
TranslationInv ==
  errs = << >> /\ block = 0 => \E done, t : Visited(done) /\ Translated(done, t)

(***************************************************************************)
(* When nothing was reported and the list stayed in place, the code is the *)
(* translation of the tree: all of it, and nothing besides.                *)
(***************************************************************************)
CodeTranslates ==
  Analysed /\ errs = << >> /\ InPlace =>
    \E t \in Translations(nodes) :
      /\ t.from[1] = 0 /\ t.to[1] = Len(instrs)
      /\ \A n \in DOMAIN nodes : Translates(nodes, instrs, t, n)
=============================================================================
