------------------------------ MODULE Meaning ------------------------------
(***************************************************************************)
(* What a source program means, in terms of its tree: no code, no          *)
(* temporaries, no jumps.  One step per statement that is executed and per *)
(* condition that is decided.                                              *)
(*                                                                         *)
(* The rest of the execution is a sequence of statements.  A repeat stands *)
(* for its condition in it, behind the statements of its body; as          *)
(* examples/size.yog needs, the body is repeated while the condition holds.*)
(***************************************************************************)
EXTENDS Ast

CONSTANTS MaxInt, DivTraps, Garbage, Inputs

Int64 == (-MaxInt - 1)..MaxInt

VARIABLES nodes,   (* the program                                          *)
          parsed,  (* the number of errors in its text                     *)
          todo,    (* the rest of the execution                            *)
          value,   (* the values of the variables                          *)
          input, output,
          turn,    (* flips with every decision: a loop whose body is      *)
                   (* empty goes on without another change                 *)
          status

program == <<nodes, parsed>>
vars == <<nodes, parsed, todo, value, input, output, turn, status>>

-----------------------------------------------------------------------------
Kid(n, i) == nodes[n].children[i]

Identifiers(where) ==
  {c \in UNION {{nodes[n].children[i] : i \in DOMAIN nodes[n].children} :
                  n \in {m \in DOMAIN nodes : where = (nodes[m].nt = "variables")}} :
     c.type = "IDENTIFIER"}

(* Every variable is declared, and once. *)
WellDeclared ==
  /\ \A c, d \in Identifiers(TRUE) : c.attr = d.attr => c = d
  /\ \A c \in Identifiers(FALSE) : \E d \in Identifiers(TRUE) : c.attr = d.attr

Meaningful == parsed = 0 /\ WellDeclared

-----------------------------------------------------------------------------
(* The outcome of an expression: a number, or how the process ends. *)
Number(v) == [fault |-> "none", val |-> v]
Fault(f) == [fault |-> f, val |-> 0]

(* The number in 64 bits that is congruent to n. *)
Congruent(n) == CHOOSE v \in Int64 : (v - n) % (2 * MaxInt + 2) = 0

Size(n) == IF n < 0 THEN -n ELSE n

(* What is left over is smaller than the divisor, with the dividend's sign. *)
Truncated(l, r) ==
  CHOOSE q \in (-MaxInt - 1)..(MaxInt + 1) :
    LET rest == l - q * r IN Size(rest) < Size(r) /\ rest * l >= 0

Operation(op, l, r) ==
  CASE l.fault # "none" -> l
    [] l.fault = "none" /\ r.fault # "none" -> r
    [] l.fault = "none" /\ r.fault = "none" ->
         CASE op = "PLUS"  -> Number(Congruent(l.val + r.val))
           [] op = "MINUS" -> Number(Congruent(l.val - r.val))
           [] op = "MUL"   -> Number(Congruent(l.val * r.val))
           [] op = "DIV"   ->
                IF r.val = 0 THEN Fault("failed")
                ELSE IF Truncated(l.val, r.val) \notin Int64 /\ DivTraps
                     THEN Fault("trapped")
                     ELSE Number(Congruent(Truncated(l.val, r.val)))

Expressions == {n \in DOMAIN nodes : nodes[n].nt \in {"expression", "term", "factor"}}

(* The outcome of the expression, term or factor at address e. *)
Outcome(e) ==
  LET of[n \in Expressions] ==
        LET kids == nodes[n].children
            first == kids[1]
            upto[j \in 0..(Len(kids) \div 2)] ==
              IF j = 0 THEN of[first.at]
              ELSE LET before == upto[j - 1]
                   IN Operation(kids[2 * j].type, before, of[kids[2 * j + 1].at])
        IN CASE nodes[n].nt \in {"expression", "term"} -> upto[Len(kids) \div 2]
             [] nodes[n].nt = "factor" ->
                  CASE first.type = "LITERAL"    -> Number(first.attr)
                    [] first.type = "IDENTIFIER" -> Number(value[first.attr])
                    [] first.type = "LPAREN"     -> of[kids[2].at]
                    [] first.type \in {"PLUS", "MINUS"} ->
                         Operation(first.type, Number(0), of[kids[2].at])
  IN of[e]

(* The outcome of the condition at address c: 0 or 1. *)
Decision(c) ==
  LET l == Outcome(Kid(c, 1).at)
      r == Outcome(Kid(c, 3).at)
      holds == CASE Kid(c, 2).type = "EQ"  -> l.val = r.val
                 [] Kid(c, 2).type = "NEQ" -> l.val # r.val
                 [] Kid(c, 2).type = "LT"  -> l.val < r.val
                 [] Kid(c, 2).type = "LTE" -> l.val <= r.val
                 [] Kid(c, 2).type = "GT"  -> l.val > r.val
                 [] Kid(c, 2).type = "GTE" -> l.val >= r.val
  IN IF l.fault # "none" THEN l ELSE IF r.fault # "none" THEN r
     ELSE Number(IF holds THEN 1 ELSE 0)

-----------------------------------------------------------------------------
(* The statements to execute for the statement, or the body, at address s. *)
Unrolled(s) ==
  LET of[n \in DOMAIN nodes] ==
        LET kids == nodes[n].children
            upto[i \in 0..Len(kids)] ==
              IF i = 0 THEN << >>
              ELSE LET before == upto[i - 1] IN before \o of[kids[i].at]
        IN CASE nodes[n].nt = "statements" -> upto[Len(kids)]
             [] nodes[n].nt = "repeat"     -> Append(of[Kid(n, 2).at], n)
             [] OTHER                      -> <<n>>
  IN of[s]

Now == Head(todo)
Kind == nodes[Now].nt

(* The rest of the execution when the condition of a statement has been     *)
(* decided.                                                                 *)
Chosen(holds) ==
  CASE Kind = "branch" -> Unrolled(Kid(Now, IF holds THEN 6 ELSE 8).at) \o Tail(todo)
    [] Kind = "loop"   -> IF holds THEN Unrolled(Kid(Now, 6).at) \o todo ELSE Tail(todo)
    [] Kind = "repeat" -> IF holds THEN Unrolled(Now) \o Tail(todo) ELSE Tail(todo)

(* The place of the expression or of the condition of a statement. *)
Depends ==
  CASE Kind = "assign" -> Outcome(Kid(Now, 3).at)
    [] Kind = "output" -> Outcome(Kid(Now, 2).at)
    [] Kind \in {"branch", "loop"} -> Decision(Kid(Now, 3).at)
    [] Kind = "repeat" -> Decision(Kid(Now, 5).at)

At(kinds) == status = "running" /\ todo # << >> /\ Kind \in kinds
Decisions == {"branch", "loop", "repeat"}

-----------------------------------------------------------------------------
(* The file cannot be read. *)
Abandon ==
  /\ status = "ready" /\ status' = "abandoned"
  /\ UNCHANGED <<program, todo, value, input, output, turn>>

Refuse ==
  /\ status = "ready" /\ ~Meaningful
  /\ status' = "refused"
  /\ UNCHANGED <<program, todo, value, input, output, turn>>

Start ==
  /\ status = "ready" /\ Meaningful
  /\ status' = "running"
  /\ todo' = Unrolled(Kid(1, 4).at)
  /\ UNCHANGED <<program, value, input, output, turn>>

Assign ==
  /\ At({"assign"}) /\ Depends.fault = "none"
  /\ value' = [value EXCEPT ![Kid(Now, 1).attr] = Depends.val]
  /\ todo' = Tail(todo)
  /\ UNCHANGED <<program, input, output, turn, status>>

(* A number, or the nearest that fits; or none, now or from now on. *)
Input ==
  /\ At({"input"})
  /\ \/ /\ input = "open" /\ UNCHANGED input
        /\ \E n \in Inputs, v \in Int64 :
             /\ \A w \in Int64 : Size(n - v) <= Size(n - w)
             /\ value' = [value EXCEPT ![Kid(Now, 2).attr] = v]
     \/ input' \in {input, "stuck"} /\ UNCHANGED value
  /\ todo' = Tail(todo)
  /\ UNCHANGED <<program, output, turn, status>>

Output ==
  /\ At({"output"}) /\ Depends.fault = "none"
  /\ output' = [val |-> Depends.val, odd |-> ~output.odd]
  /\ todo' = Tail(todo)
  /\ UNCHANGED <<program, value, input, turn, status>>

Decide ==
  /\ At(Decisions) /\ Depends.fault = "none"
  /\ todo' = Chosen(Depends.val = 1)
  /\ turn' = ~turn
  /\ UNCHANGED <<program, value, input, output, status>>

(* A division by zero, or one that the machine cannot do. *)
Fail ==
  /\ At({"assign", "output"} \cup Decisions) /\ Depends.fault # "none"
  /\ status' = Depends.fault
  /\ UNCHANGED <<program, todo, value, input, output, turn>>

End ==
  /\ status = "running" /\ todo = << >>
  /\ status' = "finished"
  /\ UNCHANGED <<program, todo, value, input, output, turn>>

Init ==
  /\ nodes \in Seq(Node) /\ parsed \in Nat
  /\ todo = << >>
  /\ value \in [Names -> Garbage]
  /\ input = "open" /\ output = [val |-> 0, odd |-> FALSE]
  /\ turn = FALSE
  /\ status = "ready"

Next ==
  \/ Abandon \/ Refuse \/ Start
  \/ Assign \/ Input \/ Output \/ Decide \/ Fail \/ End

Over == {"abandoned", "refused", "failed", "trapped", "finished"}

Spec == Init /\ [][Next]_vars

(* An execution goes on for ever or until it is over. *)
Progress == []<>(status \in Over) \/ []<><<Next>>_vars
=============================================================================
