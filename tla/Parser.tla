------------------------------- MODULE Parser -------------------------------
(***************************************************************************)
(* The recursive-descent parser of src/parser.c, with its error recovery.  *)
(*                                                                         *)
(* The C call stack is the variable stack: an activation record is the     *)
(* node the function is building and the step it will execute next.  Every *)
(* parse function is an action; a call pushes a record, a return pops it   *)
(* and adds the finished node to its caller's node, which is the           *)
(* ast_add_child(tree, parse_x(ctx)) of the C code.                        *)
(*                                                                         *)
(* The scanner is the environment: lex() delivers any token at all, having *)
(* reported any number of lexical errors of its own, and after the end of  *)
(* the file delivers EOF for ever.  Locations are abstracted to their      *)
(* order: the next token, valid or not, is one place further.              *)
(***************************************************************************)
EXTENDS Ast

CONSTANTS Alphabet,    (* the tokens that the source file may hold         *)
          LexicalErrors, (* how many errors a call of lex() may report     *)
          MaxTokens,   (* bound: where the source ends at the latest       *)
          MaxErrors    (* bound: after more errors than that, the source   *)
                       (* ends                                             *)

ASSUME ParserAssumption ==
  /\ Alphabet \subseteq Lexeme
  /\ LexicalErrors \subseteq Nat /\ LexicalErrors # {}
  /\ MaxTokens \in Nat
  /\ MaxErrors \in Nat

VARIABLES tok,    (* ctx->tok, the lookahead token                         *)
          nodes,  (* the tree, as the heap of its nonterminal nodes        *)
          stack,  (* the activations of the parse functions, root first    *)
          errs    (* ctx->errs                                             *)

vars == <<tok, nodes, stack, errs>>

Error == [kind : {"INVALID_TOKEN", "UNEXPECTED_TOKEN"}, loc : Nat]

(* An activation of a parse function: the node it builds, the step it is at. *)
Activation == [node : Nat, step : Nat]

NoToken == [type |-> NULL, attr |-> NULL, loc |-> 0]

Eof == [type |-> "EOF", attr |-> NULL]

-----------------------------------------------------------------------------
(* The tokens that may follow, in front of a token at location at.          *)
Following(at, es) ==
  IF at >= MaxTokens \/ Len(es) > MaxErrors THEN {Eof} ELSE Alphabet \cup {Eof}

(***************************************************************************)
(* next_token, after the errors es: at the end of the file lex() returns   *)
(* EOF again and reports nothing.                                          *)
(***************************************************************************)
NextToken(es) ==
  \/ /\ tok.type = "EOF"
     /\ errs' = es
     /\ tok' = tok
  \/ /\ tok.type # "EOF"
     /\ \E bad \in LexicalErrors :
          /\ errs' = es \o [i \in 1..bad |-> [kind |-> "INVALID_TOKEN",
                                             loc |-> tok.loc + i]]
          /\ \E x \in Following(tok.loc + bad + 1, errs') :
               tok' = [type |-> x.type, attr |-> x.attr,
                       loc |-> tok.loc + bad + 1]

\* Mutant of Reported: the error is put at the head of the list.
ReportedFirst ==
  <<[kind |-> "UNEXPECTED_TOKEN", loc |-> tok.loc]>> \o errs

(* error_list_add(errs, error_make_unexpected_token(...)) *)
Reported == Append(errs, [kind |-> "UNEXPECTED_TOKEN", loc |-> tok.loc])

(* The activation that runs. *)
Top == Len(stack)
Tree == stack[Top].node
Step == stack[Top].step
In(nt) == stack # << >> /\ nodes[Tree].nt = nt

GoTo(k) == [stack EXCEPT ![Top] = [node |-> Tree, step |-> k]]

AcceptToken(types, k) ==
  /\ tok.type \in types
  /\ nodes' = AddChild(nodes, Tree, Terminal(tok))
  /\ stack' = GoTo(k)
  /\ NextToken(errs)

(* The token that error recovery invents, in the lookahead token's place,  *)
(* has a null symbol.                                                      *)
Invented(type) == [type |-> type, attr |-> NULL, loc |-> tok.loc]

\* Mutant of ReplaceToken: the error is reported, but nothing is added.
ReplaceTokenByNothing(type, k) ==
  /\ stack' = GoTo(k)
  /\ UNCHANGED nodes

ReplaceToken(type, k) ==
  /\ nodes' = AddChild(nodes, Tree, Terminal(Invented(type)))
  /\ stack' = GoTo(k)

\* Mutant of ExpectToken: the repair is not reported.
ExpectTokenSilently(types, default, k) ==
  \/ AcceptToken(types, k)
  \/ /\ tok.type \notin types
     /\ ReplaceToken(default, k)
     /\ UNCHANGED <<tok, errs>>

\* expect_token and expect_multiple_token
ExpectToken(types, default, k) ==
  \/ AcceptToken(types, k)
  \/ /\ tok.type \notin types
     /\ ReplaceToken(default, k)
     /\ errs' = Reported
     /\ UNCHANGED tok

\* Mutant of SkipToken: the loop continues without a report or a token.
SkipTokenStuck == UNCHANGED vars

(* Report the lookahead token and throw it away. *)
SkipToken ==
  /\ NextToken(Reported)
  /\ UNCHANGED <<nodes, stack>>

Call(nt, k) ==
  /\ nodes' = MakeNonterminal(nodes, nt)
  /\ stack' = Append(GoTo(k), [node |-> Len(nodes) + 1, step |-> 1])
  /\ UNCHANGED <<tok, errs>>

\* Mutant of Return: a node without children is not added to its parent.
ReturnDropsEmpty ==
  /\ stack' = SubSeq(stack, 1, Top - 1)
  /\ nodes' = IF Top = 1 \/ nodes[Tree].children = << >> THEN nodes
              ELSE AddChild(nodes, stack[Top - 1].node,
                            Subtree(nodes[Tree].nt, Tree))
  /\ UNCHANGED <<tok, errs>>

Return ==
  /\ stack' = SubSeq(stack, 1, Top - 1)
  /\ nodes' = IF Top = 1 THEN nodes
              ELSE AddChild(nodes, stack[Top - 1].node,
                            Subtree(nodes[Tree].nt, Tree))
  /\ UNCHANGED <<tok, errs>>

-----------------------------------------------------------------------------
(***************************************************************************)
(* The straight-line parse functions: what each expects or parses, in      *)
(* order.  RELOP stands for the comparison operators, the only place where *)
(* several types are expected; EQ is invented when none is found.          *)
(***************************************************************************)
SourceScript == <<"VAR", "variables", "BEGIN", "statements", "END">>
AssignScript == <<"IDENTIFIER", "ASSIGN", "expression", "SEMICOLON">>
\* Mutant of InputScript: the semicolon is not expected.
InputScriptNoSemicolon == <<"READ", "IDENTIFIER">>

InputScript == <<"READ", "IDENTIFIER", "SEMICOLON">>
OutputScript == <<"WRITE", "expression", "SEMICOLON">>
BranchScript == <<"IF", "LPAREN", "condition", "RPAREN", "BEGIN",
                  "statements", "ELSE", "statements", "END">>
LoopScript == <<"WHILE", "LPAREN", "condition", "RPAREN", "BEGIN",
                "statements", "END">>
RepeatScript == <<"REPEAT", "statements", "UNTIL", "LPAREN", "condition",
                  "RPAREN">>
ConditionScript == <<"expression", "RELOP", "expression">>

Script ==
  [source |-> SourceScript, assign |-> AssignScript, input |-> InputScript,
   output |-> OutputScript, branch |-> BranchScript, loop |-> LoopScript,
   repeat |-> RepeatScript, condition |-> ConditionScript]

Expected(x) == IF x = "RELOP" THEN RelOps ELSE {x}
\* Mutant of Default: all the expected types, as a mask, are invented.
DefaultMask(x) == x

Default(x) == IF x = "RELOP" THEN "EQ" ELSE x

ParseScript ==
  \E nt \in DOMAIN Script :
    /\ In(nt)
    /\ \/ /\ Step > Len(Script[nt])
          /\ Return
       \/ /\ Step <= Len(Script[nt])
          /\ LET x == Script[nt][Step]
             IN \/ x \in NonTerminals /\ Call(x, Step + 1)
                \/ x \notin NonTerminals
                   /\ ExpectToken(Expected(x), Default(x), Step + 1)

(* parse: read the first token, then parse_source *)
Parse ==
  /\ nodes = << >>
  /\ NextToken(errs)
  /\ nodes' = MakeNonterminal(nodes, "source")
  /\ stack' = <<[node |-> 1, step |-> 1]>>

Declaration == <<"IDENTIFIER", "COLON", "INT", "SEMICOLON">>

\* Mutant of ParseVariables: a missing identifier is invented.
ParseVariablesRepaired ==
  /\ In("variables")
  /\ \/ Step = 1 /\ tok.type \in {"EOF", "BEGIN"} /\ Return
     \/ /\ Step # 1 \/ tok.type \notin {"EOF", "BEGIN"}
        /\ ExpectToken({Declaration[Step]}, Declaration[Step], (Step % 4) + 1)

ParseVariables ==
  /\ In("variables")
  /\ \/ /\ Step = 1
        /\ \/ tok.type \in {"EOF", "BEGIN"} /\ Return
           \/ AcceptToken({"IDENTIFIER"}, 2)
           \/ tok.type \notin {"EOF", "BEGIN", "IDENTIFIER"} /\ SkipToken
     \/ /\ Step # 1
        /\ ExpectToken({Declaration[Step]}, Declaration[Step], (Step % 4) + 1)

Starters == {"IDENTIFIER", "READ", "WRITE", "IF", "WHILE", "REPEAT"}

StatementOf(type) ==
  CASE type = "IDENTIFIER" -> "assign" [] type = "READ"  -> "input"
    [] type = "WRITE"      -> "output" [] type = "IF"    -> "branch"
    [] type = "WHILE"      -> "loop"   [] type = "REPEAT" -> "repeat"

ParseStatements ==
  LET enders == {"EOF", "ELSE", "UNTIL", "END"}
  IN /\ In("statements")
     /\ \/ tok.type \in enders /\ Return
        \/ tok.type \in Starters /\ Call(StatementOf(tok.type), 1)
        \/ tok.type \notin enders \cup Starters /\ SkipToken

(* operand { operator operand } *)
ParseChain(nt, operand, operators) ==
  /\ In(nt)
  /\ \/ Step = 1 /\ Call(operand, 2)
     \/ Step = 2 /\ AcceptToken(operators, 1)
     \/ Step = 2 /\ tok.type \notin operators /\ Return

ParseExpression == ParseChain("expression", "term", {"PLUS", "MINUS"})

ParseTerm == ParseChain("term", "factor", {"MUL", "DIV"})

ParseFactor ==
  LET starters == {"LITERAL", "IDENTIFIER", "PLUS", "MINUS", "LPAREN"}
  IN /\ In("factor")
     /\ \/ /\ Step = 1
           /\ \/ AcceptToken({"LITERAL", "IDENTIFIER"}, 5)
              \/ AcceptToken({"PLUS", "MINUS"}, 2)
              \/ AcceptToken({"LPAREN"}, 3)
              \/ /\ tok.type \notin starters
                 /\ ReplaceToken("LITERAL", 5)
                 /\ NextToken(Reported)
        \/ Step = 2 /\ Call("factor", 5)
        \/ Step = 3 /\ Call("expression", 4)
        \/ Step = 4 /\ ExpectToken({"RPAREN"}, "RPAREN", 5)
        \/ Step = 5 /\ Return

(* parse has returned the tree. *)
Parsed == stack = << >> /\ nodes # << >>

Done == Parsed /\ UNCHANGED vars

-----------------------------------------------------------------------------
Init ==
  /\ tok = NoToken
  /\ nodes = << >>
  /\ stack = << >>
  /\ errs = << >>

Next ==
  \/ Parse
  \/ ParseScript
  \/ ParseVariables
  \/ ParseStatements
  \/ ParseExpression
  \/ ParseTerm
  \/ ParseFactor
  \/ Done

Spec == Init /\ [][Next]_vars

(* The parser is a sequential program: while it can step, it does. *)
FairSpec == Spec /\ WF_vars(Next)
=============================================================================
