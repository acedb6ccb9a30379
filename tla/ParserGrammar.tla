--------------------------- MODULE ParserGrammar ---------------------------
(***************************************************************************)
(* The parser against the grammar of include/parser.h.  seen is a history  *)
(* of the token types that lex() delivered, the lookahead included.        *)
(***************************************************************************)
EXTENDS ParserProps

VARIABLE seen

CodeGrammar == INSTANCE Grammar WITH AssignSign <- "ASSIGN"

GrammarInit == Init /\ seen = << >>

GrammarNext ==
  /\ Next
  /\ seen' = IF tok' = tok THEN seen ELSE Append(seen, tok'.type)

GrammarSpec == GrammarInit /\ [][GrammarNext]_<<vars, seen>>

(* The tokens that the parser consumed, and those of the source as a whole. *)
Consumed == SubSeq(seen, 1, Len(seen) - 1)
WholeSource == IF tok.type = "EOF" THEN Consumed ELSE seen

(***************************************************************************)
(* The parse functions decide the grammar: a parse ends without an error   *)
(* exactly when the tokens it consumed are a program of the grammar (with  *)
(* ":=" as the assignment sign) and the scanner found no invalid token.    *)
(***************************************************************************)
ParsesTheGrammar ==
  Parsed => (errs = << >> <=> /\ tok.loc = Len(seen)
                              /\ CodeGrammar!Sentence(Consumed))

(***************************************************************************)
(* include/parser.h gives source = "var" variables "begin" statements      *)
(* "end" for the source code: what parses without an error would be the    *)
(* whole source, not a beginning of it.                                    *)
(***************************************************************************)
AcceptedSourceIsProgram ==
  (Parsed /\ errs = << >>) => CodeGrammar!Sentence(WholeSource)
=============================================================================
