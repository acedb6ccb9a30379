------------------------------ MODULE Scanner ------------------------------
(***************************************************************************)
(* The scanner of src/scanner.c: a finite automaton that reads the source  *)
(* one character at a time, and a lookahead of one character between two   *)
(* calls of lex().                                                         *)
(*                                                                         *)
(* One action per way through the body of the loop.  The source is read    *)
(* lazily: fgetc() delivers any character of Chars, or the end.  Some      *)
(* characters have names: NL, TAB, CR and NUL, which is '\0'; 0xFF is the  *)
(* byte 255 and EOF what fgetc() returns at the end, both of which are -1  *)
(* in a char.                                                              *)
(***************************************************************************)
EXTENDS Integers, Sequences

CONSTANTS Chars,     (* the characters that the source may hold            *)
          TextSize,  (* TEXT_SIZE                                          *)
          IntMax,    (* the largest int, and the largest long, for atoi    *)
          LongMax,
          Sizes,     (* the number of values of a size_t                   *)
          MaxChars,  (* bound: the source ends there at the latest         *)
          MaxEofs    (* bound: calls that return EOF                       *)

Lower == {"a", "b", "c", "d", "e", "f", "g", "h", "i", "j", "k", "l", "m",
          "n", "o", "p", "q", "r", "s", "t", "u", "v", "w", "x", "y", "z"}
Upper == {"A", "B", "C", "D", "E", "F", "G", "H", "I", "J", "K", "L", "M",
          "N", "O", "P", "Q", "R", "S", "T", "U", "V", "W", "X", "Y", "Z"}
Digits == {"0", "1", "2", "3", "4", "5", "6", "7", "8", "9"}
Blanks == {" ", "TAB", "NL", "CR"}

ASSUME ScannerAssumption ==
  /\ "EOF" \notin Chars
  /\ TextSize \in Nat \ {0}
  /\ IntMax \in Nat /\ LongMax \in Nat /\ IntMax <= LongMax
  /\ Sizes \in Nat /\ Sizes > 1
  /\ MaxChars \in Nat /\ MaxEofs \in Nat

VARIABLES source,    (* the characters read so far                         *)
          ended,     (* whether fgetc() has found the end                  *)
          lookahead, (* ctx->lookahead                                     *)
          loc,       (* ctx->loc                                           *)
          running,   (* whether lex() runs, and its locals:                *)
          state, character, text, text_loc,
          from,      (* where in the source the text begins                *)
          out        (* the errors reported and the tokens returned, in    *)
                     (* order                                              *)

file == <<source, ended>>
vars == <<source, ended, lookahead, loc, running, state, character, text,
          text_loc, from, out>>

-----------------------------------------------------------------------------
(* identify_char *)
Class(c) ==
  CASE c \in Blanks        -> "WHITESPACE" [] c \in Digits     -> "DIGIT"
    [] c \in Lower \cup Upper -> "ALPHABETICAL"
    [] c \in {"+", "-"}    -> "SIGN"       [] c \in {"*", "/"} -> "OPERATOR"
    [] c = "<"             -> "LESS"       [] c = ">"          -> "GREATER"
    [] c = ":"             -> "COLON"      [] c = "="          -> "EQUAL"
    [] c = ";"             -> "SEMICOLON"  [] c \in {"(", ")"} -> "PAREN"
    [] c = "#"             -> "HASHTAG"    [] c = "EOF"        -> "EOF"
    [] OTHER               -> "UNKNOWN"

(* The states in which a token is read. *)
TokenStates == {"LITERAL", "WORD", "SIGN", "OPERATOR", "EQ", "NEQ", "LT",
                "LTE", "GT", "GTE", "COLON", "ASSIGN", "SEMICOLON", "PAREN"}
States == TokenStates \cup {"START", "COMMENT", "ERROR"}

(***************************************************************************)
(* next_state: the rows of Transition_Table.  A token goes on, is accepted *)
(* in front of the character, or turns out to be an error.                 *)
(***************************************************************************)
FromStart(k) ==
  CASE k = "WHITESPACE" -> "START"     [] k = "DIGIT"     -> "LITERAL"
    [] k = "SIGN"       -> "SIGN"      [] k = "OPERATOR"  -> "OPERATOR"
    [] k = "LESS"       -> "LT"        [] k = "GREATER"   -> "GT"
    [] k = "COLON"      -> "COLON"     [] k = "EQUAL"     -> "EQ"
    [] k = "SEMICOLON"  -> "SEMICOLON" [] k = "PAREN"     -> "PAREN"
    [] k = "HASHTAG"    -> "COMMENT"   [] k = "EOF"       -> "EOF"
    [] k = "ALPHABETICAL" -> "WORD"    [] k = "UNKNOWN"   -> "ERROR"

OperatorClasses == {"SIGN", "OPERATOR", "LESS", "GREATER", "COLON", "EQUAL"}

\* Mutant of Refused: a literal may be followed by a letter.
RefusedNoLetter(s) ==
  {"UNKNOWN"} \cup CASE s = "WORD" -> {"SIGN", "OPERATOR"}
                     [] s \in {"LITERAL", "SEMICOLON", "PAREN"} -> {}
                     [] OTHER -> OperatorClasses

Refused(s) ==
  {"UNKNOWN"} \cup CASE s = "LITERAL" -> {"ALPHABETICAL"}
                     [] s = "WORD"    -> {"SIGN", "OPERATOR"}
                     [] s \in {"SEMICOLON", "PAREN"} -> {}
                     [] OTHER -> OperatorClasses

FromToken(s, k) ==
  CASE s \in {"LITERAL", "SIGN"} /\ k = "DIGIT"         -> "LITERAL"
    [] s = "WORD" /\ k \in {"DIGIT", "ALPHABETICAL"}    -> "WORD"
    [] s = "LT" /\ k = "GREATER" -> "NEQ"    [] s = "LT" /\ k = "EQUAL" -> "LTE"
    [] s = "COLON" /\ k = "EQUAL" -> "ASSIGN" [] s = "GT" /\ k = "EQUAL" -> "GTE"
    [] OTHER -> IF k \in Refused(s) THEN "ERROR" ELSE "ACCEPT"

\* Mutant of NextState: a comment goes on behind the end of the file.
NextStateOpenComment(s, k) ==
  CASE s = "START"   -> FromStart(k)
    [] s = "COMMENT" -> IF k = "HASHTAG" THEN "START" ELSE "COMMENT"
    [] s = "ERROR"   -> CASE k = "WHITESPACE" -> "START"
                          [] k = "HASHTAG"    -> "COMMENT"
                          [] k = "EOF"        -> "ACCEPT"
                          [] OTHER            -> "ERROR"
    [] OTHER         -> FromToken(s, k)

NextState(s, k) ==
  CASE s = "START"   -> FromStart(k)
    [] s = "COMMENT" -> IF k \in {"HASHTAG", "EOF"} THEN "START" ELSE "COMMENT"
    [] s = "ERROR"   -> CASE k = "WHITESPACE" -> "START"
                          [] k = "HASHTAG"    -> "COMMENT"
                          [] k = "EOF"        -> "ACCEPT"
                          [] OTHER            -> "ERROR"
    [] OTHER         -> FromToken(s, k)

New == NextState(state, Class(character))

-----------------------------------------------------------------------------
(* fgetc(), into a char: the byte 255 becomes -1, as EOF is. *)
InChar(b) == IF b = "0xFF" THEN "EOF" ELSE b

Fgetc ==
  \/ /\ ended' = TRUE
     /\ character' = "EOF"
     /\ UNCHANGED source
  \/ /\ ~ended /\ Len(source) < MaxChars
     /\ \E b \in Chars : source' = Append(source, b) /\ character' = InChar(b)
     /\ UNCHANGED ended

Incremented(n) == (n + 1) % Sizes

\* Mutant of Moved: the first column of a row is 0.
MovedToZero(l, c) ==
  IF c = "NL" THEN [row |-> Incremented(l.row), col |-> 0]
  ELSE [l EXCEPT !.col = Incremented(@)]

(* update_cursor *)
Moved(l, c) ==
  IF c = "NL" THEN [row |-> Incremented(l.row), col |-> 1]
  ELSE [l EXCEPT !.col = Incremented(@)]

(* The digits of a text, as a number. *)
Decimal(t) ==
  LET value == [d \in Digits |->
                  CHOOSE n \in 0..9 : <<"0", "1", "2", "3", "4", "5", "6",
                                        "7", "8", "9">>[n + 1] = d]
      upto[n \in 0..Len(t)] ==
        IF n = 0 THEN 0
        ELSE LET before == upto[n - 1]
             IN IF t[n] \in Digits THEN 10 * before + value[t[n]] ELSE before
  IN IF t # << >> /\ t[1] = "-" THEN -upto[Len(t)] ELSE upto[Len(t)]

(***************************************************************************)
(* atoi: outside the range of int its result is undefined.  The C          *)
(* libraries either convert to long, which saturates, and keep the low     *)
(* bits, or saturate to int.                                               *)
(***************************************************************************)
Atoi(t) ==
  LET n == Decimal(t)
      sat(max) == IF n \in (-max - 1)..max THEN n
                  ELSE IF n > max THEN max ELSE -max - 1
      low(x) == ((x + IntMax + 1) % (2 * IntMax + 2)) - IntMax - 1
  IN IF n \in (-IntMax - 1)..IntMax THEN {n} ELSE {low(sat(LongMax)), sat(IntMax)}

Reserved ==
  {[type |-> "VAR",    text |-> <<"v", "a", "r">>],
   [type |-> "BEGIN",  text |-> <<"b", "e", "g", "i", "n">>],
   [type |-> "END",    text |-> <<"e", "n", "d">>],
   [type |-> "INT",    text |-> <<"i", "n", "t">>],
   [type |-> "READ",   text |-> <<"r", "e", "a", "d">>],
   [type |-> "WRITE",  text |-> <<"w", "r", "i", "t", "e">>],
   [type |-> "IF",     text |-> <<"i", "f">>],
   [type |-> "ELSE",   text |-> <<"e", "l", "s", "e">>],
   [type |-> "WHILE",  text |-> <<"w", "h", "i", "l", "e">>],
   [type |-> "REPEAT", text |-> <<"r", "e", "p", "e", "a", "t">>],
   [type |-> "UNTIL",  text |-> <<"u", "n", "t", "i", "l">>]}

(* The switch at the end of lex, and the make_token_ functions. *)
TypeOf(s, t) ==
  CASE s = "WORD" -> IF \E w \in Reserved : w.text = t
                     THEN (CHOOSE w \in Reserved : w.text = t).type
                     ELSE "IDENTIFIER"
    [] s \in {"SIGN", "OPERATOR"} -> CASE t[1] = "+" -> "PLUS"
                                       [] t[1] = "-" -> "MINUS"
                                       [] t[1] = "*" -> "MUL"
                                       [] OTHER      -> "DIV"
    [] s = "PAREN" -> IF t[1] = "(" THEN "LPAREN" ELSE "RPAREN"
    [] OTHER -> s

(* What lex() puts out; where it comes from, and the text it has there. *)
Item(kind, type, t, lit, l, first, last) ==
  [kind |-> kind, type |-> type, text |-> t, lit |-> lit, loc |-> l,
   from |-> first, to |-> last]

(* The place of the character: the last of the source, or behind it. *)
Here == IF ended THEN Len(source) + 1 ELSE Len(source)

-----------------------------------------------------------------------------
(* The calls that have returned EOF. *)
Eofs == {n \in DOMAIN out : out[n].type = "EOF"}

\* Mutant of Lex: the lookahead is not used up.
LexKeeping ==
  /\ ~running
  /\ \A n \in Eofs : Len(out) < n + MaxEofs - 1
  /\ running' = TRUE
  /\ state' = "START"
  /\ text' = << >>
  /\ \/ lookahead = "NUL" /\ Fgetc /\ UNCHANGED lookahead
     \/ /\ lookahead # "NUL"
        /\ character' = lookahead
        /\ UNCHANGED <<file, lookahead>>
  /\ UNCHANGED <<loc, text_loc, from, out>>

(* lex() is called. *)
Lex ==
  /\ ~running
  /\ \A n \in Eofs : Len(out) < n + MaxEofs - 1
  /\ running' = TRUE
  /\ state' = "START"
  /\ text' = << >>
  /\ \/ lookahead = "NUL" /\ Fgetc /\ UNCHANGED lookahead
     \/ /\ lookahead # "NUL"
        /\ character' = lookahead
        /\ lookahead' = "NUL"
        /\ UNCHANGED file
  /\ UNCHANGED <<loc, text_loc, from, out>>

\* Mutant of Enter: the character is stored whatever room there is.
EnterUnbounded(s, t) ==
  /\ state' = s
  /\ text' = IF s \notin {"START", "COMMENT"} THEN Append(t, character) ELSE t
  /\ loc' = Moved(loc, character)
  /\ Fgetc
  /\ UNCHANGED <<lookahead, running>>

(* The end of the loop: state = new_state, and the next character. *)
Enter(s, t) ==
  /\ state' = s
  /\ text' = IF s \notin {"START", "COMMENT"} /\ Len(t) < TextSize
             THEN Append(t, character) ELSE t
  /\ loc' = Moved(loc, character)
  /\ Fgetc
  /\ UNCHANGED <<lookahead, running>>

(* Blanks, comments, and the characters of a token or of an error. *)
Advance ==
  /\ running
  /\ New \notin {"ACCEPT", "EOF"}
  /\ state = "ERROR" => New = "ERROR"
  /\ Enter(New, text)
  /\ IF state = "START" /\ New # "START"
     THEN text_loc' = loc /\ from' = Here
     ELSE UNCHANGED <<text_loc, from>>
  /\ UNCHANGED out

(* report_lexical_error at the end of an invalid text *)
TooLong == <<"TOKEN TOO LONG">>

\* Mutant of ReportInvalid: the text is not cleared.
ReportInvalidKeeping ==
  /\ running /\ state = "ERROR" /\ New # "ERROR"
  /\ out' = Append(out, Item("error", "INVALID",
                             IF Len(text) < TextSize THEN text ELSE TooLong,
                             0, text_loc, from, Here - 1))
  /\ Enter(IF New = "COMMENT" THEN "COMMENT" ELSE "START", text)
  /\ UNCHANGED <<text_loc, from>>

ReportInvalid ==
  /\ running /\ state = "ERROR" /\ New # "ERROR"
  /\ out' = Append(out, Item("error", "INVALID",
                             IF Len(text) < TextSize THEN text ELSE TooLong,
                             0, text_loc, from, Here - 1))
  /\ Enter(IF New = "COMMENT" THEN "COMMENT" ELSE "START", << >>)
  /\ UNCHANGED <<text_loc, from>>

(* A token too long for the buffer.  The character behind it is dropped. *)
ReportTooLong ==
  /\ running /\ state \in TokenStates /\ New = "ACCEPT"
  /\ Len(text) = TextSize
  /\ out' = Append(out, Item("error", "INVALID", TooLong, 0, text_loc, from,
                             Here - 1))
  /\ Enter("START", << >>)
  /\ UNCHANGED <<text_loc, from>>

Deliver ==
  /\ running /\ state \in TokenStates /\ New = "ACCEPT"
  /\ Len(text) # TextSize
  /\ lookahead' = character
  /\ \E v \in IF state = "LITERAL" THEN Atoi(text) ELSE {0} :
       out' = Append(out, Item("token", TypeOf(state, text), text, v, text_loc,
                               from, Here - 1))
  /\ running' = FALSE
  /\ UNCHANGED <<file, loc, state, character, text, text_loc, from>>

DeliverEof ==
  /\ running /\ state = "START" /\ New = "EOF"
  /\ out' = Append(out, Item("token", "EOF", << >>, 0, loc, Here, Here))
  /\ running' = FALSE
  /\ UNCHANGED <<file, lookahead, loc, state, character, text, text_loc, from>>

(* The parser has what it wants. *)
Done == ~running /\ Eofs # {} /\ UNCHANGED vars

-----------------------------------------------------------------------------
(* lex_context_init, before the first call *)
Init ==
  /\ source = << >> /\ ended = FALSE
  /\ lookahead = "NUL"
  /\ loc = [row |-> 1, col |-> 1]
  /\ running = FALSE
  /\ state = "START" /\ character = "NUL" /\ text = << >>
  /\ text_loc = loc /\ from = 0
  /\ out = << >>

Loop == Advance \/ ReportInvalid \/ ReportTooLong \/ Deliver \/ DeliverEof

Next == Lex \/ Loop \/ Done

Spec == Init /\ [][Next]_vars

(* A call of lex() runs on until it returns; nothing has to be called. *)
FairSpec == Spec /\ WF_vars(Loop)
=============================================================================
