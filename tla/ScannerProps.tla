---------------------------- MODULE ScannerProps ----------------------------
(***************************************************************************)
(* What the scanner promises to the parser and to the user.                *)
(***************************************************************************)
EXTENDS Scanner, FiniteSets

Location == [row : 0..(Sizes - 1), col : 0..(Sizes - 1)]

Characters == Chars \cup {"NUL", "EOF"}

Types == {w.type : w \in Reserved}
         \cup (TokenStates \ {"WORD", "SIGN", "OPERATOR", "PAREN"})
         \cup {"IDENTIFIER", "PLUS", "MINUS", "MUL", "DIV", "LPAREN", "RPAREN",
               "EOF", "INVALID"}

OutputItem ==
  [kind : {"token", "error"}, type : Types, text : Seq(Characters) \cup {TooLong},
   lit : Int, loc : Location, from : Nat, to : Nat]

(* Every variable has its type; the text fits its buffer (scanner.c:63).    *)
TypeOK ==
  /\ source \in Seq(Chars) /\ ended \in BOOLEAN
  /\ {lookahead, character} \subseteq Characters
  /\ {loc, text_loc} \subseteq Location
  /\ running \in BOOLEAN
  /\ state \in States
  /\ text \in Seq(Characters) /\ Len(text) <= TextSize
  /\ from \in Nat
  /\ out \in Seq(OutputItem)

(***************************************************************************)
(* The one-character lookahead neither loses nor repeats a character: what *)
(* is put out has its text exactly where it says, and each item begins     *)
(* behind the one before it.  An invalid token may be too long to be kept. *)
(***************************************************************************)
TextsInPlace ==
  /\ \A n \in DOMAIN out :
       out[n].type = "EOF" \/ out[n].text = TooLong
         \/ out[n].text = SubSeq(source, out[n].from, out[n].to)
  /\ \A m, n \in DOMAIN out : m < n =>
       out[m].to < out[n].from \/ out[m].type = "EOF"

-----------------------------------------------------------------------------
(***************************************************************************)
(* The tokens of a source, defined without an automaton: the longest       *)
(* lexeme that begins at a place is a token unless it clashes with the     *)
(* character behind it; then it is invalid, and so is everything up to the *)
(* next blank or comment.                                                  *)
(***************************************************************************)
IsWord(s, p, q) ==
  /\ s[p] \in Lower \cup Upper
  /\ \A r \in p..q : s[r] \in Lower \cup Upper \cup Digits

IsLiteral(s, p, q) ==
  LET first == IF s[p] \in {"+", "-"} THEN p + 1 ELSE p
  IN first <= q /\ \A r \in first..q : s[r] \in Digits

Signs == {"+", "-", "*", "/", "<", ">", ":", "="}
Separators == {"(", ")", ";"}

IsSymbol(s, p, q) ==
  SubSeq(s, p, q) \in {<<c>> : c \in Signs \cup Separators}
                      \cup {<<":", "=">>, <<"<", ">">>, <<"<", "=">>, <<">", "=">>}

(* Where the longest lexeme that begins at p ends, p - 1 if there is none.  *)
LexemeEnd(s, p) ==
  LET ends == {q \in p..Len(s) :
                 IsWord(s, p, q) \/ IsLiteral(s, p, q) \/ IsSymbol(s, p, q)}
  IN IF ends = {} THEN p - 1 ELSE CHOOSE q \in ends : \A r \in ends : r <= q

(* A lexeme from p to q and the character behind it. *)
Clash(s, p, q) ==
  /\ q < Len(s)
  /\ LET c == s[q + 1]
     IN \/ c \notin Lower \cup Upper \cup Digits \cup Blanks \cup Signs
                    \cup Separators \cup {"#"}
        \/ IsLiteral(s, p, q) /\ c \in Lower \cup Upper
        \/ IsWord(s, p, q) /\ c \in {"+", "-", "*", "/"}
        \/ IsSymbol(s, p, q) /\ s[q] \in Signs /\ c \in Signs

(* The first place from p on with one of the characters, or the end. *)
FirstOf(s, cs, p) ==
  LET at == {q \in p..Len(s) : s[q] \in cs}
  IN IF at = {} THEN Len(s) + 1 ELSE CHOOSE q \in at : \A r \in at : q <= r

(* The lexeme at p, valid or not, if there is one, and where to go on.      *)
LexemeAt(s, p) ==
  LET Found(ls, e) == [lexemes |-> ls, next |-> e]
      Span(q, ok) == <<[from |-> p, to |-> q, valid |-> ok]>>
      q == LexemeEnd(s, p)
      gap == FirstOf(s, Blanks \cup {"#"}, p)
  IN IF s[p] \in Blanks THEN Found(<< >>, p + 1)
     ELSE IF s[p] = "#" THEN Found(<< >>, FirstOf(s, {"#"}, p + 1) + 1)
     ELSE IF q < p \/ Clash(s, p, q) THEN Found(Span(gap - 1, FALSE), gap)
     ELSE IF q - p + 1 >= TextSize THEN Found(Span(q, FALSE), q + 2)
     ELSE Found(Span(q, TRUE), q + 1)

(* The lexemes from each place on, in order. *)
LexemesFrom(s) ==
  LET rest[p \in 1..(Len(s) + 2)] ==
        IF p > Len(s) THEN << >>
        ELSE LexemeAt(s, p).lexemes \o rest[LexemeAt(s, p).next]
  IN rest

Lexemes(s) == LexemesFrom(s)[1]

(***************************************************************************)
(* The scanner finds the lexemes of the source.  (A lexeme as long as the  *)
(* buffer takes the character behind it with it, whatever that is.)        *)
(***************************************************************************)
FindsTheLexemes ==
  (~running /\ ended /\ Eofs # {}) =>
    LET ls == Lexemes(source)
    IN /\ Eofs = (Len(ls) + 1)..Len(out)
       /\ \A n \in DOMAIN ls :
            out[n] = [out[n] EXCEPT !.from = ls[n].from, !.to = ls[n].to,
                        !.kind = IF ls[n].valid THEN "token" ELSE "error"]

(***************************************************************************)
(* Errors and tokens are shown at the row and the column of their first    *)
(* character, across blanks, comments and dropped characters, in numbers   *)
(* of the width of size_t.  (The cursor also counts the end of the file    *)
(* when it ends a comment or an error, and passes over the byte 255        *)
(* between two tokens without counting it: after an EOF nothing is said.)  *)
(***************************************************************************)
RowOf(s, p) == 1 + Cardinality({r \in 1..(p - 1) : s[r] = "NL"})

(* r is the newline that begins the row of p, or the beginning. *)
RowBegins(s, r, p) ==
  /\ r = 0 \/ s[r] = "NL"
  /\ \A q \in (r + 1)..(p - 1) : s[q] # "NL"

IsAt(s, l, p) ==
  /\ l.row = RowOf(s, p) % Sizes
  /\ \A r \in 0..(p - 1) : RowBegins(s, r, p) => l.col = (p - r) % Sizes

LocationsExact ==
  \A n \in DOMAIN out :
    (\A m \in 1..n : out[m].type # "EOF") => IsAt(source, out[n].loc, out[n].from)

(***************************************************************************)
(* A call of lex() returns, since a file has an end: no comment and no     *)
(* invalid text is waited for beyond it.                                   *)
(***************************************************************************)
LexReturns == running ~> ~running

-----------------------------------------------------------------------------
(***************************************************************************)
(* The scanner implements the stream of tokens that the parser is modelled *)
(* against: places ascend, and the end of the file is for ever.            *)
(***************************************************************************)
Delivered ==
  LET ts == {n \in DOMAIN out : out[n].kind = "token"}
      n == CHOOSE n \in ts : \A m \in ts : m <= n
  IN IF ts = {} THEN [type |-> "NONE", at |-> 0]
     ELSE [type |-> out[n].type, at |-> out[n].from]

ReportedAt == {out[n].from : n \in {m \in DOMAIN out : out[m].kind = "error"}}

Stream == INSTANCE TokenStream WITH token <- Delivered, errors <- ReportedAt

ImplementsTokenStream == Stream!Spec

-----------------------------------------------------------------------------
(***************************************************************************)
(* include/token.h:53 "The literal value": a literal has the value that is *)
(* written, if an int64_t can hold it.                                     *)
(***************************************************************************)
LiteralsExact ==
  \A n \in DOMAIN out :
    (out[n].type = "LITERAL" /\ Decimal(out[n].text) \in -LongMax..LongMax) =>
       out[n].lit = Decimal(out[n].text)

=============================================================================
