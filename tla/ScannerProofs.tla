--------------------------- MODULE ScannerProofs ---------------------------
(***************************************************************************)
(* Proofs about the scanner, for every set of characters, size of the      *)
(* buffer and range of numbers, and sources of any length.                 *)
(***************************************************************************)
EXTENDS ScannerProps, FiniteSetTheorems, SequenceTheorems, NaturalsInduction,
        WellFoundedInduction, TLAPS

(* The states in which a text is being read. *)
Reading == TokenStates \cup {"ERROR"}

(* The character of the loop is the one at the place Here. *)
CharacterRead(c) ==
  IF ended THEN c = "EOF"
  ELSE Len(source) >= 1 /\ c = InChar(source[Len(source)])

(* The text read so far, which the buffer holds unless it is full. *)
TextRead ==
  running =>
    /\ CharacterRead(character)
    /\ lookahead = "NUL"
    /\ state \notin Reading => text = << >>
    /\ state \in Reading =>
         /\ from \in 1..(Here - 1)
         /\ Len(text) < TextSize => text = SubSeq(source, from, Here - 1)

(* Between two calls the lookahead is the character behind the token. *)
LookaheadRead == (~running /\ lookahead # "NUL") => CharacterRead(lookahead)

(* The first place of which nothing has been put out. *)
Frontier == IF running /\ state \in Reading THEN from
            ELSE IF running \/ lookahead # "NUL" THEN Here
            ELSE Len(source) + 1

ItemInPlace(x) ==
  x.type = "EOF" \/
    /\ x.from \in 1..x.to /\ x.to < Frontier /\ x.to <= Len(source)
    /\ x.text = TooLong \/ x.text = SubSeq(source, x.from, x.to)

Ordered == \A m, n \in DOMAIN out :
             m < n => out[m].to < out[n].from \/ out[m].type = "EOF"

IInv ==
  /\ TypeOK
  /\ TextRead
  /\ LookaheadRead
  /\ \A n \in DOMAIN out : ItemInPlace(out[n])
  /\ Ordered
-----------------------------------------------------------------------------
(* The table of the automaton. *)
Classes == {"WHITESPACE", "DIGIT", "ALPHABETICAL", "SIGN", "OPERATOR", "LESS",
            "GREATER", "COLON", "EQUAL", "SEMICOLON", "PAREN", "HASHTAG",
            "EOF", "UNKNOWN"}

(* identify_char knows every character. *)
LEMMA ClassType == ASSUME NEW c PROVE Class(c) \in Classes
BY DEF Class, Classes

(* The two characters that have no glyph. *)
LEMMA ClassOfNamed ==
  /\ Class("EOF") = "EOF"
  /\ Class("NUL") = "UNKNOWN"
BY DEF Class, Blanks, Digits, Lower, Upper

(* Before a token the automaton begins one, or goes on. *)
LEMMA FromStartType ==
  ASSUME NEW k \in Classes
  PROVE  /\ FromStart(k) \in Reading \cup {"START", "COMMENT", "EOF"}
         /\ k = "EOF" => FromStart(k) = "EOF"
BY DEF FromStart, Classes, Reading, TokenStates

(* A character that is unknown is refused behind every token. *)
LEMMA RefusedUnknown == ASSUME NEW s PROVE "UNKNOWN" \in Refused(s)
BY DEF Refused

(* The end of the file is not. *)
LEMMA EofNotRefused == ASSUME NEW s PROVE "EOF" \notin Refused(s)
BY DEF Refused, OperatorClasses

(* Within a token the automaton goes on, accepts or refuses. *)
LEMMA FromTokenType ==
  ASSUME NEW s, NEW k \in Classes
  PROVE  /\ FromToken(s, k) \in Reading \cup {"ACCEPT"}
         /\ k = "EOF" => FromToken(s, k) = "ACCEPT"
         /\ k = "UNKNOWN" => FromToken(s, k) = "ERROR"
BY RefusedUnknown, EofNotRefused
   DEF FromToken, Classes, Reading, TokenStates

(* The states that next_state returns. *)
LEMMA NextStateType ==
  ASSUME NEW s \in States, NEW k \in Classes
  PROVE  /\ s = "START" => /\ NextState(s, k) \in Reading \cup {"START", "COMMENT", "EOF"}
                           /\ k = "EOF" => NextState(s, k) = "EOF"
         /\ s = "COMMENT" => NextState(s, k) \in {"START", "COMMENT"}
         /\ s = "ERROR" => /\ NextState(s, k) \in {"START", "COMMENT", "ACCEPT", "ERROR"}
                           /\ k = "EOF" => NextState(s, k) = "ACCEPT"
         /\ s \in TokenStates =>
              /\ NextState(s, k) \in Reading \cup {"ACCEPT"}
              /\ k = "EOF" => NextState(s, k) = "ACCEPT"
              /\ k = "UNKNOWN" => NextState(s, k) = "ERROR"
<1>1. CASE s = "START"
  BY <1>1, FromStartType DEF NextState, TokenStates
<1>2. CASE s = "COMMENT"
  BY <1>2 DEF NextState, TokenStates
<1>3. CASE s = "ERROR"
  BY <1>3 DEF NextState, TokenStates
<1>4. CASE s \in TokenStates
  <2>1. NextState(s, k) = FromToken(s, k)
    BY <1>4 DEF NextState, TokenStates
  <2> QED BY <1>4, <2>1, FromTokenType DEF TokenStates
<1> QED BY <1>1, <1>2, <1>3, <1>4 DEF States

(* What the automaton does with the character of the loop. *)
LEMMA NewState ==
  ASSUME state \in States
  PROVE  /\ state = "START" => /\ New \in Reading \cup {"START", "COMMENT", "EOF"}
                               /\ character = "EOF" => New = "EOF"
         /\ state = "COMMENT" => New \in {"START", "COMMENT"}
         /\ state = "ERROR" => /\ New \in {"START", "COMMENT", "ACCEPT", "ERROR"}
                               /\ character = "EOF" => New = "ACCEPT"
         /\ state \in TokenStates =>
              /\ New \in Reading \cup {"ACCEPT"}
              /\ character = "EOF" => New = "ACCEPT"
              /\ character = "NUL" => New = "ERROR"
<1>1. Class(character) \in Classes
  BY ClassType
<1> QED BY <1>1, NextStateType, ClassOfNamed DEF New
-----------------------------------------------------------------------------
(* Sequences. *)
LEMMA SubSeqStable ==
  ASSUME NEW S, NEW s \in Seq(S), NEW t \in Seq(S), NEW m \in Nat \ {0},
         NEW n \in Int, n <= Len(s), Len(s) <= Len(t),
         \A p \in 1..Len(s) : t[p] = s[p]
  PROVE  SubSeq(t, m, n) = SubSeq(s, m, n)
<1>1. Len(s) \in Nat /\ Len(t) \in Nat
  BY LenProperties
<1>2. \A p \in m..n : s[p] \in S /\ t[p] \in S /\ t[p] = s[p]
  BY <1>1, ElementOfSeq
<1>3. /\ SubSeq(s, m, n) \in Seq(S)
      /\ Len(SubSeq(s, m, n)) = IF m <= n THEN n - m + 1 ELSE 0
      /\ \A i \in 1..(n - m + 1) : SubSeq(s, m, n)[i] = s[m + i - 1]
  BY <1>2, SubSeqProperties
<1>4. /\ SubSeq(t, m, n) \in Seq(S)
      /\ Len(SubSeq(t, m, n)) = IF m <= n THEN n - m + 1 ELSE 0
      /\ \A i \in 1..(n - m + 1) : SubSeq(t, m, n)[i] = t[m + i - 1]
  BY <1>2, SubSeqProperties
<1>5. \A i \in 1..(n - m + 1) : m + i - 1 \in m..n
  OBVIOUS
<1>6. \A i \in 1..Len(SubSeq(s, m, n)) : SubSeq(s, m, n)[i] = SubSeq(t, m, n)[i]
  BY <1>2, <1>3, <1>4, <1>5
<1> QED BY <1>3, <1>4, <1>6, SeqEqual

(* A part of the source that is one character longer. *)
LEMMA SubSeqOnward ==
  ASSUME NEW S, NEW s \in Seq(S), NEW m \in Nat \ {0}, NEW n \in Nat,
         m <= n + 1, n + 1 <= Len(s)
  PROVE  SubSeq(s, m, n + 1) = Append(SubSeq(s, m, n), s[n + 1])
<1>1. Len(s) \in Nat
  BY LenProperties
<1>2. \A p \in m..(n + 1) : s[p] \in S
  BY <1>1, ElementOfSeq
<1>3. /\ SubSeq(s, m, n) \in Seq(S)
      /\ Len(SubSeq(s, m, n)) = n - m + 1
      /\ \A i \in 1..(n - m + 1) : SubSeq(s, m, n)[i] = s[m + i - 1]
  <2>1. \A p \in m..n : s[p] \in S
    BY <1>2
  <2> QED BY <2>1, SubSeqProperties
<1>4. /\ SubSeq(s, m, n + 1) \in Seq(S)
      /\ Len(SubSeq(s, m, n + 1)) = n - m + 2
      /\ \A i \in 1..(n - m + 2) : SubSeq(s, m, n + 1)[i] = s[m + i - 1]
  <2>1. \A i \in 1..((n + 1) - m + 1) : SubSeq(s, m, n + 1)[i] = s[m + i - 1]
    BY <1>2, SubSeqProperties
  <2>2. (n + 1) - m + 1 = n - m + 2
    OBVIOUS
  <2> QED BY <1>2, <2>1, <2>2, SubSeqProperties
<1>5. s[n + 1] \in S
  BY <1>2
<1> DEFINE t == Append(SubSeq(s, m, n), s[n + 1])
<1>6. /\ t \in Seq(S)
      /\ Len(t) = n - m + 2
      /\ \A i \in 1..(n - m + 1) : t[i] = SubSeq(s, m, n)[i]
      /\ t[n - m + 2] = s[n + 1]
  BY <1>3, <1>5, AppendProperties
<1>7. \A i \in 1..(n - m + 2) : SubSeq(s, m, n + 1)[i] = t[i]
  <2> TAKE i \in 1..(n - m + 2)
  <2>1. CASE i = n - m + 2
    BY <1>4, <1>6, <2>1
  <2>2. CASE i \in 1..(n - m + 1)
    BY <1>3, <1>4, <1>6, <2>2
  <2> QED BY <2>1, <2>2
<1> HIDE DEF t
<1>8. SubSeq(s, m, n + 1) = t
  BY <1>4, <1>6, <1>7, SeqEqual
<1> QED BY <1>8 DEF t

-----------------------------------------------------------------------------
(* The file. *)
Grown ==
  /\ source' \in Seq(Chars)
  /\ Len(source) \in Nat /\ Len(source') \in Nat
  /\ Len(source) <= Len(source')
  /\ \A p \in 1..Len(source) : source'[p] = source[p]

(* The place of the character is the last one read, or behind it. *)
LEMMA HereType ==
  ASSUME source \in Seq(Chars), ended \in BOOLEAN
  PROVE  Len(source) \in Nat /\ Here \in {Len(source), Len(source) + 1}
BY LenProperties DEF Here

(* fgetc() delivers the character at the place that follows. *)
LEMMA FgetcStep ==
  ASSUME source \in Seq(Chars), ended \in BOOLEAN, Fgetc
  PROVE  /\ ended' \in BOOLEAN
         /\ Grown
         /\ character' \in Characters
         /\ CharacterRead(character)'
         /\ Here' = Len(source) + 1
<1>1. Len(source) \in Nat
  BY LenProperties
<1>2. CASE ended' = TRUE /\ character' = "EOF" /\ UNCHANGED source
  BY <1>1, <1>2 DEF Grown, CharacterRead, Here, Characters
<1>3. ASSUME ~ended, UNCHANGED ended, NEW b \in Chars,
             source' = Append(source, b), character' = InChar(b)
      PROVE  /\ Grown
             /\ character' \in Characters
             /\ CharacterRead(character)'
             /\ Here' = Len(source) + 1
  <2>1. /\ source' \in Seq(Chars)
        /\ Len(source') = Len(source) + 1
        /\ \A p \in 1..Len(source) : source'[p] = source[p]
        /\ source'[Len(source) + 1] = b
    BY <1>3, AppendProperties
  <2>2. Grown
    BY <1>1, <2>1 DEF Grown
  <2>3. source'[Len(source')] = b
    BY <2>1
  <2>4. CharacterRead(character)'
    BY <1>1, <1>3, <2>1, <2>3 DEF CharacterRead
  <2>5. Here' = Len(source) + 1
    BY <1>3, <2>1 DEF Here
  <2> QED BY <1>3, <2>2, <2>4, <2>5 DEF InChar, Characters
<1> QED BY <1>2, <1>3 DEF Fgetc

(* Nothing is read. *)
LEMMA Unread ==
  ASSUME source \in Seq(Chars), UNCHANGED file
  PROVE  Grown /\ Here' = Here
BY LenProperties DEF Grown, Here, file

(* A character that is not the end is the last of the source. *)
LEMMA LastCharacter ==
  ASSUME source \in Seq(Chars), ended \in BOOLEAN,
         NEW c, c # "EOF", CharacterRead(c)
  PROVE  ~ended /\ Here = Len(source) /\ Here \in Nat \ {0} /\ c = source[Here]
<1>1. ~ended /\ Here = Len(source) /\ c = InChar(source[Here])
  BY DEF CharacterRead, Here
<1>2. Here \in Nat \ {0}
  BY <1>1, LenProperties DEF CharacterRead
<1> QED BY <1>1, <1>2 DEF InChar
-----------------------------------------------------------------------------
(* The items put out stay in place, and a new one goes behind them. *)
LEMMA FrontierType ==
  ASSUME TypeOK
  PROVE  Frontier \in Nat /\ Here \in Nat
BY HereType DEF TypeOK, Frontier

(* What was put out stays in place while the scanner reads on. *)
LEMMA ItemStays ==
  ASSUME TypeOK, Grown, Frontier' \in Nat, Frontier <= Frontier',
         NEW x \in OutputItem, ItemInPlace(x)
  PROVE  ItemInPlace(x)'
<1>1. CASE x.type = "EOF"
  BY <1>1 DEF ItemInPlace
<1>2. CASE x.type # "EOF"
  <2>1. x.from \in Nat /\ x.to \in Nat /\ Frontier \in Nat
    BY FrontierType DEF OutputItem
  <2>2. x.from \in 1..x.to /\ x.to < Frontier /\ x.to <= Len(source)
    BY <1>2 DEF ItemInPlace
  <2>3. x.to < Frontier' /\ x.to <= Len(source')
    BY <2>1, <2>2 DEF Grown
  <2>4. SubSeq(source', x.from, x.to) = SubSeq(source, x.from, x.to)
    <3>1. source \in Seq(Chars) /\ source' \in Seq(Chars)
      BY DEF TypeOK, Grown
    <3>2. x.from \in Nat \ {0} /\ x.to \in Int
      BY <2>1, <2>2
    <3> QED BY <2>2, <3>1, <3>2, SubSeqStable DEF Grown
  <2> QED BY <1>2, <2>2, <2>3, <2>4 DEF ItemInPlace
<1> QED BY <1>1, <1>2

(* Nothing is put out. *)
LEMMA OutputStays ==
  ASSUME IInv, Grown, Frontier' \in Nat, Frontier <= Frontier', UNCHANGED out
  PROVE  (\A n \in DOMAIN out : ItemInPlace(out[n]))' /\ Ordered'
<1>1. \A n \in DOMAIN out : out[n] \in OutputItem
  BY LenProperties, ElementOfSeq DEF IInv, TypeOK
<1>2. \A n \in DOMAIN out : ItemInPlace(out[n])'
  BY <1>1, ItemStays DEF IInv
<1>3. (\A n \in DOMAIN out : ItemInPlace(out[n]))'
  BY <1>2 DEF ItemInPlace
<1> QED BY <1>3 DEF IInv, Ordered

(* Something is. *)
LEMMA OutputGrows ==
  ASSUME IInv, Grown, Frontier' \in Nat, Frontier <= Frontier',
         NEW x \in OutputItem, out' = Append(out, x),
         Frontier <= x.from, ItemInPlace(x)'
  PROVE  /\ out' \in Seq(OutputItem)
         /\ (\A n \in DOMAIN out : ItemInPlace(out[n]))'
         /\ Ordered'
<1>1. out \in Seq(OutputItem) /\ Len(out) \in Nat /\ DOMAIN out = 1..Len(out)
  BY LenProperties DEF IInv, TypeOK
<1>2. /\ out' \in Seq(OutputItem)
      /\ Len(out') = Len(out) + 1
      /\ \A n \in 1..Len(out) : out'[n] = out[n]
      /\ out'[Len(out) + 1] = x
  BY <1>1, AppendProperties
<1>3. DOMAIN out' = 1..(Len(out) + 1)
  BY <1>2, LenProperties
<1>4. \A n \in 1..Len(out) : out[n] \in OutputItem
  BY <1>1, ElementOfSeq
<1>5. \A n \in 1..Len(out) : ItemInPlace(out[n])'
  BY <1>1, <1>4, ItemStays DEF IInv
<1>6. (\A n \in DOMAIN out : ItemInPlace(out[n]))'
  <2>1. ASSUME NEW n \in DOMAIN out' PROVE ItemInPlace(out[n])'
    <3>1. CASE n = Len(out) + 1
      BY <1>2, <3>1 DEF ItemInPlace
    <3>2. CASE n \in 1..Len(out)
      BY <1>2, <1>5, <3>2 DEF ItemInPlace
    <3> QED BY <1>1, <1>3, <2>1, <3>1, <3>2
  <2> QED BY <2>1
<1>7. \A n \in 1..Len(out) : out[n].type = "EOF" \/ out[n].to < x.from
  <2> TAKE n \in 1..Len(out)
  <2>1. out[n].type = "EOF" \/ out[n].to < Frontier
    BY <1>1 DEF IInv, ItemInPlace
  <2>2. out[n].to \in Nat /\ x.from \in Nat /\ Frontier \in Nat
    BY <1>4, FrontierType DEF OutputItem, IInv
  <2> QED BY <2>1, <2>2
<1>8. Ordered'
  <2>1. ASSUME NEW m \in DOMAIN out', NEW n \in DOMAIN out', m < n
        PROVE  out'[m].to < out'[n].from \/ out'[m].type = "EOF"
    <3>0. m \in 1..Len(out)
      BY <1>1, <1>3, <2>1
    <3>1. CASE n = Len(out) + 1
      BY <1>2, <1>7, <3>0, <3>1
    <3>2. CASE n \in 1..Len(out)
      BY <1>1, <1>2, <2>1, <3>0, <3>2 DEF IInv, Ordered
    <3> QED BY <1>1, <1>3, <2>1, <3>1, <3>2
  <2> QED BY <2>1 DEF Ordered
<1> QED BY <1>2, <1>6, <1>8

-----------------------------------------------------------------------------
(* The types of what is put out. *)
LEMMA AtoiType == ASSUME NEW t PROVE Atoi(t) \subseteq Int
<1> DEFINE n == Decimal(t)
           sat(max) == IF n \in (-max - 1)..max THEN n
                       ELSE IF n > max THEN max ELSE -max - 1
           low(x) == ((x + IntMax + 1) % (2 * IntMax + 2)) - IntMax - 1
<1>1. \A max \in Nat : sat(max) \in Int
  OBVIOUS
<1>2. IntMax \in Nat /\ LongMax \in Nat
  BY ScannerAssumption
<1>3. \A x \in Int : low(x) \in Int
  <2> TAKE x \in Int
  <2>1. x + IntMax + 1 \in Int /\ 2 * IntMax + 2 \in Nat \ {0}
    BY <1>2
  <2>2. (x + IntMax + 1) % (2 * IntMax + 2) \in Int
    BY <2>1
  <2> QED BY <1>2, <2>2
<1> HIDE DEF n, sat, low
<1>4. {low(sat(LongMax)), sat(IntMax)} \subseteq Int
  BY <1>1, <1>2, <1>3
<1> USE DEF n, sat, low
<1> QED BY <1>4, <1>2 DEF Atoi

(* Every token has a type. *)
LEMMA TypeOfType ==
  ASSUME NEW s \in TokenStates, NEW t
  PROVE  TypeOf(s, t) \in Types
<1>1. CASE s = "WORD"
  <2>1. CASE \E w \in Reserved : w.text = t
    <3>1. (CHOOSE w \in Reserved : w.text = t) \in Reserved
      BY <2>1
    <3> QED BY <1>1, <2>1, <3>1 DEF TypeOf, Types
  <2>2. CASE ~\E w \in Reserved : w.text = t
    BY <1>1, <2>2 DEF TypeOf, Types
  <2> QED BY <2>1, <2>2
<1>2. CASE s # "WORD"
  BY <1>2 DEF TypeOf, Types, TokenStates
<1> QED BY <1>1, <1>2

(* The item of the text that has been read. *)
LEMMA ItemOfText ==
  ASSUME IInv, running, state \in Reading,
         NEW kind \in {"token", "error"}, NEW type \in Types, NEW t,
         NEW lit \in Int,
         \/ t = text /\ Len(text) < TextSize
         \/ t = TooLong
  PROVE  LET x == Item(kind, type, t, lit, text_loc, from, Here - 1)
         IN /\ x \in OutputItem
            /\ x.from = Frontier
            /\ \A y : (Frontier' \in Nat /\ y = x /\ Grown /\ Here <= Frontier')
                      => ItemInPlace(y)'
<1> DEFINE x == Item(kind, type, t, lit, text_loc, from, Here - 1)
<1>1. from \in 1..(Here - 1) /\ Here \in Nat /\ Here - 1 <= Len(source)
      /\ Len(source) \in Nat /\ source \in Seq(Chars)
  BY HereType DEF IInv, TextRead, TypeOK
<1>2. t \in Seq(Characters) \cup {TooLong}
  BY DEF IInv, TypeOK
<1>3. x \in OutputItem
  BY <1>1, <1>2 DEF Item, OutputItem, IInv, TypeOK
<1>4. x.from = Frontier /\ x.from = from /\ x.to = Here - 1 /\ x.text = t
  BY DEF Item, Frontier
<1>5. t = TooLong \/ t = SubSeq(source, from, Here - 1)
  BY DEF IInv, TextRead
<1>6. ASSUME Grown
      PROVE  SubSeq(source', from, Here - 1) = SubSeq(source, from, Here - 1)
  <2>1. from \in Nat \ {0} /\ Here - 1 \in Int
    BY <1>1
  <2> QED BY <1>1, <1>6, <2>1, SubSeqStable DEF Grown
<1> HIDE DEF x
<1>7. ASSUME NEW y, Frontier' \in Nat, y = x, Grown, Here <= Frontier'
      PROVE  ItemInPlace(y)'
  <2>1. y.from = from /\ y.to = Here - 1 /\ y.text = t
    BY <1>4, <1>7
  <2>2. y.to < Frontier' /\ y.to <= Len(source') /\ y.from \in 1..y.to
    BY <1>1, <1>7, <2>1 DEF Grown
  <2>3. y.text = TooLong \/ y.text = SubSeq(source', y.from, y.to)
    BY <1>5, <1>6, <1>7, <2>1
  <2> QED BY <2>2, <2>3 DEF ItemInPlace
<1>8. \A y : (Frontier' \in Nat /\ y = x /\ Grown /\ Here <= Frontier') => ItemInPlace(y)'
  BY <1>7
<1> QED BY <1>3, <1>4, <1>8 DEF x
-----------------------------------------------------------------------------
(* The end of the loop. *)
LEMMA MovedType ==
  ASSUME NEW l \in Location, NEW c
  PROVE  Moved(l, c) \in Location
<1>1. \A n \in Nat : Incremented(n) \in 0..(Sizes - 1)
  BY ScannerAssumption DEF Incremented
<1>2. 1 \in 0..(Sizes - 1)
  BY ScannerAssumption
<1>3. l.row \in Nat /\ l.col \in Nat
  BY ScannerAssumption DEF Location
<1> QED BY <1>1, <1>2, <1>3 DEF Moved, Location

(* The text after the character of the loop. *)
LEMMA TextGrows ==
  ASSUME TypeOK, NEW t \in Seq(Characters), Len(t) <= TextSize,
         NEW u, u = (IF Len(t) < TextSize THEN Append(t, character) ELSE t)
  PROVE  /\ u \in Seq(Characters) /\ Len(u) <= TextSize
         /\ Len(u) < TextSize => /\ Len(t) < TextSize
                                 /\ u = Append(t, character)
<1>1. Len(t) \in Nat /\ TextSize \in Nat /\ character \in Characters
  BY LenProperties, ScannerAssumption DEF TypeOK
<1>2. CASE Len(t) < TextSize
  <2>1. Append(t, character) \in Seq(Characters)
        /\ Len(Append(t, character)) = Len(t) + 1
    BY <1>1, AppendProperties
  <2> QED BY <1>1, <1>2, <2>1
<1>3. CASE ~(Len(t) < TextSize)
  BY <1>1, <1>3
<1> QED BY <1>2, <1>3

(* The end of the loop reads a character and keeps the text in its buffer. *)
LEMMA EnterStep ==
  ASSUME TypeOK, NEW s \in States, NEW t \in Seq(Characters),
         Len(t) <= TextSize, Enter(s, t)
  PROVE  /\ ended' \in BOOLEAN
         /\ Grown
         /\ character' \in Characters
         /\ CharacterRead(character)'
         /\ Here' = Len(source) + 1
         /\ loc' \in Location
         /\ text' \in Seq(Characters) /\ Len(text') <= TextSize
         /\ state' = s /\ UNCHANGED <<lookahead, running>>
         /\ s \notin Reading => text' = t
         /\ (s \in Reading /\ Len(text') < TextSize) =>
               Len(t) < TextSize /\ text' = Append(t, character)
<1>1. /\ state' = s
      /\ text' = IF s \notin {"START", "COMMENT"} /\ Len(t) < TextSize
                 THEN Append(t, character) ELSE t
      /\ loc' = Moved(loc, character)
      /\ Fgetc
      /\ UNCHANGED <<lookahead, running>>
  BY DEF Enter
<1>2. /\ ended' \in BOOLEAN
      /\ Grown
      /\ character' \in Characters
      /\ CharacterRead(character)'
      /\ Here' = Len(source) + 1
  BY <1>1, FgetcStep DEF TypeOK
<1>3. loc' \in Location
  BY <1>1, MovedType DEF TypeOK
<1>4. CASE s \in Reading
  <2>1. text' = IF Len(t) < TextSize THEN Append(t, character) ELSE t
    BY <1>1, <1>4 DEF Reading, TokenStates
  <2>2. /\ text' \in Seq(Characters) /\ Len(text') <= TextSize
        /\ Len(text') < TextSize => Len(t) < TextSize /\ text' = Append(t, character)
    BY <2>1, TextGrows
  <2> QED BY <1>1, <1>2, <1>3, <1>4, <2>2
<1>5. CASE s \notin Reading
  <2>1. text' = t
    BY <1>1, <1>5 DEF Reading, States
  <2> QED BY <1>1, <1>2, <1>3, <1>5, <2>1
<1> QED BY <1>4, <1>5

-----------------------------------------------------------------------------
(* One lemma for each action. *)
LEMMA LexStep == ASSUME IInv, Lex PROVE IInv'
<1>1. TypeOK /\ ~running /\ source \in Seq(Chars) /\ ended \in BOOLEAN
  BY DEF IInv, Lex, TypeOK
<1>2. /\ running' = TRUE /\ state' = "START" /\ text' = << >>
      /\ UNCHANGED <<loc, text_loc, from, out>>
  BY DEF Lex
<1>3. /\ Grown /\ ended' \in BOOLEAN
      /\ character' \in Characters /\ lookahead' = "NUL"
      /\ CharacterRead(character)' /\ Frontier <= Here' /\ Here' \in Nat
  <2>1. CASE lookahead = "NUL"
    <3>1. Fgetc /\ lookahead' = "NUL"
      BY <2>1 DEF Lex
    <3>2. Frontier = Len(source) + 1 /\ Len(source) \in Nat
      BY <1>1, <2>1, LenProperties DEF Frontier
    <3> QED BY <1>1, <3>1, <3>2, FgetcStep
  <2>2. CASE lookahead # "NUL"
    <3>1. character' = lookahead /\ lookahead' = "NUL" /\ UNCHANGED file
      BY <2>2 DEF Lex
    <3>2. Frontier = Here
      BY <1>1, <2>2 DEF Frontier
    <3>3. CharacterRead(lookahead)
      BY <1>1, <2>2 DEF IInv, LookaheadRead
    <3>4. CharacterRead(character)'
      BY <3>1, <3>3 DEF CharacterRead, file
    <3>5. Here \in Nat
      BY <1>1, FrontierType
    <3> QED BY <1>1, <3>1, <3>2, <3>4, <3>5, Unread DEF file, TypeOK
  <2> QED BY <2>1, <2>2
<1>4. Frontier' = Here'
  BY <1>2 DEF Frontier, Reading, TokenStates
<1>5. TypeOK'
  <2>1. << >> \in Seq(Characters) /\ Len(<< >>) = 0
    BY EmptySeq
  <2> QED BY <1>1, <1>2, <1>3, <2>1, ScannerAssumption
          DEF TypeOK, Grown, Characters, States
<1>6. TextRead'
  BY <1>2, <1>3 DEF TextRead, Reading, TokenStates
<1>7. LookaheadRead'
  BY <1>2 DEF LookaheadRead
<1>8. (\A n \in DOMAIN out : ItemInPlace(out[n]))' /\ Ordered'
  BY <1>2, <1>3, <1>4, OutputStays
<1> QED BY <1>5, <1>6, <1>7, <1>8 DEF IInv

(* A character of a token, of an error, or between them. *)
LEMMA AdvanceStep == ASSUME IInv, Advance PROVE IInv'
<1> DEFINE begin == IF state = "START" THEN Here ELSE from
<1>1. /\ TypeOK /\ running /\ state \in States /\ lookahead = "NUL"
      /\ CharacterRead(character)
      /\ source \in Seq(Chars) /\ ended \in BOOLEAN
      /\ text \in Seq(Characters) /\ Len(text) <= TextSize
  BY DEF IInv, TypeOK, TextRead, Advance
<1>2. /\ New \in States
      /\ state \in Reading => New \in Reading
      /\ New \in Reading => character # "EOF" /\ state # "COMMENT"
  BY <1>1, NewState DEF Advance, States, Reading, TokenStates
<1>3. /\ ended' \in BOOLEAN /\ Grown
      /\ character' \in Characters /\ CharacterRead(character)'
      /\ Here' = Len(source) + 1
      /\ loc' \in Location
      /\ text' \in Seq(Characters) /\ Len(text') <= TextSize
      /\ state' = New /\ UNCHANGED <<lookahead, running>>
      /\ New \notin Reading => text' = text
      /\ (New \in Reading /\ Len(text') < TextSize) =>
           Len(text) < TextSize /\ text' = Append(text, character)
  BY <1>1, <1>2, EnterStep DEF Advance
<1>4. /\ UNCHANGED out
      /\ state = "START" /\ New # "START" => text_loc' = loc /\ from' = Here
      /\ ~(state = "START" /\ New # "START") => UNCHANGED <<text_loc, from>>
  BY DEF Advance
<1>5. Here \in Nat /\ Len(source) \in Nat /\ Here \in {Len(source), Len(source) + 1}
      /\ from \in Nat
  BY <1>1, HereType DEF TypeOK
<1>6. TypeOK'
  <2>1. text_loc' \in Location /\ from' \in Nat
    BY <1>1, <1>4, <1>5 DEF TypeOK
  <2> QED BY <1>1, <1>2, <1>3, <1>4, <2>1 DEF TypeOK, Grown
<1>7. New \notin Reading => text' = << >>
  BY <1>1, <1>2, <1>3 DEF IInv, TextRead
<1>8. ASSUME New \in Reading
      PROVE  /\ from' = begin /\ from' \in 1..(Here' - 1)
             /\ Len(text') < TextSize =>
                  text' = SubSeq(source', from', Here' - 1)
  <2>1. /\ ~ended /\ Here = Len(source) /\ Here \in Nat \ {0}
        /\ character = source[Here]
    BY <1>1, <1>2, <1>8, LastCharacter
  <2>2. from' = begin
    BY <1>2, <1>4, <1>8 DEF Reading, TokenStates
  <2>3. begin \in 1..Here /\ (Len(text) < TextSize => text = SubSeq(source, begin, Here - 1))
    <3>1. CASE state = "START"
      <4>1. text = << >>
        BY <1>1, <3>1 DEF IInv, TextRead, Reading, TokenStates
      <4>2. SubSeq(source, Here, Here - 1) = << >>
        BY <2>1, SubSeqEmpty
      <4> QED BY <2>1, <3>1, <4>1, <4>2
    <3>2. CASE state # "START"
      <4>1. state \in Reading
        BY <1>1, <1>2, <1>8, <3>2 DEF States, Reading
      <4> QED BY <1>1, <2>1, <3>2, <4>1 DEF IInv, TextRead
    <3> QED BY <3>1, <3>2
  <2>4. Here' - 1 = Here
    BY <1>3, <2>1
  <2>5. Len(text') < TextSize => text' = SubSeq(source', from', Here' - 1)
    <3>1. SUFFICES ASSUME Len(text') < TextSize
                   PROVE  text' = SubSeq(source', from', Here' - 1)
      OBVIOUS
    <3>2. text' = Append(SubSeq(source, begin, Here - 1), source[Here])
      BY <1>3, <1>8, <2>1, <2>3, <3>1
    <3>3. SubSeq(source, begin, Here) = Append(SubSeq(source, begin, Here - 1), source[Here])
      <4> DEFINE n == Here - 1
      <4>1. n \in Nat /\ begin \in Nat \ {0} /\ begin <= n + 1 /\ n + 1 <= Len(source)
            /\ n + 1 = Here
        BY <2>1, <2>3
      <4> HIDE DEF n, begin
      <4>2. SubSeq(source, begin, n + 1) = Append(SubSeq(source, begin, n), source[n + 1])
        BY <1>1, <4>1, SubSeqOnward
      <4>3. SubSeq(source, begin, Here) = Append(SubSeq(source, begin, n), source[Here])
        BY <4>1, <4>2
      <4> QED BY <4>3 DEF n
    <3>4. SubSeq(source', begin, Here) = SubSeq(source, begin, Here)
      <4>1. source' \in Seq(Chars) /\ begin \in Nat \ {0} /\ Here \in Int /\ Here <= Len(source)
            /\ Len(source) <= Len(source') /\ \A p \in 1..Len(source) : source'[p] = source[p]
        BY <1>3, <2>1, <2>3 DEF Grown
      <4> HIDE DEF begin
      <4> QED BY <1>1, <4>1, SubSeqStable
    <3> QED BY <2>2, <2>4, <3>2, <3>3, <3>4
  <2> QED BY <2>1, <2>2, <2>3, <2>4, <2>5
<1>9. TextRead'
  BY <1>1, <1>3, <1>7, <1>8 DEF TextRead
<1>10. LookaheadRead'
  BY <1>1, <1>3 DEF LookaheadRead
<1>11. Frontier' \in Nat /\ Frontier <= Frontier'
  <2>1. CASE New \in Reading
    <3>1. Frontier' = from'
      BY <1>1, <1>3, <2>1 DEF Frontier
    <3>2. Frontier = begin
      BY <1>1, <1>2, <2>1 DEF Frontier, States, Reading, TokenStates
    <3> QED BY <1>5, <1>8, <2>1, <3>1, <3>2
  <2>2. CASE New \notin Reading
    <3>1. Frontier' = Here'
      BY <1>1, <1>3, <2>2 DEF Frontier
    <3>2. Frontier = Here
      BY <1>1, <1>2, <2>2 DEF Frontier
    <3> QED BY <1>3, <1>5, <3>1, <3>2
  <2> QED BY <2>1, <2>2
<1>12. (\A n \in DOMAIN out : ItemInPlace(out[n]))' /\ Ordered'
  BY <1>3, <1>4, <1>11, OutputStays
<1> QED BY <1>6, <1>9, <1>10, <1>12 DEF IInv

(* Both reports end the text. *)
LEMMA ReportStep ==
  ASSUME IInv, running, state \in Reading, NEW s \in {"START", "COMMENT"},
         NEW t, t = TooLong \/ (t = text /\ Len(text) < TextSize),
         out' = Append(out, Item("error", "INVALID", t, 0, text_loc, from,
                                 Here - 1)),
         Enter(s, << >>), UNCHANGED <<text_loc, from>>
  PROVE  IInv'
<1> DEFINE x == Item("error", "INVALID", t, 0, text_loc, from, Here - 1)
<1>1. /\ TypeOK /\ lookahead = "NUL"
      /\ source \in Seq(Chars) /\ ended \in BOOLEAN
      /\ << >> \in Seq(Characters) /\ Len(<< >>) <= TextSize
      /\ s \in States /\ s \notin Reading
  BY EmptySeq, ScannerAssumption DEF IInv, TypeOK, TextRead, States, Reading, TokenStates
<1>2. /\ ended' \in BOOLEAN /\ Grown
      /\ character' \in Characters /\ CharacterRead(character)'
      /\ Here' = Len(source) + 1
      /\ loc' \in Location
      /\ text' = << >>
      /\ state' = s /\ UNCHANGED <<lookahead, running>>
  BY <1>1, EnterStep
<1>3. Here \in {Len(source), Len(source) + 1} /\ Len(source) \in Nat
  BY <1>1, HereType
<1>4. Frontier' = Here' /\ Frontier = from /\ from \in 1..(Here - 1)
  BY <1>1, <1>2 DEF Frontier, IInv, TextRead
<1>5. /\ x \in OutputItem /\ x.from = Frontier
      /\ \A y : (Frontier' \in Nat /\ y = x /\ Grown /\ Here <= Frontier')
                => ItemInPlace(y)'
  <2>1. "INVALID" \in Types /\ "error" \in {"token", "error"} /\ 0 \in Int
    BY DEF Types
  <2> QED BY <2>1, ItemOfText
<1>6. PICK y : y = x
  OBVIOUS
<1>7. /\ y \in OutputItem /\ y.from = Frontier /\ out' = Append(out, y)
      /\ (Frontier' \in Nat /\ Grown /\ Here <= Frontier') => ItemInPlace(y)'
  BY <1>5, <1>6
<1> HIDE DEF x
<1>8. Frontier' \in Nat /\ Here <= Frontier' /\ Frontier <= Frontier'
      /\ Frontier <= y.from
  BY <1>2, <1>3, <1>4, <1>7
<1>9. /\ out' \in Seq(OutputItem)
      /\ (\A n \in DOMAIN out : ItemInPlace(out[n]))' /\ Ordered'
  BY <1>2, <1>7, <1>8, OutputGrows
<1>10. TypeOK'
  BY <1>1, <1>2, <1>9 DEF TypeOK, Grown
<1>11. TextRead' /\ LookaheadRead'
  BY <1>1, <1>2 DEF TextRead, LookaheadRead
<1> QED BY <1>9, <1>10, <1>11 DEF IInv

(* An invalid text ends and is reported. *)
LEMMA ReportInvalidStep == ASSUME IInv, ReportInvalid PROVE IInv'
<1> DEFINE t == IF Len(text) < TextSize THEN text ELSE TooLong
           s == IF New = "COMMENT" THEN "COMMENT" ELSE "START"
<1>1. /\ running /\ state \in Reading
      /\ out' = Append(out, Item("error", "INVALID", t, 0, text_loc, from, Here - 1))
      /\ Enter(s, << >>) /\ UNCHANGED <<text_loc, from>>
  BY DEF ReportInvalid, Reading
<1>2. s \in {"START", "COMMENT"} /\ (t = TooLong \/ (t = text /\ Len(text) < TextSize))
  OBVIOUS
<1> HIDE DEF s, t
<1> QED BY <1>1, <1>2, ReportStep

(* A token too long for the buffer is reported. *)
LEMMA ReportTooLongStep == ASSUME IInv, ReportTooLong PROVE IInv'
BY ReportStep DEF ReportTooLong, Reading

(* A token is returned, and the character behind it kept. *)
LEMMA DeliverStep == ASSUME IInv, Deliver PROVE IInv'
<1>1. /\ TypeOK /\ running /\ state \in TokenStates /\ New = "ACCEPT"
      /\ Len(text) < TextSize
      /\ lookahead' = character /\ running' = FALSE
      /\ UNCHANGED <<file, loc, state, character, text, text_loc, from>>
  <2>1. Len(text) \in Nat /\ Len(text) <= TextSize
    BY LenProperties DEF IInv, TypeOK
  <2> QED BY <2>1, ScannerAssumption DEF Deliver, IInv
<1>2. PICK v \in (IF state = "LITERAL" THEN Atoi(text) ELSE {0}) :
        out' = Append(out, Item("token", TypeOf(state, text), text, v, text_loc,
                                from, Here - 1))
  BY DEF Deliver
<1>3. v \in Int /\ TypeOf(state, text) \in Types
  BY <1>1, <1>2, AtoiType, TypeOfType
<1>4. character # "NUL" /\ character \in Characters /\ CharacterRead(character)
  BY <1>1, NewState DEF TypeOK, IInv, TextRead
<1>5. Grown /\ Here' = Here /\ Here \in Nat
  BY <1>1, Unread, FrontierType DEF TypeOK
<1>6. Frontier' = Here /\ Frontier = from /\ from \in 1..(Here - 1)
  BY <1>1, <1>4, <1>5 DEF Frontier, IInv, TextRead, Reading
<1> DEFINE x == Item("token", TypeOf(state, text), text, v, text_loc, from, Here - 1)
<1>7. /\ x \in OutputItem /\ x.from = Frontier
      /\ \A y : (Frontier' \in Nat /\ y = x /\ Grown /\ Here <= Frontier')
                => ItemInPlace(y)'
  BY <1>1, <1>3, ItemOfText DEF Reading
<1>8. PICK y : y = x
  OBVIOUS
<1>9. /\ y \in OutputItem /\ y.from = Frontier /\ out' = Append(out, y)
      /\ (Frontier' \in Nat /\ Grown /\ Here <= Frontier') => ItemInPlace(y)'
  BY <1>2, <1>7, <1>8
<1> HIDE DEF x
<1>10. Frontier' \in Nat /\ Here <= Frontier' /\ Frontier <= Frontier'
       /\ Frontier <= y.from
  BY <1>5, <1>6, <1>9
<1>11. /\ out' \in Seq(OutputItem)
       /\ (\A n \in DOMAIN out : ItemInPlace(out[n]))' /\ Ordered'
  BY <1>5, <1>9, <1>10, OutputGrows
<1>12. TypeOK'
  BY <1>1, <1>4, <1>11 DEF TypeOK, file
<1>13. TextRead'
  BY <1>1 DEF TextRead
<1>14. LookaheadRead'
  BY <1>1, <1>4 DEF LookaheadRead, CharacterRead, file
<1> QED BY <1>11, <1>12, <1>13, <1>14 DEF IInv

(* The end of the file is returned. *)
LEMMA DeliverEofStep == ASSUME IInv, DeliverEof PROVE IInv'
<1>1. /\ TypeOK /\ running /\ state = "START" /\ lookahead = "NUL" /\ running' = FALSE
      /\ source \in Seq(Chars) /\ ended \in BOOLEAN
      /\ UNCHANGED <<file, lookahead, loc, state, character, text, text_loc, from>>
  BY DEF DeliverEof, IInv, TypeOK, TextRead
<1>2. Grown /\ Here \in Nat /\ Len(source) \in Nat
      /\ Here \in {Len(source), Len(source) + 1}
  BY <1>1, Unread, HereType
<1>3. PICK y : y = Item("token", "EOF", << >>, 0, loc, Here, Here)
  OBVIOUS
<1>4. y \in OutputItem /\ y.type = "EOF" /\ y.from = Here /\ out' = Append(out, y)
  <2>1. "EOF" \in Types /\ << >> \in Seq(Characters) /\ 0 \in Int
    BY EmptySeq DEF Types
  <2> QED BY <1>1, <1>2, <1>3, <2>1 DEF DeliverEof, Item, OutputItem, TypeOK
<1>5. Frontier = Here
  BY <1>1 DEF Frontier, Reading, TokenStates
<1>6. Frontier' = Len(source) + 1
  BY <1>1 DEF Frontier, file
<1>7. ItemInPlace(y)'
  BY <1>4 DEF ItemInPlace
<1>8. /\ out' \in Seq(OutputItem)
      /\ (\A n \in DOMAIN out : ItemInPlace(out[n]))' /\ Ordered'
  <2>1. Frontier' \in Nat /\ Frontier <= Frontier' /\ Frontier <= y.from
    BY <1>2, <1>4, <1>5, <1>6
  <2> QED BY <1>2, <1>4, <1>7, <2>1, OutputGrows
<1>9. TypeOK'
  BY <1>1, <1>8 DEF TypeOK, file
<1>10. TextRead' /\ LookaheadRead'
  BY <1>1 DEF TextRead, LookaheadRead
<1> QED BY <1>8, <1>9, <1>10 DEF IInv

(* Nothing happens. *)
LEMMA UnchangedStep == ASSUME IInv, UNCHANGED vars PROVE IInv'
BY DEF IInv, vars, TypeOK, TextRead, LookaheadRead, Ordered, ItemInPlace,
       CharacterRead, Frontier, Here

-----------------------------------------------------------------------------
(* Before the first call nothing is read. *)
LEMMA InitIInv == Init => IInv
<1> SUFFICES ASSUME Init PROVE IInv
  OBVIOUS
<1>1. /\ << >> \in Seq(Chars) /\ << >> \in Seq(Characters) /\ << >> \in Seq(OutputItem)
      /\ Len(<< >>) = 0
  BY EmptySeq
<1>2. TypeOK
  <2>1. 1 \in 0..(Sizes - 1)
    BY ScannerAssumption
  <2>2. loc \in Location /\ text_loc \in Location
    BY <2>1 DEF Init, Location
  <2>3. Len(text) <= TextSize
    BY <1>1, ScannerAssumption DEF Init
  <2> QED BY <1>1, <2>2, <2>3 DEF Init, TypeOK, Characters, States
<1>3. DOMAIN out = {}
  BY DEF Init
<1> QED BY <1>2, <1>3 DEF Init, IInv, TextRead, LookaheadRead, Ordered

(* Every step preserves the invariant. *)
LEMMA NextIInv == IInv /\ [Next]_vars => IInv'
BY LexStep, AdvanceStep, ReportInvalidStep, ReportTooLongStep, DeliverStep,
   DeliverEofStep, UnchangedStep DEF Next, Loop, Done

(* The invariant holds in every reachable state. *)
LEMMA AlwaysIInv == Spec => []IInv
<1>1. Init => IInv
  BY InitIInv
<1>2. IInv /\ [Next]_vars => IInv'
  BY NextIInv
<1> QED BY <1>1, <1>2, PTL DEF Spec

(***************************************************************************)
(* The scanner's variables keep their types: the text never overflows its  *)
(* buffer of TEXT_SIZE characters, and every state and class is in the     *)
(* table (scanner.c:131, :329).                                            *)
(***************************************************************************)
THEOREM TypeCorrect == Spec => []TypeOK
<1>1. IInv => TypeOK
  BY DEF IInv
<1> QED BY <1>1, AlwaysIInv, PTL

(***************************************************************************)
(* Whatever the source, no character is lost from a token or read into two *)
(* of them: the texts that are put out are where they say in the source,   *)
(* one behind the other.                                                   *)
(***************************************************************************)
THEOREM TextsAlwaysInPlace == Spec => []TextsInPlace
<1>1. IInv => TextsInPlace
  BY DEF IInv, TextsInPlace, ItemInPlace, Ordered
<1> QED BY <1>1, AlwaysIInv, PTL

-----------------------------------------------------------------------------
(* Rows and columns: counting in a size_t. *)
LEMMA Unique ==
  ASSUME NEW S \in Nat, S > 0, NEW q \in Int, NEW k \in Int,
         NEW r \in 0..(S - 1), NEW t \in 0..(S - 1), q * S + r = k * S + t
  PROVE  r = t
<1>1. CASE q = k
  BY <1>1
<1>2. CASE q < k
  <2>1. (k - q) * S >= S
    BY <1>2
  <2> QED BY <2>1
<1>3. CASE q > k
  <2>1. (q - k) * S >= S
    BY <1>3
  <2> QED BY <2>1
<1> QED BY <1>1, <1>2, <1>3

(* Division with a remainder. *)
LEMMA DivMod ==
  ASSUME NEW S \in Nat, S > 0, NEW x \in Int
  PROVE  x % S \in 0..(S - 1) /\ x = (x \div S) * S + (x % S) /\ x \div S \in Int
OBVIOUS

(* A remainder is known by its class. *)
LEMMA ModIs ==
  ASSUME NEW S \in Nat, S > 0, NEW k \in Int, NEW r \in 0..(S - 1)
  PROVE  (k * S + r) % S = r
<1> DEFINE x == k * S + r
<1>1. x \in Int
  OBVIOUS
<1>2. x % S \in 0..(S - 1) /\ x = (x \div S) * S + (x % S) /\ x \div S \in Int
  BY <1>1, DivMod
<1> HIDE DEF x
<1>3. x = k * S + r
  BY DEF x
<1>4. x % S = r
  BY <1>2, <1>3, Unique
<1> QED BY <1>4 DEF x

(* A counter that wraps counts modulo its width. *)
LEMMA IncrementedMod ==
  ASSUME NEW n \in Nat
  PROVE  Incremented(n % Sizes) = (n + 1) % Sizes
<1> DEFINE q == n \div Sizes
           r == n % Sizes
<1>1. Sizes \in Nat /\ Sizes > 1
  BY ScannerAssumption
<1>2. r \in 0..(Sizes - 1) /\ q \in Int /\ n = q * Sizes + r
  BY <1>1, DivMod
<1> HIDE DEF q, r
<1>3. CASE r + 1 \in 0..(Sizes - 1)
  <2>1. (q * Sizes + (r + 1)) % Sizes = r + 1 /\ (0 * Sizes + (r + 1)) % Sizes = r + 1
    <3>1. Sizes > 0 /\ q \in Int /\ 0 \in Int
      BY <1>1, <1>2
    <3> QED BY <1>1, <1>3, <3>1, ModIs
  <2>2. q * Sizes + (r + 1) = n + 1 /\ 0 * Sizes + (r + 1) = r + 1
    BY <1>1, <1>2
  <2> QED BY <2>1, <2>2 DEF Incremented, r
<1>4. CASE r + 1 = Sizes
  <2>1. ((q + 1) * Sizes + 0) % Sizes = 0 /\ (1 * Sizes + 0) % Sizes = 0
    <3>1. 0 \in 0..(Sizes - 1) /\ q + 1 \in Int /\ 1 \in Int /\ Sizes > 0
      BY <1>1, <1>2
    <3> QED BY <1>1, <3>1, ModIs
  <2>2. (q + 1) * Sizes + 0 = n + 1 /\ 1 * Sizes + 0 = r + 1
    BY <1>1, <1>2, <1>4
  <2> QED BY <2>1, <2>2 DEF Incremented, r
<1> QED BY <1>1, <1>2, <1>3, <1>4

(* The rows grow by one behind a newline. *)
LEMMA RowOnward ==
  ASSUME NEW s, NEW p \in Nat \ {0}
  PROVE  /\ RowOf(s, p) \in Nat
         /\ RowOf(s, p + 1) = IF s[p] = "NL" THEN RowOf(s, p) + 1 ELSE RowOf(s, p)
<1> DEFINE T == {r \in 1..(p - 1) : s[r] = "NL"}
           U == {r \in 1..((p + 1) - 1) : s[r] = "NL"}
<1>1. IsFiniteSet(T) /\ Cardinality(T) \in Nat
  <2>1. IsFiniteSet(1..(p - 1))
    BY FS_Interval
  <2>2. T \in SUBSET (1..(p - 1))
    OBVIOUS
  <2>3. IsFiniteSet(T)
    BY <2>1, <2>2, FS_Subset
  <2> QED BY <2>3, FS_CardinalityType
<1>2. U = IF s[p] = "NL" THEN T \cup {p} ELSE T
  <2>1. \A r : r \in U <=> (r \in T \/ (r = p /\ s[p] = "NL"))
    OBVIOUS
  <2> QED BY <2>1
<1>3. p \notin T
  OBVIOUS
<1>4. RowOf(s, p) = 1 + Cardinality(T) /\ RowOf(s, p + 1) = 1 + Cardinality(U)
  BY DEF RowOf
<1> HIDE DEF T, U
<1>5. Cardinality(T \cup {p}) = Cardinality(T) + 1
  BY <1>1, <1>3, FS_AddElement
<1> QED BY <1>1, <1>2, <1>4, <1>5

(* The cursor moves on to the next character with the character it passes. *)
LEMMA MoveOn ==
  ASSUME NEW s, NEW p \in Nat \ {0}, NEW l \in Location, IsAt(s, l, p),
         NEW c, (c = "NL") <=> (s[p] = "NL")
  PROVE  IsAt(s, Moved(l, c), p + 1)
<1>0. Sizes \in Nat /\ Sizes > 1
  BY ScannerAssumption
<1>1. Moved(l, c).row = RowOf(s, p + 1) % Sizes
  <2>1. RowOf(s, p) \in Nat /\ l.row = RowOf(s, p) % Sizes
    BY RowOnward DEF IsAt
  <2>2. CASE c = "NL"
    BY <2>1, <2>2, RowOnward, IncrementedMod DEF Moved
  <2>3. CASE c # "NL"
    <3>1. Moved(l, c).row = l.row
      BY <2>3 DEF Moved, Location
    <3> QED BY <2>1, <2>3, <3>1, RowOnward
  <2> QED BY <2>2, <2>3
<1>2. ASSUME NEW r \in 0..p, RowBegins(s, r, p + 1)
      PROVE  Moved(l, c).col = ((p + 1) - r) % Sizes
  <2>1. CASE c = "NL"
    <3>1. p \in (r + 1)..((p + 1) - 1) \/ r = p
      BY <1>2
    <3>2. r = p
      BY <1>2, <2>1, <3>1 DEF RowBegins
    <3>3. (0 * Sizes + 1) % Sizes = 1
      <4>1. 1 \in 0..(Sizes - 1) /\ 0 \in Int /\ Sizes > 0
        BY <1>0
      <4> QED BY <1>0, <4>1, ModIs
    <3>4. 0 * Sizes + 1 = 1 /\ (p + 1) - r = 1
      BY <1>0, <3>2
    <3>5. Moved(l, c).col = 1
      BY <2>1 DEF Moved
    <3> QED BY <3>3, <3>4, <3>5
  <2>2. CASE c # "NL"
    <3>1. r \in 0..(p - 1) /\ RowBegins(s, r, p)
      BY <1>2, <2>2 DEF RowBegins
    <3>2. l.col = (p - r) % Sizes
      BY <3>1 DEF IsAt
    <3>3. Moved(l, c).col = Incremented(l.col)
      BY <2>2 DEF Moved, Location
    <3>4. p - r \in Nat /\ (p - r) + 1 = (p + 1) - r
      BY <3>1
    <3> QED BY <3>2, <3>3, <3>4, IncrementedMod
  <2> QED BY <2>1, <2>2
<1> QED BY <1>1, <1>2 DEF IsAt

(* What is behind a place does not matter for its row and its column. *)
LEMMA IsAtStable ==
  ASSUME NEW s, NEW t, NEW n \in Nat, \A q \in 1..n : t[q] = s[q],
         NEW p \in 1..(n + 1), NEW l, IsAt(s, l, p)
  PROVE  IsAt(t, l, p)
<1>1. \A q \in 1..(p - 1) : t[q] = s[q]
  OBVIOUS
<1>2. {r \in 1..(p - 1) : t[r] = "NL"} = {r \in 1..(p - 1) : s[r] = "NL"}
  BY <1>1
<1>3. RowOf(t, p) = RowOf(s, p)
  BY <1>2 DEF RowOf
<1>4. \A r \in 0..(p - 1) : RowBegins(t, r, p) => RowBegins(s, r, p)
  <2> TAKE r \in 0..(p - 1)
  <2>1. \A q \in (r + 1)..(p - 1) : q \in 1..(p - 1)
    OBVIOUS
  <2>2. r = 0 \/ r \in 1..(p - 1)
    OBVIOUS
  <2> QED BY <1>1, <2>1, <2>2 DEF RowBegins
<1> QED BY <1>3, <1>4 DEF IsAt

(***************************************************************************)
(* Up to the first EOF the cursor is at the character of the loop, or at   *)
(* the next to be read, and the text begins where text_loc says.           *)
(***************************************************************************)
NextRead == IF running \/ lookahead # "NUL" THEN Here ELSE Len(source) + 1

CursorExact ==
  Eofs = {} =>
    /\ ~ended => IsAt(source, loc, NextRead)
    /\ (running /\ state \in Reading) => IsAt(source, text_loc, from)

(* A character of the source has been passed. *)
LEMMA CursorOnward ==
  ASSUME IInv, running, NEW s, NEW t, Enter(s, t), Grown,
         Here' = Len(source) + 1, ~ended => IsAt(source, loc, Here)
  PROVE  ~ended' => IsAt(source', loc', Here')
<1> SUFFICES ASSUME ~ended' PROVE IsAt(source', loc', Here')
  OBVIOUS
<1>1. /\ source \in Seq(Chars) /\ loc \in Location /\ CharacterRead(character)
      /\ Len(source) \in Nat
  BY LenProperties DEF IInv, TypeOK, TextRead
<1>2. ~ended /\ loc' = Moved(loc, character)
  BY DEF Enter, Fgetc
<1>3. Here = Len(source) /\ Here \in Nat \ {0} /\ character = InChar(source[Here])
  BY <1>1, <1>2 DEF CharacterRead, Here
<1>4. (character = "NL") <=> (source[Here] = "NL")
  BY <1>3 DEF InChar
<1>5. IsAt(source, loc', Here + 1)
  BY <1>1, <1>2, <1>3, <1>4, MoveOn
<1>6. Here + 1 \in 1..(Len(source) + 1) /\ Here + 1 = Here'
  BY <1>1, <1>3
<1>7. \A q \in 1..Len(source) : source'[q] = source[q]
  BY DEF Grown
<1>8. IsAt(source', loc', Here + 1)
  BY <1>1, <1>5, <1>6, <1>7, IsAtStable
<1> QED BY <1>6, <1>8

(* What was put out up to the first EOF stays where it is. *)
LEMMA LocationsStay ==
  ASSUME IInv, LocationsExact, Grown
  PROVE  \A n \in DOMAIN out :
           (\A m \in 1..n : out[m].type # "EOF") =>
             IsAt(source', out[n].loc, out[n].from)
<1> SUFFICES ASSUME NEW n \in DOMAIN out, \A m \in 1..n : out[m].type # "EOF"
             PROVE  IsAt(source', out[n].loc, out[n].from)
  OBVIOUS
<1>1. IsAt(source, out[n].loc, out[n].from)
  BY DEF LocationsExact
<1>2. n \in 1..n /\ out[n] \in OutputItem /\ Len(source) \in Nat
  BY LenProperties, ElementOfSeq DEF IInv, TypeOK
<1>3. out[n].from \in 1..(Len(source) + 1)
  <2>1. out[n].from \in Nat /\ out[n].to \in Nat
    BY <1>2 DEF OutputItem
  <2>2. out[n].from \in 1..out[n].to /\ out[n].to <= Len(source)
    BY <1>2 DEF IInv, ItemInPlace
  <2> QED BY <1>2, <2>1, <2>2
<1>4. \A q \in 1..Len(source) : source'[q] = source[q]
  BY DEF Grown
<1> QED BY <1>1, <1>2, <1>3, <1>4, IsAtStable

(* Nothing is put out. *)
LEMMA LocationsUnchanged ==
  ASSUME IInv, LocationsExact, Grown, UNCHANGED out
  PROVE  LocationsExact' /\ (Eofs' = {} => Eofs = {})
BY LocationsStay DEF LocationsExact, Eofs

(* Something is. *)
LEMMA LocationsGrow ==
  ASSUME IInv, LocationsExact, Grown, NEW x, out' = Append(out, x),
         Eofs = {} => x.type = "EOF" \/ IsAt(source', x.loc, x.from)
  PROVE  LocationsExact' /\ (Eofs' = {} => Eofs = {} /\ x.type # "EOF")
<1>1. /\ out \in Seq(OutputItem) /\ Len(out) \in Nat /\ DOMAIN out = 1..Len(out)
      /\ DOMAIN out' = 1..(Len(out) + 1)
      /\ \A n \in 1..Len(out) : out'[n] = out[n]
      /\ out'[Len(out) + 1] = x
  <2>1. out \in Seq(OutputItem) /\ Len(out) \in Nat /\ DOMAIN out = 1..Len(out)
    BY LenProperties DEF IInv, TypeOK
  <2>2. out \in Seq(OutputItem \cup {x}) /\ x \in OutputItem \cup {x}
    <3>1. \A n \in 1..Len(out) : out[n] \in OutputItem \cup {x}
      BY <2>1, ElementOfSeq
    <3>2. out = [n \in 1..Len(out) |-> out[n]]
      BY <2>1, SeqDef
    <3>3. out \in [1..Len(out) -> OutputItem \cup {x}]
      BY <3>1, <3>2
    <3>4. \A S : \A n \in Nat : [1..n -> S] \subseteq Seq(S)
      BY SeqDef
    <3>5. [1..Len(out) -> OutputItem \cup {x}] \subseteq Seq(OutputItem \cup {x})
      BY <2>1, <3>4
    <3> QED BY <3>3, <3>5
  <2>3. /\ Append(out, x) \in Seq(OutputItem \cup {x})
        /\ Len(Append(out, x)) = Len(out) + 1
        /\ \A n \in 1..Len(out) : Append(out, x)[n] = out[n]
        /\ Append(out, x)[Len(out) + 1] = x
    BY <2>2, AppendProperties
  <2>4. DOMAIN out' = 1..(Len(out) + 1)
    BY <2>3, LenProperties
  <2> QED BY <2>1, <2>3, <2>4
<1>2. Eofs' = {} => Eofs = {} /\ x.type # "EOF"
  BY <1>1 DEF Eofs
<1>3. ASSUME NEW n \in DOMAIN out', \A m \in 1..n : out'[m].type # "EOF"
      PROVE  IsAt(source', out'[n].loc, out'[n].from)
  <2>1. CASE n = Len(out) + 1
    <3>1. Eofs = {} /\ x.type # "EOF"
      BY <1>1, <1>3, <2>1 DEF Eofs
    <3> QED BY <1>1, <2>1, <3>1
  <2>2. CASE n \in 1..Len(out)
    <3>1. \A m \in 1..n : out[m].type # "EOF"
      BY <1>1, <1>3, <2>2
    <3> QED BY <1>1, <2>2, <3>1, LocationsStay
  <2> QED BY <1>1, <2>1, <2>2
<1> QED BY <1>2, <1>3 DEF LocationsExact

LocInv == IInv /\ CursorExact /\ LocationsExact

(* A place of the text or of the cursor stays where it is. *)
LEMMA PlaceStays ==
  ASSUME source \in Seq(Chars), Grown, NEW l, NEW p \in 1..(Len(source) + 1),
         IsAt(source, l, p)
  PROVE  IsAt(source', l, p)
<1>1. Len(source) \in Nat /\ \A q \in 1..Len(source) : source'[q] = source[q]
  BY DEF Grown
<1> QED BY <1>1, IsAtStable

(* lex() begins with the character it looked ahead at, or the next one. *)
LEMMA LexCursor ==
  ASSUME LocInv, Lex
  PROVE  CursorExact' /\ LocationsExact'
<1>1. /\ IInv /\ CursorExact /\ LocationsExact /\ ~running
      /\ source \in Seq(Chars) /\ ended \in BOOLEAN /\ Len(source) \in Nat
      /\ running' = TRUE /\ state' = "START" /\ UNCHANGED <<loc, out>>
  BY LenProperties DEF LocInv, IInv, TypeOK, Lex
<1>2. Grown /\ (~ended' => ~ended /\ Here' = NextRead /\ NextRead \in 1..(Len(source) + 1))
  <2>1. CASE lookahead = "NUL"
    <3>1. Fgetc
      BY <2>1 DEF Lex
    <3>2. Grown /\ Here' = Len(source) + 1
      BY <1>1, <3>1, FgetcStep
    <3> QED BY <1>1, <2>1, <3>1, <3>2 DEF NextRead, Fgetc
  <2>2. CASE lookahead # "NUL"
    <3>1. UNCHANGED file
      BY <2>2 DEF Lex
    <3>2. Grown /\ Here' = Here
      BY <1>1, <3>1, Unread
    <3>3. ~ended => Here \in 1..(Len(source) + 1)
      BY <1>1, <2>2 DEF Here, IInv, LookaheadRead, CharacterRead
    <3> QED BY <1>1, <2>2, <3>1, <3>2, <3>3 DEF NextRead, file
  <2> QED BY <2>1, <2>2
<1>3. LocationsExact' /\ (Eofs' = {} => Eofs = {})
  BY <1>1, <1>2, LocationsUnchanged
<1>4. ASSUME Eofs' = {}, ~ended'
      PROVE  IsAt(source', loc', NextRead')
  <2>1. IsAt(source, loc, NextRead) /\ NextRead \in 1..(Len(source) + 1)
    BY <1>1, <1>2, <1>3, <1>4 DEF CursorExact
  <2>2. IsAt(source', loc, NextRead)
    BY <1>1, <1>2, <2>1, PlaceStays
  <2>3. NextRead' = NextRead
    BY <1>1, <1>2, <1>4 DEF NextRead
  <2> QED BY <1>1, <2>2, <2>3
<1>5. state' \notin Reading
  BY <1>1 DEF Reading, TokenStates
<1> QED BY <1>3, <1>4, <1>5 DEF CursorExact

(* What every step that enters a state does for the cursor. *)
LEMMA EnterCursor ==
  ASSUME LocInv, running, NEW s \in States, NEW t \in Seq(Characters),
         Len(t) <= TextSize, Enter(s, t)
  PROVE  /\ Grown /\ running' /\ state' = s
         /\ (Eofs = {} /\ ~ended') => IsAt(source', loc', NextRead')
         /\ (Eofs = {} /\ state \in Reading) => IsAt(source', text_loc, from)
<1>1. /\ IInv /\ CursorExact /\ TypeOK /\ source \in Seq(Chars) /\ ended \in BOOLEAN
      /\ Len(source) \in Nat /\ Here \in {Len(source), Len(source) + 1}
  BY HereType DEF LocInv, IInv, TypeOK
<1>2. Grown /\ Here' = Len(source) + 1 /\ state' = s /\ running'
  BY <1>1, EnterStep
<1>3. (Eofs = {} /\ ~ended') => IsAt(source', loc', NextRead')
  <2>1. SUFFICES ASSUME Eofs = {}, ~ended' PROVE IsAt(source', loc', NextRead')
    OBVIOUS
  <2>2. ~ended => IsAt(source, loc, Here)
    BY <1>1, <2>1 DEF CursorExact, NextRead
  <2>3. IsAt(source', loc', Here')
    BY <1>1, <1>2, <2>1, <2>2, CursorOnward
  <2> QED BY <1>2, <2>3 DEF NextRead
<1>4. (Eofs = {} /\ state \in Reading) => IsAt(source', text_loc, from)
  <2>1. SUFFICES ASSUME Eofs = {}, state \in Reading PROVE IsAt(source', text_loc, from)
    OBVIOUS
  <2>2. from \in 1..(Len(source) + 1)
    BY <1>1, <2>1 DEF IInv, TextRead
  <2>3. IsAt(source, text_loc, from)
    BY <1>1, <2>1 DEF CursorExact
  <2> QED BY <1>1, <1>2, <2>2, <2>3, PlaceStays
<1> QED BY <1>2, <1>3, <1>4

(* A text begins where the cursor is. *)
LEMMA AdvanceCursor ==
  ASSUME LocInv, Advance
  PROVE  CursorExact' /\ LocationsExact'
<1>1. /\ IInv /\ CursorExact /\ LocationsExact /\ TypeOK /\ running /\ state \in States
      /\ source \in Seq(Chars) /\ ended \in BOOLEAN /\ Len(source) \in Nat
      /\ CharacterRead(character) /\ UNCHANGED out
      /\ text \in Seq(Characters) /\ Len(text) <= TextSize
  BY LenProperties DEF LocInv, IInv, TypeOK, TextRead, Advance
<1>2. /\ New \in States
      /\ state \in Reading => New \in Reading
      /\ New \in Reading => character # "EOF" /\ state # "COMMENT"
  BY <1>1, NewState DEF Advance, States, Reading, TokenStates
<1>3. Enter(New, text)
  BY DEF Advance
<1>4. PICK s : s = New
  OBVIOUS
<1>5. s \in States /\ Enter(s, text)
  BY <1>2, <1>3, <1>4
<1>6. /\ Grown /\ running' /\ state' = New
      /\ (Eofs = {} /\ ~ended') => IsAt(source', loc', NextRead')
      /\ (Eofs = {} /\ state \in Reading) => IsAt(source', text_loc, from)
  BY <1>1, <1>4, <1>5, EnterCursor
<1>7. LocationsExact' /\ (Eofs' = {} => Eofs = {})
  BY <1>1, <1>6, LocationsUnchanged
<1>8. ASSUME Eofs = {}, New \in Reading
      PROVE  IsAt(source', text_loc', from')
  <2>1. CASE state \in Reading
    <3>1. state # "START"
      BY <2>1 DEF Reading, TokenStates
    <3> QED BY <1>6, <1>8, <2>1, <3>1 DEF Advance
  <2>2. CASE state \notin Reading
    <3>1. state = "START" /\ New # "START"
      BY <1>1, <1>2, <1>8, <2>2 DEF States, Reading, TokenStates
    <3>2. text_loc' = loc /\ from' = Here
      BY <3>1 DEF Advance
    <3>3. ~ended /\ Here = Len(source) /\ Here \in Nat \ {0}
      BY <1>1, <1>2, <1>8, LastCharacter
    <3>4. IsAt(source, loc, Here)
      BY <1>1, <1>8, <3>3 DEF CursorExact, NextRead
    <3>5. Here \in 1..(Len(source) + 1)
      BY <3>3
    <3>6. IsAt(source', loc, Here)
      BY <1>1, <1>6, <3>4, <3>5, PlaceStays
    <3> QED BY <3>2, <3>6
  <2> QED BY <2>1, <2>2
<1> QED BY <1>6, <1>7, <1>8 DEF CursorExact

(* A report names the place where the text began. *)
LEMMA ReportCursor ==
  ASSUME LocInv, running, state \in Reading, NEW s \in {"START", "COMMENT"},
         NEW t,
         out' = Append(out, Item("error", "INVALID", t, 0, text_loc, from, Here - 1)),
         Enter(s, << >>)
  PROVE  CursorExact' /\ LocationsExact'
<1>1. /\ IInv /\ LocationsExact /\ << >> \in Seq(Characters) /\ Len(<< >>) <= TextSize
      /\ s \in States /\ s \notin Reading
  BY EmptySeq, ScannerAssumption DEF LocInv, States, Reading, TokenStates
<1>2. /\ Grown /\ running' /\ state' = s
      /\ (Eofs = {} /\ ~ended') => IsAt(source', loc', NextRead')
      /\ (Eofs = {} /\ state \in Reading) => IsAt(source', text_loc, from)
  BY <1>1, EnterCursor
<1>3. PICK x : x = Item("error", "INVALID", t, 0, text_loc, from, Here - 1)
  OBVIOUS
<1>4. out' = Append(out, x) /\ x.loc = text_loc /\ x.from = from
  BY <1>3 DEF Item
<1>5. LocationsExact' /\ (Eofs' = {} => Eofs = {})
  BY <1>1, <1>2, <1>4, LocationsGrow
<1> QED BY <1>1, <1>2, <1>5 DEF CursorExact

(* The cursor stays at the character behind a token. *)
LEMMA DeliverCursor ==
  ASSUME LocInv, Deliver
  PROVE  CursorExact' /\ LocationsExact'
<1>1. /\ IInv /\ CursorExact /\ LocationsExact /\ running /\ state \in Reading
      /\ source \in Seq(Chars) /\ Len(source) \in Nat
      /\ UNCHANGED <<file, loc>> /\ ~running' /\ lookahead' = character
  BY LenProperties DEF LocInv, IInv, TypeOK, Deliver, Reading
<1>2. Grown /\ Here' = Here /\ UNCHANGED <<source, ended>>
  BY <1>1, Unread DEF file
<1>3. character # "NUL"
  BY NewState DEF Deliver, LocInv, IInv, TypeOK
<1>4. PICK v \in (IF state = "LITERAL" THEN Atoi(text) ELSE {0}) :
        out' = Append(out, Item("token", TypeOf(state, text), text, v, text_loc,
                                from, Here - 1))
  BY DEF Deliver
<1>5. PICK x : x = Item("token", TypeOf(state, text), text, v, text_loc, from, Here - 1)
  OBVIOUS
<1>6. out' = Append(out, x) /\ x.loc = text_loc /\ x.from = from
  BY <1>4, <1>5 DEF Item
<1>7. Eofs = {} => IsAt(source', x.loc, x.from)
  BY <1>1, <1>2, <1>6 DEF CursorExact
<1>8. LocationsExact' /\ (Eofs' = {} => Eofs = {})
  BY <1>1, <1>2, <1>6, <1>7, LocationsGrow
<1>9. (Eofs' = {} /\ ~ended') => IsAt(source', loc', NextRead')
  <2>1. NextRead' = Here /\ NextRead = Here
    BY <1>1, <1>2, <1>3 DEF NextRead
  <2> QED BY <1>1, <1>2, <1>8, <2>1 DEF CursorExact
<1> QED BY <1>1, <1>8, <1>9 DEF CursorExact

(* Behind an EOF nothing is said. *)
LEMMA DeliverEofCursor ==
  ASSUME LocInv, DeliverEof
  PROVE  CursorExact' /\ LocationsExact'
<1>1. PICK x : x = Item("token", "EOF", << >>, 0, loc, Here, Here)
  OBVIOUS
<1>2. out' = Append(out, x) /\ x.type = "EOF"
  BY <1>1 DEF DeliverEof, Item
<1>3. Grown
  BY Unread DEF DeliverEof, LocInv, IInv, TypeOK
<1>4. LocationsExact' /\ Eofs' # {}
  BY <1>2, <1>3, LocationsGrow DEF LocInv
<1> QED BY <1>4 DEF CursorExact

(* Every step keeps cursor and places exact. *)
LEMMA NextLocInv == LocInv /\ [Next]_vars => LocInv'
<1> SUFFICES ASSUME LocInv, [Next]_vars PROVE CursorExact' /\ LocationsExact'
  BY NextIInv DEF LocInv
<1>1. CASE ReportInvalid
  <2> DEFINE t == IF Len(text) < TextSize THEN text ELSE TooLong
             s == IF New = "COMMENT" THEN "COMMENT" ELSE "START"
  <2>1. /\ running /\ state \in Reading
        /\ out' = Append(out, Item("error", "INVALID", t, 0, text_loc, from, Here - 1))
        /\ Enter(s, << >>) /\ s \in {"START", "COMMENT"}
    BY <1>1 DEF ReportInvalid, Reading
  <2> HIDE DEF s, t
  <2> QED BY <2>1, ReportCursor
<1>2. CASE ReportTooLong
  BY <1>2, ReportCursor DEF ReportTooLong, Reading
<1>3. CASE UNCHANGED vars
  BY <1>3 DEF vars, LocInv, CursorExact, LocationsExact, Eofs, NextRead, Here
<1> QED BY <1>1, <1>2, <1>3, LexCursor, AdvanceCursor, DeliverCursor, DeliverEofCursor
        DEF Next, Loop, Done

(* In front of the first character the cursor is at row 1 and column 1. *)
LEMMA InitLocInv == Init => LocInv
<1> SUFFICES ASSUME Init PROVE CursorExact /\ LocationsExact
  BY InitIInv DEF LocInv
<1>1. /\ source = << >> /\ Len(source) = 0 /\ loc = [row |-> 1, col |-> 1]
      /\ NextRead = 1 /\ ~running /\ DOMAIN out = {}
  BY DEF Init, NextRead
<1>2. 1 % Sizes = 1
  <2>1. 1 \in 0..(Sizes - 1) /\ 0 \in Int /\ Sizes > 0 /\ Sizes \in Nat /\ 0 * Sizes + 1 = 1
    BY ScannerAssumption
  <2>2. (0 * Sizes + 1) % Sizes = 1
    BY <2>1, ModIs
  <2> QED BY <2>1, <2>2
<1>3. RowOf(source, 1) = 1
  <2>1. {r \in 1..(1 - 1) : source[r] = "NL"} = {}
    OBVIOUS
  <2> QED BY <2>1, FS_EmptySet DEF RowOf
<1>4. IsAt(source, loc, 1)
  BY <1>1, <1>2, <1>3 DEF IsAt
<1> QED BY <1>1, <1>4 DEF CursorExact, LocationsExact

(***************************************************************************)
(* Every error and token before the first EOF is shown at the row and the  *)
(* column of its first character, whatever blanks, comments, invalid and   *)
(* dropped characters are in front of it, in numbers of any width          *)
(* (scanner.c:225).                                                        *)
(***************************************************************************)
THEOREM LocationsAlwaysExact == Spec => []LocationsExact
<1>1. Init => LocInv
  BY InitLocInv
<1>2. LocInv /\ [Next]_vars => LocInv'
  BY NextLocInv
<1>3. LocInv => LocationsExact
  BY DEF LocInv
<1> QED BY <1>1, <1>2, <1>3, PTL DEF Spec

-----------------------------------------------------------------------------
(***************************************************************************)
(* The stream of tokens.  The token delivered last exists when there is    *)
(* any; an EOF is at the end of the file, and nothing but EOF follows it.  *)
(***************************************************************************)
Tokens == {n \in DOMAIN out : out[n].kind = "token"}

IsLast(n) == n \in Tokens /\ \A m \in Tokens : m <= n

LastExists == Tokens # {} => \E n \in Tokens : IsLast(n)

EofIsTheEnd ==
  /\ \A n \in Eofs : ended /\ n \in Tokens /\ out[n].from = Len(source) + 1
  /\ \A m \in Eofs, n \in DOMAIN out : m <= n => n \in Eofs
  /\ Eofs # {} => lookahead = "NUL" /\ (running => state = "START")

StreamInv == IInv /\ LastExists /\ EofIsTheEnd

(* The end of the file is the only end when no character looks like it. *)
LEMMA EndIsEof ==
  ASSUME "0xFF" \notin Chars, source \in Seq(Chars), NEW c, CharacterRead(c)
  PROVE  (c = "EOF") <=> ended
<1>1. CASE ended
  BY <1>1 DEF CharacterRead
<1>2. CASE ~ended
  <2>1. Len(source) \in Nat /\ Len(source) >= 1 /\ c = InChar(source[Len(source)])
    BY <1>2, LenProperties DEF CharacterRead
  <2>2. source[Len(source)] \in Chars
    BY <2>1, ElementOfSeq
  <2>3. c = source[Len(source)] /\ c # "EOF"
    BY <2>1, <2>2, ScannerAssumption DEF InChar
  <2> QED BY <1>2, <2>3
<1> QED BY <1>1, <1>2

(* What is put out grows by one item. *)
LEMMA OutOnward ==
  ASSUME out \in Seq(OutputItem), NEW x \in OutputItem, out' = Append(out, x)
  PROVE  /\ Len(out) \in Nat /\ DOMAIN out = 1..Len(out)
         /\ DOMAIN out' = 1..(Len(out) + 1)
         /\ \A n \in 1..Len(out) : out'[n] = out[n]
         /\ out'[Len(out) + 1] = x
<1>1. /\ Append(out, x) \in Seq(OutputItem)
      /\ Len(Append(out, x)) = Len(out) + 1
      /\ \A n \in 1..Len(out) : Append(out, x)[n] = out[n]
      /\ Append(out, x)[Len(out) + 1] = x
  BY AppendProperties
<1>2. DOMAIN out' = 1..(Len(out) + 1)
  BY <1>1, LenProperties
<1> QED BY <1>1, <1>2, LenProperties

(* A new token is the last one. *)
LEMMA TokenAppended ==
  ASSUME out \in Seq(OutputItem), NEW x \in OutputItem, out' = Append(out, x),
         x.kind = "token"
  PROVE  /\ Delivered' = [type |-> x.type, at |-> x.from]
         /\ ReportedAt' = ReportedAt
         /\ LastExists'
<1> DEFINE l == Len(out) + 1
<1>1. /\ Len(out) \in Nat /\ DOMAIN out = 1..Len(out) /\ DOMAIN out' = 1..l
      /\ \A n \in 1..Len(out) : out'[n] = out[n]
      /\ out'[l] = x
  BY OutOnward
<1>2. Tokens' = Tokens \cup {l} /\ Tokens \subseteq 1..Len(out)
  BY <1>1 DEF Tokens
<1>3. l \in Tokens' /\ \A m \in Tokens' : m <= l
  BY <1>1, <1>2
<1>4. \A n \in Tokens' : (\A m \in Tokens' : m <= n) => n = l
  BY <1>1, <1>2, <1>3
<1> HIDE DEF l
<1>5. (CHOOSE n \in Tokens' : \A m \in Tokens' : m <= n) = l
  BY <1>3, <1>4
<1>6. Delivered' = [type |-> x.type, at |-> x.from]
  BY <1>1, <1>3, <1>5 DEF Delivered, Tokens
<1>7. ReportedAt' = ReportedAt
  <2>1. {m \in DOMAIN out' : out'[m].kind = "error"} = {m \in DOMAIN out : out[m].kind = "error"}
    <3>1. \A m : m \in 1..l <=> m \in 1..Len(out) \/ m = l
      BY <1>1 DEF l
    <3>2. \A m : m \in DOMAIN out' <=> m \in DOMAIN out \/ m = l
      BY <1>1, <3>1
    <3>3. out'[l].kind # "error" /\ \A m \in DOMAIN out : out'[m] = out[m]
      BY <1>1
    <3>4. l \notin DOMAIN out
      BY <1>1 DEF l
    <3> QED BY <3>2, <3>3, <3>4, ZenonT(60)
  <2>2. PICK E : E = {m \in DOMAIN out : out[m].kind = "error"}
    OBVIOUS
  <2>3. ReportedAt = {out[m].from : m \in E} /\ ReportedAt' = {out'[m].from : m \in E}
    BY <2>1, <2>2, Zenon DEF ReportedAt
  <2>4. \A m \in E : out'[m] = out[m]
    BY <1>1, <2>2
  <2> QED BY <2>3, <2>4
<1>8. LastExists'
  BY <1>3 DEF LastExists, IsLast
<1> QED BY <1>6, <1>7, <1>8

(* A new error leaves the last token. *)
LEMMA ErrorAppended ==
  ASSUME out \in Seq(OutputItem), NEW x \in OutputItem, out' = Append(out, x),
         x.kind = "error", LastExists
  PROVE  /\ Delivered' = Delivered
         /\ ReportedAt' = ReportedAt \cup {x.from}
         /\ LastExists'
<1> DEFINE l == Len(out) + 1
<1>1. /\ Len(out) \in Nat /\ DOMAIN out = 1..Len(out) /\ DOMAIN out' = 1..l
      /\ \A n \in 1..Len(out) : out'[n] = out[n]
      /\ out'[l] = x /\ l \notin DOMAIN out
  BY OutOnward
<1>2. \A m : m \in 1..l <=> m \in 1..Len(out) \/ m = l
  BY <1>1
<1> HIDE DEF l
<1>3. Tokens' = Tokens /\ Tokens \subseteq DOMAIN out
  BY <1>1, <1>2 DEF Tokens
<1>4. Delivered' = Delivered
  <2> DEFINE n == CHOOSE n \in Tokens : \A m \in Tokens : m <= n
  <2>1. Tokens = {} => Delivered' = Delivered
    BY <1>3 DEF Delivered, Tokens
  <2>2. ASSUME Tokens # {} PROVE Delivered' = Delivered
    <3>1. n \in Tokens
      BY <2>2 DEF LastExists, IsLast
    <3>2. out'[n] = out[n]
      BY <1>1, <1>3, <3>1
    <3>3. Delivered = [type |-> out[n].type, at |-> out[n].from]
      BY <2>2, SMTT(30) DEF Delivered, Tokens
    <3>4. Delivered' = [type |-> out'[n].type, at |-> out'[n].from]
      BY <1>3, <2>2, ZenonT(30) DEF Delivered, Tokens
    <3> QED BY <3>2, <3>3, <3>4, SMTT(30)
  <2> QED BY <2>1, <2>2
<1>5. ReportedAt' = ReportedAt \cup {x.from}
  <2>1. {m \in DOMAIN out' : out'[m].kind = "error"} = {m \in DOMAIN out : out[m].kind = "error"} \cup {l}
    BY <1>1, <1>2
  <2> QED BY <1>1, <2>1 DEF ReportedAt
<1>6. LastExists'
  <2>1. \A n \in Tokens : IsLast(n) => IsLast(n)'
    BY <1>3 DEF IsLast
  <2> QED BY <1>3, <2>1 DEF LastExists
<1> QED BY <1>4, <1>5, <1>6

(* Before the first EOF the next place is beyond all that was put out. *)
LEMMA FrontierBeyond ==
  ASSUME IInv, LastExists, Eofs = {}, Frontier >= 1
  PROVE  Stream!Beyond(Frontier) /\ Delivered.type # "EOF"
<1>1. ASSUME NEW n \in DOMAIN out PROVE out[n].from < Frontier /\ out[n].type # "EOF"
  <2>1. out[n] \in OutputItem /\ Frontier \in Nat
    BY LenProperties, ElementOfSeq, FrontierType DEF IInv, TypeOK
  <2>2. out[n].from \in Nat /\ out[n].to \in Nat
    BY <2>1 DEF OutputItem
  <2>3. out[n].type # "EOF"
    BY DEF Eofs
  <2>4. out[n].from <= out[n].to /\ out[n].to < Frontier
    BY <2>2, <2>3 DEF IInv, ItemInPlace
  <2> QED BY <2>1, <2>2, <2>3, <2>4
<1>2. \A e \in ReportedAt : e < Frontier
  BY <1>1 DEF ReportedAt
<1>3. Delivered.at < Frontier /\ Delivered.type # "EOF"
  <2>1. CASE Tokens = {}
    <3>1. Delivered = [type |-> "NONE", at |-> 0] /\ Frontier \in Nat
      BY <2>1, FrontierType DEF Delivered, Tokens, IInv
    <3> QED BY <3>1
  <2>2. CASE Tokens # {}
    <3> DEFINE n == CHOOSE n \in Tokens : \A m \in Tokens : m <= n
    <3>1. n \in Tokens
      BY <2>2 DEF LastExists, IsLast
    <3>2. Delivered = [type |-> out[n].type, at |-> out[n].from]
      BY <2>2 DEF Delivered, Tokens
    <3>3. n \in DOMAIN out
      BY <3>1 DEF Tokens
    <3> HIDE DEF n
    <3> QED BY <1>1, <3>2, <3>3
  <2> QED BY <2>1, <2>2
<1>4. \A e \in ReportedAt : Frontier > e
  <2>1. Frontier \in Nat /\ \A e \in ReportedAt : e \in Nat
    <3>1. ASSUME NEW n \in DOMAIN out PROVE out[n].from \in Nat
      <4>1. out[n] \in OutputItem
        BY LenProperties, ElementOfSeq DEF IInv, TypeOK
      <4> QED BY <4>1 DEF OutputItem
    <3> QED BY <3>1, FrontierType DEF ReportedAt, IInv
  <2> QED BY <1>2, <2>1
<1> QED BY <1>3, <1>4 DEF Stream!Beyond

(* The type of the token that a state makes is not EOF. *)
LEMMA TypeOfNotEof ==
  ASSUME NEW s \in TokenStates, NEW t
  PROVE  TypeOf(s, t) # "EOF"
<1>1. CASE s = "WORD"
  <2>1. CASE \E w \in Reserved : w.text = t
    <3>1. (CHOOSE w \in Reserved : w.text = t) \in Reserved
      BY <2>1
    <3>2. \A w \in Reserved : w.type # "EOF"
      BY DEF Reserved
    <3>3. TypeOf(s, t) = (CHOOSE w \in Reserved : w.text = t).type
      BY <1>1, <2>1 DEF TypeOf
    <3> QED BY <3>1, <3>2, <3>3
  <2>2. CASE ~\E w \in Reserved : w.text = t
    BY <1>1, <2>2 DEF TypeOf
  <2> QED BY <2>1, <2>2
<1>2. CASE s # "WORD"
  BY <1>2 DEF TypeOf, TokenStates
<1> QED BY <1>1, <1>2

(* Only what looks like the end of the file ends the stream. *)
LEMMA OnlyEofEnds ==
  ASSUME state = "START", New = "EOF"
  PROVE  character = "EOF"
<1>1. \A k \in Classes : FromStart(k) = "EOF" => k = "EOF"
  BY DEF FromStart, Classes
<1>2. Class(character) \in Classes
  BY ClassType
<1>3. New = FromStart(Class(character))
  BY DEF New, NextState
<1>4. Class(character) = "EOF"
  BY <1>1, <1>2, <1>3
<1> QED BY <1>4 DEF Class

StreamStep == [Stream!Next]_<<Delivered, ReportedAt>>

(* Nothing is put out before the end. *)
LEMMA SilentStep ==
  ASSUME StreamInv, UNCHANGED out
  PROVE  /\ LastExists' /\ StreamStep /\ Eofs' = Eofs
         /\ Eofs = {} => EofIsTheEnd'
<1>1. Tokens' = Tokens /\ Eofs' = Eofs
  BY DEF Tokens, Eofs
<1>2. \A n \in Tokens : IsLast(n) => IsLast(n)'
  BY <1>1 DEF IsLast
<1>3. LastExists'
  BY <1>1, <1>2 DEF LastExists, StreamInv
<1>4. Delivered' = Delivered /\ ReportedAt' = ReportedAt
  BY DEF Delivered, ReportedAt
<1> QED BY <1>1, <1>3, <1>4 DEF StreamStep, EofIsTheEnd

(* An error is beyond all that was put out. *)
LEMMA ErrorStep ==
  ASSUME StreamInv, NEW x \in OutputItem, out' = Append(out, x),
         x.kind = "error", x.type # "EOF", x.from = Frontier, Frontier >= 1,
         Eofs = {}
  PROVE  LastExists' /\ EofIsTheEnd' /\ StreamStep
<1>1. out \in Seq(OutputItem) /\ IInv /\ LastExists
  BY DEF StreamInv, IInv, TypeOK
<1>2. Stream!Beyond(Frontier) /\ Delivered.type # "EOF"
  BY <1>1, FrontierBeyond
<1>3. Delivered' = Delivered /\ ReportedAt' = ReportedAt \cup {x.from} /\ LastExists'
  BY <1>1, ErrorAppended
<1>4. Stream!Report
  <2>1. x.from \in ReportedAt' /\ Stream!Beyond(x.from)
    BY <1>2, <1>3
  <2> QED BY <1>2, <1>3, <2>1 DEF Stream!Report
<1>5. Eofs' = {}
  BY <1>1, OutOnward DEF Eofs
<1> QED BY <1>3, <1>4, <1>5 DEF EofIsTheEnd, StreamStep, Stream!Next

(* So is a token. *)
LEMMA TokenStep ==
  ASSUME StreamInv, NEW x \in OutputItem, out' = Append(out, x),
         x.kind = "token", x.from = Frontier, Frontier >= 1, Eofs = {}
  PROVE  LastExists' /\ StreamStep
<1>1. out \in Seq(OutputItem) /\ IInv /\ LastExists
  BY DEF StreamInv, IInv, TypeOK
<1>2. Stream!Beyond(Frontier) /\ Delivered.type # "EOF"
  BY <1>1, FrontierBeyond
<1>3. /\ Delivered' = [type |-> x.type, at |-> x.from] /\ ReportedAt' = ReportedAt
      /\ LastExists'
  BY <1>1, TokenAppended
<1>4. DOMAIN Delivered' = {"type", "at"} /\ Delivered'.at = Frontier
  BY <1>3
<1>5. Stream!Deliver
  BY <1>2, <1>3, <1>4 DEF Stream!Deliver
<1> QED BY <1>3, <1>5 DEF StreamStep, Stream!Next

(* In a text nothing has ended, and it begins beyond all that was put out. *)
LEMMA InText ==
  ASSUME StreamInv, running, state \in Reading
  PROVE  Eofs = {} /\ Frontier = from /\ Frontier >= 1
<1>1. state # "START"
  BY DEF Reading, TokenStates
<1>2. from \in 1..(Here - 1) /\ Here \in Nat
  BY FrontierType DEF StreamInv, IInv, TextRead
<1> QED BY <1>1, <1>2 DEF StreamInv, EofIsTheEnd, Frontier

(* lex() is called, perhaps behind the end. *)
LEMMA LexStream ==
  ASSUME StreamInv, Lex
  PROVE  LastExists' /\ EofIsTheEnd' /\ StreamStep
<1>1. /\ UNCHANGED out /\ state' = "START"
  BY DEF Lex
<1>2. LastExists' /\ StreamStep /\ Eofs' = Eofs /\ (Eofs = {} => EofIsTheEnd')
  BY <1>1, SilentStep
<1>3. CASE Eofs # {}
  <2>1. ended /\ lookahead = "NUL"
    BY <1>3 DEF StreamInv, EofIsTheEnd
  <2>2. ended' = TRUE /\ UNCHANGED source /\ lookahead' = "NUL"
    BY <2>1 DEF Lex, Fgetc
  <2>3. Tokens' = Tokens
    BY <1>1 DEF Tokens
  <2> QED BY <1>1, <1>2, <2>2, <2>3 DEF StreamInv, EofIsTheEnd
<1> QED BY <1>2, <1>3

(* Behind the end nothing is read. *)
LEMMA AdvanceStream ==
  ASSUME StreamInv, Advance, "0xFF" \notin Chars
  PROVE  LastExists' /\ EofIsTheEnd' /\ StreamStep
<1>1. UNCHANGED out
  BY DEF Advance
<1>2. LastExists' /\ StreamStep /\ Eofs' = Eofs /\ (Eofs = {} => EofIsTheEnd')
  BY <1>1, SilentStep
<1>3. ASSUME Eofs # {} PROVE FALSE
  <2>1. running /\ state = "START" /\ ended /\ CharacterRead(character)
    BY <1>3 DEF StreamInv, EofIsTheEnd, IInv, TextRead, Advance
  <2>2. character = "EOF"
    BY <2>1 DEF CharacterRead
  <2>3. New = "EOF"
    BY <2>1, <2>2, NewState DEF StreamInv, IInv, TypeOK
  <2> QED BY <2>3 DEF Advance
<1> QED BY <1>2, <1>3

(* An invalid text is reported beyond all that was put out. *)
LEMMA ReportStream ==
  ASSUME StreamInv, running, state \in Reading,
         NEW t, t = TooLong \/ (t = text /\ Len(text) < TextSize),
         out' = Append(out, Item("error", "INVALID", t, 0, text_loc, from, Here - 1))
  PROVE  LastExists' /\ EofIsTheEnd' /\ StreamStep
<1>1. Eofs = {} /\ Frontier = from /\ Frontier >= 1
  BY InText
<1>2. PICK x : x = Item("error", "INVALID", t, 0, text_loc, from, Here - 1)
  OBVIOUS
<1>3. x \in OutputItem /\ x.from = Frontier
  <2>1. "INVALID" \in Types /\ "error" \in {"token", "error"} /\ 0 \in Int /\ IInv
    BY DEF Types, StreamInv
  <2> QED BY <1>2, <2>1, ItemOfText
<1>4. out' = Append(out, x) /\ x.kind = "error" /\ x.type # "EOF"
  BY <1>2 DEF Item
<1> QED BY <1>1, <1>3, <1>4, ErrorStep

(* A token is delivered. *)
LEMMA DeliverStream ==
  ASSUME StreamInv, Deliver
  PROVE  LastExists' /\ EofIsTheEnd' /\ StreamStep
<1>1. /\ IInv /\ running /\ state \in TokenStates /\ state \in Reading
      /\ Len(text) < TextSize
  <2>1. Len(text) \in Nat /\ Len(text) <= TextSize
    BY LenProperties DEF StreamInv, IInv, TypeOK
  <2> QED BY <2>1, ScannerAssumption DEF Deliver, StreamInv, Reading
<1>2. Eofs = {} /\ Frontier = from /\ Frontier >= 1
  BY <1>1, InText
<1>3. PICK v \in (IF state = "LITERAL" THEN Atoi(text) ELSE {0}) :
        out' = Append(out, Item("token", TypeOf(state, text), text, v, text_loc,
                                from, Here - 1))
  BY DEF Deliver
<1>4. PICK x : x = Item("token", TypeOf(state, text), text, v, text_loc, from, Here - 1)
  OBVIOUS
<1>5. x \in OutputItem /\ x.from = Frontier
  <2>1. v \in Int /\ TypeOf(state, text) \in Types /\ "token" \in {"token", "error"}
    BY <1>1, <1>3, AtoiType, TypeOfType
  <2> QED BY <1>1, <1>4, <2>1, ItemOfText
<1>6. out' = Append(out, x) /\ x.kind = "token" /\ x.type # "EOF"
  BY <1>1, <1>3, <1>4, TypeOfNotEof DEF Item
<1>7. LastExists' /\ StreamStep
  BY <1>2, <1>5, <1>6, TokenStep
<1>8. Eofs' = {}
  BY <1>1, <1>2, <1>5, <1>6, OutOnward DEF Eofs, IInv, TypeOK
<1> QED BY <1>7, <1>8 DEF EofIsTheEnd

(* The end is delivered, once as a token and then as the same one. *)
LEMMA DeliverEofStream ==
  ASSUME StreamInv, DeliverEof, "0xFF" \notin Chars
  PROVE  LastExists' /\ EofIsTheEnd' /\ StreamStep
<1>1. /\ IInv /\ running /\ state = "START" /\ lookahead = "NUL"
      /\ CharacterRead(character) /\ source \in Seq(Chars) /\ Len(source) \in Nat
      /\ out \in Seq(OutputItem) /\ ended \in BOOLEAN
  BY LenProperties DEF DeliverEof, StreamInv, IInv, TypeOK, TextRead
<1>2. character = "EOF" /\ ended /\ Here = Len(source) + 1
  <2>1. character = "EOF"
    BY OnlyEofEnds DEF DeliverEof
  <2> QED BY <1>1, <2>1, EndIsEof DEF Here
<1>3. PICK x : x = Item("token", "EOF", << >>, 0, loc, Here, Here)
  OBVIOUS
<1>4. /\ x \in OutputItem /\ x.type = "EOF" /\ x.kind = "token"
      /\ x.from = Len(source) + 1 /\ out' = Append(out, x)
  <2>1. "EOF" \in Types /\ << >> \in Seq(Characters) /\ 0 \in Int
    BY EmptySeq DEF Types
  <2> QED BY <1>1, <1>2, <1>3, <2>1 DEF DeliverEof, Item, OutputItem, IInv, TypeOK
<1>5. Frontier = x.from /\ Frontier >= 1
  BY <1>1, <1>2, <1>4 DEF Frontier, Reading, TokenStates
<1>6. Delivered' = [type |-> "EOF", at |-> Len(source) + 1] /\ ReportedAt' = ReportedAt
      /\ LastExists'
  BY <1>1, <1>4, TokenAppended
<1>7. StreamStep
  <2>1. CASE Eofs = {}
    BY <1>4, <1>5, <2>1, TokenStep
  <2>2. CASE Eofs # {}
    <3> DEFINE n == CHOOSE n \in Tokens : \A m \in Tokens : m <= n
    <3>1. PICK m \in Eofs : m \in Tokens
      BY <2>2 DEF StreamInv, EofIsTheEnd
    <3>2. n \in Tokens /\ m <= n
      BY <3>1 DEF StreamInv, LastExists, IsLast
    <3>3. n \in Eofs
      BY <3>1, <3>2 DEF StreamInv, EofIsTheEnd, Tokens
    <3>4. Delivered = [type |-> out[n].type, at |-> out[n].from]
      BY <3>1 DEF Delivered, Tokens
    <3>5. out[n].type = "EOF" /\ out[n].from = Len(source) + 1
      BY <3>3 DEF StreamInv, EofIsTheEnd, Eofs
    <3> HIDE DEF n
    <3>6. Delivered' = Delivered
      BY <1>6, <3>4, <3>5
    <3> QED BY <1>6, <3>6 DEF StreamStep
  <2> QED BY <2>1, <2>2
<1>8. EofIsTheEnd'
  <2>1. /\ Len(out) \in Nat /\ DOMAIN out = 1..Len(out)
        /\ DOMAIN out' = 1..(Len(out) + 1)
        /\ \A n \in 1..Len(out) : out'[n] = out[n]
        /\ out'[Len(out) + 1] = x
    BY <1>1, <1>4, OutOnward
  <2>2. Eofs' = Eofs \cup {Len(out) + 1} /\ Tokens' = Tokens \cup {Len(out) + 1}
    BY <1>4, <2>1 DEF Eofs, Tokens
  <2>3. Eofs \subseteq 1..Len(out)
    BY <2>1 DEF Eofs
  <2>4. UNCHANGED <<source, ended, lookahead>> /\ ~running'
    BY DEF DeliverEof, file
  <2>5. ASSUME NEW n \in Eofs' PROVE ended' /\ n \in Tokens' /\ out'[n].from = Len(source') + 1
    BY <1>2, <1>4, <2>1, <2>2, <2>3, <2>4 DEF StreamInv, EofIsTheEnd
  <2>6. ASSUME NEW m \in Eofs', NEW n \in DOMAIN out', m <= n PROVE n \in Eofs'
    <3>1. CASE n = Len(out) + 1
      BY <2>2, <3>1
    <3>2. CASE n \in 1..Len(out)
      <4>1. m \in Eofs
        BY <2>2, <2>6, <3>2, <2>1
      <4> QED BY <2>1, <2>2, <2>6, <3>2, <4>1 DEF StreamInv, EofIsTheEnd
    <3> QED BY <2>1, <3>1, <3>2
  <2> QED BY <1>1, <2>4, <2>5, <2>6 DEF EofIsTheEnd
<1> QED BY <1>6, <1>7, <1>8

(* Every step of the scanner is a step of the stream or none. *)
LEMMA NextStream ==
  ASSUME StreamInv, [Next]_vars, "0xFF" \notin Chars
  PROVE  StreamInv' /\ StreamStep
<1> SUFFICES LastExists' /\ EofIsTheEnd' /\ StreamStep
  BY NextIInv DEF StreamInv
<1>1. CASE ReportInvalid
  <2> DEFINE t == IF Len(text) < TextSize THEN text ELSE TooLong
  <2>1. /\ running /\ state \in Reading
        /\ out' = Append(out, Item("error", "INVALID", t, 0, text_loc, from, Here - 1))
        /\ (t = TooLong \/ (t = text /\ Len(text) < TextSize))
    BY <1>1 DEF ReportInvalid, Reading
  <2> HIDE DEF t
  <2> QED BY <2>1, ReportStream
<1>2. CASE ReportTooLong
  BY <1>2, ReportStream DEF ReportTooLong, Reading
<1>3. CASE UNCHANGED vars
  <2>1. UNCHANGED out
    BY <1>3 DEF vars
  <2>2. LastExists' /\ StreamStep /\ Eofs' = Eofs
    BY <2>1, SilentStep
  <2>3. Tokens' = Tokens
    BY <2>1 DEF Tokens
  <2> QED BY <1>3, <2>2, <2>3 DEF vars, StreamInv, EofIsTheEnd
<1> QED BY <1>1, <1>2, <1>3, LexStream, AdvanceStream, DeliverStream, DeliverEofStream
        DEF Next, Loop, Done

(* Before the first call the stream has delivered nothing. *)
LEMMA InitStream == Init => StreamInv /\ Stream!Init
<1> SUFFICES ASSUME Init PROVE LastExists /\ EofIsTheEnd /\ Stream!Init
  BY InitIInv DEF StreamInv
<1>1. DOMAIN out = {}
  BY DEF Init
<1>2. Tokens = {} /\ Eofs = {} /\ {m \in DOMAIN out : out[m].kind = "error"} = {}
  BY <1>1 DEF Tokens, Eofs
<1>3. Delivered = [type |-> "NONE", at |-> 0]
  BY <1>2 DEF Delivered, Tokens
<1>4. ReportedAt = {}
  BY <1>2 DEF ReportedAt
<1> QED BY <1>2, <1>3, <1>4 DEF LastExists, EofIsTheEnd, Stream!Init

(***************************************************************************)
(* The scanner is the stream of tokens that the parser is modelled         *)
(* against: everything it puts out is beyond what it put out before, and   *)
(* the end of the file comes once and for all, without another error, in   *)
(* every source without the byte 255, which a char cannot tell from the    *)
(* end (scanner.c:79, :137).                                               *)
(***************************************************************************)
THEOREM StreamImplemented ==
  ASSUME "0xFF" \notin Chars
  PROVE  Spec => ImplementsTokenStream
<1>1. Init => StreamInv /\ Stream!Init
  BY InitStream
<1>2. StreamInv /\ [Next]_vars => StreamInv' /\ [Stream!Next]_<<Delivered, ReportedAt>>
  BY NextStream DEF StreamStep
<1> QED BY <1>1, <1>2, PTL DEF Spec, ImplementsTokenStream, Stream!Spec

-----------------------------------------------------------------------------
(***************************************************************************)
(* Recursion: a function that is computed at each place from the places    *)
(* behind it exists.  This is induction on the length of the source.       *)
(***************************************************************************)
(* The order of the numbers is well-founded, *)
LEMMA NatOrder ==
  \E R : IsWellFoundedOn(R, Nat) /\ \A x, y \in Nat : x < y => <<x, y>> \in R
<1>1. \A x, y \in Nat : x < y => <<x, y>> \in OpToRel(<, Nat)
  BY DEF OpToRel
<1> QED
  BY <1>1, NatLessThanWellFounded

(* so that there is a least one: induction, without an operator. *)
LEMMA Smallest ==
  ASSUME NEW T, T \subseteq Nat, T # {}
  PROVE  \E m \in T : \A n \in T : m <= n
<1>1. PICK R : IsWellFoundedOn(R, Nat) /\ \A x, y \in Nat : x < y => <<x, y>> \in R
  BY NatOrder
<1>2. \E x \in T : \A y \in T : ~ (<<y, x>> \in R)
  <2>1. IsWellFoundedOn(R, Nat)
    BY <1>1
  <2> QED
    BY <2>1, WFMin
<1>3. PICK m \in T : \A y \in T : ~ (<<y, m>> \in R)
  BY <1>2
<1>4. \A n \in T : m <= n
  <2> TAKE n \in T
  <2>1. m \in Nat /\ n \in Nat
    OBVIOUS
  <2>2. ~ (n < m)
    BY <1>1, <1>3, <2>1, Zenon
  <2> QED
    BY <2>1, <2>2
<1> QED
  BY <1>4

(* In a bounded set there is a greatest one, too. *)
LEMMA Greatest ==
  ASSUME NEW n \in Nat, NEW T, T \subseteq 0..n, T # {}
  PROVE  \E m \in T : \A k \in T : k <= m
<1> DEFINE U == {n - k : k \in T}
<1>1. U \subseteq Nat /\ U # {}
  <2>1. U \subseteq Nat
    OBVIOUS
  <2>2. PICK k \in T : TRUE
    OBVIOUS
  <2>3. n - k \in U
    OBVIOUS
  <2> QED
    BY <2>1, <2>3
<1>2. PICK u \in U : \A v \in U : u <= v
  <2> HIDE DEF U
  <2> QED
    BY <1>1, Smallest
<1>3. PICK m \in T : u = n - m
  OBVIOUS
<1>4. \A k \in T : k <= m
  <2> TAKE k \in T
  <2>1. n - k \in U /\ k \in Nat /\ m \in Nat
    OBVIOUS
  <2>2. u <= n - k
    BY <1>2, <2>1
  <2> QED
    BY <1>3, <2>1, <2>2
<1> QED
  BY <1>4

(* What is computed from those above exists. *)
Regards(h, n, S) ==
  /\ \A m \in 1..n : \A f \in [1..n -> S] : h[m][f] \in S
  /\ \A m \in 1..n : \A f, g \in [1..n -> S] :
       (\A k \in (m + 1)..n : f[k] = g[k]) => h[m][f] = h[m][g]

Solves(f, h, k, n, S) == f \in [1..n -> S] /\ \A m \in k..n : f[m] = h[m][f]

LEMMA Recurrent ==
  ASSUME NEW n \in Nat, NEW S, S # {}, NEW h, Regards(h, n, S)
  PROVE  \E f : Solves(f, h, 1, n, S)
<1> DEFINE From(k) == \E f : Solves(f, h, k, n, S)
           T == {k \in 0..(n + 1) : k >= 1 /\ ~From(k)}
<1> SUFFICES ASSUME T # {} PROVE FALSE
  <2>1. T = {} => From(1)
    <3> HIDE DEF From
    <3> QED
      OBVIOUS
  <2> QED
    BY <2>1
<1>1. PICK m \in T : \A k \in T : k <= m
  <2>1. T \subseteq 0..(n + 1)
    OBVIOUS
  <2>2. n + 1 \in Nat
    OBVIOUS
  <2> HIDE DEF T
  <2> QED
    BY <2>1, <2>2, Greatest
<1>2. m \in 1..(n + 1) /\ ~From(m)
  OBVIOUS
<1>3. m # n + 1
  <2>1. PICK a \in S : TRUE
    OBVIOUS
  <2>2. PICK f : f = [i \in 1..n |-> a]
    OBVIOUS
  <2>3. f \in [1..n -> S] /\ \A k \in (n + 1)..n : f[k] = h[k][f]
    BY <2>2
  <2>4. From(n + 1)
    BY <2>3 DEF Solves
  <2> HIDE DEF From, T
  <2> QED
    BY <1>2, <2>4
<1>4. From(m + 1)
  <2> HIDE DEF From
  <2>1. m + 1 \notin T /\ m + 1 \in 1..(n + 1)
    BY <1>1, <1>2, <1>3
  <2> QED
    BY <2>1
<1>5. PICK f : Solves(f, h, m + 1, n, S)
  BY <1>4
<1>6. m \in 1..n /\ f \in [1..n -> S] /\ \A k \in (m + 1)..n : f[k] = h[k][f]
  BY <1>2, <1>3, <1>5 DEF Solves
<1>7. PICK g : g = [f EXCEPT ![m] = h[m][f]]
  OBVIOUS
<1>8. g \in [1..n -> S]
  BY <1>6, <1>7 DEF Regards
<1>9. g[m] = h[m][f] /\ \A k \in (m + 1)..n : k \in 1..n /\ g[k] = f[k]
  BY <1>6, <1>7
<1>10. \A k \in m..n : g[k] = h[k][g]
  <2> TAKE k \in m..n
  <2>1. h[k][f] = h[k][g]
    <3>1. k \in 1..n /\ \A l \in (k + 1)..n : f[l] = g[l]
      BY <1>6, <1>9
    <3> QED
      BY <1>6, <1>8, <3>1 DEF Regards
  <2>2. CASE k = m
    BY <1>9, <2>1, <2>2
  <2>3. CASE k # m
    BY <1>6, <1>9, <2>1, <2>3
  <2> QED
    BY <2>2, <2>3
<1>11. From(m)
  BY <1>8, <1>10 DEF Solves
<1> HIDE DEF From
<1> QED
  BY <1>2, <1>11

-----------------------------------------------------------------------------
(***************************************************************************)
(* What has been read of a source s.  In the state st of a token the text  *)
(* from a to b is a beginning of a lexeme of that kind: these are the      *)
(* columns and rows of Transition_Table, read as sets of texts.            *)
(***************************************************************************)
ReadAs(s, st, a, b) ==
  /\ a <= b /\ b <= Len(s)
  /\ st = "WORD" => IsWord(s, a, b)
  /\ st = "LITERAL" => IsLiteral(s, a, b)
  /\ st \in {"NEQ", "LTE", "GTE", "ASSIGN"} => b = a + 1
  /\ st \in TokenStates \ {"WORD", "LITERAL", "NEQ", "LTE", "GTE", "ASSIGN"} => b = a
  /\ st = "SIGN" => s[a] \in {"+", "-"}
  /\ st = "OPERATOR" => s[a] \in {"*", "/"}
  /\ st \in {"LT", "NEQ", "LTE"} => s[a] = "<"
  /\ st \in {"GT", "GTE"} => s[a] = ">"
  /\ st \in {"COLON", "ASSIGN"} => s[a] = ":"
  /\ st \in {"LTE", "GTE", "ASSIGN"} => s[b] = "="
  /\ st = "NEQ" => s[b] = ">"
  /\ st = "EQ" => s[a] = "="
  /\ st = "SEMICOLON" => s[a] = ";"
  /\ st = "PAREN" => s[a] \in {"(", ")"}

(* Text without a blank or a comment, and the place of no lexeme. *)
Solid(s, a, b) == \A r \in a..b : s[r] \notin Blanks \cup {"#"}
Invalid(s, a) == LexemeEnd(s, a) < a \/ Clash(s, a, LexemeEnd(s, a))

(* The text of the loop is what its state says. *)
ReadsOn(s) ==
  running =>
    /\ state \in TokenStates => ReadAs(s, state, from, Here - 1)
    /\ state = "ERROR" => from <= Here - 1 /\ Solid(s, from, Here - 1) /\ Invalid(s, from)

(* The buffer holds no more than was read. *)
TextFits == (running /\ state \in Reading) => Len(text) <= Here - from

(* The place from which on the lexemes are still to be found. *)
Resumes(s) == IF running /\ state = "COMMENT" THEN FirstOf(s, {"#"}, Here) + 1
              ELSE Frontier

-----------------------------------------------------------------------------
(***************************************************************************)
(* The lexemes of a source s.                                              *)
(***************************************************************************)
Spans == [from : Nat, to : Int, valid : BOOLEAN]

(* The first place with one of the characters is there, or behind the end. *)
LEMMA FirstOfType ==
  ASSUME NEW s \in Seq(Chars), NEW cs, NEW p \in 1..(Len(s) + 1)
  PROVE  /\ FirstOf(s, cs, p) \in p..(Len(s) + 1)
         /\ \A r \in p..(FirstOf(s, cs, p) - 1) : s[r] \notin cs
         /\ FirstOf(s, cs, p) <= Len(s) => s[FirstOf(s, cs, p)] \in cs
<1> DEFINE at == {q \in p..Len(s) : s[q] \in cs}
<1>0. Len(s) \in Nat
  BY LenProperties
<1>1. CASE at = {}
  <2>1. FirstOf(s, cs, p) = Len(s) + 1
    BY <1>1 DEF FirstOf
  <2> QED BY <1>0, <1>1, <2>1
<1>2. CASE at # {}
  <2>1. at \subseteq Nat
    BY <1>0
  <2>2. \E q \in at : \A r \in at : q <= r
    <3> HIDE DEF at
    <3> QED BY <1>2, <2>1, Smallest
  <2>3. FirstOf(s, cs, p) = CHOOSE q \in at : \A r \in at : q <= r
    BY <1>2 DEF FirstOf
  <2>4. FirstOf(s, cs, p) \in at /\ \A r \in at : FirstOf(s, cs, p) <= r
    <3> HIDE DEF at
    <3> QED BY <2>2, <2>3
  <2> QED BY <1>0, <2>4
<1> QED BY <1>1, <1>2

(* It is known by that. *)
LEMMA FirstOfIs ==
  ASSUME NEW s \in Seq(Chars), NEW cs, NEW p \in 1..(Len(s) + 1),
         NEW e \in p..(Len(s) + 1),
         \A r \in p..(e - 1) : s[r] \notin cs,
         e <= Len(s) => s[e] \in cs
  PROVE  FirstOf(s, cs, p) = e
<1>0. Len(s) \in Nat
  BY LenProperties
<1>1. PICK f : f = FirstOf(s, cs, p)
  OBVIOUS
<1>2. /\ f \in p..(Len(s) + 1)
      /\ \A r \in p..(f - 1) : s[r] \notin cs
      /\ f <= Len(s) => s[f] \in cs
  BY <1>1, FirstOfType
<1>3. ~(f < e)
  BY <1>0, <1>2
<1>4. ~(e < f)
  BY <1>0, <1>2
<1> QED BY <1>0, <1>1, <1>2, <1>3, <1>4

(* The longest lexeme ends in the source, or there is none. *)
Lexeme(s, p, q) == IsWord(s, p, q) \/ IsLiteral(s, p, q) \/ IsSymbol(s, p, q)

LEMMA LexemeEndType ==
  ASSUME NEW s \in Seq(Chars), NEW p \in 1..Len(s)
  PROVE  LexemeEnd(s, p) \in (p - 1)..Len(s)
<1> DEFINE ends == {q \in p..Len(s) : IsWord(s, p, q) \/ IsLiteral(s, p, q) \/ IsSymbol(s, p, q)}
<1>0. Len(s) \in Nat
  BY LenProperties
<1>1. CASE ends = {}
  BY <1>0, <1>1 DEF LexemeEnd
<1>2. CASE ends # {}
  <2>1. ends \subseteq 0..Len(s)
    BY <1>0
  <2>2. \E q \in ends : \A r \in ends : r <= q
    <3> HIDE DEF ends
    <3> QED BY <1>0, <1>2, <2>1, Greatest
  <2>3. LexemeEnd(s, p) = CHOOSE q \in ends : \A r \in ends : r <= q
    BY <1>2 DEF LexemeEnd
  <2>4. LexemeEnd(s, p) \in ends
    <3> HIDE DEF ends
    <3> QED BY <2>2, <2>3
  <2> QED BY <1>0, <2>4
<1> QED BY <1>1, <1>2

(* A lexeme that none exceeds is the longest. *)
LEMMA LexemeEndIs ==
  ASSUME NEW s \in Seq(Chars), NEW p \in 1..Len(s), NEW q \in p..Len(s),
         Lexeme(s, p, q), \A r \in (q + 1)..Len(s) : ~Lexeme(s, p, r)
  PROVE  LexemeEnd(s, p) = q
<1> DEFINE ends == {r \in p..Len(s) : IsWord(s, p, r) \/ IsLiteral(s, p, r) \/ IsSymbol(s, p, r)}
<1>0. Len(s) \in Nat
  BY LenProperties
<1>1. q \in ends /\ \A r \in ends : r <= q
  BY <1>0 DEF Lexeme
<1>2. LexemeEnd(s, p) = CHOOSE r \in ends : \A t \in ends : t <= r
  BY <1>1 DEF LexemeEnd
<1>3. ends \subseteq Int
  BY <1>0
<1>4. \A r \in ends : (\A t \in ends : t <= r) => r = q
  BY <1>1, <1>3
<1>5. \E r \in ends : \A t \in ends : t <= r
  BY <1>1
<1> HIDE DEF ends
<1> QED BY <1>2, <1>4, <1>5

(* What is found at a place, and where it goes on. *)
LEMMA LexemeAtType ==
  ASSUME NEW s \in Seq(Chars), NEW p \in 1..Len(s)
  PROVE  /\ LexemeAt(s, p).lexemes \in Seq(Spans)
         /\ LexemeAt(s, p).next \in (p + 1)..(Len(s) + 2)
<1> DEFINE q == LexemeEnd(s, p)
           gap == FirstOf(s, Blanks \cup {"#"}, p)
           Good(e) == <<[from |-> p, to |-> e, valid |-> TRUE]>>
           Bad(e) == <<[from |-> p, to |-> e, valid |-> FALSE]>>
<1>0. Len(s) \in Nat /\ p \in Nat /\ p + 1 \in 1..(Len(s) + 1) /\ p \in 1..(Len(s) + 1)
  BY LenProperties
<1>1. q \in (p - 1)..Len(s)
  BY LexemeEndType
<1>2. gap \in p..(Len(s) + 1) /\ (gap <= Len(s) => s[gap] \in Blanks \cup {"#"})
  BY <1>0, FirstOfType
<1>3. FirstOf(s, {"#"}, p + 1) \in (p + 1)..(Len(s) + 1)
  BY <1>0, FirstOfType
<1>4. \A e \in Int : Good(e) \in Seq(Spans) /\ Bad(e) \in Seq(Spans)
  <2> TAKE e \in Int
  <2>1. [from |-> p, to |-> e, valid |-> TRUE] \in Spans
    BY <1>0 DEF Spans
  <2>2. [from |-> p, to |-> e, valid |-> FALSE] \in Spans
    BY <1>0 DEF Spans
  <2> QED BY <2>1, <2>2
<1>5. << >> \in Seq(Spans)
  BY EmptySeq
<1> HIDE DEF q, gap, Good, Bad
<1>6. CASE s[p] \in Blanks
  <2>1. LexemeAt(s, p) = [lexemes |-> << >>, next |-> p + 1]
    BY <1>6 DEF LexemeAt
  <2> QED BY <1>0, <1>5, <2>1
<1>7. CASE s[p] \notin Blanks /\ s[p] = "#"
  <2>1. LexemeAt(s, p) = [lexemes |-> << >>, next |-> FirstOf(s, {"#"}, p + 1) + 1]
    BY <1>7 DEF LexemeAt
  <2> QED BY <1>0, <1>3, <1>5, <2>1
<1>8. CASE s[p] \notin Blanks /\ s[p] # "#" /\ (q < p \/ Clash(s, p, q))
  <2>1. LexemeAt(s, p) = [lexemes |-> Bad(gap - 1), next |-> gap]
    BY <1>8 DEF LexemeAt, Good, Bad, q, gap
  <2>2. gap # p /\ gap - 1 \in Int
    BY <1>0, <1>2, <1>8
  <2>3. Bad(gap - 1) \in Seq(Spans)
    BY <1>4, <2>2
  <2>4. gap \in (p + 1)..(Len(s) + 2)
    BY <1>0, <1>2, <2>2
  <2> QED BY <2>1, <2>3, <2>4
<1>9. CASE s[p] \notin Blanks /\ s[p] # "#" /\ ~(q < p \/ Clash(s, p, q)) /\ q - p + 1 >= TextSize
  <2>1. LexemeAt(s, p) = [lexemes |-> Bad(q), next |-> q + 2]
    BY <1>9 DEF LexemeAt, Good, Bad, q
  <2>2. Bad(q) \in Seq(Spans) /\ q + 2 \in (p + 1)..(Len(s) + 2)
    BY <1>0, <1>1, <1>4, <1>9
  <2> QED BY <2>1, <2>2
<1>10. CASE s[p] \notin Blanks /\ s[p] # "#" /\ ~(q < p \/ Clash(s, p, q)) /\ ~(q - p + 1 >= TextSize)
  <2>1. LexemeAt(s, p) = [lexemes |-> Good(q), next |-> q + 1]
    BY <1>10 DEF LexemeAt, Good, Bad, q
  <2>2. Good(q) \in Seq(Spans) /\ q + 1 \in (p + 1)..(Len(s) + 2)
    BY <1>0, <1>1, <1>4, <1>10
  <2> QED BY <2>1, <2>2
<1> QED BY <1>6, <1>7, <1>8, <1>9, <1>10

(* The recursion from the end of the source to its beginning is sound. *)
LEMMA LexemesFromFacts ==
  ASSUME NEW s \in Seq(Chars)
  PROVE  /\ \A p \in 1..(Len(s) + 2) : LexemesFrom(s)[p] \in Seq(Spans)
         /\ LexemesFrom(s)[Len(s) + 1] = << >> /\ LexemesFrom(s)[Len(s) + 2] = << >>
         /\ \A p \in 1..Len(s) :
              LexemesFrom(s)[p] = LexemeAt(s, p).lexemes \o LexemesFrom(s)[LexemeAt(s, p).next]
<1> DEFINE N == Len(s) + 2
           S == Seq(Spans)
           Upon(p, f) == IF p > Len(s) THEN << >>
                        ELSE LexemeAt(s, p).lexemes \o f[LexemeAt(s, p).next]
<1>0. Len(s) \in Nat /\ N \in Nat
  BY LenProperties
<1>1. << >> \in S /\ S # {}
  BY EmptySeq
<1>2. \A p \in 1..N : \A f \in [1..N -> S] : Upon(p, f) \in S
  <2> TAKE p \in 1..N
  <2> TAKE f \in [1..N -> S]
  <2>1. CASE p > Len(s)
    BY <1>1, <2>1
  <2>2. CASE ~(p > Len(s))
    <3>1. p \in 1..Len(s)
      BY <1>0, <2>2
    <3>2. LexemeAt(s, p).lexemes \in S /\ LexemeAt(s, p).next \in 1..N
      BY <1>0, <3>1, LexemeAtType
    <3>3. f[LexemeAt(s, p).next] \in S
      BY <3>2
    <3>4. LexemeAt(s, p).lexemes \o f[LexemeAt(s, p).next] \in S
      BY <3>2, <3>3, ConcatProperties
    <3> QED BY <2>2, <3>4
  <2> QED BY <2>1, <2>2
<1>3. \A p \in 1..N : \A f, g \in [1..N -> S] :
        (\A k \in (p + 1)..N : f[k] = g[k]) => Upon(p, f) = Upon(p, g)
  <2> TAKE p \in 1..N
  <2> TAKE f, g \in [1..N -> S]
  <2> HAVE \A k \in (p + 1)..N : f[k] = g[k]
  <2>1. CASE p > Len(s)
    BY <2>1
  <2>2. CASE ~(p > Len(s))
    <3>1. p \in 1..Len(s)
      BY <1>0, <2>2
    <3>2. LexemeAt(s, p).next \in (p + 1)..N
      BY <3>1, LexemeAtType
    <3> QED BY <2>2, <3>2
  <2> QED BY <2>1, <2>2
<1>4. PICK h : h = [p \in 1..N |-> [f \in [1..N -> S] |-> Upon(p, f)]]
  OBVIOUS
<1> HIDE DEF Upon
<1>5. \A p \in 1..N : \A f \in [1..N -> S] : h[p][f] = Upon(p, f)
  BY <1>4
<1>6. Regards(h, N, S)
  <2>1. \A p \in 1..N : \A f \in [1..N -> S] : h[p][f] \in S
    BY <1>2, <1>5
  <2>2. \A p \in 1..N : \A f, g \in [1..N -> S] :
          (\A k \in (p + 1)..N : f[k] = g[k]) => h[p][f] = h[p][g]
    <3> TAKE p \in 1..N
    <3> TAKE f, g \in [1..N -> S]
    <3> HAVE \A k \in (p + 1)..N : f[k] = g[k]
    <3>1. Upon(p, f) = Upon(p, g)
      BY <1>3
    <3> QED BY <1>5, <3>1
  <2> QED BY <2>1, <2>2 DEF Regards
<1>7. PICK f : Solves(f, h, 1, N, S)
  <2> HIDE DEF N, S
  <2> QED BY <1>0, <1>1, <1>6, Recurrent
<1>8. f \in [1..N -> S] /\ \A p \in 1..N : f[p] = Upon(p, f)
  BY <1>5, <1>7 DEF Solves
<1>9. f = [p \in 1..N |-> Upon(p, f)]
  <2>1. f = [p \in 1..N |-> f[p]]
    BY <1>8
  <2> QED BY <1>8, <2>1
<1>10. LexemesFrom(s) = CHOOSE v : v = [p \in 1..N |-> Upon(p, v)]
  BY DEF LexemesFrom, Upon
<1>11. PICK v : v = LexemesFrom(s) /\ v = [p \in 1..N |-> Upon(p, v)]
  BY <1>9, <1>10
<1>12. \A p \in 1..N : v[p] = Upon(p, v)
  BY <1>11
<1>13. \A p \in 1..Len(s) : v[p] = LexemeAt(s, p).lexemes \o v[LexemeAt(s, p).next]
  <2> TAKE p \in 1..Len(s)
  <2>1. v[p] = Upon(p, v) /\ ~(p > Len(s))
    BY <1>0, <1>12
  <2> QED BY <2>1 DEF Upon
<1>14. v[Len(s) + 1] = << >> /\ v[Len(s) + 2] = << >>
  <2>1. v[Len(s) + 1] = Upon(Len(s) + 1, v) /\ v[Len(s) + 2] = Upon(Len(s) + 2, v)
    BY <1>0, <1>12
  <2>2. Len(s) + 1 > Len(s) /\ Len(s) + 2 > Len(s)
    BY <1>0
  <2> QED BY <2>1, <2>2 DEF Upon
<1>15. \A p \in 1..N : v[p] \in S
  <2> DEFINE T == {p \in 0..N : p >= 1 /\ v[p] \notin S}
  <2> SUFFICES ASSUME T # {} PROVE FALSE
    BY <1>0
  <2>1. PICK m \in T : \A k \in T : k <= m
    <3>1. T \subseteq 0..N
      OBVIOUS
    <3> HIDE DEF T
    <3> QED BY <1>0, <3>1, Greatest
  <2>2. m \in 1..N /\ v[m] \notin S
    OBVIOUS
  <2>3. m \in 1..Len(s)
    <3>1. m # Len(s) + 1 /\ m # Len(s) + 2
      <4> HIDE DEF N, S
      <4> QED BY <1>1, <1>14, <2>2
    <3> QED BY <1>0, <2>2, <3>1
  <2>4. /\ LexemeAt(s, m).lexemes \in S
        /\ LexemeAt(s, m).next \in (m + 1)..N
    BY <2>3, LexemeAtType
  <2>5. v[LexemeAt(s, m).next] \in S
    BY <1>0, <2>1, <2>3, <2>4
  <2>6. LexemeAt(s, m).lexemes \o v[LexemeAt(s, m).next] \in S
    BY <2>4, <2>5, ConcatProperties
  <2> QED BY <1>13, <2>2, <2>3, <2>6
<1> QED BY <1>11, <1>13, <1>14, <1>15

-----------------------------------------------------------------------------
(* The class of a character says what it may be part of. *)
LEMMA ClassMeans ==
  ASSUME NEW c
  PROVE  /\ Class(c) = "WHITESPACE" <=> c \in Blanks
         /\ Class(c) = "DIGIT" <=> c \in Digits
         /\ Class(c) = "ALPHABETICAL" <=> c \in Lower \cup Upper
         /\ Class(c) = "SIGN" <=> c \in {"+", "-"}
         /\ Class(c) = "OPERATOR" <=> c \in {"*", "/"}
         /\ Class(c) = "LESS" <=> c = "<"
         /\ Class(c) = "GREATER" <=> c = ">"
         /\ Class(c) = "COLON" <=> c = ":"
         /\ Class(c) = "EQUAL" <=> c = "="
         /\ Class(c) = "SEMICOLON" <=> c = ";"
         /\ Class(c) = "PAREN" <=> c \in {"(", ")"}
         /\ Class(c) = "HASHTAG" <=> c = "#"
         /\ Class(c) = "EOF" <=> c = "EOF"
<1>1. CASE c \in Blanks
  BY <1>1, ZenonT(60) DEF Class, Blanks, Digits, Lower, Upper
<1>2. CASE c \in Digits
  BY <1>2, ZenonT(60) DEF Class, Blanks, Digits, Lower, Upper
<1>3. CASE c \in Lower \cup Upper
  <2>1. c \notin Blanks \cup Digits /\ c \notin {"+", "-", "*", "/", "<", ">", ":", "=", ";", "(", ")", "#", "EOF"}
    <3>1. CASE c \in Lower
      BY <3>1 DEF Lower, Blanks, Digits
    <3>2. CASE c \in Upper
      BY <3>2 DEF Upper, Blanks, Digits
    <3> QED BY <1>3, <3>1, <3>2
  <2>2. Class(c) = "ALPHABETICAL"
    BY <1>3, <2>1 DEF Class
  <2> QED BY <1>3, <2>1, <2>2
<1>4. CASE c \notin Blanks \cup Digits \cup Lower \cup Upper
  BY <1>4 DEF Class
<1> QED BY <1>1, <1>2, <1>3, <1>4

(* So have the symbols. *)
LEMMA ClassOfSymbols ==
  ASSUME NEW c
  PROVE  /\ c \in Signs <=> Class(c) \in OperatorClasses
         /\ c \in Separators <=> Class(c) \in {"SEMICOLON", "PAREN"}
BY ClassMeans DEF Signs, Separators, OperatorClasses

(* What no lexeme, blank or comment has is unknown. *)
LEMMA ClassUnknown ==
  ASSUME NEW c, c # "EOF"
  PROVE  Class(c) = "UNKNOWN" <=>
           c \notin Lower \cup Upper \cup Digits \cup Blanks \cup Signs
                    \cup Separators \cup {"#"}
<1>1. Class(c) \in Classes
  BY ClassType
<1> QED BY <1>1, ClassMeans, ClassOfSymbols DEF Classes, OperatorClasses

(* The symbols have one character or two. *)
Pair(c, d) == (c = ":" /\ d = "=") \/ (c = "<" /\ d = ">")
              \/ (c = "<" /\ d = "=") \/ (c = ">" /\ d = "=")

LEMMA SymbolIs ==
  ASSUME NEW s \in Seq(Chars), NEW p \in 1..Len(s), NEW q \in p..Len(s)
  PROVE  IsSymbol(s, p, q) <=> \/ q = p /\ s[p] \in Signs \cup Separators
                               \/ q = p + 1 /\ Pair(s[p], s[q])
<1> DEFINE t == SubSeq(s, p, q)
<1>0. Len(s) \in Nat /\ \A i \in p..q : s[i] \in Chars
  BY LenProperties, ElementOfSeq
<1>1. /\ t \in Seq(Chars) /\ Len(t) = q - p + 1
      /\ \A i \in 1..(q - p + 1) : t[i] = s[p + i - 1]
  BY <1>0, SubSeqProperties
<1>2. t[1] = s[p] /\ (q = p + 1 => t[2] = s[q])
  BY <1>0, <1>1
<1>3. ASSUME IsSymbol(s, p, q)
      PROVE  \/ q = p /\ s[p] \in Signs \cup Separators
             \/ q = p + 1 /\ Pair(s[p], s[q])
  <2>1. t \in {<<c>> : c \in Signs \cup Separators}
             \cup {<<":", "=">>, <<"<", ">">>, <<"<", "=">>, <<">", "=">>}
    BY <1>3 DEF IsSymbol
  <2> HIDE DEF t
  <2>2. CASE t \in {<<c>> : c \in Signs \cup Separators}
    <3>1. PICK c \in Signs \cup Separators : t = <<c>>
      BY <2>2
    <3>2. Len(t) = 1 /\ t[1] = c
      BY <3>1
    <3>3. q - p + 1 = 1 /\ s[p] = c
      BY <1>1, <1>2, <3>2
    <3>4. q = p
      BY <1>0, <3>3
    <3> QED BY <3>3, <3>4
  <2>3. CASE t \in {<<":", "=">>, <<"<", ">">>, <<"<", "=">>, <<">", "=">>}
    <3>1. Len(t) = 2 /\ Pair(t[1], t[2])
      BY <2>3 DEF Pair
    <3>2. q = p + 1
      <4>1. q - p + 1 = 2
        BY <1>1, <3>1
      <4> QED BY <1>0, <4>1
    <3> QED BY <1>2, <3>1, <3>2
  <2> QED BY <2>1, <2>2, <2>3
<1>4. ASSUME q = p, s[p] \in Signs \cup Separators
      PROVE  IsSymbol(s, p, q)
  <2>1. t = <<s[p]>>
    <3>1. <<s[p]>> \in Seq(Chars) /\ Len(<<s[p]>>) = 1 /\ <<s[p]>>[1] = s[p]
      BY <1>0
    <3>2. Len(t) = 1
      BY <1>0, <1>1, <1>4
    <3> HIDE DEF t
    <3>3. \A i \in 1..Len(t) : t[i] = <<s[p]>>[i]
      BY <1>2, <3>1, <3>2
    <3> QED BY <1>1, <3>1, <3>2, <3>3, SeqEqual
  <2> QED BY <1>4, <2>1 DEF IsSymbol
<1>5. ASSUME q = p + 1, Pair(s[p], s[q])
      PROVE  IsSymbol(s, p, q)
  <2>1. t = <<s[p], s[q]>>
    <3>1. /\ <<s[p], s[q]>> \in Seq(Chars) /\ Len(<<s[p], s[q]>>) = 2
          /\ <<s[p], s[q]>>[1] = s[p] /\ <<s[p], s[q]>>[2] = s[q]
      BY <1>0
    <3>2. Len(t) = 2
      BY <1>0, <1>1, <1>5
    <3> HIDE DEF t
    <3>3. \A i \in 1..Len(t) : t[i] = <<s[p], s[q]>>[i]
      BY <1>2, <1>5, <3>1, <3>2
    <3> QED BY <1>1, <3>1, <3>2, <3>3, SeqEqual
  <2> QED BY <1>5, <2>1 DEF IsSymbol, Pair
<1> QED BY <1>3, <1>4, <1>5

-----------------------------------------------------------------------------
(* The character at a place. *)
CharAt(s, p) == IF p > Len(s) THEN "EOF" ELSE s[p]

(* A token goes on. *)
LEMMA TokenGoesOn ==
  ASSUME NEW s \in Seq(Chars), NEW a \in 1..Len(s), NEW b \in a..Len(s),
         NEW st \in TokenStates, ReadAs(s, st, a, b), NEW st2 \in TokenStates,
         st2 = FromToken(st, Class(CharAt(s, b + 1)))
  PROVE  b + 1 \in a..Len(s) /\ ReadAs(s, st2, a, b + 1)
<1>0. Len(s) \in Nat /\ a \in Nat /\ b \in Nat
  BY LenProperties
<1>1. PICK c : c = CharAt(s, b + 1)
  OBVIOUS
<1>2. PICK k : k = Class(c) /\ k \in Classes
  BY ClassType
<1>3. st2 = FromToken(st, k)
  BY <1>1, <1>2
<1>4. k # "EOF"
  BY <1>2, <1>3, FromTokenType DEF TokenStates
<1>5. b + 1 <= Len(s) /\ c = s[b + 1]
  <2>1. c # "EOF"
    BY <1>2, <1>4, ClassOfNamed
  <2> QED BY <1>0, <1>1, <2>1 DEF CharAt
<1>13. PICK e : e = b + 1
  OBVIOUS
<1>14. e \in a..Len(s) /\ a <= e /\ e <= Len(s) /\ c = s[e]
  BY <1>0, <1>5, <1>13
<1>6. \/ st \in {"LITERAL", "SIGN"} /\ k = "DIGIT" /\ st2 = "LITERAL"
      \/ st = "WORD" /\ k \in {"DIGIT", "ALPHABETICAL"} /\ st2 = "WORD"
      \/ st = "LT" /\ k = "GREATER" /\ st2 = "NEQ"
      \/ st = "LT" /\ k = "EQUAL" /\ st2 = "LTE"
      \/ st = "COLON" /\ k = "EQUAL" /\ st2 = "ASSIGN"
      \/ st = "GT" /\ k = "EQUAL" /\ st2 = "GTE"
  BY <1>3 DEF FromToken, TokenStates
<1>7. CASE st \in {"LITERAL", "SIGN"} /\ k = "DIGIT" /\ st2 = "LITERAL"
  <2>1. c \in Digits
    BY <1>2, <1>7, ClassMeans
  <2>2. IsLiteral(s, a, e)
    <3>1. CASE st = "LITERAL"
      <4>1. IsLiteral(s, a, b)
        BY <3>1 DEF ReadAs, TokenStates
      <4> QED BY <1>0, <1>13, <1>14, <2>1, <4>1 DEF IsLiteral
    <3>2. CASE st = "SIGN"
      <4>1. a = b /\ s[a] \in {"+", "-"}
        BY <3>2 DEF ReadAs, TokenStates
      <4> QED BY <1>0, <1>13, <1>14, <2>1, <4>1 DEF IsLiteral
    <3> QED BY <1>7, <3>1, <3>2
  <2>3. ReadAs(s, "LITERAL", a, e)
    BY <1>14, <2>2 DEF ReadAs
  <2> QED BY <1>7, <1>13, <1>14, <2>3
<1>8. CASE st = "WORD" /\ k \in {"DIGIT", "ALPHABETICAL"} /\ st2 = "WORD"
  <2>1. c \in Lower \cup Upper \cup Digits
    BY <1>2, <1>8, ClassMeans
  <2>2. IsWord(s, a, b)
    BY <1>8 DEF ReadAs, TokenStates
  <2>3. IsWord(s, a, e)
    BY <1>0, <1>13, <1>14, <2>1, <2>2 DEF IsWord
  <2>4. ReadAs(s, "WORD", a, e)
    BY <1>14, <2>3 DEF ReadAs
  <2> QED BY <1>8, <1>13, <1>14, <2>4
<1>9. CASE st = "LT" /\ k = "GREATER" /\ st2 = "NEQ"
  <2>1. ReadAs(s, "LT", a, b)
    BY <1>9
  <2>2. a = b /\ s[a] = "<"
    BY <2>1 DEF ReadAs, TokenStates
  <2>3. s[e] = ">"
    BY <1>2, <1>14, <1>9, ClassMeans, ZenonT(60)
  <2>4. ReadAs(s, "NEQ", a, e)
    BY <1>13, <1>14, <2>2, <2>3 DEF ReadAs
  <2> QED BY <1>9, <1>13, <1>14, <2>4
<1>10. CASE st = "LT" /\ k = "EQUAL" /\ st2 = "LTE"
  <2>1. ReadAs(s, "LT", a, b)
    BY <1>10
  <2>2. a = b /\ s[a] = "<"
    BY <2>1 DEF ReadAs, TokenStates
  <2>3. s[e] = "="
    BY <1>2, <1>14, <1>10, ClassMeans, ZenonT(60)
  <2>4. ReadAs(s, "LTE", a, e)
    BY <1>13, <1>14, <2>2, <2>3 DEF ReadAs
  <2> QED BY <1>10, <1>13, <1>14, <2>4
<1>11. CASE st = "COLON" /\ k = "EQUAL" /\ st2 = "ASSIGN"
  <2>1. ReadAs(s, "COLON", a, b)
    BY <1>11
  <2>2. a = b /\ s[a] = ":"
    BY <2>1 DEF ReadAs, TokenStates
  <2>3. s[e] = "="
    BY <1>2, <1>14, <1>11, ClassMeans, ZenonT(60)
  <2>4. ReadAs(s, "ASSIGN", a, e)
    BY <1>13, <1>14, <2>2, <2>3 DEF ReadAs
  <2> QED BY <1>11, <1>13, <1>14, <2>4
<1>12. CASE st = "GT" /\ k = "EQUAL" /\ st2 = "GTE"
  <2>1. ReadAs(s, "GT", a, b)
    BY <1>12
  <2>2. a = b /\ s[a] = ">"
    BY <2>1 DEF ReadAs, TokenStates
  <2>3. s[e] = "="
    BY <1>2, <1>14, <1>12, ClassMeans, ZenonT(60)
  <2>4. ReadAs(s, "GTE", a, e)
    BY <1>13, <1>14, <2>2, <2>3 DEF ReadAs
  <2> QED BY <1>12, <1>13, <1>14, <2>4
<1> QED BY <1>6, <1>7, <1>8, <1>9, <1>10, <1>11, <1>12

(* A token begins. *)
LEMMA TokenStarts ==
  ASSUME NEW s \in Seq(Chars), NEW a \in 1..(Len(s) + 1),
         NEW st \in TokenStates, st = FromStart(Class(CharAt(s, a)))
  PROVE  a \in 1..Len(s) /\ ReadAs(s, st, a, a)
<1>0. Len(s) \in Nat /\ a \in Nat
  BY LenProperties
<1>1. PICK c : c = CharAt(s, a)
  OBVIOUS
<1>2. PICK k : k = Class(c) /\ k \in Classes
  BY ClassType
<1>3. st = FromStart(k)
  BY <1>1, <1>2
<1>4. k # "EOF"
  BY <1>2, <1>3, FromStartType DEF TokenStates
<1>5. a <= Len(s) /\ c = s[a]
  <2>1. c # "EOF"
    BY <1>2, <1>4, ClassOfNamed
  <2> QED BY <1>0, <1>1, <2>1 DEF CharAt
<1>6. /\ k = "DIGIT" => st = "LITERAL"
      /\ k = "ALPHABETICAL" => st = "WORD"
      /\ k = "SIGN" => st = "SIGN"
      /\ k = "OPERATOR" => st = "OPERATOR"
      /\ k = "LESS" => st = "LT"
      /\ k = "GREATER" => st = "GT"
      /\ k = "COLON" => st = "COLON"
      /\ k = "EQUAL" => st = "EQ"
      /\ k = "SEMICOLON" => st = "SEMICOLON"
      /\ k = "PAREN" => st = "PAREN"
  BY <1>3 DEF FromStart
<1>10. k \in {"DIGIT", "ALPHABETICAL", "SIGN", "OPERATOR", "LESS", "GREATER",
              "COLON", "EQUAL", "SEMICOLON", "PAREN"}
  BY <1>2, <1>3 DEF FromStart, TokenStates, Classes
<1>7. CASE k = "DIGIT" /\ st = "LITERAL"
  <2>1. s[a] \in Digits /\ s[a] \notin {"+", "-"}
    BY <1>2, <1>5, <1>7, ClassMeans, ZenonT(60)
  <2>2. IsLiteral(s, a, a)
    BY <1>0, <2>1 DEF IsLiteral
  <2> QED BY <1>0, <1>5, <1>7, <2>2 DEF ReadAs, TokenStates
<1>8. CASE k = "ALPHABETICAL" /\ st = "WORD"
  <2>1. s[a] \in Lower \cup Upper
    BY <1>2, <1>5, <1>8, ClassMeans, ZenonT(60)
  <2>2. IsWord(s, a, a)
    BY <1>0, <2>1 DEF IsWord
  <2> QED BY <1>0, <1>5, <1>8, <2>2 DEF ReadAs, TokenStates
<1>9. CASE k \notin {"DIGIT", "ALPHABETICAL"}
  <2>1. /\ k = "SIGN" => s[a] \in {"+", "-"}
        /\ k = "OPERATOR" => s[a] \in {"*", "/"}
        /\ k = "LESS" => s[a] = "<"
        /\ k = "GREATER" => s[a] = ">"
        /\ k = "COLON" => s[a] = ":"
        /\ k = "EQUAL" => s[a] = "="
        /\ k = "SEMICOLON" => s[a] = ";"
        /\ k = "PAREN" => s[a] \in {"(", ")"}
    BY <1>2, <1>5, ClassMeans, ZenonT(60)
  <2>2. st \notin {"WORD", "LITERAL", "NEQ", "LTE", "GTE", "ASSIGN"}
    BY <1>6, <1>9, <1>10
  <2>3. /\ st = "SIGN" => s[a] \in {"+", "-"}
        /\ st = "OPERATOR" => s[a] \in {"*", "/"}
        /\ st = "LT" => s[a] = "<"
        /\ st = "GT" => s[a] = ">"
        /\ st = "COLON" => s[a] = ":"
        /\ st = "EQ" => s[a] = "="
        /\ st = "SEMICOLON" => s[a] = ";"
        /\ st = "PAREN" => s[a] \in {"(", ")"}
    BY <1>6, <1>9, <1>10, <2>1
  <2>4. a <= a /\ a <= Len(s) /\ a \in 1..Len(s)
    BY <1>0, <1>5
  <2>5. CASE st \in {"SIGN", "OPERATOR", "EQ", "SEMICOLON", "PAREN"}
    BY <2>3, <2>4, <2>5 DEF ReadAs
  <2>6. CASE st \in {"LT", "GT", "COLON"}
    BY <2>3, <2>4, <2>6 DEF ReadAs
  <2> QED BY <2>2, <2>5, <2>6 DEF TokenStates
<1> QED BY <1>6, <1>7, <1>8, <1>9

(* The symbols, which a state knows by their characters. *)
Simple == TokenStates \ {"WORD", "LITERAL"}

LEMMA SimpleIs ==
  ASSUME NEW s \in Seq(Chars), NEW a \in 1..Len(s), NEW b \in a..Len(s),
         NEW st \in Simple, ReadAs(s, st, a, b)
  PROVE  /\ IsSymbol(s, a, b)
         /\ s[a] \in Signs \cup Separators
         /\ st \in {"SEMICOLON", "PAREN"} => s[b] \in Separators
         /\ st \notin {"SEMICOLON", "PAREN"} => s[b] \in Signs
<1>1. CASE st \in {"NEQ", "LTE", "GTE", "ASSIGN"}
  <2>1. b = a + 1 /\ Pair(s[a], s[b])
    BY <1>1 DEF ReadAs, Pair
  <2> QED BY <1>1, <2>1, SymbolIs DEF Pair, Signs
<1>2. CASE st \notin {"NEQ", "LTE", "GTE", "ASSIGN"}
  <2>1. b = a
    BY <1>2 DEF ReadAs, Simple
  <2>2. CASE st \in {"SEMICOLON", "PAREN"}
    <3>1. s[a] \in Separators
      BY <2>2 DEF ReadAs, Separators
    <3> QED BY <2>1, <2>2, <3>1, SymbolIs
  <2>3. CASE st \notin {"SEMICOLON", "PAREN"}
    <3>1. s[a] \in Signs
      BY <1>2, <2>3 DEF ReadAs, Signs, Simple, TokenStates
    <3> QED BY <2>1, <2>3, <3>1, SymbolIs
  <2> QED BY <2>2, <2>3
<1> QED BY <1>1, <1>2

(* A token that has been read is a lexeme. *)
LEMMA TokenLexeme ==
  ASSUME NEW s \in Seq(Chars), NEW a \in 1..Len(s), NEW b \in a..Len(s),
         NEW st \in TokenStates, ReadAs(s, st, a, b)
  PROVE  Lexeme(s, a, b)
<1>1. CASE st = "WORD"
  BY <1>1 DEF ReadAs, Lexeme
<1>2. CASE st = "LITERAL"
  BY <1>2 DEF ReadAs, Lexeme
<1>3. CASE st \in Simple
  BY <1>3, SimpleIs DEF Lexeme
<1> QED BY <1>1, <1>2, <1>3 DEF Simple

(* The kinds of lexemes begin differently, but for a sign. *)
LEMMA Beginnings ==
  ASSUME NEW c
  PROVE  /\ c \in Lower \cup Upper => c \notin Digits /\ c \notin Signs \cup Separators
         /\ c \in Digits => c \notin Lower \cup Upper /\ c \notin Signs \cup Separators
         /\ c \in Signs \cup Separators => c \notin Lower \cup Upper /\ c \notin Digits
         /\ c \in Signs \cup Separators \cup Digits \cup Lower \cup Upper =>
              c \notin Blanks \cup {"#"}
<1>1. Class(c) \in Classes
  BY ClassType
<1> QED BY <1>1, ClassMeans, ClassOfSymbols DEF OperatorClasses

(* A token that does not go on is the longest lexeme. *)
LEMMA TokenLongest ==
  ASSUME NEW s \in Seq(Chars), NEW a \in 1..Len(s), NEW b \in a..Len(s),
         NEW st \in TokenStates, ReadAs(s, st, a, b),
         FromToken(st, Class(CharAt(s, b + 1))) \in {"ACCEPT", "ERROR"}
  PROVE  LexemeEnd(s, a) = b
<1>0. Len(s) \in Nat /\ a \in Nat /\ b \in Nat
  BY LenProperties
<1>1. ASSUME NEW r \in (b + 1)..Len(s), Lexeme(s, a, r)
      PROVE  FALSE
  <2>0. b + 1 \in a..r /\ r \in a..Len(s) /\ r # a
    BY <1>0
  <2>1. PICK c : c = s[b + 1]
    OBVIOUS
  <2>2. PICK k : k = Class(c) /\ k \in Classes
    BY ClassType
  <2>3. FromToken(st, k) \in {"ACCEPT", "ERROR"}
    BY <1>0, <2>1, <2>2 DEF CharAt
  <2>4. /\ st \in {"LITERAL", "SIGN"} => k # "DIGIT"
        /\ st = "WORD" => k \notin {"DIGIT", "ALPHABETICAL"}
        /\ st = "LT" => k \notin {"GREATER", "EQUAL"}
        /\ st \in {"COLON", "GT"} => k # "EQUAL"
    BY <2>3 DEF FromToken
  <2>5. /\ st \in {"LITERAL", "SIGN"} => c \notin Digits
        /\ st = "WORD" => c \notin Lower \cup Upper \cup Digits
        /\ st = "LT" => c # ">" /\ c # "="
        /\ st \in {"COLON", "GT"} => c # "="
    BY <2>2, <2>4, ClassMeans
  <2>6. IsSymbol(s, a, r) <=> r = a + 1 /\ Pair(s[a], s[r])
    BY <1>0, <2>0, SymbolIs
  <2>7. IsWord(s, a, r) => s[a] \in Lower \cup Upper /\ c \in Lower \cup Upper \cup Digits
    BY <2>0, <2>1 DEF IsWord
  <2>8. CASE st = "WORD"
    <3>1. s[a] \in Lower \cup Upper
      BY <2>8 DEF ReadAs, IsWord
    <3>2. ~IsWord(s, a, r)
      BY <2>5, <2>7, <2>8
    <3>3. ~IsLiteral(s, a, r)
      <4>1. s[a] \notin Digits /\ s[a] \notin {"+", "-"}
        BY <3>1, Beginnings DEF Signs
      <4> QED BY <2>0, <4>1 DEF IsLiteral
    <3>4. ~IsSymbol(s, a, r)
      <4>1. s[a] \notin Signs
        BY <3>1, Beginnings
      <4> QED BY <2>6, <4>1 DEF Pair, Signs
    <3> QED BY <1>1, <3>2, <3>3, <3>4 DEF Lexeme
  <2>9. CASE st = "LITERAL"
    <3>0. IsLiteral(s, a, b)
      BY <2>9 DEF ReadAs
    <3>1. s[a] \in {"+", "-"} \/ s[a] \in Digits
      BY <3>0, <1>0 DEF IsLiteral
    <3>2. ~IsWord(s, a, r)
      BY <2>7, <3>1, Beginnings DEF Signs
    <3>3. ~IsLiteral(s, a, r)
      <4>1. b + 1 \in (IF s[a] \in {"+", "-"} THEN a + 1 ELSE a)..r
        BY <1>0, <2>0
      <4> QED BY <2>1, <2>5, <2>9, <4>1 DEF IsLiteral
    <3>4. ~IsSymbol(s, a, r)
      BY <2>6, <3>1, Beginnings DEF Pair, Signs
    <3> QED BY <1>1, <3>2, <3>3, <3>4 DEF Lexeme
  <2>10. CASE st \in Simple
    <3>1. s[a] \in Signs \cup Separators
      BY <2>10, SimpleIs
    <3>2. ~IsWord(s, a, r)
      BY <2>7, <3>1, Beginnings
    <3>3. ~IsLiteral(s, a, r)
      <4>1. SUFFICES ASSUME IsLiteral(s, a, r) PROVE FALSE
        OBVIOUS
      <4>2. s[a] \in {"+", "-"}
        <5>1. s[a] \notin {"+", "-"} => s[a] \in Digits
          BY <2>0, <4>1 DEF IsLiteral
        <5> QED BY <3>1, <5>1, Beginnings
      <4>3. st = "SIGN"
        BY <2>10, <4>2 DEF ReadAs, Simple, TokenStates
      <4>4. b = a
        BY <4>3 DEF ReadAs, TokenStates
      <4>5. c \in Digits
        BY <2>0, <2>1, <4>1, <4>2, <4>4 DEF IsLiteral
      <4> QED BY <2>5, <4>3, <4>5
    <3>4. ~IsSymbol(s, a, r)
      <4>1. SUFFICES ASSUME r = a + 1, Pair(s[a], s[r]) PROVE FALSE
        BY <2>6
      <4>2. b = a
        BY <1>0, <4>1
      <4>3. c = s[r]
        BY <2>1, <4>1, <4>2
      <4>4. st \in {"LT", "GT", "COLON"}
        <5>1. st \notin {"NEQ", "LTE", "GTE", "ASSIGN"}
          BY <1>0, <4>2 DEF ReadAs
        <5>2. s[a] \in {"<", ">", ":"}
          BY <4>1 DEF Pair
        <5> QED BY <2>10, <5>1, <5>2 DEF ReadAs, Simple, TokenStates
      <4>5. /\ st = "LT" => s[a] = "<"
            /\ st = "GT" => s[a] = ">"
            /\ st = "COLON" => s[a] = ":"
        BY DEF ReadAs
      <4> QED BY <2>5, <4>1, <4>3, <4>4, <4>5 DEF Pair
    <3> QED BY <1>1, <3>2, <3>3, <3>4 DEF Lexeme
  <2> QED BY <2>8, <2>9, <2>10 DEF Simple
<1>2. Lexeme(s, a, b)
  BY TokenLexeme
<1> QED BY <1>1, <1>2, LexemeEndIs

(* It is refused if it clashes with the character behind it. *)
LEMMA TokenRefused ==
  ASSUME NEW s \in Seq(Chars), NEW a \in 1..Len(s), NEW b \in a..Len(s),
         NEW st \in TokenStates, ReadAs(s, st, a, b),
         FromToken(st, Class(CharAt(s, b + 1))) \in {"ACCEPT", "ERROR"}
  PROVE  FromToken(st, Class(CharAt(s, b + 1))) = "ERROR" <=> Clash(s, a, b)
<1>0. Len(s) \in Nat /\ a \in Nat /\ b \in Nat
  BY LenProperties
<1>1. PICK c : c = CharAt(s, b + 1)
  OBVIOUS
<1>2. PICK k : k = Class(c) /\ k \in Classes
  BY ClassType
<1>3. FromToken(st, k) \in {"ACCEPT", "ERROR"}
  BY <1>1, <1>2
<1>4. FromToken(st, k) = "ERROR" <=> k \in Refused(st)
  BY <1>3 DEF FromToken, TokenStates
<1>5. CASE b = Len(s)
  <2>1. c = "EOF" /\ k = "EOF"
    BY <1>0, <1>1, <1>2, <1>5, ClassOfNamed DEF CharAt
  <2>2. FromToken(st, k) # "ERROR"
    BY <1>2, <2>1, FromTokenType
  <2>3. ~Clash(s, a, b)
    BY <1>0, <1>5 DEF Clash
  <2> QED BY <1>1, <1>2, <2>2, <2>3
<1>6. CASE b # Len(s)
  <2>1. b < Len(s) /\ c = s[b + 1] /\ c \in Chars
    <3>1. b < Len(s) /\ b + 1 \in 1..Len(s)
      BY <1>0, <1>6
    <3> QED BY <1>0, <1>1, <3>1, ElementOfSeq DEF CharAt
  <2>2. c # "EOF"
    BY <2>1, ScannerAssumption
  <2>3. k = "UNKNOWN" <=> c \notin Lower \cup Upper \cup Digits \cup Blanks \cup Signs
                                   \cup Separators \cup {"#"}
    BY <1>2, <2>2, ClassUnknown
  <2>4. /\ k = "ALPHABETICAL" <=> c \in Lower \cup Upper
        /\ k \in {"SIGN", "OPERATOR"} <=> c \in {"+", "-", "*", "/"}
        /\ k \in OperatorClasses <=> c \in Signs
    BY <1>2, ClassMeans, ClassOfSymbols
  <2>5. Clash(s, a, b) <=>
          \/ k = "UNKNOWN"
          \/ IsLiteral(s, a, b) /\ k = "ALPHABETICAL"
          \/ IsWord(s, a, b) /\ k \in {"SIGN", "OPERATOR"}
          \/ IsSymbol(s, a, b) /\ s[b] \in Signs /\ k \in OperatorClasses
    BY <2>1, <2>3, <2>4 DEF Clash
  <2>7. CASE st = "WORD"
    <3>1. IsWord(s, a, b)
      BY <2>7 DEF ReadAs
    <3>2. s[a] \in Lower \cup Upper
      BY <3>1 DEF IsWord
    <3>3. ~IsLiteral(s, a, b)
      <4>1. s[a] \notin Digits /\ s[a] \notin {"+", "-"}
        BY <3>2, Beginnings DEF Signs
      <4> QED BY <1>0, <4>1 DEF IsLiteral
    <3>4. ~IsSymbol(s, a, b)
      <4>1. s[a] \notin Signs \cup Separators
        BY <3>2, Beginnings
      <4> QED BY <4>1, SymbolIs DEF Pair, Signs
    <3>5. k \in Refused(st) <=> k \in {"UNKNOWN", "SIGN", "OPERATOR"}
      BY <2>7 DEF Refused
    <3> QED BY <1>1, <1>2, <1>4, <2>5, <3>1, <3>3, <3>4, <3>5
  <2>8. CASE st = "LITERAL"
    <3>1. IsLiteral(s, a, b)
      BY <2>8 DEF ReadAs
    <3>2. s[a] \in {"+", "-"} \/ s[a] \in Digits
      BY <1>0, <3>1 DEF IsLiteral
    <3>3. ~IsWord(s, a, b)
      BY <3>2, Beginnings DEF IsWord, Signs
    <3>4. ~IsSymbol(s, a, b) \/ s[b] \notin Signs
      <4>1. s[b] \in Digits
        BY <1>0, <3>1 DEF IsLiteral
      <4> QED BY <4>1, Beginnings
    <3>5. k \in Refused(st) <=> k \in {"UNKNOWN", "ALPHABETICAL"}
      BY <2>8 DEF Refused
    <3> QED BY <1>1, <1>2, <1>4, <2>5, <3>1, <3>3, <3>4, <3>5
  <2>9. CASE st \in Simple
    <3>1. /\ IsSymbol(s, a, b)
          /\ s[a] \in Signs \cup Separators
          /\ st \in {"SEMICOLON", "PAREN"} => s[b] \in Separators
          /\ st \notin {"SEMICOLON", "PAREN"} => s[b] \in Signs
      BY <2>9, SimpleIs
    <3>2. ~IsWord(s, a, b)
      BY <3>1, Beginnings DEF IsWord
    <3>3. ~IsLiteral(s, a, b)
      <4>1. s[b] \in Signs \cup Separators
        BY <3>1
      <4>2. s[b] \notin Digits
        BY <4>1, Beginnings
      <4> QED BY <1>0, <4>2 DEF IsLiteral
    <3>4. CASE st \in {"SEMICOLON", "PAREN"}
      <4>1. k \in Refused(st) <=> k = "UNKNOWN"
        BY <3>4 DEF Refused
      <4>2. s[b] \notin Signs
        BY <3>1, <3>4 DEF Separators, Signs
      <4> QED BY <1>1, <1>2, <1>4, <2>5, <3>2, <3>3, <4>1, <4>2
    <3>5. CASE st \notin {"SEMICOLON", "PAREN"}
      <4>1. k \in Refused(st) <=> k = "UNKNOWN" \/ k \in OperatorClasses
        BY <2>9, <3>5 DEF Refused, Simple, TokenStates
      <4> QED BY <1>1, <1>2, <1>4, <2>5, <3>1, <3>2, <3>3, <3>5, <4>1
    <3> QED BY <3>4, <3>5
  <2> QED BY <2>7, <2>8, <2>9 DEF Simple
<1> QED BY <1>0, <1>5, <1>6

(* In a token there is no blank and no comment. *)
LEMMA TokenSolid ==
  ASSUME NEW s \in Seq(Chars), NEW a \in 1..Len(s), NEW b \in a..Len(s),
         NEW st \in TokenStates, ReadAs(s, st, a, b)
  PROVE  Solid(s, a, b)
<1>0. Len(s) \in Nat /\ a \in Nat /\ b \in Nat
  BY LenProperties
<1>1. CASE st = "WORD"
  BY <1>1, Beginnings DEF ReadAs, IsWord, Solid
<1>2. CASE st = "LITERAL"
  <2>1. IsLiteral(s, a, b)
    BY <1>2 DEF ReadAs
  <2>2. \A r \in a..b : s[r] \in Digits \/ s[r] \in Signs
    <3> TAKE r \in a..b
    <3>1. CASE r = a /\ s[a] \in {"+", "-"}
      BY <3>1 DEF Signs
    <3>2. CASE ~(r = a /\ s[a] \in {"+", "-"})
      <4>1. r \in (IF s[a] \in {"+", "-"} THEN a + 1 ELSE a)..b
        BY <1>0, <3>2
      <4> QED BY <2>1, <4>1 DEF IsLiteral
    <3> QED BY <3>1, <3>2
  <2> QED BY <2>2, Beginnings DEF Solid
<1>3. CASE st \in Simple
  <2>1. s[a] \in Signs \cup Separators /\ s[b] \in Signs \cup Separators
    BY <1>3, SimpleIs
  <2>2. b = a \/ b = a + 1
    BY <1>3 DEF ReadAs, Simple
  <2>3. \A r \in a..b : r = a \/ r = b
    BY <1>0, <2>2
  <2> QED BY <2>1, <2>3, Beginnings DEF Solid
<1> QED BY <1>1, <1>2, <1>3 DEF Simple

(* Solid text that goes on. *)
LEMMA SolidOnward ==
  ASSUME NEW s \in Seq(Chars), NEW a \in 1..Len(s), NEW b \in a..Len(s),
         Solid(s, a, b), Class(CharAt(s, b + 1)) \notin {"WHITESPACE", "HASHTAG", "EOF"}
  PROVE  b + 1 \in a..Len(s) /\ Solid(s, a, b + 1)
<1>0. Len(s) \in Nat /\ a \in Nat /\ b \in Nat
  BY LenProperties
<1>1. PICK c : c = CharAt(s, b + 1)
  OBVIOUS
<1>2. c # "EOF" /\ c \notin Blanks \cup {"#"}
  BY <1>1, ClassMeans
<1>3. b + 1 <= Len(s) /\ c = s[b + 1]
  BY <1>0, <1>1, <1>2 DEF CharAt
<1> QED BY <1>0, <1>2, <1>3 DEF Solid

(* No lexeme begins with an unknown character. *)
LEMMA NoneBegins ==
  ASSUME NEW s \in Seq(Chars), NEW p \in 1..(Len(s) + 1),
         FromStart(Class(CharAt(s, p))) = "ERROR"
  PROVE  p \in 1..Len(s) /\ Solid(s, p, p) /\ Invalid(s, p)
<1>0. Len(s) \in Nat /\ p \in Nat
  BY LenProperties
<1>1. PICK c : c = CharAt(s, p)
  OBVIOUS
<1>2. Class(c) \in Classes /\ FromStart(Class(c)) = "ERROR"
  BY <1>1, ClassType
<1>3. Class(c) = "UNKNOWN"
  BY <1>2 DEF FromStart, Classes
<1>4. p <= Len(s) /\ c = s[p]
  <2>1. c # "EOF"
    BY <1>3, ClassOfNamed
  <2> QED BY <1>0, <1>1, <2>1 DEF CharAt
<1>5. s[p] \notin Lower \cup Upper \cup Digits \cup Blanks \cup Signs \cup Separators \cup {"#"}
  <2>1. c # "EOF"
    BY <1>3, ClassOfNamed
  <2> QED BY <1>3, <1>4, <2>1, ClassUnknown
<1>6. ASSUME NEW q \in p..Len(s), Lexeme(s, p, q) PROVE FALSE
  <2>1. ~IsWord(s, p, q)
    BY <1>5 DEF IsWord
  <2>2. ~IsLiteral(s, p, q)
    <3>1. s[p] \notin {"+", "-"}
      BY <1>5 DEF Signs
    <3> QED BY <1>0, <1>5, <3>1 DEF IsLiteral
  <2>3. ~IsSymbol(s, p, q)
    <3>1. p \in 1..Len(s)
      BY <1>0, <1>4
    <3>2. ~Pair(s[p], s[q])
      BY <1>5 DEF Pair, Signs
    <3> QED BY <1>5, <3>1, <3>2, SymbolIs
  <2> QED BY <1>6, <2>1, <2>2, <2>3 DEF Lexeme
<1>7. LexemeEnd(s, p) = p - 1
  <2>1. {q \in p..Len(s) : IsWord(s, p, q) \/ IsLiteral(s, p, q) \/ IsSymbol(s, p, q)} = {}
    BY <1>6 DEF Lexeme
  <2> QED BY <2>1 DEF LexemeEnd
<1> QED BY <1>0, <1>4, <1>5, <1>7 DEF Solid, Invalid

-----------------------------------------------------------------------------
(* The lexemes from a place on, by what is at the place. *)
LEMMA FromBlank ==
  ASSUME NEW s \in Seq(Chars), NEW p \in 1..Len(s), s[p] \in Blanks
  PROVE  LexemesFrom(s)[p] = LexemesFrom(s)[p + 1]
<1>1. LexemeAt(s, p) = [lexemes |-> << >>, next |-> p + 1]
  BY DEF LexemeAt
<1>2. LexemesFrom(s)[p] = << >> \o LexemesFrom(s)[p + 1]
  <2>1. LexemeAt(s, p).lexemes = << >> /\ LexemeAt(s, p).next = p + 1
    BY <1>1
  <2> QED BY <2>1, LexemesFromFacts
<1>3. p + 1 \in 1..(Len(s) + 2)
  BY LenProperties
<1>4. LexemesFrom(s)[p + 1] \in Seq(Spans)
  BY <1>3, LexemesFromFacts
<1> QED BY <1>2, <1>4, ConcatEmptySeq

(* A comment is passed over, *)
LEMMA FromComment ==
  ASSUME NEW s \in Seq(Chars), NEW p \in 1..Len(s), s[p] = "#"
  PROVE  LexemesFrom(s)[p] = LexemesFrom(s)[FirstOf(s, {"#"}, p + 1) + 1]
<1>1. LexemeAt(s, p) = [lexemes |-> << >>, next |-> FirstOf(s, {"#"}, p + 1) + 1]
  BY DEF LexemeAt, Blanks
<1>2. LexemesFrom(s)[p] = << >> \o LexemesFrom(s)[FirstOf(s, {"#"}, p + 1) + 1]
  <2>1. /\ LexemeAt(s, p).lexemes = << >>
        /\ LexemeAt(s, p).next = FirstOf(s, {"#"}, p + 1) + 1
    BY <1>1
  <2> QED BY <2>1, LexemesFromFacts
<1>3. Len(s) \in Nat /\ p + 1 \in 1..(Len(s) + 1)
  BY LenProperties
<1>4. FirstOf(s, {"#"}, p + 1) + 1 \in 1..(Len(s) + 2)
  BY <1>3, FirstOfType
<1>5. LexemesFrom(s)[FirstOf(s, {"#"}, p + 1) + 1] \in Seq(Spans)
  BY <1>4, LexemesFromFacts
<1> QED BY <1>2, <1>5, ConcatEmptySeq

(* A lexeme, and what is none. *)
Good(a, b) == [from |-> a, to |-> b, valid |-> TRUE]
Bad(a, b) == [from |-> a, to |-> b, valid |-> FALSE]

(* invalid text ends in front of a blank or a comment, *)
LEMMA FromInvalid ==
  ASSUME NEW s \in Seq(Chars), NEW a \in 1..Len(s), NEW b \in a..Len(s),
         Solid(s, a, b), Invalid(s, a),
         b + 1 <= Len(s) => s[b + 1] \in Blanks \cup {"#"}
  PROVE  LexemesFrom(s)[a] = <<Bad(a, b)>> \o LexemesFrom(s)[b + 1]
<1> DEFINE gap == FirstOf(s, Blanks \cup {"#"}, a)
<1>0. Len(s) \in Nat /\ a \in Nat /\ b \in Nat /\ a \in 1..(Len(s) + 1)
  BY LenProperties
<1>1. gap = b + 1
  <2>1. b + 1 \in a..(Len(s) + 1)
    BY <1>0
  <2>2. \A r \in a..((b + 1) - 1) : s[r] \notin Blanks \cup {"#"}
    BY <1>0 DEF Solid
  <2> QED BY <1>0, <2>1, <2>2, FirstOfIs
<1>2. s[a] \notin Blanks /\ s[a] # "#"
  BY <1>0 DEF Solid
<1>3. (b + 1) - 1 = b
  BY <1>0
<1> HIDE DEF gap
<1>4. LexemeAt(s, a) = [lexemes |-> <<Bad(a, gap - 1)>>, next |-> gap]
  BY <1>2 DEF LexemeAt, Invalid, gap, Bad
<1>5. LexemeAt(s, a).lexemes = <<Bad(a, b)>> /\ LexemeAt(s, a).next = b + 1
  BY <1>1, <1>3, <1>4
<1> QED BY <1>5, LexemesFromFacts

(* and a lexeme that fills the buffer takes a character with it. *)
LEMMA FromLexeme ==
  ASSUME NEW s \in Seq(Chars), NEW a \in 1..Len(s), NEW b \in a..Len(s),
         Solid(s, a, b), LexemeEnd(s, a) = b, ~Clash(s, a, b)
  PROVE  /\ b - a + 1 >= TextSize =>
              LexemesFrom(s)[a] = <<Bad(a, b)>> \o LexemesFrom(s)[b + 2]
         /\ b - a + 1 < TextSize =>
              LexemesFrom(s)[a] = <<Good(a, b)>> \o LexemesFrom(s)[b + 1]
<1>0. Len(s) \in Nat /\ a \in Nat /\ b \in Nat /\ TextSize \in Nat
  BY LenProperties, ScannerAssumption
<1>1. s[a] \notin Blanks /\ s[a] # "#"
  BY <1>0 DEF Solid
<1>2. ~(LexemeEnd(s, a) < a)
  BY <1>0
<1>3. CASE b - a + 1 >= TextSize
  <2>1. LexemeAt(s, a) = [lexemes |-> <<Bad(a, b)>>, next |-> b + 2]
    BY <1>1, <1>2, <1>3 DEF LexemeAt, Good, Bad
  <2>2. LexemeAt(s, a).lexemes = <<Bad(a, b)>> /\ LexemeAt(s, a).next = b + 2
    BY <2>1
  <2>3. ~(b - a + 1 < TextSize)
    BY <1>0, <1>3
  <2> QED BY <2>2, <2>3, LexemesFromFacts
<1>4. CASE ~(b - a + 1 >= TextSize)
  <2>1. LexemeAt(s, a) = [lexemes |-> <<Good(a, b)>>, next |-> b + 1]
    BY <1>1, <1>2, <1>4 DEF LexemeAt, Good, Bad
  <2>2. LexemeAt(s, a).lexemes = <<Good(a, b)>> /\ LexemeAt(s, a).next = b + 1
    BY <2>1
  <2> QED BY <1>4, <2>2, LexemesFromFacts
<1> QED BY <1>3, <1>4

(* A comment that goes on, or ends. *)
LEMMA CommentOnward ==
  ASSUME NEW s \in Seq(Chars), NEW p \in 1..(Len(s) + 1)
  PROVE  /\ Class(CharAt(s, p)) \notin {"HASHTAG", "EOF"} =>
              p \in 1..Len(s) /\ FirstOf(s, {"#"}, p + 1) = FirstOf(s, {"#"}, p)
         /\ Class(CharAt(s, p)) = "HASHTAG" => FirstOf(s, {"#"}, p) = p
         /\ Class(CharAt(s, p)) = "EOF" =>
              p = Len(s) + 1 /\ FirstOf(s, {"#"}, p) = p
<1>0. Len(s) \in Nat /\ p \in Nat
  BY LenProperties
<1>1. PICK c : c = CharAt(s, p)
  OBVIOUS
<1>2. (Class(c) = "HASHTAG" <=> c = "#") /\ (Class(c) = "EOF" <=> c = "EOF")
  BY ClassMeans
<1>3. c = "EOF" <=> p = Len(s) + 1
  <2>1. CASE p = Len(s) + 1
    BY <1>0, <1>1, <2>1 DEF CharAt
  <2>2. CASE p # Len(s) + 1
    <3>1. p \in 1..Len(s)
      BY <1>0, <2>2
    <3>2. c = s[p] /\ s[p] \in Chars
      BY <1>0, <1>1, <3>1, ElementOfSeq DEF CharAt
    <3> QED BY <2>2, <3>2, ScannerAssumption
  <2> QED BY <2>1, <2>2
<1>4. p <= Len(s) => c = s[p]
  BY <1>0, <1>1 DEF CharAt
<1>5. CASE c = "EOF"
  <2>1. FirstOf(s, {"#"}, p) \in p..(Len(s) + 1)
    BY FirstOfType
  <2> QED BY <1>0, <1>1, <1>2, <1>3, <1>5, <2>1
<1>6. CASE c = "#"
  <2>1. p <= Len(s) /\ s[p] \in {"#"}
    BY <1>0, <1>3, <1>4, <1>6
  <2>2. \A r \in p..(p - 1) : s[r] \notin {"#"}
    BY <1>0
  <2>3. FirstOf(s, {"#"}, p) = p
    BY <1>0, <2>1, <2>2, FirstOfIs
  <2> QED BY <1>1, <1>2, <1>6, <2>3
<1>7. CASE c # "EOF" /\ c # "#"
  <2>1. p \in 1..Len(s) /\ s[p] \notin {"#"} /\ p + 1 \in 1..(Len(s) + 1)
    BY <1>0, <1>3, <1>4, <1>7
  <2>2. PICK e : e = FirstOf(s, {"#"}, p + 1)
    OBVIOUS
  <2>3. /\ e \in (p + 1)..(Len(s) + 1)
        /\ \A r \in (p + 1)..(e - 1) : s[r] \notin {"#"}
        /\ e <= Len(s) => s[e] \in {"#"}
    BY <2>1, <2>2, FirstOfType
  <2>4. e \in p..(Len(s) + 1) /\ \A r \in p..(e - 1) : s[r] \notin {"#"}
    BY <1>0, <2>1, <2>3
  <2>5. FirstOf(s, {"#"}, p) = e
    BY <2>3, <2>4, FirstOfIs
  <2> QED BY <1>1, <1>2, <1>7, <2>1, <2>2, <2>5
<1> QED BY <1>5, <1>6, <1>7

-----------------------------------------------------------------------------
(* s is the source, or what it may become. *)
Extends(s) ==
  /\ s \in Seq(Chars) /\ Len(source) <= Len(s)
  /\ \A p \in 1..Len(source) : s[p] = source[p]
  /\ ended => Len(s) = Len(source)

(* What an item says of the source. *)
FoundOf(x) == IF x.kind = "token" THEN Good(x.from, x.to) ELSE Bad(x.from, x.to)

FoundIn(o, k) == [n \in 1..k |-> FoundOf(o[n])]

(***************************************************************************)
(* Whatever the source may become, its lexemes are those that have been    *)
(* put out, and then those from the place on where the scanner goes on.    *)
(***************************************************************************)
LexInv ==
  /\ StreamInv
  /\ TextFits
  /\ \E k \in 0..Len(out) :
       /\ Eofs = (k + 1)..Len(out)
       /\ \A s : Extends(s) =>
            /\ ReadsOn(s)
            /\ Lexemes(s) = FoundIn(out, k) \o LexemesFrom(s)[Resumes(s)]

(* An item spans a part of the source. *)
LEMMA ItemSpan ==
  ASSUME NEW x \in OutputItem
  PROVE  x.from \in Nat /\ x.to \in Int
BY DEF OutputItem

(* What was found before stays, and one more comes behind it. *)
LEMMA FoundType ==
  ASSUME NEW o \in Seq(OutputItem), NEW k \in 0..Len(o)
  PROVE  FoundIn(o, k) \in Seq(Spans) /\ Len(FoundIn(o, k)) = k
<1>0. Len(o) \in Nat /\ k \in Nat
  BY LenProperties
<1>1. \A n \in 1..k : FoundOf(o[n]) \in Spans
  <2> TAKE n \in 1..k
  <2>1. o[n] \in OutputItem
    BY <1>0, ElementOfSeq
  <2>2. PICK p, q : p = o[n].from /\ q = o[n].to
    OBVIOUS
  <2>3. p \in Nat /\ q \in Int
    BY <2>1, <2>2, ItemSpan
  <2>4. Good(p, q) \in Spans
    BY <2>3 DEF Good, Spans
  <2>5. Bad(p, q) \in Spans
    BY <2>3 DEF Bad, Spans
  <2> QED BY <2>2, <2>4, <2>5 DEF FoundOf
<1>2. FoundIn(o, k) \in [1..k -> Spans]
  BY <1>1 DEF FoundIn
<1>3. FoundIn(o, k) \in Seq(Spans) /\ DOMAIN FoundIn(o, k) = 1..k
  BY <1>0, <1>2, SeqDef
<1> QED BY <1>0, <1>3, LenProperties

LEMMA FoundOnward ==
  ASSUME NEW o \in Seq(OutputItem), NEW x \in OutputItem, NEW k \in 0..Len(o)
  PROVE  /\ FoundIn(Append(o, x), k) = FoundIn(o, k)
         /\ FoundIn(Append(o, x), Len(o) + 1) = FoundIn(o, Len(o)) \o <<FoundOf(x)>>
<1> DEFINE t == Append(o, x)
<1>0. Len(o) \in Nat /\ k \in Nat /\ 1..k \subseteq 1..Len(o)
  BY LenProperties
<1>1. /\ t \in Seq(OutputItem) /\ Len(t) = Len(o) + 1
      /\ \A n \in 1..Len(o) : t[n] = o[n]
      /\ t[Len(o) + 1] = x
  BY AppendProperties
<1> HIDE DEF t
<1>2. FoundIn(t, k) = FoundIn(o, k)
  BY <1>0, <1>1 DEF FoundIn
<1>3. /\ FoundIn(t, Len(o) + 1) \in Seq(Spans) /\ Len(FoundIn(t, Len(o) + 1)) = Len(o) + 1
      /\ FoundIn(o, Len(o)) \in Seq(Spans) /\ Len(FoundIn(o, Len(o))) = Len(o)
  <2>1. Len(o) + 1 \in 0..Len(t) /\ Len(o) \in 0..Len(o)
    BY <1>0, <1>1
  <2> QED BY <1>1, <2>1, FoundType
<1>4. PICK y : y = FoundOf(x)
  OBVIOUS
<1>5. FoundIn(t, Len(o) + 1)[Len(o) + 1] = y
  BY <1>0, <1>1, <1>4 DEF FoundIn
<1>6. y \in Spans
  BY <1>0, <1>3, <1>5, ElementOfSeq
<1>7. <<y>> \in Seq(Spans) /\ Len(<<y>>) = 1 /\ <<y>>[1] = y
  BY <1>6
<1>8. /\ FoundIn(o, Len(o)) \o <<y>> \in Seq(Spans)
      /\ Len(FoundIn(o, Len(o)) \o <<y>>) = Len(o) + 1
      /\ \A i \in 1..(Len(o) + 1) : (FoundIn(o, Len(o)) \o <<y>>)[i] =
           IF i <= Len(o) THEN FoundIn(o, Len(o))[i] ELSE <<y>>[i - Len(o)]
  BY <1>3, <1>7, ConcatProperties
<1>9. \A i \in 1..(Len(o) + 1) : FoundIn(t, Len(o) + 1)[i] = (FoundIn(o, Len(o)) \o <<y>>)[i]
  <2> TAKE i \in 1..(Len(o) + 1)
  <2>1. CASE i = Len(o) + 1
    BY <1>0, <1>5, <1>7, <1>8, <2>1
  <2>2. CASE i # Len(o) + 1
    <3>1. i \in 1..Len(o)
      BY <1>0, <2>2
    <3>2. FoundIn(t, Len(o) + 1)[i] = FoundOf(t[i]) /\ FoundIn(o, Len(o))[i] = FoundOf(o[i])
      BY <3>1 DEF FoundIn
    <3> QED BY <1>1, <1>8, <3>1, <3>2
  <2> QED BY <2>1, <2>2
<1>10. FoundIn(t, Len(o) + 1) = FoundIn(o, Len(o)) \o <<y>>
  BY <1>3, <1>8, <1>9, SeqEqual
<1> QED BY <1>2, <1>4, <1>10 DEF t

-----------------------------------------------------------------------------
(* The character of the loop, and the place where the lexemes go on. *)
LEMMA Reached ==
  ASSUME IInv, "0xFF" \notin Chars, running, NEW s, Extends(s)
  PROVE  /\ s \in Seq(Chars) /\ Len(s) \in Nat
         /\ Here \in 1..(Len(s) + 1) /\ character = CharAt(s, Here)
         /\ New = NextState(state, Class(CharAt(s, Here)))
         /\ ended <=> Class(CharAt(s, Here)) = "EOF"
         /\ ended => Here = Len(s) + 1 /\ Here = Len(source) + 1
         /\ ~ended => Here \in 1..Len(s) /\ Here = Len(source)
<1>1. /\ s \in Seq(Chars) /\ Len(s) \in Nat /\ source \in Seq(Chars) /\ Len(source) \in Nat
      /\ ended \in BOOLEAN /\ CharacterRead(character)
  BY LenProperties DEF Extends, IInv, TypeOK, TextRead
<1>2. character = "EOF" <=> ended
  BY <1>1, EndIsEof
<1>3. CASE ended
  <2>1. Here = Len(s) + 1 /\ Here = Len(source) + 1
    BY <1>1, <1>3 DEF Here, Extends
  <2>2. character = CharAt(s, Here)
    BY <1>1, <1>2, <1>3, <2>1 DEF CharAt
  <2>3. New = NextState(state, Class(CharAt(s, Here))) /\ Class(CharAt(s, Here)) = "EOF"
    BY <1>2, <1>3, <2>2, ClassOfNamed DEF New
  <2> QED BY <1>1, <1>3, <2>1, <2>2, <2>3
<1>4. CASE ~ended
  <2>1. Here = Len(source) /\ Here \in 1..Len(source) /\ character = source[Here]
    BY <1>1, <1>2, <1>4, LastCharacter
  <2>2. Here \in 1..Len(s) /\ s[Here] = source[Here]
    BY <1>1, <2>1 DEF Extends
  <2>3. character = CharAt(s, Here)
    BY <1>1, <2>1, <2>2 DEF CharAt
  <2>4. New = NextState(state, Class(CharAt(s, Here)))
    BY <2>3 DEF New
  <2>5. Class(CharAt(s, Here)) # "EOF"
    <3>1. Class(character) # "EOF"
      BY <1>2, <1>4, ClassMeans
    <3> QED BY <2>3, <3>1
  <2> QED BY <1>1, <1>4, <2>1, <2>2, <2>3, <2>4, <2>5
<1> QED BY <1>3, <1>4

(* What the source may become, it could become before. *)
Reads == Grown /\ (ended => ended' /\ UNCHANGED source)

LEMMA ExtendsBefore ==
  ASSUME source \in Seq(Chars), Reads, NEW s, Extends(s)'
  PROVE  Extends(s)
<1>1. /\ Len(source) \in Nat /\ Len(source') \in Nat /\ Len(source) <= Len(source')
      /\ \A p \in 1..Len(source) : source'[p] = source[p]
      /\ s \in Seq(Chars) /\ Len(source') <= Len(s)
      /\ \A p \in 1..Len(source') : s[p] = source'[p]
  BY DEF Reads, Grown, Extends
<1>2. Len(s) \in Nat
  BY <1>1, LenProperties
<1>3. Len(source) <= Len(s) /\ \A p \in 1..Len(source) : s[p] = source[p]
  BY <1>1, <1>2
<1>4. ended => Len(s) = Len(source)
  BY DEF Reads, Extends
<1> QED BY <1>1, <1>3, <1>4 DEF Extends

(* fgetc() reads. *)
LEMMA FgetcReads ==
  ASSUME source \in Seq(Chars), ended \in BOOLEAN, Fgetc
  PROVE  Reads
BY FgetcStep DEF Reads, Fgetc

(* Nothing is put out: the lexemes go on where they did. *)
GoesOn(s) == ReadsOn(s)' /\ LexemesFrom(s)[Resumes(s)'] = LexemesFrom(s)[Resumes(s)]

LEMMA SilentLex ==
  ASSUME LexInv, StreamInv', TextFits', Reads, UNCHANGED out,
         \A s : Extends(s) /\ Extends(s)' /\ ReadsOn(s) => GoesOn(s)
  PROVE  LexInv'
<1>1. PICK k \in 0..Len(out) :
        /\ Eofs = (k + 1)..Len(out)
        /\ \A s : Extends(s) =>
             /\ ReadsOn(s)
             /\ Lexemes(s) = FoundIn(out, k) \o LexemesFrom(s)[Resumes(s)]
  BY DEF LexInv
<1>2. Eofs' = (k + 1)..Len(out') /\ k \in 0..Len(out')
  BY <1>1 DEF Eofs
<1>3. source \in Seq(Chars)
  BY DEF LexInv, StreamInv, IInv, TypeOK
<1>4. ASSUME NEW s, Extends(s)'
      PROVE  /\ ReadsOn(s)'
             /\ Lexemes(s) = FoundIn(out', k) \o LexemesFrom(s)[Resumes(s)']
  <2>1. Extends(s)
    BY <1>3, <1>4, ExtendsBefore
  <2>2. ReadsOn(s) /\ Lexemes(s) = FoundIn(out, k) \o LexemesFrom(s)[Resumes(s)]
    BY <1>1, <2>1
  <2>3. GoesOn(s)
    BY <1>4, <2>1, <2>2
  <2>4. out' = out
    OBVIOUS
  <2> QED BY <2>2, <2>3, <2>4 DEF GoesOn
<1>5. (\E j \in 0..Len(out) :
        /\ Eofs = (j + 1)..Len(out)
        /\ \A s : Extends(s) =>
             /\ ReadsOn(s)
             /\ Lexemes(s) = FoundIn(out, j) \o LexemesFrom(s)[Resumes(s)])'
  BY <1>2, <1>4
<1> QED BY <1>5 DEF LexInv

(* The lexemes found and those ahead, in whatever order they are joined. *)
LEMMA Joined ==
  ASSUME NEW f \in Seq(Spans), NEW d \in Seq(Spans), NEW l \in Seq(Spans)
  PROVE  (f \o d) \o l = f \o (d \o l)
BY ConcatAssociative

(* Something is. *)
LEMMA FoundLex ==
  ASSUME LexInv, StreamInv', TextFits', Reads, "0xFF" \notin Chars,
         NEW x \in OutputItem, out' = Append(out, x), x.type # "EOF", Eofs = {},
         \A s : Extends(s) /\ Extends(s)' /\ ReadsOn(s) =>
           /\ ReadsOn(s)'
           /\ Resumes(s)' \in 1..(Len(s) + 2)
           /\ LexemesFrom(s)[Resumes(s)] = <<FoundOf(x)>> \o LexemesFrom(s)[Resumes(s)']
  PROVE  LexInv'
<1>0. out \in Seq(OutputItem) /\ Len(out) \in Nat /\ source \in Seq(Chars)
  BY LenProperties DEF LexInv, StreamInv, IInv, TypeOK
<1>1. PICK k \in 0..Len(out) :
        /\ Eofs = (k + 1)..Len(out)
        /\ \A s : Extends(s) =>
             /\ ReadsOn(s)
             /\ Lexemes(s) = FoundIn(out, k) \o LexemesFrom(s)[Resumes(s)]
  BY DEF LexInv
<1>2. k = Len(out)
  BY <1>0, <1>1
<1>3. /\ DOMAIN out = 1..Len(out) /\ DOMAIN out' = 1..(Len(out) + 1)
      /\ \A n \in 1..Len(out) : out'[n] = out[n]
      /\ out'[Len(out) + 1] = x
      /\ Len(out') = Len(out) + 1
  BY <1>0, OutOnward, AppendProperties
<1>4. Eofs' = {}
  BY <1>0, <1>3 DEF Eofs
<1>5. PICK j : j = Len(out) + 1
  OBVIOUS
<1>6. j \in 0..Len(out') /\ Eofs' = (j + 1)..Len(out')
  BY <1>0, <1>3, <1>4, <1>5
<1>7. FoundIn(out', j) = FoundIn(out, k) \o <<FoundOf(x)>>
  BY <1>0, <1>2, <1>5, FoundOnward
<1>8. FoundIn(out, k) \in Seq(Spans)
  BY <1>0, FoundType
<1>9. FoundOf(x) \in Spans
  <2>1. x.from \in Nat /\ x.to \in Int
    BY DEF OutputItem
  <2>2. Good(x.from, x.to) \in Spans /\ Bad(x.from, x.to) \in Spans
    BY <2>1 DEF Good, Bad, Spans
  <2> QED BY <2>2 DEF FoundOf
<1>10. ASSUME NEW s, Extends(s)'
       PROVE  /\ ReadsOn(s)'
              /\ Lexemes(s) = FoundIn(out', j) \o LexemesFrom(s)[Resumes(s)']
  <2>1. Extends(s)
    BY <1>0, <1>10, ExtendsBefore
  <2>2. ReadsOn(s) /\ Lexemes(s) = FoundIn(out, k) \o LexemesFrom(s)[Resumes(s)]
    BY <1>1, <2>1
  <2>3. /\ ReadsOn(s)' /\ Resumes(s)' \in 1..(Len(s) + 2)
        /\ LexemesFrom(s)[Resumes(s)] = <<FoundOf(x)>> \o LexemesFrom(s)[Resumes(s)']
    BY <1>10, <2>1, <2>2
  <2>4. PICK r : r = Resumes(s)'
    OBVIOUS
  <2>5. r \in 1..(Len(s) + 2)
    BY <2>3, <2>4
  <2>6. LexemesFrom(s)[r] \in Seq(Spans)
    BY <2>1, <2>5, LexemesFromFacts DEF Extends
  <2>7. <<FoundOf(x)>> \in Seq(Spans)
    BY <1>9
  <2>8. FoundIn(out, k) \o (<<FoundOf(x)>> \o LexemesFrom(s)[r])
        = (FoundIn(out, k) \o <<FoundOf(x)>>) \o LexemesFrom(s)[r]
    <3>1. PICK f, d, l : f = FoundIn(out, k) /\ d = <<FoundOf(x)>> /\ l = LexemesFrom(s)[r]
      OBVIOUS
    <3>2. f \in Seq(Spans) /\ d \in Seq(Spans) /\ l \in Seq(Spans)
      BY <1>8, <2>6, <2>7, <3>1
    <3>3. (f \o d) \o l = f \o (d \o l)
      BY <3>2, Joined
    <3> QED BY <3>1, <3>3
  <2> QED BY <1>7, <2>2, <2>3, <2>4, <2>8
<1>11. (\E i \in 0..Len(out) :
        /\ Eofs = (i + 1)..Len(out)
        /\ \A s : Extends(s) =>
             /\ ReadsOn(s)
             /\ Lexemes(s) = FoundIn(out, i) \o LexemesFrom(s)[Resumes(s)])'
  BY <1>6, <1>10
<1> QED BY <1>11 DEF LexInv

-----------------------------------------------------------------------------
(* lex() is called: it goes on where the last call stopped. *)
LEMMA LexLex ==
  ASSUME LexInv, Lex, StreamInv', "0xFF" \notin Chars
  PROVE  LexInv'
<1>1. /\ IInv /\ ~running /\ source \in Seq(Chars) /\ ended \in BOOLEAN
      /\ running' = TRUE /\ state' = "START" /\ UNCHANGED out
  BY DEF LexInv, StreamInv, IInv, TypeOK, Lex
<1>2. Reads /\ Frontier = Here'
  <2>1. CASE lookahead = "NUL"
    <3>1. Fgetc
      BY <2>1 DEF Lex
    <3>2. Frontier = Len(source) + 1
      BY <1>1, <2>1 DEF Frontier
    <3> QED BY <1>1, <3>1, <3>2, FgetcStep, FgetcReads
  <2>2. CASE lookahead # "NUL"
    <3>1. UNCHANGED file
      BY <2>2 DEF Lex
    <3>2. Frontier = Here
      BY <1>1, <2>2 DEF Frontier
    <3> QED BY <1>1, <3>1, <3>2, Unread DEF Reads, file
  <2> QED BY <2>1, <2>2
<1>3. TextFits'
  BY <1>1 DEF TextFits, Reading, TokenStates
<1>4. ASSUME NEW s PROVE GoesOn(s)
  <2>1. ReadsOn(s)'
    BY <1>1 DEF ReadsOn, TokenStates
  <2>2. Resumes(s)' = Here'
    BY <1>1 DEF Resumes, Frontier, Reading, TokenStates
  <2>3. Resumes(s) = Frontier
    BY <1>1 DEF Resumes
  <2> QED BY <1>2, <2>1, <2>2, <2>3 DEF GoesOn
<1> QED BY <1>1, <1>2, <1>3, <1>4, SilentLex

(* The text is not longer than what was read. *)
LEMMA EnterFits ==
  ASSUME IInv, NEW t \in Seq(Characters), NEW st, Enter(st, t)
  PROVE  Len(text') \in Nat /\ Len(t) \in Nat /\ Len(text') <= Len(t) + 1
<1>1. /\ text' = IF st \notin {"START", "COMMENT"} /\ Len(t) < TextSize
                 THEN Append(t, character) ELSE t
      /\ character \in Characters /\ Len(t) \in Nat
  BY LenProperties DEF Enter, IInv, TypeOK
<1>2. Append(t, character) \in Seq(Characters) /\ Len(Append(t, character)) = Len(t) + 1
  BY <1>1, AppendProperties
<1> QED BY <1>1, <1>2

(* What Advance does to the state of the loop. *)
LEMMA AdvanceTo ==
  ASSUME IInv, Advance
  PROVE  /\ running /\ running' = TRUE /\ state \in States /\ lookahead = "NUL"
         /\ source \in Seq(Chars) /\ ended \in BOOLEAN
         /\ state' = New /\ New \notin {"ACCEPT", "EOF"} /\ UNCHANGED <<lookahead, out>>
         /\ state = "ERROR" => New = "ERROR"
         /\ (state = "START" /\ New # "START") => from' = Here
         /\ ~(state = "START" /\ New # "START") => from' = from
         /\ Reads /\ Here' = Len(source) + 1
<1>1. /\ running /\ state \in States /\ lookahead = "NUL"
      /\ source \in Seq(Chars) /\ ended \in BOOLEAN
  BY DEF IInv, TypeOK, TextRead, Advance
<1>2. /\ state' = New /\ Fgetc /\ UNCHANGED <<lookahead, running, out>>
      /\ New \notin {"ACCEPT", "EOF"} /\ (state = "ERROR" => New = "ERROR")
  BY DEF Advance, Enter
<1>3. Reads /\ Here' = Len(source) + 1
  BY <1>1, <1>2, FgetcStep, FgetcReads
<1>4. /\ (state = "START" /\ New # "START") => from' = Here
      /\ ~(state = "START" /\ New # "START") => from' = from
  BY DEF Advance
<1> QED BY <1>1, <1>2, <1>3, <1>4

(* A character between the lexemes. *)
LEMMA AdvanceBetween ==
  ASSUME LexInv, Advance, "0xFF" \notin Chars, New \notin Reading,
         NEW s, Extends(s)
  PROVE  GoesOn(s)
<1>0. IInv
  BY DEF LexInv, StreamInv
<1>1. /\ running /\ running' = TRUE /\ state \in States
      /\ state' = New /\ New \notin {"ACCEPT", "EOF"}
      /\ state = "ERROR" => New = "ERROR"
      /\ Here' = Len(source) + 1
  BY <1>0, AdvanceTo
<1>2. PICK P, K : P = Here /\ K = Class(CharAt(s, P))
  OBVIOUS
<1>3. /\ s \in Seq(Chars) /\ Len(s) \in Nat /\ P \in 1..(Len(s) + 1)
      /\ New = NextState(state, K) /\ (ended <=> K = "EOF")
      /\ ended => P = Len(s) + 1 /\ P = Len(source) + 1
      /\ ~ended => P \in 1..Len(s) /\ P = Len(source)
  BY <1>0, <1>1, <1>2, Reached
<1>4. K \in Classes
  BY <1>2, ClassType
<1>5. state \notin Reading /\ state \in {"START", "COMMENT"}
  BY <1>0, <1>1, <1>3, <1>4, NextStateType DEF States, Reading
<1>6. New \in {"START", "COMMENT"}
  BY <1>1, <1>3, <1>4, <1>5, NextStateType
<1>7. ReadsOn(s)'
  BY <1>1, <1>6 DEF ReadsOn, TokenStates
<1>8. Resumes(s) = IF state = "COMMENT" THEN FirstOf(s, {"#"}, P) + 1 ELSE P
  BY <1>1, <1>2, <1>5 DEF Resumes, Frontier
<1>9. Resumes(s)' = IF New = "COMMENT" THEN FirstOf(s, {"#"}, Here') + 1 ELSE Here'
  BY <1>1, <1>6 DEF Resumes, Frontier, Reading, TokenStates
<1>10. CASE state = "START"
  <2>1. New = FromStart(K)
    BY <1>3, <1>10 DEF NextState
  <2>2. K # "EOF"
    BY <1>4, <1>6, <2>1, FromStartType
  <2>3. P \in 1..Len(s) /\ Here' = P + 1 /\ CharAt(s, P) = s[P]
    BY <1>1, <1>3, <2>2 DEF CharAt
  <2>4. CASE New = "START"
    <3>1. K = "WHITESPACE"
      BY <1>4, <2>1, <2>4 DEF FromStart, Classes
    <3>2. s[P] \in Blanks
      BY <1>2, <2>3, <3>1, ClassMeans
    <3>3. LexemesFrom(s)[P] = LexemesFrom(s)[P + 1]
      BY <1>3, <2>3, <3>2, FromBlank
    <3> QED BY <1>7, <1>8, <1>9, <1>10, <2>3, <2>4, <3>3 DEF GoesOn
  <2>5. CASE New = "COMMENT"
    <3>1. K = "HASHTAG"
      BY <1>4, <2>1, <2>5 DEF FromStart, Classes
    <3>2. s[P] = "#"
      <4>1. PICK c : c = s[P]
        OBVIOUS
      <4>2. Class(c) = "HASHTAG"
        BY <1>2, <2>3, <3>1, <4>1
      <4> QED BY <4>1, <4>2, ClassMeans
    <3>3. LexemesFrom(s)[P] = LexemesFrom(s)[FirstOf(s, {"#"}, P + 1) + 1]
      BY <1>3, <2>3, <3>2, FromComment
    <3> QED BY <1>7, <1>8, <1>9, <1>10, <2>3, <2>5, <3>3 DEF GoesOn
  <2> QED BY <1>6, <2>4, <2>5
<1>11. CASE state = "COMMENT"
  <2>1. New = IF K \in {"HASHTAG", "EOF"} THEN "START" ELSE "COMMENT"
    BY <1>3, <1>11 DEF NextState
  <2>2. CASE K \notin {"HASHTAG", "EOF"}
    <3>1. P \in 1..Len(s) /\ Here' = P + 1
      BY <1>1, <1>3, <2>2
    <3>2. FirstOf(s, {"#"}, P + 1) = FirstOf(s, {"#"}, P)
      BY <1>2, <1>3, <2>2, CommentOnward
    <3> QED BY <1>7, <1>8, <1>9, <1>11, <2>1, <2>2, <3>1, <3>2 DEF GoesOn
  <2>3. CASE K = "HASHTAG"
    <3>1. Here' = P + 1
      BY <1>1, <1>3, <2>3
    <3>2. FirstOf(s, {"#"}, P) = P
      BY <1>2, <1>3, <2>3, CommentOnward
    <3> QED BY <1>7, <1>8, <1>9, <1>11, <2>1, <2>3, <3>1, <3>2 DEF GoesOn
  <2>4. CASE K = "EOF"
    <3>1. Here' = P /\ P = Len(s) + 1
      BY <1>1, <1>3, <2>4
    <3>2. FirstOf(s, {"#"}, P) = P
      BY <1>2, <1>3, <2>4, CommentOnward
    <3>3. Resumes(s) = Len(s) + 2 /\ Resumes(s)' = Len(s) + 1
      <4>1. P + 1 = Len(s) + 2
        BY <1>3, <3>1
      <4> QED BY <1>8, <1>9, <1>11, <2>1, <2>4, <3>1, <3>2, <4>1
    <3>4. LexemesFrom(s)[Len(s) + 2] = << >> /\ LexemesFrom(s)[Len(s) + 1] = << >>
      BY <1>3, LexemesFromFacts
    <3> QED BY <1>7, <3>3, <3>4 DEF GoesOn
  <2> QED BY <2>2, <2>3, <2>4
<1> QED BY <1>5, <1>10, <1>11

(* A character of a lexeme, or of invalid text. *)
LEMMA AdvanceWithin ==
  ASSUME LexInv, Advance, "0xFF" \notin Chars, New \in Reading,
         NEW s, Extends(s), ReadsOn(s)
  PROVE  GoesOn(s)
<1>0. IInv
  BY DEF LexInv, StreamInv
<1>1. /\ running /\ running' = TRUE /\ state \in States
      /\ state' = New
      /\ state = "ERROR" => New = "ERROR"
      /\ (state = "START" /\ New # "START") => from' = Here
      /\ ~(state = "START" /\ New # "START") => from' = from
      /\ Here' = Len(source) + 1
  BY <1>0, AdvanceTo
<1>2. PICK P, K : P = Here /\ K = Class(CharAt(s, P))
  OBVIOUS
<1>3. /\ s \in Seq(Chars) /\ Len(s) \in Nat /\ P \in 1..(Len(s) + 1)
      /\ New = NextState(state, K) /\ (ended <=> K = "EOF")
      /\ ended => P = Len(s) + 1 /\ P = Len(source) + 1
      /\ ~ended => P \in 1..Len(s) /\ P = Len(source)
  BY <1>0, <1>1, <1>2, Reached
<1>4. K \in Classes
  BY <1>2, ClassType
<1>5. K # "EOF" /\ state # "COMMENT"
  <2>1. PICK st : st = NextState(state, K)
    OBVIOUS
  <2>2. st \notin {"EOF", "ACCEPT", "START", "COMMENT"}
    BY <1>3, <2>1 DEF Reading, TokenStates
  <2> QED BY <1>1, <1>4, <2>1, <2>2, NextStateType DEF States
<1>6. P \in 1..Len(s) /\ Here' = P + 1
  BY <1>1, <1>3, <1>5
<1>7. PICK a : a = from'
  OBVIOUS
<1>8. Resumes(s)' = a
  BY <1>1, <1>7 DEF Resumes, Frontier, Reading, TokenStates
<1>9. Here' - 1 = P
  BY <1>6
<1>10. ASSUME /\ Resumes(s) = a
              /\ New \in TokenStates => ReadAs(s, New, a, P)
              /\ New = "ERROR" => a <= P /\ Solid(s, a, P) /\ Invalid(s, a)
       PROVE  GoesOn(s)
  <2>1. ReadsOn(s)'
    BY <1>1, <1>7, <1>9, <1>10 DEF ReadsOn
  <2> QED BY <1>8, <1>10, <2>1 DEF GoesOn
<1>11. CASE state = "START"
  <2>1. New = FromStart(K) /\ a = P /\ New # "START"
    BY <1>1, <1>2, <1>3, <1>7, <1>11 DEF NextState, Reading, TokenStates
  <2>2. Resumes(s) = P
    BY <1>1, <1>2, <1>11 DEF Resumes, Frontier, Reading, TokenStates
  <2>3. CASE New \in TokenStates
    <3>1. ReadAs(s, New, P, P)
      <4>1. PICK st : st = New
        OBVIOUS
      <4>2. st \in TokenStates /\ st = FromStart(Class(CharAt(s, P)))
        BY <1>2, <2>1, <2>3, <4>1
      <4>3. ReadAs(s, st, P, P)
        BY <1>3, <4>2, TokenStarts
      <4> QED BY <4>1, <4>3
    <3> QED BY <1>10, <2>1, <2>2, <2>3, <3>1 DEF TokenStates
  <2>4. CASE New = "ERROR"
    <3>1. Solid(s, P, P) /\ Invalid(s, P)
      BY <1>2, <1>3, <2>1, <2>4, NoneBegins
    <3> QED BY <1>3, <1>10, <2>1, <2>2, <2>4, <3>1 DEF TokenStates
  <2> QED BY <2>3, <2>4 DEF Reading
<1>12. CASE state \in Reading
  <2>1. /\ state # "START" /\ a = from /\ a \in 1..(P - 1)
        /\ Resumes(s) = a
    BY <1>0, <1>1, <1>2, <1>7, <1>12
       DEF Resumes, Frontier, Reading, TokenStates, IInv, TextRead
  <2>2. PICK b : b = P - 1
    OBVIOUS
  <2>3. a \in 1..Len(s) /\ b \in a..Len(s) /\ b + 1 = P
    BY <1>3, <1>6, <2>1, <2>2
  <2>4. CASE state \in TokenStates
    <3>1. PICK st : st = state
      OBVIOUS
    <3>2. st \in TokenStates /\ ReadAs(s, st, a, b)
      BY <1>1, <1>2, <2>1, <2>2, <2>4, <3>1 DEF ReadsOn
    <3>3. New = FromToken(st, Class(CharAt(s, b + 1)))
      <4>1. NextState(st, K) = FromToken(st, K)
        BY <3>2 DEF NextState, TokenStates
      <4> QED BY <1>2, <1>3, <2>3, <3>1, <4>1
    <3>4. CASE New \in TokenStates
      <4>1. PICK st2 : st2 = New
        OBVIOUS
      <4>2. ReadAs(s, st2, a, b + 1)
        BY <1>3, <2>3, <3>2, <3>3, <3>4, <4>1, TokenGoesOn
      <4> QED BY <1>10, <2>1, <2>3, <3>4, <4>1, <4>2 DEF TokenStates
    <3>5. CASE New = "ERROR"
      <4>1. LexemeEnd(s, a) = b
        BY <1>3, <2>3, <3>2, <3>3, <3>5, TokenLongest
      <4>2. Clash(s, a, b)
        BY <1>3, <2>3, <3>2, <3>3, <3>5, TokenRefused
      <4>3. Invalid(s, a)
        BY <4>1, <4>2 DEF Invalid
      <4>4. Solid(s, a, b)
        BY <1>3, <2>3, <3>2, TokenSolid
      <4>5. K \notin {"WHITESPACE", "HASHTAG", "EOF"}
        <5>1. FromToken(st, K) = "ERROR"
          BY <1>2, <2>3, <3>3, <3>5
        <5> QED BY <1>4, <5>1 DEF FromToken, Refused, OperatorClasses, Classes
      <4>6. Solid(s, a, b + 1)
        BY <1>2, <1>3, <2>3, <4>4, <4>5, SolidOnward
      <4> QED BY <1>3, <1>10, <2>1, <2>3, <3>5, <4>3, <4>6 DEF TokenStates
    <3> QED BY <3>4, <3>5 DEF Reading
  <2>5. CASE state = "ERROR"
    <3>1. New = "ERROR" /\ K \notin {"WHITESPACE", "HASHTAG", "EOF"}
      BY <1>1, <1>3, <2>5 DEF NextState, TokenStates
    <3>2. Solid(s, a, b) /\ Invalid(s, a)
      BY <1>1, <1>2, <2>1, <2>2, <2>5 DEF ReadsOn
    <3>3. Solid(s, a, b + 1)
      BY <1>2, <1>3, <2>3, <3>1, <3>2, SolidOnward
    <3> QED BY <1>3, <1>10, <2>1, <2>3, <3>1, <3>2, <3>3 DEF TokenStates
  <2> QED BY <1>12, <2>4, <2>5 DEF Reading
<1> QED BY <1>1, <1>5, <1>11, <1>12 DEF States, Reading

(* A character is read, and nothing put out. *)
LEMMA AdvanceLex ==
  ASSUME LexInv, Advance, StreamInv', "0xFF" \notin Chars
  PROVE  LexInv'
<1>0. IInv /\ IInv'
  BY DEF LexInv, StreamInv
<1>1. /\ running /\ state \in States /\ state' = New /\ UNCHANGED out
      /\ (state = "START" /\ New # "START") => from' = Here
      /\ ~(state = "START" /\ New # "START") => from' = from
      /\ Reads /\ Here' = Len(source) + 1
      /\ source \in Seq(Chars) /\ ended \in BOOLEAN
  BY <1>0, AdvanceTo
<1>2. TextFits'
  <2>1. SUFFICES ASSUME New \in Reading PROVE Len(text') <= Here' - from'
    BY <1>1 DEF TextFits
  <2>2. Enter(New, text) /\ text \in Seq(Characters)
    BY <1>0 DEF Advance, IInv, TypeOK
  <2>3. Len(text') \in Nat /\ Len(text) \in Nat /\ Len(text') <= Len(text) + 1
    BY <1>0, <2>2, EnterFits
  <2>4. /\ New # "START" /\ state # "COMMENT" /\ character # "EOF"
    <3>1. state = "COMMENT" => New \in {"START", "COMMENT"}
      BY <1>1, NewState
    <3>2. character = "EOF" => New \notin Reading
      BY <1>1, NewState, <3>1 DEF Advance, States, Reading, TokenStates
    <3> QED BY <2>1, <3>1, <3>2 DEF Reading, TokenStates
  <2>5. ~ended /\ Here = Len(source) /\ Here \in Nat
    <3>1. CharacterRead(character)
      BY <1>0, <1>1 DEF IInv, TextRead
    <3> QED BY <1>1, <2>4, <3>1, LastCharacter
  <2>6. Here' = Here + 1
    BY <1>1, <2>5
  <2>7. CASE state = "START"
    <3>1. text = << >> /\ Len(text) = 0
      BY <1>0, <1>1, <2>7, EmptySeq DEF IInv, TextRead, Reading, TokenStates
    <3> QED BY <1>1, <2>3, <2>4, <2>5, <2>6, <2>7, <3>1
  <2>8. CASE state # "START"
    <3>1. state \in Reading
      BY <1>1, <2>4, <2>8 DEF States, Reading
    <3>2. Len(text) <= Here - from /\ from \in Nat
      BY <1>0, <1>1, <3>1 DEF LexInv, TextFits, IInv, TypeOK
    <3> QED BY <1>1, <2>3, <2>5, <2>6, <2>8, <3>2
  <2> QED BY <2>7, <2>8
<1>3. ASSUME NEW s, Extends(s), ReadsOn(s) PROVE GoesOn(s)
  BY <1>3, AdvanceBetween, AdvanceWithin
<1> QED BY <1>1, <1>2, <1>3, SilentLex

-----------------------------------------------------------------------------
(* A lexeme or invalid text has been read, and begins where the lexemes go on. *)
LEMMA TextRange ==
  ASSUME IInv, "0xFF" \notin Chars, running, state \in Reading, NEW s, Extends(s)
  PROVE  /\ s \in Seq(Chars) /\ Len(s) \in Nat /\ Here \in 1..(Len(s) + 1)
         /\ from \in 1..Len(s) /\ Here - 1 \in from..Len(s)
         /\ (Here - 1) + 1 = Here /\ Resumes(s) = from
<1>1. s \in Seq(Chars) /\ Len(s) \in Nat /\ Here \in 1..(Len(s) + 1)
  BY Reached
<1>2. from \in 1..(Here - 1)
  BY DEF IInv, TextRead
<1>3. Resumes(s) = from
  BY DEF Resumes, Frontier, Reading, TokenStates
<1> QED BY <1>1, <1>2, <1>3

(* It is accepted when it is the longest and nothing clashes with it. *)
LEMMA TokenEnds ==
  ASSUME IInv, "0xFF" \notin Chars, running, state \in TokenStates, New = "ACCEPT",
         NEW s, Extends(s), ReadsOn(s)
  PROVE  /\ Solid(s, from, Here - 1)
         /\ LexemeEnd(s, from) = Here - 1
         /\ ~Clash(s, from, Here - 1)
<1>1. /\ s \in Seq(Chars) /\ Len(s) \in Nat
      /\ from \in 1..Len(s) /\ Here - 1 \in from..Len(s) /\ (Here - 1) + 1 = Here
  BY TextRange DEF Reading
<1>2. PICK a, b, st : a = from /\ b = Here - 1 /\ st = state
  OBVIOUS
<1>3. a \in 1..Len(s) /\ b \in a..Len(s) /\ b + 1 = Here /\ st \in TokenStates
  BY <1>1, <1>2
<1>4. ReadAs(s, st, a, b)
  BY <1>2 DEF ReadsOn
<1>5. FromToken(st, Class(CharAt(s, b + 1))) = "ACCEPT"
  <2>1. New = NextState(state, Class(CharAt(s, Here)))
    BY Reached
  <2>2. NextState(st, Class(CharAt(s, b + 1))) = FromToken(st, Class(CharAt(s, b + 1)))
    BY <1>3 DEF NextState, TokenStates
  <2> QED BY <1>2, <1>3, <2>1, <2>2
<1>6. Solid(s, a, b)
  BY <1>1, <1>3, <1>4, TokenSolid
<1>7. LexemeEnd(s, a) = b
  BY <1>1, <1>3, <1>4, <1>5, TokenLongest
<1>8. ~Clash(s, a, b)
  <2>1. FromToken(st, Class(CharAt(s, b + 1))) = "ERROR" <=> Clash(s, a, b)
    BY <1>1, <1>3, <1>4, <1>5, TokenRefused
  <2> QED BY <1>5, <2>1
<1> QED BY <1>2, <1>6, <1>7, <1>8

(* A report ends the text. *)
LEMMA EnterLex ==
  ASSUME IInv, running, NEW st \in {"START", "COMMENT"}, NEW t, Enter(st, t)
  PROVE  /\ Reads /\ Here' = Len(source) + 1 /\ TextFits'
         /\ \A s : /\ ReadsOn(s)'
                   /\ st = "START" => Resumes(s)' = Here'
                   /\ st = "COMMENT" => Resumes(s)' = FirstOf(s, {"#"}, Here') + 1
<1>1. /\ source \in Seq(Chars) /\ ended \in BOOLEAN /\ Fgetc
      /\ running' = TRUE /\ state' = st
  BY DEF IInv, TypeOK, Enter
<1>2. Reads /\ Here' = Len(source) + 1
  BY <1>1, FgetcStep, FgetcReads
<1>3. TextFits'
  BY <1>1 DEF TextFits, Reading, TokenStates
<1>4. ASSUME NEW s
      PROVE  /\ ReadsOn(s)'
             /\ st = "START" => Resumes(s)' = Here'
             /\ st = "COMMENT" => Resumes(s)' = FirstOf(s, {"#"}, Here') + 1
  <2>1. ReadsOn(s)'
    BY <1>1 DEF ReadsOn, TokenStates
  <2>2. st = "START" => Resumes(s)' = Here'
    BY <1>1 DEF Resumes, Frontier, Reading, TokenStates
  <2>3. st = "COMMENT" => Resumes(s)' = FirstOf(s, {"#"}, Here') + 1
    BY <1>1 DEF Resumes
  <2> QED BY <2>1, <2>2, <2>3
<1> QED BY <1>2, <1>3, <1>4

(* The error that is reported is invalid text from where the lexemes go on. *)
LEMMA ReportedItem ==
  ASSUME StreamInv, running, state \in Reading,
         NEW t, t = TooLong \/ (t = text /\ Len(text) < TextSize),
         NEW x, x = Item("error", "INVALID", t, 0, text_loc, from, Here - 1)
  PROVE  /\ x \in OutputItem /\ x.type # "EOF" /\ Eofs = {}
         /\ FoundOf(x) = Bad(from, Here - 1)
<1>1. x \in OutputItem
  <2>1. "INVALID" \in Types /\ "error" \in {"token", "error"} /\ 0 \in Int /\ IInv
    BY DEF Types, StreamInv
  <2> QED BY <2>1, ItemOfText
<1>2. x.kind = "error" /\ x.type = "INVALID" /\ x.from = from /\ x.to = Here - 1
  BY DEF Item
<1>3. FoundOf(x) = Bad(from, Here - 1)
  BY <1>2 DEF FoundOf
<1> QED BY <1>1, <1>2, <1>3, InText

(* Invalid text is reported where a blank, a comment or the end follows it. *)
LEMMA ReportInvalidLex ==
  ASSUME LexInv, ReportInvalid, StreamInv', "0xFF" \notin Chars
  PROVE  LexInv'
<1>0. IInv /\ StreamInv
  BY DEF LexInv, StreamInv
<1>1. running /\ state = "ERROR" /\ state \in Reading /\ state \in States /\ New # "ERROR"
  BY DEF ReportInvalid, Reading, States
<1>2. PICK t, st : /\ t = IF Len(text) < TextSize THEN text ELSE TooLong
                   /\ st = IF New = "COMMENT" THEN "COMMENT" ELSE "START"
  OBVIOUS
<1>3. PICK x : x = Item("error", "INVALID", t, 0, text_loc, from, Here - 1)
  OBVIOUS
<1>4. st \in {"START", "COMMENT"} /\ Enter(st, << >>) /\ out' = Append(out, x)
  BY <1>2, <1>3 DEF ReportInvalid
<1>5. /\ x \in OutputItem /\ x.type # "EOF" /\ Eofs = {}
      /\ FoundOf(x) = Bad(from, Here - 1)
  <2>1. t = TooLong \/ (t = text /\ Len(text) < TextSize)
    BY <1>2
  <2> QED BY <1>0, <1>1, <1>3, <2>1, ReportedItem
<1>6. /\ Reads /\ Here' = Len(source) + 1 /\ TextFits'
      /\ \A s : /\ ReadsOn(s)'
                /\ st = "START" => Resumes(s)' = Here'
                /\ st = "COMMENT" => Resumes(s)' = FirstOf(s, {"#"}, Here') + 1
  BY <1>0, <1>1, <1>4, EnterLex
<1>7. ASSUME NEW s, Extends(s), ReadsOn(s)
      PROVE  /\ ReadsOn(s)' /\ Resumes(s)' \in 1..(Len(s) + 2)
             /\ LexemesFrom(s)[Resumes(s)] = <<FoundOf(x)>> \o LexemesFrom(s)[Resumes(s)']
  <2>1. PICK a, b, P, K : a = from /\ b = Here - 1 /\ P = Here /\ K = Class(CharAt(s, P))
    OBVIOUS
  <2>2. /\ s \in Seq(Chars) /\ Len(s) \in Nat /\ P \in 1..(Len(s) + 1)
        /\ a \in 1..Len(s) /\ b \in a..Len(s) /\ b + 1 = P /\ Resumes(s) = a
    BY <1>0, <1>1, <1>7, <2>1, TextRange
  <2>3. /\ New = NextState("ERROR", K) /\ (ended <=> K = "EOF") /\ ended \in BOOLEAN
        /\ ended => P = Len(s) + 1 /\ P = Len(source) + 1
        /\ ~ended => P \in 1..Len(s) /\ P = Len(source)
    BY <1>0, <1>1, <1>7, <2>1, Reached DEF IInv, TypeOK
  <2>4. /\ K \in {"WHITESPACE", "HASHTAG", "EOF"}
        /\ st = IF K = "HASHTAG" THEN "COMMENT" ELSE "START"
    <3>1. K = "WHITESPACE" => New = "START"
      BY <2>3 DEF NextState
    <3>2. K = "HASHTAG" => New = "COMMENT"
      BY <2>3 DEF NextState
    <3>3. K = "EOF" => New = "ACCEPT"
      BY <2>3 DEF NextState
    <3>4. K \notin {"WHITESPACE", "HASHTAG", "EOF"} => New = "ERROR"
      BY <2>3 DEF NextState
    <3> QED BY <1>1, <1>2, <3>1, <3>2, <3>3, <3>4
  <2>5. PICK c : c = CharAt(s, P)
    OBVIOUS
  <2>6. P <= Len(s) => c = s[P] /\ K # "EOF"
    <3>1. P <= Len(s) => c = s[P]
      BY <2>2, <2>5 DEF CharAt
    <3> QED BY <2>2, <2>3, <3>1
  <2>7. /\ K = "WHITESPACE" => c \in Blanks
        /\ K = "HASHTAG" => c = "#"
    BY <2>1, <2>5, ClassMeans
  <2>8. LexemesFrom(s)[a] = <<Bad(a, b)>> \o LexemesFrom(s)[P]
    <3>1. Solid(s, a, b) /\ Invalid(s, a)
      BY <1>1, <1>7, <2>1 DEF ReadsOn
    <3>2. b + 1 <= Len(s) => s[b + 1] \in Blanks \cup {"#"}
      BY <2>2, <2>4, <2>6, <2>7
    <3> QED BY <2>2, <3>1, <3>2, FromInvalid
  <2>9. Resumes(s)' \in 1..(Len(s) + 2) /\ LexemesFrom(s)[Resumes(s)'] = LexemesFrom(s)[P]
    <3>1. CASE K = "WHITESPACE"
      <4>1. ~ended /\ P \in 1..Len(s) /\ Here' = P + 1 /\ st = "START"
        BY <1>6, <2>3, <2>4, <3>1
      <4>2. Resumes(s)' = P + 1
        BY <1>6, <4>1
      <4>3. LexemesFrom(s)[P] = LexemesFrom(s)[P + 1]
        BY <2>2, <2>6, <2>7, <3>1, <4>1, FromBlank
      <4> QED BY <2>2, <4>1, <4>2, <4>3
    <3>2. CASE K = "HASHTAG"
      <4>1. ~ended /\ P \in 1..Len(s) /\ Here' = P + 1 /\ st = "COMMENT"
        BY <1>6, <2>3, <2>4, <3>2
      <4>2. Resumes(s)' = FirstOf(s, {"#"}, P + 1) + 1
        BY <1>6, <4>1
      <4>3. LexemesFrom(s)[P] = LexemesFrom(s)[FirstOf(s, {"#"}, P + 1) + 1]
        BY <2>2, <2>6, <2>7, <3>2, <4>1, FromComment
      <4>4. P + 1 \in 1..(Len(s) + 1)
        BY <2>2, <4>1
      <4>5. PICK f : f = FirstOf(s, {"#"}, P + 1)
        OBVIOUS
      <4>6. f \in (P + 1)..(Len(s) + 1)
        BY <2>2, <4>4, <4>5, FirstOfType
      <4> QED BY <2>2, <4>1, <4>2, <4>3, <4>5, <4>6
    <3>3. CASE K = "EOF"
      <4>1. Here' = P /\ st = "START"
        BY <1>6, <2>3, <2>4, <3>3
      <4>2. Resumes(s)' = P
        BY <1>6, <4>1
      <4> QED BY <2>2, <4>2
    <3> QED BY <2>4, <3>1, <3>2, <3>3
  <2> QED BY <1>5, <1>6, <2>1, <2>2, <2>8, <2>9
<1> QED BY <1>4, <1>5, <1>6, <1>7, FoundLex

(* A lexeme too long takes the character behind it with it. *)
LEMMA ReportTooLongLex ==
  ASSUME LexInv, ReportTooLong, StreamInv', "0xFF" \notin Chars
  PROVE  LexInv'
<1>0. IInv /\ StreamInv
  BY DEF LexInv, StreamInv
<1>1. /\ running /\ state \in TokenStates /\ state \in Reading /\ New = "ACCEPT"
      /\ Len(text) = TextSize
  BY DEF ReportTooLong, Reading
<1>2. PICK x : x = Item("error", "INVALID", TooLong, 0, text_loc, from, Here - 1)
  OBVIOUS
<1>3. Enter("START", << >>) /\ out' = Append(out, x)
  BY <1>2 DEF ReportTooLong
<1>4. /\ x \in OutputItem /\ x.type # "EOF" /\ Eofs = {}
      /\ FoundOf(x) = Bad(from, Here - 1)
  BY <1>0, <1>1, <1>2, ReportedItem
<1>5. /\ Reads /\ Here' = Len(source) + 1 /\ TextFits'
      /\ \A s : ReadsOn(s)' /\ Resumes(s)' = Here'
  <2>1. PICK st : st = "START"
    OBVIOUS
  <2>2. st \in {"START", "COMMENT"} /\ Enter(st, << >>)
    BY <1>3, <2>1
  <2> QED BY <1>0, <1>1, <2>1, <2>2, EnterLex
<1>6. ASSUME NEW s, Extends(s), ReadsOn(s)
      PROVE  /\ ReadsOn(s)' /\ Resumes(s)' \in 1..(Len(s) + 2)
             /\ LexemesFrom(s)[Resumes(s)] = <<FoundOf(x)>> \o LexemesFrom(s)[Resumes(s)']
  <2>1. PICK a, b, P, K : a = from /\ b = Here - 1 /\ P = Here /\ K = Class(CharAt(s, P))
    OBVIOUS
  <2>2. /\ s \in Seq(Chars) /\ Len(s) \in Nat /\ P \in 1..(Len(s) + 1)
        /\ a \in 1..Len(s) /\ b \in a..Len(s) /\ b + 1 = P /\ Resumes(s) = a
    BY <1>0, <1>1, <1>6, <2>1, TextRange
  <2>3. /\ ended \in BOOLEAN
        /\ ended => P = Len(s) + 1 /\ P = Len(source) + 1
        /\ ~ended => P \in 1..Len(s) /\ P = Len(source)
    BY <1>0, <1>1, <1>6, <2>1, Reached DEF IInv, TypeOK
  <2>4. Solid(s, a, b) /\ LexemeEnd(s, a) = b /\ ~Clash(s, a, b)
    BY <1>0, <1>1, <1>6, <2>1, TokenEnds
  <2>5. b - a + 1 >= TextSize
    <3>1. Len(text) <= P - a
      BY <1>1, <2>1 DEF LexInv, TextFits
    <3> QED BY <1>1, <2>2, <3>1, ScannerAssumption
  <2>6. LexemesFrom(s)[a] = <<Bad(a, b)>> \o LexemesFrom(s)[b + 2]
    BY <2>2, <2>4, <2>5, FromLexeme
  <2>7. Resumes(s)' \in 1..(Len(s) + 2)
        /\ LexemesFrom(s)[Resumes(s)'] = LexemesFrom(s)[b + 2]
    <3>1. CASE ~ended
      <4>1. Here' = b + 2
        BY <1>5, <2>2, <2>3, <3>1
      <4>2. Resumes(s)' = b + 2
        BY <1>5, <4>1
      <4> QED BY <2>2, <4>2
    <3>2. CASE ended
      <4>1. Here' = Len(s) + 1 /\ b + 2 = Len(s) + 2
        BY <1>5, <2>2, <2>3, <3>2
      <4>2. Resumes(s)' = Len(s) + 1
        BY <1>5, <4>1
      <4>3. LexemesFrom(s)[Len(s) + 1] = << >> /\ LexemesFrom(s)[Len(s) + 2] = << >>
        BY <2>2, LexemesFromFacts
      <4> QED BY <2>2, <4>1, <4>2, <4>3
    <3> QED BY <2>3, <3>1, <3>2
  <2> QED BY <1>4, <1>5, <2>1, <2>2, <2>6, <2>7
<1> QED BY <1>3, <1>4, <1>5, <1>6, FoundLex

(* A token is the lexeme from where the lexemes go on. *)
LEMMA DeliverLex ==
  ASSUME LexInv, Deliver, StreamInv', "0xFF" \notin Chars
  PROVE  LexInv'
<1>0. IInv /\ StreamInv
  BY DEF LexInv, StreamInv
<1>1. /\ running /\ state \in TokenStates /\ state \in Reading /\ New = "ACCEPT"
      /\ Len(text) < TextSize /\ running' = FALSE /\ lookahead' = character
      /\ UNCHANGED file /\ source \in Seq(Chars) /\ ended \in BOOLEAN
  <2>1. Len(text) \in Nat /\ Len(text) <= TextSize
    BY <1>0, LenProperties DEF IInv, TypeOK
  <2> QED BY <1>0, <2>1, ScannerAssumption DEF Deliver, Reading, IInv, TypeOK
<1>2. PICK v \in (IF state = "LITERAL" THEN Atoi(text) ELSE {0}) :
        out' = Append(out, Item("token", TypeOf(state, text), text, v, text_loc,
                                from, Here - 1))
  BY DEF Deliver
<1>3. PICK x : x = Item("token", TypeOf(state, text), text, v, text_loc, from, Here - 1)
  OBVIOUS
<1>4. x \in OutputItem
  <2>1. v \in Int /\ TypeOf(state, text) \in Types /\ "token" \in {"token", "error"}
    BY <1>1, <1>2, AtoiType, TypeOfType
  <2> QED BY <1>0, <1>1, <1>3, <2>1, ItemOfText
<1>5. /\ out' = Append(out, x) /\ x.type # "EOF" /\ Eofs = {}
      /\ FoundOf(x) = Good(from, Here - 1)
  <2>1. /\ x.kind = "token" /\ x.type = TypeOf(state, text)
        /\ x.from = from /\ x.to = Here - 1
    BY <1>3 DEF Item
  <2>2. FoundOf(x) = Good(from, Here - 1)
    BY <2>1 DEF FoundOf
  <2>3. out' = Append(out, x)
    BY <1>2, <1>3
  <2> QED BY <1>0, <1>1, <2>1, <2>2, <2>3, TypeOfNotEof, InText
<1>6. Reads /\ Here' = Here
  BY <1>1, Unread DEF Reads, file
<1>7. TextFits'
  BY <1>1 DEF TextFits
<1>8. lookahead' # "NUL"
  <2>1. character = "NUL" => New = "ERROR"
    BY <1>0, <1>1, NewState DEF IInv, TypeOK
  <2> QED BY <1>1, <2>1
<1>9. ASSUME NEW s, Extends(s), ReadsOn(s)
      PROVE  /\ ReadsOn(s)' /\ Resumes(s)' \in 1..(Len(s) + 2)
             /\ LexemesFrom(s)[Resumes(s)] = <<FoundOf(x)>> \o LexemesFrom(s)[Resumes(s)']
  <2>1. PICK a, b, P : a = from /\ b = Here - 1 /\ P = Here
    OBVIOUS
  <2>2. /\ s \in Seq(Chars) /\ Len(s) \in Nat /\ P \in 1..(Len(s) + 1)
        /\ a \in 1..Len(s) /\ b \in a..Len(s) /\ b + 1 = P /\ Resumes(s) = a
    BY <1>0, <1>1, <1>9, <2>1, TextRange
  <2>3. Solid(s, a, b) /\ LexemeEnd(s, a) = b /\ ~Clash(s, a, b)
    BY <1>0, <1>1, <1>9, <2>1, TokenEnds
  <2>4. b - a + 1 < TextSize
    <3>1. text = SubSeq(source, a, b)
      BY <1>0, <1>1, <2>1 DEF IInv, TextRead
    <3>2. b - a + 1 <= Len(text)
      <4>1. b <= Len(source) /\ Len(source) \in Nat
        BY <1>1, <2>1, <2>2, HereType
      <4>2. \A i \in a..b : source[i] \in Chars
        <5> TAKE i \in a..b
        <5>1. i \in 1..Len(source)
          BY <2>2, <4>1
        <5> QED BY <1>1, <5>1, ElementOfSeq
      <4> QED BY <1>1, <2>2, <3>1, <4>1, <4>2, SubSeqProperties
    <3>3. Len(text) \in Nat
      BY <1>0, LenProperties DEF IInv, TypeOK
    <3> QED BY <1>1, <2>2, <3>2, <3>3, ScannerAssumption
  <2>5. LexemesFrom(s)[a] = <<Good(a, b)>> \o LexemesFrom(s)[P]
    BY <2>2, <2>3, <2>4, FromLexeme
  <2>6. Resumes(s)' = P
    BY <1>1, <1>6, <1>8, <2>1 DEF Resumes, Frontier
  <2>7. ReadsOn(s)'
    BY <1>1 DEF ReadsOn
  <2> QED BY <1>5, <2>1, <2>2, <2>5, <2>6, <2>7
<1> QED BY <1>4, <1>5, <1>6, <1>7, <1>9, FoundLex

-----------------------------------------------------------------------------
(* Behind the lexemes there is only EOF. *)
LEMMA DeliverEofLex ==
  ASSUME LexInv, DeliverEof, StreamInv', "0xFF" \notin Chars
  PROVE  LexInv'
<1>1. /\ IInv /\ running /\ state = "START" /\ lookahead = "NUL" /\ UNCHANGED file
      /\ CharacterRead(character) /\ source \in Seq(Chars) /\ Len(source) \in Nat
      /\ out \in Seq(OutputItem) /\ Len(out) \in Nat /\ ended \in BOOLEAN
      /\ running' = FALSE /\ lookahead' = "NUL"
  BY LenProperties DEF DeliverEof, LexInv, StreamInv, IInv, TypeOK, TextRead
<1>2. ended /\ Here = Len(source) + 1
  <2>1. character = "EOF"
    BY OnlyEofEnds DEF DeliverEof
  <2> QED BY <1>1, <2>1, EndIsEof DEF Here
<1>3. PICK x : x = Item("token", "EOF", << >>, 0, loc, Here, Here)
  OBVIOUS
<1>4. x \in OutputItem /\ x.type = "EOF" /\ out' = Append(out, x)
  <2>1. "EOF" \in Types /\ << >> \in Seq(Characters) /\ 0 \in Int
    BY EmptySeq DEF Types
  <2> QED BY <1>1, <1>2, <1>3, <2>1 DEF DeliverEof, Item, OutputItem, IInv, TypeOK
<1>5. /\ DOMAIN out = 1..Len(out) /\ DOMAIN out' = 1..(Len(out) + 1)
      /\ \A n \in 1..Len(out) : out'[n] = out[n]
      /\ out'[Len(out) + 1] = x /\ Len(out') = Len(out) + 1
  BY <1>1, <1>4, OutOnward, AppendProperties
<1>6. PICK k \in 0..Len(out) :
        /\ Eofs = (k + 1)..Len(out)
        /\ \A s : Extends(s) =>
             /\ ReadsOn(s)
             /\ Lexemes(s) = FoundIn(out, k) \o LexemesFrom(s)[Resumes(s)]
  BY DEF LexInv
<1>7. Eofs' = Eofs \cup {Len(out) + 1}
  BY <1>4, <1>5 DEF Eofs
<1>8. k \in 0..Len(out') /\ Eofs' = (k + 1)..Len(out')
  BY <1>1, <1>5, <1>6, <1>7
<1>9. FoundIn(out', k) = FoundIn(out, k)
  BY <1>1, <1>4, FoundOnward
<1>10. TextFits'
  BY <1>1 DEF TextFits
<1>11. ASSUME NEW s, Extends(s)'
       PROVE  /\ ReadsOn(s)'
              /\ Lexemes(s) = FoundIn(out', k) \o LexemesFrom(s)[Resumes(s)']
  <2>1. Extends(s)
    BY <1>1, <1>11 DEF Extends, file
  <2>2. Lexemes(s) = FoundIn(out, k) \o LexemesFrom(s)[Resumes(s)]
    BY <1>6, <2>1
  <2>3. Resumes(s) = Len(source) + 1
    BY <1>1, <1>2 DEF Resumes, Frontier, Reading, TokenStates
  <2>4. Resumes(s)' = Len(source) + 1
    BY <1>1 DEF Resumes, Frontier, file
  <2>5. ReadsOn(s)'
    BY <1>1 DEF ReadsOn
  <2> QED BY <1>9, <2>2, <2>3, <2>4, <2>5
<1>12. (\E i \in 0..Len(out) :
        /\ Eofs = (i + 1)..Len(out)
        /\ \A s : Extends(s) =>
             /\ ReadsOn(s)
             /\ Lexemes(s) = FoundIn(out, i) \o LexemesFrom(s)[Resumes(s)])'
  BY <1>8, <1>11
<1> QED BY <1>10, <1>12 DEF LexInv

(* Nothing happens. *)
LEMMA UnchangedLex ==
  ASSUME LexInv, UNCHANGED vars, StreamInv'
  PROVE  LexInv'
<1>1. /\ UNCHANGED out /\ source \in Seq(Chars) /\ ended \in BOOLEAN /\ UNCHANGED file
  BY DEF vars, file, LexInv, StreamInv, IInv, TypeOK
<1>2. Reads
  BY <1>1, Unread DEF Reads, file
<1>3. TextFits'
  BY DEF LexInv, TextFits, Here, vars
<1>4. ASSUME NEW s, ReadsOn(s) PROVE GoesOn(s)
  <2>1. ReadsOn(s)'
    BY <1>4 DEF ReadsOn, Here, vars
  <2>2. Resumes(s)' = Resumes(s)
    BY DEF Resumes, Frontier, Here, vars
  <2> QED BY <2>1, <2>2 DEF GoesOn
<1> QED BY <1>1, <1>2, <1>3, <1>4, SilentLex

(* Before the first call all the lexemes are ahead, *)
LEMMA InitLex == Init => LexInv
<1> SUFFICES ASSUME Init PROVE LexInv
  OBVIOUS
<1>1. StreamInv
  BY InitStream
<1>2. /\ out = << >> /\ Len(out) = 0 /\ DOMAIN out = {} /\ running = FALSE
      /\ lookahead = "NUL" /\ source = << >> /\ Len(source) = 0
  BY DEF Init
<1>3. Eofs = (0 + 1)..Len(out)
  BY <1>2 DEF Eofs
<1>4. TextFits
  BY <1>2 DEF TextFits
<1>5. ASSUME NEW s, Extends(s)
      PROVE  /\ ReadsOn(s)
             /\ Lexemes(s) = FoundIn(out, 0) \o LexemesFrom(s)[Resumes(s)]
  <2>1. ReadsOn(s)
    BY <1>2 DEF ReadsOn
  <2>2. Resumes(s) = 1
    BY <1>2 DEF Resumes, Frontier
  <2>3. LexemesFrom(s)[1] \in Seq(Spans)
    <3>1. s \in Seq(Chars) /\ Len(s) \in Nat
      BY <1>5, LenProperties DEF Extends
    <3>2. \A p \in 1..(Len(s) + 2) : LexemesFrom(s)[p] \in Seq(Spans)
      BY <3>1, LexemesFromFacts
    <3>3. 1 \in 1..(Len(s) + 2)
      BY <3>1
    <3> QED BY <3>2, <3>3
  <2>4. FoundIn(out, 0) = << >>
    <3>1. 0 \in 0..Len(out) /\ out \in Seq(OutputItem)
      BY <1>1, <1>2 DEF StreamInv, IInv, TypeOK
    <3>2. FoundIn(out, 0) \in Seq(Spans) /\ Len(FoundIn(out, 0)) = 0
      BY <3>1, FoundType
    <3> QED BY <3>2, EmptySeq
  <2>5. << >> \o LexemesFrom(s)[1] = LexemesFrom(s)[1]
    BY <2>3, ConcatEmptySeq
  <2> QED BY <2>1, <2>2, <2>4, <2>5 DEF Lexemes
<1>6. 0 \in 0..Len(out)
  BY <1>2
<1> QED BY <1>1, <1>3, <1>4, <1>5, <1>6 DEF LexInv

(* and every step finds the next one, or none. *)
LEMMA NextLex ==
  ASSUME LexInv, [Next]_vars, "0xFF" \notin Chars
  PROVE  LexInv'
<1>1. StreamInv
  BY DEF LexInv
<1>2. StreamInv'
  BY <1>1, NextStream
<1> QED BY <1>2, LexLex, AdvanceLex, ReportInvalidLex, ReportTooLongLex, DeliverLex,
           DeliverEofLex, UnchangedLex DEF Next, Loop, Done

(* At the end nothing is left of the source. *)
LEMMA LexFound == LexInv => FindsTheLexemes
<1> SUFFICES ASSUME LexInv, ~running, ended, Eofs # {}
             PROVE  /\ Eofs = (Len(Lexemes(source)) + 1)..Len(out)
                    /\ \A n \in DOMAIN Lexemes(source) :
                         out[n] = [out[n] EXCEPT
                                     !.from = Lexemes(source)[n].from,
                                     !.to = Lexemes(source)[n].to,
                                     !.kind = IF Lexemes(source)[n].valid
                                              THEN "token" ELSE "error"]
  BY DEF FindsTheLexemes
<1>1. source \in Seq(Chars) /\ Len(source) \in Nat /\ out \in Seq(OutputItem)
  BY LenProperties DEF LexInv, StreamInv, IInv, TypeOK
<1>2. Extends(source)
  BY <1>1 DEF Extends
<1>3. PICK k \in 0..Len(out) :
        /\ Eofs = (k + 1)..Len(out)
        /\ Lexemes(source) = FoundIn(out, k) \o LexemesFrom(source)[Resumes(source)]
  BY <1>2 DEF LexInv
<1>4. Resumes(source) = Len(source) + 1
  BY DEF LexInv, StreamInv, EofIsTheEnd, Resumes, Frontier
<1>5. LexemesFrom(source)[Len(source) + 1] = << >>
  BY <1>1, LexemesFromFacts
<1>6. FoundIn(out, k) \in Seq(Spans) /\ Len(FoundIn(out, k)) = k
  BY <1>1, FoundType
<1>7. Lexemes(source) = FoundIn(out, k)
  BY <1>3, <1>4, <1>5, <1>6, ConcatEmptySeq
<1>8. ASSUME NEW n \in 1..k
      PROVE  out[n] = [out[n] EXCEPT !.from = FoundOf(out[n]).from,
                                     !.to = FoundOf(out[n]).to,
                                     !.kind = IF FoundOf(out[n]).valid
                                              THEN "token" ELSE "error"]
  <2>1. PICK x : x = out[n]
    OBVIOUS
  <2>2. x \in OutputItem
    <3>1. n \in 1..Len(out)
      BY <1>1, LenProperties
    <3> QED BY <1>1, <2>1, <3>1, ElementOfSeq
  <2>3. x.kind \in {"token", "error"}
    BY <2>2 DEF OutputItem
  <2>4. /\ FoundOf(x).from = x.from /\ FoundOf(x).to = x.to
        /\ x.kind = IF FoundOf(x).valid THEN "token" ELSE "error"
    BY <2>3 DEF FoundOf, Good, Bad
  <2>5. x = [x EXCEPT !.from = x.from, !.to = x.to, !.kind = x.kind]
    BY <2>2 DEF OutputItem
  <2>6. x = [x EXCEPT !.from = FoundOf(x).from, !.to = FoundOf(x).to,
                      !.kind = IF FoundOf(x).valid THEN "token" ELSE "error"]
    BY <2>4, <2>5
  <2> QED BY <2>1, <2>6
<1>9. DOMAIN FoundIn(out, k) = 1..k /\ \A n \in 1..k : FoundIn(out, k)[n] = FoundOf(out[n])
  BY DEF FoundIn
<1>10. ASSUME NEW n \in DOMAIN Lexemes(source)
       PROVE  out[n] = [out[n] EXCEPT
                          !.from = Lexemes(source)[n].from,
                          !.to = Lexemes(source)[n].to,
                          !.kind = IF Lexemes(source)[n].valid
                                   THEN "token" ELSE "error"]
  <2>1. n \in 1..k /\ Lexemes(source)[n] = FoundOf(out[n])
    BY <1>7, <1>9
  <2> QED BY <1>8, <2>1
<1>11. Eofs = (Len(Lexemes(source)) + 1)..Len(out)
  BY <1>3, <1>6, <1>7
<1> QED BY <1>10, <1>11

(***************************************************************************)
(* The scanner finds the lexemes of the source, all of them and nothing    *)
(* else, whatever the length of the buffer and of the source: each is the  *)
(* longest that begins where the one before has ended, a token where it is *)
(* valid and an error where it is not, and after the last of them come     *)
(* only EOFs.  The states of Transition_Table (scanner.c:47) and the one   *)
(* character of lookahead do what the longest lexeme asks for.  The source *)
(* has no byte 255, which a char cannot tell from the end (scanner.c:79).  *)
(***************************************************************************)
THEOREM LexemesAlwaysFound ==
  ASSUME "0xFF" \notin Chars
  PROVE  Spec => []FindsTheLexemes
<1>1. Init => LexInv
  BY InitLex
<1>2. LexInv /\ [Next]_vars => LexInv'
  BY NextLex
<1>3. LexInv => FindsTheLexemes
  BY LexFound
<1> QED BY <1>1, <1>2, <1>3, PTL DEF Spec

=============================================================================
