-------------------------- MODULE ErrorListProofs --------------------------
(***************************************************************************)
(* Proofs about the error list, for any number of errors and token types.  *)
(***************************************************************************)
EXTENDS ErrorListProps, SequenceTheorems, TLAPS

(* The errors in use are the last ones made, each linked to the next one.   *)
Chained ==
  /\ Len(reported) <= Len(heap)
  /\ \A k \in 1..Len(reported) : heap[Base + k].err = reported[k]
  /\ \A k \in (Base + 1)..Len(heap) :
       heap[k].next = IF k < Len(heap) THEN k + 1 ELSE Null

(* The ends of the list, and what has been freed, from the first error on.  *)
Ends ==
  /\ \A i \in DOMAIN freed : freed[i] = i
  /\ Len(freed) \in Base..Len(heap)
  /\ head = IF Len(freed) = Len(heap) THEN Null ELSE Len(freed) + 1
  /\ pc # "clear" => /\ Len(freed) = Base
                     /\ tail = IF Len(reported) = 0 THEN Null ELSE Len(heap)

(* An entry whose tokens have been named as far as the bit m. *)
NamedBelow(entry, m) ==
  /\ \A b \in 0..TypeMax :
       (b \in entry.err.expected /\ b < m)
          <=> \E i \in DOMAIN entry.named : entry.named[i] = b
  /\ \A i, j \in DOMAIN entry.named : i < j => entry.named[i] < entry.named[j]

EntriesExact ==
  /\ Len(shown) <= Len(reported)
  /\ \A n \in DOMAIN shown :
       /\ shown[n].index = n /\ shown[n].err = reported[n]
       /\ (n < Len(shown) \/ pc # "name") => NamesExpected(shown[n])

(* How far error_list_show is. *)
Cursor ==
  /\ pc = "show" => tmp = IF Len(shown) = Len(reported) THEN Null
                          ELSE Base + Len(shown) + 1
  /\ pc = "name" => /\ Len(shown) >= 1
                    /\ tmp = Base + Len(shown)
                    /\ NamedBelow(shown[Len(shown)], mask)
  /\ pc = "shown" => Len(shown) = Len(reported)

IInv == TypeOK /\ Chained /\ Ends /\ EntriesExact /\ Cursor
-----------------------------------------------------------------------------
(* What the types say of the sequences. *)
LEMMA Lengths ==
  ASSUME TypeOK
  PROVE  /\ Len(heap) \in Nat /\ DOMAIN heap = 1..Len(heap)
         /\ Len(shown) \in Nat /\ DOMAIN shown = 1..Len(shown)
         /\ Len(freed) \in Nat /\ DOMAIN freed = 1..Len(freed)
         /\ Len(reported) \in Nat /\ Base \in Int
         /\ \A k \in 1..Len(heap) : heap[k] \in Errors
         /\ \A n \in 1..Len(shown) : shown[n] \in Entries
         /\ \A n \in 1..Len(reported) : reported[n] \in Reports
         /\ TypeMax \in Nat
<1>1. /\ heap \in Seq(Errors) /\ shown \in Seq(Entries) /\ freed \in Seq(Pointers)
      /\ reported \in Seq(Reports)
  BY DEF TypeOK
<1>2. Len(heap) \in Nat /\ Len(shown) \in Nat /\ Len(freed) \in Nat /\ Len(reported) \in Nat
  BY <1>1, LenProperties
<1> QED BY <1>1, <1>2, LenProperties, ElementOfSeq, ErrorAssumption DEF Base

(* A record that is known by its fields. *)
LEMMA MadeType ==
  ASSUME TypeOK, NEW e \in Reports, NEW l \in Nat, l >= Len(heap)
  PROVE  Made(e) \in [err : Reports, next : 0..l] /\ Made(e).err = e /\ Made(e).next = Null
BY Lengths DEF Made, Null

(* Longer heaps have more pointers. *)
LEMMA TypesGrow ==
  ASSUME TypeOK, NEW l \in Nat, l >= Len(heap)
  PROVE  /\ heap \in Seq([err : Reports, next : 0..l])
         /\ freed \in Seq(0..l)
<1>1. 0..Len(heap) \subseteq 0..l
  BY Lengths
<1>2. Errors \subseteq [err : Reports, next : 0..l]
  BY <1>1 DEF Errors, Pointers
<1> QED BY <1>1, <1>2, SeqMonotonic DEF TypeOK, Pointers

-----------------------------------------------------------------------------
(* error_list_add: the new error is linked behind the tail, or is the head. *)
LEMMA AddStep == ASSUME IInv, NEW e \in Reports, Add(e) PROVE IInv'
<1> DEFINE n == Len(heap)
           list == Append(heap, Made(e))
           Bigger == [err : Reports, next : 0..(n + 1)]
<1>1. TypeOK /\ pc = "idle" /\ reported' = Append(reported, e)
      /\ UNCHANGED <<pc, tmp, mask, shown, freed>>
  BY DEF IInv, Add
<1>2. /\ n \in Nat /\ Len(reported) \in Nat /\ reported \in Seq(Reports)
      /\ Len(reported) <= n
  BY <1>1, Lengths DEF IInv, Chained, TypeOK
<1>3. /\ reported' \in Seq(Reports) /\ Len(reported') = Len(reported) + 1
      /\ \A k \in 1..Len(reported) : reported'[k] = reported[k]
      /\ reported'[Len(reported) + 1] = e
  BY <1>1, <1>2, AppendProperties
<1>4. heap \in Seq(Bigger) /\ freed \in Seq(0..(n + 1)) /\ Made(e) \in Bigger
      /\ Made(e).err = e /\ Made(e).next = Null
  BY <1>1, <1>2, TypesGrow, MadeType
<1> HIDE DEF Bigger
<1>5. /\ list \in Seq(Bigger) /\ Len(list) = n + 1
      /\ \A k \in 1..n : list[k] = heap[k]
      /\ list[n + 1] = Made(e)
  BY <1>4, AppendProperties
<1>a. /\ Empty => heap' = list /\ head' = n + 1 /\ tail' = n + 1
      /\ ~Empty => Linked(list, n + 1)
  BY DEF Add
<1> HIDE DEF list
<1>6. Empty <=> Len(freed) = n
  BY <1>2, Lengths, <1>1 DEF Empty, IInv, Ends, Null
<1>7. Len(freed) = Base /\ Len(freed) \in Nat
  BY <1>1, Lengths DEF IInv, Ends
<1>8. Empty <=> Len(reported) = 0
  BY <1>2, <1>6, <1>7 DEF Base
<1>9. /\ heap' \in Seq(Bigger) /\ Len(heap') = n + 1
      /\ \A k \in 1..n : heap'[k].err = heap[k].err
      /\ heap'[n + 1].err = e
      /\ \A k \in 1..n : k < n => heap'[k].next = heap[k].next
      /\ Len(reported) > 0 => heap'[n].next = n + 1
      /\ heap'[n + 1].next = Null
      /\ head' = (IF Len(reported) = 0 THEN n + 1 ELSE head)
      /\ tail' = n + 1
  <2>1. CASE Empty
    <3>1. \A k \in 1..n : k < n => list[k].next = heap[k].next
      BY <1>5
    <3>2. \A k \in 1..n : list[k].err = heap[k].err
      BY <1>5
    <3> QED BY <1>a, <1>2, <1>4, <1>5, <1>8, <2>1, <3>1, <3>2
  <2>2. CASE ~Empty
    <3>1. Linked(list, n + 1) /\ tail = n /\ n \in 1..(n + 1)
      BY <1>a, <1>1, <1>2, <1>8, <2>2 DEF IInv, Ends
    <3>2. n \in 1..n /\ list[n] = heap[n] /\ heap[n] \in Errors /\ n >= 1
      <4>1. n \in 1..n
        BY <1>2, <1>8, <2>2
      <4> QED BY <1>1, <1>5, <4>1, Lengths
    <3> DEFINE patched == [list[n] EXCEPT !.next = n + 1]
    <3>3. /\ patched \in Bigger /\ patched.err = heap[n].err /\ patched.next = n + 1
      BY <1>2, <3>2 DEF Errors, Bigger
    <3>4. heap' = [list EXCEPT ![n] = patched]
      BY <3>1 DEF Linked
    <3> HIDE DEF patched
    <3>5. /\ heap' \in Seq(Bigger) /\ Len(heap') = n + 1
          /\ \A k \in 1..(n + 1) : heap'[k] = IF k = n THEN patched ELSE list[k]
      <4>1. n \in 1..Len(list)
        BY <1>5, <3>1
      <4>2. /\ [list EXCEPT ![n] = patched] \in Seq(Bigger)
            /\ Len([list EXCEPT ![n] = patched]) = Len(list)
            /\ \A k \in 1..Len(list) :
                 [list EXCEPT ![n] = patched][k] = IF k = n THEN patched ELSE list[k]
        BY <1>5, <3>3, <4>1, ExceptSeq
      <4> QED BY <1>5, <3>4, <4>2
    <3>6. n # n + 1 /\ \A k \in 1..n : k \in 1..(n + 1) /\ (k < n => k # n)
      BY <1>2
    <3> QED BY <1>2, <1>4, <1>5, <1>8, <2>2, <3>1, <3>3, <3>5, <3>6 DEF Linked
  <2> QED BY <2>1, <2>2
<1>10. Base' = Base
  BY <1>2, <1>3, <1>9 DEF Base
<1>11. TypeOK'
  <2>1. heap' \in Seq(Errors)'
    BY <1>9 DEF Bigger, Errors, Pointers
  <2>2. {head', tail', tmp'} \subseteq 0..(n + 1) /\ (Pointers)' = 0..(n + 1)
    BY <1>1, <1>2, <1>9 DEF TypeOK, Pointers
  <2>3. freed' \in Seq(Pointers)'
    BY <1>1, <1>4, <2>2
  <2>4. shown' \in Seq(Entries)'
    BY <1>1 DEF TypeOK, Entries
  <2> QED BY <1>1, <1>3, <2>1, <2>2, <2>3, <2>4 DEF TypeOK
<1>12. Chained'
  <2>1. ASSUME NEW k \in 1..(Len(reported) + 1)
        PROVE  heap'[Base + k].err = reported'[k]
    <3>1. CASE k = Len(reported) + 1
      BY <1>2, <1>3, <1>9, <3>1 DEF Base
    <3>2. CASE k \in 1..Len(reported)
      <4>1. Base + k \in 1..n
        BY <1>2, <3>2 DEF Base
      <4> QED BY <1>3, <1>9, <3>2, <4>1 DEF IInv, Chained
    <3> QED BY <1>2, <3>1, <3>2
  <2>2. ASSUME NEW k \in (Base + 1)..(n + 1)
        PROVE  heap'[k].next = IF k < n + 1 THEN k + 1 ELSE Null
    <3>0. Base \in Nat /\ (k <= n => Len(reported) > 0)
      BY <1>2, <1>7, <2>2 DEF Base
    <3>1. CASE k = n + 1
      BY <1>2, <1>9, <3>1
    <3>2. CASE k = n
      BY <1>2, <1>9, <3>0, <3>2
    <3>3. CASE k < n
      BY <1>2, <1>9, <3>0, <3>3, <2>2 DEF IInv, Chained
    <3> QED BY <1>2, <3>0, <3>1, <3>2, <3>3
  <2> QED BY <1>2, <1>3, <1>9, <1>10, <2>1, <2>2 DEF Chained
<1>13. Ends'
  <2>1. head' = Len(freed) + 1
    BY <1>2, <1>6, <1>7, <1>8, <1>9 DEF IInv, Ends
  <2> QED BY <1>1, <1>2, <1>3, <1>7, <1>9, <1>10, <2>1 DEF IInv, Ends, Base
<1>14. EntriesExact'
  <2>1. \A k \in DOMAIN shown : k \in 1..Len(reported)
    BY <1>1, <1>2, Lengths DEF IInv, EntriesExact
  <2>2. Len(shown) <= Len(reported')
    BY <1>1, <1>2, <1>3, Lengths DEF IInv, EntriesExact
  <2> QED BY <1>1, <1>3, <2>1, <2>2 DEF IInv, EntriesExact, NamesExpected
<1>15. Cursor'
  BY <1>1 DEF Cursor
<1> QED BY <1>11, <1>12, <1>13, <1>14, <1>15 DEF IInv

(* The steps that add nothing. *)
LEMMA ChainKept ==
  ASSUME IInv, UNCHANGED <<heap, reported>>
  PROVE  Chained' /\ Base' = Base
BY DEF IInv, Chained, Base

(* Head and tail are the ends as long as no error comes or goes. *)
LEMMA EndsKept ==
  ASSUME IInv, UNCHANGED <<heap, reported, head, tail, freed>>,
         (pc = "clear") = (pc' = "clear")
  PROVE  Ends'
BY DEF IInv, Ends, Base

(* error_list_show begins at the head. *)
LEMMA ShowStep == ASSUME IInv, Show PROVE IInv'
<1>1. TypeOK /\ pc = "idle" /\ pc' = "show" /\ tmp' = head /\ shown' = << >>
      /\ UNCHANGED <<heap, head, tail, mask, freed, reported>>
  BY DEF IInv, Show
<1>2. << >> \in Seq(Entries) /\ Len(<< >>) = 0 /\ DOMAIN << >> = {}
  BY EmptySeq
<1>3. TypeOK'
  BY <1>1, <1>2 DEF TypeOK, Pointers, Errors, Entries
<1>4. Ends'
  BY <1>1, EndsKept
<1>5. EntriesExact'
  BY <1>1, <1>2, Lengths DEF EntriesExact
<1>6. Cursor'
  <2>1. Len(freed) = Base /\ head = IF Len(freed) = Len(heap) THEN Null ELSE Len(freed) + 1
    BY <1>1 DEF IInv, Ends
  <2>2. head = IF 0 = Len(reported) THEN Null ELSE Base + 1
    BY <1>1, <2>1, Lengths DEF Base
  <2>3. Base' = Base
    BY <1>1 DEF Base
  <2> QED BY <1>1, <1>2, <2>2, <2>3, Lengths DEF Cursor
<1> QED BY <1>1, <1>3, <1>4, <1>5, <1>6, ChainKept DEF IInv

(* The pointer of error_list_show is at the error to be shown next. *)
LEMMA NextShown ==
  ASSUME IInv, pc = "show", tmp # Null
  PROVE  /\ tmp \in 1..Len(heap) /\ tmp = Base + Len(shown) + 1
         /\ Len(shown) + 1 \in 1..Len(reported)
         /\ heap[tmp].err = reported[Len(shown) + 1]
         /\ heap[tmp].err \in Reports
<1>1. TypeOK /\ tmp = Base + Len(shown) + 1 /\ Len(shown) # Len(reported)
      /\ Len(shown) <= Len(reported)
  BY DEF IInv, Cursor, EntriesExact
<1>2. Len(shown) + 1 \in 1..Len(reported) /\ Len(reported) <= Len(heap)
  BY <1>1, Lengths DEF IInv, Chained
<1>3. tmp \in 1..Len(heap)
  BY <1>1, <1>2, Lengths DEF Base
<1>4. tmp = Base + (Len(shown) + 1)
  BY <1>1, Lengths
<1>5. heap[tmp].err = reported[Len(shown) + 1]
  BY <1>2, <1>4 DEF IInv, Chained
<1> QED BY <1>1, <1>2, <1>3, <1>5, Lengths

(* The link of the error that entry k shows leads to the one of entry k+1.  *)
LEMMA LinkLeads ==
  ASSUME IInv, NEW k \in 1..Len(reported)
  PROVE  /\ Base + k \in 1..Len(heap)
         /\ heap[Base + k].next = IF k = Len(reported) THEN Null ELSE Base + k + 1
         /\ heap[Base + k].next \in Pointers
<1>1. TypeOK /\ Len(reported) <= Len(heap)
  BY DEF IInv, Chained
<1>2. Base + k \in (Base + 1)..Len(heap) /\ Base \in Nat
      /\ (Base + k < Len(heap) <=> k # Len(reported))
  BY <1>1, Lengths DEF Base
<1>3. heap[Base + k].next = IF k = Len(reported) THEN Null ELSE Base + k + 1
  BY <1>1, <1>2, Lengths DEF IInv, Chained
<1>4. Base + k \in 1..Len(heap)
  BY <1>2
<1>5. heap[Base + k].next \in Pointers
  BY <1>1, <1>4, Lengths DEF Errors
<1> QED BY <1>3, <1>4, <1>5

(* An error is shown, and the cursor goes on to the next. *)
LEMMA ShowNextStep == ASSUME IInv, ShowNext PROVE IInv'
<1> DEFINE n == Len(shown) + 1
<1>1. TypeOK /\ pc = "show" /\ tmp # Null
      /\ UNCHANGED <<heap, head, tail, freed, reported>>
  BY DEF IInv, ShowNext
<1>2. /\ tmp \in 1..Len(heap) /\ tmp = Base + n /\ n \in 1..Len(reported)
      /\ heap[tmp].err = reported[n] /\ heap[tmp].err \in Reports
  <2>1. tmp = Base + Len(shown) + 1
    BY <1>1, NextShown
  <2>2. tmp = Base + n
    BY <1>1, <2>1, Lengths
  <2> QED BY <1>1, <2>2, NextShown
<1>3. PICK x : x = [index |-> n, err |-> heap[tmp].err, named |-> << >>]
  OBVIOUS
<1>4. x \in Entries /\ x.index = n /\ x.err = reported[n] /\ x.named = << >>
  <2>1. << >> \in Seq(0..TypeMax)
    BY EmptySeq
  <2> QED BY <1>2, <1>3, <2>1 DEF Entries
<1>5. shown' = Append(shown, x)
  BY <1>3 DEF ShowNext
<1>6. /\ shown' \in Seq(Entries) /\ Len(shown') = n /\ shown'[n] = x
      /\ \A k \in 1..(n - 1) : shown'[k] = shown[k]
      /\ Len(shown) \in Nat
  <2>1. shown \in Seq(Entries) /\ Len(shown) \in Nat
    BY <1>1, Lengths DEF TypeOK
  <2>2. /\ shown' \in Seq(Entries) /\ Len(shown') = Len(shown) + 1
        /\ shown'[Len(shown) + 1] = x
        /\ \A k \in 1..Len(shown) : shown'[k] = shown[k]
    BY <1>4, <1>5, <2>1, AppendProperties
  <2> QED BY <2>1, <2>2
<1>7. DOMAIN shown' = 1..n /\ DOMAIN shown = 1..(n - 1)
  BY <1>1, <1>6, LenProperties, Lengths
<1>8. heap[tmp].next \in Pointers
      /\ heap[tmp].next = IF n = Len(reported) THEN Null ELSE Base + n + 1
  BY <1>2, LinkLeads
<1>9. \/ /\ x.err.type = "UNEXPECTED_TOKEN" /\ pc' = "name" /\ mask' = 0 /\ tmp' = tmp
      \/ /\ x.err.type # "UNEXPECTED_TOKEN" /\ pc' = "show" /\ mask' = mask
         /\ tmp' = heap[tmp].next
  BY <1>1, <1>2, <1>4 DEF ShowNext
<1>10. TypeOK'
  <2>1. tmp' \in Pointers /\ mask' \in 0..(TypeMax + 1) /\ pc' \in {"show", "name"}
    BY <1>1, <1>8, <1>9, Lengths DEF TypeOK
  <2> QED BY <1>1, <1>6, <2>1 DEF TypeOK, Pointers, Errors, Entries
<1>11. Base' = Base /\ Chained'
  BY <1>1, ChainKept
<1>12. Ends'
  BY <1>1, <1>9, EndsKept
<1>13. EntriesExact'
  <2>1. ASSUME NEW k \in 1..n
        PROVE  /\ shown'[k].index = k /\ shown'[k].err = reported[k]
               /\ (k < n \/ pc' # "name") => NamesExpected(shown'[k])
    <3>1. CASE k = n
      BY <1>4, <1>6, <1>9, <3>1 DEF NamesExpected
    <3>2. CASE k \in 1..(n - 1)
      BY <1>1, <1>6, <1>7, <3>2 DEF IInv, EntriesExact
    <3> QED BY <1>6, <3>1, <3>2
  <2> QED BY <1>1, <1>2, <1>6, <1>7, <2>1 DEF EntriesExact, NamesExpected
<1>14. Cursor'
  <2>1. CASE pc' = "show"
    BY <1>1, <1>6, <1>8, <1>9, <1>11, <2>1 DEF Cursor
  <2>2. CASE pc' = "name"
    <3>1. tmp' = tmp /\ mask' = 0
      BY <1>9, <2>2
    <3>2. NamedBelow(x, 0)
      BY <1>4 DEF NamedBelow
    <3>3. shown'[Len(shown')] = x
      BY <1>6
    <3>4. NamedBelow(shown[Len(shown)], mask)'
      BY <3>1, <3>2, <3>3 DEF NamedBelow
    <3> QED BY <1>2, <1>6, <1>11, <2>2, <3>1, <3>4 DEF Cursor
  <2> QED BY <1>9, <2>1, <2>2
<1> QED BY <1>10, <1>11, <1>12, <1>13, <1>14 DEF IInv

(* For an unexpected token the expected ones are named, one by one. *)
LEMMA NameStep == ASSUME IInv, Name PROVE IInv'
<1> DEFINE n == Len(shown)
           old == shown[n]
<1>1. TypeOK /\ pc = "name" /\ mask <= TypeMax /\ mask' = mask + 1
      /\ UNCHANGED <<heap, head, tail, pc, tmp, freed, reported>>
  BY DEF IInv, Name, InMask
<1>2. /\ n \in Nat /\ n >= 1 /\ tmp = Base + n /\ NamedBelow(old, mask)
      /\ n \in 1..Len(reported) /\ DOMAIN shown = 1..n /\ old \in Entries
      /\ old.index = n /\ old.err = reported[n] /\ mask \in 0..TypeMax
  <2>1. n \in Nat /\ n >= 1 /\ tmp = Base + n /\ NamedBelow(old, mask) /\ DOMAIN shown = 1..n
    BY <1>1, Lengths DEF IInv, Cursor
  <2>2. n \in 1..n /\ n \in 1..Len(reported)
    BY <1>1, <2>1, Lengths DEF IInv, EntriesExact
  <2>3. old \in Entries /\ old.index = n /\ old.err = reported[n]
    BY <1>1, <2>1, <2>2, Lengths DEF IInv, EntriesExact
  <2> QED BY <1>1, <2>1, <2>2, <2>3, Lengths DEF TypeOK
<1>3. heap[tmp].err = old.err
  BY <1>2 DEF IInv, Chained
<1>4. /\ old.named \in Seq(0..TypeMax) /\ Len(old.named) \in Nat
      /\ DOMAIN old.named = 1..Len(old.named)
  BY <1>2, LenProperties DEF Entries
<1> DEFINE more == Append(old.named, mask)
           x == IF mask \in old.err.expected THEN [old EXCEPT !.named = more] ELSE old
<1>5. /\ x \in Entries /\ x.index = n /\ x.err = old.err
      /\ x.named = IF mask \in old.err.expected THEN more ELSE old.named
  <2>1. more \in Seq(0..TypeMax)
    BY <1>2, <1>4, AppendProperties
  <2> HIDE DEF more
  <2> QED BY <1>2, <2>1 DEF Entries
<1>6. shown' = [shown EXCEPT ![n] = x]
  <2>1. CASE mask \in old.err.expected
    <3>1. shown' = [shown EXCEPT ![n].named = Append(@, mask)]
      BY <1>3, <2>1 DEF Name
    <3> QED BY <2>1, <3>1
  <2>2. CASE mask \notin old.err.expected
    <3>1. shown' = shown
      BY <1>3, <2>2 DEF Name
    <3>2. shown \in Seq(Entries) /\ n \in DOMAIN shown
      BY <1>1, <1>2 DEF TypeOK
    <3> QED BY <1>1, <2>2, <3>1, <3>2, LenProperties
  <2> QED BY <2>1, <2>2
<1> HIDE DEF x
<1>7. NamedBelow(x, mask + 1)
  <2>1. CASE mask \in old.err.expected
    <3>1. /\ Len(more) = Len(old.named) + 1 /\ DOMAIN more = 1..(Len(old.named) + 1)
          /\ \A i \in 1..Len(old.named) : more[i] = old.named[i]
          /\ more[Len(old.named) + 1] = mask
      <4>1. more \in Seq(0..TypeMax) /\ Len(more) = Len(old.named) + 1
        BY <1>2, <1>4, AppendProperties
      <4> QED BY <1>2, <1>4, <4>1, AppendProperties, LenProperties
    <3> HIDE DEF more
    <3>2. \A i \in 1..Len(old.named) : old.named[i] < mask
      <4> TAKE i \in 1..Len(old.named)
      <4>1. old.named[i] \in 0..TypeMax
        BY <1>4, ElementOfSeq
      <4> QED BY <1>2, <1>4, <4>1 DEF NamedBelow
    <3>3. ASSUME NEW b \in 0..TypeMax
          PROVE  (b \in old.err.expected /\ b < mask + 1)
                    <=> \E i \in DOMAIN more : more[i] = b
      <4>1. (\E i \in DOMAIN more : more[i] = b)
              <=> b = mask \/ \E i \in 1..Len(old.named) : old.named[i] = b
        <5>1. DOMAIN more = 1..Len(old.named) \cup {Len(old.named) + 1}
          BY <1>4, <3>1
        <5> QED BY <1>4, <3>1, <5>1
      <4>2. (b \in old.err.expected /\ b < mask)
               <=> \E i \in 1..Len(old.named) : old.named[i] = b
        BY <1>2, <1>4 DEF NamedBelow
      <4>3. b < mask + 1 <=> b < mask \/ b = mask
        BY <1>2
      <4> QED BY <2>1, <4>1, <4>2, <4>3
    <3>5. \A i, j \in DOMAIN more : i < j => more[i] < more[j]
      <4>1. ASSUME NEW i \in 1..(Len(old.named) + 1), NEW j \in 1..(Len(old.named) + 1), i < j
            PROVE  more[i] < more[j]
        <5>1. i \in 1..Len(old.named)
          BY <1>4, <4>1
        <5>2. CASE j = Len(old.named) + 1
          BY <3>1, <3>2, <5>1, <5>2
        <5>3. CASE j \in 1..Len(old.named)
          BY <1>2, <1>4, <3>1, <4>1, <5>1, <5>3 DEF NamedBelow
        <5> QED BY <1>4, <5>2, <5>3
      <4> QED BY <3>1, <4>1
    <3>6. x.named = more /\ x.err = old.err
      BY <1>5, <2>1
    <3> QED BY <3>3, <3>5, <3>6 DEF NamedBelow
  <2>2. CASE mask \notin old.err.expected
    <3>1. x.named = old.named /\ x.err = old.err
      BY <1>5, <2>2
    <3>2. ASSUME NEW b \in 0..TypeMax, b \in old.err.expected
          PROVE  b < mask + 1 <=> b < mask
      BY <1>2, <2>2, <3>2
    <3> QED BY <1>2, <3>1, <3>2 DEF NamedBelow
  <2> QED BY <2>1, <2>2
<1>8. PICK y : y = x
  OBVIOUS
<1>9. /\ shown' \in Seq(Entries) /\ Len(shown') = n
      /\ \A k \in 1..n : shown'[k] = IF k = n THEN y ELSE shown[k]
  <2>1. shown \in Seq(Entries) /\ n \in 1..Len(shown)
    BY <1>1, <1>2 DEF TypeOK
  <2> QED BY <1>5, <1>6, <1>8, <2>1, ExceptSeq
<1>10. TypeOK'
  <2>1. mask' \in 0..(TypeMax + 1)
    BY <1>1, <1>2, Lengths
  <2> QED BY <1>1, <1>9, <2>1 DEF TypeOK, Pointers, Errors, Entries
<1>11. Base' = Base /\ Chained'
  BY <1>1, ChainKept
<1>12. Ends'
  BY <1>1, EndsKept
<1>13. DOMAIN shown' = 1..n
  BY <1>9, LenProperties
<1>14. EntriesExact'
  <2>1. ASSUME NEW k \in 1..n
        PROVE  /\ shown'[k].index = k /\ shown'[k].err = reported[k]
               /\ k < n => NamesExpected(shown'[k])
    <3>1. CASE k = n
      <4>1. shown'[k] = y /\ y.index = k /\ y.err = reported[k]
        BY <1>2, <1>5, <1>8, <1>9, <3>1
      <4> QED BY <1>2, <3>1, <4>1
    <3>2. CASE k # n
      BY <1>1, <1>2, <1>9, <3>2 DEF IInv, EntriesExact
    <3> QED BY <3>1, <3>2
  <2>2. Len(shown') <= Len(reported') /\ pc' = "name"
    <3>1. Len(reported) \in Nat
      BY <1>1, Lengths
    <3>2. Len(shown') = n /\ n \in 1..Len(reported)
      BY <1>2, <1>9
    <3>3. Len(shown') <= Len(reported)
      BY <3>1, <3>2
    <3> QED BY <1>1, <3>3
  <2>3. \A k \in 1..n : k < Len(shown') => k < n
    BY <1>9
  <2>4. ASSUME NEW k \in DOMAIN shown'
        PROVE  /\ shown'[k].index = k /\ shown'[k].err = reported'[k]
               /\ (k < Len(shown') \/ pc' # "name") => NamesExpected(shown[k])'
    <3>1. (k < n => NamesExpected(shown'[k])) => (k < n => NamesExpected(shown[k])')
      BY DEF NamesExpected
    <3> QED BY <1>1, <1>13, <2>1, <2>2, <2>3, <3>1
  <2> QED BY <2>2, <2>4 DEF EntriesExact
<1>15. Cursor'
  <2>1. n \in 1..n
    BY <1>2
  <2>2. NamedBelow(shown[Len(shown)], mask)'
    BY <1>1, <1>7, <1>8, <1>9, <2>1 DEF NamedBelow
  <2> QED BY <1>1, <1>2, <1>9, <1>11, <2>2 DEF Cursor
<1> QED BY <1>10, <1>11, <1>12, <1>14, <1>15 DEF IInv

(* The last of the expected tokens has been named. *)
LEMMA NamedStep == ASSUME IInv, Named PROVE IInv'
<1> DEFINE n == Len(shown)
<1>1. TypeOK /\ pc = "name" /\ pc' = "show" /\ tmp' = heap[tmp].next
      /\ ~(mask <= TypeMax)
      /\ UNCHANGED <<heap, head, tail, mask, shown, freed, reported>>
  BY DEF IInv, Named, InMask
<1>2. /\ n \in Nat /\ tmp = Base + n /\ n \in 1..Len(reported) /\ DOMAIN shown = 1..n
      /\ NamedBelow(shown[n], mask) /\ shown[n] \in Entries
  <2>1. n \in Nat /\ n >= 1 /\ tmp = Base + n /\ NamedBelow(shown[n], mask)
        /\ DOMAIN shown = 1..n
    BY <1>1, Lengths DEF IInv, Cursor
  <2>2. n \in 1..n /\ n \in 1..Len(reported)
    BY <1>1, <2>1, Lengths DEF IInv, EntriesExact
  <2> QED BY <1>1, <2>1, <2>2, Lengths
<1>3. /\ heap[tmp].next \in Pointers
      /\ heap[tmp].next = IF n = Len(reported) THEN Null ELSE Base + n + 1
  BY <1>2, LinkLeads
<1>4. NamesExpected(shown[n])
  <2>1. mask \in Nat /\ mask > TypeMax /\ TypeMax \in Nat
    BY <1>1, Lengths DEF TypeOK
  <2>2. /\ shown[n].err.expected \subseteq 0..TypeMax
        /\ \A i \in DOMAIN shown[n].named : shown[n].named[i] \in 0..TypeMax
    <3>1. shown[n].err \in Reports /\ shown[n].named \in Seq(0..TypeMax)
      BY <1>2 DEF Entries
    <3>2. shown[n].err.expected \subseteq 0..TypeMax
      BY <3>1 DEF Reports
    <3>3. DOMAIN shown[n].named = 1..Len(shown[n].named)
      BY <3>1, LenProperties
    <3>4. ASSUME NEW i \in DOMAIN shown[n].named PROVE shown[n].named[i] \in 0..TypeMax
      BY <3>1, <3>3, ElementOfSeq
    <3> QED BY <3>2, <3>4
  <2>3. \A b \in 0..TypeMax :
          b \in shown[n].err.expected
            <=> \E i \in DOMAIN shown[n].named : shown[n].named[i] = b
    BY <1>2, <2>1 DEF NamedBelow
  <2>4. {shown[n].named[i] : i \in DOMAIN shown[n].named} = shown[n].err.expected
    BY <2>2, <2>3
  <2> QED BY <1>2, <2>4 DEF NamesExpected, NamedBelow
<1>5. TypeOK'
  BY <1>1, <1>3 DEF TypeOK, Pointers, Errors, Entries
<1>6. Base' = Base /\ Chained' /\ Ends'
  BY <1>1, ChainKept, EndsKept
<1>7. EntriesExact'
  <2>1. ASSUME NEW k \in 1..n PROVE NamesExpected(shown[k])
    BY <1>1, <1>2, <1>4 DEF IInv, EntriesExact
  <2> QED BY <1>1, <1>2, <2>1 DEF IInv, EntriesExact, NamesExpected
<1>8. Cursor'
  BY <1>1, <1>2, <1>3, <1>6 DEF Cursor
<1> QED BY <1>5, <1>6, <1>7, <1>8 DEF IInv

(* The cursor has reached the null pointer. *)
LEMMA ShowDoneStep == ASSUME IInv, ShowDone PROVE IInv'
<1>1. TypeOK /\ pc = "show" /\ tmp = Null /\ pc' = "shown"
      /\ UNCHANGED <<heap, head, tail, tmp, mask, shown, freed, reported>>
  BY DEF IInv, ShowDone
<1>2. TypeOK'
  BY <1>1 DEF TypeOK, Pointers, Errors, Entries
<1>3. Base' = Base /\ Chained' /\ Ends'
  BY <1>1, ChainKept, EndsKept
<1>4. EntriesExact'
  BY <1>1 DEF IInv, EntriesExact, NamesExpected
<1>5. Len(shown) = Len(reported)
  <2>1. Base >= 0
    BY <1>1, Lengths DEF IInv, Chained, Base
  <2> QED BY <1>1, <2>1, Lengths DEF IInv, Cursor, Null
<1> QED BY <1>1, <1>2, <1>3, <1>4, <1>5 DEF IInv, Cursor

(* main goes on after error_list_show. *)
LEMMA ReturnStep == ASSUME IInv, Return PROVE IInv'
<1>1. TypeOK /\ pc = "shown" /\ pc' = "idle"
      /\ UNCHANGED <<heap, head, tail, tmp, mask, shown, freed, reported>>
  BY DEF IInv, Return
<1>2. TypeOK'
  BY <1>1 DEF TypeOK, Pointers, Errors, Entries
<1>3. Chained' /\ Ends'
  BY <1>1, ChainKept, EndsKept
<1>4. EntriesExact'
  BY <1>1 DEF IInv, EntriesExact, NamesExpected
<1> QED BY <1>1, <1>2, <1>3, <1>4 DEF IInv, Cursor

(* error_list_clear begins at the head. *)
LEMMA ClearStep == ASSUME IInv, Clear PROVE IInv'
<1>1. TypeOK /\ pc = "idle" /\ pc' = "clear"
      /\ UNCHANGED <<heap, head, tail, tmp, mask, shown, freed, reported>>
  BY DEF IInv, Clear
<1>2. TypeOK'
  BY <1>1 DEF TypeOK, Pointers, Errors, Entries
<1>3. Base' = Base /\ Chained'
  BY <1>1, ChainKept
<1>4. Ends'
  BY <1>1, <1>3 DEF IInv, Ends
<1>5. EntriesExact'
  BY <1>1 DEF IInv, EntriesExact, NamesExpected
<1> QED BY <1>1, <1>2, <1>3, <1>4, <1>5 DEF IInv, Cursor

(* An error is freed after its link has been read. *)
LEMMA ClearNextStep == ASSUME IInv, ClearNext PROVE IInv'
<1>1. TypeOK /\ pc = "clear" /\ head # Null /\ tmp' = head /\ head' = heap[head].next
      /\ freed' = Append(freed, head)
      /\ UNCHANGED <<heap, tail, pc, mask, shown, reported>>
  BY DEF IInv, ClearNext, Empty
<1>2. /\ Len(freed) \in Nat /\ Len(heap) \in Nat /\ Base \in Nat /\ Base <= Len(freed)
      /\ Len(freed) < Len(heap) /\ head = Len(freed) + 1
  <2>1. Len(freed) \in Nat /\ Len(heap) \in Nat /\ Len(reported) \in Nat /\ Base \in Int
    BY <1>1, Lengths
  <2>2. Base >= 0
    BY <2>1 DEF IInv, Chained, Base
  <2>3. /\ Len(freed) \in Base..Len(heap)
        /\ head = IF Len(freed) = Len(heap) THEN Null ELSE Len(freed) + 1
    BY DEF IInv, Ends
  <2>4. Base <= Len(freed) /\ Len(freed) <= Len(heap)
    BY <2>1, <2>3
  <2>5. Len(freed) # Len(heap) /\ head = Len(freed) + 1
    BY <1>1, <2>3
  <2> QED BY <2>1, <2>2, <2>4, <2>5
<1>3. head \in 1..Len(heap) /\ head \in (Base + 1)..Len(heap) /\ head \in Pointers
  BY <1>2 DEF Pointers
<1>4. head' = (IF head < Len(heap) THEN head + 1 ELSE Null) /\ head' \in Pointers
  BY <1>1, <1>2, <1>3 DEF IInv, Chained, Pointers, Null
<1>5. /\ freed' \in Seq(Pointers) /\ Len(freed') = Len(freed) + 1
      /\ \A i \in 1..Len(freed) : freed'[i] = freed[i]
      /\ freed'[Len(freed) + 1] = Len(freed) + 1
  BY <1>1, <1>2, <1>3, AppendProperties DEF TypeOK
<1>6. DOMAIN freed' = 1..(Len(freed) + 1) /\ DOMAIN freed = 1..Len(freed)
  BY <1>1, <1>5, LenProperties, Lengths
<1>7. TypeOK'
  BY <1>1, <1>3, <1>4, <1>5 DEF TypeOK, Pointers, Errors, Entries
<1>8. Base' = Base /\ Chained'
  BY <1>1, ChainKept
<1>9. Ends'
  <2>1. \A i \in DOMAIN freed' : freed'[i] = i
    <3> TAKE i \in DOMAIN freed'
    <3>1. CASE i = Len(freed) + 1
      BY <1>5, <3>1
    <3>2. CASE i \in 1..Len(freed)
      BY <1>5, <1>6, <3>2 DEF IInv, Ends
    <3> QED BY <1>2, <1>6, <3>1, <3>2
  <2>2. Len(freed') \in Base..Len(heap)
    BY <1>2, <1>5
  <2>3. head' = IF Len(freed') = Len(heap) THEN Null ELSE Len(freed') + 1
    BY <1>2, <1>4, <1>5
  <2> QED BY <1>1, <1>8, <2>1, <2>2, <2>3 DEF Ends
<1>10. EntriesExact'
  BY <1>1 DEF IInv, EntriesExact, NamesExpected
<1> QED BY <1>1, <1>7, <1>8, <1>9, <1>10 DEF IInv, Cursor

(* The list is empty: the tail is reset, and the caller goes on. *)
LEMMA ClearDoneStep == ASSUME IInv, ClearDone PROVE IInv'
<1>1. TypeOK /\ pc = "clear" /\ head = Null /\ pc' = "idle" /\ tail' = Null
      /\ reported' = << >> /\ shown' = << >>
      /\ UNCHANGED <<heap, head, tmp, mask, freed>>
  BY DEF IInv, ClearDone, Empty
<1>2. /\ Len(freed) = Len(heap) /\ Len(heap) \in Nat
  <2>1. Len(freed) \in Nat /\ Len(heap) \in Nat
    BY <1>1, Lengths
  <2>2. head = IF Len(freed) = Len(heap) THEN Null ELSE Len(freed) + 1
    BY DEF IInv, Ends
  <2>3. head # Null \/ Len(freed) = Len(heap)
    BY <2>1, <2>2 DEF Null
  <2> QED BY <1>1, <2>1, <2>3
<1>3. /\ << >> \in Seq(Entries) /\ << >> \in Seq(Reports) /\ Len(<< >>) = 0
      /\ DOMAIN << >> = {}
  BY EmptySeq
<1>4. Base' = Len(heap)
  BY <1>1, <1>2, <1>3 DEF Base
<1>5. TypeOK'
  <2>1. Null \in Pointers
    BY <1>2 DEF Pointers, Null
  <2> QED BY <1>1, <1>3, <2>1 DEF TypeOK, Pointers, Errors, Entries
<1>6. Chained'
  <2>1. Len(reported') <= Len(heap')
    BY <1>1, <1>2, <1>3
  <2>2. \A k \in 1..Len(reported') : FALSE
    BY <1>1, <1>3
  <2>3. \A k \in (Base' + 1)..Len(heap') : FALSE
    BY <1>1, <1>2, <1>4
  <2> QED BY <2>1, <2>2, <2>3 DEF Chained
<1>7. Ends'
  BY <1>1, <1>2, <1>3, <1>4 DEF IInv, Ends
<1>8. EntriesExact' /\ Cursor'
  BY <1>1, <1>3 DEF EntriesExact, Cursor
<1> QED BY <1>5, <1>6, <1>7, <1>8 DEF IInv

(* Nothing happens. *)
LEMMA StutterStep == ASSUME IInv, UNCHANGED vars PROVE IInv'
<1>1. UNCHANGED <<heap, head, tail, pc, tmp, mask, shown, freed, reported>>
  BY DEF vars
<1>2. TypeOK'
  BY <1>1 DEF IInv, TypeOK, Pointers, Errors, Entries
<1>3. Base' = Base /\ Chained' /\ Ends'
  BY <1>1, ChainKept, EndsKept
<1>4. EntriesExact'
  BY <1>1 DEF IInv, EntriesExact, NamesExpected
<1>5. Cursor'
  BY <1>1, <1>3 DEF IInv, Cursor, NamedBelow
<1> QED BY <1>2, <1>3, <1>4, <1>5 DEF IInv

(* error_list_init makes an empty list. *)
LEMMA InitIInv == Init => IInv
<1> SUFFICES ASSUME Init PROVE IInv
  OBVIOUS
<1>1. /\ << >> \in Seq(Errors) /\ << >> \in Seq(Entries) /\ << >> \in Seq(Pointers)
      /\ << >> \in Seq(Reports) /\ Len(<< >>) = 0 /\ DOMAIN << >> = {}
  BY EmptySeq
<1>2. Base = 0
  BY <1>1 DEF Init, Base
<1>3. TypeOK
  BY <1>1, ErrorAssumption DEF Init, TypeOK, Pointers, Null
<1>4. Chained
  <2>1. \A k \in 1..Len(reported) : FALSE
    BY <1>1 DEF Init
  <2>2. \A k \in (Base + 1)..Len(heap) : FALSE
    BY <1>1, <1>2 DEF Init
  <2> QED BY <1>1, <2>1, <2>2 DEF Init, Chained
<1>5. Ends
  BY <1>1, <1>2 DEF Init, Ends
<1>6. EntriesExact /\ Cursor
  BY <1>1 DEF Init, EntriesExact, Cursor
<1> QED BY <1>3, <1>4, <1>5, <1>6 DEF IInv

(* Every step preserves the invariant. *)
LEMMA NextIInv == IInv /\ [Next]_vars => IInv'
BY AddStep, ShowStep, ShowNextStep, NameStep, NamedStep, ShowDoneStep, ReturnStep,
   ClearStep, ClearNextStep, ClearDoneStep, StutterStep DEF Next, Loop

(* The invariant holds in every reachable state. *)
LEMMA AlwaysIInv == Spec => []IInv
<1>1. Init => IInv
  BY InitIInv
<1>2. IInv /\ [Next]_vars => IInv'
  BY NextIInv
<1> QED BY <1>1, <1>2, PTL DEF Spec

(***************************************************************************)
(* Every variable of the error list keeps its type: no link and no pointer *)
(* of error.c ever leads outside the errors that were allocated.           *)
(***************************************************************************)
THEOREM TypeCorrect == Spec => []TypeOK
<1>1. IInv => TypeOK
  BY DEF IInv
<1> QED BY <1>1, AlwaysIInv, PTL

(***************************************************************************)
(* error_list_show has shown everything when it returns, however many      *)
(* errors there are and whatever they expected.                            *)
(***************************************************************************)
THEOREM AlwaysShowsAll == Spec => []ShowsAll
<1>1. IInv => ShowsAll
  BY DEF IInv, EntriesExact, Cursor, ShowsAll
<1> QED BY <1>1, AlwaysIInv, PTL

(* The errors are freed in the order in which they were allocated. *)
LEMMA FreedInOrder ==
  ASSUME IInv
  PROVE  Freed = 1..Len(freed)
<1>1. TypeOK /\ DOMAIN freed = 1..Len(freed)
  BY Lengths DEF IInv
<1>2. \A i \in DOMAIN freed : freed[i] = i
  BY DEF IInv, Ends
<1> QED BY <1>1, <1>2 DEF Freed

(* The invariant says that no error is freed twice or forgotten. *)
LEMMA InvFreedOnce == ASSUME IInv PROVE FreedOnce
<1>1. /\ Len(freed) \in Nat /\ Len(heap) \in Nat /\ Len(reported) \in Nat /\ Base \in Int
      /\ Len(shown) \in Nat /\ DOMAIN freed = 1..Len(freed)
  BY Lengths DEF IInv
<1>2. Freed = 1..Len(freed)
  BY FreedInOrder
<1>3. /\ head = (IF Len(freed) = Len(heap) THEN Null ELSE Len(freed) + 1)
      /\ \A i \in DOMAIN freed : freed[i] = i
      /\ pc # "clear" => /\ Len(freed) = Base
                         /\ tail = IF Len(reported) = 0 THEN Null ELSE Len(heap)
  BY DEF IInv, Ends
<1>4. \A i, j \in DOMAIN freed : freed[i] = freed[j] => i = j
  BY <1>3
<1>5. head \notin Freed
  <2>1. head = 0 \/ head = Len(freed) + 1
    BY <1>3 DEF Null
  <2> QED BY <1>1, <1>2, <2>1
<1>6. ASSUME pc # "clear" PROVE tail \notin Freed
  <2>1. CASE Len(reported) = 0
    BY <1>1, <1>2, <1>3, <1>6, <2>1 DEF Null
  <2>2. CASE Len(reported) # 0
    <3>1. tail = Len(heap) /\ Len(freed) = Base
      BY <1>3, <1>6, <2>2
    <3>2. Base < Len(heap)
      BY <1>1, <2>2 DEF Base
    <3> QED BY <1>1, <1>2, <3>1, <3>2
  <2> QED BY <2>1, <2>2
<1>7. ASSUME pc \in {"show", "name"} PROVE tmp \notin Freed
  <2>1. Len(freed) = Base
    BY <1>3, <1>7
  <2>2. tmp = Null \/ tmp > Base
    <3>1. CASE pc = "show"
      BY <1>1, <3>1 DEF IInv, Cursor
    <3>2. CASE pc = "name"
      BY <1>1, <3>2 DEF IInv, Cursor
    <3> QED BY <1>7, <3>1, <3>2
  <2> QED BY <1>1, <1>2, <2>1, <2>2 DEF Null
<1>8. ASSUME pc = "idle", Empty PROVE Freed = 1..Len(heap)
  <2>1. Len(freed) = Len(heap)
    BY <1>1, <1>3, <1>8 DEF Empty, Null
  <2> QED BY <1>2, <2>1
<1> QED BY <1>4, <1>5, <1>6, <1>7, <1>8 DEF FreedOnce

(***************************************************************************)
(* error_list_clear frees every error once, and neither the ends of the    *)
(* list nor the pointer of error_list_show dangle.                         *)
(***************************************************************************)
THEOREM AlwaysFreedOnce == Spec => []FreedOnce
<1>1. IInv => FreedOnce
  BY InvFreedOnce
<1> QED BY <1>1, AlwaysIInv, PTL

-----------------------------------------------------------------------------
(* The log: what every step of the list is to it. *)

(* What changes no error and shows none does not change the log. *)
LEMMA LogUnchanged ==
  ASSUME UNCHANGED <<heap, reported, freed, Printed>>
  PROVE  UNCHANGED Log!vars
BY DEF Log!vars, Base

(* What is printed are the errors shown, in their order. *)
LEMMA PrintedProps ==
  ASSUME IInv
  PROVE  /\ Printed \in Seq(Reports) /\ Len(Printed) = Len(shown)
         /\ \A n \in 1..Len(shown) : Printed[n] = shown[n].err
<1>1. /\ Len(shown) \in Nat /\ DOMAIN shown = 1..Len(shown)
      /\ \A n \in 1..Len(shown) : shown[n] \in Entries
  BY Lengths DEF IInv
<1>2. \A n \in 1..Len(shown) : shown[n].err \in Reports
  BY <1>1 DEF Entries
<1> QED BY <1>1, <1>2, IsASeq DEF Printed

(* Adding an error reports it to the log. *)
LEMMA LogAdd == ASSUME IInv, NEW e \in Reports, Add(e) PROVE Log!Report(e)
<1>1. TypeOK /\ pc = "idle" /\ reported' = Append(reported, e) /\ UNCHANGED <<shown, freed>>
  BY DEF IInv, Add
<1>2. Len(freed) = Base /\ Len(freed) \in Nat /\ Len(reported) \in Nat /\ Len(heap) \in Nat
  BY <1>1, Lengths DEF IInv, Ends
<1>3. IInv'
  BY AddStep
<1>4. pc' = "idle"
  BY <1>1 DEF Add
<1>5. Len(freed)' = Base' /\ Base' \in Int
  <2>1. Len(freed)' = Base'
    BY <1>3, <1>4 DEF IInv, Ends
  <2>2. Len(freed') = Len(freed)
    BY <1>1
  <2> QED BY <1>2, <2>1, <2>2
<1>6. Printed' = Printed
  BY <1>1 DEF Printed
<1> QED BY <1>1, <1>2, <1>5, <1>6 DEF Log!Report

(* The log is printed from its beginning. *)
LEMMA LogShow == ASSUME IInv, Show PROVE Log!Begin
<1>1. Printed' = << >>
  <2>1. shown' = << >>
    BY DEF Show
  <2> QED BY <2>1, EmptySeq, IsASeq DEF Printed
<1> QED BY <1>1 DEF Show, Log!Begin, Base

(* The error at the cursor is the next one of the log. *)
LEMMA LogShowNext == ASSUME IInv, ShowNext PROVE Log!Disclose
<1> DEFINE n == Len(shown) + 1
<1>1. TypeOK /\ pc = "show" /\ tmp # Null /\ UNCHANGED <<heap, freed, reported>>
  BY DEF IInv, ShowNext
<1>2. n \in 1..Len(reported) /\ heap[tmp].err = reported[n] /\ reported[n] \in Reports
      /\ Len(freed) = Base /\ Len(shown) \in Nat /\ Len(reported) \in Nat
      /\ Len(freed) \in Nat
  BY <1>1, NextShown, Lengths DEF IInv, Ends
<1>3. /\ Printed \in Seq(Reports) /\ Len(Printed) = Len(shown)
      /\ \A k \in 1..Len(shown) : Printed[k] = shown[k].err
  BY PrintedProps
<1>4. PICK x : x = [index |-> n, err |-> heap[tmp].err, named |-> << >>]
  OBVIOUS
<1>5. /\ Len(shown') = n /\ shown'[n] = x /\ DOMAIN shown' = 1..n
      /\ \A k \in 1..Len(shown) : shown'[k] = shown[k]
  <2>1. x \in Entries
    <3>1. << >> \in Seq(0..TypeMax)
      BY EmptySeq
    <3> QED BY <1>2, <1>4, <3>1 DEF Entries
  <2>2. shown \in Seq(Entries) /\ shown' = Append(shown, x)
    BY <1>1, <1>4 DEF TypeOK, ShowNext
  <2>3. shown' \in Seq(Entries) /\ Len(shown') = n
    BY <2>1, <2>2, AppendProperties
  <2> QED BY <1>2, <2>1, <2>2, <2>3, AppendProperties, LenProperties
<1>7. /\ Printed' \in Seq(Reports) /\ Len(Printed') = n
      /\ \A k \in 1..n : Printed'[k] = shown'[k].err
  <2>1. Printed' = [k \in 1..n |-> shown'[k].err]
    BY <1>5 DEF Printed
  <2>2. ASSUME NEW k \in 1..n PROVE shown'[k].err \in Reports
    <3>1. CASE k = n
      BY <1>2, <1>4, <1>5, <3>1
    <3>2. CASE k \in 1..Len(shown)
      <4>1. shown[k] \in Entries
        BY <1>1, <3>2, Lengths
      <4> QED BY <1>5, <3>2, <4>1 DEF Entries
    <3> QED BY <1>2, <3>1, <3>2
  <2> QED BY <1>2, <2>1, <2>2, IsASeq
<1>8. Printed' = Append(Printed, reported[n])
  <2>1. PICK r : r = reported[n]
    OBVIOUS
  <2>2. /\ Append(Printed, r) \in Seq(Reports) /\ Len(Append(Printed, r)) = n
        /\ \A k \in 1..Len(shown) : Append(Printed, r)[k] = Printed[k]
        /\ Append(Printed, r)[n] = r
    BY <1>2, <1>3, <2>1, AppendProperties
  <2>3. ASSUME NEW k \in 1..n PROVE Printed'[k] = Append(Printed, r)[k]
    <3>1. CASE k = n
      <4>1. shown'[n].err = r
        BY <1>2, <1>4, <1>5, <2>1
      <4> QED BY <1>7, <2>2, <3>1, <4>1
    <3>2. CASE k \in 1..Len(shown)
      BY <1>3, <1>5, <1>7, <2>2, <3>2
    <3>3. k = n \/ k \in 1..Len(shown)
      BY <1>2
    <3> QED BY <3>1, <3>2, <3>3
  <2> QED BY <1>7, <2>1, <2>2, <2>3, SeqEqual
<1> QED BY <1>1, <1>2, <1>3, <1>8 DEF Log!Disclose, Base

(* A step that names an expected token prints no error. *)
LEMMA LogName == ASSUME IInv, Name PROVE UNCHANGED Log!vars
<1> DEFINE n == Len(shown)
<1>1. TypeOK /\ UNCHANGED <<heap, freed, reported>>
      /\ \/ shown' = shown
         \/ shown' = [shown EXCEPT ![n].named = Append(@, mask)]
  BY DEF IInv, Name
<1>2. Printed' = Printed
  <2>1. CASE shown' = shown
    BY <2>1 DEF Printed
  <2>2. CASE shown' = [shown EXCEPT ![n].named = Append(@, mask)]
    <3>1. shown \in Seq(Entries)
      BY <1>1 DEF TypeOK
    <3>2. DOMAIN shown' = DOMAIN shown
      BY <2>2
    <3>3. ASSUME NEW k \in DOMAIN shown PROVE shown'[k].err = shown[k].err
      <4>1. shown[k] \in Entries
        BY <1>1, <3>3, Lengths
      <4>2. CASE k = n
        BY <2>2, <4>1, <4>2 DEF Entries
      <4>3. CASE k # n
        BY <2>2, <4>3
      <4> QED BY <4>2, <4>3
    <3> QED BY <3>2, <3>3 DEF Printed
  <2> QED BY <1>1, <2>1, <2>2
<1> QED BY <1>1, <1>2, LogUnchanged

(* The error that is freed is the oldest of the log. *)
LEMMA LogClearNext == ASSUME IInv, ClearNext PROVE Log!Release
<1>1. TypeOK /\ pc = "clear" /\ head # Null /\ freed' = Append(freed, head)
      /\ UNCHANGED <<heap, shown, reported>>
  BY DEF IInv, ClearNext, Empty
<1>2. /\ Len(freed) \in Nat /\ Len(heap) \in Nat /\ Len(reported) \in Nat /\ Base \in Int
      /\ freed \in Seq(Pointers) /\ head \in Pointers
  BY <1>1, Lengths DEF TypeOK
<1>3. Len(freed') = Len(freed) + 1
  BY <1>1, <1>2, AppendProperties
<1>4. Len(freed) < Len(heap)
  <2>1. /\ Len(freed) \in Base..Len(heap)
        /\ head = IF Len(freed) = Len(heap) THEN Null ELSE Len(freed) + 1
    BY DEF IInv, Ends
  <2>2. Len(freed) # Len(heap)
    BY <1>1, <2>1
  <2> QED BY <1>2, <2>1, <2>2
<1>5. Len(freed) - Base < Len(reported)
  BY <1>2, <1>4 DEF Base
<1>6. Printed' = Printed /\ Base' = Base
  BY <1>1 DEF Printed, Base
<1>7. Len(freed') - Base' = Len(freed) - Base + 1
  BY <1>2, <1>3, <1>6
<1> QED BY <1>1, <1>5, <1>6, <1>7 DEF Log!Release

(* An empty list is an empty log. *)
LEMMA LogClearDone == ASSUME IInv, ClearDone PROVE Log!Renew
<1>1. TypeOK /\ head = Null /\ reported' = << >> /\ shown' = << >>
      /\ UNCHANGED <<heap, freed>>
  BY DEF IInv, ClearDone, Empty
<1>2. Len(freed) \in Nat /\ Len(heap) \in Nat /\ Len(reported) \in Nat
  BY <1>1, Lengths
<1>3. Len(freed) = Len(heap)
  <2>1. head = IF Len(freed) = Len(heap) THEN Null ELSE Len(freed) + 1
    BY DEF IInv, Ends
  <2> QED BY <1>1, <1>2, <2>1 DEF Null
<1>4. Len(freed) - Base = Len(reported)
  BY <1>2, <1>3 DEF Base
<1>5. Len(freed') - Base' = 0
  <2>1. Len(<< >>) = 0
    BY EmptySeq
  <2>2. Len(reported') = 0 /\ Len(heap') = Len(heap) /\ Len(freed') = Len(freed)
    BY <1>1, <2>1
  <2> QED BY <1>2, <1>3, <2>2 DEF Base
<1>6. Printed' = << >>
  BY <1>1, EmptySeq, IsASeq DEF Printed
<1> QED BY <1>1, <1>4, <1>5, <1>6 DEF Log!Renew

(* The log is empty in the beginning. *)
LEMMA LogInit == Init => Log!Init
<1> SUFFICES ASSUME Init PROVE Log!Init
  OBVIOUS
<1>1. Printed = << >>
  BY EmptySeq, IsASeq DEF Init, Printed
<1>2. Len(freed) - Base = 0
  BY EmptySeq DEF Init, Base
<1> QED BY <1>1, <1>2 DEF Init, Log!Init

(* Each step of the list is one of the log, or changes nothing there. *)
LEMMA LogStep == ASSUME IInv, [Next]_vars PROVE [Log!Next]_(Log!vars)
<1>1. CASE \E e \in Reports : Add(e)
  BY <1>1, LogAdd DEF Log!Next
<1>2. CASE Show
  BY <1>2, LogShow DEF Log!Next
<1>3. CASE ShowNext
  BY <1>3, LogShowNext DEF Log!Next
<1>4. CASE Name
  BY <1>4, LogName
<1>5. CASE Named \/ ShowDone \/ Return \/ Clear \/ UNCHANGED vars
  <2>1. UNCHANGED <<heap, reported, freed, shown>>
    BY <1>5 DEF Named, ShowDone, Return, Clear, vars
  <2>2. Printed' = Printed
    BY <2>1 DEF Printed
  <2> QED BY <2>1, <2>2, LogUnchanged
<1>6. CASE ClearNext
  BY <1>6, LogClearNext DEF Log!Next
<1>7. CASE ClearDone
  BY <1>7, LogClearDone DEF Log!Next
<1> QED BY <1>1, <1>2, <1>3, <1>4, <1>5, <1>6, <1>7 DEF Next, Loop

(***************************************************************************)
(* The error list implements the log: the links are a queue, in the order  *)
(* of the reports, that is shown and freed from its beginning.             *)
(***************************************************************************)
THEOREM Implements == Spec => ImplementsLog
<1>1. Init => Log!Init
  BY LogInit
<1>2. IInv /\ [Next]_vars => [Log!Next]_(Log!vars)
  BY LogStep
<1> QED BY <1>1, <1>2, AlwaysIInv, PTL DEF Spec, ImplementsLog, Log!Spec
=============================================================================
