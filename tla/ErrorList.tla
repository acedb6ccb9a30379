----------------------------- MODULE ErrorList -----------------------------
(***************************************************************************)
(* The error list of src/error.c: errors on the heap, linked in the order  *)
(* of the reports, with a pointer to the last one.  The scanner, the       *)
(* parser and the analyser add to it; main shows it and clears it.         *)
(*                                                                         *)
(* An error is its index in heap, the order of the mallocs; 0 is the null  *)
(* pointer.  The loops make one step per error, and the loop that names    *)
(* the expected tokens one step per bit of the set.                        *)
(***************************************************************************)
EXTENDS Integers, Sequences

CONSTANTS Types,      (* what the union of an error holds: enum error_type *)
          Infos,      (* locations, texts, symbols: what is only printed   *)
          TypeMax,    (* TOKEN_TYPE_MAX, as the number of its bit          *)
          MaxErrors   (* bound: errors that are made                       *)

(* The bit sets that expect_token and its kin pass, by their bits. *)
Reports == [type : Types, info : Infos, expected : SUBSET (0..TypeMax)]

ASSUME ErrorAssumption == TypeMax \in Nat /\ MaxErrors \in Nat

VARIABLES heap,      (* the errors that have been allocated                *)
          head, tail,  (* errs->head, errs->tail                           *)
          pc,        (* which loop runs                                    *)
          tmp,       (* the error that the loop has reached                *)
          mask,      (* the bit that print_expected_tokens has reached     *)
          shown,     (* what error_list_show has printed                   *)
          freed,     (* the errors passed to yfree, in order               *)
          reported   (* the errors added to the list as it is now          *)

vars == <<heap, head, tail, pc, tmp, mask, shown, freed, reported>>

Null == 0

(* error_list_empty *)
Empty == head = Null

-----------------------------------------------------------------------------
\* Mutant of Made: the link is left as malloc found it.
MadeUnlinked(e) == [err |-> e, next |-> Len(heap) + 2]

(* error_make_invalid_token and the three others *)
Made(e) == [err |-> e, next |-> Null]

\* Mutant of Linked: the tail stays behind.
LinkedForgotten(list, new) ==
  /\ heap' = [list EXCEPT ![tail].next = new]
  /\ UNCHANGED <<head, tail>>

(* The new error behind the last one, *)
Linked(list, new) ==
  /\ heap' = [list EXCEPT ![tail].next = new]
  /\ tail' = new
  /\ UNCHANGED head

(* error_list_add, of an error that has just been made *)
Add(e) ==
  /\ pc = "idle" /\ Len(heap) < MaxErrors
  /\ LET list == Append(heap, Made(e))
         new  == Len(heap) + 1
     IN \/ /\ Empty
           /\ heap' = list
           /\ head' = new /\ tail' = new
        \/ ~Empty /\ Linked(list, new)
  /\ reported' = Append(reported, e)
  /\ UNCHANGED <<pc, tmp, mask, shown, freed>>

-----------------------------------------------------------------------------
(* error_list_show *)
Show ==
  /\ pc = "idle"
  /\ pc' = "show"
  /\ tmp' = head
  /\ shown' = << >>
  /\ UNCHANGED <<heap, head, tail, mask, freed, reported>>

(* The next error; the expected tokens are named one by one. *)
ShowNext ==
  /\ pc = "show" /\ tmp # Null
  /\ shown' = Append(shown, [index |-> Len(shown) + 1, err |-> heap[tmp].err,
                             named |-> << >>])
  /\ \/ /\ heap[tmp].err.type = "UNEXPECTED_TOKEN"
        /\ pc' = "name" /\ mask' = 0
        /\ UNCHANGED tmp
     \/ /\ heap[tmp].err.type # "UNEXPECTED_TOKEN"
        /\ tmp' = heap[tmp].next
        /\ UNCHANGED <<pc, mask>>
  /\ UNCHANGED <<heap, head, tail, freed, reported>>

\* Mutant of InMask: the greatest token type is left out.
InMaskBelow(b) == b < TypeMax

(* mask <= TOKEN_TYPE_MAX *)
InMask(b) == b <= TypeMax

\* Mutant of Name: the mask is shifted for the expected tokens only.
NameOnlyExpected ==
  /\ pc = "name" /\ InMask(mask) /\ mask \in heap[tmp].err.expected
  /\ mask' = mask + 1
  /\ shown' = [shown EXCEPT ![Len(shown)].named = Append(@, mask)]
  /\ UNCHANGED <<heap, head, tail, pc, tmp, freed, reported>>

(* print_expected_tokens.  The mask stands for the number of its bit. *)
Name ==
  /\ pc = "name" /\ InMask(mask)
  /\ mask' = mask + 1
  /\ shown' = IF mask \in heap[tmp].err.expected
              THEN [shown EXCEPT ![Len(shown)].named = Append(@, mask)]
              ELSE shown
  /\ UNCHANGED <<heap, head, tail, pc, tmp, freed, reported>>

Named ==
  /\ pc = "name" /\ ~InMask(mask)
  /\ pc' = "show"
  /\ tmp' = heap[tmp].next
  /\ UNCHANGED <<heap, head, tail, mask, shown, freed, reported>>

ShowDone ==
  /\ pc = "show" /\ tmp = Null
  /\ pc' = "shown"
  /\ UNCHANGED <<heap, head, tail, tmp, mask, shown, freed, reported>>

(* The caller goes on. *)
Return ==
  /\ pc = "shown"
  /\ pc' = "idle"
  /\ UNCHANGED <<heap, head, tail, tmp, mask, shown, freed, reported>>

-----------------------------------------------------------------------------
(* error_list_clear *)
Clear ==
  /\ pc = "idle"
  /\ pc' = "clear"
  /\ UNCHANGED <<heap, head, tail, tmp, mask, shown, freed, reported>>

\* Mutant of ClearNext: the head is freed and stays.
ClearNextStuck ==
  /\ pc = "clear" /\ ~Empty
  /\ tmp' = head
  /\ freed' = IF Len(freed) < MaxErrors THEN Append(freed, tmp') ELSE freed
  /\ UNCHANGED <<heap, head, tail, pc, mask, shown, reported>>

ClearNext ==
  /\ pc = "clear" /\ ~Empty
  /\ tmp' = head
  /\ head' = heap[head].next
  /\ freed' = Append(freed, tmp')
  /\ UNCHANGED <<heap, tail, pc, mask, shown, reported>>

ClearDone ==
  /\ pc = "clear" /\ Empty
  /\ tail' = Null
  /\ pc' = "idle"
  /\ reported' = << >> /\ shown' = << >>
  /\ UNCHANGED <<heap, head, tmp, mask, freed>>

-----------------------------------------------------------------------------
(* error_list_init *)
Init ==
  /\ heap = << >>
  /\ head = Null /\ tail = Null
  /\ pc = "idle" /\ tmp = Null /\ mask = 0
  /\ shown = << >> /\ freed = << >> /\ reported = << >>

Loop == ShowNext \/ Name \/ Named \/ ShowDone \/ Return \/ ClearNext \/ ClearDone

Next == (\E e \in Reports : Add(e)) \/ Show \/ Clear \/ Loop

Spec == Init /\ [][Next]_vars

(* A function that is called goes on until it returns. *)
FairSpec == Spec /\ WF_vars(Loop)
=============================================================================
