--------------------------- MODULE ErrorListProps ---------------------------
(***************************************************************************)
(* What the error list promises.                                           *)
(***************************************************************************)
EXTENDS ErrorList

Pointers == 0..Len(heap)
Errors == [err : Reports, next : Pointers]
Entries == [index : Nat, err : Reports, named : Seq(0..TypeMax)]

(* Every variable has its type, and a link leads to an error or nowhere.    *)
TypeOK ==
  /\ heap \in Seq(Errors)
  /\ {head, tail, tmp} \subseteq Pointers
  /\ pc \in {"idle", "show", "name", "shown", "clear"}
  /\ mask \in 0..(TypeMax + 1)
  /\ shown \in Seq(Entries)
  /\ freed \in Seq(Pointers)
  /\ reported \in Seq(Reports)

(* An entry names the expected tokens, each of them once, in order.         *)
NamesExpected(entry) ==
  entry.err.type = "UNEXPECTED_TOKEN" =>
    /\ {entry.named[i] : i \in DOMAIN entry.named} = entry.err.expected
    /\ \A i, j \in DOMAIN entry.named : i < j => entry.named[i] < entry.named[j]

(***************************************************************************)
(* When error_list_show returns every error has been shown, whichever of   *)
(* the three phases reported it, in the order of the reports and with its  *)
(* number, and it names what was expected.                                 *)
(***************************************************************************)
ShowsAll ==
  pc = "shown" =>
    /\ Len(shown) = Len(reported)
    /\ \A n \in DOMAIN shown :
         /\ shown[n].index = n /\ shown[n].err = reported[n]
         /\ NamesExpected(shown[n])

Freed == {freed[i] : i \in DOMAIN freed}

(***************************************************************************)
(* No error is freed twice or used after it was freed, and when the list   *)
(* is empty all have been freed.  (While error_list_clear runs the tail    *)
(* may point at a freed error.)                                            *)
(***************************************************************************)
FreedOnce ==
  /\ \A i, j \in DOMAIN freed : freed[i] = freed[j] => i = j
  /\ head \notin Freed
  /\ pc # "clear" => tail \notin Freed
  /\ pc \in {"show", "name"} => tmp \notin Freed
  /\ pc = "idle" /\ Empty => Freed = 1..Len(heap)

(* error_list_show and error_list_clear return: there is no cycle.          *)
CallsReturn == (pc # "idle") ~> (pc = "idle")

(***************************************************************************)
(* The list implements the log: the entries begun are the errors printed.  *)
(***************************************************************************)
Printed == [n \in DOMAIN shown |-> shown[n].err]

(* The errors of earlier uses of the list. *)
Base == Len(heap) - Len(reported)

Log == INSTANCE ErrorLog WITH printed <- Printed, released <- Len(freed) - Base

ImplementsLog == Log!Spec
=============================================================================
