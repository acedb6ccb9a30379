------------------------------ MODULE Interner ------------------------------
(***************************************************************************)
(* What the symbol table promises to the scanner and the analyser          *)
(* (include/symtable.h): an identifier is given a symbol once, the first   *)
(* time it is met, and has it for ever.                                    *)
(***************************************************************************)
EXTENDS Naturals

CONSTANTS Names, Symbols, None

VARIABLES symbolOf,  (* the symbol of each identifier, or None             *)
          held       (* the identifiers and symbols given out              *)

vars == <<symbolOf, held>>

TypeOK ==
  /\ symbolOf \in [Names -> Symbols \cup {None}]
  /\ held \subseteq [id : Names, sym : Symbols]

Init ==
  /\ symbolOf = [x \in Names |-> None]
  /\ held = {}

(* A symbol for x: its own, or one that nobody has. *)
Intern(x) ==
  \E s \in Symbols :
    /\ \/ symbolOf[x] = s
       \/ symbolOf[x] = None /\ \A y \in Names : symbolOf[y] # s
    /\ symbolOf' = [symbolOf EXCEPT ![x] = s]
    /\ held' = held \cup {[id |-> x, sym |-> s]}

Next == \E x \in Names : Intern(x)

Spec == Init /\ [][Next]_vars
=============================================================================
