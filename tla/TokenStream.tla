---------------------------- MODULE TokenStream ----------------------------
(***************************************************************************)
(* What the parser takes the scanner for (module Parser, NextToken): a     *)
(* stream of errors and tokens at ascending places, which ends in an EOF   *)
(* token that lex() returns again and again, without another error.        *)
(***************************************************************************)
EXTENDS Integers

VARIABLES token,   (* the token delivered last: its type and its place     *)
          errors   (* the places of the errors reported                    *)

Beyond(p) == p > token.at /\ \A e \in errors : p > e

Init ==
  /\ token = [type |-> "NONE", at |-> 0]
  /\ errors = {}

Report ==
  /\ token.type # "EOF"
  /\ \E p \in errors' : Beyond(p) /\ errors' = errors \cup {p}
  /\ UNCHANGED token

Deliver ==
  /\ token.type # "EOF"
  /\ DOMAIN token' = {"type", "at"} /\ Beyond(token'.at)
  /\ UNCHANGED errors

Next == Report \/ Deliver

Spec == Init /\ [][Next]_<<token, errors>>
=============================================================================
