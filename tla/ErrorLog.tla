------------------------------ MODULE ErrorLog ------------------------------
(***************************************************************************)
(* What the error list promises to the phases that report to it, and to    *)
(* the user: a log that is shown from its beginning, in the order of the   *)
(* reports, and released as a whole before it is used again.               *)
(***************************************************************************)
EXTENDS Naturals, Sequences

CONSTANT Reports  (* the errors there are *)

VARIABLES reported,  (* the errors in the log                              *)
          printed,   (* those of them that have been shown                 *)
          released   (* how many of them have been released                *)

vars == <<reported, printed, released>>

Init == reported = << >> /\ printed = << >> /\ released = 0

Report(e) ==
  /\ released = 0
  /\ reported' = Append(reported, e)
  /\ UNCHANGED <<printed, released>>

(* To show the log again is to begin at its first error. *)
Begin ==
  /\ printed' = << >>
  /\ UNCHANGED <<reported, released>>

Disclose ==
  /\ released = 0
  /\ Len(printed) < Len(reported)
  /\ printed' = Append(printed, reported[Len(printed) + 1])
  /\ UNCHANGED <<reported, released>>

Release ==
  /\ released < Len(reported)
  /\ released' = released + 1
  /\ UNCHANGED <<reported, printed>>

Renew ==
  /\ released = Len(reported)
  /\ reported' = << >> /\ printed' = << >> /\ released' = 0

Next == (\E e \in Reports : Report(e)) \/ Begin \/ Disclose \/ Release \/ Renew

Spec == Init /\ [][Next]_vars
=============================================================================
