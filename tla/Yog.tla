-------------------------------- MODULE Yog --------------------------------
(***************************************************************************)
(* main of src/yog.c, which drives the analyser and the interpreter: they  *)
(* share the instruction list, the number of temporaries and the symbols,  *)
(* where the analyser finds the declarations and the interpreter the       *)
(* values.  The tree is what the parser has returned (module Parser).      *)
(***************************************************************************)
EXTENDS Code

CONSTANTS Trees, Growth, Moves,                  (* of the analyser        *)
          MaxInt, DivTraps, Garbage, Inputs      (* of the interpreter     *)

VARIABLES nodes, stack, declared, errs, instrs, capacity, block, tmp_cnt,
          pc, temporary, value, input, output, status,
          phase,   (* where main is                                        *)
          parsed,  (* the errors that scanner and parser have reported     *)
          exit,    (* what main has returned, -1 until it has              *)
          freed,   (* the nodes of the tree passed to yfree, in order      *)
          todo,    (* history: the statements to be executed               *)
          turn     (* history: flips with every condition that is decided  *)

Analyser == INSTANCE Semanter
VM == INSTANCE Interpreter WITH Programs <- {}

ASSUME YogAssumption ==
  Analyser!SemanterAssumption /\ VM!InterpreterAssumption

(* For module Meaning: main as one sees it. *)
MeaningStatus ==
  CASE phase \in {"open", "analyse"}  -> "ready"
    [] phase = "show"                 -> "refused"
    [] phase = "execute"              -> status
    [] phase = "cleanup"              -> IF status = "none" THEN "refused" ELSE status
    [] phase = "returned" /\ exit # 0 -> "abandoned"
    [] phase = "returned" /\ exit = 0 -> IF status = "none" THEN "refused" ELSE status

Source == INSTANCE Meaning WITH status <- MeaningStatus

analysis == <<nodes, stack, declared, errs, capacity, block>>
execution == <<pc, temporary, value, input, output, status>>
history == <<todo, turn>>
vars == <<analysis, instrs, tmp_cnt, execution, phase, parsed, exit, freed,
          history>>

-----------------------------------------------------------------------------
Main(p, q) == phase = p /\ phase' = q

(* No argument, or no such file; else the parser returns its tree. *)
Open ==
  /\ \/ Main("open", "returned") /\ exit' \in {1, 2}
     \/ Main("open", "analyse") /\ UNCHANGED exit
  /\ UNCHANGED <<analysis, instrs, tmp_cnt, execution, parsed, freed, history>>

Analyse ==
  /\ Main("analyse", "analyse")
  /\ Analyser!Next /\ ~Analyser!Analysed
  /\ UNCHANGED <<execution, parsed, exit, freed, history>>

\* Mutant of NoErrors: the errors of the parser do not count.
NoErrorsFound == errs = << >>

(* error_list_empty: one list for all the phases *)
NoErrors == parsed = 0 /\ errs = << >>

(* interpreter_init *)
Start ==
  /\ Analyser!Analysed /\ NoErrors
  /\ Main("analyse", "execute")
  /\ pc' = 0 /\ temporary' = VM!Fresh(tmp_cnt) /\ status' = "running"
  /\ todo' = Source!Unrolled(nodes[1].children[4].at)
  /\ UNCHANGED <<analysis, instrs, tmp_cnt, value, input, output, parsed, exit,
                 freed, turn>>

(* The statement that an instruction completes, or decides. *)
Followed ==
  CASE VM!Executing({"ASSIGN", "READ", "WRITE"}) -> Tail(todo)
    [] VM!Executing({"BRANCH"}) -> Source!Chosen(temporary[VM!Current.src1.val] # 0)
    [] OTHER -> todo

Execute ==
  /\ phase = "execute" /\ VM!Next
  /\ Main("execute", IF status' = "finished" THEN "cleanup" ELSE "execute")
  /\ todo' = Followed
  /\ turn' = IF VM!Executing({"BRANCH"}) THEN ~turn ELSE turn
  /\ UNCHANGED <<analysis, parsed, exit, freed>>

(* error_list_show *)
Refuse ==
  /\ Analyser!Analysed /\ ~NoErrors
  /\ Main("analyse", "show")
  /\ UNCHANGED <<analysis, instrs, tmp_cnt, execution, parsed, exit, freed,
                 history>>

Shown ==
  /\ Main("show", "cleanup")
  /\ UNCHANGED <<analysis, instrs, tmp_cnt, execution, parsed, exit, freed,
                 history>>

(* The calls of the _clear functions, fclose, and return 0. *)
Cleanup ==
  /\ Main("cleanup", "returned")
  /\ exit' = 0
  /\ instrs' = << >> /\ capacity' = 0
  /\ freed' = Cleared(nodes, 1)
  /\ UNCHANGED <<nodes, stack, declared, errs, block, tmp_cnt, execution,
                 parsed, history>>

-----------------------------------------------------------------------------
(* A tree that the parser had to repair comes with an error. *)
Repaired(tree) ==
  \E n \in DOMAIN tree : \E i \in DOMAIN tree[n].children :
    LET c == tree[n].children[i]
    IN c.type \in {"IDENTIFIER", "LITERAL"} /\ c.attr = NULL

Init ==
  /\ Analyser!Init
  /\ parsed \in IF Repaired(nodes) THEN {1} ELSE {0, 1}
  /\ pc = 0 /\ temporary = << >> /\ status = "none"
  /\ value \in [Names -> Garbage]
  /\ input = "open" /\ output = [val |-> 0, odd |-> FALSE]
  /\ phase = "open" /\ exit = -1 /\ freed = << >>
  /\ todo = << >> /\ turn = FALSE

Next == Open \/ Analyse \/ Start \/ Execute \/ Refuse \/ Shown \/ Cleanup

(* The process runs, and the user answers or ends the input. *)
Spec == Init /\ [][Next]_vars /\ WF_vars(Next)
=============================================================================
