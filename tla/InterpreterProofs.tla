------------------------- MODULE InterpreterProofs -------------------------
(***************************************************************************)
(* Proofs about the interpreter: for every executable code, every width of *)
(* the numbers, every input and whatever memory holds at the start.        *)
(***************************************************************************)
EXTENDS InterpreterProps, SequenceTheorems, TLAPS

(* Behind the place where it is computed, in the stretch of straight-line   *)
(* code where it is used, a temporary has been computed.                    *)
Ready ==
  \A j, k \in DOMAIN instrs :
    (/\ Computes(instrs[j])
     /\ StraightFrom(instrs, j, k)
     /\ pc \in j..(k - 1))
       => temporary[instrs[j].dest.val] # Uninit

IInv == /\ TypeOK
        /\ Executable(instrs, tmp_cnt)
        /\ status = "running" => Ready

-----------------------------------------------------------------------------
(* Numbers. *)
LEMMA WrappedInt64 == ASSUME NEW n \in Int PROVE Wrapped(n) \in Int64
<1>1. MaxInt \in Nat /\ 2 * MaxInt + 2 \in Nat /\ 2 * MaxInt + 2 > 0
  BY InterpreterAssumption
<1>2. (n + MaxInt + 1) % (2 * MaxInt + 2) \in 0..(2 * MaxInt + 1)
  <2> DEFINE m == 2 * MaxInt + 2
  <2>1. m \in Nat /\ m > 0 /\ m - 1 = 2 * MaxInt + 1
    BY <1>1
  <2> HIDE DEF m
  <2>2. \A i \in Int : i % m \in 0..(m - 1)
    BY <2>1
  <2>3. n + MaxInt + 1 \in Int
    BY <1>1
  <2>4. (n + MaxInt + 1) % m \in 0..(m - 1)
    BY <2>2, <2>3
  <2> QED BY <2>1, <2>4 DEF m
<1> QED BY <1>1, <1>2 DEF Wrapped, Int64

(* The quotient that C truncates is an integer. *)
LEMMA QuotientInt ==
  ASSUME NEW l \in Int, NEW r \in Int, r # 0
  PROVE  Quotient(l, r) \in Int
<1>1. Magnitude(l) \in Nat /\ Magnitude(r) \in Nat /\ Magnitude(r) > 0
  BY DEF Magnitude
<1>2. \A a \in Nat, b \in Nat : b > 0 => a \div b \in Int
  OBVIOUS
<1>3. Magnitude(l) \div Magnitude(r) \in Int
  BY <1>1, <1>2
<1> QED BY <1>3 DEF Quotient

(* So is every result before it is cut to 64 bits. *)
LEMMA ResultInt ==
  ASSUME NEW op \in Arithmetic, NEW l \in Int, NEW r \in Int, op = "DIV" => r # 0
  PROVE  Result(op, l, r) \in Int
<1>1. CASE op = "ADD"
  BY <1>1 DEF Result
<1>2. CASE op = "SUB"
  BY <1>2 DEF Result
<1>3. CASE op = "MUL"
  BY <1>3 DEF Result
<1>4. CASE op = "DIV"
  BY <1>4, QuotientInt DEF Result
<1> QED BY <1>1, <1>2, <1>3, <1>4 DEF Arithmetic

-----------------------------------------------------------------------------
(* The instruction that is executed. *)
LEMMA CurrentProps ==
  ASSUME IInv, NEW ops, Executing(ops)
  PROVE  /\ status = "running" /\ pc \in Nat /\ pc + 1 \in DOMAIN instrs
         /\ pc + 1 \in 0..Len(instrs)
         /\ Current = instrs[pc + 1] /\ Current \in Instruction /\ Current.op \in ops
         /\ temporary \in [0..(tmp_cnt - 1) -> Int64 \cup {Uninit}]
         /\ tmp_cnt \in Nat
<1>1. /\ status = "running" /\ pc < Len(instrs) /\ Current.op \in ops
      /\ pc \in 0..Len(instrs) /\ instrs \in Seq(Instruction) /\ tmp_cnt \in Nat
      /\ temporary \in [0..(tmp_cnt - 1) -> Int64 \cup {Uninit}]
  BY DEF Executing, IInv, TypeOK
<1>2. Len(instrs) \in Nat /\ DOMAIN instrs = 1..Len(instrs)
  BY <1>1, LenProperties
<1>3. pc + 1 \in 1..Len(instrs)
  BY <1>1, <1>2
<1>4. instrs[pc + 1] \in Instruction
  BY <1>1, <1>3, ElementOfSeq
<1> QED BY <1>1, <1>2, <1>3, <1>4 DEF Current

(* The type of an operand tells what its value is. *)
LEMMA OperandTypes ==
  ASSUME NEW o \in Operand
  PROVE  /\ o.type \in {"TEMPORARY", "LABEL"} => o.val \in Nat \/ o = Label(NULL)
         /\ o.type = "TEMPORARY" => o.val \in Nat /\ o = Temporary(o.val)
         /\ o.type = "LITERAL" => o.val \in Literals \cup {0}
         /\ o.type = "SYMBOL" => o.val \in Names
BY CodeAssumption DEF Operand, Unset, Label, Temporary

(* What operand_get_value returns is a number of 64 bits. *)
LEMMA FetchedInt64 ==
  ASSUME IInv, NEW ops, Executing(ops), NEW o \in Sources(Current),
         NEW v \in Fetched(o)
  PROVE  v \in Int64
<1>1. /\ Current \in Instruction /\ pc + 1 \in DOMAIN instrs /\ Current = instrs[pc + 1]
      /\ temporary \in [0..(tmp_cnt - 1) -> Int64 \cup {Uninit}] /\ tmp_cnt \in Nat
  BY CurrentProps
<1>2. /\ o.type \in {"TEMPORARY", "LITERAL", "SYMBOL"}
      /\ o.type = "TEMPORARY" => o.val < tmp_cnt
  BY <1>1 DEF IInv, Executable, Addressed
<1>3. o \in Operand
  BY <1>1 DEF Instruction, Sources
<1>4. CASE o.type = "TEMPORARY"
  <2>1. o.val \in 0..(tmp_cnt - 1)
    BY <1>1, <1>2, <1>3, <1>4, OperandTypes
  <2>2. temporary[o.val] \in Int64 \cup {Uninit}
    BY <1>1, <2>1
  <2> QED BY <1>4, <2>2, InterpreterAssumption DEF Fetched
<1>5. CASE o.type = "LITERAL"
  <2>1. o.val \in Literals \cup {0}
    BY <1>3, <1>5, OperandTypes
  <2>2. 0 \in Int64
    BY InterpreterAssumption DEF Int64
  <2>3. v = o.val
    BY <1>5 DEF Fetched
  <2> QED BY <2>1, <2>2, <2>3, InterpreterAssumption
<1>6. CASE o.type = "SYMBOL"
  <2>1. o.val \in Names
    BY <1>3, <1>6, OperandTypes
  <2>2. value[o.val] \in Int64
    BY <2>1 DEF IInv, TypeOK
  <2> QED BY <1>6, <2>2 DEF Fetched
<1> QED BY <1>2, <1>4, <1>5, <1>6

(* The numbers of 64 bits are integers, 0 and 1 among them. *)
LEMMA SomeInt == Int64 \subseteq Int /\ NULL \notin Int64 /\ 0 \in Int64 /\ 1 \in Int64
BY InterpreterAssumption DEF Int64

-----------------------------------------------------------------------------
(* How an instruction leaves the temporaries: all but its result. *)
Kept == /\ temporary' \in [0..(tmp_cnt - 1) -> Int64 \cup {Uninit}]
        /\ \A i \in 0..(tmp_cnt - 1) : temporary[i] # Uninit => temporary'[i] # Uninit

(* A result that is stored is there, and what was computed stays. *)
LEMMA StoreKeeps ==
  ASSUME IInv, NEW ops, Executing(ops), Computes(Current), NEW v \in Int64, Store(v)
  PROVE  Kept /\ temporary'[Current.dest.val] # Uninit
<1>1. /\ Current \in Instruction /\ pc + 1 \in DOMAIN instrs /\ Current = instrs[pc + 1]
      /\ temporary \in [0..(tmp_cnt - 1) -> Int64 \cup {Uninit}] /\ tmp_cnt \in Nat
  BY CurrentProps
<1>2. Current.dest.type = "TEMPORARY" /\ Current.dest.val < tmp_cnt
  BY <1>1 DEF IInv, Executable, Addressed
<1>3. Current.dest.val \in Nat
  BY <1>1, <1>2, OperandTypes DEF Instruction
<1>4. Current.dest.val \in 0..(tmp_cnt - 1)
  BY <1>1, <1>2, <1>3
<1> QED BY <1>1, <1>4, SomeInt DEF Store, Kept, Uninit

(* What was computed stays when no temporary is written. *)
LEMMA UnchangedKeeps ==
  ASSUME IInv, NEW ops, Executing(ops), UNCHANGED temporary
  PROVE  Kept
BY CurrentProps DEF Kept

(***************************************************************************)
(* To the next instruction: what that one needs of the temporaries, the    *)
(* one before had, or has computed.                                        *)
(***************************************************************************)
LEMMA OnwardReady ==
  ASSUME IInv, NEW ops, Executing(ops), Onward, UNCHANGED program, Kept,
         Computes(Current) => temporary'[Current.dest.val] # Uninit
  PROVE  Ready' /\ pc' \in 0..Len(instrs)'
<1>1. /\ status = "running" /\ pc \in Nat /\ pc + 1 \in 0..Len(instrs)
      /\ Current = instrs[pc + 1] /\ pc' = pc + 1 /\ tmp_cnt \in Nat
      /\ instrs' = instrs /\ instrs \in Seq(Instruction)
  BY CurrentProps DEF Onward, program, IInv, TypeOK
<1>2. SUFFICES ASSUME NEW j \in DOMAIN instrs, NEW k \in DOMAIN instrs,
                      Computes(instrs[j]), StraightFrom(instrs, j, k), pc' \in j..(k - 1)
               PROVE  temporary'[instrs[j].dest.val] # Uninit
  BY <1>1 DEF Ready
<1>3. j \in Nat /\ k \in Nat
  BY <1>1, LenProperties
<1>4. CASE pc + 1 = j
  BY <1>1, <1>2, <1>4
<1>5. CASE pc + 1 # j
  <2>1. pc \in j..(k - 1)
    BY <1>1, <1>2, <1>3, <1>5
  <2>2. temporary[instrs[j].dest.val] # Uninit
    BY <1>1, <1>2, <2>1 DEF IInv, Ready
  <2>3. instrs[j].dest.val \in 0..(tmp_cnt - 1)
    <3>1. instrs[j].dest.type = "TEMPORARY" /\ instrs[j].dest.val < tmp_cnt
      BY <1>2 DEF IInv, Executable, Addressed
    <3>2. instrs[j] \in Instruction
      BY <1>1, LenProperties, ElementOfSeq
    <3>3. instrs[j].dest.val \in Nat
      BY <3>1, <3>2, OperandTypes DEF Instruction
    <3> QED BY <1>1, <3>1, <3>3
  <2> QED BY <2>2, <2>3 DEF Kept
<1> QED BY <1>4, <1>5

(* A jump lands in no stretch behind its beginning. *)
LEMMA JumpReady ==
  ASSUME IInv, Executing(Jumps), pc' = Current.dest.val, UNCHANGED program
  PROVE  Ready' /\ pc' \in 0..Len(instrs)'
<1>1. /\ pc + 1 \in DOMAIN instrs /\ Current = instrs[pc + 1] /\ Current.op \in Jumps
      /\ instrs' = instrs
  BY CurrentProps DEF program
<1>2. Current.dest.val \in 0..Len(instrs)
  BY <1>1 DEF IInv, Executable, Resolved
<1>3. \A j, k \in DOMAIN instrs :
        StraightFrom(instrs, j, k) => Current.dest.val \notin j..(k - 1)
  BY <1>1 DEF StraightFrom
<1> QED BY <1>1, <1>2, <1>3 DEF Ready

(* The rest of a step that leaves the variables and the output alone. *)
LEMMA QuietStep ==
  ASSUME IInv, status = "running", UNCHANGED <<program, value, io>>, Kept,
         pc' \in 0..Len(instrs)',
         status' \in {"running", "failed", "trapped"},
         status' = "running" => Ready'
  PROVE  IInv'
<1>1. TypeOK'
  BY DEF IInv, TypeOK, Kept, program, io
<1> QED BY <1>1 DEF IInv, program

-----------------------------------------------------------------------------
(* ASSIGN writes a variable. *)
LEMMA AssignStep == ASSUME IInv, ExecuteAssign PROVE IInv'
<1>1. /\ Executing({"ASSIGN"}) /\ Onward /\ UNCHANGED <<program, temporary, io, status>>
  BY DEF ExecuteAssign
<1>2. PICK v \in Fetched(Current.src1) : value' = [value EXCEPT ![Current.dest.val] = v]
  BY DEF ExecuteAssign
<1>3. /\ Current \in Instruction /\ Current.op = "ASSIGN" /\ status = "running"
      /\ pc + 1 \in DOMAIN instrs /\ Current = instrs[pc + 1]
  BY <1>1, CurrentProps
<1>4. Current.src1 \in Sources(Current) /\ ~Computes(Current)
  BY <1>3 DEF Sources, Computes, Arithmetic, RelOps, Unary
<1>5. v \in Int64
  BY <1>1, <1>2, <1>4, FetchedInt64
<1>6. value' \in [Names -> Int64]
  BY <1>2, <1>5 DEF IInv, TypeOK
<1>7. Kept
  BY <1>1, UnchangedKeeps
<1>8. Ready' /\ pc' \in 0..Len(instrs)'
  BY <1>1, <1>4, <1>7, OnwardReady
<1>9. TypeOK'
  BY <1>1, <1>3, <1>6, <1>7, <1>8 DEF IInv, TypeOK, Kept, program, io
<1> QED BY <1>1, <1>8, <1>9 DEF IInv, program

(* READ writes a variable, or leaves it when there is no number. *)
LEMMA ReadStep == ASSUME IInv, ExecuteRead PROVE IInv'
<1>1. /\ Executing({"READ"}) /\ Onward /\ UNCHANGED <<program, temporary, output, status>>
  BY DEF ExecuteRead
<1>2. /\ Current.op = "READ" /\ status = "running"
  BY <1>1, CurrentProps
<1>3. ~Computes(Current)
  BY <1>2 DEF Computes, Arithmetic, RelOps, Unary
<1>4. \A n \in Inputs : Saturated(n) \in Int64
  BY InterpreterAssumption DEF Saturated, Int64
<1>5. value' \in [Names -> Int64] /\ input' \in {"open", "stuck"}
  BY <1>4 DEF ExecuteRead, IInv, TypeOK
<1>6. Kept
  BY <1>1, UnchangedKeeps
<1>7. Ready' /\ pc' \in 0..Len(instrs)'
  BY <1>1, <1>3, <1>6, OnwardReady
<1>8. TypeOK'
  BY <1>1, <1>2, <1>5, <1>6, <1>7 DEF IInv, TypeOK, Kept, program
<1> QED BY <1>1, <1>7, <1>8 DEF IInv, program

(* WRITE prints, and writes nothing. *)
LEMMA WriteStep == ASSUME IInv, ExecuteWrite PROVE IInv'
<1>1. /\ Executing({"WRITE"}) /\ Onward
      /\ UNCHANGED <<program, temporary, value, input, status>>
  BY DEF ExecuteWrite
<1>2. PICK v \in Fetched(Current.src1) : output' = [val |-> v, odd |-> ~output.odd]
  BY DEF ExecuteWrite
<1>3. Current \in Instruction /\ Current.op = "WRITE" /\ status = "running"
  BY <1>1, CurrentProps
<1>4. Current.src1 \in Sources(Current) /\ ~Computes(Current)
  BY <1>3 DEF Sources, Computes, Arithmetic, RelOps, Unary
<1>5. v \in Int64
  BY <1>1, <1>2, <1>4, FetchedInt64
<1>6. output' \in [val : Int64, odd : BOOLEAN]
  BY <1>2, <1>5
<1>7. Kept
  BY <1>1, UnchangedKeeps
<1>8. Ready' /\ pc' \in 0..Len(instrs)'
  BY <1>1, <1>4, <1>7, OnwardReady
<1>9. TypeOK'
  BY <1>1, <1>3, <1>6, <1>7, <1>8 DEF IInv, TypeOK, Kept, program
<1> QED BY <1>1, <1>8, <1>9 DEF IInv, program

(* The instructions that compute a temporary and go on. *)
LEMMA ComputeStep ==
  ASSUME IInv, NEW ops, Executing(ops), Computes(Current), NEW v \in Int64, Store(v),
         Onward, UNCHANGED <<program, value, io, status>>
  PROVE  IInv'
<1>1. Kept /\ temporary'[Current.dest.val] # Uninit
  BY StoreKeeps
<1>2. Ready' /\ pc' \in 0..Len(instrs)'
  BY <1>1, OnwardReady
<1>3. status = "running"
  BY CurrentProps
<1> QED BY <1>1, <1>2, <1>3, QuietStep

(* A division that cannot be done ends the run. *)
LEMMA AbortStep ==
  ASSUME IInv, NEW ops, Executing(ops), NEW s \in {"failed", "trapped"}, Abort(s),
         UNCHANGED <<program, value, io>>
  PROVE  IInv'
<1>1. Kept /\ status = "running" /\ status' = s /\ pc' = pc
  BY UnchangedKeeps, CurrentProps DEF Abort
<1>2. pc' \in 0..Len(instrs)'
  BY <1>1 DEF IInv, TypeOK, program
<1> QED BY <1>1, <1>2, QuietStep

(* ADD, SUB, MUL and DIV write their temporary, or end the run. *)
LEMMA ArithmeticStep == ASSUME IInv, ExecuteArithmetic PROVE IInv'
<1>1. Executing(Arithmetic) /\ UNCHANGED <<program, value, io>>
  BY DEF ExecuteArithmetic
<1>2. Current.op \in Arithmetic
  BY <1>1, CurrentProps
<1>3. Current.src1 \in Sources(Current) /\ Current.src2 \in Sources(Current)
      /\ Computes(Current)
  BY <1>2 DEF Sources, Computes, Arithmetic, RelOps, Unary
<1>4. PICK l \in Fetched(Current.src1), r \in Fetched(Current.src2) :
        IF Current.op = "DIV" THEN Divide(l, r) ELSE Compute(l, r)
  BY DEF ExecuteArithmetic
<1>5. l \in Int64 /\ r \in Int64
  BY <1>1, <1>3, <1>4, FetchedInt64
<1>6. CASE Compute(l, r) /\ (Current.op = "DIV" => r # 0)
  <2>1. Wrapped(Result(Current.op, l, r)) \in Int64
    BY <1>2, <1>5, <1>6, SomeInt, ResultInt, WrappedInt64
  <2> QED BY <1>1, <1>3, <1>6, <2>1, ComputeStep DEF Compute
<1>7. CASE Abort("failed") \/ Abort("trapped")
  BY <1>1, <1>7, AbortStep
<1> QED BY <1>4, <1>6, <1>7 DEF Divide

(* PLUS and MINUS write their temporary. *)
LEMMA SignStep == ASSUME IInv, ExecuteSign PROVE IInv'
<1>1. Executing(Unary) /\ Onward /\ UNCHANGED <<program, value, io, status>>
  BY DEF ExecuteSign
<1>2. Current.op \in Unary
  BY <1>1, CurrentProps
<1>3. Current.src1 \in Sources(Current) /\ Computes(Current)
  BY <1>2 DEF Sources, Computes, Unary, Arithmetic, RelOps
<1>4. PICK v \in Fetched(Current.src1) :
        Store(IF Current.op = "NEG" THEN Wrapped(-v) ELSE v)
  BY DEF ExecuteSign
<1>5. v \in Int64
  BY <1>1, <1>3, <1>4, FetchedInt64
<1>6. v \in Int /\ -v \in Int
  BY <1>5, SomeInt
<1>7. (IF Current.op = "NEG" THEN Wrapped(-v) ELSE v) \in Int64
  BY <1>5, <1>6, WrappedInt64
<1> QED BY <1>1, <1>3, <1>4, <1>7, ComputeStep

(* A comparison writes 0 or 1 to its temporary. *)
LEMMA CompareStep == ASSUME IInv, ExecuteCompare PROVE IInv'
<1>1. Executing(RelOps) /\ Onward /\ UNCHANGED <<program, value, io, status>>
  BY DEF ExecuteCompare
<1>2. Current.op \in RelOps
  BY <1>1, CurrentProps
<1>3. Computes(Current)
  BY <1>2 DEF Computes
<1>4. PICK l \in Fetched(Current.src1), r \in Fetched(Current.src2) :
        Store(IF Compared(Current.op, l, r) THEN 1 ELSE 0)
  BY DEF ExecuteCompare
<1>5. (IF Compared(Current.op, l, r) THEN 1 ELSE 0) \in Int64
  BY SomeInt
<1> QED BY <1>1, <1>3, <1>4, <1>5, ComputeStep

(* GOTO goes to its label, where no temporary is awaited. *)
LEMMA GotoStep == ASSUME IInv, ExecuteGoto PROVE IInv'
<1>1. /\ Executing({"GOTO"}) /\ pc' = Current.dest.val
      /\ UNCHANGED <<program, temporary, value, io, status>>
  BY DEF ExecuteGoto
<1>2. Executing(Jumps)
  BY <1>1 DEF Executing, Jumps
<1>3. Ready' /\ pc' \in 0..Len(instrs)'
  BY <1>1, <1>2, JumpReady
<1>4. Kept /\ status = "running"
  BY <1>1, UnchangedKeeps, CurrentProps
<1> QED BY <1>1, <1>3, <1>4, QuietStep

(* BRANCH goes to its label or on. *)
LEMMA BranchStep == ASSUME IInv, ExecuteBranch PROVE IInv'
<1>1. /\ Executing({"BRANCH"}) /\ UNCHANGED <<program, temporary, value, io, status>>
      /\ pc' = Current.dest.val \/ Onward
  BY DEF ExecuteBranch, Onward
<1>2. Kept /\ status = "running" /\ Current.op = "BRANCH"
  BY <1>1, UnchangedKeeps, CurrentProps
<1>3. ~Computes(Current)
  BY <1>2 DEF Computes, Unary, Arithmetic, RelOps
<1>4. Ready' /\ pc' \in 0..Len(instrs)'
  <2>1. CASE pc' = Current.dest.val
    <3>1. Executing(Jumps)
      BY <1>1 DEF Executing, Jumps
    <3> QED BY <1>1, <2>1, <3>1, JumpReady
  <2>2. CASE Onward
    BY <1>1, <1>2, <1>3, <2>2, OnwardReady
  <2> QED BY <1>1, <2>1, <2>2
<1> QED BY <1>1, <1>2, <1>4, QuietStep

(* interpreter_clear frees the memory at the end. *)
LEMMA ClearStep == ASSUME IInv, Clear PROVE IInv'
<1>1. /\ status' = "finished" /\ pc' = 0 /\ UNCHANGED <<program, value, io>>
  BY DEF Clear
<1>2. Len(instrs) \in Nat
  BY LenProperties DEF IInv, TypeOK
<1>3. TypeOK'
  BY <1>1, <1>2 DEF IInv, TypeOK, program, io
<1> QED BY <1>1, <1>3 DEF IInv, program

(* Nothing happens. *)
LEMMA StutterStep == ASSUME IInv, UNCHANGED vars PROVE IInv'
<1>1. UNCHANGED <<instrs, tmp_cnt, pc, temporary, value, input, output, status>>
  BY DEF vars
<1>2. TypeOK'
  BY <1>1 DEF IInv, TypeOK
<1>3. Ready' = Ready
  BY <1>1 DEF Ready
<1> QED BY <1>1, <1>2, <1>3 DEF IInv

(* At the start nothing is computed and nothing is awaited. *)
LEMMA InitIInv == Init => IInv
<1> SUFFICES ASSUME Init PROVE IInv
  OBVIOUS
<1>1. /\ instrs \in Seq(Instruction) /\ tmp_cnt \in Nat /\ Executable(instrs, tmp_cnt)
  BY InterpreterAssumption DEF Init
<1>2. Len(instrs) \in Nat /\ DOMAIN instrs = 1..Len(instrs)
  BY <1>1, LenProperties
<1>3. value \in [Names -> Int64]
  BY InterpreterAssumption DEF Init
<1>4. TypeOK
  BY <1>1, <1>2, <1>3, SomeInt DEF Init, TypeOK, Fresh
<1>5. Ready
  BY <1>2 DEF Init, Ready
<1> QED BY <1>1, <1>4, <1>5 DEF IInv

(* Every step keeps the invariant, *)
LEMMA NextIInv == ASSUME IInv, [Next]_vars PROVE IInv'
BY AssignStep, ReadStep, WriteStep, ArithmeticStep, SignStep, CompareStep,
   GotoStep, BranchStep, ClearStep, StutterStep DEF Next

(* which therefore holds of every execution. *)
LEMMA AlwaysIInv == Spec => []IInv
BY InitIInv, NextIInv, PTL DEF Spec

(***************************************************************************)
(* The interpreter needs no checks: however an executable code jumps and   *)
(* whatever it computes, the program counter stays inside the code, the    *)
(* temporaries inside their array, and the numbers in 64 bits.             *)
(***************************************************************************)
THEOREM TypeCorrect == Spec => []TypeOK
<1>1. IInv => TypeOK
  BY DEF IInv
<1> QED BY <1>1, AlwaysIInv, PTL

(* The invariant says that what is read has been computed. *)
LEMMA ReadyComputed == ASSUME IInv PROVE TemporariesComputed
<1> SUFFICES ASSUME status = "running", pc < Len(instrs), NEW o \in Sources(Current),
                    o.type = "TEMPORARY"
             PROVE  temporary[o.val] # Uninit
  BY DEF TemporariesComputed
<1>1. /\ instrs \in Seq(Instruction) /\ pc \in 0..Len(instrs) /\ Straight(instrs) /\ Ready
  BY DEF IInv, TypeOK, Executable
<1>2. Len(instrs) \in Nat /\ DOMAIN instrs = 1..Len(instrs)
  BY <1>1, LenProperties
<1>3. pc + 1 \in DOMAIN instrs /\ pc \in Nat
  BY <1>1, <1>2
<1>4. PICK j \in 1..((pc + 1) - 1) : /\ Computes(instrs[j]) /\ instrs[j].dest = o
                                     /\ StraightFrom(instrs, j, pc + 1)
  BY <1>1, <1>3 DEF Straight, Current
<1>5. j \in DOMAIN instrs /\ pc \in j..((pc + 1) - 1)
  BY <1>2, <1>3, <1>4
<1> QED BY <1>1, <1>3, <1>4, <1>5 DEF Ready

(***************************************************************************)
(* No instruction reads a temporary that has not been computed, although   *)
(* interpreter_init leaves them as malloc does.                            *)
(***************************************************************************)
THEOREM AlwaysComputed == Spec => []TemporariesComputed
<1>1. IInv => TemporariesComputed
  BY ReadyComputed
<1> QED BY <1>1, AlwaysIInv, PTL
=============================================================================
