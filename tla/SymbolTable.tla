---------------------------- MODULE SymbolTable ----------------------------
(***************************************************************************)
(* The symbol table of src/symtable.c, as the scanner uses it: for every   *)
(* identifier, make_token_word looks the symbol up and adds it when it is  *)
(* not there.  The table is an array of chains linked by pointers; adding  *)
(* a symbol may double the array and move every symbol to a new chain.     *)
(*                                                                         *)
(* A symbol is its index in heap, the order of the mallocs; 0 is the null  *)
(* pointer.  The loops over a chain run one symbol per step.  The table    *)
(* abstracts declarations away: a symbol is its identifier and its link.   *)
(***************************************************************************)
EXTENDS Integers, Sequences, FiniteSets

CONSTANTS Names,       (* the identifiers                                  *)
          HashValues,  (* the values of hash_str                           *)
          BucketsMin,  (* ST_BUCKETS_MIN                                   *)
          BucketsMax   (* ST_BUCKETS_MAX                                   *)

ASSUME TableAssumption ==
  /\ IsFiniteSet(Names)
  /\ HashValues \subseteq 0..255
  /\ BucketsMin \in Nat \ {0}
  /\ BucketsMax \in Nat /\ BucketsMin <= BucketsMax

VARIABLES hash,     (* hash_str: some function of the identifier           *)
          heap,     (* the symbols that have been allocated                *)
          buckets,  (* st->buckets, a function from the indices            *)
          symbols_cnt, (* st->symbols_cnt                                  *)
          pc,       (* which loop runs, or who may call next               *)
          id,       (* the identifier being looked up, or Null             *)
          sym,      (* the symbol that symbol_table_add is to return       *)
          tmp,      (* the symbol that a loop has reached                  *)
          i,        (* the bucket that a loop has reached                  *)
          fresh,    (* new_st.buckets while rehash runs                    *)
          held,     (* the symbols in the tokens returned so far           *)
          freed,    (* the symbols that symbol_table_clear has freed       *)
          arrays    (* how many bucket arrays are allocated                *)

table == <<heap, buckets, symbols_cnt>>
vars == <<hash, heap, buckets, symbols_cnt, pc, id, sym, tmp, i, fresh, held,
          freed, arrays>>

Null == 0

Pointers == 0..Len(heap)

(* st->buckets_cnt, a power of two. *)
CountOf(bs) == Cardinality(DOMAIN bs)

(***************************************************************************)
(* hash_str(x) & (buckets_cnt - 1): the mask is a remainder, for a power   *)
(* of two.                                                                 *)
(***************************************************************************)
Index(x, bs) == hash[x] % CountOf(bs)

\* Mutant of EmptyBuckets: the array is not zeroed (malloc for calloc).
EmptyBucketsGarbage(n) == [b \in 0..(n - 1) |-> 1]

(* ycalloc *)
EmptyBuckets(n) == [b \in 0..(n - 1) |-> Null]

\* Mutant of Overloaded: the table has to be full.
OverloadedFull(cnt, n) == cnt > n

(* weight > 0.75, while the array may still grow *)
Overloaded(cnt, n) == 4 * cnt > 3 * n /\ n < BucketsMax

-----------------------------------------------------------------------------
(* make_token_word: symbol_table_find is called. *)
Find(x) ==
  /\ pc = "idle"
  /\ pc' = "find"
  /\ id' = x
  /\ tmp' = buckets[Index(x, buckets)]
  /\ UNCHANGED <<hash, table, sym, i, fresh, held, freed, arrays>>

(* while(tmp != NULL): another identifier *)
FindNext ==
  /\ pc = "find" /\ tmp # Null /\ heap[tmp].id # id
  /\ tmp' = heap[tmp].next
  /\ UNCHANGED <<hash, table, pc, id, sym, i, fresh, held, freed, arrays>>

(* Symbol s is returned, in a token for the parser; the locals are gone. *)
Return(s) ==
  /\ pc' = "idle"
  /\ held' = held \cup {[id |-> id, sym |-> s]}
  /\ id' = Null /\ sym' = Null /\ tmp' = Null /\ i' = 0

Found ==
  /\ pc = "find" /\ tmp # Null /\ heap[tmp].id = id
  /\ Return(tmp)
  /\ UNCHANGED <<hash, table, fresh, freed, arrays>>

(***************************************************************************)
(* symbol_table_add: the symbol is put in front of its chain; when the     *)
(* load is too high rehash begins, at the first bucket.                    *)
(***************************************************************************)
Add ==
  /\ pc = "find" /\ tmp = Null
  /\ LET new == Len(heap) + 1
         b   == Index(id, buckets)
         n   == CountOf(buckets)
     IN /\ heap' = Append(heap, [id |-> id, next |-> buckets[b]])
        /\ buckets' = [buckets EXCEPT ![b] = new]
        /\ symbols_cnt' = symbols_cnt + 1
        /\ \/ /\ Overloaded(symbols_cnt', n)
              /\ pc' = "rehash"
              /\ sym' = new
              /\ fresh' = EmptyBuckets(2 * n)
              /\ i' = 0
              /\ tmp' = buckets'[0]
              /\ arrays' = arrays + 1
              /\ UNCHANGED <<id, held>>
           \/ /\ ~Overloaded(symbols_cnt', n)
              /\ Return(new)
              /\ UNCHANGED <<fresh, arrays>>
  /\ UNCHANGED <<hash, freed>>

\* Mutant of RehashMove: the next symbol is read after the link has changed.
RehashMoveLate ==
  /\ pc = "rehash" /\ tmp # Null
  /\ LET b == Index(heap[tmp].id, fresh)
     IN /\ heap' = [heap EXCEPT ![tmp].next = fresh[b]]
        /\ fresh' = [fresh EXCEPT ![b] = tmp]
  /\ tmp' = heap'[tmp].next
  /\ UNCHANGED <<hash, buckets, symbols_cnt, pc, id, sym, i, held, freed,
                 arrays>>

\* Mutant of RehashMove: the bucket is that of the old array.
RehashMoveOldIndex ==
  /\ pc = "rehash" /\ tmp # Null
  /\ LET b == Index(heap[tmp].id, buckets)
     IN /\ heap' = [heap EXCEPT ![tmp].next = fresh[b]]
        /\ fresh' = [fresh EXCEPT ![b] = tmp]
  /\ tmp' = heap[tmp].next
  /\ UNCHANGED <<hash, buckets, symbols_cnt, pc, id, sym, i, held, freed,
                 arrays>>

\* Mutant of RehashMove: the symbol is linked after it became the head.
RehashMoveSwapped ==
  /\ pc = "rehash" /\ tmp # Null
  /\ LET b == Index(heap[tmp].id, fresh)
     IN /\ fresh' = [fresh EXCEPT ![b] = tmp]
        /\ heap' = [heap EXCEPT ![tmp].next = tmp]
  /\ tmp' = heap[tmp].next
  /\ UNCHANGED <<hash, buckets, symbols_cnt, pc, id, sym, i, held, freed,
                 arrays>>

(* rehash: the symbol goes to the front of its chain in the new array. *)
RehashMove ==
  /\ pc = "rehash" /\ tmp # Null
  /\ LET b == Index(heap[tmp].id, fresh)
     IN /\ heap' = [heap EXCEPT ![tmp].next = fresh[b]]
        /\ fresh' = [fresh EXCEPT ![b] = tmp]
  /\ tmp' = heap[tmp].next
  /\ UNCHANGED <<hash, buckets, symbols_cnt, pc, id, sym, i, held, freed,
                 arrays>>

RehashNext ==
  /\ pc = "rehash" /\ tmp = Null /\ i + 1 \in DOMAIN buckets
  /\ i' = i + 1
  /\ tmp' = buckets[i + 1]
  /\ UNCHANGED <<hash, table, pc, id, sym, fresh, held, freed, arrays>>

(* *st = new_st, and symbol_table_add returns; the old array is not freed *)
RehashDone ==
  /\ pc = "rehash" /\ tmp = Null /\ i + 1 \notin DOMAIN buckets
  /\ buckets' = fresh
  /\ fresh' = << >>
  /\ Return(sym)
  /\ UNCHANGED <<hash, heap, symbols_cnt, freed, arrays>>

(* symbol_table_clear, at the end of the program *)
Clear ==
  /\ pc = "idle"
  /\ pc' = "clear"
  /\ i' = 0
  /\ UNCHANGED <<hash, table, id, sym, tmp, fresh, held, freed, arrays>>

\* Mutant of ClearPop: the symbol is freed but stays in its bucket.
ClearNoPop ==
  /\ pc = "clear" /\ i \in DOMAIN buckets /\ buckets[i] # Null
  /\ tmp' = buckets[i]
  /\ freed' = Append(freed, tmp')
  /\ i' = i + 1
  /\ UNCHANGED <<hash, table, pc, id, sym, fresh, held, arrays>>

ClearPop ==
  /\ pc = "clear" /\ i \in DOMAIN buckets /\ buckets[i] # Null
  /\ tmp' = buckets[i]
  /\ buckets' = [buckets EXCEPT ![i] = heap[tmp'].next]
  /\ freed' = Append(freed, tmp')
  /\ UNCHANGED <<hash, heap, symbols_cnt, pc, id, sym, i, fresh, held, arrays>>

ClearNext ==
  /\ pc = "clear" /\ i \in DOMAIN buckets /\ buckets[i] = Null
  /\ i' = i + 1
  /\ UNCHANGED <<hash, table, pc, id, sym, tmp, fresh, held, freed, arrays>>

ClearDone ==
  /\ pc = "clear" /\ i \notin DOMAIN buckets
  /\ pc' = "cleared"
  /\ buckets' = << >>
  /\ symbols_cnt' = 0
  /\ arrays' = arrays - 1
  /\ UNCHANGED <<hash, heap, id, sym, tmp, i, fresh, held, freed>>

(* The program ends. *)
Done == pc = "cleared" /\ UNCHANGED vars

-----------------------------------------------------------------------------
(* symbol_table_init *)
Init ==
  /\ hash \in [Names -> HashValues]
  /\ heap = << >>
  /\ buckets = EmptyBuckets(BucketsMin)
  /\ symbols_cnt = 0
  /\ pc = "idle"
  /\ id = Null
  /\ sym = Null /\ tmp = Null /\ i = 0
  /\ fresh = << >>
  /\ held = {}
  /\ freed = << >>
  /\ arrays = 1

(* The steps of an operation that has begun. *)
Step == \/ FindNext \/ Found \/ Add
        \/ RehashMove \/ RehashNext \/ RehashDone
        \/ ClearPop \/ ClearNext \/ ClearDone

Next == (\E x \in Names : Find(x)) \/ Clear \/ Step \/ Done

Spec == Init /\ [][Next]_vars

(* An operation that has begun runs on; nothing has to be called. *)
FairSpec == Spec /\ WF_vars(Step)
=============================================================================
