-------------------------- MODULE SymbolTableProps --------------------------
(***************************************************************************)
(* What the symbol table promises to the scanner, to the semantic          *)
(* analyser, which compares and types symbols by their address, and to     *)
(* the program that frees it.                                              *)
(***************************************************************************)
EXTENDS SymbolTable

(* Every variable has its type (struct symbol_table and struct symbol).     *)
TypeOK ==
  /\ hash \in [Names -> HashValues]
  /\ heap \in Seq([id : Names, next : Nat])
  /\ \A s \in DOMAIN heap : heap[s].next \in Pointers
  /\ \A bs \in {buckets, fresh} : \A b \in DOMAIN bs : bs[b] \in Pointers
  /\ symbols_cnt \in Nat
  /\ pc \in {"idle", "find", "rehash", "clear", "cleared"}
  /\ id \in Names \cup {Null}
  /\ {sym, tmp} \subseteq Pointers
  /\ i \in Nat
  /\ held \subseteq [id : Names, sym : DOMAIN heap]
  /\ freed \in Seq(DOMAIN heap)
  /\ arrays \in Nat

(***************************************************************************)
(* The chain heads that count.  While rehash runs, the buckets up to i of  *)
(* the old array are stale, and tmp holds what is left of chain i.         *)
(***************************************************************************)
Heads ==
  CASE pc = "rehash" ->
         {[at |-> tmp, of |-> "old", bucket |-> i]}
         \cup {[at |-> buckets[b], of |-> "old", bucket |-> b] :
                 b \in {b \in DOMAIN buckets : b > i}}
         \cup {[at |-> fresh[b], of |-> "new", bucket |-> b] :
                 b \in DOMAIN fresh}
    [] OTHER ->
         {[at |-> buckets[b], of |-> "old", bucket |-> b] :
            b \in DOMAIN buckets}

ArrayOf(h) == IF h.of = "old" THEN buckets ELSE fresh

(* A set of symbols of heap hp that holds p and all that is linked from it. *)
Closed(hp, p, S) ==
  /\ p # Null => p \in S
  /\ \A s \in S : hp[s].next # Null => hp[s].next \in S

(* The symbols on the chain that begins at p: the least such set. *)
Chain(hp, p) ==
  {s \in DOMAIN hp : \A S \in SUBSET DOMAIN hp : Closed(hp, p, S) => s \in S}

ChainFrom(p) == Chain(heap, p)

Live == DOMAIN heap \ {freed[k] : k \in DOMAIN freed}

(***************************************************************************)
(* No symbol is lost or found twice, in the middle of a rehash or of a     *)
(* clear either: a symbol that is not freed is on one chain, the one of    *)
(* its hash value, with one link to it, and the chains hold no others.     *)
(***************************************************************************)
EachSymbolInItsChain ==
  /\ \A s \in Live :
       \E h \in Heads :
         /\ s \in ChainFrom(h.at)
         /\ h.bucket = Index(heap[s].id, ArrayOf(h))
         /\ \A g \in Heads : s \in ChainFrom(g.at) => g = h
  /\ \A h \in Heads : ChainFrom(h.at) \subseteq Live
  /\ \A s \in Live :
       Cardinality({h \in Heads : h.at = s})
         + Cardinality({t \in Live : heap[t].next = s}) = 1

(***************************************************************************)
(* Between two calls the chains are short on average, until the array can  *)
(* grow no more: doubling it once is enough to bring the load below 3/4,   *)
(* and the count that the load is computed from is right.                  *)
(***************************************************************************)
LoadBounded ==
  pc \in {"idle", "find"} =>
    /\ symbols_cnt = Len(heap)
    /\ CountOf(buckets) < BucketsMax =>
         4 * symbols_cnt <= 3 * CountOf(buckets)

(***************************************************************************)
(* symbol_table_clear frees every symbol, and none twice (it reads the     *)
(* link of a symbol and frees it after).                                   *)
(***************************************************************************)
FreedOnce ==
  /\ \A j, k \in DOMAIN freed : freed[j] = freed[k] => j = k
  /\ pc = "cleared" => Live = {}

(***************************************************************************)
(* "Clear the resources holded by a symbol table" (include/symtable.h:57): *)
(* after symbol_table_clear no bucket array is left.                       *)
(***************************************************************************)
ArraysReleased == pc = "cleared" => arrays = 0

(***************************************************************************)
(* Every call returns: the loops of find, rehash and clear end, no chain   *)
(* has become a cycle.                                                     *)
(***************************************************************************)
CallsReturn ==
  /\ pc \in {"find", "rehash"} ~> pc = "idle"
  /\ pc = "clear" ~> pc = "cleared"

-----------------------------------------------------------------------------
(***************************************************************************)
(* The table implements the interner: whatever has been added, moved or    *)
(* found in between, an identifier is always given the symbol it was given *)
(* first, and two identifiers never share one.                             *)
(***************************************************************************)
SymbolOf(x) ==
  IF \E h \in held : h.id = x THEN (CHOOSE h \in held : h.id = x).sym ELSE Null

I == INSTANCE Interner WITH Symbols  <- 1..Cardinality(Names),
                            None     <- Null,
                            symbolOf <- [x \in Names |-> SymbolOf(x)]

ImplementsInterner == I!Spec
=============================================================================
