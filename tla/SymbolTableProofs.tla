------------------------- MODULE SymbolTableProofs -------------------------
(***************************************************************************)
(* Proofs about the symbol table, for any finite set of identifiers, any   *)
(* hash function and any sizes of the array: no symbol is ever lost from   *)
(* its chain, and an identifier keeps the symbol it was given.             *)
(***************************************************************************)
EXTENDS SymbolTableProps, FiniteSetTheorems, SequenceTheorems, TLAPS

-----------------------------------------------------------------------------
(* Chains, on any heap. *)

(* A heap whose links stay within it. *)
Linked(hp) ==
  /\ Null \notin DOMAIN hp
  /\ \A s \in DOMAIN hp : hp[s].next \in DOMAIN hp \cup {Null}

(* Nothing is on the chain of the null pointer: a loop ends there. *)
LEMMA ChainNull == ASSUME NEW hp PROVE Chain(hp, Null) = {}
<1>1. {} \in SUBSET DOMAIN hp /\ Closed(hp, Null, {})
  BY DEF Closed
<1> QED
  BY <1>1 DEF Chain

(* The chain is within every set that is closed under the links. *)
LEMMA ChainLeast ==
  ASSUME NEW hp, NEW p, NEW S \in SUBSET DOMAIN hp, Closed(hp, p, S)
  PROVE  Chain(hp, p) \subseteq S
BY DEF Chain

(* The chain is closed under the links itself, and has its first symbol. *)
LEMMA ChainClosed ==
  ASSUME NEW hp, Linked(hp), NEW p \in DOMAIN hp \cup {Null}
  PROVE  /\ Chain(hp, p) \subseteq DOMAIN hp
         /\ Closed(hp, p, Chain(hp, p))
         /\ p # Null => p \in Chain(hp, p)
<1>1. Chain(hp, p) \subseteq DOMAIN hp
  BY DEF Chain
<1>2. p # Null => p \in Chain(hp, p)
  BY DEF Chain, Closed
<1>3. ASSUME NEW s \in Chain(hp, p), hp[s].next # Null
      PROVE  hp[s].next \in Chain(hp, p)
  <2>1. hp[s].next \in DOMAIN hp
    BY <1>1, <1>3 DEF Linked
  <2>2. ASSUME NEW S \in SUBSET DOMAIN hp, Closed(hp, p, S)
        PROVE  hp[s].next \in S
    <3>1. s \in S
      BY <1>3, <2>2, ChainLeast
    <3> QED
      BY <1>3, <2>2, <3>1 DEF Closed
  <2> QED
    BY <2>1, <2>2 DEF Chain
<1> QED
  BY <1>1, <1>2, <1>3 DEF Closed

(* What is on the chain from p is p, or on the chain from the next one. *)
LEMMA ChainTail ==
  ASSUME NEW hp, Linked(hp), NEW p \in DOMAIN hp \cup {Null},
         NEW s \in Chain(hp, p), s # p
  PROVE  p # Null /\ s \in Chain(hp, hp[p].next)
<1>1. p # Null
  BY ChainNull
<1>2. s \in DOMAIN hp
  BY DEF Chain
<1>3. ASSUME NEW S \in SUBSET DOMAIN hp, Closed(hp, hp[p].next, S)
      PROVE  s \in S
  <2>1. Closed(hp, p, S \cup {p})
    BY <1>3 DEF Closed
  <2>2. S \cup {p} \in SUBSET DOMAIN hp
    BY <1>1
  <2>3. s \in S \cup {p}
    BY <2>1, <2>2, ChainLeast
  <2> QED
    BY <2>3
<1> QED
  BY <1>1, <1>2, <1>3 DEF Chain

(* The chain from the next symbol is a part of the chain. *)
LEMMA ChainMore ==
  ASSUME NEW hp, Linked(hp), NEW p \in DOMAIN hp
  PROVE  Chain(hp, hp[p].next) \subseteq Chain(hp, p)
<1>1. /\ Closed(hp, p, Chain(hp, p)) /\ p # Null
      /\ Chain(hp, p) \in SUBSET DOMAIN hp
  BY ChainClosed DEF Linked
<1>2. Closed(hp, hp[p].next, Chain(hp, p))
  BY <1>1 DEF Closed
<1> QED
  BY <1>1, <1>2, ChainLeast

(* A symbol that is not the first of a chain has one before it. *)
LEMMA ChainBefore ==
  ASSUME NEW hp, Linked(hp), NEW p \in DOMAIN hp \cup {Null},
         NEW s \in Chain(hp, p), s # p
  PROVE  \E u \in Chain(hp, p) : hp[u].next = s
<1> SUFFICES ASSUME \A u \in Chain(hp, p) : hp[u].next # s
             PROVE  FALSE
  OBVIOUS
<1> DEFINE S == Chain(hp, p) \ {s}
<1>1. Closed(hp, p, Chain(hp, p)) /\ Chain(hp, p) \subseteq DOMAIN hp
  BY ChainClosed
<1>2. Closed(hp, p, S) /\ S \in SUBSET DOMAIN hp
  BY <1>1 DEF Closed
<1>3. Chain(hp, p) \subseteq S
  BY <1>2, ChainLeast
<1> QED
  BY <1>3

(* A chain stays when its links do, whatever else is written or allocated. *)
LEMMA ChainKept ==
  ASSUME NEW hp, Linked(hp), NEW hq, DOMAIN hp \subseteq DOMAIN hq,
         NEW p \in DOMAIN hp \cup {Null},
         \A u \in Chain(hp, p) : hq[u].next = hp[u].next
  PROVE  Chain(hp, p) \subseteq Chain(hq, p)
<1>1. Closed(hp, p, Chain(hp, p)) /\ Chain(hp, p) \subseteq DOMAIN hp
  BY ChainClosed
<1>2. ASSUME NEW S \in SUBSET DOMAIN hq, Closed(hq, p, S)
      PROVE  Chain(hp, p) \subseteq S
  <2> DEFINE T == S \cap Chain(hp, p)
  <2>1. T \in SUBSET DOMAIN hp /\ Closed(hp, p, T)
    BY <1>1, <1>2 DEF Closed
  <2>2. Chain(hp, p) \subseteq T
    BY <2>1, ChainLeast
  <2> QED
    BY <2>2
<1> QED
  BY <1>1, <1>2 DEF Chain

-----------------------------------------------------------------------------
(* The inductive invariant. *)

(* An array of chains. *)
IsArray(bs) ==
  CountOf(bs) \in Nat \ {0} /\ bs \in [0..(CountOf(bs) - 1) -> Pointers]

(* What the two arrays are while each loop runs. *)
Arrays ==
  /\ pc # "cleared" => IsArray(buckets) /\ arrays > 0
  /\ pc = "cleared" => buckets = << >>
  /\ pc = "rehash" => /\ IsArray(fresh) /\ i \in DOMAIN buckets
                      /\ CountOf(fresh) = 2 * CountOf(buckets)
  /\ pc = "clear" => \A b \in DOMAIN buckets : b < i => buckets[b] = Null
  /\ pc \notin {"clear", "cleared"} => freed = << >>

(* No two pointers that count lead to one symbol. *)
LinksApart ==
  /\ \A g, h \in Heads : g.at # Null /\ g.at = h.at => g = h
  /\ \A h \in Heads : \A t \in Live : h.at # Null => heap[t].next # h.at
  /\ \A t, u \in Live :
       heap[t].next # Null /\ heap[t].next = heap[u].next => t = u

(* No pointer that counts leads to a symbol that has been freed. *)
LinksLive ==
  /\ \A h \in Heads : h.at \in Live \cup {Null}
  /\ \A t \in Live : heap[t].next \in Live \cup {Null}

(* Each symbol is where a search for it begins. *)
FiledAt(s, h) ==
  s \in ChainFrom(h.at) /\ h.bucket = Index(heap[s].id, ArrayOf(h))

Filed == \A s \in Live : \E h \in Heads : FiledAt(s, h)

OneSymbolEach == \A s, t \in DOMAIN heap : heap[s].id = heap[t].id => s = t

(* The search has not passed what it looks for. *)
Ahead ==
  pc = "find" =>
    /\ id \in Names
    /\ \A s \in DOMAIN heap : heap[s].id = id => s \in ChainFrom(tmp)

(* rehash runs for a symbol that has been added. *)
Adding ==
  pc = "rehash" => id \in Names /\ sym \in DOMAIN heap /\ heap[sym].id = id

HeldTrue == \A h \in held : heap[h.sym].id = h.id

(* LoadBounded, with what rehash makes room for. *)
LoadKept ==
  /\ LoadBounded
  /\ pc = "rehash" => /\ symbols_cnt = Len(heap)
                      /\ 4 * symbols_cnt <= 3 * CountOf(fresh)

FreedApart == \A j, k \in DOMAIN freed : freed[j] = freed[k] => j = k

IInv ==
  /\ TypeOK /\ Arrays
  /\ LinksApart /\ LinksLive /\ Filed
  /\ OneSymbolEach /\ Ahead /\ Adding /\ HeldTrue
  /\ LoadKept /\ FreedApart

-----------------------------------------------------------------------------
(* What the invariant says of the chains. *)

(* The links of the heap stay within it. *)
LEMMA HeapLinked ==
  ASSUME TypeOK
  PROVE  /\ Linked(heap) /\ Len(heap) \in Nat /\ DOMAIN heap = 1..Len(heap)
         /\ Pointers = DOMAIN heap \cup {Null}
         /\ Live \subseteq DOMAIN heap
<1>1. heap \in Seq([id : Names, next : Nat])
  BY DEF TypeOK
<1>2. Len(heap) \in Nat /\ DOMAIN heap = 1..Len(heap)
  BY <1>1, LenProperties
<1>3. Pointers = DOMAIN heap \cup {Null}
  BY <1>2 DEF Pointers, Null
<1> QED
  BY <1>2, <1>3 DEF TypeOK, Linked, Null, Live

(* The chains hold no symbol that has been freed. *)
LEMMA ChainLive ==
  ASSUME TypeOK, LinksLive, NEW p \in Live \cup {Null}
  PROVE  ChainFrom(p) \subseteq Live
<1>1. Live \in SUBSET DOMAIN heap
  BY HeapLinked
<1>2. Closed(heap, p, Live)
  BY DEF LinksLive, Closed
<1> QED
  BY <1>1, <1>2, ChainLeast DEF ChainFrom

(* Nothing leads to the first symbol of a chain but its head. *)
LEMMA HeadFirst ==
  ASSUME TypeOK, LinksApart, LinksLive, NEW g \in Heads, NEW h \in Heads,
         g.at \in ChainFrom(h.at), g.at # Null
  PROVE  g = h
<1>1. h.at \in Live \cup {Null} /\ Live \subseteq DOMAIN heap /\ Linked(heap)
  BY HeapLinked DEF LinksLive
<1>2. CASE g.at = h.at
  BY <1>2 DEF LinksApart
<1>3. CASE g.at # h.at
  <2>1. PICK u \in ChainFrom(h.at) : heap[u].next = g.at
    BY <1>1, <1>3, ChainBefore DEF ChainFrom
  <2>2. u \in Live
    BY <1>1, ChainLive
  <2> QED
    BY <2>1, <2>2 DEF LinksApart
<1> QED
  BY <1>2, <1>3

(***************************************************************************)
(* Two chains have no symbol in common: what is on the first and not on    *)
(* the second would be closed under the links.                             *)
(***************************************************************************)
LEMMA ChainsApart ==
  ASSUME TypeOK, LinksApart, LinksLive, NEW g \in Heads, NEW h \in Heads,
         NEW s \in ChainFrom(g.at), s \in ChainFrom(h.at)
  PROVE  g = h
<1> SUFFICES ASSUME g # h PROVE FALSE
  OBVIOUS
<1> DEFINE G == ChainFrom(g.at)
           H == ChainFrom(h.at)
           S == H \ G
<1>1. /\ g.at \in DOMAIN heap \cup {Null} /\ h.at \in DOMAIN heap \cup {Null}
      /\ Linked(heap)
      /\ G \subseteq Live /\ H \subseteq Live
  BY HeapLinked, ChainLive DEF LinksLive
<1>2. /\ G \subseteq DOMAIN heap /\ Closed(heap, g.at, G)
      /\ H \subseteq DOMAIN heap /\ Closed(heap, h.at, H)
  BY <1>1, ChainClosed DEF ChainFrom
<1>3. h.at # Null => h.at \in S
  <2>1. h.at # Null => h.at \in H
    BY <1>2 DEF Closed
  <2>2. h.at # Null => h.at \notin G
    BY HeadFirst
  <2> QED
    BY <2>1, <2>2
<1>4. ASSUME NEW u \in S, heap[u].next # Null
      PROVE  heap[u].next \in S
  <2> DEFINE v == heap[u].next
  <2>1. v \in H
    BY <1>2, <1>4 DEF Closed
  <2>2. ASSUME v \in G PROVE FALSE
    <3>1. u \in Live
      BY <1>1
    <3>2. v # g.at
      BY <1>4, <3>1 DEF LinksApart
    <3>3. PICK w \in G : heap[w].next = v
      BY <1>1, <2>2, <3>2, ChainBefore DEF ChainFrom
    <3>4. w = u
      BY <1>1, <1>4, <3>1, <3>3 DEF LinksApart
    <3> QED
      BY <3>3, <3>4
  <2> QED
    BY <2>1, <2>2
<1>5. Closed(heap, h.at, S) /\ S \in SUBSET DOMAIN heap
  BY <1>2, <1>3, <1>4 DEF Closed
<1>6. H \subseteq S
  BY <1>5, ChainLeast DEF ChainFrom
<1> QED
  BY <1>6

(* A symbol that is not freed has exactly one link to it. *)
LEMMA OneLink ==
  ASSUME IInv, NEW s \in Live
  PROVE  Cardinality({h \in Heads : h.at = s})
           + Cardinality({t \in Live : heap[t].next = s}) = 1
<1>1. /\ TypeOK /\ LinksApart /\ LinksLive /\ s # Null
      /\ Linked(heap) /\ Live \subseteq DOMAIN heap
  BY HeapLinked DEF IInv, Linked
<1>2. PICK h \in Heads : s \in ChainFrom(h.at)
  BY DEF IInv, Filed, FiledAt
<1>3. CASE h.at = s
  <2>1. {g \in Heads : g.at = s} = {h}
    BY <1>1, <1>3 DEF LinksApart
  <2>2. {t \in Live : heap[t].next = s} = {}
    BY <1>1, <1>3 DEF LinksApart
  <2>3. Cardinality({g \in Heads : g.at = s}) = 1
    BY <2>1, FS_Singleton
  <2>4. Cardinality({t \in Live : heap[t].next = s}) = 0
    BY <2>2, FS_EmptySet
  <2> QED
    BY <2>3, <2>4
<1>4. CASE h.at # s
  <2>1. h.at \in DOMAIN heap \cup {Null} /\ h.at \in Live \cup {Null}
    BY <1>1 DEF LinksLive
  <2>2. PICK u \in ChainFrom(h.at) : heap[u].next = s
    BY <1>1, <1>2, <1>4, <2>1, ChainBefore DEF ChainFrom
  <2>3. u \in Live
    BY <1>1, <2>1, ChainLive
  <2>4. {t \in Live : heap[t].next = s} = {u}
    BY <1>1, <2>2, <2>3 DEF LinksApart
  <2>5. {g \in Heads : g.at = s} = {}
    BY <1>1, <2>2, <2>3 DEF LinksApart
  <2>6. Cardinality({t \in Live : heap[t].next = s}) = 1
    BY <2>4, FS_Singleton
  <2>7. Cardinality({g \in Heads : g.at = s}) = 0
    BY <2>5, FS_EmptySet
  <2> QED
    BY <2>6, <2>7
<1> QED
  BY <1>3, <1>4

(* The invariant says what the table promises of its chains. *)
LEMMA ChainsOfInvariant == IInv => EachSymbolInItsChain
<1> SUFFICES ASSUME IInv PROVE EachSymbolInItsChain
  OBVIOUS
<1>1. TypeOK /\ LinksApart /\ LinksLive
  BY DEF IInv
<1>2. ASSUME NEW s \in Live
      PROVE  \E h \in Heads :
               /\ s \in ChainFrom(h.at)
               /\ h.bucket = Index(heap[s].id, ArrayOf(h))
               /\ \A g \in Heads : s \in ChainFrom(g.at) => g = h
  <2>1. PICK h \in Heads : FiledAt(s, h)
    BY DEF IInv, Filed
  <2>2. \A g \in Heads : s \in ChainFrom(g.at) => g = h
    BY <1>1, <2>1, ChainsApart DEF FiledAt
  <2> QED
    BY <2>1, <2>2 DEF FiledAt
<1>3. \A h \in Heads : ChainFrom(h.at) \subseteq Live
  BY <1>1, ChainLive DEF LinksLive
<1> QED
  BY <1>2, <1>3, OneLink DEF EachSymbolInItsChain

(* And that every symbol is freed in the end, and none twice. *)
LEMMA FreedOfInvariant == IInv => FreedOnce
<1> SUFFICES ASSUME IInv PROVE FreedOnce
  OBVIOUS
<1>1. ASSUME pc = "cleared" PROVE Live = {}
  <2>1. buckets = << >>
    BY <1>1 DEF IInv, Arrays
  <2>2. DOMAIN buckets = {}
    BY <2>1, EmptySeq
  <2>3. Heads = {}
    BY <1>1, <2>2 DEF Heads
  <2> QED
    BY <2>3 DEF IInv, Filed
<1> QED
  BY <1>1 DEF IInv, FreedApart, FreedOnce

-----------------------------------------------------------------------------
(* Arrays of chains. *)

(* An array has as many buckets as indices. *)
LEMMA CountIs ==
  ASSUME NEW n \in Nat, NEW bs, DOMAIN bs = 0..(n - 1)
  PROVE  CountOf(bs) = n
<1>1. Cardinality(0..(n - 1)) = IF 0 > n - 1 THEN 0 ELSE (n - 1) - 0 + 1
  BY FS_Interval
<1> QED
  BY <1>1 DEF CountOf

(* The index of a hash value is one of the array. *)
LEMMA IndexIn ==
  ASSUME TypeOK, NEW x \in Names, NEW bs, CountOf(bs) \in Nat \ {0}
  PROVE  Index(x, bs) \in 0..(CountOf(bs) - 1)
<1>1. hash[x] \in HashValues
  BY DEF TypeOK
<1>2. hash[x] \in 0..255
  BY <1>1, TableAssumption
<1>3. hash[x] \in Nat
  BY <1>2
<1> QED
  BY <1>3 DEF Index

(* ycalloc gives an array of null pointers. *)
LEMMA EmptyArray ==
  ASSUME NEW n \in Nat \ {0}
  PROVE  /\ CountOf(EmptyBuckets(n)) = n
         /\ EmptyBuckets(n) \in [0..(n - 1) -> {Null}]
<1>1. EmptyBuckets(n) \in [0..(n - 1) -> {Null}]
  BY DEF EmptyBuckets
<1> QED
  BY <1>1, CountIs

-----------------------------------------------------------------------------
(* symbol_table_init *)
LEMMA InitInv == Init => IInv
<1> SUFFICES ASSUME Init PROVE IInv
  OBVIOUS
<1>1. /\ CountOf(buckets) = BucketsMin /\ BucketsMin \in Nat \ {0}
      /\ buckets \in [0..(BucketsMin - 1) -> {Null}]
  BY TableAssumption, EmptyArray DEF Init
<1>2. /\ heap = << >> /\ freed = << >> /\ held = {} /\ pc = "idle"
      /\ symbols_cnt = 0
  BY DEF Init
<1>3. DOMAIN heap = {} /\ Len(heap) = 0 /\ DOMAIN freed = {} /\ Live = {}
  BY <1>2, EmptySeq DEF Live
<1>4. \A h \in Heads : h.at = Null
  BY <1>1, <1>2 DEF Heads
<1>5. TypeOK
  <2>1. DOMAIN fresh = {} /\ \A b \in DOMAIN buckets : buckets[b] = Null
    BY <1>1, EmptySeq DEF Init
  <2>2. heap \in Seq([id : Names, next : Nat]) /\ freed \in Seq(DOMAIN heap)
    BY <1>2, EmptySeq
  <2>3. Null \in Pointers
    BY <1>3 DEF Pointers, Null
  <2> QED
    BY <1>2, <1>3, <2>1, <2>2, <2>3 DEF TypeOK, Init
<1>6. Arrays
  BY <1>1, <1>2, <1>3 DEF Arrays, IsArray, Pointers, Null, Init
<1>7. LinksApart /\ LinksLive /\ Filed
  BY <1>3, <1>4 DEF LinksApart, LinksLive, Filed
<1>8. OneSymbolEach /\ Ahead /\ Adding /\ HeldTrue /\ FreedApart
  BY <1>2, <1>3 DEF OneSymbolEach, Ahead, Adding, HeldTrue, FreedApart
<1>9. LoadKept
  BY <1>1, <1>2, <1>3 DEF LoadKept, LoadBounded
<1> QED
  BY <1>5, <1>6, <1>7, <1>8, <1>9 DEF IInv

-----------------------------------------------------------------------------
(* The steps that leave the table as it is. *)

(* Outside of rehash only the buckets are heads. *)
LEMMA OldHeads ==
  ASSUME pc # "rehash"
  PROVE  /\ Heads = {[at |-> buckets[b], of |-> "old", bucket |-> b] :
                       b \in DOMAIN buckets}
         /\ \A h \in Heads : ArrayOf(h) = buckets
BY DEF Heads, ArrayOf

(* No chain has changed, and no head is gone but of an empty chain. *)
LEMMA SubHeads ==
  ASSUME IInv, UNCHANGED <<hash, heap, freed>>, Heads' \subseteq Heads,
         \A h \in Heads : h \in Heads' \/ h.at = Null,
         \A h \in Heads' : ArrayOf(h)' = ArrayOf(h)
  PROVE  /\ LinksApart' /\ LinksLive' /\ Filed' /\ OneSymbolEach'
         /\ FreedApart'
<1>1. Live' = Live /\ heap' = heap
  BY DEF Live
<1>2. LinksApart' /\ LinksLive' /\ OneSymbolEach' /\ FreedApart'
  BY <1>1 DEF IInv, LinksApart, LinksLive, OneSymbolEach, FreedApart
<1>3. ASSUME NEW s \in Live, NEW h \in Heads, FiledAt(s, h)
      PROVE  h \in Heads' /\ FiledAt(s, h)'
  <2>1. h \in Heads'
    BY <1>3, ChainNull DEF FiledAt, ChainFrom
  <2>2. Index(heap[s].id, ArrayOf(h))' = Index(heap[s].id, ArrayOf(h))
    BY <1>1, <2>1 DEF Index
  <2> QED
    BY <1>1, <1>3, <2>1, <2>2 DEF FiledAt, ChainFrom
<1> QED
  BY <1>1, <1>2, <1>3 DEF IInv, Filed

(* The table has not changed, and what is said of it. *)
LEMMA SameTable ==
  ASSUME IInv, UNCHANGED <<hash, table, freed>>, pc # "rehash", pc' # "rehash"
  PROVE  /\ LinksApart' /\ LinksLive' /\ Filed' /\ OneSymbolEach'
         /\ FreedApart'
<1>1. Heads' = Heads /\ heap' = heap
  BY DEF table, Heads
<1>2. \A h \in Heads : ArrayOf(h)' = ArrayOf(h)
  BY DEF Heads, ArrayOf, table
<1> QED
  BY <1>1, <1>2, SubHeads

(* A symbol is returned: it is that of the identifier. *)
LEMMA ReturnHeld ==
  ASSUME IInv, NEW s, heap'[s].id = id, Return(s),
         \A t \in DOMAIN heap : heap'[t].id = heap[t].id
  PROVE  HeldTrue'
<1>1. \A h \in held : h.sym \in DOMAIN heap
  BY DEF IInv, TypeOK
<1> QED
  BY <1>1 DEF Return, HeldTrue, IInv

(* symbol_table_find begins at the bucket of the identifier. *)
LEMMA FindInv == ASSUME IInv, NEW x \in Names, Find(x) PROVE IInv'
<1>1. /\ TypeOK /\ Arrays /\ Live = DOMAIN heap /\ IsArray(buckets)
      /\ pc = "idle" /\ pc' = "find" /\ id' = x
  <2>1. freed = << >> /\ TypeOK /\ Arrays /\ IsArray(buckets) /\ pc = "idle"
    BY DEF IInv, Arrays, Find
  <2>2. DOMAIN freed = {}
    BY <2>1, EmptySeq
  <2>3. Live = DOMAIN heap
    BY <2>2 DEF Live
  <2> QED
    BY <2>1, <2>3 DEF Find
<1>2. LinksApart' /\ LinksLive' /\ Filed' /\ OneSymbolEach' /\ FreedApart'
  BY SameTable DEF Find
<1>3. Index(x, buckets) \in DOMAIN buckets /\ tmp' = buckets[Index(x, buckets)]
  BY <1>1, IndexIn DEF IsArray, Find
<1>4. TypeOK'
  BY <1>1, <1>3 DEF TypeOK, Find, table, Pointers
<1>5. Arrays' /\ Adding' /\ HeldTrue' /\ LoadKept'
  BY <1>1 DEF IInv, Arrays, IsArray, Pointers, Adding, HeldTrue, LoadKept,
              LoadBounded, Find, table
<1>6. Ahead'
  <2>1. ASSUME NEW s \in DOMAIN heap, heap[s].id = x
        PROVE  s \in ChainFrom(tmp')
    <3>1. PICK h \in Heads : FiledAt(s, h)
      BY <1>1 DEF IInv, Filed
    <3>2. h.bucket = Index(x, buckets) /\ h.at = buckets[h.bucket]
      BY <1>1, <2>1, <3>1, OldHeads DEF FiledAt
    <3> QED
      BY <1>3, <3>1, <3>2 DEF FiledAt
  <2>2. heap' = heap
    BY DEF Find, table
  <2> QED
    BY <1>1, <2>1, <2>2 DEF Ahead, ChainFrom
<1> QED
  BY <1>2, <1>4, <1>5, <1>6 DEF IInv

(* It goes on to the next symbol of the chain. *)
LEMMA FindNextInv == ASSUME IInv, FindNext PROVE IInv'
<1>1. /\ TypeOK /\ Arrays /\ pc = "find" /\ pc' = "find" /\ id' = id
      /\ heap' = heap /\ tmp # Null /\ heap[tmp].id # id
      /\ tmp' = heap[tmp].next
  BY DEF IInv, FindNext, table
<1>2. LinksApart' /\ LinksLive' /\ Filed' /\ OneSymbolEach' /\ FreedApart'
  BY <1>1, SameTable DEF FindNext
<1>3. Linked(heap) /\ tmp \in DOMAIN heap /\ Pointers = DOMAIN heap \cup {Null}
  BY <1>1, HeapLinked DEF TypeOK
<1>4. TypeOK'
  BY <1>1, <1>3 DEF TypeOK, FindNext, table, Pointers
<1>5. Arrays' /\ Adding' /\ HeldTrue' /\ LoadKept'
  BY <1>1 DEF IInv, Arrays, IsArray, Pointers, Adding, HeldTrue, LoadKept,
              LoadBounded, FindNext, table
<1>6. Ahead'
  <2>1. ASSUME NEW s \in DOMAIN heap, heap[s].id = id
        PROVE  s \in Chain(heap, heap[tmp].next)
    <3>1. s \in Chain(heap, tmp)
      BY <1>1, <2>1 DEF IInv, Ahead, ChainFrom
    <3> QED
      BY <1>1, <1>3, <2>1, <3>1, ChainTail
  <2> QED
    BY <1>1, <2>1 DEF IInv, Ahead, ChainFrom
<1> QED
  BY <1>2, <1>4, <1>5, <1>6 DEF IInv

(* It has found the symbol. *)
LEMMA FoundInv == ASSUME IInv, Found PROVE IInv'
<1>1. /\ TypeOK /\ Arrays /\ pc = "find" /\ pc' = "idle"
      /\ heap' = heap /\ tmp # Null /\ heap[tmp].id = id /\ id \in Names
  BY DEF IInv, Found, Return, table, Ahead
<1>2. LinksApart' /\ LinksLive' /\ Filed' /\ OneSymbolEach' /\ FreedApart'
  BY <1>1, SameTable DEF Found
<1>3. tmp \in DOMAIN heap /\ Pointers = DOMAIN heap \cup {Null}
  BY <1>1, HeapLinked DEF TypeOK
<1>4. TypeOK'
  <2>1. held' \subseteq [id : Names, sym : DOMAIN heap]
    BY <1>1, <1>3 DEF TypeOK, Found, Return
  <2> QED
    BY <1>1, <1>3, <2>1 DEF TypeOK, Found, Return, table, Pointers
<1>5. Arrays' /\ Adding' /\ Ahead' /\ LoadKept'
  BY <1>1 DEF IInv, Arrays, IsArray, Pointers, Adding, Ahead, LoadKept,
              LoadBounded, Found, table
<1>6. HeldTrue'
  BY <1>1, ReturnHeld DEF Found
<1> QED
  BY <1>2, <1>4, <1>5, <1>6 DEF IInv

(* symbol_table_clear begins, or goes on to the next bucket. *)
LEMMA ClearInv == ASSUME IInv, Clear \/ ClearNext PROVE IInv'
<1>1. /\ TypeOK /\ Arrays /\ pc \in {"idle", "clear"} /\ pc' = "clear"
      /\ heap' = heap /\ freed' = freed /\ buckets' = buckets
  BY DEF IInv, Clear, ClearNext, table
<1>2. LinksApart' /\ LinksLive' /\ Filed' /\ OneSymbolEach' /\ FreedApart'
  BY <1>1, SameTable DEF Clear, ClearNext
<1>3. TypeOK'
  BY <1>1 DEF TypeOK, Clear, ClearNext, table, Pointers
<1>4. Adding' /\ Ahead' /\ LoadKept' /\ HeldTrue'
  BY <1>1 DEF IInv, Adding, Ahead, LoadKept, LoadBounded, HeldTrue,
              Clear, ClearNext
<1>5. IsArray(buckets)' /\ arrays' > 0
  BY <1>1 DEF Arrays, IsArray, Pointers, Clear, ClearNext
<1>6. \A b \in DOMAIN buckets' : b < i' => buckets'[b] = Null
  <2>1. \A b \in DOMAIN buckets : b \in Nat
    BY <1>1 DEF Arrays, IsArray
  <2>2. CASE Clear
    BY <1>1, <2>1, <2>2 DEF Clear
  <2>3. CASE ClearNext
    BY <1>1, <2>1, <2>3 DEF ClearNext, Arrays, TypeOK
  <2> QED
    BY <2>2, <2>3
<1> QED
  BY <1>1, <1>2, <1>3, <1>4, <1>5, <1>6 DEF IInv, Arrays


(* No two buckets lead to one symbol, nor a bucket and a symbol. *)
LEMMA BucketsApart ==
  ASSUME LinksApart, pc # "rehash", NEW b \in DOMAIN buckets, buckets[b] # Null
  PROVE  /\ \A c \in DOMAIN buckets : buckets[b] = buckets[c] => b = c
         /\ \A u \in Live : heap[u].next # buckets[b]
<1> DEFINE head(c) == [at |-> buckets[c], of |-> "old", bucket |-> c]
<1>1. \A c \in DOMAIN buckets : head(c) \in Heads
  BY OldHeads
<1>2. \A c \in DOMAIN buckets : head(c).at = buckets[c] /\ head(c).bucket = c
  OBVIOUS
<1> HIDE DEF head
<1> QED
  BY <1>1, <1>2 DEF LinksApart

(* The symbols are all freed, and the array. *)
LEMMA ClearDoneInv == ASSUME IInv, ClearDone PROVE IInv'
<1>1. /\ TypeOK /\ Arrays /\ IsArray(buckets) /\ pc = "clear"
      /\ pc' = "cleared" /\ heap' = heap /\ freed' = freed /\ hash' = hash
      /\ buckets' = << >> /\ i \notin DOMAIN buckets
  BY DEF IInv, Arrays, ClearDone
<1>2. DOMAIN buckets' = {}
  BY <1>1, EmptySeq
<1>3. \A h \in Heads : h.at = Null
  <2>1. \A b \in DOMAIN buckets : b < i
    BY <1>1 DEF IsArray, TypeOK
  <2>2. \A b \in DOMAIN buckets : buckets[b] = Null
    BY <1>1, <2>1 DEF Arrays
  <2> QED
    BY <1>1, <2>2, OldHeads
<1>4. Heads' = {}
  BY <1>1, <1>2 DEF Heads
<1>5. LinksApart' /\ LinksLive' /\ Filed' /\ OneSymbolEach' /\ FreedApart'
  BY <1>1, <1>3, <1>4, SubHeads
<1>6. TypeOK'
  BY <1>1, <1>2 DEF TypeOK, ClearDone, Pointers, Arrays
<1>7. /\ Arrays' /\ Adding' /\ Ahead' /\ LoadKept' /\ HeldTrue'
  BY <1>1 DEF IInv, Arrays, Adding, Ahead, LoadKept, LoadBounded, HeldTrue,
              ClearDone
<1> QED
  BY <1>5, <1>6, <1>7 DEF IInv

(***************************************************************************)
(* symbol_table_clear frees the first symbol of a chain: nothing led to it *)
(* but the bucket, which goes on to the next one.                          *)
(***************************************************************************)
LEMMA ClearPopInv == ASSUME IInv, ClearPop PROVE IInv'
<1> DEFINE t == buckets[i]
<1>1. /\ TypeOK /\ Arrays /\ IsArray(buckets) /\ LinksApart /\ LinksLive
      /\ pc = "clear" /\ pc' = "clear" /\ heap' = heap /\ hash' = hash
      /\ i \in DOMAIN buckets /\ i' = i /\ t # Null /\ tmp' = t
      /\ buckets' = [buckets EXCEPT ![i] = heap[t].next]
      /\ freed' = Append(freed, t) /\ freed \in Seq(DOMAIN heap)
  BY DEF IInv, Arrays, ClearPop, TypeOK
<1>2. /\ Linked(heap) /\ Pointers = DOMAIN heap \cup {Null}
      /\ Live \subseteq DOMAIN heap /\ Pointers' = Pointers
  BY <1>1, HeapLinked DEF Pointers
<1>3. t \in Live /\ t \in DOMAIN heap
  <2>1. [at |-> t, of |-> "old", bucket |-> i] \in Heads
    BY <1>1, OldHeads
  <2> QED
    BY <1>1, <1>2, <2>1 DEF LinksLive
<1>4. Live' = Live \ {t}
  <2>1. /\ Len(freed') = Len(freed) + 1 /\ freed'[Len(freed) + 1] = t
        /\ \A k \in 1..Len(freed) : freed'[k] = freed[k]
        /\ Len(freed) \in Nat
        /\ DOMAIN freed = 1..Len(freed) /\ DOMAIN freed' = 1..(Len(freed) + 1)
    BY <1>1, <1>3, AppendProperties, LenProperties
  <2>2. {freed'[k] : k \in DOMAIN freed'} = {freed[k] : k \in DOMAIN freed} \cup {t}
    BY <2>1
  <2> QED
    BY <1>1, <2>2 DEF Live
<1>5. /\ DOMAIN buckets' = DOMAIN buckets /\ IsArray(buckets')
      /\ \A b \in DOMAIN buckets :
           buckets'[b] = IF b = i THEN heap[t].next ELSE buckets[b]
  <2>1. heap[t].next \in Pointers
    BY <1>1, <1>3 DEF TypeOK
  <2>2. /\ buckets' \in [0..(CountOf(buckets) - 1) -> Pointers]
        /\ DOMAIN buckets' = DOMAIN buckets
    BY <1>1, <2>1 DEF IsArray
  <2> QED
    BY <1>1, <2>2 DEF IsArray, CountOf
<1>6. /\ \A h \in Heads' : /\ h.bucket \in DOMAIN buckets
                           /\ h = [at |-> buckets'[h.bucket], of |-> "old",
                                   bucket |-> h.bucket]
      /\ \A b \in DOMAIN buckets :
           /\ [at |-> buckets'[b], of |-> "old", bucket |-> b] \in Heads'
           /\ [at |-> buckets[b], of |-> "old", bucket |-> b] \in Heads
      /\ \A h \in Heads : h = [at |-> buckets[h.bucket], of |-> "old",
                                bucket |-> h.bucket]
  BY <1>1, <1>5 DEF Heads
<1>7. \A u \in Live : heap[u].next # t
  BY <1>1, BucketsApart
<1>8. \A b \in DOMAIN buckets : b # i /\ buckets[b] # Null => buckets[b] # t
  BY <1>1, BucketsApart
<1>9. LinksLive'
  <2>1. ASSUME NEW h \in Heads' PROVE h.at \in Live' \cup {Null}
    <3>1. CASE h.bucket = i
      BY <1>1, <1>3, <1>4, <1>5, <1>6, <1>7, <3>1 DEF LinksLive
    <3>2. CASE h.bucket # i
      <4>1. h.at = buckets[h.bucket] /\ h.bucket \in DOMAIN buckets
        BY <1>5, <1>6, <3>2
      <4>2. h.at \in Live \cup {Null}
        BY <1>1, <1>6, <4>1 DEF LinksLive
      <4> QED
        BY <1>4, <1>8, <3>2, <4>1, <4>2
    <3> QED
      BY <3>1, <3>2
  <2>2. \A u \in Live' : heap'[u].next \in Live' \cup {Null}
    BY <1>1, <1>4, <1>7 DEF LinksLive
  <2> QED
    BY <2>1, <2>2 DEF LinksLive
<1>10. LinksApart'
  <2>1. ASSUME NEW g \in Heads', NEW h \in Heads', g.at # Null, g.at = h.at
        PROVE  g = h
    <3>1. ASSUME NEW b \in DOMAIN buckets, NEW c \in DOMAIN buckets,
                 buckets'[b] = buckets'[c], buckets'[b] # Null
          PROVE  b = c
      <4>1. CASE b # i /\ c # i
        BY <1>1, <1>5, <3>1, <4>1, BucketsApart
      <4>2. CASE b = i /\ c # i
        BY <1>1, <1>3, <1>5, <3>1, <4>2, BucketsApart
      <4>3. CASE b # i /\ c = i
        BY <1>1, <1>3, <1>5, <3>1, <4>3, BucketsApart
      <4> QED
        BY <4>1, <4>2, <4>3
    <3> QED
      BY <1>6, <2>1, <3>1
  <2>2. ASSUME NEW h \in Heads', NEW u \in Live', h.at # Null
        PROVE  heap'[u].next # h.at
    <3>1. CASE h.bucket = i
      BY <1>1, <1>3, <1>4, <1>5, <1>6, <2>2, <3>1 DEF LinksApart
    <3>2. CASE h.bucket # i
      BY <1>1, <1>4, <1>5, <1>6, <2>2, <3>2 DEF LinksApart
    <3> QED
      BY <3>1, <3>2
  <2>3. \A u, v \in Live' :
          heap'[u].next # Null /\ heap'[u].next = heap'[v].next => u = v
    BY <1>1, <1>4 DEF LinksApart
  <2> QED
    BY <2>1, <2>2, <2>3 DEF LinksApart
<1>11. Filed'
  <2> SUFFICES ASSUME NEW s \in Live' PROVE \E h \in Heads' : FiledAt(s, h)'
    BY DEF Filed
  <2>1. s \in Live /\ s # t
    BY <1>4
  <2>2. PICK g \in Heads : FiledAt(s, g)
    BY <2>1 DEF IInv, Filed
  <2> DEFINE b == g.bucket
  <2>3. b \in DOMAIN buckets /\ g.at = buckets[b] /\ ArrayOf(g) = buckets
    BY <1>1, OldHeads
  <2>7. PICK h \in Heads' : h.at = buckets'[b] /\ h.of = "old" /\ h.bucket = b
    BY <1>6, <2>3
  <2>4. s \in Chain(heap, buckets'[b])
    <3>1. CASE b = i
      BY <1>2, <1>3, <1>5, <2>1, <2>2, <2>3, <3>1, ChainTail DEF FiledAt, ChainFrom
    <3>2. CASE b # i
      BY <1>5, <2>2, <2>3, <3>2 DEF FiledAt, ChainFrom
    <3> QED
      BY <3>1, <3>2
  <2>5. Index(heap[s].id, buckets)' = Index(heap[s].id, buckets)
    BY <1>1, <1>5 DEF Index, CountOf
  <2>6. FiledAt(s, h)'
    <3>1. ArrayOf(h)' = buckets'
      BY <2>7 DEF ArrayOf
    <3> QED
      BY <1>1, <2>2, <2>3, <2>4, <2>5, <2>7, <3>1 DEF FiledAt, ChainFrom, Index
  <2> QED
    BY <2>6
<1>12. FreedApart' /\ freed' \in Seq(DOMAIN heap)
  <2>1. /\ Len(freed') = Len(freed) + 1 /\ freed'[Len(freed) + 1] = t
        /\ \A k \in 1..Len(freed) : freed'[k] = freed[k]
        /\ Len(freed) \in Nat /\ freed' \in Seq(DOMAIN heap)
        /\ DOMAIN freed = 1..Len(freed) /\ DOMAIN freed' = 1..(Len(freed) + 1)
    BY <1>1, <1>3, AppendProperties, LenProperties
  <2>2. \A k \in DOMAIN freed : freed[k] # t
    BY <1>3 DEF Live
  <2> QED
    BY <2>1, <2>2 DEF IInv, FreedApart
<1>13. TypeOK'
  BY <1>1, <1>2, <1>3, <1>5, <1>12 DEF TypeOK, IsArray, ClearPop
<1>14. Arrays'
  BY <1>1, <1>2, <1>5 DEF Arrays, IsArray, ClearPop
<1>15. OneSymbolEach' /\ Adding' /\ Ahead' /\ LoadKept' /\ HeldTrue'
  BY <1>1 DEF IInv, OneSymbolEach, Adding, Ahead, LoadKept, LoadBounded,
              HeldTrue, ClearPop
<1> QED
  BY <1>9, <1>10, <1>11, <1>12, <1>13, <1>14, <1>15 DEF IInv


-----------------------------------------------------------------------------
(* The steps of rehash. *)

(* The heads while rehash runs, one by one. *)
LEMMA LoopHeads ==
  ASSUME pc = "rehash"
  PROVE  /\ [at |-> tmp, of |-> "old", bucket |-> i] \in Heads
         /\ \A b \in DOMAIN buckets : b > i =>
              [at |-> buckets[b], of |-> "old", bucket |-> b] \in Heads
         /\ \A b \in DOMAIN fresh :
              [at |-> fresh[b], of |-> "new", bucket |-> b] \in Heads
         /\ \A h \in Heads :
              \/ h = [at |-> tmp, of |-> "old", bucket |-> i]
              \/ \E b \in DOMAIN buckets :
                   b > i /\ h = [at |-> buckets[b], of |-> "old", bucket |-> b]
              \/ \E b \in DOMAIN fresh :
                   h = [at |-> fresh[b], of |-> "new", bucket |-> b]
BY DEF Heads

(* The chain of one bucket has been moved: the next one begins. *)
LEMMA RehashNextInv == ASSUME IInv, RehashNext PROVE IInv'
<1>1. /\ TypeOK /\ Arrays /\ IsArray(buckets) /\ IsArray(fresh)
      /\ pc = "rehash" /\ pc' = "rehash" /\ UNCHANGED <<hash, table, fresh, freed>>
      /\ i + 1 \in DOMAIN buckets /\ i' = i + 1 /\ tmp' = buckets[i + 1]
      /\ tmp = Null /\ i \in Nat
  BY DEF IInv, Arrays, RehashNext, TypeOK
<1>2. DOMAIN buckets \subseteq Nat
  BY <1>1 DEF IsArray
<1>3. Heads' \subseteq Heads
  <2>1. ASSUME NEW b \in DOMAIN buckets, b > i + 1 PROVE b > i
    BY <1>1, <1>2, <2>1
  <2>2. i + 1 > i
    BY <1>1
  <2> QED
    BY <1>1, <2>1, <2>2 DEF Heads, table
<1>4. \A h \in Heads : h \in Heads' \/ h.at = Null
  <2>1. ASSUME NEW b \in DOMAIN buckets, b > i PROVE b = i + 1 \/ b > i + 1
    BY <1>1, <1>2, <2>1
  <2> QED
    BY <1>1, <2>1 DEF Heads, table
<1>5. \A h \in Heads' : ArrayOf(h)' = ArrayOf(h)
  BY <1>1 DEF ArrayOf, table
<1>6. LinksApart' /\ LinksLive' /\ Filed' /\ OneSymbolEach' /\ FreedApart'
  BY <1>1, <1>3, <1>4, <1>5, SubHeads DEF table
<1>7. TypeOK'
  BY <1>1 DEF TypeOK, RehashNext, table, Pointers
<1>8. Arrays' /\ Adding' /\ Ahead' /\ LoadKept' /\ HeldTrue'
  BY <1>1 DEF IInv, Arrays, IsArray, Pointers, Adding, Ahead, LoadKept,
              LoadBounded, HeldTrue, RehashNext, table
<1> QED
  BY <1>6, <1>7, <1>8 DEF IInv

(* The new array takes the place of the old, and the symbol is returned. *)
LEMMA RehashDoneInv == ASSUME IInv, RehashDone PROVE IInv'
<1>1. /\ TypeOK /\ Arrays /\ IsArray(buckets) /\ IsArray(fresh)
      /\ LinksApart /\ LinksLive /\ arrays > 0
      /\ pc = "rehash" /\ pc' = "idle" /\ UNCHANGED <<hash, heap, freed>>
      /\ buckets' = fresh /\ fresh' = << >>
      /\ i + 1 \notin DOMAIN buckets /\ i \in DOMAIN buckets /\ tmp = Null
      /\ sym \in DOMAIN heap /\ heap[sym].id = id /\ id \in Names
  BY DEF IInv, Arrays, RehashDone, Return, Adding
<1>2. Live' = Live
  BY <1>1 DEF Live
<1>3. \A b \in DOMAIN buckets : ~(b > i)
  BY <1>1 DEF IsArray
<1> DEFINE New(b) == [at |-> fresh[b], of |-> "new", bucket |-> b]
           Old(b) == [at |-> fresh[b], of |-> "old", bucket |-> b]
<1>4. /\ \A b \in DOMAIN fresh : New(b) \in Heads /\ Old(b) \in Heads'
      /\ \A h \in Heads : h.at = Null \/ \E b \in DOMAIN fresh : h = New(b)
      /\ \A h \in Heads' : \E b \in DOMAIN fresh : h = Old(b)
  BY <1>1, <1>3, LoopHeads DEF Heads
<1>5. \A b \in DOMAIN fresh :
        /\ New(b).at = fresh[b] /\ New(b).of = "new" /\ New(b).bucket = b
        /\ Old(b).at = fresh[b] /\ Old(b).of = "old" /\ Old(b).bucket = b
  OBVIOUS
<1> HIDE DEF New, Old
<1>6. LinksApart' /\ LinksLive' /\ OneSymbolEach' /\ FreedApart'
  <2>1. LinksLive'
    BY <1>1, <1>2, <1>4, <1>5 DEF LinksLive
  <2>2. ASSUME NEW b \in DOMAIN fresh, fresh[b] # Null
        PROVE  /\ \A c \in DOMAIN fresh : fresh[b] = fresh[c] => b = c
               /\ \A u \in Live : heap[u].next # fresh[b]
    BY <1>1, <1>4, <1>5, <2>2 DEF LinksApart
  <2>3. \A g, h \in Heads' : g.at # Null /\ g.at = h.at => g = h
    BY <1>4, <1>5, <2>2
  <2>4. \A h \in Heads' : \A u \in Live' : h.at # Null => heap'[u].next # h.at
    BY <1>1, <1>2, <1>4, <1>5, <2>2
  <2>5. LinksApart'
    BY <1>1, <1>2, <2>3, <2>4 DEF LinksApart
  <2> QED
    BY <1>1, <2>1, <2>5 DEF IInv, OneSymbolEach, FreedApart
<1>7. Filed'
  <2> SUFFICES ASSUME NEW s \in Live' PROVE \E h \in Heads' : FiledAt(s, h)'
    BY DEF Filed
  <2>1. PICK g \in Heads : FiledAt(s, g)
    BY <1>2 DEF IInv, Filed
  <2>2. PICK b \in DOMAIN fresh : g = New(b)
    BY <1>4, <2>1, ChainNull DEF FiledAt, ChainFrom
  <2>3. PICK h \in Heads' : h.at = g.at /\ h.of = "old" /\ h.bucket = g.bucket
    BY <1>4, <1>5, <2>2
  <2>4. ArrayOf(g) = fresh /\ ArrayOf(h)' = fresh
    BY <1>1, <1>5, <2>2, <2>3 DEF ArrayOf
  <2>5. FiledAt(s, h)'
    BY <1>1, <2>1, <2>3, <2>4 DEF FiledAt, ChainFrom, Index
  <2> QED
    BY <2>5
<1>8. TypeOK'
  <2>1. held' \subseteq [id : Names, sym : DOMAIN heap]
    BY <1>1 DEF TypeOK, RehashDone, Return
  <2>2. DOMAIN fresh' = {}
    BY <1>1, EmptySeq
  <2>3. Null \in Pointers
    BY <1>1, HeapLinked
  <2> QED
    BY <1>1, <2>1, <2>2, <2>3 DEF TypeOK, RehashDone, Return, Pointers, Null
<1>9. HeldTrue'
  BY <1>1, ReturnHeld DEF RehashDone
<1>10. Arrays' /\ Adding' /\ Ahead' /\ LoadKept'
  BY <1>1 DEF IInv, Arrays, IsArray, Pointers, Adding, Ahead, LoadKept,
              LoadBounded, RehashDone
<1> QED
  BY <1>6, <1>7, <1>8, <1>9, <1>10 DEF IInv


(***************************************************************************)
(* A symbol is moved: three pointers rotate (the loop's, that of the new   *)
(* bucket, the link of the symbol), so that no two of them lead to one     *)
(* symbol and the rest of both chains is kept.                             *)
(***************************************************************************)
LEMMA RehashMoveInv == ASSUME IInv, RehashMove PROVE IInv'
<1> DEFINE t == tmp
           b == Index(heap[t].id, fresh)
           q == fresh[b]
           n == heap[t].next
<1>1. /\ TypeOK /\ Arrays /\ IsArray(buckets) /\ IsArray(fresh)
      /\ LinksApart /\ LinksLive /\ pc = "rehash" /\ pc' = "rehash"
      /\ UNCHANGED <<hash, buckets, freed, i>>
      /\ i \in DOMAIN buckets /\ t # Null /\ tmp' = n
      /\ heap' = [heap EXCEPT ![t].next = q]
      /\ fresh' = [fresh EXCEPT ![b] = t]
      /\ freed = << >>
  BY DEF IInv, Arrays, RehashMove
<1>2. /\ Linked(heap) /\ Len(heap) \in Nat /\ DOMAIN heap = 1..Len(heap)
      /\ Pointers = DOMAIN heap \cup {Null}
  BY <1>1, HeapLinked
<1>3. Live = DOMAIN heap
  <2>1. DOMAIN freed = {}
    BY <1>1, EmptySeq
  <2> QED
    BY <2>1 DEF Live
<1>4. t \in DOMAIN heap /\ heap \in Seq([id : Names, next : Nat])
  BY <1>1, <1>2 DEF TypeOK
<1>5. b \in DOMAIN fresh /\ q \in DOMAIN heap \cup {Null}
  <2>1. heap[t].id \in Names
    <3>1. heap[t] \in [id : Names, next : Nat]
      BY <1>2, <1>4, ElementOfSeq
    <3> QED
      BY <3>1
  <2>2. b \in DOMAIN fresh
    BY <1>1, <2>1, IndexIn DEF IsArray
  <2> QED
    BY <1>1, <1>2, <2>2 DEF IsArray
<1>6. /\ heap' \in Seq([id : Names, next : Nat])
      /\ DOMAIN heap' = DOMAIN heap /\ Len(heap') = Len(heap)
      /\ \A u \in DOMAIN heap :
           /\ heap'[u].id = heap[u].id
           /\ heap'[u].next = IF u = t THEN q ELSE heap[u].next
  <2>1. q \in Nat
    BY <1>2, <1>5 DEF Null
  <2> HIDE DEF q
  <2>2. \A u \in DOMAIN heap : heap[u] \in [id : Names, next : Nat]
    BY <1>2, <1>4, ElementOfSeq
  <2>3. heap' = [u \in 1..Len(heap) |-> IF u = t THEN [heap[t] EXCEPT !.next = q]
                                        ELSE heap[u]]
    BY <1>1, <1>2, <1>4
  <2> QED
    BY <1>2, <1>4, <2>1, <2>2, <2>3, IsASeq, LenProperties
<1>7. Linked(heap') /\ Live' = DOMAIN heap /\ Pointers' = Pointers
  <2>1. Linked(heap')
    BY <1>2, <1>5, <1>6 DEF Linked
  <2>2. Live' = DOMAIN heap
    BY <1>1, <1>6, EmptySeq DEF Live
  <2> QED
    BY <1>6, <2>1, <2>2 DEF Pointers
<1>8. /\ DOMAIN fresh' = DOMAIN fresh
      /\ \A c \in DOMAIN fresh : fresh'[c] = IF c = b THEN t ELSE fresh[c]
      /\ IsArray(fresh)' /\ CountOf(fresh') = CountOf(fresh)
  <2>1. /\ DOMAIN fresh' = DOMAIN fresh
        /\ \A c \in DOMAIN fresh : fresh'[c] = IF c = b THEN t ELSE fresh[c]
        /\ fresh' \in [0..(CountOf(fresh) - 1) -> Pointers]
    BY <1>1, <1>2, <1>4, <1>5 DEF IsArray
  <2> QED
    BY <1>1, <1>7, <2>1 DEF IsArray, CountOf
<1> DEFINE hl == [at |-> t, of |-> "old", bucket |-> i]
           hf == [at |-> q, of |-> "new", bucket |-> b]
<1>9. hl \in Heads /\ hf \in Heads /\ hl # hf
  BY <1>1, <1>5, LoopHeads
<1>10. PICK ha, hb \in Heads' :
         /\ ha.at = n /\ ha.of = "old" /\ ha.bucket = i
         /\ hb.at = t /\ hb.of = "new" /\ hb.bucket = b
         /\ \A h \in Heads' : h = ha \/ h = hb \/ h \in Heads \ {hl, hf}
         /\ \A h \in Heads \ {hl, hf} : h \in Heads'
  <2> DEFINE ga == [at |-> n, of |-> "old", bucket |-> i]
             gb == [at |-> t, of |-> "new", bucket |-> b]
  <2>1. PICK ha, hb : ha = ga /\ hb = gb
    OBVIOUS
  <2>2. ha \in Heads' /\ hb \in Heads'
    BY <1>1, <1>5, <1>8, <2>1 DEF Heads
  <2>3. ASSUME NEW h \in Heads' PROVE h = ha \/ h = hb \/ h \in Heads \ {hl, hf}
    <3>1. CASE h = ha
      BY <3>1
    <3>2. CASE \E c \in DOMAIN buckets :
                 c > i /\ h = [at |-> buckets[c], of |-> "old", bucket |-> c]
      <4>1. PICK c \in DOMAIN buckets :
              c > i /\ h = [at |-> buckets[c], of |-> "old", bucket |-> c]
        BY <3>2
      <4>2. ~(i > i)
        BY <1>1 DEF TypeOK
      <4> QED
        BY <1>1, <4>1, <4>2, LoopHeads
    <3>3. CASE \E c \in DOMAIN fresh :
                 h = [at |-> fresh'[c], of |-> "new", bucket |-> c]
      <4>1. PICK c \in DOMAIN fresh :
              h = [at |-> fresh'[c], of |-> "new", bucket |-> c]
        BY <3>3
      <4>2. CASE c = b
        BY <1>5, <1>8, <2>1, <4>1, <4>2
      <4>3. CASE c # b
        BY <1>1, <1>8, <4>1, <4>3, LoopHeads
      <4> QED
        BY <4>2, <4>3
    <3> QED
      BY <1>1, <1>8, <2>1, <3>1, <3>2, <3>3 DEF Heads
  <2>4. ASSUME NEW h \in Heads \ {hl, hf} PROVE h \in Heads'
    <3>1. CASE \E c \in DOMAIN buckets :
                 c > i /\ h = [at |-> buckets[c], of |-> "old", bucket |-> c]
      BY <1>1, <3>1 DEF Heads
    <3>2. CASE \E c \in DOMAIN fresh :
                 h = [at |-> fresh[c], of |-> "new", bucket |-> c]
      <4>1. PICK c \in DOMAIN fresh :
              h = [at |-> fresh[c], of |-> "new", bucket |-> c]
        BY <3>2
      <4>2. c # b
        BY <2>4, <4>1
      <4> QED
        BY <1>1, <1>8, <4>1, <4>2 DEF Heads
    <3> QED
      BY <1>1, <2>4, <3>1, <3>2, LoopHeads
  <2> QED
    BY <2>1, <2>2, <2>3, <2>4
<1>11. /\ hl.at = t /\ hf.at = q /\ hf.bucket = b /\ hl.bucket = i
       /\ hl.of = "old" /\ hf.of = "new"
  OBVIOUS
<1> HIDE DEF t, b, q, n, hl, hf
<1>12. \A u \in DOMAIN heap : heap[u].next # t
  BY <1>1, <1>3, <1>9, <1>11 DEF LinksApart
<1>13. n = heap[t].next /\ n # t /\ q # t /\ (q # Null => q # n)
  <2>1. n = heap[t].next
    BY DEF n
  <2>2. n # t
    BY <1>4, <1>12, <2>1
  <2>3. q # t
    BY <1>1, <1>9, <1>11 DEF LinksApart
  <2>4. q # Null => q # n
    BY <1>1, <1>3, <1>4, <1>9, <1>11, <2>1 DEF LinksApart
  <2> QED
    BY <2>1, <2>2, <2>3, <2>4
<1>14. LinksLive'
  <2>1. n \in DOMAIN heap \cup {Null}
    BY <1>2, <1>4, <1>13 DEF Linked
  <2>2. \A h \in Heads : h.at \in DOMAIN heap \cup {Null}
    BY <1>1, <1>3 DEF LinksLive
  <2>3. \A h \in Heads' : h.at \in DOMAIN heap \cup {Null}
    BY <1>4, <1>10, <2>1, <2>2
  <2> QED
    BY <1>6, <1>7, <2>3 DEF LinksLive, Linked
<1>15. LinksApart'
  <2>1. ASSUME NEW g \in Heads', NEW h \in Heads', g.at # Null, g.at = h.at
        PROVE  g = h
    <3>1. CASE g \in Heads \ {hl, hf} /\ h \in Heads \ {hl, hf}
      BY <1>1, <2>1, <3>1 DEF LinksApart
    <3>2. \A k \in Heads \ {hl, hf} : k.at # Null => k.at # n /\ k.at # t
      BY <1>1, <1>3, <1>4, <1>9, <1>11, <1>13 DEF LinksApart
    <3> QED
      BY <1>10, <1>13, <2>1, <3>1, <3>2
  <2>2. ASSUME NEW h \in Heads', NEW u \in DOMAIN heap, h.at # Null
        PROVE  heap'[u].next # h.at
    <3>1. CASE u = t
      <4>1. heap'[u].next = q
        BY <1>6, <3>1
      <4>2. \A k \in Heads \ {hl, hf} : k.at # Null => k.at # q
        BY <1>1, <1>9, <1>11 DEF LinksApart
      <4> QED
        BY <1>10, <1>13, <2>2, <4>1, <4>2
    <3>2. CASE u # t
      <4>1. heap'[u].next = heap[u].next
        BY <1>6, <3>2
      <4>2. n # Null => heap[u].next # n
        BY <1>1, <1>3, <1>4, <1>13, <3>2 DEF LinksApart
      <4>3. \A k \in Heads : k.at # Null => heap[u].next # k.at
        BY <1>1, <1>3 DEF LinksApart
      <4> QED
        BY <1>10, <1>12, <2>2, <4>1, <4>2, <4>3
    <3> QED
      BY <3>1, <3>2
  <2>3. ASSUME NEW u \in DOMAIN heap, NEW v \in DOMAIN heap,
               heap'[u].next # Null, heap'[u].next = heap'[v].next
        PROVE  u = v
    <3>1. \A w \in DOMAIN heap : q # Null => heap[w].next # q
      BY <1>1, <1>3, <1>9, <1>11 DEF LinksApart
    <3>2. \A w, x \in DOMAIN heap :
            heap[w].next # Null /\ heap[w].next = heap[x].next => w = x
      BY <1>1, <1>3 DEF LinksApart
    <3> QED
      BY <1>6, <2>3, <3>1, <3>2
  <2> QED
    BY <1>7, <2>1, <2>2, <2>3 DEF LinksApart
<1>16. ASSUME NEW p \in DOMAIN heap \cup {Null}, p # t
       PROVE  Chain(heap, p) \subseteq Chain(heap', p)
  <2>1. Chain(heap, p) \subseteq DOMAIN heap
    BY DEF Chain
  <2>2. t \notin Chain(heap, p)
    BY <1>2, <1>12, <1>16, <2>1, ChainBefore
  <2>3. \A u \in Chain(heap, p) : heap'[u].next = heap[u].next
    BY <1>6, <2>1, <2>2
  <2> QED
    BY <1>2, <1>6, <2>3, ChainKept
<1>17. Filed'
  <2> SUFFICES ASSUME NEW s \in DOMAIN heap PROVE \E h \in Heads' : FiledAt(s, h)'
    BY <1>7 DEF Filed
  <2>1. PICK g \in Heads : FiledAt(s, g)
    BY <1>3 DEF IInv, Filed
  <2>2. /\ s \in Chain(heap, g.at) /\ g.at \in DOMAIN heap \cup {Null}
        /\ heap'[s].id = heap[s].id
    BY <1>1, <1>3, <1>6, <2>1 DEF FiledAt, ChainFrom, LinksLive
  <2>3. \A h : h \in Heads' /\ h.of = g.of /\ h.bucket = g.bucket
                 /\ s \in Chain(heap', h.at) => FiledAt(s, h)'
    BY <1>1, <1>8, <2>1, <2>2 DEF FiledAt, ChainFrom, ArrayOf, Index
  <2>4. CASE s = t
    <3>1. t \in Chain(heap', t)
      BY <1>4, <1>6, <1>7, ChainClosed DEF Linked
    <3>2. hb.bucket = Index(heap[t].id, fresh)
      BY <1>10 DEF b
    <3>3. ArrayOf(hb)' = fresh'
      BY <1>10 DEF ArrayOf
    <3>4. FiledAt(s, hb)'
      BY <1>1, <1>8, <1>10, <2>2, <2>4, <3>1, <3>2, <3>3
         DEF FiledAt, ChainFrom, Index
    <3> QED
      BY <1>10, <3>4
  <2>5. CASE s # t /\ g = hl
    <3>1. s \in Chain(heap, n)
      BY <1>2, <1>4, <1>11, <1>13, <2>2, <2>5, ChainTail
    <3>2. n \in DOMAIN heap \cup {Null}
      BY <1>2, <1>4, <1>13 DEF Linked
    <3>3. s \in Chain(heap', n)
      BY <1>13, <1>16, <3>1, <3>2
    <3> QED
      BY <1>10, <1>11, <2>3, <2>5, <3>3
  <2>6. CASE s # t /\ g = hf
    <3>1. s \in Chain(heap', q)
      BY <1>5, <1>11, <1>13, <1>16, <2>2, <2>6
    <3>2. heap'[t].next = q /\ t \in DOMAIN heap'
      BY <1>4, <1>6
    <3>3. s \in Chain(heap', t)
      BY <1>7, <3>1, <3>2, ChainMore
    <3> QED
      BY <1>10, <1>11, <2>3, <2>6, <3>3
  <2>7. CASE g \notin {hl, hf}
    <3>1. g.at # t
      BY <1>1, <1>4, <1>9, <1>11, <2>7, <1>2 DEF LinksApart, Linked
    <3>2. s \in Chain(heap', g.at)
      BY <1>16, <2>2, <3>1
    <3> QED
      BY <1>10, <2>3, <2>7, <3>2
  <2> QED
    BY <2>4, <2>5, <2>6, <2>7
<1>18. TypeOK'
  <2>1. \A u \in DOMAIN heap' : heap'[u].next \in Pointers'
    BY <1>2, <1>6, <1>7 DEF Linked
  <2>2. tmp' \in Pointers'
    BY <1>1, <1>2, <1>4, <1>7, <1>13 DEF Linked
  <2>3. \A c \in DOMAIN fresh' : fresh'[c] \in Pointers'
    BY <1>8 DEF IsArray
  <2> QED
    BY <1>1, <1>6, <1>7, <2>1, <2>2, <2>3 DEF TypeOK, RehashMove
<1>19. Arrays'
  BY <1>1, <1>7, <1>8 DEF Arrays, IsArray, RehashMove
<1>20. OneSymbolEach' /\ Adding' /\ Ahead' /\ LoadKept' /\ HeldTrue' /\ FreedApart'
  <2>1. \A h \in held : h.sym \in DOMAIN heap
    BY <1>1 DEF TypeOK
  <2> QED
    BY <1>1, <1>6, <1>8, <2>1
       DEF IInv, OneSymbolEach, Adding, Ahead, LoadKept, LoadBounded, HeldTrue,
           FreedApart, RehashMove
<1> QED
  BY <1>14, <1>15, <1>17, <1>18, <1>19, <1>20 DEF IInv


-----------------------------------------------------------------------------
(***************************************************************************)
(* symbol_table_add, with or without rehash: the search has found no       *)
(* symbol of the identifier, so that there is none, and the new one is put *)
(* between a bucket and what was its first symbol.                         *)
(***************************************************************************)
LEMMA AddInv == ASSUME IInv, Add PROVE IInv'
<1> DEFINE new == Len(heap) + 1
           b == Index(id, buckets)
           q == buckets[b]
           cnt == CountOf(buckets)
<1>1. /\ TypeOK /\ Arrays /\ IsArray(buckets) /\ cnt \in Nat \ {0}
      /\ LinksApart /\ LinksLive /\ pc = "find" /\ id \in Names
      /\ UNCHANGED <<hash, freed>> /\ freed = << >> /\ tmp = Null
      /\ heap' = Append(heap, [id |-> id, next |-> q])
      /\ buckets' = [buckets EXCEPT ![b] = new]
      /\ symbols_cnt' = symbols_cnt + 1 /\ arrays > 0
  BY DEF IInv, Arrays, Ahead, Add, IsArray
<1>2. \/ /\ Overloaded(symbols_cnt', cnt) /\ pc' = "rehash" /\ sym' = new
         /\ fresh' = EmptyBuckets(2 * cnt) /\ i' = 0 /\ tmp' = buckets'[0]
         /\ arrays' = arrays + 1 /\ UNCHANGED <<id, held>>
      \/ /\ ~Overloaded(symbols_cnt', cnt) /\ Return(new)
         /\ UNCHANGED <<fresh, arrays>>
  BY DEF Add
<1>3. /\ Linked(heap) /\ Len(heap) \in Nat /\ DOMAIN heap = 1..Len(heap)
      /\ Pointers = DOMAIN heap \cup {Null}
  BY <1>1, HeapLinked
<1>4. Live = DOMAIN heap
  <2>1. DOMAIN freed = {}
    BY <1>1, EmptySeq
  <2> QED
    BY <2>1 DEF Live
<1>5. b \in DOMAIN buckets /\ q \in DOMAIN heap \cup {Null}
  BY <1>1, <1>3, IndexIn DEF IsArray
<1>6. /\ heap' \in Seq([id : Names, next : Nat])
      /\ DOMAIN heap' = DOMAIN heap \cup {new} /\ Len(heap') = new
      /\ new \notin DOMAIN heap /\ new # Null /\ new \in Nat
      /\ \A u \in DOMAIN heap : heap'[u] = heap[u]
      /\ heap'[new].id = id /\ heap'[new].next = q
  <2>1. q \in Nat
    BY <1>3, <1>5 DEF Null
  <2> HIDE DEF q
  <2>2. [id |-> id, next |-> q] \in [id : Names, next : Nat]
    BY <1>1, <2>1
  <2>3. heap \in Seq([id : Names, next : Nat])
    BY <1>1 DEF TypeOK
  <2>4. /\ heap' \in Seq([id : Names, next : Nat]) /\ Len(heap') = Len(heap) + 1
        /\ heap'[Len(heap) + 1] = [id |-> id, next |-> q]
        /\ \A u \in 1..Len(heap) : heap'[u] = heap[u]
        /\ DOMAIN heap' = 1..(Len(heap) + 1)
    BY <1>1, <2>2, <2>3, AppendProperties, LenProperties
  <2> QED
    BY <1>3, <2>4 DEF Null
<1>7. /\ Linked(heap') /\ Live' = DOMAIN heap \cup {new}
      /\ Pointers' = DOMAIN heap \cup {new, Null}
  <2>1. Linked(heap')
    BY <1>3, <1>5, <1>6 DEF Linked
  <2>2. DOMAIN freed' = {}
    BY <1>1, EmptySeq
  <2>3. Live' = DOMAIN heap'
    BY <2>2 DEF Live
  <2> QED
    BY <1>3, <1>6, <2>1, <2>3 DEF Pointers, Null
<1>8. /\ DOMAIN buckets' = DOMAIN buckets /\ CountOf(buckets') = cnt
      /\ \A c \in DOMAIN buckets :
           buckets'[c] = IF c = b THEN new ELSE buckets[c]
      /\ IsArray(buckets)'
  <2>1. /\ DOMAIN buckets' = DOMAIN buckets
        /\ \A c \in DOMAIN buckets :
             buckets'[c] = IF c = b THEN new ELSE buckets[c]
    BY <1>1, <1>5 DEF IsArray
  <2>2. \A c \in DOMAIN buckets' : buckets'[c] \in Pointers'
    BY <1>1, <1>3, <1>7, <2>1 DEF IsArray
  <2> QED
    BY <1>1, <2>1, <2>2 DEF IsArray, CountOf
<1>9. DOMAIN buckets = 0..(cnt - 1) /\ 0 \in DOMAIN buckets
  BY <1>1 DEF IsArray
<1>10. /\ pc' = "rehash" => /\ CountOf(fresh') = 2 * cnt
                            /\ fresh' \in [0..(2 * cnt - 1) -> {Null}]
                            /\ IsArray(fresh)'
       /\ pc' \in {"rehash", "idle"}
  <2>1. CASE pc' = "rehash"
    <3>1. fresh' = EmptyBuckets(2 * cnt)
      BY <1>2, <2>1 DEF Return
    <3>2. 2 * cnt \in Nat \ {0}
      BY <1>1
    <3> HIDE DEF cnt
    <3>3. CountOf(fresh') = 2 * cnt /\ fresh' \in [0..(2 * cnt - 1) -> {Null}]
      BY <3>1, <3>2, EmptyArray
    <3> QED
      BY <1>7, <2>1, <3>2, <3>3 DEF IsArray
  <2> QED
    BY <1>2, <2>1 DEF Return
<1> DEFINE Old(c) == [at |-> buckets[c], of |-> "old", bucket |-> c]
           Now(c) == [at |-> buckets'[c], of |-> "old", bucket |-> c]
<1>11. /\ \A c \in DOMAIN buckets : Old(c) \in Heads /\ Now(c) \in Heads'
       /\ \A h \in Heads : \E c \in DOMAIN buckets : h = Old(c)
       /\ \A h \in Heads' : h.at = Null \/ \E c \in DOMAIN buckets : h = Now(c)
  <2>1. /\ \A c \in DOMAIN buckets : Old(c) \in Heads
        /\ \A h \in Heads : \E c \in DOMAIN buckets : h = Old(c)
    BY <1>1, OldHeads
  <2>2. CASE pc' = "idle"
    BY <1>8, <2>1, <2>2 DEF Heads
  <2>3. CASE pc' = "rehash"
    <3>1. tmp' = buckets'[0] /\ i' = 0
      BY <1>2, <2>3 DEF Return
    <3>2. \A c \in DOMAIN buckets : c = 0 \/ c > 0
      BY <1>1, <1>9
    <3>3. \A c \in DOMAIN buckets : Now(c) \in Heads'
      BY <1>8, <2>3, <3>1, <3>2 DEF Heads
    <3>4. \A h \in Heads' : h.at = Null \/ \E c \in DOMAIN buckets : h = Now(c)
      <4>1. \A c \in DOMAIN fresh' : fresh'[c] = Null
        BY <1>10, <2>3
      <4> QED
        BY <1>8, <1>9, <2>3, <3>1, <4>1 DEF Heads
    <3> QED
      BY <2>1, <3>3, <3>4
  <2> QED
    BY <1>10, <2>1, <2>2, <2>3
<1>12. \A c \in DOMAIN buckets :
         /\ Old(c).at = buckets[c] /\ Old(c).of = "old" /\ Old(c).bucket = c
         /\ Now(c).at = buckets'[c] /\ Now(c).of = "old" /\ Now(c).bucket = c
  OBVIOUS
<1>13. \A s \in DOMAIN heap : heap[s].id # id
  BY <1>1, ChainNull DEF IInv, Ahead, ChainFrom
<1>14. ASSUME NEW c \in DOMAIN buckets, buckets[c] # Null
       PROVE  /\ \A d \in DOMAIN buckets : buckets[c] = buckets[d] => c = d
              /\ \A u \in DOMAIN heap : heap[u].next # buckets[c]
              /\ buckets[c] \in DOMAIN heap
  BY <1>1, <1>3, <1>4, <1>14, BucketsApart DEF IsArray
<1> HIDE DEF new, b, Old, Now
<1>15. \A u \in DOMAIN heap : heap[u].next # new
  BY <1>3, <1>6 DEF Linked
<1>16. \A c \in DOMAIN buckets : buckets[c] # new
  BY <1>6, <1>14
<1>17. LinksLive'
  <2>1. \A c \in DOMAIN buckets : buckets'[c] \in Live' \cup {Null}
    BY <1>7, <1>8, <1>14
  <2> QED
    BY <1>6, <1>7, <1>11, <1>12, <2>1 DEF LinksLive, Linked
<1>18. LinksApart'
  <2>1. ASSUME NEW c \in DOMAIN buckets, buckets'[c] # Null
        PROVE  \A d \in DOMAIN buckets : buckets'[c] = buckets'[d] => c = d
    BY <1>8, <1>14, <1>16, <2>1
  <2>2. ASSUME NEW c \in DOMAIN buckets, buckets'[c] # Null,
               NEW u \in DOMAIN heap \cup {new}
        PROVE  heap'[u].next # buckets'[c]
    <3>1. CASE u = new
      BY <1>5, <1>6, <1>8, <1>14, <1>16, <2>2, <3>1
    <3>2. CASE u \in DOMAIN heap
      BY <1>6, <1>8, <1>14, <1>15, <2>2, <3>2
    <3> QED
      BY <3>1, <3>2
  <2>3. ASSUME NEW u \in DOMAIN heap \cup {new}, NEW v \in DOMAIN heap \cup {new},
               heap'[u].next # Null, heap'[u].next = heap'[v].next
        PROVE  u = v
    <3>1. \A w, x \in DOMAIN heap :
            heap[w].next # Null /\ heap[w].next = heap[x].next => w = x
      BY <1>1, <1>4 DEF LinksApart
    <3>2. \A w \in DOMAIN heap : q # Null => heap[w].next # q
      BY <1>5, <1>14
    <3> HIDE DEF q
    <3> QED
      BY <1>6, <2>3, <3>1, <3>2
  <2>4. \A g, h \in Heads' : g.at # Null /\ g.at = h.at => g = h
    BY <1>11, <1>12, <2>1
  <2>5. \A h \in Heads' : \A u \in Live' : h.at # Null => heap'[u].next # h.at
    BY <1>7, <1>11, <1>12, <2>2
  <2> QED
    BY <1>7, <2>3, <2>4, <2>5 DEF LinksApart
<1>19. ASSUME NEW p \in DOMAIN heap \cup {Null}
       PROVE  Chain(heap, p) \subseteq Chain(heap', p)
  <2>1. Chain(heap, p) \subseteq DOMAIN heap
    BY DEF Chain
  <2>2. \A u \in Chain(heap, p) : heap'[u].next = heap[u].next
    BY <1>6, <2>1
  <2> QED
    BY <1>3, <1>6, <2>2, ChainKept
<1>20. Filed'
  <2>1. ASSUME NEW s \in DOMAIN heap \cup {new}, NEW c \in DOMAIN buckets,
               s \in Chain(heap', buckets'[c]), c = Index(heap'[s].id, buckets)
        PROVE  \E h \in Heads' : FiledAt(s, h)'
    <3>1. PICK h \in Heads' : h.at = buckets'[c] /\ h.of = "old" /\ h.bucket = c
      BY <1>11, <1>12
    <3>2. ArrayOf(h)' = buckets'
      BY <3>1 DEF ArrayOf
    <3>3. FiledAt(s, h)'
      BY <1>1, <1>8, <2>1, <3>1, <3>2 DEF FiledAt, ChainFrom, Index
    <3> QED
      BY <3>3
  <2>2. new \in Chain(heap', new)
    BY <1>6, <1>7, ChainClosed
  <2>3. ASSUME NEW s, s = new PROVE \E h \in Heads' : FiledAt(s, h)'
    <3>1. b = Index(heap'[new].id, buckets) /\ buckets'[b] = new
      BY <1>5, <1>6, <1>8 DEF b
    <3> QED
      BY <1>5, <2>1, <2>2, <2>3, <3>1
  <2>4. ASSUME NEW s \in DOMAIN heap PROVE \E h \in Heads' : FiledAt(s, h)'
    <3>1. PICK g \in Heads : FiledAt(s, g)
      BY <1>4 DEF IInv, Filed
    <3>2. PICK c \in DOMAIN buckets : g = Old(c)
      BY <1>11
    <3>3. s \in Chain(heap, buckets[c]) /\ c = Index(heap[s].id, buckets)
      BY <1>1, <1>12, <3>1, <3>2, OldHeads DEF FiledAt, ChainFrom
    <3>4. s \in Chain(heap', buckets[c])
      BY <1>14, <1>19, <3>3
    <3>5. s \in Chain(heap', buckets'[c])
      <4>1. CASE c # b
        BY <1>8, <3>4, <4>1
      <4>2. CASE c = b
        <5>1. Chain(heap', heap'[new].next) \subseteq Chain(heap', new)
          BY <1>6, <1>7, ChainMore
        <5> QED
          BY <1>6, <1>8, <3>4, <4>2, <5>1
      <4> QED
        BY <4>1, <4>2
    <3> QED
      BY <1>6, <2>1, <3>3, <3>5
  <2> QED
    BY <1>7, <2>3, <2>4 DEF Filed
<1>21. OneSymbolEach' /\ FreedApart'
  BY <1>1, <1>6, <1>13 DEF IInv, OneSymbolEach, FreedApart
<1>22. HeldTrue'
  <2>1. CASE UNCHANGED <<id, held>>
    <3>1. \A h \in held : h.sym \in DOMAIN heap
      BY <1>1 DEF TypeOK
    <3> QED
      BY <1>6, <2>1, <3>1 DEF IInv, HeldTrue
  <2>2. CASE Return(new)
    BY <1>6, <2>2, ReturnHeld
  <2> QED
    BY <1>2, <2>1, <2>2 DEF new
<1>23. TypeOK'
  <2>1. \A s \in DOMAIN heap' : heap'[s].next \in Pointers'
    BY <1>3, <1>6, <1>7 DEF Linked
  <2>2. \A c \in DOMAIN buckets' : buckets'[c] \in Pointers'
    BY <1>8 DEF IsArray
  <2>3. \A c \in DOMAIN fresh' : fresh'[c] \in Pointers'
    <3>1. CASE fresh' = fresh
      BY <1>1, <1>3, <1>7, <3>1 DEF TypeOK
    <3>2. CASE pc' = "rehash"
      BY <1>10, <3>2 DEF IsArray
    <3> QED
      BY <1>2, <3>1, <3>2
  <2>4. held' \subseteq [id : Names, sym : DOMAIN heap']
    <3>1. CASE held' = held
      BY <1>1, <1>6, <3>1 DEF TypeOK
    <3>2. CASE Return(new)
      BY <1>1, <1>6, <3>2 DEF TypeOK, Return
    <3> QED
      BY <1>2, <3>1, <3>2 DEF new
  <2>5. /\ sym' \in Pointers' /\ tmp' \in Pointers' /\ i' \in Nat
        /\ id' \in Names \cup {Null} /\ arrays' \in Nat
    <3>1. tmp' = Null \/ tmp' = buckets'[0]
      BY <1>2 DEF Return
    <3>2. tmp' \in Pointers'
      BY <1>7, <1>8, <1>9, <2>2, <3>1
    <3> QED
      BY <1>1, <1>2, <1>7, <3>2 DEF TypeOK, Return, new, Null
  <2>6. freed' \in Seq(DOMAIN heap')
    BY <1>1, EmptySeq
  <2> QED
    BY <1>1, <1>6, <1>10, <2>1, <2>2, <2>3, <2>4, <2>5, <2>6 DEF TypeOK
<1>24. Arrays'
  <2>1. arrays' > 0
    BY <1>1, <1>2 DEF TypeOK
  <2>2. pc' = "rehash" => i' \in DOMAIN buckets'
    BY <1>2, <1>8, <1>9 DEF Return
  <2> QED
    BY <1>1, <1>8, <1>10, <2>1, <2>2 DEF Arrays
<1>25. Adding' /\ Ahead'
  BY <1>1, <1>2, <1>6, <1>10 DEF Adding, Ahead, Return, new
<1>26. LoadKept'
  <2>1. /\ symbols_cnt = Len(heap) /\ symbols_cnt' = Len(heap')
        /\ cnt < BucketsMax => 4 * symbols_cnt <= 3 * cnt
    BY <1>1, <1>6 DEF IInv, LoadKept, LoadBounded, new
  <2>2. cnt \in Nat \ {0} /\ BucketsMax \in Nat /\ symbols_cnt \in Nat
    BY <1>1, TableAssumption DEF TypeOK
  <2> HIDE DEF cnt
  <2>3. CASE pc' = "rehash"
    <3>1. Overloaded(symbols_cnt', cnt) /\ CountOf(fresh') = 2 * cnt
      BY <1>2, <1>10, <2>3 DEF Return
    <3>2. 4 * (symbols_cnt + 1) <= 3 * (2 * cnt)
      BY <2>1, <2>2, <3>1 DEF Overloaded
    <3> QED
      BY <1>1, <2>1, <2>3, <3>1, <3>2 DEF LoadKept, LoadBounded
  <2>4. CASE pc' = "idle"
    <3>1. ~Overloaded(symbols_cnt', cnt)
      BY <1>2, <2>4
    <3>2. cnt < BucketsMax => 4 * symbols_cnt' <= 3 * cnt
      BY <1>1, <2>2, <3>1 DEF Overloaded
    <3> QED
      BY <1>8, <2>1, <2>4, <3>2 DEF LoadKept, LoadBounded
  <2> QED
    BY <1>10, <2>3, <2>4
<1> QED
  BY <1>17, <1>18, <1>20, <1>21, <1>22, <1>23, <1>24, <1>25, <1>26 DEF IInv


-----------------------------------------------------------------------------
(* The theorems. *)

(* Every step preserves the invariant. *)
LEMMA NextInv == IInv /\ [Next]_vars => IInv'
<1> SUFFICES ASSUME IInv, [Next]_vars PROVE IInv'
  OBVIOUS
<1>1. ASSUME UNCHANGED vars PROVE IInv'
  <2>1. /\ LinksApart' /\ LinksLive' /\ Filed' /\ OneSymbolEach' /\ FreedApart'
    <3>1. Heads' = Heads
      BY <1>1 DEF vars, Heads
    <3>2. \A h \in Heads : ArrayOf(h)' = ArrayOf(h)
      BY <1>1 DEF vars, ArrayOf
    <3> QED
      BY <1>1, <3>1, <3>2, SubHeads DEF vars
  <2>2. /\ TypeOK' /\ Arrays' /\ Ahead' /\ Adding' /\ HeldTrue' /\ LoadKept'
    BY <1>1 DEF vars, IInv, TypeOK, Arrays, IsArray, Pointers, Ahead, Adding,
                HeldTrue, LoadKept, LoadBounded, ChainFrom
  <2> QED
    BY <2>1, <2>2 DEF IInv
<1>2. ASSUME NEW x \in Names, Find(x) PROVE IInv'
  BY <1>2, FindInv
<1>3. CASE Clear \/ ClearNext
  BY <1>3, ClearInv
<1>4. CASE FindNext
  BY <1>4, FindNextInv
<1>5. CASE Found
  BY <1>5, FoundInv
<1>6. CASE Add
  BY <1>6, AddInv
<1>7. CASE RehashMove
  BY <1>7, RehashMoveInv
<1>8. CASE RehashNext
  BY <1>8, RehashNextInv
<1>9. CASE RehashDone
  BY <1>9, RehashDoneInv
<1>10. CASE ClearPop
  BY <1>10, ClearPopInv
<1>11. CASE ClearDone
  BY <1>11, ClearDoneInv
<1>12. CASE Done
  BY <1>1, <1>12 DEF Done
<1> QED
  BY <1>1, <1>2, <1>3, <1>4, <1>5, <1>6, <1>7, <1>8, <1>9, <1>10, <1>11, <1>12
     DEF Next, Step

(* For any identifiers, hash function and sizes, the invariant holds. *)
LEMMA TableInvariance == Spec => []IInv
<1> QED
  BY InitInv, NextInv, PTL DEF Spec

(***************************************************************************)
(* Every field of the table and every pointer of its functions is one, in  *)
(* every reachable state.                                                  *)
(***************************************************************************)
THEOREM TableAlwaysTyped == Spec => []TypeOK
<1>1. IInv => TypeOK
  BY DEF IInv
<1> QED
  BY <1>1, TableInvariance, PTL

(***************************************************************************)
(* No symbol is ever lost, doubled or filed in a wrong chain, whatever the *)
(* hash function: not while rehash moves the symbols one by one, and not   *)
(* while symbol_table_clear frees them.                                    *)
(***************************************************************************)
THEOREM SymbolsAlwaysInTheirChains == Spec => []EachSymbolInItsChain
<1> QED
  BY ChainsOfInvariant, TableInvariance, PTL

(***************************************************************************)
(* The load is at most 3/4 between two calls, for any sizes of the array.  *)
(***************************************************************************)
THEOREM LoadAlwaysBounded == Spec => []LoadBounded
<1>1. IInv => LoadBounded
  BY DEF IInv, LoadKept
<1> QED
  BY <1>1, TableInvariance, PTL

(* symbol_table_clear frees every symbol, and no symbol twice. *)
THEOREM SymbolsFreedOnce == Spec => []FreedOnce
<1> QED
  BY FreedOfInvariant, TableInvariance, PTL

-----------------------------------------------------------------------------
(* The table implements the interner. *)

(* There are no more symbols than identifiers. *)
LEMMA SymbolsFew ==
  ASSUME NEW hp \in Seq([id : Names, next : Nat]),
         \A s, t \in DOMAIN hp : hp[s].id = hp[t].id => s = t
  PROVE  DOMAIN hp \subseteq 1..Cardinality(Names)
<1> DEFINE f == [s \in 1..Len(hp) |-> hp[s].id]
<1>1. DOMAIN hp = 1..Len(hp) /\ Len(hp) \in Nat
  BY LenProperties
<1>2. \A s \in 1..Len(hp) : hp[s].id \in Names
  <2>1. \A s \in 1..Len(hp) : hp[s] \in [id : Names, next : Nat]
    BY <1>1, ElementOfSeq
  <2> QED
    BY <2>1
<1>3. f \in Injection(1..Len(hp), Names)
  BY <1>1, <1>2 DEF Injection, IsInjective
<1>4. Cardinality(1..Len(hp)) <= Cardinality(Names)
  BY <1>3, TableAssumption, FS_Injection
<1>5. Cardinality(1..Len(hp)) = Len(hp)
  BY <1>1, FS_Interval
<1>6. Cardinality(Names) \in Nat
  BY TableAssumption, FS_CardinalityType
<1> QED
  BY <1>1, <1>4, <1>5, <1>6

(* The symbol that an identifier has been given is its symbol in the heap. *)
LEMMA SymbolGiven ==
  ASSUME IInv, NEW x \in Names
  PROVE  /\ \A h \in held : h.id = x => SymbolOf(x) = h.sym
         /\ (\A h \in held : h.id # x) => SymbolOf(x) = Null
         /\ SymbolOf(x) # Null =>
              SymbolOf(x) \in DOMAIN heap /\ heap[SymbolOf(x)].id = x
<1>1. \A h \in held : h.sym \in DOMAIN heap /\ heap[h.sym].id = h.id
  BY DEF IInv, TypeOK, HeldTrue
<1>2. \A g, h \in held : g.id = h.id => g.sym = h.sym
  BY <1>1 DEF IInv, OneSymbolEach
<1>3. CASE \E h \in held : h.id = x
  <2>1. PICK h \in held : h.id = x /\ SymbolOf(x) = h.sym
    BY <1>3 DEF SymbolOf
  <2> QED
    BY <1>1, <1>2, <2>1
<1>4. CASE \A h \in held : h.id # x
  BY <1>4 DEF SymbolOf
<1> QED
  BY <1>3, <1>4


(* An identifier that is given no symbol keeps what it has. *)
LEMMA NothingGiven ==
  ASSUME held' = held
  PROVE  UNCHANGED I!vars
BY DEF I!vars, SymbolOf

(***************************************************************************)
(* A call that returns symbol s gives it to the identifier: it had s       *)
(* before, or none, and then no other identifier has s.                    *)
(***************************************************************************)
LEMMA GivesSymbol ==
  ASSUME IInv, IInv', NEW x \in Names, x = id, NEW s, s \in DOMAIN heap',
         heap'[s].id = x,
         \A t \in DOMAIN heap : t \in DOMAIN heap' /\ heap'[t].id = heap[t].id,
         held' = held \cup {[id |-> x, sym |-> s]}
  PROVE  I!Intern(x)
<1>1. \A y \in Names :
        /\ \A h \in held : h.id = y => SymbolOf(y) = h.sym
        /\ (\A h \in held : h.id # y) => SymbolOf(y) = Null
        /\ SymbolOf(y) # Null =>
             SymbolOf(y) \in DOMAIN heap /\ heap[SymbolOf(y)].id = y
  BY SymbolGiven
<1>2. \A t, u \in DOMAIN heap' : heap'[t].id = heap'[u].id => t = u
  BY DEF IInv, OneSymbolEach
<1>3. s \in 1..Cardinality(Names)
  BY SymbolsFew DEF IInv, TypeOK, OneSymbolEach
<1>4. s # Null
  BY <1>3 DEF Null
<1>5. SymbolOf(x) = s \/ SymbolOf(x) = Null
  BY <1>1, <1>2
<1>6. SymbolOf(x) = Null => \A y \in Names : SymbolOf(y) # s
  BY <1>1, <1>4
<1>7. /\ SymbolOf(x)' = s
      /\ \A y \in Names : y # x => SymbolOf(y)' = SymbolOf(y)
  <2>1. \A h \in held : h.id = x => h.sym = s
    BY <1>2 DEF IInv, HeldTrue, TypeOK
  <2>2. SymbolOf(x)' = s
    <3>1. [id |-> x, sym |-> s] \in held' /\ [id |-> x, sym |-> s].id = x
      OBVIOUS
    <3>2. PICK k \in held' : k.id = x /\ SymbolOf(x)' = k.sym
      BY <3>1 DEF SymbolOf
    <3> QED
      BY <2>1, <3>2
  <2>3. ASSUME NEW y \in Names, y # x PROVE SymbolOf(y)' = SymbolOf(y)
    <3>1. \A h : h \in held' /\ h.id = y <=> h \in held /\ h.id = y
      BY <2>3
    <3>2. CASE \E h \in held : h.id = y
      <4>1. SymbolOf(y) = (CHOOSE h \in held : h.id = y).sym
        BY <3>2 DEF SymbolOf
      <4>2. PICK k \in held' : k.id = y /\ SymbolOf(y)' = k.sym
        BY <3>1, <3>2 DEF SymbolOf
      <4>3. k \in held
        BY <3>1, <4>2
      <4> QED
        BY <1>1, <4>2, <4>3
    <3>3. CASE \A h \in held : h.id # y
      BY <3>1, <3>3 DEF SymbolOf
    <3> QED
      BY <3>2, <3>3
  <2> QED
    BY <2>2, <2>3
<1>8. [y \in Names |-> SymbolOf(y)]'
        = [[y \in Names |-> SymbolOf(y)] EXCEPT ![x] = s]
  BY <1>7
<1> QED
  BY <1>3, <1>5, <1>6, <1>8 DEF I!Intern

(* No identifier has a symbol in the beginning. *)
LEMMA InternerInit == Init => I!Init
BY DEF Init, I!Init, SymbolOf

(* Each step of the table gives a symbol to an identifier, or none. *)
LEMMA InternerStep ==
  ASSUME IInv, IInv', [Next]_vars
  PROVE  [I!Next]_(I!vars)
<1>1. ASSUME id \in Names, NEW s, s \in DOMAIN heap', heap'[s].id = id,
             \A t \in DOMAIN heap : t \in DOMAIN heap' /\ heap'[t].id = heap[t].id,
             Return(s)
      PROVE  I!Next
  <2>1. PICK x \in Names : x = id
    BY <1>1
  <2>2. I!Intern(x)
    BY <1>1, <2>1, GivesSymbol DEF Return
  <2> QED
    BY <2>2 DEF I!Next
<1>2. CASE Found
  <2>1. /\ id \in Names /\ heap' = heap /\ heap[tmp].id = id /\ tmp # Null
        /\ TypeOK /\ tmp \in Pointers /\ Return(tmp)
    BY <1>2 DEF IInv, Ahead, Found, TypeOK, table
  <2>2. tmp \in DOMAIN heap
    BY <2>1, HeapLinked
  <2>3. PICK s : s = tmp
    OBVIOUS
  <2>4. Return(s)
    BY <2>1, <2>3 DEF Return
  <2> QED
    BY <1>1, <2>1, <2>2, <2>3, <2>4
<1>3. CASE RehashDone
  <2>1. id \in Names /\ heap' = heap /\ heap[sym].id = id /\ sym \in DOMAIN heap
    BY <1>3 DEF IInv, Adding, RehashDone
  <2>2. PICK s : s = sym
    OBVIOUS
  <2>3. Return(s)
    BY <1>3, <2>2 DEF RehashDone, Return
  <2> QED
    BY <1>1, <2>1, <2>2, <2>3
<1>4. CASE Add
  <2>1. /\ id \in Names /\ heap \in Seq([id : Names, next : Nat])
        /\ Len(heap) \in Nat /\ DOMAIN heap = 1..Len(heap)
    BY <1>4, HeapLinked DEF IInv, Ahead, Add, TypeOK
  <2>2. PICK q : heap' = Append(heap, [id |-> id, next |-> q])
    BY <1>4 DEF Add
  <2>3. PICK s : s = Len(heap) + 1
    OBVIOUS
  <2>4. /\ heap'[s].id = id /\ DOMAIN heap' = 1..s
        /\ \A t \in DOMAIN heap : heap'[t] = heap[t]
    BY <2>1, <2>2, <2>3
  <2>5. s \in DOMAIN heap' /\ DOMAIN heap \subseteq DOMAIN heap'
    BY <2>1, <2>3, <2>4
  <2>6. CASE held' = held
    BY <2>6, NothingGiven
  <2>7. CASE Return(Len(heap) + 1)
    <3>1. Return(s)
      BY <2>3, <2>7 DEF Return
    <3> QED
      BY <1>1, <2>1, <2>4, <2>5, <3>1
  <2> QED
    BY <1>4, <2>6, <2>7 DEF Add
<1>5. CASE held' = held
  BY <1>5, NothingGiven
<1> QED
  BY <1>2, <1>3, <1>4, <1>5
     DEF Next, Step, vars, table, Find, FindNext, RehashMove, RehashNext, Clear,
         ClearPop, ClearNext, ClearDone, Done

(***************************************************************************)
(* The table implements the interner, through every search, addition and   *)
(* rehash: an identifier is given one symbol for ever, and two identifiers *)
(* never the same.  Types and declarations are kept in symbols, and are    *)
(* found again by their address alone.                                     *)
(***************************************************************************)
THEOREM TableImplementsInterner == Spec => ImplementsInterner
<1>1. Init => I!Init
  BY InternerInit
<1>2. IInv /\ IInv' /\ [Next]_vars => [I!Next]_(I!vars)
  BY InternerStep
<1> QED
  BY <1>1, <1>2, TableInvariance, PTL DEF Spec, ImplementsInterner, I!Spec

=============================================================================
