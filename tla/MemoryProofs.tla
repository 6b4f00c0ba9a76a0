---------------------------- MODULE MemoryProofs --------------------------
(***************************************************************************)
(* Proofs about the pool of memory blocks, for any number of blocks and of *)
(* arrays: its lists never share a block, and it implements ByteArrays.    *)
(***************************************************************************)
EXTENDS Memory, FiniteSetTheorems, WellFoundedInduction, SequenceTheorems, TLAPS

(* A set of numbers has a least one.  Used at the first place where two    *)
(* functions differ, it takes the place of induction.                      *)
LEMMA Least ==
  ASSUME NEW T, T \subseteq Nat, T # {}
  PROVE  \E x \in T : \A y \in T : x <= y
<1>1. IsWellFoundedOn(OpToRel(<, Nat), Nat)
  BY NatLessThanWellFounded
<1>2. PICK x \in T : \A y \in T : ~(<<y, x>> \in OpToRel(<, Nat))
  BY <1>1, WFMin
<1>3. \A y \in T : ~(y < x)
  BY <1>2 DEF OpToRel
<1> QED
  BY <1>3

-----------------------------------------------------------------------------
(* The sequence c holds the blocks of the list that starts at b, when the  *)
(* blocks are linked so.                                                   *)
IsList(links, b, c) ==
  /\ c \in Seq(Blocks)
  /\ \A i, j \in 1 .. Len(c) : c[i] = c[j] => i = j
  /\ b = IF Len(c) = 0 THEN NULL ELSE c[1]
  /\ \A i \in 1 .. Len(c) : links[c[i]] = IF i = Len(c) THEN NULL ELSE c[i + 1]

LEMMA ListLength ==
  ASSUME NEW links, NEW b, NEW c, IsList(links, b, c)
  PROVE  Len(c) \in 0 .. MAX_BLOCKS
<1>1. Len(c) \in Nat /\ c \in [1 .. Len(c) -> Blocks]
  BY LenProperties DEF IsList
<1>2. c \in Injection(1 .. Len(c), Blocks)
  BY <1>1 DEF IsList, Injection, IsInjective
<1>3. ASSUME NEW n \in Nat PROVE IsFiniteSet(1 .. n) /\ Cardinality(1 .. n) = n
  <2>1. 1 \in Int /\ n \in Int
    OBVIOUS
  <2>2. IsFiniteSet(1 .. n) /\ Cardinality(1 .. n) = IF 1 > n THEN 0 ELSE n - 1 + 1
    BY <2>1, FS_Interval
  <2> QED
    BY <2>2
<1>4. /\ IsFiniteSet(Blocks) /\ Cardinality(Blocks) = MAX_BLOCKS
      /\ Cardinality(1 .. Len(c)) = Len(c)
  BY <1>1, <1>3, MemoryAssumption DEF Blocks
<1>5. Cardinality(1 .. Len(c)) <= Cardinality(Blocks)
  BY <1>2, <1>4, FS_Injection
<1> QED
  BY <1>1, <1>4, <1>5, MemoryAssumption

(* Walk, Chain and Content for any links.                                  *)
WalkIn(links, b) ==
  LET at[n \in 0 .. MAX_BLOCKS] ==
        IF n = 0 THEN b
        ELSE LET before == at[n - 1] IN IF before = NULL THEN NULL ELSE links[before]
  IN at

ChainIn(links, b) ==
  LET at == WalkIn(links, b)
      ends == {n \in DOMAIN at : at[n] = NULL}
      length == IF ends = {} THEN MAX_BLOCKS ELSE Cardinality((DOMAIN at) \ ends)
  IN [i \in 1 .. length |-> at[i - 1]]

ContentIn(links, bytes, a) == [i \in 1 .. a.size |-> bytes[WalkIn(links, a.head)[i - 1]]]

LEMMA SameWalk == \A b : Walk(b) = WalkIn(next, b) /\ Chain(b) = ChainIn(next, b)
<1>1. \A b : Walk(b) = WalkIn(next, b)
  BY DEF Walk, WalkIn
<1> QED
  BY <1>1 DEF Chain, ChainIn

LEMMA SameState ==
  /\ Available = Len(ChainIn(next, free_data))
  /\ Available' = Len(ChainIn(next', free_data'))
  /\ Contents = [h \in Handles |-> ContentIn(next, block, array[h])]
  /\ Contents' = [h \in Handles |-> ContentIn(next', block', array'[h])]
<1>1. Available = Len(ChainIn(next, free_data))
  BY DEF Available, Chain, Walk, ChainIn, WalkIn
<1>2. Available' = Len(ChainIn(next', free_data'))
  BY DEF Available, Chain, Walk, ChainIn, WalkIn
<1>3. Contents = [h \in Handles |-> ContentIn(next, block, array[h])]
  BY DEF Contents, Content, ContentIn, Walk, WalkIn
<1>4. Contents' = [h \in Handles |-> ContentIn(next', block', array'[h])]
  BY DEF Contents, Content, ContentIn, Walk, WalkIn
<1> QED
  BY <1>1, <1>2, <1>3, <1>4

(* The walk along a list meets its blocks, then NULL: any function that    *)
(* satisfies the definition of the walk is the one that does so.           *)
Steps(c) == [n \in 0 .. MAX_BLOCKS |-> IF n < Len(c) THEN c[n + 1] ELSE NULL]

LEMMA WalkIs ==
  ASSUME NEW links, NEW b, NEW c, IsList(links, b, c)
  PROVE  WalkIn(links, b) = Steps(c)
<1> DEFINE Body(at) == [n \in 0 .. MAX_BLOCKS |->
             IF n = 0 THEN b ELSE IF at[n - 1] = NULL THEN NULL ELSE links[at[n - 1]]]
           P(at) == at = Body(at)
<1>1. /\ MAX_BLOCKS \in Nat /\ Len(c) \in 0 .. MAX_BLOCKS /\ NULL = 0
      /\ \A i \in 1 .. Len(c) : c[i] \in Blocks /\ c[i] # NULL
  <2>1. \A i \in 1 .. Len(c) : c[i] \in Blocks
    BY ElementOfSeq DEF IsList
  <2> QED
    BY <2>1, ListLength, MemoryAssumption DEF Blocks, NULL
<1>2. P(Steps(c))
  <2>1. ASSUME NEW n \in 0 .. MAX_BLOCKS PROVE Steps(c)[n] = Body(Steps(c))[n]
    <3>1. CASE n = 0
      BY <1>1, <2>1, <3>1 DEF IsList, Steps
    <3>2. CASE n # 0 /\ n <= Len(c)
      <4>1. /\ Steps(c)[n - 1] = c[n] /\ c[n] # NULL
            /\ links[c[n]] = IF n = Len(c) THEN NULL ELSE c[n + 1]
        BY <1>1, <2>1, <3>2 DEF IsList, Steps
      <4>2. Steps(c)[n] = IF n = Len(c) THEN NULL ELSE c[n + 1]
        BY <1>1, <2>1, <3>2 DEF Steps
      <4> QED
        BY <2>1, <3>2, <4>1, <4>2
    <3>3. CASE n # 0 /\ n > Len(c)
      <4>1. Steps(c)[n - 1] = NULL /\ Steps(c)[n] = NULL
        BY <1>1, <2>1, <3>3 DEF Steps
      <4> QED
        BY <2>1, <3>3, <4>1
    <3> QED
      BY <1>1, <3>1, <3>2, <3>3
  <2> QED
    BY <2>1 DEF Steps
<1>3. WalkIn(links, b) = CHOOSE at : P(at)
  BY DEF WalkIn
<1>4. P(WalkIn(links, b))
  <2> HIDE DEF P
  <2> QED
    BY <1>2, <1>3, Zenon
<1> DEFINE w == WalkIn(links, b)
<1>5. w = Body(w)
  BY <1>4
<1> HIDE DEF w
<1>6. /\ w[0] = b
      /\ \A n \in 1 .. MAX_BLOCKS :
           w[n] = IF w[n - 1] = NULL THEN NULL ELSE links[w[n - 1]]
  BY <1>1, <1>5
<1>7. /\ Steps(c)[0] = b
      /\ \A n \in 1 .. MAX_BLOCKS :
           Steps(c)[n] = IF Steps(c)[n - 1] = NULL THEN NULL ELSE links[Steps(c)[n - 1]]
  BY <1>1, <1>2
<1> DEFINE differ == {n \in 0 .. MAX_BLOCKS : w[n] # Steps(c)[n]}
<1>8. differ = {}
  <2>1. SUFFICES ASSUME differ # {} PROVE FALSE
    OBVIOUS
  <2>2. PICK n \in differ : \A m \in differ : n <= m
    <3>1. differ \subseteq Nat
      BY <1>1
    <3> HIDE DEF differ
    <3> QED
      BY <2>1, <3>1, Least
  <2>3. n # 0
    BY <1>6, <1>7
  <2>4. n - 1 \in 0 .. MAX_BLOCKS /\ n - 1 \notin differ /\ n \in 1 .. MAX_BLOCKS
    BY <1>1, <2>2, <2>3
  <2>5. w[n - 1] = Steps(c)[n - 1]
    BY <2>4
  <2> QED
    BY <1>6, <1>7, <2>4, <2>5
<1>9. w = Steps(c)
  BY <1>5, <1>8 DEF Steps
<1> QED
  BY <1>9 DEF w

LEMMA ChainIs ==
  ASSUME NEW links, NEW b, NEW c, IsList(links, b, c)
  PROVE  ChainIn(links, b) = c
<1> DEFINE at == Steps(c)
           ends == {n \in DOMAIN at : at[n] = NULL}
<1>1. /\ MAX_BLOCKS \in Nat /\ Len(c) \in 0 .. MAX_BLOCKS /\ NULL = 0
      /\ c \in Seq(Blocks) /\ c \in [1 .. Len(c) -> Blocks]
      /\ \A i \in 1 .. Len(c) : c[i] # NULL
  <2>1. c \in Seq(Blocks) /\ c \in [1 .. Len(c) -> Blocks]
    BY LenProperties DEF IsList
  <2> QED
    BY <2>1, ListLength, MemoryAssumption DEF Blocks, NULL
<1>2. DOMAIN at = 0 .. MAX_BLOCKS
  BY DEF Steps
<1>3. MAX_BLOCKS \in ends
  BY <1>1, <1>2 DEF Steps
<1>4. (DOMAIN at) \ ends = 0 .. Len(c) - 1
  BY <1>1, <1>2 DEF Steps
<1>5. Cardinality(0 .. Len(c) - 1) = Len(c)
  <2>1. 0 \in Int /\ Len(c) - 1 \in Int
    BY <1>1
  <2>2. Cardinality(0 .. Len(c) - 1) = IF 0 > Len(c) - 1 THEN 0 ELSE (Len(c) - 1) - 0 + 1
    BY <2>1, FS_Interval
  <2> QED
    BY <1>1, <2>2
<1>6. \A i \in 1 .. Len(c) : at[i - 1] = c[i]
  BY <1>1 DEF Steps
<1>7. [i \in 1 .. Len(c) |-> at[i - 1]] = c
  BY <1>1, <1>6
<1>8. WalkIn(links, b) = at
  BY WalkIs
<1> HIDE DEF at
<1> QED
  BY <1>3, <1>4, <1>5, <1>7, <1>8 DEF ChainIn

-----------------------------------------------------------------------------
(* The pool: f is the list of free blocks, c[h] that of array h; they have *)
(* no block in common.                                                     *)
Lists(links, free, arrays, f, c) ==
  /\ IsList(links, free, f)
  /\ \A h \in Handles : IsList(links, arrays[h].head, c[h]) /\ Len(c[h]) = arrays[h].size
  /\ \A h \in Handles : \A i \in 1 .. Len(c[h]), j \in 1 .. Len(f) : c[h][i] # f[j]
  /\ \A g, h \in Handles : g # h =>
       \A i \in 1 .. Len(c[g]), j \in 1 .. Len(c[h]) : c[g][i] # c[h][j]

PoolTypeOK ==
  /\ next \in [Blocks -> Blocks \cup {NULL}]
  /\ block \in [Blocks -> Bytes]
  /\ free_data \in Blocks \cup {NULL}
  /\ array \in [Handles -> [head : Blocks \cup {NULL}, size : Nat]]

PoolInv ==
  /\ PoolTypeOK
  /\ \E f : \E c \in [Handles -> Seq(Blocks)] : Lists(next, free_data, array, f, c)

LEMMA ListFacts ==
  ASSUME NEW links, NEW b, NEW c, IsList(links, b, c)
  PROVE  /\ Len(c) \in Nat /\ Len(c) <= MAX_BLOCKS
         /\ c \in Seq(Blocks) /\ DOMAIN c = 1 .. Len(c)
         /\ \A i \in 1 .. Len(c) : c[i] \in Blocks
<1>1. Len(c) \in Nat /\ Len(c) <= MAX_BLOCKS
  BY ListLength, MemoryAssumption
<1>2. c \in Seq(Blocks)
  BY DEF IsList
<1>3. DOMAIN c = 1 .. Len(c) /\ \A i \in 1 .. Len(c) : c[i] \in Blocks
  BY <1>2, LenProperties, ElementOfSeq
<1> QED
  BY <1>1, <1>2, <1>3

(* What the abstraction shows of it.                                       *)
LEMMA ContentIs ==
  ASSUME NEW links, NEW bytes, NEW a, NEW c, IsList(links, a.head, c), Len(c) = a.size
  PROVE  ContentIn(links, bytes, a) = [i \in 1 .. Len(c) |-> bytes[c[i]]]
<1>1. \A i \in 1 .. Len(c) : WalkIn(links, a.head)[i - 1] = c[i]
  <2>1. WalkIn(links, a.head) = Steps(c) /\ Len(c) \in Nat /\ Len(c) <= MAX_BLOCKS
    BY WalkIs, ListFacts
  <2> QED
    BY <2>1, MemoryAssumption DEF Steps
<1> QED
  BY <1>1 DEF ContentIn

LEMMA View ==
  ASSUME NEW f, NEW c, Lists(next, free_data, array, f, c)
  PROVE  /\ Available = Len(f) /\ Chain(free_data) = f
         /\ Contents = [h \in Handles |-> [i \in 1 .. Len(c[h]) |-> block[c[h][i]]]]
         /\ \A h \in Handles :
              Chain(array[h].head) = c[h] /\ Walk(array[h].head) = Steps(c[h])
<1>1. Available = Len(f) /\ Chain(free_data) = f
  <2>1. IsList(next, free_data, f)
    BY DEF Lists
  <2>2. ChainIn(next, free_data) = f
    BY <2>1, ChainIs
  <2> QED
    BY <2>2, SameState, SameWalk
<1>2. ASSUME NEW h \in Handles
      PROVE  /\ Chain(array[h].head) = c[h] /\ Walk(array[h].head) = Steps(c[h])
             /\ ContentIn(next, block, array[h]) = [i \in 1 .. Len(c[h]) |-> block[c[h][i]]]
  <2>1. IsList(next, array[h].head, c[h]) /\ Len(c[h]) = array[h].size
    BY DEF Lists
  <2>2. ChainIn(next, array[h].head) = c[h] /\ WalkIn(next, array[h].head) = Steps(c[h])
    <3>1. ChainIn(next, array[h].head) = c[h]
      BY <2>1, ChainIs
    <3>2. WalkIn(next, array[h].head) = Steps(c[h])
      BY <2>1, WalkIs
    <3> QED
      BY <3>1, <3>2
  <2>3. ContentIn(next, block, array[h]) = [i \in 1 .. Len(c[h]) |-> block[c[h][i]]]
    BY <2>1, ContentIs, SMTT(30)
  <2> QED
    BY <2>2, <2>3, SameWalk
<1> QED
  BY <1>1, <1>2, SameState

LEMMA ViewAfter ==
  ASSUME NEW f, NEW c, Lists(next', free_data', array', f, c)
  PROVE  /\ Available' = Len(f)
         /\ Contents' = [h \in Handles |-> [i \in 1 .. Len(c[h]) |-> block'[c[h][i]]]]
<1>1. Available' = Len(f)
  BY SameState, ChainIs DEF Lists
<1>2. ASSUME NEW h \in Handles
      PROVE  ContentIn(next', block', array'[h]) = [i \in 1 .. Len(c[h]) |-> block'[c[h][i]]]
  <2>1. IsList(next', array'[h].head, c[h]) /\ Len(c[h]) = array'[h].size
    BY DEF Lists
  <2> QED
    BY <2>1, ContentIs
<1> QED
  BY <1>1, <1>2, SameState

-----------------------------------------------------------------------------
LEMMA SeqOf ==
  ASSUME NEW S, NEW n \in Nat, NEW g \in [1 .. n -> S]
  PROVE  g \in Seq(S) /\ Len(g) = n
<1>1. g \in Seq(S)
  BY SeqDef
<1>2. DOMAIN g = 1 .. n /\ DOMAIN g = 1 .. Len(g) /\ Len(g) \in Nat
  BY <1>1, LenProperties
<1> QED
  BY <1>1, <1>2

LEMMA NoList == ASSUME NEW links PROVE IsList(links, NULL, <<>>)
<1>1. <<>> \in Seq(Blocks) /\ Len(<<>>) = 0
  BY EmptySeq
<1> QED
  BY <1>1 DEF IsList

LEMMA InitPool == Init => PoolInv
<1> SUFFICES ASSUME Init PROVE PoolInv
  OBVIOUS
<1> USE MemoryAssumption
<1> DEFINE f == [i \in 1 .. MAX_BLOCKS |-> i]
           c == [h \in Handles |-> <<>>]
<1>1. PoolTypeOK
  BY DEF Init, PoolTypeOK, Freed, Blocks, NULL
<1>2. f \in Seq(Blocks) /\ Len(f) = MAX_BLOCKS
  <2>1. f \in [1 .. MAX_BLOCKS -> Blocks]
    BY DEF Blocks
  <2> HIDE DEF f
  <2> QED
    BY <2>1, SeqOf
<1>3. IsList(next, free_data, f)
  BY <1>2 DEF Init, IsList, Blocks
<1>4. \A h \in Handles : IsList(next, array[h].head, c[h]) /\ Len(c[h]) = array[h].size
  BY NoList, EmptySeq DEF Init, Freed
<1>5. \A h \in Handles : 1 .. Len(c[h]) = {}
  BY EmptySeq
<1>6. c \in [Handles -> Seq(Blocks)]
  BY EmptySeq
<1> HIDE DEF f, c
<1>7. Lists(next, free_data, array, f, c)
  BY <1>3, <1>4, <1>5 DEF Lists
<1> QED
  BY <1>1, <1>6, <1>7 DEF PoolInv

(* Lists that have no block whose link has changed stay what they were.    *)
LEMMA ListKept ==
  ASSUME NEW links, NEW after, NEW b, NEW c, IsList(links, b, c),
         \A i \in 1 .. Len(c) : after[c[i]] = links[c[i]]
  PROVE  IsList(after, b, c)
BY DEF IsList

(* create_array takes the first blocks of the free list.                   *)
FirstBlocks(f, size) == {f[i] : i \in 1 .. size}

Split(f, size, taken, rest) ==
  /\ Len(rest) = Len(f) - size /\ Len(taken) = size
  /\ \A i \in 1 .. size : taken[i] = f[i]

LEMMA CreateLists ==
  ASSUME PoolTypeOK, NEW f, NEW c \in [Handles -> Seq(Blocks)],
         Lists(next, free_data, array, f, c),
         NEW h \in Handles, NEW size \in 1 .. MAX_BLOCKS, CreateArray(h, size)
  PROVE  /\ size <= Len(f)
         /\ \E rest, taken \in Seq(Blocks) :
              /\ Split(f, size, taken, rest)
              /\ Lists(next', free_data', array', rest, [c EXCEPT ![h] = taken])
         /\ \A b \in Blocks : block'[b] = IF b \in FirstBlocks(f, size) THEN 0 ELSE block[b]
         /\ PoolTypeOK' /\ got' = got
<1> USE MemoryAssumption
<1> DEFINE taken == SubSeq(f, 1, size)
           rest == [i \in 1 .. Len(f) - size |-> f[i + size]]
           new == FirstBlocks(f, size)
<1>1. /\ IsList(next, free_data, f) /\ Len(f) \in Nat /\ f \in Seq(Blocks)
      /\ \A i \in 1 .. Len(f) : f[i] \in Blocks
      /\ \A i, j \in 1 .. Len(f) : f[i] = f[j] => i = j
      /\ \A i \in 1 .. Len(f) : next[f[i]] = IF i = Len(f) THEN NULL ELSE f[i + 1]
  BY ListFacts DEF Lists, IsList
<1>2. size <= Len(f) /\ size \in Nat /\ size > 0
  BY View DEF CreateArray
<1>3. /\ taken \in Seq(Blocks) /\ Len(taken) = size
      /\ \A i \in 1 .. size : taken[i] = f[i]
      /\ DOMAIN taken = 1 .. size
  <2>1. 1 \in 1 .. Len(f) + 1 /\ size \in 1 - 1 .. Len(f)
    BY <1>1, <1>2
  <2>2. /\ taken \in Seq(Blocks) /\ Len(taken) = size - 1 + 1
        /\ \A i \in 1 .. size - 1 + 1 : taken[i] = f[1 + i - 1]
    BY <1>1, <2>1, SubSeqProperties
  <2>3. size - 1 + 1 = size /\ \A i \in 1 .. size : 1 + i - 1 = i
    BY <1>2
  <2> HIDE DEF taken
  <2>4. DOMAIN taken = 1 .. Len(taken)
    BY <2>2, LenProperties
  <2> QED
    BY <2>2, <2>3, <2>4
<1>4. /\ rest \in Seq(Blocks) /\ Len(rest) = Len(f) - size
      /\ \A i \in 1 .. Len(f) - size : rest[i] = f[i + size] /\ i + size \in 1 .. Len(f)
  <2>1. /\ rest \in [1 .. Len(f) - size -> Blocks] /\ Len(f) - size \in Nat
        /\ \A i \in 1 .. Len(f) - size : rest[i] = f[i + size] /\ i + size \in 1 .. Len(f)
    BY <1>1, <1>2
  <2> HIDE DEF rest
  <2> QED
    BY <2>1, SeqOf
<1> HIDE DEF rest
<1>5. /\ free_data' = next[f[size]]
      /\ next' = [b \in Blocks |-> IF b \in new THEN (IF b = f[size] THEN NULL ELSE next[b])
                                  ELSE next[b]]
      /\ block' = [b \in Blocks |-> IF b \in new THEN 0 ELSE block[b]]
      /\ array' = [array EXCEPT ![h] = [head |-> f[1], size |-> size]]
      /\ got' = got
  <2>1. Chain(free_data) = f
    BY View
  <2>2. {taken[i] : i \in DOMAIN taken} = new
    BY <1>3 DEF FirstBlocks
  <2>3. taken[1] = f[1] /\ taken[size] = f[size] /\ taken[Len(taken)] = f[size]
    BY <1>2, <1>3
  <2> HIDE DEF new
  <2> QED
    BY <2>1, <2>2, <2>3 DEF CreateArray, Linked
<1>6. /\ \A i \in 1 .. Len(f) : f[i] \in new <=> i <= size
      /\ \A b \in Blocks \ new : next'[b] = next[b]
  <2>1. \A i \in 1 .. Len(f) : f[i] \in new <=> i <= size
    BY <1>1, <1>2 DEF FirstBlocks
  <2> QED
    BY <1>5, <2>1
<1>a. Len(f) \in Nat /\ size \in Nat /\ size > 0 /\ size <= Len(f)
  BY <1>1, <1>2
<1>7. IsList(next', free_data', rest)
  <2>1. \A i \in 1 .. Len(rest) : /\ rest[i] = f[i + size] /\ i + size \in 1 .. Len(f)
                                 /\ next'[rest[i]] = next[f[i + size]]
    <3>1. \A i \in 1 .. Len(rest) :
            rest[i] = f[i + size] /\ i + size \in 1 .. Len(f) /\ ~(i + size <= size)
      BY <1>1, <1>2, <1>4
    <3> HIDE DEF new
    <3>2. \A i \in 1 .. Len(rest) : f[i + size] \in Blocks \ new
      BY <1>1, <1>6, <3>1
    <3> QED
      BY <1>6, <3>1, <3>2
  <2>2. ASSUME NEW i \in 1 .. Len(rest), NEW j \in 1 .. Len(rest), rest[i] = rest[j]
        PROVE  i = j
    <3>1. f[i + size] = f[j + size]
      BY <2>1, <2>2
    <3>2. i + size = j + size
      BY <1>1, <2>1, <3>1
    <3> QED
      BY <1>2, <3>2
  <2>3. free_data' = IF Len(rest) = 0 THEN NULL ELSE rest[1]
    <3>1. free_data' = IF size = Len(f) THEN NULL ELSE f[size + 1]
      BY <1>1, <1>2, <1>5
    <3>2. /\ Len(rest) = 0 <=> size = Len(f)
          /\ size # Len(f) => 1 \in 1 .. Len(rest) /\ 1 + size = size + 1
      BY <1>a, <1>4
    <3>3. size # Len(f) => rest[1] = f[1 + size]
      BY <2>1, <3>2
    <3> QED
      BY <3>1, <3>2, <3>3
  <2>4. Len(rest) = Len(f) - size
    BY <1>4
  <2>5. ASSUME NEW i \in 1 .. Len(rest)
        PROVE  next'[rest[i]] = IF i = Len(rest) THEN NULL ELSE rest[i + 1]
    <3>1. /\ i = Len(rest) <=> i + size = Len(f)
          /\ i # Len(rest) => i + 1 \in 1 .. Len(rest) /\ (i + 1) + size = (i + size) + 1
      <4>1. i \in Nat /\ i >= 1 /\ i <= Len(f) - size /\ Len(rest) = Len(f) - size
        BY <1>a, <2>5, <2>4
      <4>2. i = Len(rest) <=> i + size = Len(f)
        BY <1>a, <4>1
      <4>3. i # Len(rest) => i + 1 \in 1 .. Len(rest)
        <5>1. Len(rest) \in Nat /\ i <= Len(rest)
          BY <1>a, <4>1
        <5> QED
          BY <4>1, <5>1
      <4>4. (i + 1) + size = (i + size) + 1
        BY <1>a, <4>1
      <4> QED
        BY <4>2, <4>3, <4>4
    <3>2. i # Len(rest) => rest[i + 1] = f[(i + size) + 1]
      BY <2>1, <3>1
    <3> QED
      BY <1>1, <2>1, <2>5, <3>1, <3>2
  <2> QED
    BY <1>4, <2>2, <2>3, <2>5 DEF IsList
<1>8. IsList(next', array'[h].head, taken) /\ Len(taken) = array'[h].size
  <2>1. array'[h].head = f[1] /\ array'[h].size = size
    BY <1>5 DEF PoolTypeOK
  <2>2. \A i \in 1 .. size : i \in 1 .. Len(f)
    BY <1>1, <1>2
  <2>3. \A i \in 1 .. size : next'[f[i]] = IF i = size THEN NULL ELSE f[i + 1]
    BY <1>1, <1>2, <1>5, <1>6, <2>2
  <2>4. \A i \in 1 .. size : i # size => i + 1 \in 1 .. size
    BY <1>2
  <2>5. \A i \in 1 .. size : next'[taken[i]] = IF i = size THEN NULL ELSE taken[i + 1]
    BY <1>3, <2>3, <2>4
  <2>6. \A i, j \in 1 .. size : taken[i] = taken[j] => i = j
    BY <1>1, <1>3, <2>2
  <2>7. taken[1] = f[1] /\ size # 0
    BY <1>2, <1>3
  <2> HIDE DEF taken
  <2> QED
    BY <1>3, <2>1, <2>5, <2>6, <2>7 DEF IsList
<1>9. ASSUME NEW g \in Handles, g # h
      PROVE  /\ IsList(next', array'[g].head, c[g]) /\ Len(c[g]) = array'[g].size
             /\ \A i \in 1 .. Len(c[g]) : \A j \in 1 .. Len(rest) : c[g][i] # rest[j]
             /\ \A i \in 1 .. Len(c[g]) : \A j \in 1 .. size : c[g][i] # taken[j]
  <2>1. /\ IsList(next, array[g].head, c[g]) /\ Len(c[g]) = array[g].size
        /\ \A i \in 1 .. Len(c[g]) : c[g][i] \in Blocks
        /\ \A i \in 1 .. Len(c[g]) : \A j \in 1 .. Len(f) : c[g][i] # f[j]
    BY ListFacts DEF Lists
  <2>2. \A i \in 1 .. Len(c[g]) : c[g][i] \notin new
    BY <1>1, <1>2, <2>1 DEF FirstBlocks
  <2>3. array'[g] = array[g]
    BY <1>5, <1>9 DEF PoolTypeOK
  <2>4. IsList(next', array[g].head, c[g])
    BY <1>6, <2>1, <2>2, ListKept
  <2>5. \A j \in 1 .. Len(rest) : rest[j] = f[j + size] /\ j + size \in 1 .. Len(f)
    BY <1>4
  <2>6. \A j \in 1 .. size : j \in 1 .. Len(f)
    BY <1>a
  <2>7. \A i \in 1 .. Len(c[g]) : \A j \in 1 .. Len(rest) : c[g][i] # rest[j]
    BY <2>1, <2>5
  <2>8. \A i \in 1 .. Len(c[g]) : \A j \in 1 .. size : c[g][i] # taken[j]
    BY <1>3, <2>1, <2>6
  <2> QED
    BY <2>1, <2>3, <2>4, <2>7, <2>8
<1>10. \A i \in 1 .. size : \A j \in 1 .. Len(rest) : taken[i] # rest[j]
  <2>1. \A j \in 1 .. Len(rest) :
          rest[j] = f[j + size] /\ j + size \in 1 .. Len(f) /\ j + size > size
    BY <1>1, <1>2, <1>4
  <2>2. \A i \in 1 .. size : taken[i] = f[i] /\ i \in 1 .. Len(f) /\ i <= size
    BY <1>1, <1>2, <1>3
  <2> QED
    BY <1>1, <1>2, <2>1, <2>2
<1> DEFINE d == [c EXCEPT ![h] = taken]
<1>11. d[h] = taken /\ \A g \in Handles : g # h => d[g] = c[g]
  OBVIOUS
<1>12. Lists(next', free_data', array', rest, d)
  <2> HIDE DEF rest, taken, d
  <2>1. \A g \in Handles : IsList(next', array'[g].head, d[g]) /\ Len(d[g]) = array'[g].size
    BY <1>8, <1>9, <1>11
  <2>2. \A g \in Handles : \A i \in 1 .. Len(d[g]), j \in 1 .. Len(rest) : d[g][i] # rest[j]
    BY <1>3, <1>9, <1>10, <1>11
  <2>3. ASSUME NEW g \in Handles, NEW k \in Handles, g # k,
               NEW i \in 1 .. Len(d[g]), NEW j \in 1 .. Len(d[k])
        PROVE  d[g][i] # d[k][j]
    <3>1. CASE g # h /\ k # h
      BY <1>11, <2>3, <3>1 DEF Lists
    <3>2. CASE g = h
      BY <1>3, <1>9, <1>11, <2>3, <3>2
    <3>3. CASE k = h
      BY <1>3, <1>9, <1>11, <2>3, <3>3
    <3> QED
      BY <3>1, <3>2, <3>3
  <2> QED
    BY <1>7, <2>1, <2>2, <2>3 DEF Lists
<1>13. PoolTypeOK'
  <2>1. f[1] \in Blocks /\ f[size] \in Blocks
    BY <1>1, <1>2
  <2> HIDE DEF new
  <2> QED
    BY <1>2, <1>5, <2>1 DEF PoolTypeOK
<1>14. Split(f, size, taken, rest)
  BY <1>3, <1>4 DEF Split
<1> HIDE DEF taken, rest
<1> QED
  BY <1>2, <1>3, <1>4, <1>5, <1>12, <1>13, <1>14

(* free_array puts the blocks of the array, last one first, before those   *)
(* of the free list.                                                       *)
LEMMA FreeLists ==
  ASSUME PoolTypeOK, NEW f, NEW c \in [Handles -> Seq(Blocks)],
         Lists(next, free_data, array, f, c),
         NEW h \in Handles, FreeArray(h)
  PROVE  /\ Len(c[h]) > 0
         /\ \E more \in Seq(Blocks) :
              /\ Len(more) = Len(f) + Len(c[h])
              /\ Lists(next', free_data', array', more, [c EXCEPT ![h] = <<>>])
         /\ PoolTypeOK' /\ block' = block /\ got' = got
<1> USE MemoryAssumption
<1> DEFINE t == c[h]
           n == Len(t)
           N == Len(f)
           place == [b \in Members(array[h].head) |-> CHOOSE i \in DOMAIN t : t[i] = b]
           more == [i \in 1 .. n + N |-> IF i <= n THEN t[n + 1 - i] ELSE f[i - n]]
<1>1. /\ IsList(next, free_data, f) /\ N \in Nat /\ f \in Seq(Blocks)
      /\ \A i \in 1 .. N : f[i] \in Blocks
      /\ \A i, j \in 1 .. N : f[i] = f[j] => i = j
      /\ \A i \in 1 .. N : next[f[i]] = IF i = N THEN NULL ELSE f[i + 1]
      /\ free_data = IF N = 0 THEN NULL ELSE f[1]
  <2>1. IsList(next, free_data, f)
    BY DEF Lists
  <2>2. N \in Nat /\ f \in Seq(Blocks) /\ \A i \in 1 .. N : f[i] \in Blocks
    BY <2>1, ListFacts
  <2> QED
    BY <2>1, <2>2 DEF IsList
<1>2. /\ IsList(next, array[h].head, t) /\ n = array[h].size /\ n \in Nat
      /\ t \in Seq(Blocks) /\ DOMAIN t = 1 .. n
      /\ \A i \in 1 .. n : t[i] \in Blocks
      /\ \A i, j \in 1 .. n : t[i] = t[j] => i = j
      /\ \A i \in 1 .. n, j \in 1 .. N : t[i] # f[j]
  <2>1. /\ IsList(next, array[h].head, t) /\ n = array[h].size
        /\ \A i \in 1 .. n, j \in 1 .. N : t[i] # f[j]
    BY DEF Lists
  <2>2. \A i, j \in 1 .. n : t[i] = t[j] => i = j
    BY <2>1 DEF IsList
  <2> HIDE DEF t, n
  <2>3. Len(t) \in Nat /\ t \in Seq(Blocks) /\ DOMAIN t = 1 .. Len(t)
        /\ \A i \in 1 .. Len(t) : t[i] \in Blocks
    BY <2>1, ListFacts
  <2> QED
    BY <2>1, <2>2, <2>3 DEF n
<1>3. n > 0
  BY <1>2 DEF FreeArray
<1>4. Chain(array[h].head) = t
  BY View
<1>5. Members(array[h].head) = {t[i] : i \in 1 .. n}
  BY <1>2, <1>4 DEF Members
<1>6. /\ next' = [b \in Blocks |-> IF b \notin DOMAIN place THEN next[b]
                                  ELSE IF place[b] = 1 THEN free_data
                                  ELSE t[place[b] - 1]]
      /\ free_data' = t[n]
      /\ array' = [array EXCEPT ![h] = Freed]
      /\ block' = block /\ got' = got
  BY <1>4 DEF FreeArray
<1>7. DOMAIN place = {t[i] : i \in 1 .. n}
  BY <1>5
<1>8. \A i \in 1 .. n : place[t[i]] = i
  <2>1. ASSUME NEW i \in 1 .. n PROVE place[t[i]] = i
    <3>1. place[t[i]] = CHOOSE j \in 1 .. n : t[j] = t[i]
      BY <1>2, <1>5, <2>1
    <3> QED
      BY <1>2, <2>1, <3>1
  <2> QED
    BY <2>1
<1> HIDE DEF place
<1>9. /\ \A b \in Blocks : b \notin {t[i] : i \in 1 .. n} => next'[b] = next[b]
      /\ \A i \in 1 .. n : next'[t[i]] = IF i = 1 THEN free_data ELSE t[i - 1]
  <2>1. \A b \in Blocks : b \notin {t[i] : i \in 1 .. n} => next'[b] = next[b]
    BY <1>6, <1>7
  <2>2. ASSUME NEW i \in 1 .. n PROVE next'[t[i]] = IF i = 1 THEN free_data ELSE t[i - 1]
    <3>1. t[i] \in Blocks /\ t[i] \in DOMAIN place /\ place[t[i]] = i
      BY <1>2, <1>7, <1>8, <2>2
    <3> HIDE DEF t
    <3> QED
      BY <1>6, <3>1
  <2> QED
    BY <2>1, <2>2
<1> HIDE DEF t, n, N
<1>a. n \in Nat /\ N \in Nat
  BY <1>1, <1>2
<1>10. /\ more \in Seq(Blocks) /\ Len(more) = n + N
       /\ \A i \in 1 .. n : more[i] = t[n + 1 - i] /\ n + 1 - i \in 1 .. n
       /\ \A i \in 1 .. N : more[n + i] = f[i]
  <2>1. \A i \in 1 .. n : n + 1 - i \in 1 .. n
    BY <1>a
  <2>2. \A i \in 1 .. n + N : i <= n \/ i - n \in 1 .. N
    BY <1>a
  <2>3. more \in [1 .. n + N -> Blocks] /\ n + N \in Nat
    <3>1. \A i \in 1 .. n + N : i <= n => i \in 1 .. n
      BY <1>a
    <3>2. \A i \in 1 .. n + N : i <= n => t[n + 1 - i] \in Blocks
      BY <1>2, <2>1, <3>1
    <3>3. \A i \in 1 .. n + N : ~(i <= n) => f[i - n] \in Blocks
      BY <1>1, <2>2
    <3>4. n + N \in Nat
      BY <1>a
    <3>5. \A i \in 1 .. n + N : (IF i <= n THEN t[n + 1 - i] ELSE f[i - n]) \in Blocks
      BY <3>2, <3>3
    <3>6. more \in [1 .. n + N -> Blocks]
      BY <3>5, Zenon
    <3> QED
      BY <3>4, <3>6
  <2>4. \A i \in 1 .. n : more[i] = t[n + 1 - i]
    <3>1. \A i \in 1 .. n : i \in 1 .. n + N /\ i <= n
      BY <1>a
    <3> QED
      BY <3>1
  <2>5. \A i \in 1 .. N : n + i \in 1 .. n + N /\ ~(n + i <= n) /\ (n + i) - n = i
    BY <1>a
  <2>6. \A i \in 1 .. N : more[n + i] = f[i]
    BY <2>5
  <2> HIDE DEF more
  <2> QED
    BY <2>1, <2>3, <2>4, <2>6, SeqOf
<1> HIDE DEF more
<1>11. \A i \in 1 .. n + N : i \in 1 .. n \/ \E j \in 1 .. N : i = n + j
  <2>1. ASSUME NEW i \in 1 .. n + N, i \notin 1 .. n PROVE \E j \in 1 .. N : i = n + j
    <3>1. i - n \in 1 .. N /\ i = n + (i - n)
      BY <1>a, <2>1
    <3> QED
      BY <3>1
  <2> QED
    BY <2>1
<1>12. IsList(next', free_data', more)
  <2>1. ASSUME NEW i \in 1 .. n + N, NEW j \in 1 .. n + N, more[i] = more[j] PROVE i = j
    <3>1. CASE i \in 1 .. n /\ j \in 1 .. n
      <4>1. /\ more[i] = t[n + 1 - i] /\ n + 1 - i \in 1 .. n
            /\ more[j] = t[n + 1 - j] /\ n + 1 - j \in 1 .. n
        BY <1>10, <3>1
      <4>2. n + 1 - i = n + 1 - j
        BY <1>2, <2>1, <4>1
      <4> QED
        BY <1>2, <3>1, <4>2
    <3>2. CASE i \notin 1 .. n /\ j \notin 1 .. n
      <4>1. PICK x \in 1 .. N : i = n + x
        BY <1>11, <3>2
      <4>2. PICK y \in 1 .. N : j = n + y
        BY <1>11, <3>2
      <4>3. f[x] = f[y]
        BY <1>10, <2>1, <4>1, <4>2
      <4> QED
        BY <1>1, <4>1, <4>2, <4>3
    <3>3. ASSUME NEW k \in 1 .. n, NEW m \in 1 .. n + N, m \notin 1 .. n
          PROVE  more[k] # more[m]
      <4>1. PICK y \in 1 .. N : m = n + y
        BY <1>11, <3>3
      <4>2. more[k] = t[n + 1 - k] /\ n + 1 - k \in 1 .. n /\ more[m] = f[y]
        BY <1>10, <3>3, <4>1
      <4> QED
        BY <1>2, <4>2
    <3> QED
      BY <2>1, <3>1, <3>2, <3>3
  <2>2. free_data' = more[1] /\ n + N # 0
    <3>1. 1 \in 1 .. n /\ n + 1 - 1 = n /\ n + N # 0
      BY <1>1, <1>2, <1>3
    <3> QED
      BY <1>6, <1>10, <3>1
  <2>3. ASSUME NEW i \in 1 .. n + N
        PROVE  next'[more[i]] = IF i = n + N THEN NULL ELSE more[i + 1]
    <3>1. CASE i \in 1 .. n /\ i # n
      <4>1. /\ i + 1 \in 1 .. n /\ i # n + N /\ n + 1 - i # 1
            /\ n + 1 - (i + 1) = (n + 1 - i) - 1
        BY <1>a, <3>1
      <4>2. next'[more[i]] = t[(n + 1 - i) - 1] /\ more[i + 1] = t[(n + 1 - i) - 1]
        <5>1. more[i] = t[n + 1 - i] /\ n + 1 - i \in 1 .. n
          BY <1>10, <3>1
        <5>2. more[i + 1] = t[(n + 1 - i) - 1]
          BY <1>10, <4>1
        <5> QED
          BY <1>9, <4>1, <5>1, <5>2
      <4> QED
        BY <4>1, <4>2
    <3>2. CASE i = n
      <4>1. n \in 1 .. n /\ n + 1 - n = 1
        BY <1>2, <1>3
      <4>2. next'[more[i]] = free_data
        BY <1>9, <1>10, <3>2, <4>1
      <4>3. /\ i = n + N <=> N = 0
            /\ N # 0 => 1 \in 1 .. N
        BY <1>1, <1>2, <3>2
      <4> QED
        BY <1>1, <1>10, <3>2, <4>2, <4>3
    <3>3. CASE i \notin 1 .. n
      <4>1. PICK j \in 1 .. N : i = n + j
        BY <1>11, <3>3
      <4>2. more[i] = f[j] /\ f[j] \in Blocks /\ f[j] \notin {t[k] : k \in 1 .. n}
        <5>1. more[i] = f[j]
          BY <1>10, <4>1
        <5>2. f[j] \in Blocks
          BY <1>1, <4>1
        <5>3. \A k \in 1 .. n : t[k] # f[j]
          BY <1>2, <4>1
        <5> QED
          BY <5>1, <5>2, <5>3
      <4>3. next'[more[i]] = IF j = N THEN NULL ELSE f[j + 1]
        <5>1. next'[f[j]] = next[f[j]]
          BY <1>9, <4>2
        <5>2. next[f[j]] = IF j = N THEN NULL ELSE f[j + 1]
          BY <1>1, <4>1
        <5> QED
          BY <4>2, <5>1, <5>2
      <4>4. /\ i = n + N <=> j = N
            /\ j # N => j + 1 \in 1 .. N /\ i + 1 = n + (j + 1)
        BY <1>a, <4>1
      <4>5. \A k \in 1 .. N : more[n + k] = f[k]
        BY <1>10
      <4>6. ASSUME j # N PROVE more[i + 1] = f[j + 1]
        <5>1. more[n + (j + 1)] = f[j + 1]
          BY <4>4, <4>5, <4>6
        <5> QED
          BY <4>4, <4>6, <5>1
      <4> QED
        BY <4>3, <4>4, <4>6
    <3> QED
      BY <3>1, <3>2, <3>3
  <2> QED
    BY <1>10, <2>1, <2>2, <2>3 DEF IsList
<1> DEFINE d == [c EXCEPT ![h] = <<>>]
<1>13. d[h] = <<>> /\ Len(d[h]) = 0 /\ \A g \in Handles : g # h => d[g] = c[g]
  BY EmptySeq
<1>14. array'[h] = Freed /\ \A g \in Handles : g # h => array'[g] = array[g]
  BY <1>6 DEF PoolTypeOK
<1> HIDE DEF d
<1>15. ASSUME NEW g \in Handles, g # h
       PROVE  /\ IsList(next', array'[g].head, d[g]) /\ Len(d[g]) = array'[g].size
              /\ \A i \in 1 .. Len(d[g]), j \in 1 .. Len(more) : d[g][i] # more[j]
  <2>1. /\ IsList(next, array[g].head, c[g]) /\ Len(c[g]) = array[g].size
        /\ \A i \in 1 .. Len(c[g]) : c[g][i] \in Blocks
    BY ListFacts DEF Lists
  <2>2. \A i \in 1 .. Len(c[g]), j \in 1 .. N : c[g][i] # f[j]
    BY DEF Lists, N
  <2>3. \A i \in 1 .. Len(c[g]), j \in 1 .. n : c[g][i] # t[j]
    BY <1>15 DEF Lists, n, t
  <2>4. \A i \in 1 .. Len(c[g]) : next'[c[g][i]] = next[c[g][i]]
    BY <1>9, <2>1, <2>3
  <2>5. IsList(next', array[g].head, c[g])
    BY <2>1, <2>4, ListKept
  <2>6. \A i \in 1 .. Len(c[g]), j \in 1 .. n + N : c[g][i] # more[j]
    <3>1. ASSUME NEW j \in 1 .. n + N
          PROVE  (\E k \in 1 .. n : more[j] = t[k]) \/ (\E k \in 1 .. N : more[j] = f[k])
      <4>1. CASE j \in 1 .. n
        BY <1>10, <4>1
      <4>2. CASE \E k \in 1 .. N : j = n + k
        BY <1>10, <4>2
      <4> QED
        BY <1>11, <3>1, <4>1, <4>2
    <3> QED
      BY <2>2, <2>3, <3>1
  <2> QED
    BY <1>10, <1>13, <1>14, <1>15, <2>1, <2>5, <2>6
<1>16. IsList(next', array'[h].head, d[h]) /\ Len(d[h]) = array'[h].size
  BY <1>13, <1>14, NoList DEF Freed
<1>17. Lists(next', free_data', array', more, d)
  <2>1. 1 .. Len(d[h]) = {}
    BY <1>13
  <2>2. ASSUME NEW g \in Handles, NEW k \in Handles, g # k,
               NEW i \in 1 .. Len(d[g]), NEW j \in 1 .. Len(d[k])
        PROVE  d[g][i] # d[k][j]
    <3>1. g # h /\ k # h
      BY <2>1, <2>2
    <3> QED
      BY <1>13, <2>2, <3>1 DEF Lists
  <2> QED
    BY <1>12, <1>15, <1>16, <2>1, <2>2 DEF Lists
<1>18. PoolTypeOK'
  <2>1. t[n] \in Blocks
    BY <1>2, <1>3
  <2>2. \A b \in Blocks : next'[b] \in Blocks \cup {NULL}
    <3>1. ASSUME NEW i \in 1 .. n PROVE next'[t[i]] \in Blocks \cup {NULL}
      <4>1. i = 1 \/ i - 1 \in 1 .. n
        BY <1>2, <3>1
      <4> QED
        BY <1>2, <1>9, <3>1, <4>1 DEF PoolTypeOK
    <3>2. ASSUME NEW b \in Blocks, b \notin {t[i] : i \in 1 .. n}
          PROVE  next'[b] \in Blocks \cup {NULL}
      BY <1>9, <3>2 DEF PoolTypeOK
    <3> QED
      BY <3>1, <3>2
  <2>3. next' \in [Blocks -> Blocks \cup {NULL}]
    BY <1>6, <2>2
  <2>4. array' \in [Handles -> [head : Blocks \cup {NULL}, size : Nat]]
    BY <1>6 DEF PoolTypeOK, Freed
  <2> QED
    BY <1>6, <2>1, <2>3, <2>4 DEF PoolTypeOK
<1>19. Len(c[h]) > 0 /\ Len(more) = Len(f) + Len(c[h])
  <2>1. n = Len(c[h]) /\ N = Len(f)
    BY DEF n, N, t
  <2> QED
    BY <1>1, <1>2, <1>3, <1>10, <2>1
<1> QED
  BY <1>6, <1>10, <1>17, <1>18, <1>19 DEF d

(* write_element and read_element reach a block of the array.              *)
LEMMA ElementIs ==
  ASSUME NEW f, NEW c, Lists(next, free_data, array, f, c),
         NEW h \in Handles, NEW i \in 0 .. MAX_BLOCKS - 1, i < array[h].size
  PROVE  /\ Element(h, i) = c[h][i + 1] /\ i + 1 \in 1 .. Len(c[h])
         /\ c[h][i + 1] \in Blocks
<1>1. IsList(next, array[h].head, c[h]) /\ Len(c[h]) = array[h].size
  BY DEF Lists
<1>2. Len(c[h]) \in Nat /\ \A j \in 1 .. Len(c[h]) : c[h][j] \in Blocks
  BY <1>1, ListFacts
<1>3. i \in 0 .. MAX_BLOCKS /\ i < Len(c[h]) /\ i + 1 \in 1 .. Len(c[h])
  BY <1>1, <1>2, MemoryAssumption
<1>4. Walk(array[h].head) = Steps(c[h])
  BY View
<1> QED
  BY <1>2, <1>3, <1>4 DEF Element, Steps

LEMMA NextPool == PoolInv /\ [Next]_vars => PoolInv'
<1> SUFFICES ASSUME PoolInv, [Next]_vars PROVE PoolInv'
  OBVIOUS
<1>1. PICK f : \E c \in [Handles -> Seq(Blocks)] : Lists(next, free_data, array, f, c)
  BY DEF PoolInv
<1>2. PICK c \in [Handles -> Seq(Blocks)] : Lists(next, free_data, array, f, c)
  BY <1>1
<1>3. PoolTypeOK
  BY DEF PoolInv
<1>4. CASE UNCHANGED vars
  BY <1>4 DEF PoolInv, PoolTypeOK, vars
<1>5. ASSUME NEW h \in Handles, NEW size \in 1 .. MAX_BLOCKS, CreateArray(h, size)
      PROVE  PoolInv'
  <2>1. PICK rest, taken \in Seq(Blocks) :
          Lists(next', free_data', array', rest, [c EXCEPT ![h] = taken])
    BY <1>2, <1>3, <1>5, CreateLists
  <2>2. PoolTypeOK'
    BY <1>2, <1>3, <1>5, CreateLists
  <2>3. [c EXCEPT ![h] = taken] \in [Handles -> Seq(Blocks)]
    OBVIOUS
  <2> QED
    BY <2>1, <2>2, <2>3 DEF PoolInv
<1>6. ASSUME NEW h \in Handles, FreeArray(h) PROVE PoolInv'
  <2>1. PICK more \in Seq(Blocks) :
          Lists(next', free_data', array', more, [c EXCEPT ![h] = <<>>])
    BY <1>2, <1>3, <1>6, FreeLists
  <2>2. PoolTypeOK'
    BY <1>2, <1>3, <1>6, FreeLists
  <2>3. [c EXCEPT ![h] = <<>>] \in [Handles -> Seq(Blocks)]
    BY EmptySeq
  <2> QED
    BY <2>1, <2>2, <2>3 DEF PoolInv
<1>7. ASSUME NEW h \in Handles, NEW i \in 0 .. MAX_BLOCKS - 1, ReadElement(h, i)
      PROVE  PoolInv'
  BY <1>7 DEF ReadElement, PoolInv, PoolTypeOK
<1>8. ASSUME NEW h \in Handles, NEW i \in 0 .. MAX_BLOCKS - 1, NEW byte \in Bytes,
             WriteElement(h, i, byte)
      PROVE  PoolInv'
  <2>1. PoolTypeOK'
    BY <1>3, <1>8 DEF WriteElement, PoolTypeOK
  <2> QED
    BY <1>8, <2>1 DEF WriteElement, PoolInv
<1> QED
  BY <1>4, <1>5, <1>6, <1>7, <1>8 DEF Next

(* The lists of the pool always are lists without a block in common, of    *)
(* the lengths that the arrays record.  (memory.c 17-124)                  *)
THEOREM PoolInvariant == Spec => []PoolInv
<1> QED
  BY InitPool, NextPool, PTL DEF Spec

(* No list of the pool ever shares a block with another or runs into       *)
(* itself, whatever is created, freed and created over.  (memory.c 31-45,  *)
(* 59-76, 89-99)                                                           *)
THEOREM ListsStayApart == Spec => []ListsApart
<1>1. PoolInv => ListsApart
  <2> SUFFICES ASSUME PoolInv PROVE ListsApart
    OBVIOUS
  <2>1. PICK f : \E c \in [Handles -> Seq(Blocks)] : Lists(next, free_data, array, f, c)
    BY DEF PoolInv
  <2>2. PICK c \in [Handles -> Seq(Blocks)] : Lists(next, free_data, array, f, c)
    BY <2>1
  <2>3. DOMAIN f = 1 .. Len(f) /\ Members(free_data) = {f[j] : j \in 1 .. Len(f)}
    <3>1. DOMAIN f = 1 .. Len(f)
      BY <2>2, ListFacts DEF Lists
    <3>2. Chain(free_data) = f
      BY <2>2, View
    <3> QED
      BY <3>1, <3>2 DEF Members
  <2>4. ASSUME NEW h \in Handles
        PROVE  /\ Len(Chain(array[h].head)) = array[h].size
               /\ Walk(array[h].head)[array[h].size] = NULL
               /\ Members(array[h].head) = {c[h][i] : i \in 1 .. Len(c[h])}
    <3>1. IsList(next, array[h].head, c[h]) /\ Len(c[h]) = array[h].size
      BY <2>2 DEF Lists
    <3>2. Len(c[h]) \in 0 .. MAX_BLOCKS /\ DOMAIN c[h] = 1 .. Len(c[h])
      BY <3>1, ListFacts, ListLength
    <3>3. Chain(array[h].head) = c[h] /\ Walk(array[h].head) = Steps(c[h])
      BY <2>2, View
    <3>4. Steps(c[h])[Len(c[h])] = NULL
      BY <3>2, MemoryAssumption DEF Steps
    <3> QED
      BY <3>1, <3>2, <3>3, <3>4 DEF Members
  <2>m. \A h \in Handles : Members(array[h].head) = {c[h][i] : i \in 1 .. Len(c[h])}
    BY <2>4
  <2>5. ASSUME NEW h \in Handles
        PROVE  Members(array[h].head) \cap Members(free_data) = {}
    <3>1. SUFFICES ASSUME NEW b \in Members(array[h].head), b \in Members(free_data)
                   PROVE  FALSE
      OBVIOUS
    <3>2. PICK i \in 1 .. Len(c[h]) : b = c[h][i]
      BY <2>m, <3>1
    <3>3. PICK j \in 1 .. Len(f) : b = f[j]
      BY <2>3, <3>1
    <3> QED
      BY <2>2, <3>2, <3>3 DEF Lists
  <2>6. ASSUME NEW g \in Handles, NEW h \in Handles, g # h
        PROVE  Members(array[g].head) \cap Members(array[h].head) = {}
    <3>1. SUFFICES ASSUME NEW b \in Members(array[g].head), b \in Members(array[h].head)
                   PROVE  FALSE
      OBVIOUS
    <3>2. PICK i \in 1 .. Len(c[g]) : b = c[g][i]
      BY <2>m, <3>1
    <3>3. PICK j \in 1 .. Len(c[h]) : b = c[h][j]
      BY <2>m, <3>1
    <3> QED
      BY <2>2, <2>6, <3>2, <3>3 DEF Lists
  <2> QED
    BY <2>4, <2>5, <2>6 DEF ListsApart
<1> QED
  BY <1>1, PoolInvariant, PTL

-----------------------------------------------------------------------------
(* The initial pool is the initial byte arrays.                            *)
LEMMA InitImplements == Init => Abstract!Init
<1> SUFFICES ASSUME Init PROVE Abstract!Init
  OBVIOUS
<1>1. Available = MAX_BLOCKS
  <2> DEFINE f == [i \in 1 .. MAX_BLOCKS |-> i]
  <2>1. f \in Seq(Blocks) /\ Len(f) = MAX_BLOCKS
    <3>1. f \in [1 .. MAX_BLOCKS -> Blocks] /\ MAX_BLOCKS \in Nat
      BY MemoryAssumption DEF Blocks
    <3> HIDE DEF f
    <3> QED
      BY <3>1, SeqOf
  <2>2. IsList(next, free_data, f)
    BY <2>1, MemoryAssumption DEF Init, IsList, Blocks
  <2> HIDE DEF f
  <2> QED
    BY <2>1, <2>2, ChainIs, SameState
<1>2. Contents = [h \in Handles |-> <<>>]
  <2>1. \A h \in Handles : array[h].size = 0
    BY DEF Init, Freed
  <2>2. \A h \in Handles : Content(h) = <<>>
    BY <2>1 DEF Content
  <2> QED
    BY <2>2 DEF Contents
<1>3. got = <<0, 0>>
  BY DEF Init
<1> QED
  BY <1>1, <1>2, <1>3 DEF Abstract!Init

(* Every operation is the one on the bytes.                                *)
LEMMA CreateImplements ==
  ASSUME PoolTypeOK, NEW f, NEW c \in [Handles -> Seq(Blocks)],
         Lists(next, free_data, array, f, c),
         NEW h \in Handles, NEW size \in 1 .. MAX_BLOCKS, CreateArray(h, size)
  PROVE  Abstract!Next
<1>1. /\ size <= Len(f) /\ Len(f) \in Nat /\ size \in Nat /\ got' = got
      /\ \A b \in Blocks : block'[b] = IF b \in FirstBlocks(f, size) THEN 0 ELSE block[b]
      /\ \A i \in 1 .. Len(f) : f[i] \in Blocks
  <2>1. Len(f) \in Nat /\ \A i \in 1 .. Len(f) : f[i] \in Blocks
    BY ListFacts DEF Lists
  <2>2. /\ size <= Len(f) /\ got' = got
        /\ \A b \in Blocks : block'[b] = IF b \in FirstBlocks(f, size) THEN 0 ELSE block[b]
    BY CreateLists
  <2> QED
    BY <2>1, <2>2
<1>2. PICK rest, taken \in Seq(Blocks) :
        /\ Split(f, size, taken, rest)
        /\ Lists(next', free_data', array', rest, [c EXCEPT ![h] = taken])
  BY CreateLists
<1> DEFINE d == [c EXCEPT ![h] = taken]
<1>3. /\ Available' = Len(f) - size
      /\ Contents' = [g \in Handles |-> [i \in 1 .. Len(d[g]) |-> block'[d[g][i]]]]
  <2>1. Lists(next', free_data', array', rest, d) /\ Len(rest) = Len(f) - size
    BY <1>2 DEF Split
  <2> HIDE DEF d
  <2> QED
    BY <2>1, ViewAfter
<1>4. /\ Available = Len(f)
      /\ Contents = [g \in Handles |-> [i \in 1 .. Len(c[g]) |-> block[c[g][i]]]]
  BY View
<1>5. d[h] = taken /\ \A g \in Handles : g # h => d[g] = c[g]
  OBVIOUS
<1> HIDE DEF d
<1>6. [i \in 1 .. Len(d[h]) |-> block'[d[h][i]]] = [i \in 1 .. size |-> 0]
  <2>1. \A i \in 1 .. size : i \in 1 .. Len(f)
    BY <1>1
  <2>2. \A i \in 1 .. size : block'[taken[i]] = 0
    BY <1>1, <1>2, <2>1 DEF Split, FirstBlocks
  <2> QED
    BY <1>2, <1>5, <2>2 DEF Split
<1>7. ASSUME NEW g \in Handles, g # h
      PROVE  [i \in 1 .. Len(d[g]) |-> block'[d[g][i]]]
               = [i \in 1 .. Len(c[g]) |-> block[c[g][i]]]
  <2>1. /\ \A i \in 1 .. Len(c[g]) : c[g][i] \in Blocks
        /\ \A i \in 1 .. Len(c[g]), j \in 1 .. Len(f) : c[g][i] # f[j]
    BY ListFacts DEF Lists
  <2>2. \A j \in 1 .. size : j \in 1 .. Len(f)
    BY <1>1
  <2>3. \A i \in 1 .. Len(c[g]) : block'[c[g][i]] = block[c[g][i]]
    BY <1>1, <2>1, <2>2 DEF FirstBlocks
  <2> QED
    BY <1>5, <1>7, <2>3
<1>8. Contents' = [Contents EXCEPT ![h] = [i \in 1 .. size |-> 0]]
  BY <1>3, <1>4, <1>6, <1>7
<1>9. size \in 1 .. Available /\ Available' = Available - size
  BY <1>1, <1>3, <1>4
<1> QED
  BY <1>1, <1>8, <1>9 DEF Abstract!Next, Abstract!Create

LEMMA FreeImplements ==
  ASSUME PoolTypeOK, NEW f, NEW c \in [Handles -> Seq(Blocks)],
         Lists(next, free_data, array, f, c),
         NEW h \in Handles, FreeArray(h)
  PROVE  Abstract!Next
<1>1. Len(c[h]) > 0 /\ block' = block /\ got' = got /\ Len(c[h]) \in Nat
  <2>1. Len(c[h]) > 0 /\ block' = block /\ got' = got
    BY FreeLists
  <2> QED
    BY <2>1, LenProperties
<1>2. PICK more \in Seq(Blocks) :
        /\ Len(more) = Len(f) + Len(c[h])
        /\ Lists(next', free_data', array', more, [c EXCEPT ![h] = <<>>])
  BY FreeLists
<1> DEFINE d == [c EXCEPT ![h] = <<>>]
<1>3. /\ Available' = Len(f) + Len(c[h])
      /\ Contents' = [g \in Handles |-> [i \in 1 .. Len(d[g]) |-> block'[d[g][i]]]]
  <2>1. Lists(next', free_data', array', more, d) /\ Len(more) = Len(f) + Len(c[h])
    BY <1>2
  <2> HIDE DEF d
  <2> QED
    BY <2>1, ViewAfter
<1>4. /\ Available = Len(f)
      /\ Contents = [g \in Handles |-> [i \in 1 .. Len(c[g]) |-> block[c[g][i]]]]
  BY View
<1>5. Len(d[h]) = 0 /\ \A g \in Handles : g # h => d[g] = c[g]
  BY EmptySeq
<1> HIDE DEF d
<1>6. Contents' = [Contents EXCEPT ![h] = <<>>]
  <2>1. [i \in 1 .. Len(d[h]) |-> block'[d[h][i]]] = <<>>
    BY <1>5
  <2> QED
    BY <1>1, <1>3, <1>4, <1>5, <2>1
<1>7. Contents[h] \in [1 .. Len(c[h]) -> Bytes]
  <2>1. \A i \in 1 .. Len(c[h]) : c[h][i] \in Blocks
    BY ListFacts DEF Lists
  <2>2. \A i \in 1 .. Len(c[h]) : block[c[h][i]] \in Bytes
    BY <2>1 DEF PoolTypeOK
  <2> QED
    BY <1>4, <2>2
<1>8. Len(Contents[h]) = Len(c[h])
  BY <1>1, <1>7, SeqOf
<1>9. Contents[h] # <<>>
  BY <1>1, <1>8, EmptySeq
<1> QED
  BY <1>1, <1>3, <1>4, <1>6, <1>8, <1>9 DEF Abstract!Next, Abstract!Free

LEMMA WriteImplements ==
  ASSUME PoolTypeOK, NEW f, NEW c \in [Handles -> Seq(Blocks)],
         Lists(next, free_data, array, f, c),
         NEW h \in Handles, NEW i \in 0 .. MAX_BLOCKS - 1, NEW byte \in Bytes,
         WriteElement(h, i, byte)
  PROVE  Abstract!Next
<1>1. /\ i < array[h].size /\ block' = [block EXCEPT ![Element(h, i)] = byte]
      /\ got' = got /\ next' = next /\ free_data' = free_data /\ array' = array
  BY DEF WriteElement
<1>2. /\ Element(h, i) = c[h][i + 1] /\ i + 1 \in 1 .. Len(c[h])
      /\ c[h][i + 1] \in Blocks
  BY <1>1, ElementIs
<1>3. /\ Available' = Len(f)
      /\ Contents' = [g \in Handles |-> [j \in 1 .. Len(c[g]) |-> block'[c[g][j]]]]
  <2>1. Lists(next', free_data', array', f, c)
    BY <1>1
  <2> QED
    BY <2>1, ViewAfter
<1>4. /\ Available = Len(f)
      /\ Contents = [g \in Handles |-> [j \in 1 .. Len(c[g]) |-> block[c[g][j]]]]
  BY View
<1>5. \A b \in Blocks : block'[b] = IF b = c[h][i + 1] THEN byte ELSE block[b]
  BY <1>1, <1>2 DEF PoolTypeOK
<1>6. ASSUME NEW g \in Handles, NEW j \in 1 .. Len(c[g])
      PROVE  block'[c[g][j]] = IF g = h /\ j = i + 1 THEN byte ELSE block[c[g][j]]
  <2>1. c[g][j] \in Blocks
    BY <1>6, ListFacts DEF Lists
  <2>2. c[g][j] = c[h][i + 1] => g = h /\ j = i + 1
    <3>1. CASE g = h
      BY <1>2, <1>6, <3>1 DEF Lists, IsList
    <3>2. CASE g # h
      BY <1>2, <1>6, <3>2 DEF Lists
    <3> QED
      BY <3>1, <3>2
  <2> QED
    BY <1>5, <2>1, <2>2
<1>7. Contents' = [Contents EXCEPT ![h] = [Contents[h] EXCEPT ![i + 1] = byte]]
  <2>1. ASSUME NEW g \in Handles
        PROVE  [j \in 1 .. Len(c[g]) |-> block'[c[g][j]]]
                 = IF g = h THEN [Contents[h] EXCEPT ![i + 1] = byte] ELSE Contents[g]
    <3>1. CASE g = h
      BY <1>2, <1>4, <1>6, <2>1, <3>1
    <3>2. CASE g # h
      BY <1>4, <1>6, <2>1, <3>2
    <3> QED
      BY <3>1, <3>2
  <2> QED
    BY <1>3, <1>4, <2>1
<1>8. i + 1 \in DOMAIN Contents[h]
  BY <1>2, <1>4
<1>9. Abstract!Write(h, i + 1, byte)
  BY <1>1, <1>3, <1>4, <1>7 DEF Abstract!Write
<1> QED
  BY <1>8, <1>9 DEF Abstract!Next

LEMMA ReadImplements ==
  ASSUME NEW f, NEW c, Lists(next, free_data, array, f, c),
         NEW h \in Handles, NEW i \in 0 .. MAX_BLOCKS - 1, ReadElement(h, i)
  PROVE  Abstract!Next
<1>1. /\ i < array[h].size /\ got' = <<i + 1, block[Element(h, i)]>>
      /\ block' = block /\ next' = next /\ free_data' = free_data /\ array' = array
  BY DEF ReadElement
<1>2. Element(h, i) = c[h][i + 1] /\ i + 1 \in 1 .. Len(c[h])
  BY <1>1, ElementIs
<1>3. /\ Available' = Len(f)
      /\ Contents' = [g \in Handles |-> [j \in 1 .. Len(c[g]) |-> block'[c[g][j]]]]
  <2>1. Lists(next', free_data', array', f, c)
    BY <1>1
  <2> QED
    BY <2>1, ViewAfter
<1>4. /\ Available = Len(f)
      /\ Contents = [g \in Handles |-> [j \in 1 .. Len(c[g]) |-> block[c[g][j]]]]
  BY View
<1>5. i + 1 \in DOMAIN Contents[h] /\ Contents[h][i + 1] = block[Element(h, i)]
  BY <1>2, <1>4
<1>6. Abstract!Read(h, i + 1)
  BY <1>1, <1>3, <1>4, <1>5 DEF Abstract!Read
<1> QED
  BY <1>5, <1>6 DEF Abstract!Next

LEMMA StepImplements ==
  PoolInv /\ [Next]_vars => [Abstract!Next]_<<Contents, Available, got>>
<1> SUFFICES ASSUME PoolInv, [Next]_vars
             PROVE  [Abstract!Next]_<<Contents, Available, got>>
  OBVIOUS
<1>1. PICK f : \E c \in [Handles -> Seq(Blocks)] : Lists(next, free_data, array, f, c)
  BY DEF PoolInv
<1>2. PICK c \in [Handles -> Seq(Blocks)] : Lists(next, free_data, array, f, c)
  BY <1>1
<1>3. PoolTypeOK
  BY DEF PoolInv
<1>4. CASE UNCHANGED vars
  BY <1>4, SameState DEF vars
<1>5. ASSUME NEW h \in Handles, NEW size \in 1 .. MAX_BLOCKS, CreateArray(h, size)
      PROVE  Abstract!Next
  BY <1>2, <1>3, <1>5, CreateImplements
<1>6. ASSUME NEW h \in Handles, FreeArray(h) PROVE Abstract!Next
  BY <1>2, <1>3, <1>6, FreeImplements
<1>7. ASSUME NEW h \in Handles, NEW i \in 0 .. MAX_BLOCKS - 1, ReadElement(h, i)
      PROVE  Abstract!Next
  BY <1>2, <1>7, ReadImplements
<1>8. ASSUME NEW h \in Handles, NEW i \in 0 .. MAX_BLOCKS - 1, NEW byte \in Bytes,
             WriteElement(h, i, byte)
      PROVE  Abstract!Next
  BY <1>2, <1>3, <1>8, WriteImplements
<1> QED
  BY <1>4, <1>5, <1>6, <1>7, <1>8 DEF Next

(* The pool of linked blocks implements arrays of bytes: creating, freeing,*)
(* writing and reading do to the bytes what packets rely on, and no        *)
(* operation on one array changes a byte of another.  (memory.c 17-124)    *)
THEOREM PoolImplementsByteArrays == Spec => ImplementsByteArrays
<1> QED
  BY InitImplements, StepImplements, PoolInvariant, PTL
  DEF Spec, ImplementsByteArrays, Abstract!Spec, Abstract!vars
=============================================================================
