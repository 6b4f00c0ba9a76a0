------------------------------- MODULE Memory -----------------------------
(***************************************************************************)
(* The pool of memory blocks of the RIOT build (utils/memory.c): an array  *)
(* is a list of blocks of one byte each.  RIOT's memarray, external, keeps *)
(* the free blocks in a list that is linked through their first word, the  *)
(* same word that links the blocks of an array.                            *)
(***************************************************************************)
EXTENDS Naturals, Sequences, FiniteSets

CONSTANTS
  MAX_BLOCKS,    \* MAX_NUMBER_BLOCKS; 10240
  Handles,       \* the array_t variables of the program
  Bytes          \* what an element may be

ASSUME MemoryAssumption == MAX_BLOCKS \in Nat \ {0} /\ 0 \in Bytes

VARIABLES
  next,          \* the first word of each block
  block,         \* its byte
  free_data,     \* the first block of memarray's list
  array,         \* head and size of each array_t
  got            \* the last element read: its index, from 1, and the byte

vars == <<next, block, free_data, array, got>>

NULL == 0

Blocks == 1 .. MAX_BLOCKS

Freed == [head |-> NULL, size |-> 0]

(* memory_init; memarray_init links all blocks in order.                   *)
Init ==
  /\ next = [b \in Blocks |-> IF b = MAX_BLOCKS THEN NULL ELSE b + 1]
  /\ block = [b \in Blocks |-> 0]
  /\ free_data = 1
  /\ array = [h \in Handles |-> Freed]
  /\ got = <<0, 0>>

-----------------------------------------------------------------------------
(* The blocks of the list that starts at b, as a function of how many      *)
(* links lie before them; NULL after the last one.                         *)
Walk(b) ==
  LET at[n \in 0 .. MAX_BLOCKS] ==
        IF n = 0 THEN b
        ELSE LET before == at[n - 1] IN IF before = NULL THEN NULL ELSE next[before]
  IN at

(* The blocks of a list, in order; of one that never ends, the first ones. *)
Chain(b) ==
  LET at == Walk(b)
      ends == {n \in DOMAIN at : at[n] = NULL}
      length == IF ends = {} THEN MAX_BLOCKS ELSE Cardinality((DOMAIN at) \ ends)
  IN [i \in 1 .. length |-> at[i - 1]]

Members(b) == {Chain(b)[i] : i \in DOMAIN Chain(b)}

(* memarray_available.                                                     *)
Available == Len(Chain(free_data))

-----------------------------------------------------------------------------
(* Faulty variant (cf. Linked): the last block keeps the link that         *)
(* memarray had made.                                                      *)
LinkedOn(taken, b) == next[b]

(* The links of the blocks taken: each to the one taken next.              *)
Linked(taken, b) == IF b = taken[Len(taken)] THEN NULL ELSE next[b]

(* create_array: memarray_alloc hands out the blocks in the order of its   *)
(* list.  The blocks of an array that was live are in no list any more.    *)
CreateArray(h, size) ==
  LET taken == SubSeq(Chain(free_data), 1, size)
      new == {taken[i] : i \in DOMAIN taken}
  IN
  /\ size > 0 /\ size <= Available
  /\ free_data' = next[taken[size]]
  /\ next' = [b \in Blocks |-> IF b \in new THEN Linked(taken, b) ELSE next[b]]
  /\ block' = [b \in Blocks |-> IF b \in new THEN 0 ELSE block[b]]
  /\ array' = [array EXCEPT ![h] = [head |-> taken[1], size |-> size]]
  /\ UNCHANGED got

(* free_array: the blocks go one by one to the front of memarray's list.   *)
FreeArray(h) ==
  LET chain == Chain(array[h].head)
      place == [b \in Members(array[h].head) |-> CHOOSE i \in DOMAIN chain : chain[i] = b]
  IN
  /\ array[h].head # NULL /\ array[h].size # 0
  /\ next' = [b \in Blocks |->
       IF b \notin DOMAIN place THEN next[b]
       ELSE IF place[b] = 1 THEN free_data
       ELSE chain[place[b] - 1]]
  /\ free_data' = chain[Len(chain)]
  /\ array' = [array EXCEPT ![h] = Freed]
  /\ UNCHANGED <<block, got>>

(* Faulty variant (cf. Element): one link too many.                        *)
ElementAfter(h, i) == Walk(array[h].head)[i + 1]

(* The block of element i, to which write_element and read_element walk.   *)
Element(h, i) == Walk(array[h].head)[i]

WriteElement(h, i, byte) ==
  /\ i < array[h].size
  /\ Element(h, i) # NULL
  /\ block' = [block EXCEPT ![Element(h, i)] = byte]
  /\ UNCHANGED <<next, free_data, array, got>>

ReadElement(h, i) ==
  /\ i < array[h].size
  /\ Element(h, i) # NULL
  /\ got' = <<i + 1, block[Element(h, i)]>>
  /\ UNCHANGED <<next, block, free_data, array>>

Next ==
  \E h \in Handles :
    \/ \E size \in 1 .. MAX_BLOCKS : CreateArray(h, size)
    \/ FreeArray(h)
    \/ \E i \in 0 .. MAX_BLOCKS - 1 :
         ReadElement(h, i) \/ \E byte \in Bytes : WriteElement(h, i, byte)

Spec == Init /\ [][Next]_vars

-----------------------------------------------------------------------------
(* The lists of the arrays and the list of free blocks end, have no block  *)
(* in common, and an array's list is as long as its size says, so that no  *)
(* walk of write_element or read_element meets the end.  (memory.c 31-45,  *)
(* 59-76, 89-99)                                                           *)
ListsApart ==
  /\ \A h \in Handles :
       /\ Len(Chain(array[h].head)) = array[h].size
       /\ Walk(array[h].head)[array[h].size] = NULL
       /\ Members(array[h].head) \cap Members(free_data) = {}
  /\ \A g, h \in Handles :
       g # h => Members(array[g].head) \cap Members(array[h].head) = {}

(* The bytes of an array, which are what packets see of it.                *)
Content(h) == [i \in 1 .. array[h].size |-> block[Walk(array[h].head)[i - 1]]]

Contents == [h \in Handles |-> Content(h)]

Abstract ==
  INSTANCE ByteArrays WITH
    CAPACITY <- MAX_BLOCKS,
    content <- Contents,
    available <- Available

(* The pool implements arrays of bytes: every operation on the lists is    *)
(* the operation on the bytes that packets rely on, and a failed creation  *)
(* changes nothing.  (memory.c 17-124)                                     *)
ImplementsByteArrays == Abstract!Spec
=============================================================================
