----------------------------- MODULE ByteArrays ---------------------------
(***************************************************************************)
(* What the pool of memory blocks promises to the packets that are made in *)
(* it: arrays of bytes that keep what is written to them, taken from a     *)
(* number of bytes that only creation over a live array loses.             *)
(***************************************************************************)
EXTENDS Naturals, Sequences

CONSTANTS
  Handles,       \* the array_t variables of the program
  Bytes,         \* what an element may be
  CAPACITY       \* MAX_NUMBER_BLOCKS

VARIABLES
  content,       \* the bytes of each array; none when it is freed
  available,     \* bytes that can still be taken
  got            \* the last element read: its index and the byte

vars == <<content, available, got>>

Init ==
  /\ content = [h \in Handles |-> <<>>]
  /\ available = CAPACITY
  /\ got = <<0, 0>>

Create(h, size) ==
  /\ size \in 1 .. available
  /\ content' = [content EXCEPT ![h] = [i \in 1 .. size |-> 0]]
  /\ available' = available - size
  /\ UNCHANGED got

Free(h) ==
  /\ content[h] # <<>>
  /\ available' = available + Len(content[h])
  /\ content' = [content EXCEPT ![h] = <<>>]
  /\ UNCHANGED got

Write(h, i, byte) ==
  /\ content' = [content EXCEPT ![h][i] = byte]
  /\ UNCHANGED <<available, got>>

Read(h, i) ==
  /\ got' = <<i, content[h][i]>>
  /\ UNCHANGED <<content, available>>

Next ==
  \E h \in Handles :
    \/ \E size \in 1 .. available : Create(h, size)
    \/ Free(h)
    \/ \E i \in DOMAIN content[h] : Read(h, i) \/ \E byte \in Bytes : Write(h, i, byte)

Spec == Init /\ [][Next]_vars
=============================================================================
