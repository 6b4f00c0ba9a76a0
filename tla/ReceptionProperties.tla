------------------------ MODULE ReceptionProperties -----------------------
(***************************************************************************)
(* What hearing a control packet should guarantee.                         *)
(***************************************************************************)
EXTENDS Reception

(* Every variable has its type.                                            *)
TypeOK ==
  /\ pc \in {"idle", "first", "rest"} /\ caller \in Callers
  /\ positive \in BOOLEAN /\ pool \in Pools /\ timer \in Handles
  /\ pos \in -1 .. CHUNKS /\ remaining \in 0 .. CHUNKS + 1
  /\ buf \in [Chunks -> Chunks \cup {FOREIGN}]
  /\ air \in Chunks /\ ones \in SUBSET (Chunks \ {0})
  /\ fresh \in BOOLEAN /\ ret \in BOOLEAN
  /\ strings \in 0 .. MAX_STRINGS /\ misses \in 0 .. MAX_STRINGS

(* Although the two counters change places on the way, they always account *)
(* for one packet: no chunk is written behind bytes_pkt, only one before   *)
(* it, and the reading of the rest stops when the buffer is full.          *)
(* (Packets_Handlers.c 166-168, 206-209, 254, 447)                         *)
CountersAgree ==
  /\ pos + remaining = CHUNKS
  /\ pc = "first" => pos = 0
  /\ pc = "rest" => pos < CHUNKS

(* Each listen that returned false, and no other, has lost its byte        *)
(* string, so a node misses control packets until memory is used up and    *)
(* not faster.  (Packets_Handlers.c 255-257, 267-274, 283-285, 448-455)    *)
StringsAccounted ==
  strings + misses + (IF pc = "idle" THEN 0 ELSE 1) = MAX_STRINGS

(* A node that synchronises uses a packet that was constructed from bytes  *)
(* of the type of a control packet: the type that was checked 256 bytes    *)
(* earlier belongs to other bytes.  (Packets_Handlers.c 271-280,           *)
(* ControlPacket.c 235)                                                    *)
SyncPacketIsFresh ==
  pc = "idle" /\ ret /\ caller = "sync" => fresh /\ TypeOne(buf[0])

(* A listen ends, whatever is on the air, also when no timeout can be set. *)
ListenEnds == pc # "idle" ~> pc = "idle"

(* The loops, with the timeout armed before them, given back on one path   *)
(* and kept on the others, are the one step that the state machines take a *)
(* listen for.  (Packets_Handlers.c 117-285)                               *)
Service ==
  INSTANCE ListenService WITH
    pool <- IF pc # "idle" THEN AfterUnset(pool, timer) ELSE pool

ImplementsListenService == Service!Spec

-----------------------------------------------------------------------------
(* "We have the first 32 bytes", "Receive the rest of the packet.": when   *)
(* nothing is lost and only the first chunk looks like one, a listen that  *)
(* returns true has put the chunks of the packet together in their order.  *)
(* (Packets_Handlers.c 165-168, 254-266, 447-453)                          *)
ReassembledInOrder ==
  pc = "idle" /\ ret /\ ones = {} => \A k \in Chunks : buf[k] = k
=============================================================================
