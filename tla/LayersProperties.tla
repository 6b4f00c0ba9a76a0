-------------------------- MODULE LayersProperties ------------------------
(***************************************************************************)
(* What the rings and the queues between the layers should guarantee.      *)
(***************************************************************************)
EXTENDS Layers

Rings(slots, last, count) ==
  [first : SendSlots, last : last, count : 0 .. count, pkts : [slots -> Contents]]

(* The rings, the queues and their bookkeeping keep their ranges: in       *)
(* particular no send ring ever holds more than its array, whatever the    *)
(* two together are compared with, end_storage goes one past its array and *)
(* no further, and stored_elements, which is compared with the size of the *)
(* array by ==, never passes it unless a sender may be preempted.          *)
TypeOK ==
  /\ os \in Builds
  /\ queues \in [Threads -> {"none", "created", "open"}]
  /\ box \in [Threads -> Seq(Envelopes)] /\ \A t \in Threads : Len(box[t]) <= Capacity
  /\ storage \in [StorageSlots -> Contents]
  /\ start_storage \in StorageSlots /\ end_storage \in 0 .. STORAGE
  /\ stored \in Nat /\ (stored <= STORAGE \/ PREEMPTIVE)
  /\ pc \in [Threads -> {"idle", "post", "blocked", "write", "send"}]
  /\ sending \in [Threads -> [to : Threads \cup {0}, envelope : Envelopes]]
  /\ fault \in {"none", "assert", "stray"}
  /\ message \in Rings(SendSlots, 0 .. MAX_PACKETS, MAX_PACKETS)
  /\ control \in Rings(SendSlots, 0 .. MAX_PACKETS, MAX_PACKETS)
  /\ received \in Rings(ReceiveSlots, ReceiveSlots, 2 * MAX_PACKETS)
  /\ rewound \in BOOLEAN /\ routing \in Routings /\ targets \in Topologies

(* The slots of a ring that hold a packet to send are those from its read  *)
(* position to its write position, and as many as it counts; the only      *)
(* other state is the one in which the read position has wrapped and the   *)
(* write position has not.                                                 *)
SendRing(r) ==
  /\ {i \in SendSlots : r.pkts[i] # Zeros} =
       IF r.first < r.last /\ r.count > 0 THEN r.first .. r.last - 1 ELSE {}
  /\ \/ r.last = r.first + r.count
     \/ r.first = 0 /\ r.last = MAX_PACKETS /\ r.count = 0

(* Both rings of packets to send are always such.  (MCLMAC.c 402-412,      *)
(* Packets_Handlers.c 489-593)                                             *)
SendRingsConsistent == SendRing(message) /\ SendRing(control)

(* Until the read position of the ring of received packets goes back to 0, *)
(* half way through the ring, the packets that the MAC has received and    *)
(* not passed on follow it, and every other slot is clear.                 *)
(* (MCLMAC.c 444-468, Packets_Handlers.c 641-646)                          *)
ReceivedRing(r) ==
  LET pending == {(r.first + i) % (2 * MAX_PACKETS) : i \in 0 .. r.count - 1}
  IN /\ r.last = (r.first + r.count) % (2 * MAX_PACKETS)
     /\ \A i \in ReceiveSlots \ pending : r.pkts[i] = Zeros

ReceivedRingConsistent == ~rewound => ReceivedRing(received)

-----------------------------------------------------------------------------
Pending == UNION {{box[t][i] : i \in DOMAIN box[t]} : t \in Threads}

(* Every message on its way that its receiver will not discard is still,   *)
(* in the storage that all queues share, what its sender gave, and in a    *)
(* slot of its own.                                                        *)
(* (ipc-queues.c 326-336, 406-423)                                         *)
ReceivedAsSent ==
  os = "riot" /\ fault = "none" =>
    /\ \A e \in Pending : e.full => storage[e.slot] = e.msg
    /\ \A t, u \in Threads : \A i \in DOMAIN box[t], j \in DOMAIN box[u] :
         <<t, i>> # <<u, j>> => box[t][i].slot # box[u][j].slot

(* Only one thread sends besides the MAC.                                  *)
SoleSender == \A t, u \in Upper : t = u

(* The same, when all messages go to the MAC, from one layer and from the  *)
(* MAC itself, and none is preempted inside send_message: then slots are   *)
(* released in the order in which they are filled.  Messages of the wrong  *)
(* size, whose slot is never released, do not disturb it.                  *)
(* (ipc-queues.c 326-336, 406-423)                                         *)
SoleReceiverGetsWhatWasSent ==
  targets = {MAC} /\ SoleSender /\ ~PREEMPTIVE => ReceivedAsSent

(* A packet from the medium leaves the ring of received packets only into  *)
(* a queue, or when the node starts again, or because a RIOT mailbox is    *)
(* full, which the comparison with MAX_ELEMENTS does not notice.           *)
(* (MCLMAC.c 439, 460-468)                                                 *)
PacketNotLost ==
  [][received.count' < received.count =>
       \/ box'[MAC] # box[MAC]
       \/ received' = EmptyRing(ReceiveSlots)
       \/ os = "riot" /\ Len(box[MAC]) = QUEUE_SIZE]_vars

(* mclmac_write_queue_element returns, or stops the node at an assertion   *)
(* or at a write outside an array.  (MCLMAC.c 430-478)                     *)
WriteReturns == pc[MAC] # "idle" ~> (pc[MAC] = "idle" \/ fault # "none")

(* On RIOT it does, because msg_send never waits for its own thread.       *)
WriteReturnsOnRiot ==
  (os = "riot" /\ pc[MAC] # "idle") ~> (pc[MAC] = "idle" \/ fault # "none")
=============================================================================
