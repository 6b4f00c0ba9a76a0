---------------------------- MODULE PacketRings ---------------------------
(***************************************************************************)
(* The three rings in which the MAC keeps data packets                     *)
(* (MAC/include/MAC_Internals.h): message packets and control packets to   *)
(* send, and packets received.  These are their operations as functions of *)
(* a ring; the handlers that call them are in Layers.  A slot or a message *)
(* holds a packet, or nothing but zeros after it was cleared.              *)
(***************************************************************************)
EXTENDS Naturals

CONSTANT MAX_PACKETS     \* MAX_NUMBER_DATA_PACKETS; 10 in the code

ASSUME PacketRingsAssumption == MAX_PACKETS \in Nat \ {0}

(* What datapacket_clear and memset leave.                                 *)
Zeros == "zeros"

Contents == {"packet", Zeros}

SendSlots == 0 .. MAX_PACKETS - 1

ReceiveSlots == 0 .. 2 * MAX_PACKETS - 1

(* A ring after FINISHP and STARTP.                                        *)
EmptyRing(slots) ==
  [first |-> 0, last |-> 0, count |-> 0, pkts |-> [i \in slots |-> Zeros]]

-----------------------------------------------------------------------------
(* mclmac_read_queue_element does not wrap the write position: past the    *)
(* last slot it writes outside the array.                                  *)
Strays(r) == r.last \notin SendSlots

Pushed(r, pkt) ==
  [r EXCEPT !.pkts[r.last] = pkt, !.last = @ + 1, !.count = @ + 1]

(* Faulty variant (cf. Popped): the packet sent is not cleared.            *)
PoppedUncleared(r) == [r EXCEPT !.first = (@ + 1) % MAX_PACKETS, !.count = @ - 1]

(* The packet at the head is sent and cleared.  The read position of the   *)
(* ring of received packets wraps like that of a ring of packets to send,  *)
(* although it has twice as many slots.                                    *)
Popped(r) ==
  [r EXCEPT !.pkts[r.first] = Zeros, !.first = (@ + 1) % MAX_PACKETS, !.count = @ - 1]

(* Faulty variant (cf. Received): wraps where the other rings do.          *)
ReceivedHalf(r, pkt) ==
  [r EXCEPT !.pkts[r.last] = pkt, !.last = (@ + 1) % MAX_PACKETS, !.count = @ + 1]

(* mclmac_receive_data_packet.                                             *)
Received(r, pkt) ==
  [r EXCEPT !.pkts[r.last] = pkt, !.last = (@ + 1) % (2 * MAX_PACKETS), !.count = @ + 1]
=============================================================================
