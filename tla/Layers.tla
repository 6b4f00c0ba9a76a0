------------------------------- MODULE Layers -----------------------------
(***************************************************************************)
(* The MAC between the layers above it and the medium: what its thread     *)
(* does with the rings of data packets and with the queues, in the PASSIVE,*)
(* TRANSMIT, RECEIVE and FINISHP states of the PowerMode machine, and the  *)
(* threads of the upper layers, which are external.  PowerMode keeps of    *)
(* all this only whether there are packets.                                *)
(***************************************************************************)
EXTENDS IpcQueues

CONSTANTS
  MAC,           \* the MAC's thread
  Routings,      \* values of _routing_queue_id considered; 0: never set
  Topologies     \* the sets of threads considered that upper layers send to

ASSUME LayersAssumption ==
  /\ MAC \in Threads
  /\ Routings \subseteq Threads \cup {0}
  /\ Topologies \subseteq SUBSET Threads

VARIABLES
  message,       \* _message_packets_to_send
  control,       \* _control_packets_to_send
  received,      \* _packets_received
  rewound,       \* history: has the read position of received gone back to 0?
  routing,       \* _routing_queue_id; only tests ever set it
  targets        \* the threads that upper layers send to; never changes

ringVars == <<message, control, received, rewound>>
layerVars == <<ringVars, routing, targets>>
vars == <<ipcVars, layerVars>>

Upper == Threads \ {MAC}

(* MCLMAC_init has created the MAC's queue.                                *)
Init ==
  /\ InitQueues
  /\ queues = [t \in Threads |-> IF t = MAC THEN "created" ELSE "none"]
  /\ message = EmptyRing(SendSlots) /\ control = EmptyRing(SendSlots)
  /\ received = EmptyRing(ReceiveSlots) /\ rewound = FALSE
  /\ routing \in Routings
  /\ targets \in Topologies

-----------------------------------------------------------------------------
(* An upper layer, between calls, in one of its operations.  Only on RIOT  *)
(* does the size of a message matter.                                      *)
Sizes == IF os = "riot" THEN BOOLEAN ELSE {TRUE}

UpperSend(t) ==
  /\ Runs(t, "idle")
  /\ \E to \in targets, full \in Sizes :
       \/ StartSend(t, t, to, "packet", full)
       \/ Asserted(t, to) /\ Fault("assert")
       \/ Strayed(t, to) /\ Fault("stray")
  /\ UNCHANGED layerVars

UpperRecv(t) ==
  /\ Runs(t, "idle") /\ queues[t] = "open" /\ box[t] # <<>>
  /\ RecvMessage(t, "idle")
  /\ UNCHANGED layerVars

UpperQueue(t) ==
  /\ CreateQueue(t) \/ OpenQueue(t) \/ CloseQueue(t)
  /\ UNCHANGED layerVars

UpperPost(t) == Post(t) /\ UNCHANGED layerVars

-----------------------------------------------------------------------------
(* START opens the queue of the MAC.                                       *)
MacOpen == OpenQueue(MAC) /\ UNCHANGED layerVars

MacRuns(where) == Runs(MAC, where) /\ queues[MAC] = "open"

(* The MAC's thread goes on at next and does nothing else to the queues.   *)
MacGoes(next) ==
  /\ pc' = [pc EXCEPT ![MAC] = next]
  /\ UNCHANGED <<os, queues, box, storageVars, sending, fault>>

(* Faulty variant (cf. ReceiveDataPacket): the ring is not asked for room. *)
ReceiveDataPacketAnyway ==
  /\ MacRuns("idle") /\ received.count <= 2 * MAX_PACKETS
  /\ received' = Received(received, "packet")
  /\ UNCHANGED <<ipcVars, message, control, rewound, routing, targets>>

(* mclmac_receive_data_packet in RECEIVE, while the ring has room.  The    *)
(* body that would fill the byte string from the radio is commented out:   *)
(* only the native stub makes a packet of a known type, so that its type   *)
(* is chosen when it is read.                                              *)
ReceiveDataPacket ==
  /\ MacRuns("idle") /\ received.count < 2 * MAX_PACKETS
  /\ received' = Received(received, "packet")
  /\ UNCHANGED <<ipcVars, message, control, rewound, routing, targets>>

(* mclmac_send_data_packet in TRANSMIT: control packets go first.          *)
SendDataPacket ==
  /\ MacRuns("idle")
  /\ \/ /\ control.count > 0
        /\ control' = Popped(control) /\ UNCHANGED message
     \/ /\ control.count = 0 /\ message.count > 0
        /\ message' = Popped(message) /\ UNCHANGED control
  /\ UNCHANGED <<ipcVars, received, rewound, routing, targets>>

(* FINISHP, then STARTP when the node is back in MEDIUM_ACCESS.            *)
Restart ==
  /\ MacRuns("idle")
  /\ message' = EmptyRing(SendSlots) /\ control' = EmptyRing(SendSlots)
  /\ received' = EmptyRing(ReceiveSlots) /\ rewound' = FALSE
  /\ UNCHANGED <<ipcVars, routing, targets>>

-----------------------------------------------------------------------------
(* One round of PASSIVE's loop reads one message and writes one packet.    *)
(* The bytes of a message that recv_message discards are not initialized.  *)
ReadContent ==
  LET head == Head(box[MAC])
  IN IF Delivers(head) THEN Content(head) ELSE "packet"

RingsFull == message.count + control.count = 2 * MAX_PACKETS

(* The type byte, 7 to 9 or 2 to 6, chooses the ring; any other type, and  *)
(* that of zeros, makes the packet invalid.                                *)
Filed(pkt) ==
  \/ /\ pkt # Zeros /\ ~Strays(message)
     /\ message' = Pushed(message, pkt) /\ UNCHANGED control
  \/ /\ pkt # Zeros /\ ~Strays(control)
     /\ control' = Pushed(control, pkt) /\ UNCHANGED message
  \/ UNCHANGED <<message, control>>

Misfiled(pkt) == pkt # Zeros /\ (Strays(message) \/ Strays(control))

(* mclmac_read_queue_element.                                              *)
ReadQueueElement ==
  /\ MacRuns("idle") /\ (box[MAC] # <<>> \/ received.count > 0)
  /\ \/ /\ RingsFull \/ box[MAC] = <<>>
        /\ MacGoes("write") /\ UNCHANGED layerVars
     \/ /\ ~RingsFull /\ box[MAC] # <<>>
        /\ \/ Filed(ReadContent) /\ RecvMessage(MAC, "write")
           \/ Misfiled(ReadContent) /\ Fault("stray") /\ UNCHANGED <<message, control>>
        /\ UNCHANGED <<received, rewound, routing, targets>>

(* mclmac_write_queue_element up to send_message.  The number of elements  *)
(* is asked for, and asserts that the queue's identifier is not 0, before  *)
(* the identifier is compared with 0.                                      *)
QueueFull == Elements(MAC, routing) = MAX_ELEMENTS

WriteQueueElement ==
  /\ MacRuns("write")
  /\ \/ received.count > 0 /\ routing = 0 /\ Fault("assert")
     \/ /\ received.count = 0 \/ (routing # 0 /\ QueueFull)
        /\ MacGoes("idle")
     \/ received.count > 0 /\ routing # 0 /\ ~QueueFull /\ MacGoes("send")
  /\ UNCHANGED layerVars

(* Faulty variant (cf. WriteSend): what send_message returns is ignored.   *)
WriteSendUnchecked ==
  /\ MacRuns("send")
  /\ \/ /\ StartSend(MAC, routing, MAC, received.pkts[received.first], TRUE)
        /\ UNCHANGED received
     \/ /\ Refused(routing, MAC) /\ MacGoes("idle")
        /\ received' = Popped(received)
  /\ UNCHANGED <<message, control, rewound, routing, targets>>

(* send_message with the queue of the routing layer, but for _self_pid:    *)
(* the message goes to the MAC's own queue.  Refused, the packet stays.    *)
WriteSend ==
  /\ MacRuns("send")
  /\ \/ StartSend(MAC, routing, MAC, received.pkts[received.first], TRUE)
     \/ Refused(routing, MAC) /\ MacGoes("idle")
     \/ Asserted(routing, MAC) /\ Fault("assert")
     \/ Strayed(routing, MAC) /\ Fault("stray")
  /\ UNCHANGED layerVars

(* Sent, the packet is cleared.                                            *)
WritePost ==
  /\ Post(MAC)
  /\ IF pc'[MAC] = "idle"
     THEN /\ received' = Popped(received)
          /\ rewound' = (rewound \/ received.first + 1 = MAX_PACKETS)
     ELSE UNCHANGED <<received, rewound>>
  /\ UNCHANGED <<message, control, routing, targets>>

-----------------------------------------------------------------------------
Write == WriteQueueElement \/ WriteSend \/ WritePost

Next ==
  \/ MacOpen \/ ReceiveDataPacket \/ SendDataPacket \/ Restart
  \/ ReadQueueElement \/ Write
  \/ \E t \in Upper : UpperSend(t) \/ UpperRecv(t) \/ UpperQueue(t) \/ UpperPost(t)

Spec == Init /\ [][Next]_vars

(* A thread inside a call goes on with it; nothing makes a layer send,     *)
(* receive or close, or the radio deliver.                                 *)
FairSpec ==
  /\ Spec
  /\ WF_vars(Write)
  /\ \A t \in Upper : WF_vars(UpperPost(t))
=============================================================================
