------------------------------ MODULE Packets -----------------------------
(***************************************************************************)
(* The way of a packet: one node fills it and makes a byte string of it,   *)
(* the radio carries it, and another node constructs a packet from what it *)
(* has heard, of the kind that it was waiting for, in a variable that may  *)
(* still hold an earlier packet.                                           *)
(***************************************************************************)
EXTENDS PacketCodec

CONSTANTS
  BITS,      \* how many bits of the fields of a packet are 1 at most
  Sizes,     \* sizes of the data of a data packet, of type uint8_t
  Fillers    \* random values that a byte string may be filled with

ASSUME PacketsAssumption ==
  /\ BITS \in Nat
  /\ Sizes \subseteq 1 .. PACKET_SIZE - 18 /\ Sizes \subseteq 0 .. 255
  /\ Fillers \subseteq SUBSET Byte

VARIABLES
  stage,     \* how far the packet has come
  kind,      \* what the sender sends
  pkt,       \* the sender's packet
  bytes,     \* the byte string on its way
  reader,    \* what the receiver waits for
  got        \* the receiver's packet

vars == <<stage, kind, pkt, bytes, reader, got>>

Kinds == {"control", "cf", "data"}

(* What the receiver's packet may hold from before.                        *)
Earlier == {<<"node_id_0", 0>>}

(* The size field of a packet with so much data.                           *)
SizeField(size) == {"size"} \X Ones(size)

(* The size that a data packet holds.                                      *)
Size == CHOOSE n \in Sizes : SizeField(n) = {e \in pkt : e[1] = "size"}

Init ==
  /\ stage = "cleared" /\ kind \in Kinds
  /\ pkt = {} /\ bytes = {}
  /\ reader \in Kinds /\ got = Earlier

(* controlpacket_create and cfpacket_create.                               *)
Create(layout) ==
  /\ \E ones \in [1 .. BITS -> Bits(layout)] : pkt' = {ones[i] : i \in 1 .. BITS}
  /\ stage' = "created"
  /\ UNCHANGED <<kind, bytes, reader, got>>

CreateControl == stage = "cleared" /\ kind = "control" /\ Create(ControlLayout)

CreateCf == stage = "cleared" /\ kind = "cf" /\ Create(CfLayout)

(* datapacket_create; the size is one of the fields.                       *)
CreateData ==
  /\ stage = "cleared" /\ kind = "data"
  /\ \E size \in Sizes : \E ones \in [1 .. BITS -> Bits(DataLayout(size))] :
       /\ \A i \in 1 .. BITS : ones[i][1] # "size"
       /\ pkt' = SizeField(size) \cup {ones[i] : i \in 1 .. BITS}
  /\ stage' = "created"
  /\ UNCHANGED <<kind, bytes, reader, got>>

(* ..._get_packet_bytestring.                                              *)
GetBytestring ==
  /\ stage = "created"
  /\ \E filler \in Fillers :
       bytes' = CASE kind = "control" -> ControlBytes(pkt, filler)
                  [] kind = "cf" -> CfBytes(pkt, filler)
                  [] kind = "data" -> DataBytes(pkt, Size)
  /\ stage' = "encoded"
  /\ UNCHANGED <<kind, pkt, reader, got>>

(* The other kinds are split into as many frames as they need.             *)
Transmit ==
  /\ stage = "encoded"
  /\ bytes' = IF kind = "cf" THEN Transmitted(bytes) ELSE bytes
  /\ stage' = "sent"
  /\ UNCHANGED <<kind, pkt, reader, got>>

(* ..._construct_..._from_bytestring, also of a string that never left the *)
(* node, as between the layers.                                            *)
Construct ==
  /\ stage \in {"encoded", "sent"}
  /\ got' = CASE reader = "control" -> ConstructControl(got, bytes)
              [] reader = "cf" -> ConstructCf(got, bytes)
              [] reader = "data" -> ConstructData(bytes)
  /\ stage' = IF stage = "sent" THEN "received" ELSE "copied"
  /\ UNCHANGED <<kind, pkt, bytes, reader>>

(* ..._clear; the next packet is heard by a node with an earlier one.      *)
Clear ==
  /\ stage \in {"received", "copied"}
  /\ pkt' = {} /\ bytes' = {} /\ got' = Earlier
  /\ stage' = "cleared"
  /\ UNCHANGED <<kind, reader>>

Next == CreateControl \/ CreateCf \/ CreateData \/ GetBytestring \/ Transmit \/ Construct \/ Clear

Spec == Init /\ [][Next]_vars

-----------------------------------------------------------------------------
(* What a packet loses on its way: the most significant byte of a network  *)
(* time, and of a cf packet that went over the air the least significant   *)
(* byte of the destination.                                                *)
Lost ==
  CASE kind = "control" -> {"networkTime"} \X (56 .. 63)
    [] kind = "cf" /\ stage = "received" -> {"destination_id_1"} \X Byte
    [] OTHER -> {}

(* Every other field of a packet survives its byte string, whatever the    *)
(* receiver's packet held before and whatever the filler is; what is lost  *)
(* of a network time spoils only its bits 52 to 59.                        *)
(* (ControlPacket.c 160-293, CFPacket.c 80-182, DataPacket.c 85-175)       *)
FieldsSurvive ==
  stage \in {"received", "copied"} /\ reader = kind =>
    /\ pkt \ Lost \subseteq got
    /\ got \subseteq pkt \cup
         (IF pkt \cap Lost # {} /\ kind = "control" THEN {"networkTime"} \X (52 .. 59) ELSE {})

(* A receiver that waits for a control packet does not take a cf packet    *)
(* for one, nor the other way round: its packet stays what it was.         *)
(* (ControlPacket.c 235, CFPacket.c 138)                                   *)
KindsApart ==
  stage \in {"received", "copied"} /\ {reader, kind} = {"control", "cf"} => got = Earlier
=============================================================================
