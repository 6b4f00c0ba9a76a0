---------------------------- MODULE PacketCodec ---------------------------
(***************************************************************************)
(* The byte strings of the three packets (MAC/ControlPacket.c, CFPacket.c, *)
(* DataPacket.c).  A number is the set of its bits that are 1, so a packet *)
(* is a set of pairs <<field, bit>>, and a byte string a set of pairs      *)
(* <<position, bit of the byte>>; to or numbers is to unite them.          *)
(***************************************************************************)
EXTENDS Integers

CONSTANT PACKET_SIZE  \* PACKET_SIZE_MAC, bytes of a byte string; 256

ASSUME PacketSizeAssumption == PACKET_SIZE \in Nat /\ PACKET_SIZE >= 57

PAYLOAD == 32         \* NRF24L01P_NG_MAX_PAYLOAD_WIDTH

Byte == 0 .. 7

(* Where the fields of a packet lie: their first and last positions, the   *)
(* most significant byte first.  The occupied slots, two bytes for each of *)
(* eight frequencies, are taken as one field.                              *)
ControlLayout ==
  [node_id_0 |-> [first |-> 1, last |-> 8],
   node_id_1 |-> [first |-> 9, last |-> 16],
   currentFrame |-> [first |-> 17, last |-> 20],
   currentSlot |-> [first |-> 21, last |-> 21],
   collisionSlot |-> [first |-> 22, last |-> 22],
   collisionFrequency |-> [first |-> 23, last |-> 26],
   hopCount |-> [first |-> 27, last |-> 28],
   networkTime |-> [first |-> 29, last |-> 36],
   initTime |-> [first |-> 37, last |-> 40],
   occupied_slots |-> [first |-> 41, last |-> 56]]

CfLayout ==
  [node_id_0 |-> [first |-> 1, last |-> 8],
   node_id_1 |-> [first |-> 9, last |-> 16],
   destination_id_0 |-> [first |-> 17, last |-> 24],
   destination_id_1 |-> [first |-> 25, last |-> 32]]

DataLayout(size) ==
  [type |-> [first |-> 0, last |-> 0],
   destination_id_0 |-> [first |-> 1, last |-> 8],
   destination_id_1 |-> [first |-> 9, last |-> 16],
   size |-> [first |-> 17, last |-> 17],
   data |-> [first |-> 18, last |-> 17 + size]]

(* The bits of a field, and of all fields of a packet.                     *)
BitsOf(layout, f) == 0 .. 8 * (layout[f].last - layout[f].first) + 7

Bits(layout) == UNION {{f} \X BitsOf(layout, f) : f \in DOMAIN layout}

-----------------------------------------------------------------------------
(* WRITE_ARRAY of (field & mask) >> shift, for every byte of every field.  *)
Encoded(layout, pkt) ==
  {<<layout[e[1]].last - (e[2] \div 8), e[2] % 8>> : e \in pkt}

(* Faulty variant (cf. Decoded): the least significant byte comes first.   *)
DecodedReversed(layout, bytes) ==
  UNION {{<<f, 8 * (q[1] - layout[f].first) + q[2]>> :
            q \in {b \in bytes : b[1] \in layout[f].first .. layout[f].last}} :
         f \in DOMAIN layout}

(* field |= READ_ARRAY << shift, for every byte of every field.            *)
Decoded(layout, bytes) ==
  UNION {{<<f, 8 * (layout[f].last - q[1]) + q[2]>> :
            q \in {b \in bytes : b[1] \in layout[f].first .. layout[f].last}} :
         f \in DOMAIN layout}

(* The byte at a position.                                                 *)
ByteAt(bytes, p) == {b \in Byte : <<p, b>> \in bytes}

(* The rest of a byte string holds one random value.                       *)
Filler(from, value) == (from .. PACKET_SIZE - 1) \X value

-----------------------------------------------------------------------------
(* controlpacket_get_packet_bytestring; the type is 1.                     *)
ControlBytes(pkt, filler) ==
  {<<0, 0>>} \cup Encoded(ControlLayout, pkt) \cup Filler(57, filler)

(* The most significant byte of the network time is shifted by 52 and not  *)
(* by 56 bits.                                                             *)
DecodedControl(bytes) ==
  {e \in Decoded(ControlLayout, bytes) : ~(e[1] = "networkTime" /\ e[2] >= 56)}
    \cup {<<"networkTime", 52 + b>> : b \in ByteAt(bytes, 29)}

(* Faulty variant (cf. ConstructControl): the type is not looked at.       *)
ConstructControlAnyway(pkt, bytes) == DecodedControl(bytes)

(* controlpacket_construct_packet_from_bytestring into a packet that may   *)
(* hold something.                                                         *)
ConstructControl(pkt, bytes) ==
  IF ByteAt(bytes, 0) = {0} THEN DecodedControl(bytes) ELSE pkt

(* cfpacket_get_packet_bytestring; the type is 0.                          *)
CfBytes(pkt, filler) == Encoded(CfLayout, pkt) \cup Filler(33, filler)

(* cfpacket_construct_packet_from_bytestring.                              *)
ConstructCf(pkt, bytes) ==
  IF ByteAt(bytes, 0) = {} THEN Decoded(CfLayout, bytes) ELSE pkt

(* The part of a cf packet that mclmac_send_cf_message copies for the      *)
(* radio; the call that would send it is commented out.                    *)
Transmitted(bytes) == {b \in bytes : b[1] < PAYLOAD}

(* The bits of the byte n that are 1.                                      *)
Ones(n) == {b \in Byte : (n \div <<1, 2, 4, 8, 16, 32, 64, 128>>[b + 1]) % 2 = 1}

(* The size of a data packet, which is one of its fields.                  *)
SizeOf(bytes) == CHOOSE n \in 0 .. 255 : ByteAt(bytes, 17) = Ones(n)

(* datapacket_get_packet_bytestring.  Data that does not fit into the byte *)
(* string is written behind it all the same: on RIOT write_element refuses *)
(* that, on Linux it goes into foreign memory and is no part of the string.*)
DataBytes(pkt, size) ==
  {b \in Encoded(DataLayout(size), pkt) : b[1] < PACKET_SIZE}

(* datapacket_construct_from_bytestring: as much data as the size says.    *)
(* What would lie behind the string is uninitialised, and taken for zeros: *)
(* nothing is said of packets with that much data.                         *)
ConstructData(bytes) == Decoded(DataLayout(SizeOf(bytes)), bytes)

=============================================================================
