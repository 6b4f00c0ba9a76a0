------------------------- MODULE PacketCodecProofs ------------------------
(***************************************************************************)
(* Proofs about the byte strings, for every packet: TLC looks at packets   *)
(* of one bit.                                                             *)
(***************************************************************************)
EXTENDS PacketCodec, TLAPS

(* The fields of a packet lie one beside the other.                        *)
WellFormed(layout) ==
  /\ \A f \in DOMAIN layout : /\ layout[f].first \in Nat /\ layout[f].last \in Nat
                              /\ layout[f].first <= layout[f].last
  /\ \A f, g \in DOMAIN layout :
       f # g => layout[f].last < layout[g].first \/ layout[g].last < layout[f].first

Positions(layout) == UNION {layout[f].first .. layout[f].last : f \in DOMAIN layout}

-----------------------------------------------------------------------------
LEMMA DivMod ==
  ASSUME NEW b \in Nat
  PROVE  /\ b \div 8 \in Nat /\ b % 8 \in 0 .. 7
         /\ b = 8 * (b \div 8) + (b % 8)
OBVIOUS

(* A bit goes to a byte of its own field, and comes back from it.          *)
LEMMA BitThereAndBack ==
  ASSUME NEW layout, WellFormed(layout), NEW f \in DOMAIN layout,
         NEW b \in BitsOf(layout, f)
  PROVE  LET p == layout[f].last - (b \div 8)
         IN /\ p \in layout[f].first .. layout[f].last
            /\ 8 * (layout[f].last - p) + (b % 8) = b
<1>1. /\ layout[f].first \in Nat /\ layout[f].last \in Nat
      /\ layout[f].first <= layout[f].last
  BY DEF WellFormed
<1>2. b \in Nat /\ b <= 8 * (layout[f].last - layout[f].first) + 7
  BY <1>1 DEF BitsOf
<1> QED
  BY <1>1, <1>2, DivMod

(* Decoding inverts encoding, whatever else stands beside the fields.      *)
LEMMA DecodedEncoded ==
  ASSUME NEW layout, WellFormed(layout),
         NEW pkt \in SUBSET Bits(layout),
         NEW rest, \A q \in rest : q[1] \notin Positions(layout)
  PROVE  Decoded(layout, Encoded(layout, pkt) \cup rest) = pkt
<1> DEFINE bytes == Encoded(layout, pkt) \cup rest
<1>1. ASSUME NEW e \in pkt PROVE e \in Decoded(layout, bytes)
  <2>1. PICK f \in DOMAIN layout : e \in {f} \X BitsOf(layout, f)
    BY DEF Bits
  <2>2. e = <<f, e[2]>> /\ e[1] = f /\ e[2] \in BitsOf(layout, f)
    BY <2>1
  <2> DEFINE q == <<layout[f].last - (e[2] \div 8), e[2] % 8>>
  <2>3. q \in bytes
    BY <2>2 DEF Encoded
  <2>4. /\ q[1] \in layout[f].first .. layout[f].last
        /\ 8 * (layout[f].last - q[1]) + q[2] = e[2]
    BY <2>2, BitThereAndBack
  <2>5. e = <<f, 8 * (layout[f].last - q[1]) + q[2]>>
    BY <2>2, <2>4
  <2> HIDE DEF q, bytes
  <2> QED
    BY <2>3, <2>4, <2>5 DEF Decoded
<1>2. ASSUME NEW d \in Decoded(layout, bytes) PROVE d \in pkt
  <2> HIDE DEF bytes
  <2>1. PICK f \in DOMAIN layout, q \in bytes :
          /\ q[1] \in layout[f].first .. layout[f].last
          /\ d = <<f, 8 * (layout[f].last - q[1]) + q[2]>>
    BY DEF Decoded
  <2>2. q \notin rest
    BY <2>1 DEF Positions
  <2>3. PICK e \in pkt : q = <<layout[e[1]].last - (e[2] \div 8), e[2] % 8>>
    BY <2>2 DEF bytes, Encoded
  <2>4. PICK g \in DOMAIN layout : e \in {g} \X BitsOf(layout, g)
    BY DEF Bits
  <2>5. e = <<g, e[2]>> /\ e[1] = g /\ e[2] \in BitsOf(layout, g)
    BY <2>4
  <2>6. /\ q[1] = layout[g].last - (e[2] \div 8) /\ q[2] = e[2] % 8
        /\ q[1] \in layout[g].first .. layout[g].last
        /\ 8 * (layout[g].last - q[1]) + q[2] = e[2]
    BY <2>3, <2>5, BitThereAndBack
  <2>7. f = g
    BY <2>1, <2>6 DEF WellFormed
  <2> QED
    BY <2>1, <2>5, <2>6, <2>7
<1> QED
  BY <1>1, <1>2

(* In particular when nothing stands beside them.                          *)
LEMMA DecodedEncodedAlone ==
  ASSUME NEW layout, WellFormed(layout), NEW pkt \in SUBSET Bits(layout)
  PROVE  Decoded(layout, Encoded(layout, pkt)) = pkt
<1> DEFINE rest == {}
<1>1. /\ \A q \in rest : q[1] \notin Positions(layout)
      /\ Encoded(layout, pkt) \cup rest = Encoded(layout, pkt)
  OBVIOUS
<1> HIDE DEF rest
<1>2. Decoded(layout, Encoded(layout, pkt) \cup rest) = pkt
  BY <1>1, DecodedEncoded
<1> QED
  BY <1>1, <1>2

-----------------------------------------------------------------------------
ControlFields ==
  {"node_id_0", "node_id_1", "currentFrame", "currentSlot", "collisionSlot",
   "collisionFrequency", "hopCount", "networkTime", "initTime", "occupied_slots"}

CfFields == {"node_id_0", "node_id_1", "destination_id_0", "destination_id_1"}

LEMMA ControlWellFormed ==
  /\ DOMAIN ControlLayout = ControlFields
  /\ WellFormed(ControlLayout)
  /\ Positions(ControlLayout) \subseteq 1 .. 56
<1>1. DOMAIN ControlLayout = ControlFields
  BY DEF ControlLayout, ControlFields
<1>2. \A f \in ControlFields : /\ ControlLayout[f].first \in Nat /\ ControlLayout[f].last \in Nat
                               /\ ControlLayout[f].first <= ControlLayout[f].last
                               /\ ControlLayout[f].first >= 1 /\ ControlLayout[f].last <= 56
  BY DEF ControlLayout, ControlFields
<1>3. \A f, g \in ControlFields :
        f # g => \/ ControlLayout[f].last < ControlLayout[g].first
                 \/ ControlLayout[g].last < ControlLayout[f].first
  BY DEF ControlLayout, ControlFields
<1> QED
  BY <1>1, <1>2, <1>3 DEF WellFormed, Positions

LEMMA CfWellFormed ==
  /\ DOMAIN CfLayout = CfFields
  /\ WellFormed(CfLayout)
  /\ Positions(CfLayout) \subseteq 1 .. 32
<1>1. DOMAIN CfLayout = CfFields
  BY DEF CfLayout, CfFields
<1>2. \A f \in CfFields : /\ CfLayout[f].first \in Nat /\ CfLayout[f].last \in Nat
                          /\ CfLayout[f].first <= CfLayout[f].last
                          /\ CfLayout[f].first >= 1 /\ CfLayout[f].last <= 32
  BY DEF CfLayout, CfFields
<1>3. \A f, g \in CfFields :
        f # g => CfLayout[f].last < CfLayout[g].first \/ CfLayout[g].last < CfLayout[f].first
  BY DEF CfLayout, CfFields
<1> QED
  BY <1>1, <1>2, <1>3 DEF WellFormed, Positions

-----------------------------------------------------------------------------
(* Only the fields write the positions of the fields.                      *)
LEMMA EncodedInside ==
  ASSUME NEW layout, WellFormed(layout), NEW pkt \in SUBSET Bits(layout),
         NEW q \in Encoded(layout, pkt)
  PROVE  \E f \in DOMAIN layout : \E b \in BitsOf(layout, f) :
           /\ <<f, b>> \in pkt
           /\ q = <<layout[f].last - (b \div 8), b % 8>>
           /\ q[1] \in layout[f].first .. layout[f].last
<1>1. PICK e \in pkt : q = <<layout[e[1]].last - (e[2] \div 8), e[2] % 8>>
  BY DEF Encoded
<1>2. PICK f \in DOMAIN layout : e \in {f} \X BitsOf(layout, f)
  BY DEF Bits
<1>3. e = <<f, e[2]>> /\ e[1] = f /\ e[2] \in BitsOf(layout, f)
  BY <1>2
<1>4. layout[f].last - (e[2] \div 8) \in layout[f].first .. layout[f].last
  BY <1>3, BitThereAndBack
<1> QED
  BY <1>1, <1>3, <1>4

LEMMA EncodedPositions ==
  ASSUME NEW layout, WellFormed(layout), NEW pkt \in SUBSET Bits(layout)
  PROVE  \A q \in Encoded(layout, pkt) : q[1] \in Positions(layout)
<1> SUFFICES ASSUME NEW q \in Encoded(layout, pkt) PROVE q[1] \in Positions(layout)
  OBVIOUS
<1>1. PICK f \in DOMAIN layout : q[1] \in layout[f].first .. layout[f].last
  BY EncodedInside
<1> QED
  BY <1>1 DEF Positions

(* What a receiver finds in the byte string of a control packet: the type, *)
(* the fields, and in the position of the most significant byte of the     *)
(* network time only bits of that byte.                                    *)
LEMMA ControlBytesHold ==
  ASSUME NEW pkt \in SUBSET Bits(ControlLayout), NEW filler \in SUBSET Byte
  PROVE  /\ ByteAt(ControlBytes(pkt, filler), 0) = {0}
         /\ Decoded(ControlLayout, ControlBytes(pkt, filler)) = pkt
         /\ ByteAt(ControlBytes(pkt, filler), 29) # {} =>
              \E b \in 56 .. 63 : <<"networkTime", b>> \in pkt
<1> DEFINE encoded == Encoded(ControlLayout, pkt)
           rest == {<<0, 0>>} \cup Filler(57, filler)
           bytes == encoded \cup rest
<1>1. ControlBytes(pkt, filler) = bytes
  BY DEF ControlBytes
<1>2. \A q \in rest : q[1] = 0 \/ q[1] >= 57
  BY PacketSizeAssumption DEF Filler
<1>3. \A q \in rest : q[1] \notin Positions(ControlLayout)
  BY <1>2, ControlWellFormed
<1>4. Decoded(ControlLayout, bytes) = pkt
  BY <1>3, ControlWellFormed, DecodedEncoded
<1>5. \A q \in encoded : q[1] \in Positions(ControlLayout)
  BY EncodedPositions, ControlWellFormed
<1>6. ByteAt(bytes, 0) = {0}
  <2>1. \A b \in Byte : <<0, b>> \in bytes <=> b = 0
    <3>1. \A b \in Byte : <<0, b>> \notin encoded
      BY <1>5, ControlWellFormed
    <3>2. \A b \in Byte : <<0, b>> \notin Filler(57, filler)
      BY PacketSizeAssumption DEF Filler
    <3> QED
      BY <3>1, <3>2
  <2> QED
    BY <2>1 DEF ByteAt, Byte
<1>7. ASSUME NEW b \in ByteAt(bytes, 29)
      PROVE  \E k \in 56 .. 63 : <<"networkTime", k>> \in pkt
  <2>1. <<29, b>> \in bytes
    BY DEF ByteAt
  <2>2. <<29, b>> \in encoded
    BY <2>1, <1>2
  <2>3. PICK f \in ControlFields : \E k \in BitsOf(ControlLayout, f) :
          /\ <<f, k>> \in pkt
          /\ <<29, b>> = <<ControlLayout[f].last - (k \div 8), k % 8>>
          /\ 29 \in ControlLayout[f].first .. ControlLayout[f].last
    BY <2>2, EncodedInside, ControlWellFormed, ZenonT(40)
  <2>4. f = "networkTime"
    BY <2>3 DEF ControlLayout, ControlFields
  <2>5. PICK k \in 0 .. 63 : <<"networkTime", k>> \in pkt /\ 29 = 36 - (k \div 8)
    BY <2>3, <2>4 DEF BitsOf, ControlLayout
  <2>6. k \in 56 .. 63
    BY <2>5, DivMod
  <2> QED
    BY <2>5, <2>6
<1> HIDE DEF bytes
<1> QED
  BY <1>1, <1>4, <1>6, <1>7

(* Only bits of the network time's most significant byte are lost of a     *)
(* control packet, and they can come back only as bits 52 to 59 of it.     *)
TopByte == {"networkTime"} \X (56 .. 63)

LEMMA TopByteIs ==
  ASSUME NEW pkt \in SUBSET Bits(ControlLayout), NEW e \in pkt
  PROVE  (e[1] = "networkTime" /\ e[2] >= 56) <=> e \in TopByte
<1>1. PICK f \in ControlFields : e \in {f} \X BitsOf(ControlLayout, f)
  BY ControlWellFormed DEF Bits
<1>2. e = <<f, e[2]>> /\ e[1] = f /\ e[2] \in BitsOf(ControlLayout, f)
  BY <1>1
<1>3. ASSUME e[1] = "networkTime", e[2] >= 56 PROVE e \in TopByte
  <2>1. e[2] \in 0 .. 63
    BY <1>2, <1>3 DEF BitsOf, ControlLayout
  <2> QED
    BY <1>2, <1>3, <2>1 DEF TopByte
<1>4. ASSUME e \in TopByte PROVE e[1] = "networkTime" /\ e[2] >= 56
  BY <1>4 DEF TopByte
<1> QED
  BY <1>3, <1>4

(* What is constructed from the byte string of a control packet holds all  *)
(* of it but the most significant byte of its network time, whatever was   *)
(* held before and whatever the random filler is; and it holds nothing     *)
(* else, unless that byte was not 0 (ControlPacket.c 160-293; line 273     *)
(* shifts that byte to another place).                                     *)
THEOREM ControlPacketMostlySurvives ==
  ASSUME NEW pkt \in SUBSET Bits(ControlLayout), NEW filler \in SUBSET Byte, NEW old
  PROVE  LET g == ConstructControl(old, ControlBytes(pkt, filler))
         IN /\ pkt \ TopByte \subseteq g
            /\ g \subseteq pkt \cup
                 (IF pkt \cap TopByte # {} THEN {"networkTime"} \X (52 .. 59) ELSE {})
<1> DEFINE bytes == ControlBytes(pkt, filler)
           moved == {<<"networkTime", 52 + b>> : b \in ByteAt(bytes, 29)}
<1>1. ConstructControl(old, bytes) =
        {e \in pkt : ~(e[1] = "networkTime" /\ e[2] >= 56)} \cup moved
  BY ControlBytesHold DEF ConstructControl, DecodedControl
<1>2. {e \in pkt : ~(e[1] = "networkTime" /\ e[2] >= 56)} = pkt \ TopByte
  BY TopByteIs
<1>3. moved \subseteq {"networkTime"} \X (52 .. 59)
  <2>1. \A b \in ByteAt(bytes, 29) : 52 + b \in 52 .. 59
    BY DEF ByteAt, Byte
  <2> QED
    BY <2>1
<1>4. moved # {} => pkt \cap TopByte # {}
  <2>1. SUFFICES ASSUME ByteAt(bytes, 29) # {} PROVE pkt \cap TopByte # {}
    OBVIOUS
  <2>2. PICK b \in 56 .. 63 : <<"networkTime", b>> \in pkt
    BY <2>1, ControlBytesHold
  <2> QED
    BY <2>2 DEF TopByte
<1> HIDE DEF moved
<1> QED
  BY <1>1, <1>2, <1>3, <1>4

(* So a control packet constructed from the byte string of another one is  *)
(* that packet, as long as the most significant byte of its network time   *)
(* is 0.                                                                   *)
THEOREM ControlPacketSurvives ==
  ASSUME NEW pkt \in SUBSET Bits(ControlLayout),
         \A b \in 56 .. 63 : <<"networkTime", b>> \notin pkt,
         NEW filler \in SUBSET Byte, NEW old
  PROVE  ConstructControl(old, ControlBytes(pkt, filler)) = pkt
<1>1. pkt \cap TopByte = {} /\ pkt \ TopByte = pkt
  BY DEF TopByte
<1> QED
  BY <1>1, ControlPacketMostlySurvives, SMTT(30)

(* The byte string of a cf packet likewise (CFPacket.c 80-182), as long as *)
(* it is not cut to what one frame carries.                                *)
THEOREM CfPacketSurvives ==
  ASSUME NEW pkt \in SUBSET Bits(CfLayout), NEW filler \in SUBSET Byte, NEW old
  PROVE  ConstructCf(old, CfBytes(pkt, filler)) = pkt
<1> DEFINE encoded == Encoded(CfLayout, pkt)
           rest == Filler(33, filler)
<1>1. \A q \in rest : q[1] >= 33
  BY PacketSizeAssumption DEF Filler
<1>2. \A q \in rest : q[1] \notin Positions(CfLayout)
  BY <1>1, CfWellFormed
<1>3. Decoded(CfLayout, encoded \cup rest) = pkt
  BY <1>2, CfWellFormed, DecodedEncoded
<1>4. \A q \in encoded : q[1] \in Positions(CfLayout)
  BY EncodedPositions, CfWellFormed
<1>5. ByteAt(encoded \cup rest, 0) = {}
  BY <1>1, <1>4, CfWellFormed DEF ByteAt
<1> QED
  BY <1>3, <1>5 DEF ConstructCf, CfBytes

(* No cf packet is taken for a control packet, whatever its fields hold    *)
(* (ControlPacket.c 235).                                                  *)
THEOREM CfPacketIsNoControlPacket ==
  ASSUME NEW pkt \in SUBSET Bits(CfLayout), NEW filler \in SUBSET Byte, NEW old
  PROVE  ConstructControl(old, CfBytes(pkt, filler)) = old
<1>1. \A q \in Encoded(CfLayout, pkt) : q[1] \in Positions(CfLayout)
  BY EncodedPositions, CfWellFormed
<1>2. \A q \in Filler(33, filler) : q[1] >= 33
  BY PacketSizeAssumption DEF Filler
<1>3. ByteAt(CfBytes(pkt, filler), 0) = {}
  BY <1>1, <1>2, CfWellFormed DEF ByteAt, CfBytes
<1> QED
  BY <1>3 DEF ConstructControl

(* The least significant byte of the destination of a cf packet, at        *)
(* position 32, does not fit into a frame.                                 *)
CutByte == {"destination_id_1"} \X Byte

LEMMA TransmittedIs ==
  ASSUME NEW pkt \in SUBSET Bits(CfLayout), NEW filler \in SUBSET Byte
  PROVE  Transmitted(CfBytes(pkt, filler)) = Encoded(CfLayout, pkt \ CutByte)
<1>1. \A q \in Filler(33, filler) : q[1] >= 33
  BY PacketSizeAssumption DEF Filler
<1>2. ASSUME NEW e \in pkt
      PROVE  CfLayout[e[1]].last - (e[2] \div 8) < 32 <=> e \notin CutByte
  <2>1. PICK f \in CfFields : e \in {f} \X BitsOf(CfLayout, f)
    BY CfWellFormed DEF Bits
  <2>2. e = <<f, e[2]>> /\ e[1] = f /\ e[2] \in BitsOf(CfLayout, f)
    BY <2>1
  <2>3. CASE f = "destination_id_1"
    <3>1. e[2] \in 0 .. 63 /\ CfLayout[f].last = 32
      BY <2>2, <2>3 DEF BitsOf, CfLayout
    <3>2. e[2] \div 8 = 0 <=> e[2] \in 0 .. 7
      BY <3>1, DivMod
    <3>3. e[2] \div 8 \in Nat
      BY <3>1, DivMod
    <3> QED
      BY <2>2, <2>3, <3>1, <3>2, <3>3 DEF CutByte, Byte
  <2>4. CASE f # "destination_id_1"
    <3>1. e[2] \in Nat /\ CfLayout[f].last \in 0 .. 24
      BY <2>2, <2>4 DEF BitsOf, CfLayout, CfFields
    <3>2. e[2] \div 8 \in Nat
      BY <3>1, DivMod
    <3> QED
      BY <2>2, <2>4, <3>1, <3>2 DEF CutByte
  <2> QED
    BY <2>3, <2>4
<1>3. ASSUME NEW q \in Transmitted(CfBytes(pkt, filler))
      PROVE  q \in Encoded(CfLayout, pkt \ CutByte)
  <2>1. q \in Encoded(CfLayout, pkt) /\ q[1] < 32
    <3>1. q \in CfBytes(pkt, filler) /\ q[1] < 32
      BY DEF Transmitted, PAYLOAD
    <3>2. q \notin Filler(33, filler)
      <4>1. ASSUME q \in Filler(33, filler) PROVE q[1] \in Int
        BY <4>1, PacketSizeAssumption DEF Filler
      <4> QED
        BY <1>1, <3>1, <4>1
    <3> QED
      BY <3>1, <3>2 DEF CfBytes
  <2>2. PICK e \in pkt : q = <<CfLayout[e[1]].last - (e[2] \div 8), e[2] % 8>>
    BY <2>1 DEF Encoded
  <2>3. e \notin CutByte
    BY <1>2, <2>1, <2>2
  <2> QED
    BY <2>2, <2>3 DEF Encoded
<1>4. ASSUME NEW q \in Encoded(CfLayout, pkt \ CutByte)
      PROVE  q \in Transmitted(CfBytes(pkt, filler))
  <2>1. PICK e \in pkt \ CutByte : q = <<CfLayout[e[1]].last - (e[2] \div 8), e[2] % 8>>
    BY DEF Encoded
  <2>2. q[1] < 32
    BY <1>2, <2>1
  <2> QED
    BY <2>1, <2>2 DEF Encoded, CfBytes, Transmitted, PAYLOAD
<1> QED
  BY <1>3, <1>4

(* What the receiver of a cf packet has of it that went over the air: all  *)
(* but that byte (Packets_Handlers.c 75-80, CFPacket.c 80-182).            *)
THEOREM CutCfPacket ==
  ASSUME NEW pkt \in SUBSET Bits(CfLayout), NEW filler \in SUBSET Byte, NEW old
  PROVE  /\ ConstructCf(old, Transmitted(CfBytes(pkt, filler))) = pkt \ CutByte
         /\ ConstructControl(old, Transmitted(CfBytes(pkt, filler))) = old
<1> DEFINE kept == pkt \ CutByte
           bytes == Encoded(CfLayout, kept)
<1>1. kept \in SUBSET Bits(CfLayout) /\ Transmitted(CfBytes(pkt, filler)) = bytes
  BY TransmittedIs
<1>2. Decoded(CfLayout, bytes) = kept
  BY <1>1, CfWellFormed, DecodedEncodedAlone
<1>3. ByteAt(bytes, 0) = {}
  <2>1. \A q \in bytes : q[1] \in Positions(CfLayout)
    BY <1>1, EncodedPositions, CfWellFormed
  <2> QED
    BY <2>1, CfWellFormed DEF ByteAt
<1> HIDE DEF bytes
<1> QED
  BY <1>1, <1>2, <1>3 DEF ConstructCf, ConstructControl

-----------------------------------------------------------------------------
(* Data packets.  A byte is known from its bits.                           *)
LEMMA Digits ==
  ASSUME NEW n \in 0 .. 255
  PROVE  /\ n = 2 * (n \div 2) + (n % 2)
         /\ n \div 2 = 2 * (n \div 4) + ((n \div 2) % 2)
         /\ n \div 4 = 2 * (n \div 8) + ((n \div 4) % 2)
         /\ n \div 8 = 2 * (n \div 16) + ((n \div 8) % 2)
         /\ n \div 16 = 2 * (n \div 32) + ((n \div 16) % 2)
         /\ n \div 32 = 2 * (n \div 64) + ((n \div 32) % 2)
         /\ n \div 64 = 2 * (n \div 128) + ((n \div 64) % 2)
         /\ n \div 128 = (n \div 128) % 2
<1>1. n = 2 * (n \div 2) + (n % 2)
  OBVIOUS
<1>2. n \div 2 = 2 * (n \div 4) + ((n \div 2) % 2)
  OBVIOUS
<1>3. n \div 4 = 2 * (n \div 8) + ((n \div 4) % 2)
  OBVIOUS
<1>4. n \div 8 = 2 * (n \div 16) + ((n \div 8) % 2)
  OBVIOUS
<1>5. n \div 16 = 2 * (n \div 32) + ((n \div 16) % 2)
  OBVIOUS
<1>6. n \div 32 = 2 * (n \div 64) + ((n \div 32) % 2)
  OBVIOUS
<1>7. n \div 64 = 2 * (n \div 128) + ((n \div 64) % 2)
  OBVIOUS
<1>8. n \div 128 = (n \div 128) % 2
  OBVIOUS
<1> QED
  BY <1>1, <1>2, <1>3, <1>4, <1>5, <1>6, <1>7, <1>8

LEMMA OnesInjective ==
  ASSUME NEW m \in 0 .. 255, NEW n \in 0 .. 255, Ones(m) = Ones(n)
  PROVE  m = n
<1>1. m \div 128 = n \div 128
  <2>1. \A k \in 0 .. 255 : (k \div 128) % 2 = IF 7 \in Ones(k) THEN 1 ELSE 0
    BY DEF Ones, Byte
  <2>2. (m \div 128) % 2 = (n \div 128) % 2
    BY <2>1, SMTT(30)
  <2> QED
    BY <2>2, Digits
<1>2. m \div 64 = n \div 64
  <2>1. \A k \in 0 .. 255 : (k \div 64) % 2 = IF 6 \in Ones(k) THEN 1 ELSE 0
    BY DEF Ones, Byte
  <2>2. (m \div 64) % 2 = (n \div 64) % 2
    BY <2>1
  <2> QED
    BY <1>1, <2>2, Digits
<1>3. m \div 32 = n \div 32
  <2>1. \A k \in 0 .. 255 : (k \div 32) % 2 = IF 5 \in Ones(k) THEN 1 ELSE 0
    BY DEF Ones, Byte
  <2>2. (m \div 32) % 2 = (n \div 32) % 2
    BY <2>1
  <2> QED
    BY <1>2, <2>2, Digits
<1>4. m \div 16 = n \div 16
  <2>1. \A k \in 0 .. 255 : (k \div 16) % 2 = IF 4 \in Ones(k) THEN 1 ELSE 0
    BY DEF Ones, Byte
  <2>2. (m \div 16) % 2 = (n \div 16) % 2
    BY <2>1
  <2> QED
    BY <1>3, <2>2, Digits
<1>5. m \div 8 = n \div 8
  <2>1. \A k \in 0 .. 255 : (k \div 8) % 2 = IF 3 \in Ones(k) THEN 1 ELSE 0
    BY DEF Ones, Byte
  <2>2. (m \div 8) % 2 = (n \div 8) % 2
    BY <2>1
  <2> QED
    BY <1>4, <2>2, Digits
<1>6. m \div 4 = n \div 4
  <2>1. \A k \in 0 .. 255 : (k \div 4) % 2 = IF 2 \in Ones(k) THEN 1 ELSE 0
    BY DEF Ones, Byte
  <2>2. (m \div 4) % 2 = (n \div 4) % 2
    BY <2>1
  <2> QED
    BY <1>5, <2>2, Digits
<1>7. m \div 2 = n \div 2
  <2>1. \A k \in 0 .. 255 : (k \div 2) % 2 = IF 1 \in Ones(k) THEN 1 ELSE 0
    BY DEF Ones, Byte
  <2>2. (m \div 2) % 2 = (n \div 2) % 2
    BY <2>1
  <2> QED
    BY <1>6, <2>2, Digits
<1>8. m = n
  <2>1. \A k \in 0 .. 255 : k % 2 = IF 0 \in Ones(k) THEN 1 ELSE 0
    BY DEF Ones, Byte
  <2>2. m % 2 = n % 2
    BY <2>1
  <2> QED
    BY <1>7, <2>2, Digits
<1> QED
  BY <1>8

DataFields == {"type", "destination_id_0", "destination_id_1", "size", "data"}

LEMMA DataWellFormed ==
  ASSUME NEW size \in 1 .. 255
  PROVE  DOMAIN DataLayout(size) = DataFields /\ WellFormed(DataLayout(size))
<1>1. DOMAIN DataLayout(size) = DataFields
  BY DEF DataLayout, DataFields
<1>2. \A f \in DataFields :
        /\ DataLayout(size)[f].first \in Nat /\ DataLayout(size)[f].last \in Nat
        /\ DataLayout(size)[f].first <= DataLayout(size)[f].last
  BY DEF DataLayout, DataFields
<1>3. \A f, g \in DataFields :
        f # g => \/ DataLayout(size)[f].last < DataLayout(size)[g].first
                 \/ DataLayout(size)[g].last < DataLayout(size)[f].first
  BY DEF DataLayout, DataFields
<1> QED
  BY <1>1, <1>2, <1>3 DEF WellFormed

(* A data packet with so much data, whose size field says so.              *)
IsData(pkt, size) ==
  /\ pkt \in SUBSET Bits(DataLayout(size))
  /\ {e \in pkt : e[1] = "size"} = {"size"} \X Ones(size)

(* Data of at most PACKET_SIZE - 18 bytes stays inside the byte string.    *)
LEMMA DataFits ==
  ASSUME NEW size \in 1 .. 255, size <= PACKET_SIZE - 18, NEW pkt, IsData(pkt, size)
  PROVE  DataBytes(pkt, size) = Encoded(DataLayout(size), pkt)
<1> DEFINE layout == DataLayout(size)
<1>1. /\ WellFormed(layout) /\ DOMAIN layout = DataFields
      /\ pkt \in SUBSET Bits(layout)
  BY DataWellFormed DEF IsData
<1>2. \A f \in DataFields : /\ layout[f].first \in Nat /\ layout[f].last \in Nat
                            /\ layout[f].last < PACKET_SIZE
  BY PacketSizeAssumption DEF DataLayout, DataFields
<1>3. ASSUME NEW q \in Encoded(layout, pkt) PROVE q[1] < PACKET_SIZE
  <2> HIDE DEF layout
  <2>1. PICK f \in DataFields : q[1] \in layout[f].first .. layout[f].last
    BY <1>1, EncodedInside
  <2> QED
    BY <1>2, <2>1, PacketSizeAssumption
<1> QED
  BY <1>3 DEF DataBytes

LEMMA SizeIsRead ==
  ASSUME NEW size \in 1 .. 255, size <= PACKET_SIZE - 18, NEW pkt, IsData(pkt, size)
  PROVE  SizeOf(DataBytes(pkt, size)) = size
<1> DEFINE layout == DataLayout(size)
           bytes == DataBytes(pkt, size)
<1>1. layout["size"].last = 17 /\ layout["size"].first = 17
  BY DEF DataLayout
<1>2. ASSUME NEW b \in Byte, <<17, b>> \in bytes PROVE b \in Ones(size)
  <2>1. PICK f \in DataFields : \E k \in BitsOf(layout, f) :
          /\ <<f, k>> \in pkt
          /\ <<17, b>> = <<layout[f].last - (k \div 8), k % 8>>
          /\ <<17, b>>[1] \in layout[f].first .. layout[f].last
    <3>1. /\ WellFormed(layout) /\ DOMAIN layout = DataFields
          /\ pkt \in SUBSET Bits(layout) /\ <<17, b>> \in Encoded(layout, pkt)
      BY <1>2, DataWellFormed DEF DataBytes, IsData
    <3> HIDE DEF layout
    <3> QED
      BY <3>1, EncodedInside
  <2>2. f = "size"
    BY <2>1 DEF DataLayout, DataFields
  <2>3. PICK k \in 0 .. 7 : <<"size", k>> \in pkt /\ b = k % 8
    <3>1. BitsOf(layout, "size") = 0 .. 7
      BY <1>1 DEF BitsOf
    <3> HIDE DEF layout
    <3> QED
      BY <2>1, <2>2, <3>1
  <2>4. b = k
    BY <2>3
  <2>5. <<"size", b>> \in {"size"} \X Ones(size)
    BY <2>3, <2>4 DEF IsData
  <2> QED
    BY <2>5
<1>3. ASSUME NEW b \in Ones(size) PROVE <<17, b>> \in bytes
  <2>1. <<"size", b>> \in pkt /\ b \in 0 .. 7
    BY DEF IsData, Ones, Byte
  <2>2. b \div 8 = 0 /\ b % 8 = b
    BY <2>1
  <2>3. <<layout["size"].last - (b \div 8), b % 8>> = <<17, b>>
    BY <1>1, <2>2
  <2>4. <<17, b>> \in Encoded(layout, pkt)
    BY <2>1, <2>3 DEF Encoded
  <2> QED
    BY <2>4, DataFits
<1>4. ByteAt(bytes, 17) = Ones(size)
  BY <1>2, <1>3 DEF ByteAt, Ones
<1>5. size \in 0 .. 255
  OBVIOUS
<1>6. ASSUME NEW n \in 0 .. 255, Ones(n) = Ones(size) PROVE n = size
  BY <1>5, <1>6, OnesInjective
<1>7. SizeOf(bytes) = size
  <2> HIDE DEF bytes
  <2> QED
    BY <1>4, <1>5, <1>6 DEF SizeOf
<1> QED
  BY <1>7

(* What is constructed from the byte string of a data packet is that       *)
(* packet, as long as its data, which the code does not bound, fits into   *)
(* the string beside the 18 bytes before it (DataPacket.c 85-175).         *)
THEOREM DataPacketSurvives ==
  ASSUME NEW size \in 1 .. 255, size <= PACKET_SIZE - 18, NEW pkt, IsData(pkt, size)
  PROVE  ConstructData(DataBytes(pkt, size)) = pkt
<1>1. Decoded(DataLayout(size), Encoded(DataLayout(size), pkt)) = pkt
  BY DataWellFormed, DecodedEncodedAlone DEF IsData
<1> QED
  BY <1>1, SizeIsRead, DataFits DEF ConstructData
=============================================================================
