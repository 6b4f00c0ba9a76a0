---------------------------- MODULE PacketsProofs -------------------------
(***************************************************************************)
(* Proofs about the way of a packet, for every packet, every size of its   *)
(* data and every filler.                                                  *)
(***************************************************************************)
EXTENDS Packets, PacketCodecProofs

(* The sender's packet is one of its kind, and the byte string is what its *)
(* kind makes of it.                                                       *)
IsPacket ==
  /\ kind = "control" => pkt \in SUBSET Bits(ControlLayout)
  /\ kind = "cf" => pkt \in SUBSET Bits(CfLayout)
  /\ kind = "data" => \E size \in Sizes : IsData(pkt, size)

IsString ==
  /\ kind = "control" => \E filler \in Fillers : bytes = ControlBytes(pkt, filler)
  /\ kind = "cf" => \E filler \in Fillers :
       bytes = IF stage = "sent" THEN Transmitted(CfBytes(pkt, filler)) ELSE CfBytes(pkt, filler)
  /\ kind = "data" => \E size \in Sizes : IsData(pkt, size) /\ bytes = DataBytes(pkt, size)

PacketInv ==
  /\ kind \in Kinds /\ reader \in Kinds
  /\ stage \in {"cleared", "created", "encoded", "sent", "received", "copied"}
  /\ stage \in {"cleared", "created", "encoded", "sent"} => got = Earlier
  /\ stage \in {"created", "encoded", "sent"} => IsPacket
  /\ stage \in {"encoded", "sent"} => IsString
  /\ FieldsSurvive /\ KindsApart

LEMMA SizesAre == Sizes \subseteq 1 .. 255 /\ \A size \in Sizes : size <= PACKET_SIZE - 18
BY PacketsAssumption, PacketSizeAssumption

LEMMA InitPacket == Init => PacketInv
BY DEF Init, PacketInv, FieldsSurvive, KindsApart

(* The size that a data packet holds is the one it was made with.          *)
LEMMA SizeIs ==
  ASSUME NEW size \in Sizes, IsData(pkt, size)
  PROVE  Size = size
<1>1. ASSUME NEW n \in Sizes, SizeField(n) = {e \in pkt : e[1] = "size"}
      PROVE  n = size
  <2>1. {"size"} \X Ones(n) = {"size"} \X Ones(size)
    BY <1>1 DEF SizeField, IsData
  <2>2. \A b : b \in Ones(n) <=> <<"size", b>> \in {"size"} \X Ones(n)
    OBVIOUS
  <2>3. \A b : b \in Ones(size) <=> <<"size", b>> \in {"size"} \X Ones(size)
    OBVIOUS
  <2>4. Ones(n) = Ones(size)
    BY <2>1, <2>2, <2>3
  <2>5. n \in 0 .. 255 /\ size \in 0 .. 255
    BY SizesAre
  <2> QED
    BY <2>4, <2>5, OnesInjective
<1>2. SizeField(size) = {e \in pkt : e[1] = "size"}
  BY DEF SizeField, IsData
<1> QED
  BY <1>1, <1>2 DEF Size

LEMMA CreatePacket ==
  ASSUME PacketInv, CreateControl \/ CreateCf \/ CreateData
  PROVE  PacketInv'
<1>1. /\ stage = "cleared" /\ stage' = "created"
      /\ UNCHANGED <<kind, bytes, reader, got>>
  BY DEF CreateControl, CreateCf, CreateData, Create
<1>2. IsPacket'
  <2>1. CASE CreateControl
    <3>1. pkt' \in SUBSET Bits(ControlLayout)
      BY <2>1 DEF CreateControl, Create
    <3> QED
      BY <1>1, <2>1, <3>1 DEF CreateControl, IsPacket
  <2>2. CASE CreateCf
    <3>1. pkt' \in SUBSET Bits(CfLayout)
      BY <2>2 DEF CreateCf, Create
    <3> QED
      BY <1>1, <2>2, <3>1 DEF CreateCf, IsPacket
  <2>3. CASE CreateData
    <3>1. PICK size \in Sizes : \E ones \in [1 .. BITS -> Bits(DataLayout(size))] :
            /\ \A i \in 1 .. BITS : ones[i][1] # "size"
            /\ pkt' = SizeField(size) \cup {ones[i] : i \in 1 .. BITS}
      BY <2>3 DEF CreateData
    <3>2. PICK ones \in [1 .. BITS -> Bits(DataLayout(size))] :
            /\ \A i \in 1 .. BITS : ones[i][1] # "size"
            /\ pkt' = SizeField(size) \cup {ones[i] : i \in 1 .. BITS}
      BY <3>1
    <3>3. SizeField(size) \subseteq Bits(DataLayout(size))
      <4>1. "size" \in DOMAIN DataLayout(size) /\ BitsOf(DataLayout(size), "size") = 0 .. 7
        BY DEF DataLayout, BitsOf
      <4>2. SizeField(size) \subseteq {"size"} \X BitsOf(DataLayout(size), "size")
        BY <4>1 DEF SizeField, Ones, Byte
      <4> QED
        BY <4>1, <4>2 DEF Bits
    <3>4. pkt' \in SUBSET Bits(DataLayout(size))
      BY <3>2, <3>3
    <3>5. {e \in pkt' : e[1] = "size"} = SizeField(size)
      BY <3>2 DEF SizeField
    <3>6. IsData(pkt', size)
      BY <3>4, <3>5 DEF IsData, SizeField
    <3> QED
      BY <1>1, <2>3, <3>6 DEF CreateData, IsPacket
  <2> QED
    BY <2>1, <2>2, <2>3
<1> QED
  BY <1>1, <1>2 DEF PacketInv, FieldsSurvive, KindsApart

LEMMA GetPacketBytes ==
  ASSUME PacketInv, GetBytestring
  PROVE  PacketInv'
<1>1. /\ stage = "created" /\ stage' = "encoded" /\ IsPacket /\ kind \in Kinds
      /\ UNCHANGED <<kind, pkt, reader, got>>
  BY DEF GetBytestring, PacketInv
<1>2. PICK filler \in Fillers :
        bytes' = CASE kind = "control" -> ControlBytes(pkt, filler)
                   [] kind = "cf" -> CfBytes(pkt, filler)
                   [] kind = "data" -> DataBytes(pkt, Size)
  BY DEF GetBytestring
<1>3. ASSUME kind = "data"
      PROVE  \E size \in Sizes : IsData(pkt, size) /\ bytes' = DataBytes(pkt, size)
  <2>1. PICK size \in Sizes : IsData(pkt, size)
    BY <1>1, <1>3 DEF IsPacket
  <2>2. Size = size
    BY <2>1, SizeIs
  <2> QED
    BY <1>2, <1>3, <2>1, <2>2
<1>4. /\ kind = "control" => bytes' = ControlBytes(pkt, filler)
      /\ kind = "cf" => bytes' = CfBytes(pkt, filler)
  BY <1>2
<1>5. IsString'
  BY <1>1, <1>3, <1>4 DEF IsString
<1>6. IsPacket'
  BY <1>1 DEF IsPacket
<1> QED
  BY <1>1, <1>5, <1>6 DEF PacketInv, FieldsSurvive, KindsApart

LEMMA TransmitPacket ==
  ASSUME PacketInv, Transmit
  PROVE  PacketInv'
<1>1. /\ stage = "encoded" /\ stage' = "sent" /\ IsPacket /\ IsString
      /\ UNCHANGED <<kind, pkt, reader, got>>
      /\ bytes' = IF kind = "cf" THEN Transmitted(bytes) ELSE bytes
  BY DEF Transmit, PacketInv
<1>2. IsString' /\ IsPacket'
  BY <1>1 DEF IsString, IsPacket
<1> QED
  BY <1>1, <1>2 DEF PacketInv, FieldsSurvive, KindsApart

(* What the receiver constructs.                                           *)
LEMMA ConstructPacket ==
  ASSUME PacketInv, Construct
  PROVE  PacketInv'
<1>1. /\ stage \in {"encoded", "sent"} /\ IsPacket /\ IsString
      /\ kind \in Kinds /\ reader \in Kinds /\ got = Earlier
      /\ UNCHANGED <<kind, pkt, bytes, reader>>
      /\ stage' = IF stage = "sent" THEN "received" ELSE "copied"
      /\ Fillers \subseteq SUBSET Byte
  BY PacketsAssumption DEF Construct, PacketInv
<1>2. /\ reader = "control" => got' = ConstructControl(got, bytes)
      /\ reader = "cf" => got' = ConstructCf(got, bytes)
      /\ reader = "data" => got' = ConstructData(bytes)
  BY DEF Construct
<1>3. ASSUME reader = kind, kind = "control" PROVE FieldsSurvive'
  <2>1. PICK filler \in Fillers : bytes = ControlBytes(pkt, filler)
    BY <1>1, <1>3 DEF IsString
  <2>2. pkt \in SUBSET Bits(ControlLayout)
    BY <1>1, <1>3 DEF IsPacket
  <2>3. /\ pkt \ TopByte \subseteq got'
        /\ got' \subseteq pkt \cup
             (IF pkt \cap TopByte # {} THEN {"networkTime"} \X (52 .. 59) ELSE {})
    BY <1>1, <1>2, <1>3, <2>1, <2>2, ControlPacketMostlySurvives
  <2>4. Lost' = TopByte /\ kind' = "control" /\ pkt' = pkt
    BY <1>1, <1>3 DEF Lost, TopByte
  <2> QED
    BY <2>3, <2>4 DEF FieldsSurvive
<1>4. ASSUME reader = kind, kind = "cf" PROVE FieldsSurvive'
  <2>1. PICK filler \in Fillers :
          bytes = IF stage = "sent" THEN Transmitted(CfBytes(pkt, filler)) ELSE CfBytes(pkt, filler)
    BY <1>1, <1>4 DEF IsString
  <2>2. pkt \in SUBSET Bits(CfLayout)
    BY <1>1, <1>4 DEF IsPacket
  <2>3. CASE stage = "sent"
    <3>1. got' = pkt \ CutByte
      BY <1>1, <1>2, <1>4, <2>1, <2>2, <2>3, CutCfPacket
    <3>2. Lost' = CutByte /\ kind' = "cf" /\ pkt' = pkt
      BY <1>1, <1>4, <2>3 DEF Lost, CutByte
    <3> QED
      BY <3>1, <3>2 DEF FieldsSurvive
  <2>4. CASE stage = "encoded"
    <3>1. got' = pkt
      BY <1>1, <1>2, <1>4, <2>1, <2>2, <2>4, CfPacketSurvives
    <3> QED
      BY <1>1, <3>1 DEF FieldsSurvive
  <2> QED
    BY <1>1, <2>3, <2>4
<1>5. ASSUME reader = kind, kind = "data" PROVE FieldsSurvive'
  <2>1. PICK size \in Sizes : IsData(pkt, size) /\ bytes = DataBytes(pkt, size)
    BY <1>1, <1>5 DEF IsString
  <2>2. got' = pkt
    BY <1>2, <1>5, <2>1, SizesAre, DataPacketSurvives
  <2> QED
    BY <1>1, <2>2 DEF FieldsSurvive
<1>6. FieldsSurvive'
  <2>1. reader # kind => FieldsSurvive'
    BY <1>1 DEF FieldsSurvive
  <2> QED
    BY <1>1, <1>3, <1>4, <1>5, <2>1 DEF Kinds
<1>7. ASSUME reader = "control", kind = "cf" PROVE got' = got
  <2>1. PICK filler \in Fillers :
          bytes = IF stage = "sent" THEN Transmitted(CfBytes(pkt, filler)) ELSE CfBytes(pkt, filler)
    BY <1>1, <1>7 DEF IsString
  <2>2. pkt \in SUBSET Bits(CfLayout)
    BY <1>1, <1>7 DEF IsPacket
  <2>3. filler \in SUBSET Byte
    BY <1>1
  <2>4. ConstructControl(got, CfBytes(pkt, filler)) = got
    BY <2>2, <2>3, CfPacketIsNoControlPacket
  <2>5. ConstructControl(got, Transmitted(CfBytes(pkt, filler))) = got
    BY <2>2, <2>3, CutCfPacket
  <2> QED
    BY <1>2, <1>7, <2>1, <2>4, <2>5
<1>8. ASSUME reader = "cf", kind = "control" PROVE got' = got
  <2>1. PICK filler \in Fillers : bytes = ControlBytes(pkt, filler)
    BY <1>1, <1>8 DEF IsString
  <2>2. pkt \in SUBSET Bits(ControlLayout)
    BY <1>1, <1>8 DEF IsPacket
  <2>3. ByteAt(bytes, 0) = {0}
    BY <1>1, <2>1, <2>2, ControlBytesHold
  <2> QED
    BY <1>2, <1>8, <2>3 DEF ConstructCf
<1>9. KindsApart'
  <2>1. {reader, kind} = {"control", "cf"} =>
          (reader = "control" /\ kind = "cf") \/ (reader = "cf" /\ kind = "control")
    BY <1>1 DEF Kinds
  <2> QED
    BY <1>1, <1>7, <1>8, <2>1 DEF KindsApart
<1> QED
  BY <1>1, <1>6, <1>9 DEF PacketInv

LEMMA NextPacket == PacketInv /\ [Next]_vars => PacketInv'
<1> SUFFICES ASSUME PacketInv, [Next]_vars PROVE PacketInv'
  OBVIOUS
<1>1. CASE UNCHANGED vars
  BY <1>1 DEF PacketInv, IsPacket, IsString, FieldsSurvive, KindsApart, Lost, vars
<1>2. CASE Clear
  BY <1>2 DEF Clear, PacketInv, FieldsSurvive, KindsApart
<1> QED
  BY <1>1, <1>2, CreatePacket, GetPacketBytes, TransmitPacket, ConstructPacket DEF Next

THEOREM PacketInvariant == Spec => []PacketInv
BY InitPacket, NextPacket, PTL DEF Spec

(* A receiver that waits for what the sender sends has all of it but the   *)
(* top byte of a network time and the cut byte of a destination, and holds *)
(* nothing of what it held before or of the filler.                        *)
THEOREM FieldsAlwaysSurvive == Spec => []FieldsSurvive
<1>1. PacketInv => FieldsSurvive
  BY DEF PacketInv
<1> QED
  BY <1>1, PacketInvariant, PTL

(* No control packet is taken for a cf packet, and no cf packet, cut or    *)
(* not, for a control packet.                                              *)
THEOREM KindsStayApart == Spec => []KindsApart
<1>1. PacketInv => KindsApart
  BY DEF PacketInv
<1> QED
  BY <1>1, PacketInvariant, PTL
=============================================================================
