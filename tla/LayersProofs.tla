---------------------------- MODULE LayersProofs --------------------------
(***************************************************************************)
(* Proofs about the rings and the queues between the layers, for every     *)
(* size of the rings, the queues and msg_storage, any number of threads    *)
(* and both builds.                                                        *)
(***************************************************************************)
EXTENDS LayersProperties, SequenceTheorems, TLAPS

LEMMA SlotsExist == STORAGE \in Nat \ {0} /\ 0 \in StorageSlots
<1>1. \A m, n \in Nat \ {0} : m * n \in Nat \ {0}
  OBVIOUS
<1> QED
  BY <1>1, IpcQueuesAssumption DEF STORAGE, StorageSlots

LEMMA Below ==
  ASSUME NEW n \in Nat \ {0}, NEW a \in 0 .. n - 1
  PROVE  a % n = a
OBVIOUS

LEMMA Once ==
  ASSUME NEW n \in Nat \ {0}, NEW a \in n .. 2 * n - 1
  PROVE  a % n = a - n
OBVIOUS

LEMMA NextWraps ==
  ASSUME NEW n \in Nat \ {0}, NEW a \in 0 .. 2 * n - 2
  PROVE  ((a % n) + 1) % n = (a + 1) % n
<1>1. CASE a < n
  BY <1>1, Below
<1>2. CASE a >= n
  <2>1. a % n = a - n /\ (a + 1) % n = a + 1 - n
    BY <1>2, Once
  <2> QED
    BY <1>2, <2>1, Below
<1> QED
  BY <1>1, <1>2

LEMMA Wraps ==
  ASSUME NEW n \in Nat \ {0}, NEW a \in 0 .. n - 1
  PROVE  /\ (a + 1) % n \in 0 .. n - 1
         /\ a + 1 < n => (a + 1) % n = a + 1
         /\ a + 1 = n => (a + 1) % n = 0
OBVIOUS

-----------------------------------------------------------------------------
(* The rings.  A ring of packets to send keeps its range and stays         *)
(* consistent when a packet is put into it.                                *)
SendRings == Rings(SendSlots, 0 .. MAX_PACKETS, MAX_PACKETS)

ReceivedRings == Rings(ReceiveSlots, ReceiveSlots, 2 * MAX_PACKETS)

LEMMA EmptyRings ==
  /\ EmptyRing(SendSlots) \in SendRings /\ SendRing(EmptyRing(SendSlots))
  /\ EmptyRing(ReceiveSlots) \in ReceivedRings /\ ReceivedRing(EmptyRing(ReceiveSlots))
<1> USE PacketRingsAssumption
<1>1. EmptyRing(SendSlots) \in SendRings /\ SendRing(EmptyRing(SendSlots))
  BY DEF EmptyRing, SendRings, Rings, SendSlots, Contents, SendRing
<1>2. EmptyRing(ReceiveSlots) \in ReceivedRings
  BY DEF EmptyRing, ReceivedRings, Rings, SendSlots, ReceiveSlots, Contents
<1>3. ReceivedRing(EmptyRing(ReceiveSlots))
  BY DEF EmptyRing, ReceivedRing, ReceiveSlots
<1> QED
  BY <1>1, <1>2, <1>3

LEMMA PushedIsSendRing ==
  ASSUME NEW r \in SendRings, SendRing(r), ~Strays(r), NEW pkt \in Contents \ {Zeros}
  PROVE  Pushed(r, pkt) \in SendRings /\ SendRing(Pushed(r, pkt))
<1> DEFINE p == Pushed(r, pkt)
<1> USE PacketRingsAssumption
<1>1. /\ r.first \in SendSlots /\ r.last \in SendSlots /\ r.count \in 0 .. MAX_PACKETS
      /\ r.pkts \in [SendSlots -> Contents]
      /\ r.last = r.first + r.count
  BY DEF SendRings, Rings, Strays, SendRing, SendSlots
<1>2. /\ p.first = r.first /\ p.last = r.last + 1 /\ p.count = r.count + 1
      /\ p.pkts = [r.pkts EXCEPT ![r.last] = pkt]
  BY DEF Pushed, SendRings, Rings
<1>3. p \in SendRings
  <2>1. r.last + 1 \in 0 .. MAX_PACKETS /\ r.count + 1 \in 0 .. MAX_PACKETS
    BY <1>1 DEF SendSlots
  <2> QED
    BY <1>1, <2>1 DEF Pushed, SendRings, Rings
<1>4. {i \in SendSlots : p.pkts[i] # Zeros} = {i \in SendSlots : r.pkts[i] # Zeros} \cup {r.last}
  BY <1>1, <1>2
<1>5. {i \in SendSlots : r.pkts[i] # Zeros} \cup {r.last} = r.first .. r.last
  BY <1>1 DEF SendRing, SendSlots
<1>6. p.first < p.last /\ p.count > 0 /\ p.last - 1 = r.last /\ p.last = p.first + p.count
  BY <1>1, <1>2, SMTT(30) DEF SendSlots
<1>7. SendRing(p)
  BY <1>2, <1>4, <1>5, <1>6 DEF SendRing
<1> QED
  BY <1>3, <1>7

(* The same when its first packet is taken from it.                        *)
LEMMA PoppedIsSendRing ==
  ASSUME NEW r \in SendRings, SendRing(r), r.count > 0
  PROVE  Popped(r) \in SendRings /\ SendRing(Popped(r))
<1> DEFINE p == Popped(r)
<1> USE PacketRingsAssumption
<1>1. /\ r.first \in SendSlots /\ r.last \in 0 .. MAX_PACKETS /\ r.count \in 1 .. MAX_PACKETS
      /\ r.pkts \in [SendSlots -> Contents]
      /\ r.last = r.first + r.count
  BY DEF SendRings, Rings, SendRing, SendSlots
<1>2. /\ p.first = (r.first + 1) % MAX_PACKETS /\ p.last = r.last /\ p.count = r.count - 1
      /\ p.pkts = [r.pkts EXCEPT ![r.first] = Zeros]
  BY DEF Popped, SendRings, Rings
<1>3. /\ (r.first + 1) % MAX_PACKETS \in SendSlots
      /\ r.first + 1 < MAX_PACKETS => (r.first + 1) % MAX_PACKETS = r.first + 1
      /\ r.first + 1 = MAX_PACKETS => (r.first + 1) % MAX_PACKETS = 0
  BY <1>1, Wraps DEF SendSlots
<1>4. p \in SendRings
  <2>1. r.count - 1 \in 0 .. MAX_PACKETS /\ Zeros \in Contents
    BY <1>1 DEF Contents
  <2> QED
    BY <1>1, <1>3, <2>1 DEF Popped, SendRings, Rings
<1>5. {i \in SendSlots : p.pkts[i] # Zeros} = {i \in SendSlots : r.pkts[i] # Zeros} \ {r.first}
  BY <1>1, <1>2
<1>6. {i \in SendSlots : r.pkts[i] # Zeros} \ {r.first} = r.first + 1 .. r.last - 1
  BY <1>1 DEF SendRing, SendSlots
<1>7. CASE r.first + 1 < MAX_PACKETS
  <2>1. p.first = r.first + 1 /\ p.last = r.last /\ p.last = p.first + p.count
    BY <1>1, <1>2, <1>3, <1>7, SMTT(30) DEF SendSlots
  <2>2. ~(p.first < p.last /\ p.count > 0) => p.first .. p.last - 1 = {}
    BY <1>1, <1>2, <2>1 DEF SendSlots
  <2> QED
    BY <1>4, <1>5, <1>6, <2>1, <2>2 DEF SendRing
<1>8. CASE r.first + 1 = MAX_PACKETS
  <2>1. p.first = 0 /\ p.last = MAX_PACKETS /\ p.count = 0
    BY <1>1, <1>2, <1>3, <1>8 DEF SendSlots
  <2>2. r.first + 1 .. r.last - 1 = {}
    BY <1>1, <1>8 DEF SendSlots
  <2> QED
    BY <1>4, <1>5, <1>6, <2>1, <2>2 DEF SendRing
<1>9. SendRing(p)
  BY <1>1, <1>7, <1>8 DEF SendSlots
<1> QED
  BY <1>4, <1>9

LEMMA ReceivedIsReceivedRing ==
  ASSUME NEW r \in ReceivedRings, r.count < 2 * MAX_PACKETS, NEW pkt \in Contents
  PROVE  /\ Received(r, pkt) \in ReceivedRings
         /\ ReceivedRing(r) => ReceivedRing(Received(r, pkt))
<1> DEFINE M == 2 * MAX_PACKETS
           p == Received(r, pkt)
           Pend(s) == {(s.first + i) % M : i \in 0 .. s.count - 1}
<1> USE PacketRingsAssumption
<1>1. /\ r.first \in SendSlots /\ r.last \in ReceiveSlots /\ r.count \in 0 .. M - 1
      /\ r.pkts \in [ReceiveSlots -> Contents] /\ M \in Nat \ {0}
  BY DEF ReceivedRings, Rings
<1>2. /\ p.first = r.first /\ p.last = (r.last + 1) % M /\ p.count = r.count + 1
      /\ p.pkts = [r.pkts EXCEPT ![r.last] = pkt]
  BY DEF Received, ReceivedRings, Rings
<1>3. p \in ReceivedRings
  <2>1. (r.last + 1) % M \in ReceiveSlots /\ r.count + 1 \in 0 .. M
    BY <1>1, Wraps DEF ReceiveSlots
  <2> QED
    BY <1>1, <2>1 DEF Received, ReceivedRings, Rings
<1>4. ASSUME ReceivedRing(r) PROVE ReceivedRing(p)
  <2>1. r.last = (r.first + r.count) % M /\ \A i \in ReceiveSlots \ Pend(r) : r.pkts[i] = Zeros
    BY <1>4 DEF ReceivedRing
  <2>2. (r.last + 1) % M = (r.first + (r.count + 1)) % M
    <3>1. r.first + r.count \in 0 .. 2 * M - 2
      BY <1>1 DEF SendSlots
    <3> HIDE DEF M
    <3>2. (((r.first + r.count) % M) + 1) % M = ((r.first + r.count) + 1) % M
      BY <1>1, <3>1, NextWraps
    <3>3. (r.first + r.count) + 1 = r.first + (r.count + 1)
      BY <1>1 DEF SendSlots
    <3> QED
      BY <2>1, <3>2, <3>3
  <2>3. Pend(r) \cup {r.last} \subseteq Pend(p)
    BY <1>1, <1>2, <2>1
  <2>4. \A i \in ReceiveSlots \ Pend(p) : p.pkts[i] = Zeros
    BY <1>1, <1>2, <2>1, <2>3
  <2> QED
    BY <1>2, <2>2, <2>4 DEF ReceivedRing
<1> QED
  BY <1>3, <1>4

(* When a received packet is passed on, the ring stays consistent unless   *)
(* its read position goes back to 0.                                       *)
LEMMA PoppedIsReceivedRing ==
  ASSUME NEW r \in ReceivedRings, r.count > 0
  PROVE  /\ Popped(r) \in ReceivedRings
         /\ ReceivedRing(r) /\ r.first + 1 # MAX_PACKETS => ReceivedRing(Popped(r))
<1> DEFINE M == 2 * MAX_PACKETS
           p == Popped(r)
           Pend(s) == {(s.first + i) % M : i \in 0 .. s.count - 1}
<1> USE PacketRingsAssumption
<1>1. /\ r.first \in SendSlots /\ r.last \in ReceiveSlots /\ r.count \in 1 .. M
      /\ r.pkts \in [ReceiveSlots -> Contents] /\ M \in Nat \ {0}
      /\ r.first \in ReceiveSlots
  BY DEF ReceivedRings, Rings, SendSlots, ReceiveSlots
<1>2. /\ p.first = (r.first + 1) % MAX_PACKETS /\ p.last = r.last /\ p.count = r.count - 1
      /\ p.pkts = [r.pkts EXCEPT ![r.first] = Zeros]
  BY DEF Popped, ReceivedRings, Rings
<1>3. /\ (r.first + 1) % MAX_PACKETS \in SendSlots
      /\ r.first + 1 < MAX_PACKETS => (r.first + 1) % MAX_PACKETS = r.first + 1
  BY <1>1, Wraps DEF SendSlots
<1>4. p \in ReceivedRings
  <2>1. r.count - 1 \in 0 .. M /\ Zeros \in Contents
    BY <1>1 DEF Contents
  <2> QED
    BY <1>1, <1>3, <2>1 DEF Popped, ReceivedRings, Rings
<1>5. ASSUME ReceivedRing(r), r.first + 1 # MAX_PACKETS PROVE ReceivedRing(p)
  <2>1. r.last = (r.first + r.count) % M /\ \A i \in ReceiveSlots \ Pend(r) : r.pkts[i] = Zeros
    BY <1>5 DEF ReceivedRing
  <2>2. p.first = r.first + 1 /\ p.last = r.last /\ p.count = r.count - 1
    BY <1>1, <1>2, <1>3, <1>5 DEF SendSlots
  <2>3. (p.first + p.count) % M = (r.first + r.count) % M
    BY <1>1, <2>2 DEF SendSlots
  <2>4. ASSUME NEW j \in Pend(r), j # r.first PROVE j \in Pend(p)
    <3>1. PICK i \in 0 .. r.count - 1 : j = (r.first + i) % M
      OBVIOUS
    <3>2. i # 0
      <4>1. r.first \in 0 .. M - 1 /\ r.first + 0 = r.first
        BY <1>1 DEF ReceiveSlots
      <4> HIDE DEF M
      <4>2. r.first % M = r.first
        BY <1>1, <4>1, Below
      <4> QED
        BY <2>4, <3>1, <4>1, <4>2
    <3>3. i - 1 \in 0 .. p.count - 1 /\ r.first + i = p.first + (i - 1)
      BY <1>1, <2>2, <3>2 DEF SendSlots
    <3> QED
      BY <3>1, <3>3
  <2>5. \A i \in ReceiveSlots \ Pend(p) : p.pkts[i] = Zeros
    BY <1>1, <1>2, <2>1, <2>4
  <2> QED
    BY <2>1, <2>2, <2>3, <2>5 DEF ReceivedRing
<1> QED
  BY <1>4, <1>5

-----------------------------------------------------------------------------
(* The queues.  Their part of TypeOK, and what bounds stored_elements: a   *)
(* sender that nobody preempts has found a free slot, and no other thread  *)
(* is in send_message with it.                                             *)
IpcTypeOK ==
  /\ os \in Builds
  /\ queues \in [Threads -> {"none", "created", "open"}]
  /\ box \in [Threads -> Seq(Envelopes)] /\ \A t \in Threads : Len(box[t]) <= Capacity
  /\ storage \in [StorageSlots -> Contents]
  /\ start_storage \in StorageSlots /\ end_storage \in 0 .. STORAGE
  /\ stored \in Nat /\ (stored <= STORAGE \/ PREEMPTIVE)
  /\ pc \in [Threads -> {"idle", "post", "blocked", "write", "send"}]
  /\ sending \in [Threads -> [to : Threads \cup {0}, envelope : Envelopes]]
  /\ fault \in {"none", "assert", "stray"}

OnePost ==
  os = "riot" /\ ~PREEMPTIVE =>
    \A t \in Threads : pc[t] = "post" =>
      stored < STORAGE /\ \A u \in Threads : pc[u] = "post" => u = t

IpcInv == IpcTypeOK /\ OnePost

LEMMA CapacityPositive == os \in Builds => Capacity \in Nat \ {0}
BY IpcQueuesAssumption DEF Capacity

LEMMA NoSendIsSend ==
  NoSend \in [to : Threads \cup {0}, envelope : Envelopes]
BY SlotsExist DEF NoSend, NoEnvelope, Envelopes, Contents

LEMMA InitIpc == Init => IpcInv
<1> SUFFICES ASSUME Init PROVE IpcInv
  OBVIOUS
<1>1. \A t \in Threads : box[t] \in Seq(Envelopes) /\ Len(box[t]) = 0
  BY EmptySeq DEF Init, InitQueues
<1>2. IpcTypeOK
  BY <1>1, SlotsExist, NoSendIsSend, CapacityPositive
  DEF Init, InitQueues, IpcTypeOK, Contents
<1>3. OnePost
  BY DEF Init, InitQueues, OnePost
<1> QED
  BY <1>2, <1>3 DEF IpcInv

LEMMA IpcUnchanged == IpcInv /\ UNCHANGED ipcVars => IpcInv'
BY DEF IpcInv, IpcTypeOK, OnePost, Capacity, ipcVars, storageVars

LEMMA FaultIpc ==
  ASSUME IpcInv, NEW what \in {"none", "assert", "stray"}, Fault(what)
  PROVE  IpcInv'
BY DEF IpcInv, IpcTypeOK, OnePost, Capacity, Fault, storageVars

(* The MAC's thread goes on to a place that is not inside send_message.    *)
LEMMA MacGoesIpc ==
  ASSUME IpcInv, NEW next \in {"idle", "write", "send"}, MacGoes(next)
  PROVE  IpcInv'
BY LayersAssumption DEF IpcInv, IpcTypeOK, OnePost, Capacity, MacGoes, storageVars

LEMMA QueuesIpc ==
  ASSUME IpcInv, NEW t \in Threads, CreateQueue(t) \/ OpenQueue(t) \/ CloseQueue(t)
  PROVE  IpcInv'
<1> USE DEF IpcInv, IpcTypeOK
<1>1. /\ UNCHANGED <<os, storageVars, pc, fault>>
      /\ queues' \in [Threads -> {"none", "created", "open"}]
  BY DEF CreateQueue, OpenQueue, CloseQueue
<1>2. Capacity' = Capacity /\ OnePost'
  BY <1>1 DEF Capacity, OnePost, storageVars
<1>3. /\ box' \in [Threads -> Seq(Envelopes)]
      /\ \A u \in Threads : Len(box'[u]) <= Capacity
  <2>1. <<>> \in Seq(Envelopes) /\ Len(<<>>) = 0
    BY EmptySeq
  <2>2. box' = [box EXCEPT ![t] = <<>>] \/ box' = box
    BY DEF CreateQueue, OpenQueue, CloseQueue
  <2>3. box' \in [Threads -> Seq(Envelopes)]
    BY <2>1, <2>2
  <2>4. ASSUME NEW u \in Threads PROVE Len(box'[u]) <= Capacity
    <3>1. box'[u] = <<>> \/ box'[u] = box[u]
      BY <2>2
    <3> QED
      BY <2>1, <3>1, CapacityPositive
  <2> QED
    BY <2>3, <2>4
<1>4. sending' \in [Threads -> [to : Threads \cup {0}, envelope : Envelopes]]
  BY NoSendIsSend DEF CreateQueue, OpenQueue, CloseQueue
<1> QED
  BY <1>1, <1>2, <1>3, <1>4 DEF storageVars

LEMMA StartSendIpc ==
  ASSUME IpcInv, NEW t \in Threads, MayRun(t), NEW q, NEW to \in Threads,
         NEW msg \in Contents, NEW full \in BOOLEAN, StartSend(t, q, to, msg, full)
  PROVE  IpcInv'
<1> USE DEF IpcInv, IpcTypeOK
<1> DEFINE slot == IF os = "riot" THEN end_storage ELSE 0
<1>1. slot \in StorageSlots
  BY SlotsExist DEF StartSend, StorageStrays
<1>2. /\ storage' \in [StorageSlots -> Contents]
      /\ sending' \in [Threads -> [to : Threads \cup {0}, envelope : Envelopes]]
      /\ pc' = [pc EXCEPT ![t] = "post"]
      /\ UNCHANGED <<os, queues, box, start_storage, end_storage, stored, fault>>
  BY <1>1 DEF StartSend, Envelopes
<1>3. Capacity' = Capacity
  BY <1>2 DEF Capacity
<1>4. OnePost'
  <2> SUFFICES ASSUME os = "riot", ~PREEMPTIVE PROVE OnePost'
    BY <1>2 DEF OnePost
  <2>1. stored # STORAGE
    BY DEF StartSend, Refused, Asserted, StorageFull
  <2>2. \A u \in Threads \ {t} : pc[u] # "post"
    BY DEF MayRun
  <2> QED
    BY <1>2, <2>1, <2>2, SlotsExist DEF OnePost
<1> QED
  BY <1>2, <1>3, <1>4

LEMMA PostIpc ==
  ASSUME IpcInv, NEW t \in Threads, Post(t)
  PROVE  IpcInv'
<1> USE DEF IpcInv, IpcTypeOK
<1> DEFINE to == sending[t].to
           envelope == sending[t].envelope
<1>1. to \in Threads \cup {0} /\ envelope \in Envelopes /\ envelope.slot \in StorageSlots
  BY DEF Envelopes
<1>2. /\ UNCHANGED <<os, queues, storage, start_storage, fault>>
      /\ pc' \in [Threads -> {"idle", "post", "blocked", "write", "send"}]
      /\ sending' \in [Threads -> [to : Threads \cup {0}, envelope : Envelopes]]
      /\ MayRun(t) /\ pc[t] = "post"
      /\ pc'[t] # "post" /\ \A u \in Threads \ {t} : pc'[u] = pc[u]
  BY NoSendIsSend DEF Post, Runs
<1>3. /\ end_storage' \in 0 .. STORAGE
      /\ os = "riot" => stored' = stored + 1
      /\ os # "riot" => stored' = stored
  BY <1>1, SlotsExist DEF Post, NextEnd, StorageSlots
<1>4. Capacity' = Capacity
  BY <1>2 DEF Capacity
<1>5. /\ box' \in [Threads -> Seq(Envelopes)]
      /\ \A u \in Threads : Len(box'[u]) <= Capacity
  <2>1. CASE box' = box
    BY <2>1
  <2>2. CASE /\ HasRoom(to)
             /\ box' = [box EXCEPT ![to] = Append(box[to], envelope)]
    <3>1. ASSUME NEW u \in Threads
          PROVE  box'[u] \in Seq(Envelopes) /\ Len(box'[u]) <= Capacity
      <4>1. CASE u # to
        BY <2>2, <4>1
      <4>2. CASE u = to
        <5>1. box'[u] = Append(box[u], envelope) /\ Len(box[u]) < Capacity
          BY <2>2, <4>2 DEF HasRoom
        <5>2. /\ Append(box[u], envelope) \in Seq(Envelopes)
              /\ Len(Append(box[u], envelope)) = Len(box[u]) + 1
          BY <1>1, AppendProperties
        <5>3. Len(box[u]) \in Nat
          BY LenProperties
        <5> QED
          BY <5>1, <5>2, <5>3, CapacityPositive
      <4> QED
        BY <4>1, <4>2
    <3> QED
      BY <2>2, <3>1
  <2> QED
    BY <2>1, <2>2 DEF Post
<1>6. OnePost' /\ (stored' <= STORAGE \/ PREEMPTIVE)
  <2>1. CASE os = "riot" /\ ~PREEMPTIVE
    <3>1. \A u \in Threads : pc'[u] # "post"
      BY <1>2, <2>1 DEF MayRun
    <3>2. stored' <= STORAGE
      BY <1>2, <1>3, <2>1, SlotsExist DEF OnePost
    <3> QED
      BY <3>1, <3>2 DEF OnePost
  <2>2. CASE ~(os = "riot" /\ ~PREEMPTIVE)
    BY <1>2, <1>3, <2>2, IpcQueuesAssumption DEF OnePost
  <2> QED
    BY <2>1, <2>2
<1> QED
  BY <1>2, <1>3, <1>4, <1>5, <1>6

(* Receiving keeps the length of the mailbox, or takes one from it.        *)
LEMMA RecvMessageIpc ==
  ASSUME IpcInv, NEW t \in Threads, NEW next \in {"idle", "write"}, box[t] # <<>>,
         RecvMessage(t, next)
  PROVE  IpcInv'
<1> USE DEF IpcInv, IpcTypeOK
<1>1. UNCHANGED <<os, queues, end_storage, fault>> /\ Capacity' = Capacity
  BY DEF RecvMessage, Capacity
<1>2. /\ Tail(box[t]) \in Seq(Envelopes) /\ Len(Tail(box[t])) = Len(box[t]) - 1
      /\ Len(box[t]) \in Nat
  BY HeadTailProperties, LenProperties
<1>3. /\ storage' \in [StorageSlots -> Contents] /\ start_storage' \in StorageSlots
      /\ stored' \in Nat /\ stored' <= stored
  <2>1. (start_storage + 1) % STORAGE \in StorageSlots
    BY SlotsExist, Wraps DEF StorageSlots
  <2>2. CASE os = "riot" /\ Delivers(Head(box[t])) /\ Release
    BY <2>1, <2>2 DEF Release, Delivers, Contents
  <2>3. CASE UNCHANGED <<storage, start_storage, stored>>
    BY <2>3
  <2> QED
    BY <2>2, <2>3 DEF RecvMessage
<1>4. stored' <= STORAGE \/ PREEMPTIVE
  BY <1>3, SlotsExist
<1>5. CASE /\ box' = [box EXCEPT ![t] = Tail(@)]
           /\ pc' = [pc EXCEPT ![t] = next]
           /\ UNCHANGED sending
  <2>1. OnePost'
    BY <1>1, <1>3, <1>5, SlotsExist DEF OnePost
  <2>2. \A u \in Threads : Len(box'[u]) <= Capacity
    BY <1>2, <1>5, CapacityPositive
  <2> QED
    BY <1>1, <1>2, <1>3, <1>4, <1>5, <2>1, <2>2
<1>6. ASSUME NEW u \in Threads, pc[u] = "blocked",
             box' = [box EXCEPT ![t] = Append(Tail(@), sending[u].envelope)],
             pc' = [pc EXCEPT ![t] = next, ![u] = "idle"],
             sending' = [sending EXCEPT ![u] = NoSend]
      PROVE  IpcInv'
  <2>1. sending[u].envelope \in Envelopes
    OBVIOUS
  <2>2. /\ Append(Tail(box[t]), sending[u].envelope) \in Seq(Envelopes)
        /\ Len(Append(Tail(box[t]), sending[u].envelope)) = Len(box[t])
    BY <1>2, <2>1, AppendProperties
  <2>3. /\ box' \in [Threads -> Seq(Envelopes)]
        /\ \A v \in Threads : Len(box'[v]) <= Capacity
    BY <1>6, <2>2
  <2>4. /\ pc' \in [Threads -> {"idle", "post", "blocked", "write", "send"}]
        /\ \A v \in Threads : pc'[v] = "post" => pc[v] = "post"
    BY <1>6
  <2>5. OnePost'
    BY <1>1, <1>3, <2>4, SlotsExist DEF OnePost
  <2>6. sending' \in [Threads -> [to : Threads \cup {0}, envelope : Envelopes]]
    BY <1>6, NoSendIsSend
  <2> QED
    BY <1>1, <1>3, <1>4, <2>3, <2>4, <2>5, <2>6
<1>7. CASE pc' = [pc EXCEPT ![t] = next] /\ UNCHANGED <<box, sending>>
  <2>1. OnePost'
    BY <1>1, <1>3, <1>7, SlotsExist DEF OnePost
  <2> QED
    BY <1>1, <1>3, <1>4, <1>7, <2>1
<1> QED
  BY <1>5, <1>6, <1>7 DEF RecvMessage, Take

-----------------------------------------------------------------------------
(* The inductive invariant of the type and of the rings.  While the MAC is *)
(* inside mclmac_write_queue_element its own queue is open, the packet it  *)
(* writes is still in the ring, and it sends it to itself.                 *)
RingInv ==
  /\ message \in SendRings /\ SendRing(message)
  /\ control \in SendRings /\ SendRing(control)
  /\ received \in ReceivedRings /\ ReceivedRingConsistent
  /\ rewound \in BOOLEAN /\ routing \in Routings /\ targets \in Topologies

WriteInv ==
  /\ pc[MAC] # "idle" => queues[MAC] = "open"
  /\ pc[MAC] \in {"send", "post"} => received.count > 0
  /\ pc[MAC] = "post" => sending[MAC].to = MAC

IInv == IpcInv /\ RingInv /\ WriteInv

LEMMA InitInv == Init => IInv
<1> SUFFICES ASSUME Init PROVE IInv
  OBVIOUS
<1>1. RingInv
  BY EmptyRings DEF Init, RingInv, ReceivedRingConsistent
<1>2. WriteInv
  BY LayersAssumption DEF Init, InitQueues, WriteInv
<1> QED
  BY <1>1, <1>2, InitIpc DEF IInv

LEMMA UpperSteps ==
  ASSUME IInv, NEW t \in Upper,
         UpperSend(t) \/ UpperRecv(t) \/ UpperQueue(t) \/ UpperPost(t)
  PROVE  IInv'
<1> USE LayersAssumption DEF IInv
<1>1. t \in Threads /\ t # MAC
  BY DEF Upper
<1>2. UNCHANGED layerVars
  BY DEF UpperSend, UpperRecv, UpperQueue, UpperPost
<1>3. RingInv'
  BY <1>2 DEF RingInv, ReceivedRingConsistent, layerVars, ringVars
<1>4. targets \subseteq Threads
  BY DEF RingInv
<1>5. CASE UpperSend(t)
  <2>1. MayRun(t)
    BY <1>5 DEF UpperSend, Runs
  <2>2. ASSUME NEW to \in targets, NEW full \in Sizes, StartSend(t, t, to, "packet", full)
        PROVE  IpcInv' /\ WriteInv'
    <3>1. full \in BOOLEAN /\ "packet" \in Contents /\ to \in Threads
      BY <1>4 DEF Sizes, Contents
    <3>2. IpcInv'
      BY <1>1, <2>1, <2>2, <3>1, StartSendIpc
    <3>3. pc'[MAC] = pc[MAC] /\ sending'[MAC] = sending[MAC] /\ queues' = queues
      BY <1>1, <2>2 DEF StartSend, IpcInv, IpcTypeOK
    <3> QED
      BY <1>2, <3>2, <3>3 DEF WriteInv, layerVars, ringVars
  <2>3. ASSUME NEW what \in {"assert", "stray"}, Fault(what)
        PROVE  IpcInv' /\ WriteInv'
    BY <1>2, <2>3, FaultIpc DEF Fault, WriteInv, layerVars, ringVars
  <2> QED
    BY <1>3, <1>5, <2>2, <2>3 DEF UpperSend
<1>6. CASE UpperRecv(t)
  <2>1. RecvMessage(t, "idle") /\ box[t] # <<>>
    BY <1>6 DEF UpperRecv
  <2>2. IpcInv'
    BY <1>1, <2>1, RecvMessageIpc
  <2>3. /\ queues' = queues
        /\ pc'[MAC] = "idle" \/ (pc'[MAC] = pc[MAC] /\ sending'[MAC] = sending[MAC])
    BY <1>1, <2>1 DEF RecvMessage, Take, IpcInv, IpcTypeOK
  <2> QED
    BY <1>2, <1>3, <2>2, <2>3 DEF WriteInv, layerVars, ringVars
<1>7. CASE UpperQueue(t)
  <2>1. IpcInv'
    BY <1>1, <1>7, QueuesIpc DEF UpperQueue
  <2>2. /\ pc' = pc /\ queues'[MAC] = queues[MAC]
        /\ pc[MAC] = "post" => sending'[MAC] = sending[MAC]
    BY <1>1, <1>7 DEF UpperQueue, CreateQueue, OpenQueue, CloseQueue, IpcInv, IpcTypeOK
  <2> QED
    BY <1>2, <1>3, <2>1, <2>2 DEF WriteInv, layerVars, ringVars
<1>8. CASE UpperPost(t)
  <2>1. IpcInv'
    BY <1>1, <1>8, PostIpc DEF UpperPost
  <2>2. pc'[MAC] = pc[MAC] /\ sending'[MAC] = sending[MAC] /\ queues' = queues
    BY <1>1, <1>8 DEF UpperPost, Post, IpcInv, IpcTypeOK
  <2> QED
    BY <1>2, <1>3, <2>1, <2>2 DEF WriteInv, layerVars, ringVars
<1> QED
  BY <1>5, <1>6, <1>7, <1>8

(* The steps of the MAC that only work on its rings.                       *)
LEMMA RingSteps ==
  ASSUME IInv, ReceiveDataPacket \/ SendDataPacket \/ Restart
  PROVE  IInv'
<1> USE DEF IInv
<1>1. pc[MAC] = "idle" /\ UNCHANGED ipcVars /\ UNCHANGED <<routing, targets>>
  BY DEF ReceiveDataPacket, SendDataPacket, Restart, MacRuns, Runs
<1>2. IpcInv' /\ WriteInv'
  BY <1>1, IpcUnchanged DEF WriteInv, ipcVars
<1>3. CASE ReceiveDataPacket
  <2>1. /\ received.count < 2 * MAX_PACKETS /\ "packet" \in Contents
        /\ received' = Received(received, "packet")
        /\ UNCHANGED <<message, control, rewound>>
    BY <1>3 DEF ReceiveDataPacket, Contents
  <2>2. received' \in ReceivedRings /\ ReceivedRingConsistent'
    BY <2>1, ReceivedIsReceivedRing DEF RingInv, ReceivedRingConsistent
  <2> QED
    BY <1>1, <1>2, <2>1, <2>2 DEF RingInv
<1>4. CASE SendDataPacket
  <2>1. UNCHANGED <<received, rewound>>
    BY <1>4 DEF SendDataPacket
  <2>2. /\ message' \in SendRings /\ SendRing(message')
        /\ control' \in SendRings /\ SendRing(control')
    BY <1>4, PoppedIsSendRing DEF SendDataPacket, RingInv
  <2> QED
    BY <1>1, <1>2, <2>1, <2>2 DEF RingInv, ReceivedRingConsistent, SendRing
<1>5. CASE Restart
  <2>1. /\ message' = EmptyRing(SendSlots) /\ control' = EmptyRing(SendSlots)
        /\ received' = EmptyRing(ReceiveSlots) /\ rewound' = FALSE
    BY <1>5 DEF Restart
  <2> QED
    BY <1>1, <1>2, <2>1, EmptyRings DEF RingInv, ReceivedRingConsistent
<1> QED
  BY <1>3, <1>4, <1>5

LEMMA MacOpens ==
  ASSUME IInv, MacOpen
  PROVE  IInv'
<1> USE LayersAssumption DEF IInv
<1>1. OpenQueue(MAC) /\ UNCHANGED layerVars
  BY DEF MacOpen
<1>2. IpcInv'
  BY <1>1, QueuesIpc
<1>3. RingInv'
  BY <1>1 DEF RingInv, ReceivedRingConsistent, layerVars, ringVars
<1>4. pc' = pc /\ pc[MAC] = "idle"
  BY <1>1 DEF OpenQueue, Runs
<1> QED
  BY <1>2, <1>3, <1>4 DEF WriteInv

LEMMA ReadSteps ==
  ASSUME IInv, ReadQueueElement
  PROVE  IInv'
<1> USE LayersAssumption DEF IInv
<1>1. MayRun(MAC) /\ pc[MAC] = "idle" /\ queues[MAC] = "open"
  BY DEF ReadQueueElement, MacRuns, Runs
<1>2. CASE MacGoes("write") /\ UNCHANGED layerVars
  <2>1. IpcInv' /\ RingInv'
    BY <1>2, MacGoesIpc DEF RingInv, ReceivedRingConsistent, layerVars, ringVars
  <2>2. pc'[MAC] = "write" /\ queues'[MAC] = "open"
    BY <1>1, <1>2 DEF MacGoes, IpcInv, IpcTypeOK
  <2> QED
    BY <2>1, <2>2 DEF WriteInv
<1>3. CASE /\ box[MAC] # <<>>
           /\ Filed(ReadContent) /\ RecvMessage(MAC, "write")
           /\ UNCHANGED <<received, rewound, routing, targets>>
  <2>1. IpcInv'
    BY <1>3, RecvMessageIpc
  <2>2. ReadContent \in Contents
    <3>1. Head(box[MAC]) \in Envelopes
      BY <1>3, HeadTailProperties DEF IpcInv, IpcTypeOK
    <3>2. Content(Head(box[MAC])) \in Contents
      BY <3>1 DEF Content, Envelopes, IpcInv, IpcTypeOK
    <3> QED
      BY <3>2 DEF ReadContent, Contents
  <2>3. /\ message' \in SendRings /\ SendRing(message')
        /\ control' \in SendRings /\ SendRing(control')
    BY <1>3, <2>2, PushedIsSendRing DEF Filed, RingInv
  <2>4. RingInv'
    BY <1>3, <2>3 DEF RingInv, ReceivedRingConsistent, SendRing
  <2>5. queues'[MAC] = "open" /\ pc'[MAC] \in {"write", "idle"}
    BY <1>1, <1>3 DEF RecvMessage, Take, IpcInv, IpcTypeOK
  <2> QED
    BY <2>1, <2>4, <2>5 DEF WriteInv
<1>4. CASE Fault("stray") /\ UNCHANGED layerVars
  <2>1. IpcInv' /\ RingInv'
    BY <1>4, FaultIpc DEF RingInv, ReceivedRingConsistent, layerVars, ringVars
  <2> QED
    BY <1>1, <1>4, <2>1 DEF WriteInv, Fault
<1> QED
  BY <1>2, <1>3, <1>4 DEF ReadQueueElement, layerVars, ringVars

LEMMA WriteSteps ==
  ASSUME IInv, Write
  PROVE  IInv'
<1> USE LayersAssumption DEF IInv
<1>1. CASE UNCHANGED layerVars
  <2>1. RingInv'
    BY <1>1 DEF RingInv, ReceivedRingConsistent, layerVars, ringVars
  <2>2. ASSUME NEW what \in {"assert", "stray"}, Fault(what) PROVE IpcInv' /\ WriteInv'
    BY <1>1, <2>2, FaultIpc DEF Fault, WriteInv, layerVars, ringVars
  <2>3. ASSUME NEW next \in {"idle", "send"}, MacGoes(next), queues[MAC] = "open",
               next = "send" => received.count > 0
        PROVE  IpcInv' /\ WriteInv'
    <3>1. pc'[MAC] = next /\ queues' = queues /\ received' = received
      BY <1>1, <2>3 DEF MacGoes, IpcInv, IpcTypeOK, layerVars, ringVars
    <3> QED
      BY <2>3, <3>1, MacGoesIpc DEF WriteInv
  <2>4. CASE WriteQueueElement
    BY <2>1, <2>2, <2>3, <2>4 DEF WriteQueueElement, MacRuns
  <2>5. CASE WriteSend
    <3>1. MayRun(MAC) /\ queues[MAC] = "open" /\ received.count > 0
      BY <2>5 DEF WriteSend, MacRuns, Runs, WriteInv
    <3>2. PICK msg \in Contents : msg = received.pkts[received.first]
      BY PacketRingsAssumption
      DEF RingInv, ReceivedRings, Rings, SendSlots, ReceiveSlots
    <3>3. ASSUME StartSend(MAC, routing, MAC, msg, TRUE) PROVE IpcInv' /\ WriteInv'
      <4>1. IpcInv'
        BY <3>1, <3>3, StartSendIpc
      <4>2. queues' = queues /\ received' = received /\ sending'[MAC].to = MAC
        BY <1>1, <3>3 DEF StartSend, IpcInv, IpcTypeOK, layerVars, ringVars
      <4> QED
        BY <3>1, <4>1, <4>2 DEF WriteInv
    <3> QED
      BY <2>1, <2>2, <2>3, <2>5, <3>1, <3>2, <3>3 DEF WriteSend
  <2>6. CASE WritePost
    <3>1. IpcInv'
      BY <2>6, PostIpc DEF WritePost
    <3>2. queues' = queues /\ pc[MAC] = "post" /\ pc'[MAC] \in {"idle", "blocked"}
      BY <2>6 DEF WritePost, Post, Runs, IpcInv, IpcTypeOK
    <3> QED
      BY <2>1, <3>1, <3>2 DEF WriteInv
  <2> QED
    BY <2>4, <2>5, <2>6 DEF Write
<1>2. CASE WritePost
  <2>1. IpcInv'
    BY <1>2, PostIpc DEF WritePost
  <2>2. /\ queues' = queues /\ pc[MAC] = "post" /\ pc'[MAC] \in {"idle", "blocked"}
        /\ received.count > 0
    BY <1>2 DEF WritePost, Post, Runs, IpcInv, IpcTypeOK, WriteInv
  <2>3. received' \in ReceivedRings /\ rewound' \in BOOLEAN /\ ReceivedRingConsistent'
    <3>1. CASE UNCHANGED <<received, rewound>>
      BY <3>1 DEF RingInv, ReceivedRingConsistent
    <3>2. CASE /\ received' = Popped(received)
               /\ rewound' = (rewound \/ received.first + 1 = MAX_PACKETS)
      BY <2>2, <3>2, PoppedIsReceivedRing DEF RingInv, ReceivedRingConsistent
    <3> QED
      BY <1>2, <3>1, <3>2 DEF WritePost
  <2>4. RingInv'
    BY <1>2, <2>3 DEF WritePost, RingInv, SendRing
  <2> QED
    BY <2>1, <2>2, <2>4 DEF WriteInv
<1> QED
  BY <1>1, <1>2 DEF Write, WriteQueueElement, WriteSend

LEMMA NextInv == IInv /\ [Next]_vars => IInv'
<1> SUFFICES ASSUME IInv, [Next]_vars PROVE IInv'
  OBVIOUS
<1>1. CASE UNCHANGED vars
  <2>1. IpcInv'
    BY <1>1, IpcUnchanged DEF IInv, vars
  <2> QED
    BY <1>1, <2>1 DEF IInv, RingInv, ReceivedRingConsistent, WriteInv,
                      vars, ipcVars, layerVars, ringVars
<1> QED
  BY <1>1, MacOpens, RingSteps, ReadSteps, WriteSteps, UpperSteps DEF Next

THEOREM Invariant == Spec => []IInv
BY InitInv, NextInv, PTL DEF Spec

(* Every variable keeps its range: no send ring holds more than its array, *)
(* no queue more than its capacity, and stored_elements never passes the   *)
(* size of msg_storage unless a sender may be preempted.                   *)
THEOREM TypeCorrect == Spec => []TypeOK
<1>1. IInv => TypeOK
  BY DEF IInv, IpcInv, IpcTypeOK, RingInv, SendRings, ReceivedRings, TypeOK
<1> QED
  BY <1>1, Invariant, PTL

(* The occupied slots of a ring of packets to send are those between its   *)
(* read and its write position, although the write position never wraps.   *)
THEOREM SendRingsStayConsistent == Spec => []SendRingsConsistent
<1>1. IInv => SendRingsConsistent
  BY DEF IInv, RingInv, SendRingsConsistent
<1> QED
  BY <1>1, Invariant, PTL

(* The ring of received packets is consistent until its read position      *)
(* wraps, half way through it.                                             *)
THEOREM ReceivedRingStaysConsistent == Spec => []ReceivedRingConsistent
<1>1. IInv => ReceivedRingConsistent
  BY DEF IInv, RingInv
<1> QED
  BY <1>1, Invariant, PTL

(* A packet leaves the ring of received packets only into a queue, at a    *)
(* restart, or because a RIOT mailbox is full.                             *)
THEOREM NoPacketLost == Spec => PacketNotLost
<1>1. ASSUME IInv, [Next]_vars, received.count' < received.count
      PROVE  \/ box'[MAC] # box[MAC]
             \/ received' = EmptyRing(ReceiveSlots)
             \/ os = "riot" /\ Len(box[MAC]) = QUEUE_SIZE
  <2> USE LayersAssumption DEF IInv
  <2>1. received.count \in Nat
    BY <1>1 DEF RingInv, ReceivedRings, Rings
  <2>2. received' # received
    BY <1>1, <2>1
  <2>3. ~ReceiveDataPacket
    <3>1. ASSUME ReceiveDataPacket PROVE FALSE
      <4>1. Received(received, "packet").count = received.count + 1
        BY <1>1 DEF Received, RingInv, ReceivedRings, Rings
      <4> QED
        BY <1>1, <2>1, <3>1, <4>1 DEF ReceiveDataPacket
    <3> QED
      BY <3>1
  <2>4. CASE Restart
    BY <2>4 DEF Restart
  <2>5. CASE WritePost
    <3>1. /\ pc'[MAC] = "idle" /\ pc[MAC] = "post" /\ Post(MAC)
          /\ sending[MAC].to = MAC /\ queues[MAC] = "open"
      BY <1>1, <2>2, <2>5 DEF WritePost, Post, Runs, WriteInv
    <3>2. ~Gone(MAC)
      BY <3>1 DEF Gone
    <3>3. CASE HasRoom(MAC)
      <4>1. box'[MAC] = Append(box[MAC], sending[MAC].envelope)
        BY <1>1, <3>1, <3>2, <3>3 DEF Post, IpcInv, IpcTypeOK
      <4>2. /\ Len(Append(box[MAC], sending[MAC].envelope)) = Len(box[MAC]) + 1
            /\ Len(box[MAC]) \in Nat
        BY <1>1, AppendProperties, LenProperties DEF IpcInv, IpcTypeOK
      <4> QED
        BY <4>1, <4>2
    <3>4. CASE ~HasRoom(MAC)
      <4>1. os = "riot"
        <5>1. ~Waits(MAC, MAC)
          BY <1>1, <3>1 DEF Post, IpcInv, IpcTypeOK
        <5> QED
          BY <3>2, <3>4, <5>1 DEF Waits
      <4>2. Len(box[MAC]) <= QUEUE_SIZE /\ ~(Len(box[MAC]) < QUEUE_SIZE)
        BY <1>1, <3>4, <4>1 DEF HasRoom, Capacity, IpcInv, IpcTypeOK
      <4>3. Len(box[MAC]) \in Nat
        BY <1>1, LenProperties DEF IpcInv, IpcTypeOK
      <4> QED
        BY <4>1, <4>2, <4>3, IpcQueuesAssumption
    <3> QED
      BY <3>3, <3>4
  <2>6. Restart \/ WritePost
    BY <1>1, <2>2, <2>3
    DEF Next, Write, MacOpen, SendDataPacket, ReadQueueElement, WriteQueueElement,
        WriteSend, UpperSend, UpperRecv, UpperQueue, UpperPost, vars, layerVars, ringVars
  <2> QED
    BY <2>4, <2>5, <2>6
<1> QED
  BY <1>1, Invariant, PTL DEF Spec, PacketNotLost

-----------------------------------------------------------------------------
(* One receiver and one sender besides it, on RIOT.  The messages of a     *)
(* mailbox lie in msg_storage in the order in which they will be received, *)
(* between lo, the slot that is cleared next, and hi, the next to be used. *)
Ordered(b, st, lo, hi) ==
  /\ \A i \in 1 .. Len(b) : /\ lo <= b[i].slot /\ b[i].slot < hi
                            /\ b[i].full => st[b[i].slot] = b[i].msg
  /\ \A i, j \in 1 .. Len(b) : i < j => b[i].slot < b[j].slot

SoleCase == os = "riot" /\ targets = {MAC} /\ SoleSender /\ ~PREEMPTIVE

(* The sender that waits for room is behind a full mailbox, so that it     *)
(* gets the room that the next reception makes; the one that has not yet   *)
(* moved end_storage is alone in send_message.                             *)
Waiting(t) ==
  /\ t # MAC /\ Len(box[MAC]) = QUEUE_SIZE
  /\ Ordered(Append(box[MAC], sending[t].envelope), storage, start_storage, end_storage)

Copied(t) ==
  LET e == sending[t].envelope
  IN e.slot = end_storage /\ storage[e.slot] = e.msg

InOrder ==
  /\ \A t \in Upper : box[t] = <<>>
  /\ \A t \in Threads : pc[t] \in {"post", "blocked"} =>
       sending[t].to = MAC /\ queues[MAC] = "open"
  /\ start_storage <= end_storage
  /\ Ordered(box[MAC], storage, start_storage, end_storage)
  /\ \A t \in Threads : pc[t] = "post" => Copied(t)
  /\ \A t \in Threads : pc[t] = "blocked" => Waiting(t)

SoleInv == SoleCase => InOrder

LEMMA SlotsOf ==
  ASSUME NEW b \in Seq(Envelopes)
  PROVE  \A i \in 1 .. Len(b) : b[i].slot \in StorageSlots /\ b[i].slot \in Nat
<1>1. \A i \in 1 .. Len(b) : b[i] \in Envelopes
  BY ElementOfSeq
<1>2. \A e \in Envelopes : e.slot \in StorageSlots /\ e.slot \in Nat
  BY SlotsExist DEF Envelopes, StorageSlots
<1> QED
  BY <1>1, <1>2

LEMMA OrderedEmpty ==
  ASSUME NEW st, NEW lo, NEW hi PROVE Ordered(<<>>, st, lo, hi)
BY EmptySeq DEF Ordered

(* A message in slot hi goes to the end.                                   *)
LEMMA OrderedAppend ==
  ASSUME NEW b \in Seq(Envelopes), NEW st, NEW lo \in Nat, NEW hi \in Nat, lo <= hi,
         Ordered(b, st, lo, hi), NEW e \in Envelopes, e.slot = hi, st[hi] = e.msg
  PROVE  Ordered(b, st, lo, hi + 1) /\ Ordered(Append(b, e), st, lo, hi + 1)
<1> DEFINE a == Append(b, e)
<1>1. /\ Len(b) \in Nat /\ Len(a) = Len(b) + 1 /\ a[Len(b) + 1] = e
      /\ \A i \in 1 .. Len(b) : a[i] = b[i] /\ b[i] \in Envelopes
  BY AppendProperties, LenProperties, ElementOfSeq
<1>2. \A i \in 1 .. Len(b) : b[i].slot \in Nat
  BY <1>1, SlotsExist DEF Envelopes, StorageSlots
<1>3. Ordered(b, st, lo, hi + 1)
  BY <1>2 DEF Ordered
<1>4. ASSUME NEW i \in 1 .. Len(a)
      PROVE  /\ lo <= a[i].slot /\ a[i].slot < hi + 1
             /\ a[i].full => st[a[i].slot] = a[i].msg
  <2>1. CASE i \in 1 .. Len(b)
    BY <1>1, <1>3, <2>1 DEF Ordered
  <2>2. CASE i = Len(b) + 1
    BY <1>1, <2>2
  <2> QED
    BY <1>1, <1>4, <2>1, <2>2
<1>5. ASSUME NEW i \in 1 .. Len(a), NEW j \in 1 .. Len(a), i < j
      PROVE  a[i].slot < a[j].slot
  <2>1. i \in 1 .. Len(b)
    BY <1>1, <1>5
  <2>2. CASE j \in 1 .. Len(b)
    BY <1>1, <1>5, <2>1, <2>2 DEF Ordered
  <2>3. CASE j = Len(b) + 1
    BY <1>1, <2>1, <2>3 DEF Ordered
  <2> QED
    BY <1>1, <1>5, <2>2, <2>3
<1> QED
  BY <1>3, <1>4, <1>5 DEF Ordered

(* Copying a message to slot hi disturbs no other.                         *)
LEMMA OrderedCopy ==
  ASSUME NEW b \in Seq(Envelopes), NEW st \in [StorageSlots -> Contents],
         NEW lo \in Nat, NEW hi \in StorageSlots, Ordered(b, st, lo, hi), NEW msg \in Contents
  PROVE  Ordered(b, [st EXCEPT ![hi] = msg], lo, hi)
<1>1. \A i \in 1 .. Len(b) : b[i].slot \in StorageSlots /\ b[i].slot \in Nat /\ hi \in Nat
  BY SlotsOf, SlotsExist DEF StorageSlots
<1>2. \A i \in 1 .. Len(b) : b[i].slot # hi
  BY <1>1 DEF Ordered
<1> QED
  BY <1>1, <1>2 DEF Ordered

(* Receiving the head clears slot lo, which is the head's or an earlier    *)
(* one, and no other message's.                                            *)
LEMMA OrderedTail ==
  ASSUME NEW b \in Seq(Envelopes), b # <<>>, NEW st \in [StorageSlots -> Contents],
         NEW lo \in StorageSlots, NEW hi \in 0 .. STORAGE, Ordered(b, st, lo, hi)
  PROVE  /\ Ordered(Tail(b), st, lo, hi)
         /\ Ordered(Tail(b), [st EXCEPT ![lo] = Zeros], (lo + 1) % STORAGE, hi)
         /\ (lo + 1) % STORAGE <= hi
<1> DEFINE a == Tail(b)
<1>1. /\ Len(b) \in Nat \ {0} /\ Len(a) = Len(b) - 1
      /\ \A i \in 1 .. Len(a) : a[i] = b[i + 1] /\ i + 1 \in 1 .. Len(b)
  BY HeadTailProperties, EmptySeq
<1>2. \A i \in 1 .. Len(b) : b[i].slot \in StorageSlots /\ b[i].slot \in Nat
  BY SlotsOf
<1>3. lo \in Nat /\ lo + 1 <= hi /\ hi <= STORAGE
  BY <1>1, <1>2, SlotsExist DEF Ordered, StorageSlots
<1>4. \A i \in 1 .. Len(a) : lo + 1 <= a[i].slot /\ a[i].slot < STORAGE
  <2> SUFFICES ASSUME NEW i \in 1 .. Len(a)
               PROVE  lo + 1 <= a[i].slot /\ a[i].slot < STORAGE
    OBVIOUS
  <2>1. 1 \in 1 .. Len(b) /\ i + 1 \in 1 .. Len(b) /\ 1 < i + 1
    BY <1>1
  <2>2. b[1].slot < b[i + 1].slot /\ lo <= b[1].slot
    BY <2>1 DEF Ordered
  <2> QED
    BY <1>1, <1>2, <1>3, <2>1, <2>2, SlotsExist DEF StorageSlots
<1>5. Ordered(a, st, lo, hi)
  <2>1. \A i \in 1 .. Len(a) : /\ lo <= a[i].slot /\ a[i].slot < hi
                              /\ a[i].full => st[a[i].slot] = a[i].msg
    BY <1>1 DEF Ordered
  <2>2. \A i, j \in 1 .. Len(a) : i < j => a[i].slot < a[j].slot
    BY <1>1 DEF Ordered
  <2> QED
    BY <2>1, <2>2 DEF Ordered
<1>6. CASE lo + 1 < STORAGE
  <2>1. (lo + 1) % STORAGE = lo + 1
    BY <1>6, SlotsExist, Wraps DEF StorageSlots
  <2>2. \A i \in 1 .. Len(a) : a[i].slot # lo /\ a[i].slot \in StorageSlots
    BY <1>1, <1>2, <1>3, <1>4
  <2>3. Ordered(a, [st EXCEPT ![lo] = Zeros], lo + 1, hi)
    BY <1>4, <1>5, <2>2 DEF Ordered
  <2> QED
    BY <1>3, <1>5, <2>1, <2>3
<1>7. CASE lo + 1 = STORAGE
  <2>1. (lo + 1) % STORAGE = 0
    BY <1>7, SlotsExist, Wraps DEF StorageSlots
  <2>2. 1 .. Len(a) = {}
    BY <1>1, <1>2, <1>4, <1>7, SlotsExist, SMTT(30)
  <2>3. Ordered(a, [st EXCEPT ![lo] = Zeros], 0, hi)
    BY <2>2 DEF Ordered
  <2> QED
    BY <1>5, <2>1, <2>3
<1> QED
  BY <1>6, <1>7, <1>3, SlotsExist

(* More room behind the messages does not disturb them.                    *)
LEMMA OrderedMore ==
  ASSUME NEW b \in Seq(Envelopes), NEW st, NEW lo \in Nat, NEW hi \in Nat,
         Ordered(b, st, lo, hi)
  PROVE  Ordered(b, st, lo, hi + 1)
BY SlotsOf DEF Ordered

LEMMA InitOrder == Init => SoleInv
<1> SUFFICES ASSUME Init PROVE InOrder
  BY DEF SoleInv
<1>1. /\ \A t \in Threads : pc[t] = "idle" /\ box[t] = <<>>
      /\ start_storage = 0 /\ end_storage = 0
  BY DEF Init, InitQueues
<1>2. Ordered(box[MAC], storage, start_storage, end_storage)
  BY <1>1, OrderedEmpty, LayersAssumption
<1> QED
  BY <1>1, <1>2 DEF InOrder, Upper

(* Steps that touch neither mailboxes nor msg_storage and take no thread   *)
(* into send_message.                                                      *)
LEMMA OrderKept ==
  ASSUME InOrder, UNCHANGED <<box, storageVars, sending>>,
         queues[MAC] = "open" => queues'[MAC] = "open",
         \A t \in Threads : pc'[t] \in {"post", "blocked"} => pc'[t] = pc[t]
  PROVE  InOrder'
<1>1. \A t \in Threads : Copied(t) => Copied(t)'
  BY DEF Copied, storageVars
<1>2. \A t \in Threads : Waiting(t) => Waiting(t)'
  BY DEF Waiting, Ordered, storageVars
<1> QED
  BY <1>1, <1>2 DEF InOrder, Ordered, storageVars

LEMMA QueuesOrder ==
  ASSUME IInv, SoleCase, InOrder, NEW t \in Threads,
         \/ t # MAC /\ (CreateQueue(t) \/ OpenQueue(t) \/ CloseQueue(t))
         \/ OpenQueue(t)
  PROVE  InOrder'
<1> USE LayersAssumption
<1>1. box \in [Threads -> Seq(Envelopes)] /\ queues \in [Threads -> {"none", "created", "open"}]
  BY DEF IInv, IpcInv, IpcTypeOK
<1>2. UNCHANGED <<storageVars, sending, pc>>
  BY DEF SoleCase, CreateQueue, OpenQueue, CloseQueue
<1>3. CASE t # MAC
  <2>1. queues'[MAC] = queues[MAC]
    BY <1>1, <1>3 DEF CreateQueue, OpenQueue, CloseQueue
  <2>2. box[t] = <<>>
    BY <1>3 DEF InOrder, Upper
  <2>3. box' = box
    BY <1>1, <2>2 DEF SoleCase, CreateQueue, OpenQueue, CloseQueue
  <2> QED
    BY <1>2, <2>1, <2>3, OrderKept
<1>4. CASE t = MAC
  <2>1. queues[MAC] = "created" /\ box' = [box EXCEPT ![MAC] = <<>>]
    BY <1>4 DEF SoleCase, OpenQueue
  <2>2. \A u \in Threads : pc'[u] \notin {"post", "blocked"}
    BY <1>2, <2>1 DEF InOrder
  <2>3. Ordered(box'[MAC], storage, start_storage, end_storage)
    BY <1>1, <2>1, OrderedEmpty
  <2>4. \A u \in Upper : box'[u] = <<>>
    BY <1>1, <2>1 DEF Upper, InOrder
  <2>5. UNCHANGED <<storage, start_storage, end_storage>>
    BY <1>2 DEF storageVars
  <2> QED
    BY <2>2, <2>3, <2>4, <2>5 DEF InOrder
<1> QED
  BY <1>3, <1>4

LEMMA StartSendOrder ==
  ASSUME IInv, SoleCase, InOrder, NEW t \in Threads, MayRun(t), NEW q,
         NEW msg \in Contents, NEW full \in BOOLEAN, StartSend(t, q, MAC, msg, full)
  PROVE  InOrder'
<1> USE LayersAssumption
<1>1. /\ box \in [Threads -> Seq(Envelopes)]
      /\ storage \in [StorageSlots -> Contents]
      /\ pc \in [Threads -> {"idle", "post", "blocked", "write", "send"}]
      /\ sending \in [Threads -> [to : Threads \cup {0}, envelope : Envelopes]]
      /\ start_storage \in Nat
  BY SlotsExist DEF IInv, IpcInv, IpcTypeOK, StorageSlots
<1>2. /\ end_storage \in StorageSlots /\ queues[MAC] = "open"
      /\ storage' = [storage EXCEPT ![end_storage] = msg]
      /\ sending' = [sending EXCEPT ![t] =
           [to |-> MAC, envelope |-> [slot |-> end_storage, full |-> full, msg |-> msg]]]
      /\ pc' = [pc EXCEPT ![t] = "post"]
      /\ UNCHANGED <<queues, box, start_storage, end_storage>>
  BY DEF SoleCase, StartSend, StorageStrays, Refused, Unknown
<1>3. \A u \in Threads \ {t} : pc[u] # "post"
  BY DEF MayRun, SoleCase
<1>4. ASSUME NEW b \in Seq(Envelopes), Ordered(b, storage, start_storage, end_storage)
      PROVE  Ordered(b, storage', start_storage', end_storage')
  BY <1>1, <1>2, <1>4, OrderedCopy
<1>5. Ordered(box'[MAC], storage', start_storage', end_storage')
  BY <1>1, <1>2, <1>4 DEF InOrder
<1>6. ASSUME NEW u \in Threads, pc'[u] = "post" PROVE Copied(u)' /\ sending'[u].to = MAC
  <2>1. u = t
    BY <1>1, <1>2, <1>3, <1>6
  <2>2. /\ sending'[u].envelope.slot = end_storage /\ sending'[u].envelope.msg = msg
        /\ sending'[u].to = MAC
    BY <1>1, <1>2, <2>1
  <2>3. storage'[end_storage] = msg
    BY <1>1, <1>2
  <2> QED
    BY <1>2, <2>2, <2>3 DEF Copied
<1>7. ASSUME NEW u \in Threads, pc'[u] = "blocked" PROVE Waiting(u)' /\ sending'[u].to = MAC
  <2>1. pc[u] = "blocked" /\ sending'[u] = sending[u] /\ sending[u].envelope \in Envelopes
    BY <1>1, <1>2, <1>7
  <2>2. Append(box[MAC], sending[u].envelope) \in Seq(Envelopes)
    BY <1>1, <2>1, AppendProperties
  <2>3. Waiting(u) /\ sending[u].to = MAC
    BY <2>1 DEF InOrder
  <2> QED
    BY <1>2, <1>4, <2>1, <2>2, <2>3 DEF Waiting
<1> QED
  BY <1>2, <1>5, <1>6, <1>7 DEF InOrder

LEMMA PostOrder ==
  ASSUME IInv, SoleCase, InOrder, NEW t \in Threads, Post(t)
  PROVE  InOrder'
<1> USE LayersAssumption
<1> DEFINE e == sending[t].envelope
           b == box[MAC]
<1>1. /\ box \in [Threads -> Seq(Envelopes)] /\ b \in Seq(Envelopes)
      /\ pc \in [Threads -> {"idle", "post", "blocked", "write", "send"}]
      /\ sending \in [Threads -> [to : Threads \cup {0}, envelope : Envelopes]]
      /\ start_storage \in Nat /\ end_storage \in Nat /\ e \in Envelopes
      /\ Len(b) <= QUEUE_SIZE /\ QUEUE_SIZE \in Nat /\ Len(b) \in Nat
  <2>1. b \in Seq(Envelopes) /\ Len(b) <= QUEUE_SIZE
    BY DEF IInv, IpcInv, IpcTypeOK, Capacity, SoleCase
  <2>2. Len(b) \in Nat
    BY <2>1, LenProperties
  <2> QED
    BY <2>1, <2>2, SlotsExist, IpcQueuesAssumption DEF IInv, IpcInv, IpcTypeOK, StorageSlots
<1>2. /\ pc[t] = "post" /\ MayRun(t) /\ sending[t].to = MAC /\ queues[MAC] = "open"
      /\ e.slot = end_storage /\ storage[end_storage] = e.msg
  BY DEF Post, Runs, InOrder, Copied
<1>3. \A u \in Threads \ {t} : pc[u] # "post"
  BY <1>2 DEF MayRun, SoleCase
<1>4. end_storage' = end_storage + 1 /\ UNCHANGED <<queues, storage, start_storage>>
  BY <1>1, <1>2, SlotsExist DEF Post, SoleCase, NextEnd, Envelopes, StorageSlots
<1>5. /\ start_storage' <= end_storage'
      /\ Ordered(b, storage', start_storage', end_storage')
      /\ Ordered(Append(b, e), storage', start_storage', end_storage')
  <2>1. start_storage <= end_storage /\ Ordered(b, storage, start_storage, end_storage)
    BY DEF InOrder
  <2> QED
    BY <1>1, <1>2, <1>4, <2>1, OrderedAppend
<1>6. CASE HasRoom(MAC)
  <2>1. /\ box' = [box EXCEPT ![MAC] = Append(@, e)]
        /\ pc' = [pc EXCEPT ![t] = "idle"]
    BY <1>2, <1>6 DEF Post, Gone, Waits, SoleCase
  <2>2. Len(b) # QUEUE_SIZE
    BY <1>1, <1>6 DEF HasRoom, Capacity, SoleCase
  <2>3. \A u \in Threads : pc'[u] \notin {"post", "blocked"}
    BY <1>1, <1>3, <2>1, <2>2 DEF InOrder, Waiting
  <2>4. box'[MAC] = Append(b, e) /\ \A u \in Upper : box'[u] = box[u]
    BY <1>1, <2>1 DEF Upper
  <2> QED
    BY <1>5, <2>3, <2>4 DEF InOrder
<1>7. CASE ~HasRoom(MAC)
  <2>1. Len(b) = QUEUE_SIZE /\ box' = box
    BY <1>1, <1>2, <1>7 DEF Post, HasRoom, Capacity, SoleCase
  <2>2. CASE t = MAC
    <3>1. pc' = [pc EXCEPT ![t] = "idle"] /\ sending' = [sending EXCEPT ![t] = NoSend]
      BY <1>2, <2>2 DEF Post, Waits, SoleCase
    <3>2. \A u \in Threads : pc'[u] # "post"
      BY <1>1, <1>3, <3>1
    <3>3. ASSUME NEW u \in Threads, pc'[u] = "blocked"
          PROVE  Waiting(u)' /\ sending'[u].to = MAC
      <4>1. pc[u] = "blocked" /\ sending'[u] = sending[u] /\ sending[u].envelope \in Envelopes
        BY <1>1, <3>1, <3>3
      <4>2. Waiting(u) /\ sending[u].to = MAC
        BY <4>1 DEF InOrder
      <4>3. Append(b, sending[u].envelope) \in Seq(Envelopes)
        BY <1>1, <4>1, AppendProperties
      <4>4. Ordered(Append(b, sending[u].envelope), storage, start_storage, end_storage + 1)
        BY <1>1, <4>2, <4>3, OrderedMore DEF Waiting
      <4> QED
        BY <1>4, <2>1, <4>1, <4>2, <4>4 DEF Waiting
    <3> QED
      BY <1>2, <1>4, <1>5, <2>1, <3>2, <3>3 DEF InOrder
  <2>3. CASE t # MAC
    <3>1. pc' = [pc EXCEPT ![t] = "blocked"] /\ sending' = sending
      BY <1>2, <1>7, <2>3 DEF Post, Waits, Gone, SoleCase
    <3>2. \A u \in Threads : pc'[u] # "post"
      BY <1>1, <1>3, <3>1
    <3>3. ASSUME NEW u \in Threads, pc'[u] = "blocked" PROVE u = t
      <4>1. ASSUME u # t PROVE u \in Upper
        BY <1>1, <3>1, <3>3, <4>1 DEF InOrder, Waiting, Upper
      <4> QED
        BY <2>3, <4>1 DEF SoleCase, SoleSender, Upper
    <3>4. Waiting(t)'
      BY <1>5, <2>1, <2>3, <3>1 DEF Waiting
    <3> QED
      BY <1>2, <1>4, <1>5, <2>1, <3>1, <3>2, <3>3, <3>4 DEF InOrder
  <2> QED
    BY <2>2, <2>3
<1> QED
  BY <1>6, <1>7

LEMMA RecvMessageOrder ==
  ASSUME IInv, SoleCase, InOrder, NEW t \in Threads, MayRun(t), NEW next \in {"idle", "write"},
         box[t] # <<>>, RecvMessage(t, next)
  PROVE  InOrder'
<1> USE LayersAssumption
<1> DEFINE b == box[MAC]
<1>1. /\ box \in [Threads -> Seq(Envelopes)] /\ b \in Seq(Envelopes)
      /\ storage \in [StorageSlots -> Contents]
      /\ pc \in [Threads -> {"idle", "post", "blocked", "write", "send"}]
      /\ sending \in [Threads -> [to : Threads \cup {0}, envelope : Envelopes]]
      /\ start_storage \in StorageSlots /\ end_storage \in 0 .. STORAGE
  BY DEF IInv, IpcInv, IpcTypeOK
<1>2. t = MAC /\ b # <<>>
  BY DEF InOrder, Upper
<1>3. \A u \in Threads \ {MAC} : pc[u] # "post"
  BY <1>2 DEF MayRun, SoleCase
<1>4. ASSUME NEW a \in Seq(Envelopes), a # <<>>,
             Ordered(a, storage, start_storage, end_storage)
      PROVE  /\ Ordered(Tail(a), storage', start_storage', end_storage')
             /\ start_storage' <= end_storage'
  <2>1. CASE UNCHANGED <<storage, start_storage, stored>>
    BY <1>1, <1>4, <2>1, OrderedTail DEF RecvMessage, InOrder
  <2>2. CASE Release
    BY <1>1, <1>4, <2>2, OrderedTail DEF RecvMessage, Release
  <2> QED
    BY <2>1, <2>2 DEF RecvMessage
<1>5. start_storage' <= end_storage' /\ queues' = queues
  BY <1>1, <1>2, <1>4 DEF InOrder, RecvMessage
<1>6. CASE /\ \A u \in Threads : ~(pc[u] = "blocked" /\ sending[u].to = MAC)
           /\ box' = [box EXCEPT ![MAC] = Tail(@)]
           /\ pc' = [pc EXCEPT ![MAC] = next]
  <2>1. \A u \in Threads : pc'[u] \notin {"post", "blocked"}
    BY <1>1, <1>3, <1>6 DEF InOrder
  <2>2. box'[MAC] = Tail(b) /\ \A u \in Upper : box'[u] = box[u]
    BY <1>1, <1>6 DEF Upper
  <2>3. Ordered(box'[MAC], storage', start_storage', end_storage')
    BY <1>1, <1>2, <1>4, <2>2 DEF InOrder
  <2> QED
    BY <1>5, <2>1, <2>2, <2>3 DEF InOrder
<1>7. ASSUME NEW u \in Threads, pc[u] = "blocked",
             box' = [box EXCEPT ![MAC] = Append(Tail(@), sending[u].envelope)],
             pc' = [pc EXCEPT ![MAC] = next, ![u] = "idle"]
      PROVE  InOrder'
  <2>1. Waiting(u) /\ u \in Upper /\ sending[u].envelope \in Envelopes
    BY <1>1, <1>7 DEF InOrder, Waiting, Upper
  <2>2. \A v \in Threads : pc[v] = "blocked" => v = u
    BY <2>1 DEF InOrder, Waiting, Upper, SoleCase, SoleSender
  <2>3. \A v \in Threads : pc'[v] \notin {"post", "blocked"}
    BY <1>1, <1>3, <1>7, <2>2
  <2> DEFINE a == Append(b, sending[u].envelope)
  <2>4. a \in Seq(Envelopes) /\ a # <<>> /\ Tail(a) = Append(Tail(b), sending[u].envelope)
    BY <1>1, <1>2, <2>1, AppendProperties, HeadTailAppend
  <2>5. box'[MAC] = Tail(a) /\ \A v \in Upper : box'[v] = box[v]
    BY <1>1, <1>7, <2>4 DEF Upper
  <2>6. Ordered(box'[MAC], storage', start_storage', end_storage')
    BY <1>4, <2>1, <2>4, <2>5 DEF Waiting
  <2> QED
    BY <1>5, <2>3, <2>5, <2>6 DEF InOrder
<1>8. CASE /\ os = "riot" /\ stored = 0
           /\ pc' = [pc EXCEPT ![MAC] = next] /\ UNCHANGED <<box, sending>>
  <2>1. UNCHANGED <<queues, box, sending, storageVars>>
    BY <1>8 DEF RecvMessage, Delivers, storageVars
  <2> QED
    BY <1>1, <1>8, <2>1, OrderKept DEF storageVars
<1> QED
  BY <1>2, <1>6, <1>7, <1>8 DEF RecvMessage, Take

LEMMA NextOrder == IInv /\ SoleInv /\ [Next]_vars => SoleInv'
<1> SUFFICES ASSUME IInv, SoleInv, [Next]_vars, SoleCase' PROVE InOrder'
  BY DEF SoleInv
<1> USE LayersAssumption
<1>1. UNCHANGED <<os, targets>>
  BY DEF Next, MacOpen, ReceiveDataPacket, SendDataPacket, Restart, ReadQueueElement,
         Write, WriteQueueElement, WriteSend, WritePost, UpperSend, UpperRecv, UpperQueue,
         UpperPost, CreateQueue, OpenQueue, CloseQueue, StartSend, Post, RecvMessage,
         Fault, MacGoes, vars, ipcVars, layerVars
<1>2. SoleCase /\ InOrder
  BY <1>1 DEF SoleInv, SoleCase
<1>3. pc \in [Threads -> {"idle", "post", "blocked", "write", "send"}]
  BY DEF IInv, IpcInv, IpcTypeOK
<1>4. CASE UNCHANGED ipcVars
  BY <1>2, <1>4, OrderKept DEF ipcVars
<1>5. ASSUME NEW what, Fault(what) PROVE InOrder'
  BY <1>2, <1>5, OrderKept DEF Fault
<1>6. ASSUME NEW next \in {"idle", "write", "send"}, MacGoes(next) PROVE InOrder'
  BY <1>2, <1>3, <1>6, OrderKept DEF MacGoes
<1>7. CASE MacOpen
  BY <1>2, <1>7, QueuesOrder DEF MacOpen
<1>8. CASE ReadQueueElement
  <2>1. ASSUME RecvMessage(MAC, "write"), box[MAC] # <<>> PROVE InOrder'
    <3>1. MayRun(MAC)
      BY <1>8 DEF ReadQueueElement, MacRuns, Runs
    <3> QED
      BY <1>2, <2>1, <3>1, RecvMessageOrder
  <2> QED
    BY <1>5, <1>6, <1>8, <2>1 DEF ReadQueueElement
<1>9. CASE Write
  <2>1. CASE WriteQueueElement
    BY <1>5, <1>6, <2>1 DEF WriteQueueElement
  <2>2. CASE WriteSend
    <3>1. MayRun(MAC)
      BY <2>2 DEF WriteSend, MacRuns, Runs
    <3>2. PICK msg \in Contents : msg = received.pkts[received.first]
      BY PacketRingsAssumption
      DEF IInv, RingInv, ReceivedRings, Rings, SendSlots, ReceiveSlots
    <3>3. ASSUME StartSend(MAC, routing, MAC, msg, TRUE) PROVE InOrder'
      BY <1>2, <3>1, <3>3, StartSendOrder
    <3> QED
      BY <1>5, <1>6, <2>2, <3>2, <3>3 DEF WriteSend
  <2>3. CASE WritePost
    BY <1>2, <2>3, PostOrder DEF WritePost
  <2> QED
    BY <1>9, <2>1, <2>2, <2>3 DEF Write
<1>10. ASSUME NEW t \in Upper, UpperSend(t) PROVE InOrder'
  <2>1. t \in Threads /\ MayRun(t)
    BY <1>10 DEF Upper, UpperSend, Runs
  <2>2. ASSUME NEW full \in Sizes, StartSend(t, t, MAC, "packet", full) PROVE InOrder'
    <3>1. full \in BOOLEAN /\ "packet" \in Contents
      BY DEF Sizes, Contents
    <3> QED
      BY <1>2, <2>1, <2>2, <3>1, StartSendOrder
  <2> QED
    BY <1>2, <1>5, <1>10, <2>2 DEF UpperSend, SoleCase
<1>11. ASSUME NEW t \in Upper, UpperRecv(t) PROVE InOrder'
  BY <1>2, <1>11, RecvMessageOrder DEF UpperRecv, Runs, Upper
<1>12. ASSUME NEW t \in Upper, UpperQueue(t) PROVE InOrder'
  BY <1>2, <1>12, QueuesOrder DEF UpperQueue, Upper
<1>13. ASSUME NEW t \in Upper, UpperPost(t) PROVE InOrder'
  BY <1>2, <1>13, PostOrder DEF UpperPost, Upper
<1>14. ReceiveDataPacket \/ SendDataPacket \/ Restart \/ UNCHANGED vars => UNCHANGED ipcVars
  BY DEF ReceiveDataPacket, SendDataPacket, Restart, vars
<1> QED
  BY <1>4, <1>7, <1>8, <1>9, <1>10, <1>11, <1>12, <1>13, <1>14 DEF Next

(* With one receiver, one sender besides it and no preemption, every       *)
(* message that will be delivered is still what its sender gave, although  *)
(* recv_message clears a slot without regard to which message it took.     *)
THEOREM SoleReceiverIsServed == Spec => []SoleReceiverGetsWhatWasSent
<1>1. IInv /\ SoleInv => SoleReceiverGetsWhatWasSent
  <2> SUFFICES ASSUME IInv, SoleInv, SoleCase PROVE ReceivedAsSent
    BY DEF SoleReceiverGetsWhatWasSent, SoleCase, ReceivedAsSent
  <2> USE LayersAssumption
  <2>1. InOrder
    BY DEF SoleInv
  <2>2. box[MAC] \in Seq(Envelopes) /\ DOMAIN box[MAC] = 1 .. Len(box[MAC])
    BY LenProperties DEF IInv, IpcInv, IpcTypeOK
  <2>3. DOMAIN <<>> = {}
    BY EmptySeq, LenProperties
  <2>4. \A t \in Threads : DOMAIN box[t] # {} => t = MAC
    BY <2>1, <2>3 DEF InOrder, Upper
  <2>5. ASSUME NEW e \in Pending, e.full PROVE storage[e.slot] = e.msg
    <3>1. PICK t \in Threads : e \in {box[t][i] : i \in DOMAIN box[t]}
      BY DEF Pending
    <3>2. PICK i \in DOMAIN box[t] : e = box[t][i]
      BY <3>1
    <3> QED
      BY <2>1, <2>2, <2>4, <2>5, <3>2 DEF InOrder, Ordered
  <2>6. ASSUME NEW t \in Threads, NEW u \in Threads, NEW i \in DOMAIN box[t],
               NEW j \in DOMAIN box[u], <<t, i>> # <<u, j>>
        PROVE  box[t][i].slot # box[u][j].slot
    <3>1. t = MAC /\ u = MAC /\ i # j /\ i \in 1 .. Len(box[MAC]) /\ j \in 1 .. Len(box[MAC])
      BY <2>2, <2>4, <2>6
    <3>2. box[MAC][i].slot \in Nat /\ box[MAC][j].slot \in Nat
      BY <2>2, <3>1, SlotsOf
    <3>3. i < j \/ j < i
      BY <3>1
    <3>4. Ordered(box[MAC], storage, start_storage, end_storage)
      BY <2>1 DEF InOrder
    <3> QED
      BY <3>1, <3>2, <3>3, <3>4 DEF Ordered
  <2> QED
    BY <2>5, <2>6 DEF ReceivedAsSent
<1> QED
  BY <1>1, InitOrder, NextOrder, Invariant, PTL DEF Spec
=============================================================================
