----------------------------- MODULE PowerMode ----------------------------
(***************************************************************************)
(* The PowerMode state machine of one node                                 *)
(* (MAC/MAC_PowerMode_StateMachine.c): STARTP, then slot after slot        *)
(* PASSIVE -> ACTIVE -> [TRANSMIT | RECEIVE] -> PASSIVE, and FINISHP when  *)
(* an error ends the medium access.  The machine runs in the node's one    *)
(* thread; pc is the point of that thread, one action is one iteration of  *)
(* a loop of the code.  What other threads, the radio and the clock do     *)
(* between two iterations is chosen nondeterministically.                  *)
(*                                                                         *)
(* Data is abstracted: the packet rings are their counters, a frequency is *)
(* its number in FREQUENCIES (0 is "no frequency"), frame numbers and      *)
(* network times are only compared with those of a received packet.        *)
(***************************************************************************)
EXTENDS Listens

CONSTANTS
  NSLOTS,        \* MAX_NUMBER_SLOTS, slots of a frame
  NFREQS,        \* MAX_NUMBER_FREQS, frequencies and so cf slots of a slot
  MAX_PACKETS    \* MAX_NUMBER_DATA_PACKETS, capacity of each ring

ASSUME PowerModeAssumption ==
  /\ NSLOTS \in Nat \ {0}
  /\ NFREQS \in Nat \ {0}
  /\ MAX_PACKETS \in Nat \ {0}
  /\ LISTEN_TIMERS \in BOOLEAN

VARIABLES
  pc,            \* where the node's thread is
  pool,          \* the timeouts (TimerPool)
  pmCur,         \* powerMode.currentState
  pmNext,        \* powerMode.nextState
  ret,           \* what mclmac_execute_powermode_state returned last
  slotTimer,     \* frame.slot_timer
  cfTimer,       \* frame.cf_timer
  slotDuration,  \* has frame.slot_duration been given its value?
  currentSlot,   \* frame.current_slot
  cfSlot,        \* frame.current_cf_slot
  act,           \* locals of the ACTIVE case
  listens,       \* local count of the RECEIVE case
  selectedSlot,  \* mac._selectedSlot
  txChannel,     \* mac.transmitChannel
  rxChannel,     \* mac.receiveChannel
  collision,     \* mac._collision*, mac._is_internal_collision
  toSend,        \* mac._packets_to_send_message + mac._packets_to_send_control
  received,      \* mac._number_packets_received
  isFirst        \* mclmac._is_first_node

Slots == 0 .. NSLOTS - 1
Frequencies == 1 .. NFREQS

(* mclmac_get_frequency: cf slot k belongs to the k-th frequency.          *)
FrequencyOf(k) == k + 1

PmStates == {"STARTP", "PASSIVE", "ACTIVE", "TRANSMIT", "RECEIVE", "FINISHP"}

Results == {"SUCCESS", "COLLISION_DETECTED", "COLLISION_ERROR", "SYNCHRONIZATION_ERROR"}

NoAct == [isCurrent |-> FALSE, send |-> FALSE, receive |-> FALSE, packets |-> 0]

(* _collisionSlot is left out: nothing reads it back.                      *)
NoCollision == [detected |-> FALSE, internal |-> FALSE, freq |-> 0]

(* The fields of a control packet that RECEIVE compares with its own.      *)
ControlPackets ==
  [collisionFreq : {0} \cup Frequencies, collisionSlot : Slots,
   slot : Slots, sameFrame : BOOLEAN, onTime : BOOLEAN]

pmVars == <<pmCur, pmNext, ret>>
trafficVars == <<toSend, received>>
slotVars == <<slotTimer, slotDuration, currentSlot>>
activeVars == <<cfTimer, cfSlot, act>>
channelVars == <<selectedSlot, txChannel, rxChannel>>

-----------------------------------------------------------------------------
(* mclmac_update_powermode_state_machine: is the requested change allowed? *)
(* No state asks for NONEP, and asking for STARTP is an assertion failure. *)
PmAllowed(cur, next) ==
  CASE next = "PASSIVE"  -> cur # "FINISHP"
    [] next = "ACTIVE"   -> cur = "PASSIVE"
    [] next = "TRANSMIT" -> cur = "ACTIVE"
    [] next = "RECEIVE"  -> cur = "ACTIVE"
    [] next = "FINISHP"  -> cur \notin {"STARTP", "PASSIVE"}

(* The state after it; a refused change leaves the state as it is.         *)
PmUpdated(cur, next) ==
  IF cur = next \/ ~PmAllowed(cur, next) THEN cur ELSE next

(* A state of the machine ends: the MEDIUM_ACCESS loop gets its result.    *)
Return(next, result) ==
  /\ pmNext' = next
  /\ ret' = result
  /\ pc' = "ma_switch"
  /\ UNCHANGED pmCur

(* timer = timeout_set(duration), on pool p.                               *)
Arm(timer, p) ==
  \E id \in Handles :
    /\ TimeoutSet(p, TRUE, id)
    /\ timer' = id
    /\ pool' = AfterSet(p, id)

-----------------------------------------------------------------------------
(* STARTP, executed once by MEDIUM_ACCESS before its loop.                 *)
StartP ==
  /\ slotDuration' = TRUE
  /\ currentSlot' = 0
  /\ cfSlot' = 0
  /\ toSend' = 0
  /\ received' = 0
  /\ Arm(slotTimer, pool)

-----------------------------------------------------------------------------
(* PASSIVE: sleep until the slot timer has passed, moving packets between  *)
(* the upper layers and the rings meanwhile.                               *)
PassiveEnter ==
  /\ pc = "pm" /\ pmCur = "PASSIVE"
  /\ cfSlot' = 0
  /\ pc' = "passive_loop"
  /\ UNCHANGED <<pool, pmVars, slotVars, cfTimer, act, listens, channelVars,
                 collision, trafficVars, isFirst>>

(* mclmac_read_queue_element and mclmac_write_queue_element: a packet may  *)
(* come from the MAC's queue and one may leave for the routing layer's.    *)
ExchangePackets ==
  /\ \/ toSend' = toSend
     \/ toSend < 2 * MAX_PACKETS /\ toSend' = toSend + 1
  /\ \/ received' = received
     \/ received > 0 /\ received' = received - 1

PassivePoll ==
  /\ pc = "passive_loop"
  /\ TimeoutPassed(pool, slotTimer) # 1
  /\ ExchangePackets
  /\ UNCHANGED <<pc, pool, pmVars, slotVars, activeVars, listens, channelVars,
                 collision, isFirst>>

(* Faulty variant (cf. PassiveTimerReleased): the timer is not unset.     *)
PassiveTimerKept == pool

PassiveTimerReleased == AfterUnset(pool, slotTimer)

PassiveEnd ==
  /\ pc = "passive_loop"
  /\ TimeoutPassed(pool, slotTimer) = 1
  /\ ExchangePackets
  /\ currentSlot' = IF currentSlot + 1 = NSLOTS THEN 0 ELSE currentSlot + 1
  /\ Arm(slotTimer, PassiveTimerReleased)
  /\ Return("ACTIVE", "SUCCESS")
  /\ UNCHANGED <<slotDuration, activeVars, listens, channelVars, collision, isFirst>>

-----------------------------------------------------------------------------
(* ACTIVE: the cf phase.  Each cf slot belongs to a frequency; in its own  *)
(* slot, on its own frequency, the node announces that it will send, in    *)
(* all others it listens for announcements addressed to it.                *)
ActiveEnter ==
  /\ pc = "pm" /\ pmCur = "ACTIVE"
  /\ cfSlot' = 0
  /\ act' = [NoAct EXCEPT !.isCurrent = (currentSlot = selectedSlot)]
  /\ Arm(cfTimer, pool)
  /\ pc' = "active_loop"
  /\ UNCHANGED <<pmVars, slotVars, listens, channelVars, collision, trafficVars, isFirst>>

SendCfMessage ==
  /\ IF toSend > 0 \/ collision.detected \/ isFirst
       THEN act' = [act EXCEPT !.send = TRUE, !.isCurrent = FALSE]
       ELSE act' = act
  /\ UNCHANGED <<rxChannel, isFirst>>

(* The last case is a message addressed to this node or broadcast.  The    *)
(* number of messages is only compared with 1, so 2 stands for 2 to 255;   *)
(* packets is a uint8_t, and one message more than 255 makes it 0 again.   *)
ReceiveCfMessage ==
  \/ UNCHANGED <<act, rxChannel, isFirst>>        \* nothing on the medium
  \/ /\ isFirst' = FALSE                          \* a message for another node
     /\ UNCHANGED <<act, rxChannel>>
  \/ /\ \E n \in IF act.packets = 2 THEN {0, 2} ELSE {act.packets + 1} :
          act' = [act EXCEPT !.receive = TRUE, !.packets = n]
     /\ rxChannel' = FrequencyOf(cfSlot)
     /\ isFirst' = FALSE

(* Faulty variant (cf. OwnCfSlot): the slot is not looked at.             *)
OwnCfSlotInAnySlot(isCurrent, slot) == txChannel = FrequencyOf(slot)

(* Faulty variant (cf. OwnCfSlot): the frequency is not looked at.        *)
OwnCfSlotOnAnyFrequency(isCurrent, slot) == isCurrent

(* Whether this is the node's own frequency is decided by the cf slot read *)
(* at the head of the loop, before the timer is looked at.                 *)
OwnCfSlot(isCurrent, slot) == isCurrent /\ txChannel = FrequencyOf(slot)

CfTraffic ==
  IF OwnCfSlot(act.isCurrent, cfSlot) THEN SendCfMessage ELSE ReceiveCfMessage

CfSlotBusy ==
  /\ pc = "active_loop"
  /\ TimeoutPassed(pool, cfTimer) # 1
  /\ CfTraffic
  /\ UNCHANGED <<pc, pool, pmVars, slotVars, cfTimer, cfSlot, listens, selectedSlot,
                 txChannel, collision, trafficVars>>

(* Faulty variant (cf. NextCfSlot): the timer is not armed again.         *)
NextCfSlotUnarmed ==
  /\ cfSlot' = cfSlot + 1
  /\ pool' = AfterUnset(pool, cfTimer)
  /\ UNCHANGED cfTimer

NextCfSlot ==
  /\ cfSlot' = cfSlot + 1
  /\ Arm(cfTimer, AfterUnset(pool, cfTimer))

CfSlotEnds ==
  /\ pc = "active_loop"
  /\ TimeoutPassed(pool, cfTimer) = 1
  /\ cfSlot + 1 < NFREQS
  /\ NextCfSlot
  /\ CfTraffic
  /\ UNCHANGED <<pc, pmVars, slotVars, listens, selectedSlot, txChannel, collision, trafficVars>>

CfPhaseEnds ==
  /\ pc = "active_loop"
  /\ TimeoutPassed(pool, cfTimer) = 1
  /\ cfSlot + 1 = NFREQS
  /\ cfSlot' = cfSlot + 1
  /\ pool' = AfterUnset(pool, cfTimer)
  /\ pc' = "active_end"
  /\ UNCHANGED <<pmVars, slotVars, cfTimer, act, listens, channelVars, collision,
                 trafficVars, isFirst>>

(* What the cf phase has decided.                                          *)
Collided == (act.send /\ act.receive) \/ act.packets > 1

ActiveCollision ==
  /\ pc = "active_end" /\ Collided
  /\ collision' = [collision EXCEPT !.internal = @ \/ (act.send /\ act.receive)]
  /\ act' = NoAct
  /\ Return("PASSIVE", "COLLISION_DETECTED")
  /\ UNCHANGED <<pool, slotVars, cfTimer, cfSlot, listens, channelVars, trafficVars, isFirst>>

ActiveDecide ==
  /\ pc = "active_end" /\ ~Collided
  /\ act' = NoAct
  /\ Return(CASE act.send    -> "TRANSMIT"
              [] act.receive -> "RECEIVE"
              [] OTHER       -> "PASSIVE", "SUCCESS")
  /\ UNCHANGED <<pool, slotVars, cfTimer, cfSlot, listens, channelVars, collision,
                 trafficVars, isFirst>>

-----------------------------------------------------------------------------
(* TRANSMIT: a control packet first; a node that announces a collision     *)
(* sends nothing else.                                                     *)

(* Faulty variant (cf. ForgetCollision): the frequency is not cleared.    *)
ForgetCollisionFlags ==
  collision' = [collision EXCEPT !.detected = FALSE, !.internal = FALSE]

ForgetCollision == collision' = NoCollision

TransmitAnnounce ==
  /\ pc = "pm" /\ pmCur = "TRANSMIT"
  /\ collision.detected
  /\ ForgetCollision
  /\ IF collision.internal
       THEN Return("FINISHP", "COLLISION_ERROR")
       ELSE Return("PASSIVE", "SUCCESS")
  /\ UNCHANGED <<pool, slotVars, activeVars, listens, channelVars, trafficVars, isFirst>>

TransmitEnter ==
  /\ pc = "pm" /\ pmCur = "TRANSMIT"
  /\ ~collision.detected
  /\ pc' = "transmit_loop"
  /\ UNCHANGED <<pool, pmVars, slotVars, activeVars, listens, channelVars, collision,
                 trafficVars, isFirst>>

(* Faulty variant (cf. SendDataPacket): the counts are not checked.       *)
SendDataPacketUnchecked == toSend' = toSend - 1

(* mclmac_send_data_packet; the loop ends when the rings are empty.        *)
SendDataPacket == toSend' = IF toSend > 0 THEN toSend - 1 ELSE 0

TransmitSend ==
  /\ pc = "transmit_loop"
  /\ TimeoutPassed(pool, slotTimer) # 1
  /\ SendDataPacket
  /\ IF toSend' = 0
       THEN Return("PASSIVE", "SUCCESS")
       ELSE UNCHANGED <<pc, pmVars>>
  /\ UNCHANGED <<pool, slotVars, activeVars, listens, channelVars, collision, received, isFirst>>

(* The slot is over: the loop releases the slot timer and leaves.          *)
TransmitTimeout ==
  /\ pc = "transmit_loop"
  /\ TimeoutPassed(pool, slotTimer) = 1
  /\ pool' = AfterUnset(pool, slotTimer)
  /\ Return("PASSIVE", "SUCCESS")
  /\ UNCHANGED <<slotVars, activeVars, listens, channelVars, collision, trafficVars, isFirst>>

-----------------------------------------------------------------------------
(* RECEIVE: a control packet must be heard first.                          *)
ReceiveEnter ==
  /\ pc = "pm" /\ pmCur = "RECEIVE"
  /\ listens' = 1
  /\ pc' = "receive_listen"
  /\ UNCHANGED <<pool, pmVars, slotVars, activeVars, channelVars, collision, trafficVars, isFirst>>

ReceiveMissed ==
  /\ pc = "receive_listen"
  /\ pool' \in AfterListen(pool, slotDuration, FALSE)
  /\ IF listens = 2
       THEN Return("PASSIVE", "SUCCESS") /\ listens' = 0
       ELSE listens' = listens + 1 /\ UNCHANGED <<pc, pmVars>>
  /\ UNCHANGED <<slotVars, activeVars, channelVars, collision, trafficVars, isFirst>>

(* The packet of a second listen is heard and then ignored (count >= 2).   *)
ReceiveHeardLate ==
  /\ pc = "receive_listen" /\ listens = 2
  /\ pool' \in AfterListen(pool, slotDuration, TRUE)
  /\ listens' = 0
  /\ Return("PASSIVE", "SUCCESS")
  /\ UNCHANGED <<slotVars, activeVars, channelVars, collision, trafficVars, isFirst>>

(* The packet says that this node's own slot and frequency collide.        *)
TellsOwnCollision(pkt) ==
  pkt.collisionFreq = txChannel /\ pkt.collisionSlot = selectedSlot

(* The packet's clock is this node's clock.                                *)
InStep(pkt) == pkt.slot = currentSlot /\ pkt.sameFrame /\ pkt.onTime

ReceiveHeard ==
  /\ pc = "receive_listen" /\ listens = 1
  /\ pool' \in AfterListen(pool, slotDuration, TRUE)
  /\ listens' = 0
  /\ \E pkt \in ControlPackets :
       \/ TellsOwnCollision(pkt) /\ Return("FINISHP", "COLLISION_ERROR")
       \/ /\ ~TellsOwnCollision(pkt) /\ ~InStep(pkt)
          /\ Return("FINISHP", "SYNCHRONIZATION_ERROR")
       \/ /\ ~TellsOwnCollision(pkt) /\ InStep(pkt)
          /\ pc' = "receive_loop" /\ UNCHANGED pmVars
  /\ UNCHANGED <<slotVars, activeVars, channelVars, collision, trafficVars, isFirst>>

(* mclmac_receive_data_packet, until the ring is full.                     *)
ReceivePacket ==
  /\ pc = "receive_loop"
  /\ received < 2 * MAX_PACKETS
  /\ TimeoutPassed(pool, slotTimer) # 1
  /\ received' = received + 1
  /\ UNCHANGED <<pc, pool, pmVars, slotVars, activeVars, listens, channelVars, collision,
                 toSend, isFirst>>

ReceiveEnd ==
  /\ pc = "receive_loop"
  /\ received = 2 * MAX_PACKETS \/ TimeoutPassed(pool, slotTimer) = 1
  /\ Return("PASSIVE", "SUCCESS")
  /\ UNCHANGED <<pool, slotVars, activeVars, listens, channelVars, collision, trafficVars, isFirst>>

-----------------------------------------------------------------------------
(* Faulty variant (cf. FinishP): the received packets stay.               *)
FinishPKeepsReceived ==
  /\ toSend' = 0
  /\ UNCHANGED received

(* FINISHP forgets the packets that are still in the rings.                *)
FinishP ==
  /\ toSend' = 0
  /\ received' = 0

PowerModeStep ==
  \/ PassiveEnter \/ PassivePoll \/ PassiveEnd
  \/ ActiveEnter \/ CfSlotBusy \/ CfSlotEnds \/ CfPhaseEnds
  \/ ActiveCollision \/ ActiveDecide
  \/ TransmitAnnounce \/ TransmitEnter \/ TransmitSend \/ TransmitTimeout
  \/ ReceiveEnter \/ ReceiveMissed \/ ReceiveHeardLate \/ ReceiveHeard
  \/ ReceivePacket \/ ReceiveEnd
=============================================================================
