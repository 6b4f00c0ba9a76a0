------------------------- MODULE MacNodeProperties ------------------------
(***************************************************************************)
(* What is asked of a node.  The first group holds of the code; the second *)
(* states what its comments and its README say and the code does not do.   *)
(***************************************************************************)
EXTENDS MacNode

PmPoints == {"pm", "passive_loop", "active_loop", "active_end", "transmit_loop",
             "receive_listen", "receive_loop", "ma_switch"}

MacPoints == {"mac", "mac_update", "init_loop", "sync_listen", "sync_loop", "timeslot_wait"}

Collisions == [detected : BOOLEAN, internal : BOOLEAN, freq : {0} \cup Frequencies]

Acts == [isCurrent : BOOLEAN, send : BOOLEAN, receive : BOOLEAN, packets : 0 .. 2]

(* Every variable has its type: counters stay within their rings, slots    *)
(* within the frame, channels within the frequencies.                      *)
TypeOK ==
  /\ pc \in MacPoints \cup PmPoints
  /\ pool \in Pools
  /\ macCur \in MacStates /\ macNext \in MacStates \cup {"NONE"}
  /\ pmCur \in PmStates /\ pmNext \in PmStates \cup {"NONEP"} /\ ret \in Results
  /\ slotTimer \in Handles /\ cfTimer \in Handles /\ slotDuration \in BOOLEAN
  /\ currentSlot \in Slots /\ cfSlot \in 0 .. NFREQS
  /\ act \in Acts /\ listens \in 0 .. 2
  /\ selectedSlot \in Nat
  /\ txChannel \in {0} \cup Frequencies /\ rxChannel \in {0} \cup Frequencies
  /\ collision \in Collisions
  /\ toSend \in 0 .. 2 * MAX_PACKETS /\ received \in 0 .. 2 * MAX_PACKETS
  /\ isFirst \in BOOLEAN
  /\ wakeup \in Nat /\ occupied \subseteq Bits
  /\ timer \in Handles /\ frame_timer \in Handles /\ slot_timer \in Handles
  /\ count \in 0 .. SYNC_TRIES - 1 /\ framesLeft \in Nat

(* A node announces a transmission, and is in the TRANSMIT state, only in  *)
(* the slot it has selected.                                               *)
TransmitInOwnSlot ==
  act.send \/ pmCur = "TRANSMIT" => currentSlot = selectedSlot

Held(id) == id \in TimeoutIds /\ pool[id] # "free"

(* While ACTIVE, TRANSMIT or RECEIVE runs, the slot timer is a timeout the *)
(* node still holds, and the cf timer, if one could be set, is another     *)
(* one: PASSIVE's re-arming never fails and nobody gives it away.          *)
SlotTimerHeld ==
  /\ pc \in PmPoints \ {"ma_switch"} /\ pmCur \in {"ACTIVE", "TRANSMIT", "RECEIVE"}
       => Held(slotTimer)
  /\ pc = "active_loop" /\ cfTimer # TIMEOUT_SET_ERROR
       => Held(cfTimer) /\ cfTimer # slotTimer

(* The two timers of a synchronising node are two timeouts, both held.     *)
SyncTimersHeld ==
  pc = "sync_loop" => Held(slot_timer) /\ Held(frame_timer) /\ slot_timer # frame_timer

(* When a node comes from SYNCHRONIZATION to select a slot, a timeout is   *)
(* free for its frame timer: "Unable to create frame timer" cannot happen. *)
SelectionHasTimer ==
  Executing("TIMESLOT_AND_CHANNEL_SELECTION") /\ ~isFirst => FreeIds(pool) # {}

(* Neither machine ever asks for a transition its update function refuses. *)
(* That holds of the PASSIVE that ACTIVE asks for after a collision, too,  *)
(* although MEDIUM_ACCESS then does not call the update function.          *)
UpdatesAccepted ==
  /\ pc = "ma_switch" =>
       IF ret \in {"SUCCESS", "COLLISION_DETECTED"}
         THEN PmAllowed(pmCur, pmNext) ELSE PmAllowed(pmCur, "FINISHP")
  /\ pc = "mac_update" => macNext = macCur \/ MacAllowed(macCur, macNext)

(* The state the PowerMode machine executes is the one that was asked for, *)
(* or it is ACTIVE once more in the same slot, after a collision that has  *)
(* by then been recorded to be announced: a repeated cf phase never runs   *)
(* without the record, and no other state is ever repeated.                *)
(* (MAC_StateMachine.c 383-407)                                            *)
OnlyCollisionRepeatsActive ==
  pc = "pm" =>
    \/ pmCur = pmNext
    \/ /\ pmCur = "ACTIVE" /\ pmNext = "PASSIVE"
       /\ collision.detected /\ collision.freq = rxChannel

(* A recorded collision names the frequency it was heard on and a cleared  *)
(* record names none; an internal collision is always recorded, before the *)
(* PowerMode machine runs again.                                           *)
CollisionRecordConsistent ==
  /\ collision.detected <=> collision.freq # 0
  /\ collision.internal =>
       collision.detected \/ (pc = "ma_switch" /\ ret = "COLLISION_DETECTED")

(* MEDIUM_ACCESS is left through FINISHP, with empty rings.                *)
FinishedClean ==
  pc = "mac_update" /\ macCur = "MEDIUM_ACCESS" =>
    pmCur = "FINISHP" /\ toSend = 0 /\ received = 0

(* As long as a node in MEDIUM_ACCESS believes to be the first, it owns    *)
(* the first slot of the first frequency.                                  *)
FirstNodeOwnsFirstSlot ==
  pc \in PmPoints /\ isFirst => selectedSlot = 0 /\ txChannel = FrequencyOf(0)

(* The slot a node selects, and enters the network with, is one that no    *)
(* neighbour it heard occupies on any frequency, as long as the first byte *)
(* of the vector has such a slot.  (Beyond it the code multiplies the byte *)
(* by the number of bytes and not by the bits of a byte: cf. SlotOf.)      *)
SelectedSlotWasFree ==
  pc = "timeslot_wait" /\ macNext = "MEDIUM_ACCESS" /\ (\E bit \in FreeBits : bit[1] = 0) =>
    \E bit \in FreeBits : selectedSlot = BYTE_BITS * bit[1] + bit[2]

(* INITIALIZATION ends, even when no timeout can be set for it.            *)
InitializationEnds == pc = "init_loop" ~> pc = "mac_update"

(* Collecting the neighbours' slots ends with the wakeup frame.            *)
CollectionEnds == pc = "sync_loop" ~> pc = "mac_update"

(* A cf phase that has its timer goes through all cf slots and ends.       *)
CfPhaseTerminates == pc = "active_loop" /\ cfTimer \in TimeoutIds ~> pc = "active_end"

(* A node declares itself the first one only after it has listened for the *)
(* detection time, or when it could not set a timeout for it: the timeout  *)
(* is never one that somebody else has given back meanwhile.               *)
(* (MAC_StateMachine.c 138-160)                                            *)
ElectedAfterDetection ==
  [][~isFirst /\ isFirst' =>
       TimeoutPassed(pool, timer) = 1 \/ timer = TIMEOUT_SET_ERROR]_vars

(* A cf message is sent in the cf slot of the node's frequency or, when    *)
(* the cf timer passes in the same iteration, in the one right after it,   *)
(* and never outside the cf phase of the node's slot.                      *)
(* (MAC_PowerMode_StateMachine.c 191-232)                                  *)
CfMessageNearOwnCfSlot ==
  [][~act.send /\ act.send' =>
       /\ currentSlot = selectedSlot /\ cfSlot' < NFREQS
       /\ \/ FrequencyOf(cfSlot') = txChannel
          \/ FrequencyOf(cfSlot' - 1) = txChannel /\ TimeoutPassed(pool, cfTimer) = 1]_vars

-----------------------------------------------------------------------------
(* "do not remove the timer, so the PASSIVE state can transit to the       *)
(* ACTIVE state": every PASSIVE that follows another state in MEDIUM_ACCESS*)
(* ends.                                                                   *)
TransmitReturnsToActive == pc = "transmit_loop" ~> pc = "active_loop"
=============================================================================
