------------------------- MODULE MacNodeEntryProofs -----------------------
(***************************************************************************)
(* Proofs, for every value of the constants, about the way of a node into  *)
(* the network: detection, synchronisation, the choice of a slot, and what *)
(* the node then announces in it.                                          *)
(***************************************************************************)
EXTENDS MacNodeProofs

-----------------------------------------------------------------------------
(* The timers of the MAC machine.                                          *)

(* Every timeout that is in use and is not the one given back stays as it  *)
(* was when a timer is looked at, and the timer that is looked at is held  *)
(* afterwards.                                                             *)
LEMMA RearmedIsHeld ==
  ASSUME NEW p \in Pools, NEW id \in TimeoutIds, p[id] # "free", NEW r \in Rearmed(p, id)
  PROVE  /\ r.pool \in Pools
         /\ r.timer \in TimeoutIds /\ r.pool[r.timer] # "free"
         /\ \A h \in TimeoutIds \ {id} : p[h] # "free" => h # r.timer /\ r.pool[h] = p[h]
<1>1. CASE TimeoutPassed(p, id) = 1
  <2>1. PICK new \in Handles :
          /\ TimeoutSet(AfterUnset(p, id), TRUE, new)
          /\ r = [timer |-> new, pool |-> AfterSet(AfterUnset(p, id), new)]
    BY <1>1 DEF Rearmed
  <2>2. r.timer = new /\ r.pool = AfterSet(AfterUnset(p, id), new)
    BY <2>1
  <2>3. /\ new \in TimeoutIds
        /\ AfterSet(AfterUnset(p, id), new) \in Pools
        /\ AfterSet(AfterUnset(p, id), new)[new] # "free"
        /\ \A h \in TimeoutIds \ {id} : p[h] # "free" =>
             h # new /\ AfterSet(AfterUnset(p, id), new)[h] = p[h]
    BY <2>1, RearmSucceeds
  <2>4. QED
    BY <2>2, <2>3
<1>2. CASE TimeoutPassed(p, id) # 1
  <2>1. r = [timer |-> id, pool |-> p]
    BY <1>2 DEF Rearmed
  <2>2. QED
    BY <2>1
<1>3. QED
  BY <1>1, <1>2

(* The signal handler gives nothing back and takes nothing.                *)
LEMMA FireKeepsTimers ==
  ASSUME pool \in Pools, NEW id \in TimeoutIds, Fire(id)
  PROVE  /\ \A h \in TimeoutIds : pool[h] # "free" <=> pool'[h] # "free"
         /\ FreeIds(pool') = FreeIds(pool)
<1>1. id \in Handles
  BY ErrorIsNoTimeout
<1>2. /\ \A h \in TimeoutIds \ {id} : pool'[h] = pool[h]
      /\ pool'[id] = "passed" /\ pool[id] = "armed"
  BY <1>1, PoolClosed DEF Fire, CanPass
<1>3. QED
  BY <1>2 DEF FreeIds

(* INITIALIZATION holds its timer, if it could set one, until it ends;     *)
(* collecting the neighbours' slots holds two timers.  Nothing else runs   *)
(* that could take them away.                                              *)
MacTimersInv ==
  /\ pc = "init_loop" /\ timer # TIMEOUT_SET_ERROR => Held(timer)
  /\ SyncTimersHeld

(* A step that takes no timeout away and neither starts one of the two     *)
(* loops nor touches its timers keeps the timers held.                     *)
LEMMA MacTimersStayHeld ==
  ASSUME MacTimersInv, UNCHANGED <<timer, frame_timer, slot_timer>>,
         pc' \in {"init_loop", "sync_loop"} => pc' = pc,
         pc' \in {"init_loop", "sync_loop"} =>
           \A h \in TimeoutIds : pool[h] # "free" => pool'[h] # "free"
  PROVE  MacTimersInv'
BY DEF MacTimersInv, SyncTimersHeld, Held

(* Every step of a node keeps the timers held.                             *)
LEMMA MacTimersStep ==
  ASSUME TypeInv, ControlInv, MacTimersInv, [Next]_vars
  PROVE  MacTimersInv'
<1> USE DEF macVars, localVars, netVars, powerVars, Executing
<1>0. /\ pool \in Pools /\ slotDuration \in BOOLEAN
      /\ timer \in Handles /\ frame_timer \in Handles /\ slot_timer \in Handles
  BY DEF TypeInv, TypeOK
<1>1. CASE PowerModeStep /\ UNCHANGED <<macVars, localVars, netVars>>
  <2>1. pc' \notin {"init_loop", "sync_loop"}
    BY <1>1 DEF PowerModeStep, PassiveEnter, PassivePoll, PassiveEnd, ActiveEnter, CfSlotBusy,
       CfSlotEnds, CfPhaseEnds, ActiveCollision, ActiveDecide, TransmitAnnounce, TransmitEnter,
       TransmitSend, TransmitTimeout, ReceiveEnter, ReceiveMissed, ReceiveHeardLate,
       ReceiveHeard, ReceivePacket, ReceiveEnd, Return
  <2>2. QED
    BY <2>1 DEF MacTimersInv, SyncTimersHeld
<1>2. CASE InitEnter
  <2>1. /\ timer' \in Handles /\ TimeoutSet(pool, TRUE, timer')
        /\ pool' = AfterSet(pool, timer') /\ pc' = "init_loop"
    BY <1>2 DEF InitEnter, Arm
  <2>2. timer' \in TimeoutIds => AfterSet(pool, timer')[timer'] = "armed"
    BY <1>0, <2>1, PoolClosed
  <2>3. timer' # TIMEOUT_SET_ERROR => timer' \in TimeoutIds
    BY <2>1 DEF Handles
  <2>4. QED
    BY <2>1, <2>2, <2>3 DEF MacTimersInv, SyncTimersHeld, Held
<1>3. CASE SyncHeard
  <2>1. PICK heard \in AfterListen(pool, slotDuration, TRUE), remaining \in BOOLEAN,
             slot \in Handles, frame \in Handles :
          /\ TimeoutSet(heard, remaining, slot)
          /\ TimeoutSet(AfterSet(heard, slot), remaining, frame)
          /\ pool' = AfterSet(AfterSet(heard, slot), frame)
          /\ IF CannotArm(slot, frame) THEN Failed
             ELSE slot_timer' = slot /\ frame_timer' = frame /\ pc' = "sync_loop"
    BY <1>3 DEF SyncHeard
  <2>2. CASE CannotArm(slot, frame)
    BY <2>1, <2>2 DEF Failed, Executed, MacTimersInv, SyncTimersHeld
  <2>3. CASE ~CannotArm(slot, frame)
    <3>1. slot \in TimeoutIds /\ frame \in TimeoutIds
      BY <2>3 DEF CannotArm, Handles
    <3>2. heard \in Pools
      BY <1>0, ListenKeepsTimers
    <3>3. AfterSet(heard, slot) \in Pools /\ AfterSet(heard, slot)[slot] = "armed"
      BY <3>1, <3>2, PoolClosed
    <3>4. /\ slot # frame
          /\ AfterSet(AfterSet(heard, slot), frame)[slot] = "armed"
          /\ AfterSet(AfterSet(heard, slot), frame)[frame] = "armed"
      BY <2>1, <3>1, <3>3, ArmKeepsTimers
    <3>5. QED
      BY <2>1, <2>3, <3>1, <3>4 DEF MacTimersInv, SyncTimersHeld, Held
  <2>4. QED
    BY <2>2, <2>3
<1>4. CASE SyncLoop
  <2>1. PICK heard \in BOOLEAN : \E p \in AfterListen(pool, slotDuration, heard) :
          \E slot \in Rearmed(p, slot_timer) : \E frame \in Rearmed(slot.pool, frame_timer) :
            slot_timer' = slot.timer /\ frame_timer' = frame.timer /\ pool' = frame.pool
    BY <1>4 DEF SyncLoop
  <2>2. PICK p \in AfterListen(pool, slotDuration, heard) :
          \E slot \in Rearmed(p, slot_timer) : \E frame \in Rearmed(slot.pool, frame_timer) :
            slot_timer' = slot.timer /\ frame_timer' = frame.timer /\ pool' = frame.pool
    BY <2>1
  <2>3. PICK slot \in Rearmed(p, slot_timer) : \E frame \in Rearmed(slot.pool, frame_timer) :
            slot_timer' = slot.timer /\ frame_timer' = frame.timer /\ pool' = frame.pool
    BY <2>2
  <2>4. PICK frame \in Rearmed(slot.pool, frame_timer) :
            slot_timer' = slot.timer /\ frame_timer' = frame.timer /\ pool' = frame.pool
    BY <2>3
  <2>5. Held(slot_timer) /\ Held(frame_timer) /\ slot_timer # frame_timer
    BY <1>4 DEF SyncLoop, MacTimersInv, SyncTimersHeld
  <2>6. p \in Pools /\ p[slot_timer] # "free" /\ p[frame_timer] # "free"
    BY <1>0, <2>5, ListenKeepsTimers DEF Held
  <2>7. /\ slot.pool \in Pools /\ slot.timer \in TimeoutIds /\ slot.pool[slot.timer] # "free"
        /\ slot.timer # frame_timer /\ slot.pool[frame_timer] # "free"
    BY <2>5, <2>6, RearmedIsHeld DEF Held
  <2>8. /\ frame.timer \in TimeoutIds /\ frame.pool[frame.timer] # "free"
        /\ slot.timer # frame.timer /\ frame.pool[slot.timer] # "free"
    BY <2>5, <2>7, RearmedIsHeld DEF Held
  <2>9. QED
    BY <1>4, <2>4, <2>7, <2>8 DEF SyncLoop, MacTimersInv, SyncTimersHeld, Held
<1>5. CASE \E id \in TimeoutIds : Fire(id)
  BY <1>0, <1>5, FireKeepsTimers, MacTimersStayHeld DEF Fire
<1>6. CASE UNCHANGED vars
  BY <1>6, MacTimersStayHeld DEF vars
<1>7. CASE MacStep /\ ~(InitEnter \/ SyncHeard \/ SyncLoop)
  <2>1. pc' \notin {"init_loop", "sync_loop"}
    BY <1>7 DEF MacStep, StartState, MacUpdate, InitAlone, InitFound, InitLeave, SyncFirst,
       SyncEnter, SyncMissed, SyncEnd, TimeslotFirst, TimeslotSelect, TimeslotWait, MaEnter,
       MaContinue, MaRecordCollision, MaLeave, Executed, Failed
  <2>2. QED
    BY <2>1 DEF MacTimersInv, SyncTimersHeld
<1>8. QED
  BY <1>1, <1>2, <1>3, <1>4, <1>5, <1>6, <1>7 DEF Next, Thread

(* The timers that a node waits for while it looks for a network, and      *)
(* while it collects its neighbours' slots, are always held.               *)
LEMMA MacTimersInvariant == Spec => []MacTimersInv
<1>1. Init => MacTimersInv
  BY DEF Init, MacTimersInv, SyncTimersHeld
<1>2. TypeInv /\ ControlInv /\ MacTimersInv /\ [Next]_vars => MacTimersInv'
  BY MacTimersStep
<1>3. QED
  BY <1>1, <1>2, TypeInvariant, ControlInvariant, PTL DEF Spec

(* While a node collects the slots of its neighbours, its slot timer and   *)
(* its frame timer are two timeouts that it holds: re-arming one never     *)
(* fails and never takes the other, whatever a listen leaves behind.       *)
THEOREM SyncTimersAreHeld == Spec => []SyncTimersHeld
<1>1. MacTimersInv => SyncTimersHeld
  BY DEF MacTimersInv
<1>2. QED
  BY <1>1, MacTimersInvariant, PTL

(* A node elects itself only when its own detection timer has passed, or   *)
(* when there was none: the answer "invalid" of timeout_passed, which the  *)
(* code takes for yes, is never about a timer that was lost.               *)
THEOREM ElectionAfterDetection == Spec => ElectedAfterDetection
<1>1. ASSUME TypeInv, MacTimersInv, [Next]_vars
      PROVE  [~isFirst /\ isFirst' =>
                TimeoutPassed(pool, timer) = 1 \/ timer = TIMEOUT_SET_ERROR]_vars
  <2> USE DEF powerVars, pmVars, slotVars, activeVars, channelVars, trafficVars
  <2>1. SUFFICES ASSUME ~isFirst, isFirst'
                 PROVE  TimeoutPassed(pool, timer) = 1 \/ timer = TIMEOUT_SET_ERROR
    OBVIOUS
  <2>2. InitAlone
    <3>1. CASE PowerModeStep
      BY <2>1, <3>1 DEF PowerModeStep, PassiveEnter, PassivePoll, PassiveEnd, ActiveEnter,
         CfSlotBusy, CfSlotEnds, CfTraffic, SendCfMessage, ReceiveCfMessage, CfPhaseEnds,
         ActiveCollision, ActiveDecide, TransmitAnnounce, TransmitEnter, TransmitSend,
         TransmitTimeout, ReceiveEnter, ReceiveMissed, ReceiveHeardLate, ReceiveHeard,
         ReceivePacket, ReceiveEnd
    <3>2. CASE MacStep /\ ~InitAlone
      BY <2>1, <3>2 DEF MacStep, StartState, MacUpdate, InitEnter, InitFound, InitLeave,
         SyncFirst, SyncEnter, SyncMissed, SyncHeard, SyncLoop, SyncEnd, TimeslotFirst,
         TimeslotSelect, TimeslotWait, MaEnter, MaContinue, MaRecordCollision, MaLeave
    <3>3. QED
      BY <1>1, <2>1, <3>1, <3>2 DEF Next, Thread, Fire, vars
  <2>3. pc = "init_loop" /\ TimeoutPassed(pool, timer) # 0
    BY <2>2 DEF InitAlone, PassedAsBool
  <2>4. timer # TIMEOUT_SET_ERROR => timer \in TimeoutIds /\ pool[timer] # "free"
    BY <1>1, <2>3 DEF MacTimersInv, Held
  <2>5. pool \in Pools
    BY <1>1 DEF TypeInv, TypeOK
  <2>6. QED
    BY <2>3, <2>4, <2>5 DEF TimeoutPassed, Pools, Status
<1>2. QED
  BY <1>1, TypeInvariant, MacTimersInvariant, PTL DEF Spec, ElectedAfterDetection

-----------------------------------------------------------------------------
(* The choice of a slot.                                                   *)

(* A node that is about to select a slot has come from SYNCHRONIZATION,    *)
(* which has given two timers back, or is the first one.                   *)
Selecting ==
  \/ Executing("TIMESLOT_AND_CHANNEL_SELECTION")
  \/ pc = "mac_update" /\ macNext = "TIMESLOT_AND_CHANNEL_SELECTION"

SelectionInv == Selecting /\ ~isFirst => FreeIds(pool) # {}

(* A first node owns the first slot from the moment it has selected it; a  *)
(* node that waits for its frame to end is not the first.                  *)
Entering ==
  \/ pc \in PmPoints
  \/ Executing("MEDIUM_ACCESS")
  \/ pc = "mac_update" /\ macNext = "MEDIUM_ACCESS"

FirstNodeInv ==
  /\ Entering /\ isFirst => selectedSlot = 0 /\ txChannel = FrequencyOf(0)
  /\ pc = "timeslot_wait" => ~isFirst

EntryInv == SelectionInv /\ FirstNodeInv /\ SelectedSlotWasFree

(* The PowerMode machine keeps it: it changes neither the selection nor    *)
(* what is occupied, and the first node only ever ceases to be the first.  *)
LEMMA EntryPowerMode ==
  ASSUME ControlInv, EntryInv, PowerModeStep, UNCHANGED <<macVars, localVars, netVars>>
  PROVE  EntryInv'
<1> USE DEF pmVars, slotVars, activeVars, channelVars, trafficVars, macVars, netVars
<1>1. pc \in PmPoints /\ pc' \in PmPoints
  BY DEF PmPoints, PowerModeStep, PassiveEnter, PassivePoll, PassiveEnd, ActiveEnter,
     CfSlotBusy, CfSlotEnds, CfPhaseEnds, ActiveCollision, ActiveDecide, TransmitAnnounce,
     TransmitEnter, TransmitSend, TransmitTimeout, ReceiveEnter, ReceiveMissed,
     ReceiveHeardLate, ReceiveHeard, ReceivePacket, ReceiveEnd, Return
<1>2. UNCHANGED <<selectedSlot, txChannel>> /\ (isFirst' => isFirst)
  <2>1. CASE CfSlotBusy \/ CfSlotEnds
    BY <2>1 DEF CfSlotBusy, CfSlotEnds, CfTraffic, SendCfMessage, ReceiveCfMessage
  <2>2. ~(CfSlotBusy \/ CfSlotEnds) => UNCHANGED <<selectedSlot, txChannel, isFirst>>
    BY DEF PowerModeStep, PassiveEnter, PassivePoll, PassiveEnd, ActiveEnter, CfPhaseEnds,
       ActiveCollision, ActiveDecide, TransmitAnnounce, TransmitEnter, TransmitSend,
       TransmitTimeout, ReceiveEnter, ReceiveMissed, ReceiveHeardLate, ReceiveHeard,
       ReceivePacket, ReceiveEnd
  <2>3. QED
    BY <2>1, <2>2
<1>3. pc' # "timeslot_wait" /\ pc' # "mac" /\ pc' # "mac_update"
  BY <1>1 DEF PmPoints
<1>4. QED
  BY <1>1, <1>2, <1>3 DEF EntryInv, SelectionInv, Selecting, FirstNodeInv, Entering,
     SelectedSlotWasFree, Executing

(* Giving a timer back leaves one free.                                    *)
LEMMA UnsetFrees ==
  ASSUME NEW p \in Pools, NEW id \in TimeoutIds
  PROVE  FreeIds(AfterUnset(p, id)) # {}
<1>1. AfterUnset(p, id)[id] = "free"
  BY PoolClosed, ErrorIsNoTimeout
<1>2. QED
  BY <1>1 DEF FreeIds

(* The first free bit of the vector lies in the first byte if that byte    *)
(* has one, and there the number of a bit is the number of its slot.       *)
LEMMA SelectTakesFree ==
  ASSUME Select, \E bit \in FreeBits : bit[1] = 0
  PROVE  \E bit \in FreeBits : selectedSlot' = BYTE_BITS * bit[1] + bit[2]
<1>1. PICK bit \in FreeBits :
        /\ \A b \in FreeBits : ~Before(b, bit)
        /\ selectedSlot' = SlotOf(bit)
  BY DEF Select
<1>2. PICK low \in FreeBits : low[1] = 0
  OBVIOUS
<1>3. bit[1] \in Nat /\ bit[2] \in Nat /\ BYTE_BITS \in Nat /\ SLOT_BYTES \in Nat
  BY MacNodeAssumption DEF FreeBits, Bits
<1>4. bit[1] = 0
  BY <1>1, <1>2, <1>3 DEF Before
<1>5. SLOT_BYTES * 0 = 0 /\ BYTE_BITS * 0 = 0
  BY <1>3
<1>6. selectedSlot' = BYTE_BITS * bit[1] + bit[2]
  BY <1>1, <1>3, <1>4, <1>5 DEF SlotOf
<1>7. QED
  BY <1>6

(* The MAC machine keeps it.                                               *)
LEMMA EntryMac ==
  ASSUME TypeInv, ControlInv, MacTimersInv, EntryInv, MacStep
  PROVE  EntryInv'
<1> USE DEF EntryInv, SelectionInv, Selecting, FirstNodeInv, Entering, SelectedSlotWasFree,
            FreeBits, Executing, Executed, Failed, PmPoints, powerVars, pmVars, slotVars,
            activeVars, channelVars, trafficVars, macVars, localVars, netVars
<1>0. pool \in Pools /\ frame_timer \in Handles /\ slot_timer \in Handles
  BY DEF TypeInv, TypeOK
<1>1. CASE StartState
  BY <1>1 DEF StartState
<1>2. CASE MacUpdate
  <2>1. macCur' = macNext
    BY <1>2 DEF MacUpdate, MacUpdated, MacAllowed, ControlInv, MacRequest
  <2>2. UNCHANGED <<pool, isFirst, selectedSlot, txChannel>> /\ pc = "mac_update" /\ pc' = "mac"
    BY <1>2 DEF MacUpdate
  <2>3. QED
    BY <2>1, <2>2
<1>3. CASE InitEnter
  BY <1>3 DEF InitEnter
<1>4. CASE InitAlone \/ InitFound
  BY <1>4 DEF InitAlone, InitFound, InitLeave
<1>5. CASE SyncFirst
  BY <1>5 DEF SyncFirst
<1>6. CASE SyncEnter
  BY <1>6 DEF SyncEnter
<1>7. CASE SyncMissed
  BY <1>7 DEF SyncMissed, ControlInv, MacControl
<1>8. CASE SyncHeard
  <2>1. pc' = "sync_loop" \/ (pc' = "mac_update" /\ macNext' = "SYNCHRONIZATION")
    BY <1>8 DEF SyncHeard, ControlInv, MacControl
  <2>2. QED
    BY <2>1
<1>9. CASE SyncLoop
  BY <1>9 DEF SyncLoop
<1>10. CASE SyncEnd
  <2>1. slot_timer \in TimeoutIds /\ AfterUnset(pool, frame_timer) \in Pools
    BY <1>0, <1>10, PoolClosed DEF SyncEnd, MacTimersInv, SyncTimersHeld, Held
  <2>2. FreeIds(pool') # {}
    BY <1>10, <2>1, UnsetFrees DEF SyncEnd, TimersReleased
  <2>3. pc' = "mac_update" /\ macNext' = "TIMESLOT_AND_CHANNEL_SELECTION"
    BY <1>10 DEF SyncEnd
  <2>4. QED
    BY <2>2, <2>3
<1>11. CASE TimeslotFirst
  BY <1>11 DEF TimeslotFirst, SelectFirst
<1>12. CASE TimeslotSelect
  <2>1. PICK id \in Handles :
          /\ TimeoutSet(pool, TRUE, id)
          /\ id # TIMEOUT_SET_ERROR =>
               /\ pc' = "timeslot_wait"
               /\ macNext' = "MEDIUM_ACCESS" => Select
    BY <1>12 DEF TimeslotSelect
  <2>2. FreeIds(pool) # {} /\ ~isFirst /\ ~isFirst' /\ UNCHANGED occupied
    BY <1>12 DEF TimeslotSelect
  <2>3. id # TIMEOUT_SET_ERROR
    BY <2>1, <2>2, ErrorIsNoTimeout DEF TimeoutSet, FreeIds
  <2>4. SelectedSlotWasFree'
    BY <2>1, <2>2, <2>3, SelectTakesFree
  <2>5. QED
    BY <2>1, <2>2, <2>3, <2>4
<1>13. CASE TimeslotWait
  <2>1. pc = "timeslot_wait" /\ pc' = "mac_update" /\ macNext' = macNext /\ isFirst' = isFirst
    BY <1>13 DEF TimeslotWait
  <2>2. macNext # "TIMESLOT_AND_CHANNEL_SELECTION"
    BY <2>1 DEF ControlInv, MacControl
  <2>3. QED
    BY <2>1, <2>2
<1>14. CASE MaEnter
  BY <1>14 DEF MaEnter, StartP
<1>15. CASE MaContinue
  BY <1>15 DEF MaContinue
<1>16. CASE MaRecordCollision
  BY <1>16 DEF MaRecordCollision
<1>17. CASE MaLeave
  BY <1>17 DEF MaLeave, AfterError
<1>18. QED
  BY <1>1, <1>2, <1>3, <1>4, <1>5, <1>6, <1>7, <1>8, <1>9, <1>10, <1>11, <1>12, <1>13, <1>14, <1>15, <1>16, <1>17 DEF MacStep

(* So do the signal handler and a stuttering step.                         *)
LEMMA EntryRest ==
  ASSUME TypeInv, EntryInv, UNCHANGED vars \/ \E id \in TimeoutIds : Fire(id)
  PROVE  EntryInv'
<1>1. UNCHANGED <<pc, macCur, macNext, isFirst, selectedSlot, txChannel, occupied>>
  BY DEF Fire, vars, powerVars, macVars, channelVars, netVars
<1>2. FreeIds(pool') = FreeIds(pool)
  BY FireKeepsTimers DEF TypeInv, TypeOK, vars
<1>3. QED
  BY <1>1, <1>2 DEF EntryInv, SelectionInv, Selecting, FirstNodeInv, Entering,
     SelectedSlotWasFree, FreeBits, Executing

(* The way into the network is always in order.                            *)
LEMMA EntryInvariant == Spec => []EntryInv
<1>1. Init => EntryInv
  BY DEF Init, EntryInv, SelectionInv, Selecting, FirstNodeInv, Entering, SelectedSlotWasFree,
     Executing, PmPoints
<1>2. TypeInv /\ ControlInv /\ MacTimersInv /\ EntryInv /\ [Next]_vars => EntryInv'
  BY EntryPowerMode, EntryMac, EntryRest DEF Next, Thread
<1>3. QED
  BY <1>1, <1>2, TypeInvariant, ControlInvariant, MacTimersInvariant, PTL DEF Spec

(* A node that comes from SYNCHRONIZATION to select a slot finds a free    *)
(* timeout, however small the pool is and whatever listens have lost.      *)
THEOREM SelectionAlwaysHasTimer == Spec => []SelectionHasTimer
<1>1. EntryInv => SelectionHasTimer
  BY DEF EntryInv, SelectionInv, Selecting, SelectionHasTimer
<1>2. QED
  BY <1>1, EntryInvariant, PTL

(* A node in MEDIUM_ACCESS that believes to be the first owns the first    *)
(* slot of the first frequency.                                            *)
THEOREM FirstNodeHasFirstSlot == Spec => []FirstNodeOwnsFirstSlot
<1>1. EntryInv => FirstNodeOwnsFirstSlot
  BY DEF EntryInv, FirstNodeInv, Entering, FirstNodeOwnsFirstSlot
<1>2. QED
  BY <1>1, EntryInvariant, PTL

(* The slot a node selects is free, for bytes and vectors of any length,   *)
(* as long as the first byte has a free slot.                              *)
THEOREM SelectedSlotIsFree == Spec => []SelectedSlotWasFree
<1>1. EntryInv => SelectedSlotWasFree
  BY DEF EntryInv
<1>2. QED
  BY <1>1, EntryInvariant, PTL

-----------------------------------------------------------------------------
(* The announcement in the slot.                                           *)

(* A cf message leaves the node only during the cf phase of its own slot,  *)
(* in the cf slot of its frequency or, when the cf timer passed after the  *)
(* frequency was looked up, in the next one; the last cf slot has no next. *)
THEOREM CfMessageOnTime == Spec => CfMessageNearOwnCfSlot
<1> DEFINE Near ==
      ~act.send /\ act.send' =>
        /\ currentSlot = selectedSlot /\ cfSlot' < NFREQS
        /\ \/ FrequencyOf(cfSlot') = txChannel
           \/ FrequencyOf(cfSlot' - 1) = txChannel /\ TimeoutPassed(pool, cfTimer) = 1
<1>1. ASSUME TypeInv, ControlInv, [Next]_vars
      PROVE  [Near]_vars
  <2> USE DEF powerVars, pmVars, slotVars, activeVars, channelVars, trafficVars
  <2>1. SUFFICES ASSUME ~act.send, act'.send
                 PROVE  /\ currentSlot = selectedSlot /\ cfSlot' < NFREQS
                        /\ \/ FrequencyOf(cfSlot') = txChannel
                           \/ /\ FrequencyOf(cfSlot' - 1) = txChannel
                              /\ TimeoutPassed(pool, cfTimer) = 1
    OBVIOUS
  <2>2. act \in Acts /\ cfSlot \in 0 .. NFREQS /\ NFREQS \in Nat
    BY <1>1, PowerModeAssumption DEF TypeInv, TypeOK
  <2>3. CfSlotBusy \/ CfSlotEnds
    <3>1. CASE PowerModeStep /\ ~(CfSlotBusy \/ CfSlotEnds)
      <4>1. CASE ActiveEnter \/ ActiveCollision \/ ActiveDecide
        <5>1. act'.send = FALSE
          BY <4>1 DEF ActiveEnter, ActiveCollision, ActiveDecide, NoAct
        <5>2. QED
          BY <2>1, <5>1
      <4>2. ~(ActiveEnter \/ ActiveCollision \/ ActiveDecide) => act' = act
        BY <3>1 DEF PowerModeStep, PassiveEnter, PassivePoll, PassiveEnd, CfPhaseEnds,
           TransmitAnnounce, TransmitEnter, TransmitSend, TransmitTimeout, ReceiveEnter,
           ReceiveMissed, ReceiveHeardLate, ReceiveHeard, ReceivePacket, ReceiveEnd
      <4>3. QED
        BY <2>1, <4>1, <4>2
    <3>2. CASE MacStep
      <4>1. act' = act
        BY <3>2 DEF MacStep, StartState, MacUpdate, InitEnter, InitAlone, InitFound, InitLeave,
           SyncFirst, SyncEnter, SyncMissed, SyncHeard, SyncLoop, SyncEnd, TimeslotFirst,
           TimeslotSelect, TimeslotWait, MaEnter, MaContinue, MaRecordCollision, MaLeave
      <4>2. QED
        BY <2>1, <4>1
    <3>3. QED
      BY <1>1, <2>1, <3>1, <3>2 DEF Next, Thread, Fire, vars
  <2>4. CfTraffic /\ pc = "active_loop"
    BY <2>3 DEF CfSlotBusy, CfSlotEnds
  <2>5. act.isCurrent /\ txChannel = FrequencyOf(cfSlot)
    <3>1. CASE ReceiveCfMessage
      <4>1. act'.send = act.send
        BY <2>2, <3>1 DEF ReceiveCfMessage, Acts
      <4>2. QED
        BY <2>1, <4>1
    <3>2. QED
      BY <2>4, <3>1 DEF CfTraffic, OwnCfSlot
  <2>6. currentSlot = selectedSlot /\ cfSlot < NFREQS
    BY <1>1, <2>4, <2>5 DEF ControlInv, OwnSlot, TypeInv
  <2>7. CASE CfSlotBusy
    BY <2>5, <2>6, <2>7 DEF CfSlotBusy
  <2>8. CASE CfSlotEnds
    <3>1. cfSlot' = cfSlot + 1 /\ cfSlot + 1 < NFREQS /\ TimeoutPassed(pool, cfTimer) = 1
      BY <2>8 DEF CfSlotEnds, NextCfSlot
    <3>2. cfSlot' - 1 = cfSlot
      BY <2>2, <3>1
    <3>3. QED
      BY <2>5, <2>6, <3>1, <3>2
  <2>9. QED
    BY <2>3, <2>7, <2>8
<1>2. QED
  BY <1>1, TypeInvariant, ControlInvariant, PTL DEF Spec, CfMessageNearOwnCfSlot
=============================================================================
