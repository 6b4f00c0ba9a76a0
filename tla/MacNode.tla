------------------------------ MODULE MacNode -----------------------------
(***************************************************************************)
(* One node of the network: the MAC state machine                          *)
(* (MAC/MAC_StateMachine.c) around the PowerMode machine it runs in its    *)
(* MEDIUM_ACCESS state.  A driver, which is not part of the repository,    *)
(* calls mclmac_execute_mac_state_machine and then                         *)
(* mclmac_update_mac_state_machine for ever and ignores what the first     *)
(* returns, as the repository's tests do.  The node's thread interleaves   *)
(* with the timer's signal handler (Fire); the radio may deliver anything. *)
(***************************************************************************)
EXTENDS PowerMode

CONSTANTS
  BYTE_BITS,     \* bits of a byte of the occupied-slots vector; 8 in the code
  SLOT_BYTES,    \* bytes of that vector for one frequency
  SYNC_TRIES,    \* failed listens after which SYNCHRONIZATION gives up; 11
  MAX_WAKEUP     \* bound on the frame numbers a control packet carries

ASSUME MacNodeAssumption ==
  /\ BYTE_BITS \in Nat \ {0}
  /\ SLOT_BYTES \in Nat \ {0}
  /\ SYNC_TRIES \in Nat \ {0}
  /\ MAX_WAKEUP \in Nat \ {0}

VARIABLES
  macCur,        \* macState.currentState
  macNext,       \* macState.nextState
  wakeup,        \* _wakeup_frame
  occupied,      \* bits of _occupied_frequencies_slots set on some frequency
  timer,         \* local timer of INITIALIZATION
  frame_timer,   \* local frame_timer
  slot_timer,    \* local slot_timer
  count,         \* local count of SYNCHRONIZATION
  framesLeft     \* _wakeup_frame - 1 - current_frame, while synchronising

macVars == <<macCur, macNext>>
localVars == <<timer, frame_timer, slot_timer, count, framesLeft>>
netVars == <<wakeup, occupied>>
powerVars == <<pmVars, slotVars, activeVars, listens, channelVars, collision,
               trafficVars, isFirst>>
vars == <<pc, pool, powerVars, macVars, localVars, netVars>>

MacStates == {"START", "INITIALIZATION", "SYNCHRONIZATION",
              "TIMESLOT_AND_CHANNEL_SELECTION", "MEDIUM_ACCESS"}

(* Byte i and bit j, counted from the byte's most significant bit, of the  *)
(* vector; SlotOf is the slot number the code gives to a bit.              *)
Bits == (0 .. SLOT_BYTES - 1) \X (0 .. BYTE_BITS - 1)

(* Faulty variant (cf. SlotOf): bits counted from the other end.          *)
SlotOfLeastBitFirst(bit) == SLOT_BYTES * bit[1] + (BYTE_BITS - 1 - bit[2])

SlotOf(bit) == SLOT_BYTES * bit[1] + bit[2]

Before(a, b) == a[1] < b[1] \/ (a[1] = b[1] /\ a[2] < b[2])

-----------------------------------------------------------------------------
(* Faulty variant (cf. MacAllowed): no way back to INITIALIZATION.        *)
MacAllowedForwardOnly(cur, next) ==
  CASE next = "INITIALIZATION"  -> cur = "START"
    [] next = "SYNCHRONIZATION" -> cur # "START"
    [] next = "TIMESLOT_AND_CHANNEL_SELECTION" -> cur = "SYNCHRONIZATION"
    [] next = "MEDIUM_ACCESS"   -> cur = "TIMESLOT_AND_CHANNEL_SELECTION"
    [] next = "FINISH"          -> cur = "MEDIUM_ACCESS"
    [] next = "NONE"            -> FALSE

(* mclmac_update_mac_state_machine.  No state asks for FINISH.             *)
MacAllowed(cur, next) ==
  CASE next = "INITIALIZATION"  -> cur \in {"START", "MEDIUM_ACCESS"}
    [] next = "SYNCHRONIZATION" -> cur # "START"
    [] next = "TIMESLOT_AND_CHANNEL_SELECTION" -> cur = "SYNCHRONIZATION"
    [] next = "MEDIUM_ACCESS"   -> cur = "TIMESLOT_AND_CHANNEL_SELECTION"
    [] next = "FINISH"          -> cur = "MEDIUM_ACCESS"
    [] next = "NONE"            -> FALSE

MacUpdated(cur, next) ==
  IF cur = next \/ ~MacAllowed(cur, next) THEN cur ELSE next

MacUpdate ==
  /\ pc = "mac_update"
  /\ macCur' = MacUpdated(macCur, macNext)
  /\ pc' = "mac"
  /\ UNCHANGED <<pool, powerVars, macNext, localVars, netVars>>

Executing(state) == pc = "mac" /\ macCur = state

(* A state of the MAC machine has executed and asked for the next one; an  *)
(* execution that fails asks for nothing.                                  *)
Executed(next) ==
  /\ macNext' = next
  /\ pc' = "mac_update"
  /\ UNCHANGED macCur

Failed == Executed(macNext)

-----------------------------------------------------------------------------
(* MCLMAC_init clears the structure to zeros.                              *)
Init ==
  /\ pc = "mac" /\ pool = EmptyPool
  /\ macCur = "START" /\ macNext = "NONE"
  /\ pmCur = "STARTP" /\ pmNext = "NONEP" /\ ret = "SUCCESS"
  /\ slotTimer = 0 /\ cfTimer = 0 /\ slotDuration = FALSE
  /\ currentSlot = 0 /\ cfSlot = 0 /\ act = NoAct /\ listens = 0
  /\ selectedSlot = 0 /\ txChannel = 0 /\ rxChannel = 0
  /\ collision = NoCollision /\ toSend = 0 /\ received = 0 /\ isFirst = FALSE
  /\ wakeup = 0 /\ occupied = {}
  /\ timer = TIMEOUT_SET_ERROR /\ frame_timer = TIMEOUT_SET_ERROR
  /\ slot_timer = TIMEOUT_SET_ERROR /\ count = 0 /\ framesLeft = 0

StartState ==
  /\ Executing("START")
  /\ \E r \in Slots : wakeup' = IF r = 0 THEN 1 ELSE r
  /\ isFirst' = FALSE
  /\ Executed("INITIALIZATION")
  /\ UNCHANGED <<pool, pmVars, slotVars, activeVars, listens, channelVars, collision,
                 trafficVars, localVars, occupied>>

-----------------------------------------------------------------------------
(* INITIALIZATION: is there a network?                                     *)
InitEnter ==
  /\ Executing("INITIALIZATION")
  /\ Arm(timer, pool)
  /\ pc' = "init_loop"
  /\ UNCHANGED <<powerVars, macVars, frame_timer, slot_timer, count, framesLeft, netVars>>

(* Faulty variant (cf. PassedAsBool): the answer is taken the other way.  *)
NotYetPassed(p, id) == TimeoutPassed(p, id) = 0

(* bool passed = timeout_passed(timer): any nonzero answer counts.         *)
PassedAsBool(p, id) == TimeoutPassed(p, id) # 0

InitLeave(found) ==
  /\ isFirst' = IF found THEN isFirst ELSE TRUE
  /\ pool' = AfterUnset(pool, timer)
  /\ timer' = TIMEOUT_SET_ERROR
  /\ Executed("SYNCHRONIZATION")
  /\ UNCHANGED <<pmVars, slotVars, activeVars, listens, channelVars, collision,
                 trafficVars, frame_timer, slot_timer, count, framesLeft, netVars>>

InitAlone ==
  pc = "init_loop" /\ PassedAsBool(pool, timer) /\ InitLeave(FALSE)

InitFound ==
  pc = "init_loop" /\ ~PassedAsBool(pool, timer) /\ InitLeave(TRUE)

-----------------------------------------------------------------------------
(* SYNCHRONIZATION: the first node founds the network; every other node    *)
(* listens for a control packet and then, until its wakeup frame, collects *)
(* the slots its neighbours occupy.                                        *)
SyncFirst ==
  /\ Executing("SYNCHRONIZATION") /\ isFirst
  /\ Executed("TIMESLOT_AND_CHANNEL_SELECTION")
  /\ UNCHANGED <<pool, powerVars, localVars, netVars>>

SyncEnter ==
  /\ Executing("SYNCHRONIZATION") /\ ~isFirst
  /\ count' = 0
  /\ pc' = "sync_listen"
  /\ UNCHANGED <<pool, powerVars, macVars, timer, frame_timer, slot_timer, framesLeft, netVars>>

SyncMissed ==
  /\ pc = "sync_listen"
  /\ pool' \in AfterListen(pool, slotDuration, FALSE)
  /\ IF count + 1 = SYNC_TRIES
       THEN Failed /\ count' = 0
       ELSE count' = count + 1 /\ UNCHANGED <<pc, macVars>>
  /\ UNCHANGED <<powerVars, timer, frame_timer, slot_timer, framesLeft, netVars>>

(* Faulty variant (cf. CannotArm): the frame timer is not checked.        *)
CannotArmSlot(slot, frame) == slot = TIMEOUT_SET_ERROR

CannotArm(slot, frame) == slot = TIMEOUT_SET_ERROR \/ frame = TIMEOUT_SET_ERROR

(* The rest of the current slot, time_remaining, may be no time at all.    *)
(* When one timer cannot be set the other one is not given back.           *)
SyncHeard ==
  /\ pc = "sync_listen"
  /\ \E heard \in AfterListen(pool, slotDuration, TRUE), remaining \in BOOLEAN,
        slot \in Handles, frame \in Handles, current_frame \in 0 .. MAX_WAKEUP :
       /\ TimeoutSet(heard, remaining, slot)
       /\ TimeoutSet(AfterSet(heard, slot), remaining, frame)
       /\ pool' = AfterSet(AfterSet(heard, slot), frame)
       /\ wakeup + current_frame <= MAX_WAKEUP
       /\ wakeup' = wakeup + current_frame
       /\ IF CannotArm(slot, frame)
            THEN Failed /\ UNCHANGED <<frame_timer, slot_timer, framesLeft>>
            ELSE /\ slot_timer' = slot
                 /\ frame_timer' = frame
                 /\ framesLeft' = wakeup - 1
                 /\ pc' = "sync_loop"
                 /\ UNCHANGED macVars
  /\ occupied' \in SUBSET Bits
  /\ count' = 0
  /\ UNCHANGED <<powerVars, timer>>

(* Faulty variant (cf. Rearmed): the old timeout is not given back.       *)
RearmedWithoutUnset(p, id) ==
  IF TimeoutPassed(p, id) = 1
    THEN {[timer |-> new, pool |-> AfterSet(p, new)] :
          new \in {h \in Handles : TimeoutSet(p, TRUE, h)}}
    ELSE {[timer |-> id, pool |-> p]}

(* One look at a timer that is to run again: the timer and the pool after  *)
(* it, changed when the timer has passed.                                  *)
Rearmed(p, id) ==
  IF TimeoutPassed(p, id) = 1
    THEN {[timer |-> new, pool |-> AfterSet(AfterUnset(p, id), new)] :
          new \in {h \in Handles : TimeoutSet(AfterUnset(p, id), TRUE, h)}}
    ELSE {[timer |-> id, pool |-> p]}

(* One iteration: listen, then look at the slot timer, then at the frame   *)
(* timer.                                                                  *)
SyncLoop ==
  /\ pc = "sync_loop"
  /\ framesLeft > 0
  /\ \E heard \in BOOLEAN :
       /\ \E bits \in IF heard THEN SUBSET Bits ELSE {{}} : occupied' = occupied \cup bits
       /\ \E p \in AfterListen(pool, slotDuration, heard) :
          \E slot \in Rearmed(p, slot_timer) :
          \E frame \in Rearmed(slot.pool, frame_timer) :
            /\ slot_timer' = slot.timer
            /\ frame_timer' = frame.timer
            /\ pool' = frame.pool
            /\ framesLeft' = IF TimeoutPassed(slot.pool, frame_timer) = 1
                               THEN framesLeft - 1 ELSE framesLeft
  /\ UNCHANGED <<pc, powerVars, macVars, timer, count, wakeup>>

(* Faulty variant (cf. TimersReleased): the timers are kept.              *)
TimersKept == pool

TimersReleased == AfterUnset(AfterUnset(pool, frame_timer), slot_timer)

SyncEnd ==
  /\ pc = "sync_loop"
  /\ framesLeft = 0
  /\ pool' = TimersReleased
  /\ frame_timer' = TIMEOUT_SET_ERROR
  /\ slot_timer' = TIMEOUT_SET_ERROR
  /\ Executed("TIMESLOT_AND_CHANNEL_SELECTION")
  /\ UNCHANGED <<powerVars, timer, count, framesLeft, netVars>>

-----------------------------------------------------------------------------
(* Faulty variant (cf. SelectFirst): the channel is left as it is.        *)
SelectFirstSlotOnly ==
  /\ UNCHANGED txChannel
  /\ selectedSlot' = 0

SelectFirst ==
  /\ txChannel' = FrequencyOf(0)
  /\ selectedSlot' = 0

(* TIMESLOT_AND_CHANNEL_SELECTION.  The first node takes the first slot of *)
(* the first frequency and forgets the bits of that frequency's first byte *)
(* that were set, which may still be set on another frequency.             *)
TimeslotFirst ==
  /\ Executing("TIMESLOT_AND_CHANNEL_SELECTION") /\ isFirst
  /\ SelectFirst
  /\ \E lost \in SUBSET {bit \in occupied : bit[1] = 0} :
       occupied' = {<<0, 0>>} \cup (occupied \ lost)
  /\ Executed("MEDIUM_ACCESS")
  /\ UNCHANGED <<pool, pmVars, slotVars, activeVars, listens, rxChannel, collision,
                 trafficVars, isFirst, localVars, wakeup>>

FreeBits == Bits \ occupied

(* The first bit clear on all frequencies, and a random frequency.         *)
Select ==
  \E bit \in FreeBits, freq \in Frequencies :
    /\ \A b \in FreeBits : ~Before(b, bit)
    /\ selectedSlot' = SlotOf(bit)
    /\ txChannel' = freq

TimeslotSelect ==
  /\ Executing("TIMESLOT_AND_CHANNEL_SELECTION") /\ ~isFirst
  /\ \E id \in Handles :
       /\ TimeoutSet(pool, TRUE, id)
       /\ pool' = AfterSet(pool, id)
       /\ IF id = TIMEOUT_SET_ERROR
            THEN Failed /\ UNCHANGED <<frame_timer, selectedSlot, txChannel>>
            ELSE /\ frame_timer' = id
                 /\ IF FreeBits = {}
                      THEN macNext' = "SYNCHRONIZATION" /\ UNCHANGED <<selectedSlot, txChannel>>
                      ELSE macNext' = "MEDIUM_ACCESS" /\ Select
                 /\ pc' = "timeslot_wait"
                 /\ UNCHANGED macCur
  /\ UNCHANGED <<pmVars, slotVars, activeVars, listens, rxChannel, collision, trafficVars,
                 isFirst, timer, slot_timer, count, framesLeft, netVars>>

TimeslotWait ==
  /\ pc = "timeslot_wait"
  /\ TimeoutPassed(pool, frame_timer) = 1
  /\ pool' = AfterUnset(pool, frame_timer)
  /\ frame_timer' = TIMEOUT_SET_ERROR
  /\ Executed(macNext)
  /\ UNCHANGED <<powerVars, timer, slot_timer, count, framesLeft, netVars>>

-----------------------------------------------------------------------------
(* MEDIUM_ACCESS: execute STARTP and move to PASSIVE, then execute the     *)
(* PowerMode machine until it reports an error.                            *)
MaEnter ==
  /\ Executing("MEDIUM_ACCESS")
  /\ StartP
  /\ pmNext' = "PASSIVE"
  /\ pmCur' = PmUpdated("STARTP", "PASSIVE")
  /\ pc' = "pm"
  /\ UNCHANGED <<ret, cfTimer, act, listens, channelVars, collision, isFirst,
                 macVars, localVars, netVars>>

MaContinue ==
  /\ pc = "ma_switch" /\ ret = "SUCCESS"
  /\ pmCur' = PmUpdated(pmCur, pmNext)
  /\ pc' = "pm"
  /\ UNCHANGED <<pool, pmNext, ret, slotVars, activeVars, listens, channelVars, collision,
                 trafficVars, isFirst, macVars, localVars, netVars>>

(* Faulty variant (cf. MaRecordCollision): the flag is not set.           *)
MaRecordFrequencyOnly ==
  /\ pc = "ma_switch" /\ ret = "COLLISION_DETECTED"
  /\ collision' = [collision EXCEPT !.freq = rxChannel]
  /\ pc' = "pm"
  /\ UNCHANGED <<pool, pmVars, slotVars, activeVars, listens, channelVars,
                 trafficVars, isFirst, macVars, localVars, netVars>>

(* A detected collision is recorded, to be announced in the node's own     *)
(* slot; the PowerMode machine is not updated, so ACTIVE executes again.   *)
MaRecordCollision ==
  /\ pc = "ma_switch" /\ ret = "COLLISION_DETECTED"
  /\ collision' = [collision EXCEPT !.detected = TRUE, !.freq = rxChannel]
  /\ pc' = "pm"
  /\ UNCHANGED <<pool, pmVars, slotVars, activeVars, listens, channelVars,
                 trafficVars, isFirst, macVars, localVars, netVars>>

(* After an error the node leaves through FINISHP, which the code executes *)
(* before it returns.                                                      *)
AfterError(result) ==
  CASE result = "COLLISION_ERROR"       -> "SYNCHRONIZATION"
    [] result = "SYNCHRONIZATION_ERROR" -> "INITIALIZATION"

MaLeave ==
  /\ pc = "ma_switch" /\ ret \in {"COLLISION_ERROR", "SYNCHRONIZATION_ERROR"}
  /\ pmNext' = "FINISHP"
  /\ pmCur' = PmUpdated(pmCur, "FINISHP")
  /\ IF pmCur' = "FINISHP" THEN FinishP ELSE UNCHANGED trafficVars
  /\ Executed(AfterError(ret))
  /\ UNCHANGED <<pool, ret, slotVars, activeVars, listens, channelVars, collision,
                 isFirst, localVars, netVars>>

-----------------------------------------------------------------------------
(* timeout_signal_handler marks a timeout that is due.                     *)
Fire(id) ==
  /\ CanPass(pool, id)
  /\ pool' = AfterPass(pool, id)
  /\ UNCHANGED <<pc, powerVars, macVars, localVars, netVars>>

MacStep ==
  \/ StartState \/ MacUpdate
  \/ InitEnter \/ InitAlone \/ InitFound
  \/ SyncFirst \/ SyncEnter \/ SyncMissed \/ SyncHeard \/ SyncLoop \/ SyncEnd
  \/ TimeslotFirst \/ TimeslotSelect \/ TimeslotWait
  \/ MaEnter \/ MaContinue \/ MaRecordCollision \/ MaLeave

Thread == MacStep \/ (PowerModeStep /\ UNCHANGED <<macVars, localVars, netVars>>)

Next == Thread \/ \E id \in TimeoutIds : Fire(id)

Spec == Init /\ [][Next]_vars

(* The steps that need a packet: nobody promises that one ever comes.      *)
Delivery == InitFound \/ ReceivePacket

(* The thread keeps running, and a timeout that is armed is marked.        *)
Fairness ==
  /\ WF_vars(Thread /\ ~Delivery)
  /\ \A id \in TimeoutIds : WF_vars(Fire(id))

FairSpec == Spec /\ Fairness
=============================================================================
