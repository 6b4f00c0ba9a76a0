--------------------------- MODULE MacNodeProofs --------------------------
(***************************************************************************)
(* Proofs, for every value of the constants, of the invariants of a node.  *)
(***************************************************************************)
EXTENDS MacNodeProperties, TLAPS

-----------------------------------------------------------------------------
(* The timeouts.                                                           *)

(* The error number is not the number of a timeout.                        *)
LEMMA ErrorIsNoTimeout ==
  /\ TIMEOUT_SET_ERROR \notin TimeoutIds
  /\ TimeoutIds \subseteq Handles
  /\ Handles \subseteq Nat
BY TimeoutsAssumption DEF TIMEOUT_SET_ERROR, TimeoutIds, Handles

(* A timer variable may hold the error number.                            *)
LEMMA ErrorIsHandle == TIMEOUT_SET_ERROR \in Handles
BY DEF Handles

(* timeout_set, timeout_unset and the signal handler turn pools into pools *)
(* and change the entry they are given only.                               *)
LEMMA PoolClosed ==
  ASSUME NEW p \in Pools, NEW id \in Handles
  PROVE  /\ AfterSet(p, id) \in Pools
         /\ AfterUnset(p, id) \in Pools
         /\ AfterPass(p, id) \in Pools
         /\ \A h \in TimeoutIds \ {id} : /\ AfterSet(p, id)[h] = p[h]
                                         /\ AfterUnset(p, id)[h] = p[h]
                                         /\ AfterPass(p, id)[h] = p[h]
         /\ id \in TimeoutIds => AfterSet(p, id)[id] = "armed"
         /\ id \in TimeoutIds => AfterUnset(p, id)[id] = "free"
         /\ id \in TimeoutIds => AfterPass(p, id)[id] = "passed"
BY DEF Pools, Status, AfterSet, AfterUnset, AfterPass

(* A timeout that timeout_set returns was free before.                     *)
LEMMA SetReturnsFree ==
  ASSUME NEW p \in Pools, NEW positive \in BOOLEAN, NEW id \in Handles,
         TimeoutSet(p, positive, id)
  PROVE  id = TIMEOUT_SET_ERROR \/ (id \in TimeoutIds /\ p[id] = "free")
BY DEF TimeoutSet, FreeIds

(* A listen leaves a pool in which every timeout that was in use still is  *)
(* what it was.                                                            *)
LEMMA ListenKeepsTimers ==
  ASSUME NEW p \in Pools, NEW positive \in BOOLEAN, NEW heard \in BOOLEAN,
         NEW q \in AfterListen(p, positive, heard)
  PROVE  /\ q \in Pools
         /\ \A h \in TimeoutIds : p[h] # "free" => q[h] = p[h]
<1>1. CASE q = p
  BY <1>1
<1>2. CASE q # p
  <2>1. PICK id \in Handles :
          /\ TimeoutSet(p, positive, id)
          /\ id # TIMEOUT_SET_ERROR
          /\ q = AfterSet(p, id)
    BY <1>2 DEF AfterListen
  <2>2. id \in TimeoutIds /\ p[id] = "free"
    BY <2>1, SetReturnsFree
  <2>3. QED
    BY <2>1, <2>2, PoolClosed
<1>3. QED
  BY <1>1, <1>2

(* timer = timeout_set(duration) gives timer a number and keeps every      *)
(* other timeout in use; with a free entry it does not fail.               *)
LEMMA ArmKeepsTimers ==
  ASSUME NEW p \in Pools, NEW positive \in BOOLEAN, NEW id \in Handles,
         TimeoutSet(p, positive, id)
  PROVE  /\ AfterSet(p, id) \in Pools
         /\ \A h \in TimeoutIds : p[h] # "free" => h # id /\ AfterSet(p, id)[h] = p[h]
         /\ id \in TimeoutIds => AfterSet(p, id)[id] = "armed"
<1>1. id = TIMEOUT_SET_ERROR \/ (id \in TimeoutIds /\ p[id] = "free")
  BY SetReturnsFree
<1>2. \A h \in TimeoutIds : p[h] # "free" => h # id
  BY <1>1, ErrorIsNoTimeout
<1>3. QED
  BY <1>2, PoolClosed, SMTT(30)

-----------------------------------------------------------------------------
(* Type correctness.                                                       *)

(* Arming a passed timer again yields a timer number and a pool.           *)
LEMMA RearmedType ==
  ASSUME NEW p \in Pools, NEW id \in Handles, NEW r \in Rearmed(p, id)
  PROVE  r.timer \in Handles /\ r.pool \in Pools
<1>1. AfterUnset(p, id) \in Pools
  BY PoolClosed
<1>2. \A new \in Handles : AfterSet(AfterUnset(p, id), new) \in Pools
  BY <1>1, PoolClosed
<1>3. CASE TimeoutPassed(p, id) = 1
  <2>1. PICK new \in Handles : r = [timer |-> new, pool |-> AfterSet(AfterUnset(p, id), new)]
    BY <1>3 DEF Rearmed
  <2>2. QED
    BY <1>2, <2>1
<1>4. CASE TimeoutPassed(p, id) # 1
  BY <1>4 DEF Rearmed
<1>5. QED
  BY <1>3, <1>4

(* The slot number of a bit is a number.                                   *)
LEMMA SlotOfType ==
  ASSUME NEW bit \in Bits
  PROVE  SlotOf(bit) \in Nat
<1>1. bit[1] \in Nat /\ bit[2] \in Nat /\ SLOT_BYTES \in Nat
  BY MacNodeAssumption DEF Bits
<1>2. \A m, i, j \in Nat : m * i + j \in Nat
  OBVIOUS
<1>3. QED
  BY <1>1, <1>2 DEF SlotOf

(* The initial state has its type.                                         *)
LEMMA InitType == Init => TypeOK
<1> SUFFICES ASSUME Init PROVE TypeOK
  OBVIOUS
<1>1. /\ slotTimer \in Handles /\ cfTimer \in Handles /\ timer \in Handles
      /\ frame_timer \in Handles /\ slot_timer \in Handles
  BY TimeoutsAssumption DEF Init, Handles, TimeoutIds
<1>2. pool \in Pools
  BY DEF Init, EmptyPool, Pools, Status
<1>3. pc \in MacPoints \cup PmPoints
  BY DEF Init, MacPoints
<1>4. macCur \in MacStates /\ macNext \in MacStates \cup {"NONE"}
  BY DEF Init, MacStates
<1>5. pmCur \in PmStates /\ pmNext \in PmStates \cup {"NONEP"} /\ ret \in Results
  BY DEF Init, PmStates, Results
<1>6. act \in Acts /\ collision \in Collisions
  BY DEF Init, NoAct, Acts, NoCollision, Collisions
<1>7. currentSlot \in Slots /\ cfSlot \in 0 .. NFREQS
  BY PowerModeAssumption DEF Init, Slots
<1>8. toSend \in 0 .. 2 * MAX_PACKETS /\ received \in 0 .. 2 * MAX_PACKETS
  BY PowerModeAssumption DEF Init
<1>9. count \in 0 .. SYNC_TRIES - 1
  BY MacNodeAssumption DEF Init
<1>10. slotDuration \in BOOLEAN /\ isFirst \in BOOLEAN
  BY DEF Init
<1>11. /\ listens \in 0 .. 2 /\ selectedSlot \in Nat /\ wakeup \in Nat
       /\ framesLeft \in Nat /\ occupied \subseteq Bits
       /\ txChannel \in {0} \cup Frequencies /\ rxChannel \in {0} \cup Frequencies
  BY DEF Init
<1>12. QED
  BY <1>1, <1>2, <1>3, <1>4, <1>5, <1>6, <1>7, <1>8, <1>9, <1>10, <1>11 DEF TypeOK

(* What is heard in a cf slot keeps the locals of ACTIVE, the reception    *)
(* channel and the first-node flag in their types.                         *)
LEMMA CfTrafficType ==
  ASSUME TypeOK, cfSlot < NFREQS, CfTraffic
  PROVE  act' \in Acts /\ rxChannel' \in {0} \cup Frequencies /\ isFirst' \in BOOLEAN
<1>1. CASE OwnCfSlot(act.isCurrent, cfSlot)
  <2>1. act \in Acts /\ UNCHANGED <<rxChannel, isFirst>>
    BY <1>1 DEF CfTraffic, SendCfMessage, TypeOK
  <2>2. act' = act \/ act' = [act EXCEPT !.send = TRUE, !.isCurrent = FALSE]
    BY <1>1 DEF CfTraffic, SendCfMessage
  <2>3. act' \in Acts
    BY <2>1, <2>2 DEF Acts
  <2>4. QED
    BY <2>1, <2>3 DEF TypeOK
<1>2. CASE ~OwnCfSlot(act.isCurrent, cfSlot)
  <2>1. ReceiveCfMessage
    BY <1>2 DEF CfTraffic
  <2>2. FrequencyOf(cfSlot) \in Frequencies
    BY PowerModeAssumption DEF TypeOK, FrequencyOf, Frequencies
  <2> DEFINE counts == IF act.packets = 2 THEN {0, 2} ELSE {act.packets + 1}
  <2>3. \/ act' = act
        \/ \E n \in counts : act' = [act EXCEPT !.receive = TRUE, !.packets = n]
    BY <2>1 DEF ReceiveCfMessage
  <2>4. act' \in Acts
    <3>1. act \in Acts
      BY DEF TypeOK
    <3>2. CASE act' = act
      BY <3>1, <3>2
    <3>3. CASE \E n \in counts : act' = [act EXCEPT !.receive = TRUE, !.packets = n]
      <4>1. counts \subseteq 0 .. 2
        BY <3>1 DEF Acts
      <4>2. QED
        BY <3>1, <3>3, <4>1 DEF Acts
    <3>4. QED
      BY <2>3, <3>2, <3>3
  <2>5. isFirst' \in BOOLEAN
    BY <2>1 DEF ReceiveCfMessage, TypeOK
  <2>6. QED
    BY <2>1, <2>2, <2>4, <2>5 DEF ReceiveCfMessage, TypeOK
<1>3. QED
  BY <1>1, <1>2

(* In the cf phase the cf slot is one of the frequencies'; a node that has *)
(* started has a wakeup frame; a PowerMode state that has returned has     *)
(* named a next state.  With this, the type invariant is inductive.        *)
TypeInv ==
  /\ TypeOK
  /\ pc = "active_loop" => cfSlot < NFREQS
  /\ wakeup = 0 => pc = "mac" /\ macCur = "START"
  /\ pc = "ma_switch" => pmNext \in PmStates

(* A step of the PowerMode machine keeps every variable in its type.       *)
LEMMA PowerModeType ==
  ASSUME TypeInv, PowerModeStep, UNCHANGED <<macVars, localVars, netVars>>
  PROVE  TypeInv'
<1> USE DEF TypeInv, TypeOK, pmVars, slotVars, activeVars, channelVars, trafficVars, macVars,
            localVars, netVars, MacPoints, PmPoints
<1>1. CASE PassiveEnter
  BY <1>1, PowerModeAssumption DEF PassiveEnter
<1>2. CASE PassivePoll
  BY <1>2, PowerModeAssumption DEF PassivePoll, ExchangePackets
<1>3. CASE PassiveEnd
  <2>1. pool' \in Pools /\ slotTimer' \in Handles
    BY <1>3, PoolClosed DEF PassiveEnd, PassiveTimerReleased, Arm
  <2>2. toSend' \in 0 .. 2 * MAX_PACKETS /\ received' \in 0 .. 2 * MAX_PACKETS
    BY <1>3, PowerModeAssumption DEF PassiveEnd, ExchangePackets
  <2>3. currentSlot' \in Slots
    BY <1>3, PowerModeAssumption DEF PassiveEnd, Slots
  <2>4. QED
    BY <1>3, <2>1, <2>2, <2>3 DEF PassiveEnd, Return, Results, PmStates
<1>4. CASE ActiveEnter
  <2>1. pool' \in Pools /\ cfTimer' \in Handles
    BY <1>4, PoolClosed DEF ActiveEnter, Arm
  <2>2. act' \in Acts
    <3>1. act' = [isCurrent |-> (currentSlot = selectedSlot), send |-> FALSE,
                  receive |-> FALSE, packets |-> 0]
      BY <1>4 DEF ActiveEnter, NoAct
    <3>2. (currentSlot = selectedSlot) \in BOOLEAN
      OBVIOUS
    <3>3. QED
      BY <3>1, <3>2 DEF Acts
  <2>3. QED
    BY <1>4, <2>1, <2>2, PowerModeAssumption DEF ActiveEnter
<1>5. CASE CfSlotBusy
  <2>1. act' \in Acts /\ rxChannel' \in {0} \cup Frequencies /\ isFirst' \in BOOLEAN
    BY <1>5, CfTrafficType DEF CfSlotBusy
  <2>2. QED
    BY <1>5, <2>1 DEF CfSlotBusy
<1>6. CASE CfSlotEnds
  <2>1. act' \in Acts /\ rxChannel' \in {0} \cup Frequencies /\ isFirst' \in BOOLEAN
    BY <1>6, PowerModeAssumption, CfTrafficType DEF CfSlotEnds
  <2>2. pool' \in Pools /\ cfTimer' \in Handles
    BY <1>6, PoolClosed DEF CfSlotEnds, NextCfSlot, Arm
  <2>3. cfSlot' \in 0 .. NFREQS /\ cfSlot' < NFREQS
    BY <1>6, PowerModeAssumption DEF CfSlotEnds, NextCfSlot
  <2>4. QED
    BY <1>6, <2>1, <2>2, <2>3 DEF CfSlotEnds
<1>7. CASE CfPhaseEnds
  BY <1>7, PowerModeAssumption, PoolClosed DEF CfPhaseEnds
<1>8. CASE ActiveCollision
  BY <1>8 DEF ActiveCollision, Return, Acts, NoAct, Collisions, Results, PmStates
<1>9. CASE ActiveDecide
  BY <1>9 DEF ActiveDecide, Return, Acts, NoAct, Results, PmStates
<1>10. CASE TransmitAnnounce
  BY <1>10 DEF TransmitAnnounce, Return, ForgetCollision, NoCollision, Collisions, Results, PmStates
<1>11. CASE TransmitEnter
  BY <1>11 DEF TransmitEnter
<1>12. CASE TransmitSend
  BY <1>12, PowerModeAssumption DEF TransmitSend, SendDataPacket, Return, Results, PmStates
<1>13. CASE TransmitTimeout
  BY <1>13, PoolClosed DEF TransmitTimeout, Return, Results, PmStates
<1>14. CASE ReceiveEnter
  BY <1>14 DEF ReceiveEnter
<1>15. CASE ReceiveMissed
  <2>1. pool' \in Pools
    BY <1>15, ListenKeepsTimers DEF ReceiveMissed
  <2>2. listens' \in 0 .. 2
    BY <1>15 DEF ReceiveMissed
  <2>3. pc' \in PmPoints /\ pmNext' \in PmStates \cup {"NONEP"} /\ ret' \in Results
    BY <1>15 DEF ReceiveMissed, Return, Results, PmStates
  <2>4. QED
    BY <1>15, <2>1, <2>2, <2>3 DEF ReceiveMissed, Return
<1>16. CASE ReceiveHeardLate
  <2>1. pool' \in Pools
    BY <1>16, ListenKeepsTimers DEF ReceiveHeardLate
  <2>2. listens' \in 0 .. 2
    BY <1>16 DEF ReceiveHeardLate
  <2>3. pc' \in PmPoints /\ pmNext' \in PmStates \cup {"NONEP"} /\ ret' \in Results
    BY <1>16 DEF ReceiveHeardLate, Return, Results, PmStates
  <2>4. QED
    BY <1>16, <2>1, <2>2, <2>3 DEF ReceiveHeardLate, Return
<1>17. CASE ReceiveHeard
  <2>1. pool' \in Pools
    BY <1>17, ListenKeepsTimers DEF ReceiveHeard
  <2>2. listens' \in 0 .. 2
    BY <1>17 DEF ReceiveHeard
  <2>3. pc' \in PmPoints /\ pmNext' \in PmStates \cup {"NONEP"} /\ ret' \in Results
    BY <1>17 DEF ReceiveHeard, Return, Results, PmStates
  <2>4. QED
    BY <1>17, <2>1, <2>2, <2>3 DEF ReceiveHeard, Return
<1>18. CASE ReceivePacket
  BY <1>18, PowerModeAssumption DEF ReceivePacket
<1>19. CASE ReceiveEnd
  BY <1>19 DEF ReceiveEnd, Return, Results, PmStates
<1>20. QED
  BY <1>1, <1>2, <1>3, <1>4, <1>5, <1>6, <1>7, <1>8, <1>9, <1>10, <1>11, <1>12, <1>13, <1>14, <1>15, <1>16, <1>17, <1>18, <1>19 DEF PowerModeStep

(* A step of the MAC machine keeps every variable in its type.             *)
LEMMA MacType ==
  ASSUME TypeInv, MacStep
  PROVE  TypeInv'
<1> USE DEF TypeInv, TypeOK, powerVars, pmVars, slotVars, activeVars, channelVars,
            trafficVars, macVars, localVars, netVars, MacPoints, PmPoints, MacStates, Executing
<1>1. CASE StartState
  <2>1. wakeup' \in Nat \ {0}
    BY <1>1, PowerModeAssumption DEF StartState, Slots
  <2>2. pc' = "mac_update" /\ macNext' = "INITIALIZATION" /\ isFirst' = FALSE
    BY <1>1 DEF StartState, Executed
  <2>3. UNCHANGED <<pool, pmVars, slotVars, activeVars, listens, channelVars, collision,
                    trafficVars, localVars, occupied, macCur>>
    BY <1>1 DEF StartState, Executed
  <2>4. QED
    BY <2>1, <2>2, <2>3
<1>2. CASE MacUpdate
  <2>1. macCur' \in MacStates
    BY <1>2 DEF MacUpdate, MacUpdated, MacAllowed
  <2>2. QED
    BY <1>2, <2>1 DEF MacUpdate
<1>3. CASE InitEnter
  BY <1>3, PoolClosed DEF InitEnter, Executing, Arm
<1>4. CASE InitAlone
  BY <1>4, PoolClosed, ErrorIsHandle DEF InitAlone, InitLeave, Executed
<1>5. CASE InitFound
  BY <1>5, PoolClosed, ErrorIsHandle DEF InitFound, InitLeave, Executed
<1>6. CASE SyncFirst
  BY <1>6 DEF SyncFirst, Executed
<1>7. CASE SyncEnter
  BY <1>7, MacNodeAssumption DEF SyncEnter
<1>8. CASE SyncMissed
  <2>1. pool' \in Pools
    BY <1>8, ListenKeepsTimers DEF SyncMissed
  <2>2. count' \in 0 .. SYNC_TRIES - 1 /\ pc' \in {"mac_update", "sync_listen"}
    BY <1>8, MacNodeAssumption DEF SyncMissed, Failed, Executed
  <2>3. UNCHANGED macVars
    BY <1>8 DEF SyncMissed, Failed, Executed
  <2>4. QED
    BY <1>8, <2>1, <2>2, <2>3 DEF SyncMissed
<1>9. CASE SyncHeard
  <2>1. PICK heard \in AfterListen(pool, slotDuration, TRUE), slot \in Handles,
             frame \in Handles, current_frame \in 0 .. MAX_WAKEUP :
          /\ pool' = AfterSet(AfterSet(heard, slot), frame)
          /\ wakeup' = wakeup + current_frame
          /\ IF CannotArm(slot, frame)
               THEN Failed /\ UNCHANGED <<frame_timer, slot_timer, framesLeft>>
               ELSE /\ slot_timer' = slot
                    /\ frame_timer' = frame
                    /\ framesLeft' = wakeup - 1
                    /\ pc' = "sync_loop"
                    /\ UNCHANGED macVars
    BY <1>9 DEF SyncHeard
  <2>2. pool' \in Pools
    <3>1. heard \in Pools
      BY ListenKeepsTimers
    <3>2. AfterSet(heard, slot) \in Pools
      BY <3>1, PoolClosed
    <3>3. QED
      BY <2>1, <3>2, PoolClosed
  <2>3. occupied' \subseteq Bits /\ count' \in 0 .. SYNC_TRIES - 1 /\ wakeup' \in Nat \ {0}
    BY <1>9, <2>1, MacNodeAssumption DEF SyncHeard
  <2>4. /\ slot_timer' \in Handles /\ frame_timer' \in Handles
        /\ pc' \in {"mac_update", "sync_loop"} /\ UNCHANGED macVars
    BY <2>1 DEF Failed, Executed
  <2>5. framesLeft' \in Nat
    <3>1. wakeup - 1 \in Nat
      BY <1>9 DEF SyncHeard
    <3>2. QED
      BY <2>1, <3>1
  <2>6. QED
    BY <1>9, <2>2, <2>3, <2>4, <2>5 DEF SyncHeard
<1>10. CASE SyncLoop
  BY <1>10, ListenKeepsTimers, RearmedType DEF SyncLoop
<1>11. CASE SyncEnd
  BY <1>11, PoolClosed, ErrorIsHandle DEF SyncEnd, Executed, TimersReleased
<1>12. CASE TimeslotFirst
  BY <1>12, PowerModeAssumption, MacNodeAssumption DEF TimeslotFirst, Executed, SelectFirst, FrequencyOf, Frequencies, Bits
<1>13. CASE TimeslotSelect
  <2>1. PICK id \in Handles :
          /\ pool' = AfterSet(pool, id)
          /\ frame_timer' = frame_timer \/ frame_timer' = id
    BY <1>13 DEF TimeslotSelect
  <2>2. pool' \in Pools /\ frame_timer' \in Handles
    BY <2>1, PoolClosed
  <2>3. selectedSlot' \in Nat /\ txChannel' \in {0} \cup Frequencies
    BY <1>13, SlotOfType DEF TimeslotSelect, Select, FreeBits
  <2>4. /\ pc' \in {"mac_update", "timeslot_wait"}
        /\ macNext' \in MacStates \cup {"NONE"} /\ UNCHANGED macCur
    BY <1>13 DEF TimeslotSelect, Failed, Executed
  <2>5. QED
    BY <1>13, <2>2, <2>3, <2>4 DEF TimeslotSelect
<1>14. CASE TimeslotWait
  BY <1>14, PoolClosed, ErrorIsHandle DEF TimeslotWait, Executed
<1>15. CASE MaEnter
  <2>1. pool' \in Pools /\ slotTimer' \in Handles
    BY <1>15, PoolClosed DEF MaEnter, StartP, Arm
  <2>2. pmCur' \in PmStates /\ pmNext' \in PmStates
    BY <1>15 DEF MaEnter, PmUpdated, PmStates
  <2>3. /\ slotDuration' = TRUE /\ currentSlot' \in Slots /\ cfSlot' \in 0 .. NFREQS
        /\ toSend' \in 0 .. 2 * MAX_PACKETS /\ received' \in 0 .. 2 * MAX_PACKETS
    BY <1>15, PowerModeAssumption DEF MaEnter, StartP, Slots
  <2>4. QED
    BY <1>15, <2>1, <2>2, <2>3 DEF MaEnter
<1>16. CASE MaContinue
  <2>1. pmCur' \in PmStates
    BY <1>16 DEF MaContinue, PmUpdated, PmAllowed, PmStates
  <2>2. QED
    BY <1>16, <2>1 DEF MaContinue
<1>17. CASE MaRecordCollision
  BY <1>17, ZenonT(40) DEF MaRecordCollision, Collisions
<1>18. CASE MaLeave
  BY <1>18, PowerModeAssumption DEF MaLeave, FinishP, Executed, AfterError, PmUpdated, PmStates
<1>19. QED
  BY <1>1, <1>2, <1>3, <1>4, <1>5, <1>6, <1>7, <1>8, <1>9, <1>10, <1>11, <1>12, <1>13, <1>14, <1>15, <1>16, <1>17, <1>18 DEF MacStep

(* The signal handler and a stuttering step do so, too.                    *)
LEMMA FireType ==
  ASSUME TypeInv, NEW id \in TimeoutIds, Fire(id)
  PROVE  TypeInv'
<1>1. pool' \in Pools
  BY PoolClosed DEF TypeInv, TypeOK, Fire, Handles
<1>2. QED
  BY <1>1 DEF Fire, TypeInv, TypeOK, powerVars, pmVars, slotVars, activeVars, channelVars,
              trafficVars, macVars, localVars, netVars

LEMMA StutterType ==
  ASSUME TypeInv, UNCHANGED vars
  PROVE  TypeInv'
BY DEF TypeInv, TypeOK, vars, powerVars, pmVars, slotVars, activeVars, channelVars,
       trafficVars, macVars, localVars, netVars

(* Hence the type invariant holds, and with it ...                         *)
LEMMA TypeInvariant == Spec => []TypeInv
<1>1. Init => TypeInv
  BY InitType DEF TypeInv, Init
<1>2. TypeInv /\ [Next]_vars => TypeInv'
  BY PowerModeType, MacType, FireType, StutterType DEF Next, Thread
<1>3. QED
  BY <1>1, <1>2, PTL DEF Spec

(* ... all variables of a node keep their types, whatever the sizes: the   *)
(* rings' counters, the slot and the cf slot never leave their ranges.     *)
THEOREM TypeCorrect == Spec => []TypeOK
<1>1. TypeInv => TypeOK
  BY DEF TypeInv
<1>2. QED
  BY <1>1, TypeInvariant, PTL

-----------------------------------------------------------------------------
(* The control flow of the two machines.                                   *)

(* Between two executions of MEDIUM_ACCESS the PowerMode machine rests in  *)
(* STARTP or FINISHP; inside one, pc tells the state that is executing.    *)
PmControl ==
  /\ pc \in MacPoints => pmCur \in {"STARTP", "FINISHP"}
  /\ pc = "pm" => pmCur \in {"PASSIVE", "ACTIVE", "TRANSMIT", "RECEIVE"}
  /\ pc = "passive_loop" => pmCur = "PASSIVE"
  /\ pc \in {"active_loop", "active_end"} => pmCur = "ACTIVE"
  /\ pc = "transmit_loop" => pmCur = "TRANSMIT"
  /\ pc \in {"receive_listen", "receive_loop"} => pmCur = "RECEIVE"

(* The transitions the PowerMode states ask for, and the errors they       *)
(* return.                                                                 *)
PmRequest ==
  pc = "ma_switch" =>
    \/ ret = "SUCCESS" /\ pmCur = "PASSIVE" /\ pmNext = "ACTIVE"
    \/ ret = "SUCCESS" /\ pmCur = "ACTIVE" /\ pmNext \in {"TRANSMIT", "RECEIVE", "PASSIVE"}
    \/ ret = "SUCCESS" /\ pmCur \in {"TRANSMIT", "RECEIVE"} /\ pmNext = "PASSIVE"
    \/ ret = "COLLISION_DETECTED" /\ pmCur = "ACTIVE" /\ pmNext = "PASSIVE"
    \/ /\ ret \in {"COLLISION_ERROR", "SYNCHRONIZATION_ERROR"}
       /\ pmCur \in {"TRANSMIT", "RECEIVE"}

(* The same for the MAC machine.                                           *)
MacControl ==
  /\ pc \in PmPoints => macCur = "MEDIUM_ACCESS" /\ macNext = "MEDIUM_ACCESS"
  /\ pc = "init_loop" => macCur = "INITIALIZATION"
  /\ pc \in {"sync_listen", "sync_loop"} =>
       macCur = "SYNCHRONIZATION" /\ macNext = "SYNCHRONIZATION"
  /\ pc = "timeslot_wait" =>
       /\ macCur = "TIMESLOT_AND_CHANNEL_SELECTION"
       /\ macNext \in {"SYNCHRONIZATION", "MEDIUM_ACCESS"}
  /\ pc = "mac" => macNext = macCur \/ (macCur = "START" /\ macNext = "NONE")

MacRequest ==
  pc = "mac_update" =>
    \/ macCur = "START" /\ macNext = "INITIALIZATION"
    \/ macCur = "INITIALIZATION" /\ macNext = "SYNCHRONIZATION"
    \/ /\ macCur = "SYNCHRONIZATION"
       /\ macNext \in {"SYNCHRONIZATION", "TIMESLOT_AND_CHANNEL_SELECTION"}
    \/ /\ macCur = "TIMESLOT_AND_CHANNEL_SELECTION"
       /\ macNext \in {"SYNCHRONIZATION", "TIMESLOT_AND_CHANNEL_SELECTION", "MEDIUM_ACCESS"}
    \/ /\ macCur = "MEDIUM_ACCESS" /\ macNext \in {"SYNCHRONIZATION", "INITIALIZATION"}
       /\ pmCur = "FINISHP" /\ toSend = 0 /\ received = 0

(* Only a node in its own slot has or gets permission to send.             *)
OwnSlot ==
  /\ act.isCurrent \/ act.send \/ pmCur = "TRANSMIT" => currentSlot = selectedSlot
  /\ pc = "ma_switch" /\ ret = "SUCCESS" /\ pmNext = "TRANSMIT" => currentSlot = selectedSlot
  /\ pc \notin {"active_loop", "active_end"} => act = NoAct

ControlInv ==
  PmControl /\ PmRequest /\ MacControl /\ MacRequest /\ OwnSlot /\ OnlyCollisionRepeatsActive

(* The initial state is in control.                                        *)
LEMMA ControlInit == Init => ControlInv
BY DEF Init, ControlInv, PmControl, PmRequest, MacControl, MacRequest, OwnSlot,
       OnlyCollisionRepeatsActive, NoAct,
       MacPoints, PmPoints

(* A step of the PowerMode machine keeps control: each state returns with  *)
(* a request its successor accepts, and none leaves its own slot armed.    *)
LEMMA ControlPowerMode ==
  ASSUME TypeInv, ControlInv, PowerModeStep, UNCHANGED <<macVars, localVars, netVars>>
  PROVE  ControlInv'
<1> USE DEF ControlInv, PmControl, PmRequest, MacControl, MacRequest, OwnSlot,
            OnlyCollisionRepeatsActive, MacPoints, PmPoints,
            pmVars, slotVars, activeVars, channelVars, trafficVars, macVars
<1>1. CASE PassiveEnter
  BY <1>1 DEF PassiveEnter
<1>2. CASE PassivePoll
  BY <1>2 DEF PassivePoll
<1>3. CASE PassiveEnd
  BY <1>3 DEF PassiveEnd, Return, NoAct
<1>4. CASE ActiveEnter
  BY <1>4 DEF ActiveEnter, NoAct
<1>5. CASE CfSlotBusy
  BY <1>5 DEF CfSlotBusy, CfTraffic, SendCfMessage, ReceiveCfMessage, OwnCfSlot, Acts, TypeInv, TypeOK
<1>6. CASE CfSlotEnds
  BY <1>6 DEF CfSlotEnds, CfTraffic, SendCfMessage, ReceiveCfMessage, OwnCfSlot, Acts, TypeInv, TypeOK
<1>7. CASE CfPhaseEnds
  BY <1>7 DEF CfPhaseEnds, NoAct
<1>8. CASE ActiveCollision
  BY <1>8 DEF ActiveCollision, Return, NoAct
<1>9. CASE ActiveDecide
  BY <1>9 DEF ActiveDecide, Return, NoAct
<1>10. CASE TransmitAnnounce
  BY <1>10 DEF TransmitAnnounce, Return
<1>11. CASE TransmitEnter
  BY <1>11 DEF TransmitEnter
<1>12. CASE TransmitSend
  BY <1>12 DEF TransmitSend, Return
<1>13. CASE TransmitTimeout
  BY <1>13 DEF TransmitTimeout, Return
<1>14. CASE ReceiveEnter
  BY <1>14 DEF ReceiveEnter
<1>15. CASE ReceiveMissed
  BY <1>15 DEF ReceiveMissed, Return
<1>16. CASE ReceiveHeardLate
  BY <1>16 DEF ReceiveHeardLate, Return
<1>17. CASE ReceiveHeard
  BY <1>17 DEF ReceiveHeard, Return
<1>18. CASE ReceivePacket
  BY <1>18 DEF ReceivePacket
<1>19. CASE ReceiveEnd
  BY <1>19 DEF ReceiveEnd, Return
<1>20. QED
  BY <1>1, <1>2, <1>3, <1>4, <1>5, <1>6, <1>7, <1>8, <1>9, <1>10, <1>11, <1>12, <1>13, <1>14, <1>15, <1>16, <1>17, <1>18, <1>19 DEF PowerModeStep

(* A step of the MAC machine keeps control, too.                           *)
LEMMA ControlMac ==
  ASSUME TypeInv, ControlInv, MacStep
  PROVE  ControlInv'
<1> USE DEF ControlInv, PmControl, PmRequest, MacControl, MacRequest, OwnSlot,
            OnlyCollisionRepeatsActive, MacPoints, PmPoints,
            pmVars, slotVars, activeVars, channelVars, trafficVars, macVars, powerVars, Executing
<1>1. CASE StartState
  BY <1>1 DEF StartState, Executed, NoAct
<1>2. CASE MacUpdate
  BY <1>2 DEF MacUpdate, MacUpdated, MacAllowed
<1>3. CASE InitEnter
  BY <1>3 DEF InitEnter
<1>4. CASE InitAlone
  BY <1>4 DEF InitAlone, InitLeave, Executed
<1>5. CASE InitFound
  BY <1>5 DEF InitFound, InitLeave, Executed
<1>6. CASE SyncFirst
  BY <1>6 DEF SyncFirst, Executed
<1>7. CASE SyncEnter
  BY <1>7 DEF SyncEnter
<1>8. CASE SyncMissed
  BY <1>8 DEF SyncMissed, Failed, Executed
<1>9. CASE SyncHeard
  BY <1>9 DEF SyncHeard, Failed, Executed
<1>10. CASE SyncLoop
  BY <1>10 DEF SyncLoop
<1>11. CASE SyncEnd
  BY <1>11 DEF SyncEnd, Executed
<1>12. CASE TimeslotFirst
  BY <1>12 DEF TimeslotFirst, Executed, SelectFirst, NoAct
<1>13. CASE TimeslotSelect
  BY <1>13 DEF TimeslotSelect, Failed, Executed, Select, NoAct
<1>14. CASE TimeslotWait
  BY <1>14 DEF TimeslotWait, Executed
<1>15. CASE MaEnter
  BY <1>15 DEF MaEnter, StartP, PmUpdated, PmAllowed, NoAct
<1>16. CASE MaContinue
  BY <1>16 DEF MaContinue, PmUpdated, PmAllowed, NoAct
<1>17. CASE MaRecordCollision
  BY <1>17 DEF MaRecordCollision, TypeInv, TypeOK, Collisions
<1>18. CASE MaLeave
  BY <1>18 DEF MaLeave, Executed, PmUpdated, PmAllowed, AfterError, FinishP, NoAct
<1>19. QED
  BY <1>1, <1>2, <1>3, <1>4, <1>5, <1>6, <1>7, <1>8, <1>9, <1>10, <1>11, <1>12, <1>13, <1>14, <1>15, <1>16, <1>17, <1>18 DEF MacStep

(* The signal handler touches nothing that control depends on.             *)
LEMMA ControlRest ==
  ASSUME ControlInv, UNCHANGED vars \/ \E id \in TimeoutIds : Fire(id)
  PROVE  ControlInv'
BY DEF ControlInv, PmControl, PmRequest, MacControl, MacRequest, OwnSlot,
       OnlyCollisionRepeatsActive, Fire, vars, powerVars,
       pmVars, slotVars, activeVars, channelVars, trafficVars, macVars, localVars, netVars

(* Both machines are always in control.                                    *)
LEMMA ControlInvariant == Spec => []ControlInv
<1>1. TypeInv /\ ControlInv /\ [Next]_vars => ControlInv'
  BY ControlPowerMode, ControlMac, ControlRest DEF Next, Thread
<1>2. QED
  BY <1>1, ControlInit, TypeInvariant, PTL DEF Spec

(* Hence a node announces a transmission, and transmits, only in the slot  *)
(* it has selected, for frames of any number of slots; ...                 *)
THEOREM TransmissionInOwnSlot == Spec => []TransmitInOwnSlot
<1>1. ControlInv => TransmitInOwnSlot
  BY DEF ControlInv, OwnSlot, TransmitInOwnSlot
<1>2. QED
  BY <1>1, ControlInvariant, PTL

(* ... neither update function ever refuses what a state has asked for;... *)
THEOREM NoUpdateRefused == Spec => []UpdatesAccepted
<1>1. ControlInv => UpdatesAccepted
  BY DEF ControlInv, PmRequest, MacRequest, UpdatesAccepted, PmAllowed, MacAllowed
<1>2. QED
  BY <1>1, ControlInvariant, PTL

(* ... the state that executes next is the one asked for, except that      *)
(* ACTIVE is repeated after a collision, with the collision recorded; ...  *)
THEOREM OnlyCollisionRepeats == Spec => []OnlyCollisionRepeatsActive
<1>1. ControlInv => OnlyCollisionRepeatsActive
  BY DEF ControlInv
<1>2. QED
  BY <1>1, ControlInvariant, PTL

(* ... and MEDIUM_ACCESS is left through FINISHP with empty rings.         *)
THEOREM MediumAccessFinishes == Spec => []FinishedClean
<1>1. ControlInv => FinishedClean
  BY DEF ControlInv, MacRequest, FinishedClean
<1>2. QED
  BY <1>1, ControlInvariant, PTL

-----------------------------------------------------------------------------
(* The collision record.                                                   *)

(* A node that is about to record a collision knows the frequency on which *)
(* it was called: without this, a record might name no frequency.          *)
CollisionInv ==
  /\ CollisionRecordConsistent
  /\ act.receive \/ act.packets > 0 => rxChannel # 0
  /\ pc = "ma_switch" /\ ret = "COLLISION_DETECTED" => rxChannel # 0

(* A cf message that calls the node names the frequency of its cf slot.    *)
LEMMA CfTrafficCalls ==
  ASSUME TypeOK, CfTraffic, act.receive \/ act.packets > 0 => rxChannel # 0
  PROVE  act'.receive \/ act'.packets > 0 => rxChannel' # 0
<1>1. act \in Acts /\ cfSlot \in Nat
  BY PowerModeAssumption DEF TypeOK
<1>2. CASE SendCfMessage
  <2>1. act'.receive = act.receive /\ act'.packets = act.packets /\ rxChannel' = rxChannel
    BY <1>1, <1>2 DEF SendCfMessage, Acts
  <2>2. QED
    BY <2>1
<1>3. CASE ReceiveCfMessage
  <2>1. CASE UNCHANGED <<act, rxChannel>>
    BY <2>1
  <2>2. CASE rxChannel' = FrequencyOf(cfSlot)
    BY <1>1, <2>2 DEF FrequencyOf
  <2>3. QED
    BY <1>3, <2>1, <2>2 DEF ReceiveCfMessage
<1>4. QED
  BY <1>2, <1>3 DEF CfTraffic

(* A step of the PowerMode machine keeps the record consistent.            *)
LEMMA CollisionPowerMode ==
  ASSUME TypeInv, CollisionInv, PowerModeStep
  PROVE  CollisionInv'
<1> USE DEF CollisionInv, CollisionRecordConsistent, TypeInv, TypeOK, Acts, Collisions,
            pmVars, activeVars, channelVars
<1>1. CASE PassiveEnter
  BY <1>1 DEF PassiveEnter
<1>2. CASE PassivePoll
  BY <1>2 DEF PassivePoll
<1>3. CASE PassiveEnd
  BY <1>3 DEF PassiveEnd, Return
<1>4. CASE ActiveEnter
  BY <1>4 DEF ActiveEnter, NoAct
<1>5. CASE CfSlotBusy
  BY <1>5, CfTrafficCalls DEF CfSlotBusy
<1>6. CASE CfSlotEnds
  BY <1>6, CfTrafficCalls DEF CfSlotEnds
<1>7. CASE CfPhaseEnds
  BY <1>7 DEF CfPhaseEnds
<1>8. CASE ActiveCollision
  BY <1>8 DEF ActiveCollision, Return, Collided, NoAct
<1>9. CASE ActiveDecide
  BY <1>9 DEF ActiveDecide, Return, NoAct
<1>10. CASE TransmitAnnounce
  BY <1>10 DEF TransmitAnnounce, Return, ForgetCollision, NoCollision
<1>11. CASE TransmitEnter
  BY <1>11 DEF TransmitEnter
<1>12. CASE TransmitSend
  BY <1>12 DEF TransmitSend, Return
<1>13. CASE TransmitTimeout
  BY <1>13 DEF TransmitTimeout, Return
<1>14. CASE ReceiveEnter
  BY <1>14 DEF ReceiveEnter
<1>15. CASE ReceiveMissed
  BY <1>15 DEF ReceiveMissed, Return
<1>16. CASE ReceiveHeardLate
  BY <1>16 DEF ReceiveHeardLate, Return
<1>17. CASE ReceiveHeard
  BY <1>17 DEF ReceiveHeard, Return
<1>18. CASE ReceivePacket
  BY <1>18 DEF ReceivePacket
<1>19. CASE ReceiveEnd
  BY <1>19 DEF ReceiveEnd, Return
<1>20. QED
  BY <1>1, <1>2, <1>3, <1>4, <1>5, <1>6, <1>7, <1>8, <1>9, <1>10, <1>11, <1>12, <1>13, <1>14, <1>15, <1>16, <1>17, <1>18, <1>19 DEF PowerModeStep

(* The rest of the node records and forgets nothing but a detected         *)
(* collision.                                                              *)
LEMMA CollisionRest ==
  ASSUME TypeInv, ControlInv, CollisionInv,
         MacStep \/ UNCHANGED vars \/ \E id \in TimeoutIds : Fire(id)
  PROVE  CollisionInv'
<1> USE DEF CollisionInv, CollisionRecordConsistent, TypeInv, TypeOK, Collisions, vars, powerVars,
            pmVars, slotVars, activeVars, channelVars, trafficVars, macVars, localVars, netVars,
            Executing, ControlInv, MacControl, MacPoints, PmPoints
<1>1. CASE StartState
  BY <1>1 DEF StartState, Executed
<1>2. CASE MacUpdate
  BY <1>2 DEF MacUpdate
<1>3. CASE InitEnter
  BY <1>3 DEF InitEnter
<1>4. CASE InitAlone
  BY <1>4 DEF InitAlone, InitLeave, Executed
<1>5. CASE InitFound
  BY <1>5 DEF InitFound, InitLeave, Executed
<1>6. CASE SyncFirst
  BY <1>6 DEF SyncFirst, Executed
<1>7. CASE SyncEnter
  BY <1>7 DEF SyncEnter
<1>8. CASE SyncMissed
  BY <1>8 DEF SyncMissed, Failed, Executed
<1>9. CASE SyncHeard
  BY <1>9 DEF SyncHeard, Failed, Executed
<1>10. CASE SyncLoop
  BY <1>10 DEF SyncLoop
<1>11. CASE SyncEnd
  BY <1>11 DEF SyncEnd, Executed
<1>12. CASE TimeslotFirst
  BY <1>12 DEF TimeslotFirst, Executed, SelectFirst
<1>13. CASE TimeslotSelect
  BY <1>13 DEF TimeslotSelect, Failed, Executed, Select
<1>14. CASE TimeslotWait
  BY <1>14 DEF TimeslotWait, Executed
<1>15. CASE MaEnter
  BY <1>15 DEF MaEnter, StartP
<1>16. CASE MaContinue
  BY <1>16 DEF MaContinue
<1>17. CASE MaRecordCollision
  BY <1>17 DEF MaRecordCollision
<1>18. CASE MaLeave
  BY <1>18 DEF MaLeave, Executed, AfterError
<1>19. CASE UNCHANGED vars \/ \E id \in TimeoutIds : Fire(id)
  BY <1>19 DEF Fire
<1>20. QED
  BY <1>1, <1>2, <1>3, <1>4, <1>5, <1>6, <1>7, <1>8, <1>9, <1>10, <1>11, <1>12, <1>13, <1>14, <1>15, <1>16, <1>17, <1>18, <1>19 DEF MacStep

(* A recorded collision always names the frequency it was heard on, until  *)
(* the node has announced it.                                              *)
THEOREM CollisionRecordIsConsistent == Spec => []CollisionRecordConsistent
<1>1. Init => CollisionInv
  BY DEF Init, CollisionInv, CollisionRecordConsistent, NoCollision, NoAct
<1>2. TypeInv /\ ControlInv /\ CollisionInv /\ [Next]_vars => CollisionInv'
  BY CollisionPowerMode, CollisionRest DEF Next, Thread
<1>3. CollisionInv => CollisionRecordConsistent
  BY DEF CollisionInv
<1>4. QED
  BY <1>1, <1>2, <1>3, TypeInvariant, ControlInvariant, PTL DEF Spec

-----------------------------------------------------------------------------
(* The slot timer.                                                         *)

(* Only a timeout that is in use passes.                                   *)
LEMMA PassedIsHeld ==
  ASSUME NEW p \in Pools, NEW id \in Handles, TimeoutPassed(p, id) = 1
  PROVE  id \in TimeoutIds /\ p[id] = "passed"
BY DEF TimeoutPassed, Pools, Status

(* A timer that is given back and set again at once is a timeout: the pool *)
(* cannot be empty then.  Every other timeout in use stays what it was.    *)
LEMMA RearmSucceeds ==
  ASSUME NEW p \in Pools, NEW id \in TimeoutIds, NEW new \in Handles,
         TimeoutSet(AfterUnset(p, id), TRUE, new)
  PROVE  /\ new \in TimeoutIds
         /\ AfterSet(AfterUnset(p, id), new) \in Pools
         /\ AfterSet(AfterUnset(p, id), new)[new] # "free"
         /\ \A h \in TimeoutIds \ {id} : p[h] # "free" =>
              h # new /\ AfterSet(AfterUnset(p, id), new)[h] = p[h]
<1> DEFINE q == AfterUnset(p, id)
<1>1. q \in Pools /\ q[id] = "free" /\ \A h \in TimeoutIds \ {id} : q[h] = p[h]
  BY PoolClosed, ErrorIsNoTimeout
<1>2. new \in FreeIds(q)
  BY <1>1 DEF TimeoutSet, FreeIds
<1>3. new \in TimeoutIds /\ q[new] = "free"
  BY <1>2 DEF FreeIds
<1>4. /\ AfterSet(q, new) \in Pools /\ AfterSet(q, new)[new] = "armed"
      /\ \A h \in TimeoutIds \ {new} : AfterSet(q, new)[h] = q[h]
  BY <1>1, <1>3, PoolClosed
<1>5. QED
  BY <1>1, <1>3, <1>4

(* The slot timer is held from the moment PASSIVE asks for ACTIVE until    *)
(* TRANSMIT or RECEIVE ends: a state that is about to run in the slot      *)
(* counts as running in it.                                                *)
SlotRunning ==
  \/ pc \in PmPoints \ {"ma_switch"} /\ pmCur \in {"ACTIVE", "TRANSMIT", "RECEIVE"}
  \/ pc = "ma_switch" /\ ret = "SUCCESS" /\ pmNext \in {"ACTIVE", "TRANSMIT", "RECEIVE"}
  \/ pc = "ma_switch" /\ ret = "COLLISION_DETECTED"

CfRunning == pc = "active_loop" /\ cfTimer # TIMEOUT_SET_ERROR

SlotTimerInv ==
  /\ SlotRunning => Held(slotTimer)
  /\ CfRunning => Held(cfTimer) /\ cfTimer # slotTimer

(* A step that takes no timeout away, changes neither timer and starts     *)
(* neither a slot nor a cf phase keeps the timers held.                    *)
LEMMA TimersStayHeld ==
  ASSUME SlotTimerInv, UNCHANGED <<slotTimer, cfTimer>>,
         SlotRunning' => SlotRunning, CfRunning' => CfRunning,
         \A h \in TimeoutIds : pool[h] # "free" => pool'[h] # "free"
  PROVE  SlotTimerInv'
BY DEF SlotTimerInv, Held

(* A step of the PowerMode machine keeps the timers of a slot held.        *)
LEMMA SlotTimerPowerMode ==
  ASSUME TypeInv, ControlInv, SlotTimerInv, PowerModeStep
  PROVE  SlotTimerInv'
<1> USE DEF SlotRunning, CfRunning, PmPoints, pmVars, slotVars, activeVars, channelVars
<1>0. pool \in Pools /\ slotTimer \in Handles /\ cfTimer \in Handles
  BY DEF TypeInv, TypeOK
<1>1. CASE PassiveEnter
  BY <1>1, TimersStayHeld DEF PassiveEnter, ControlInv, PmControl
<1>2. CASE PassivePoll
  BY <1>2, TimersStayHeld DEF PassivePoll, ControlInv, PmControl
<1>3. CASE PassiveEnd
  <2>1. slotTimer \in TimeoutIds
    BY <1>0, <1>3, PassedIsHeld DEF PassiveEnd
  <2>2. TimeoutSet(AfterUnset(pool, slotTimer), TRUE, slotTimer') /\ slotTimer' \in Handles
    BY <1>3 DEF PassiveEnd, Arm, PassiveTimerReleased
  <2>3. pool' = AfterSet(AfterUnset(pool, slotTimer), slotTimer')
    BY <1>3 DEF PassiveEnd, Arm, PassiveTimerReleased
  <2>4. slotTimer' \in TimeoutIds /\ pool'[slotTimer'] # "free"
    BY <1>0, <2>1, <2>2, <2>3, RearmSucceeds, ZenonT(40)
  <2>5. QED
    BY <1>3, <2>4 DEF PassiveEnd, Return, SlotTimerInv, Held
<1>4. CASE ActiveEnter
  <2>1. Held(slotTimer)
    BY <1>4 DEF ActiveEnter, SlotTimerInv
  <2>2. /\ cfTimer' \in Handles /\ TimeoutSet(pool, TRUE, cfTimer')
        /\ pool' = AfterSet(pool, cfTimer')
    BY <1>4 DEF ActiveEnter, Arm
  <2>3. /\ \A h \in TimeoutIds : pool[h] # "free" => h # cfTimer' /\ pool'[h] = pool[h]
        /\ cfTimer' \in TimeoutIds => pool'[cfTimer'] = "armed"
    <3>1. /\ \A h \in TimeoutIds : pool[h] # "free" =>
                 h # cfTimer' /\ AfterSet(pool, cfTimer')[h] = pool[h]
          /\ cfTimer' \in TimeoutIds => AfterSet(pool, cfTimer')[cfTimer'] = "armed"
      BY <1>0, <2>2, ArmKeepsTimers
    <3>2. QED
      BY <2>2, <3>1
  <2>4. cfTimer' # TIMEOUT_SET_ERROR => cfTimer' \in TimeoutIds
    BY <2>2 DEF Handles
  <2>5. QED
    BY <1>4, <2>1, <2>3, <2>4 DEF ActiveEnter, SlotTimerInv, Held
<1>5. CASE CfSlotBusy
  BY <1>5, TimersStayHeld DEF CfSlotBusy, ControlInv, PmControl
<1>6. CASE CfSlotEnds
  <2>1. cfTimer \in TimeoutIds
    BY <1>0, <1>6, PassedIsHeld DEF CfSlotEnds
  <2>2. Held(slotTimer) /\ cfTimer # slotTimer
    BY <1>6, <2>1, ErrorIsNoTimeout DEF CfSlotEnds, SlotTimerInv, ControlInv, PmControl
  <2>3. /\ cfTimer' \in Handles /\ TimeoutSet(AfterUnset(pool, cfTimer), TRUE, cfTimer')
        /\ pool' = AfterSet(AfterUnset(pool, cfTimer), cfTimer')
    BY <1>6 DEF CfSlotEnds, NextCfSlot, Arm
  <2>4. /\ cfTimer' \in TimeoutIds /\ pool'[cfTimer'] # "free"
        /\ slotTimer # cfTimer' /\ pool'[slotTimer] = pool[slotTimer]
    <3>1. /\ cfTimer' \in TimeoutIds
          /\ AfterSet(AfterUnset(pool, cfTimer), cfTimer')[cfTimer'] # "free"
          /\ \A h \in TimeoutIds \ {cfTimer} : pool[h] # "free" =>
               h # cfTimer' /\ AfterSet(AfterUnset(pool, cfTimer), cfTimer')[h] = pool[h]
      BY <1>0, <2>1, <2>3, RearmSucceeds, ZenonT(40)
    <3>2. QED
      BY <2>2, <2>3, <3>1 DEF Held
  <2>5. QED
    BY <1>6, <2>2, <2>4 DEF CfSlotEnds, SlotTimerInv, Held
<1>7. CASE CfPhaseEnds
  <2>1. cfTimer \in TimeoutIds
    BY <1>0, <1>7, PassedIsHeld DEF CfPhaseEnds
  <2>2. Held(slotTimer) /\ cfTimer # slotTimer
    BY <1>7, <2>1, ErrorIsNoTimeout DEF CfPhaseEnds, SlotTimerInv, ControlInv, PmControl
  <2>3. pool'[slotTimer] = pool[slotTimer]
    <3>1. \A h \in TimeoutIds \ {cfTimer} : AfterUnset(pool, cfTimer)[h] = pool[h]
      BY <1>0, PoolClosed
    <3>2. QED
      BY <1>7, <2>2, <3>1 DEF CfPhaseEnds, Held
  <2>4. QED
    BY <1>7, <2>2, <2>3 DEF CfPhaseEnds, SlotTimerInv, Held
<1>8. CASE ActiveCollision
  BY <1>8, TimersStayHeld DEF ActiveCollision, Return, ControlInv, PmControl
<1>9. CASE ActiveDecide
  BY <1>9, TimersStayHeld DEF ActiveDecide, Return, ControlInv, PmControl
<1>10. CASE TransmitAnnounce
  BY <1>10, TimersStayHeld DEF TransmitAnnounce, Return, ControlInv, PmControl
<1>11. CASE TransmitEnter
  BY <1>11, TimersStayHeld DEF TransmitEnter, ControlInv, PmControl
<1>12. CASE TransmitSend
  BY <1>12, TimersStayHeld DEF TransmitSend, Return, ControlInv, PmControl
<1>13. CASE TransmitTimeout
  BY <1>13 DEF TransmitTimeout, Return, SlotTimerInv
<1>14. CASE ReceiveEnter
  BY <1>14, TimersStayHeld DEF ReceiveEnter, ControlInv, PmControl
<1>15. CASE ReceiveMissed
  <2>1. \A h \in TimeoutIds : pool[h] # "free" => pool'[h] # "free"
    BY <1>0, <1>15, ListenKeepsTimers DEF ReceiveMissed, TypeInv, TypeOK
  <2>2. QED
    BY <1>15, <2>1, TimersStayHeld DEF ReceiveMissed, Return, ControlInv, PmControl
<1>16. CASE ReceiveHeardLate
  <2>1. \A h \in TimeoutIds : pool[h] # "free" => pool'[h] # "free"
    BY <1>0, <1>16, ListenKeepsTimers DEF ReceiveHeardLate, TypeInv, TypeOK
  <2>2. QED
    BY <1>16, <2>1, TimersStayHeld DEF ReceiveHeardLate, Return, ControlInv, PmControl
<1>17. CASE ReceiveHeard
  <2>1. \A h \in TimeoutIds : pool[h] # "free" => pool'[h] # "free"
    BY <1>0, <1>17, ListenKeepsTimers DEF ReceiveHeard, TypeInv, TypeOK
  <2>2. QED
    BY <1>17, <2>1, TimersStayHeld DEF ReceiveHeard, Return, ControlInv, PmControl
<1>18. CASE ReceivePacket
  BY <1>18, TimersStayHeld DEF ReceivePacket, ControlInv, PmControl
<1>19. CASE ReceiveEnd
  BY <1>19, TimersStayHeld DEF ReceiveEnd, Return, ControlInv, PmControl
<1>20. QED
  BY <1>1, <1>2, <1>3, <1>4, <1>5, <1>6, <1>7, <1>8, <1>9, <1>10, <1>11, <1>12, <1>13, <1>14, <1>15, <1>16, <1>17, <1>18, <1>19 DEF PowerModeStep

(* The MAC machine hands the timers over: STARTP arms the slot timer, and  *)
(* between its states and those of the PowerMode machine nothing is lost.  *)
LEMMA SlotTimerRest ==
  ASSUME TypeInv, ControlInv, SlotTimerInv,
         MacStep \/ UNCHANGED vars \/ \E id \in TimeoutIds : Fire(id)
  PROVE  SlotTimerInv'
<1> USE DEF SlotRunning, CfRunning, PmPoints, MacPoints, vars, powerVars, pmVars, slotVars,
            activeVars, channelVars, trafficVars, macVars, localVars, netVars, Executing,
            SlotTimerInv, Held, ControlInv, PmControl, PmRequest
<1>1. CASE StartState
  BY <1>1 DEF StartState, Executed
<1>2. CASE MacUpdate
  BY <1>2 DEF MacUpdate
<1>3. CASE InitEnter
  BY <1>3 DEF InitEnter
<1>4. CASE InitAlone
  BY <1>4 DEF InitAlone, InitLeave, Executed
<1>5. CASE InitFound
  BY <1>5 DEF InitFound, InitLeave, Executed
<1>6. CASE SyncFirst
  BY <1>6 DEF SyncFirst, Executed
<1>7. CASE SyncEnter
  BY <1>7 DEF SyncEnter
<1>8. CASE SyncMissed
  BY <1>8 DEF SyncMissed, Failed, Executed
<1>9. CASE SyncHeard
  BY <1>9 DEF SyncHeard, Failed, Executed
<1>10. CASE SyncLoop
  BY <1>10 DEF SyncLoop
<1>11. CASE SyncEnd
  BY <1>11 DEF SyncEnd, Executed
<1>12. CASE TimeslotFirst
  BY <1>12 DEF TimeslotFirst, Executed
<1>13. CASE TimeslotSelect
  BY <1>13 DEF TimeslotSelect, Failed, Executed
<1>14. CASE TimeslotWait
  BY <1>14 DEF TimeslotWait, Executed
<1>15. CASE MaEnter
  BY <1>15 DEF MaEnter, StartP, PmUpdated, PmAllowed
<1>16. CASE MaContinue
  BY <1>16 DEF MaContinue, PmUpdated, PmAllowed
<1>17. CASE MaRecordCollision
  BY <1>17 DEF MaRecordCollision
<1>18. CASE MaLeave
  BY <1>18 DEF MaLeave, Executed
<1>19. CASE \E id \in TimeoutIds : Fire(id)
  <2>1. PICK id \in TimeoutIds : Fire(id)
    BY <1>19
  <2>2. \A h \in TimeoutIds : pool[h] # "free" => pool'[h] # "free"
    <3>1. pool \in Pools /\ id \in Handles
      BY ErrorIsNoTimeout DEF TypeInv, TypeOK
    <3>2. /\ \A h \in TimeoutIds \ {id} : AfterPass(pool, id)[h] = pool[h]
          /\ AfterPass(pool, id)[id] = "passed"
      BY <3>1, PoolClosed
    <3>3. QED
      BY <2>1, <3>2 DEF Fire
  <2>3. QED
    BY <2>1, <2>2, TimersStayHeld DEF Fire
<1>20. CASE UNCHANGED vars
  BY <1>20
<1>21. QED
  BY <1>1, <1>2, <1>3, <1>4, <1>5, <1>6, <1>7, <1>8, <1>9, <1>10, <1>11, <1>12, <1>13, <1>14, <1>15, <1>16, <1>17, <1>18, <1>19, <1>20 DEF MacStep

(* While a node is in a slot, it holds the slot timer that ends it: a      *)
(* PASSIVE that re-arms it never fails, for a pool of any size.            *)
THEOREM SlotTimerIsHeld == Spec => []SlotTimerHeld
<1>1. Init => SlotTimerInv
  BY DEF Init, SlotTimerInv, SlotRunning, CfRunning, PmPoints
<1>2. TypeInv /\ ControlInv /\ SlotTimerInv /\ [Next]_vars => SlotTimerInv'
  BY SlotTimerPowerMode, SlotTimerRest DEF Next, Thread
<1>3. SlotTimerInv => SlotTimerHeld
  BY DEF SlotTimerInv, SlotTimerHeld, SlotRunning, CfRunning
<1>4. QED
  BY <1>1, <1>2, <1>3, TypeInvariant, ControlInvariant, PTL DEF Spec
=============================================================================
