--------------------------- MODULE TimeoutsProofs -------------------------
(***************************************************************************)
(* Proofs about the timeouts, for every size of the pool, every delay and  *)
(* however long a timeout_set is held up.                                  *)
(***************************************************************************)
EXTENDS TimeoutsProperties, TLAPS

(* An entry is used without being armed only while timeout_set claims it,  *)
(* and then it was the lowest unused one.                                  *)
Claiming ==
  /\ pc = "arm" => /\ id \in TimeoutIds
                   /\ bits[id] = {"USED"}
                   /\ \A j \in TimeoutIds : j < id => Used(j)
  /\ \A i \in TimeoutIds : Used(i) /\ "ARMED" \notin bits[i] => pc = "arm" /\ i = id

(* The computation of next ends with the last entry.                       *)
Scanning == pc = "scan" => at < TIMEOUTS

(* The inductive invariant.                                                *)
IInv == TimeoutsTypeOK /\ Claiming /\ Scanning

-----------------------------------------------------------------------------
LEMMA IdsAreNat ==
  /\ TimeoutIds \subseteq Nat
  /\ TIMEOUTS \in Nat \ {0}
  /\ TimeoutIds \subseteq Handles
  /\ TIMEOUT_SET_ERROR \in Handles
BY TimeoutsAssumption DEF TimeoutIds, Handles

LEMMA InitInvariant == Init => IInv
<1> SUFFICES ASSUME Init PROVE IInv
  OBVIOUS
<1>1. TimeoutsTypeOK
  <2>1. 0 \in Overdue .. MAX_DELAY /\ 0 \in 0 .. MAX_DELAY /\ 0 \in 0 .. MAX_STALL
    BY TimeoutsClockAssumption DEF Overdue
  <2>2. left \in [TimeoutIds -> Overdue .. MAX_DELAY]
    BY <2>1 DEF Init
  <2>3. bits \in [TimeoutIds -> SUBSET {"USED", "ARMED", "PASSED"}]
    BY DEF Init
  <2>4. os \in {OFF} \cup 0 .. MAX_DELAY /\ at \in 0 .. TIMEOUTS
    BY IdsAreNat DEF Init
  <2> QED
    BY <2>1, <2>2, <2>3, <2>4, IdsAreNat DEF Init, TimeoutsTypeOK
<1>2. Claiming
  BY DEF Init, Claiming, Used
<1>3. Scanning
  BY DEF Init, Scanning
<1> QED
  BY <1>1, <1>2, <1>3 DEF IInv

LEMMA NextInvariant == IInv /\ [Next]_vars => IInv'
<1> SUFFICES ASSUME IInv, [Next]_vars PROVE IInv'
  OBVIOUS
<1> USE TimeoutsAssumption, TimeoutsClockAssumption, IdsAreNat
    DEF IInv, TimeoutsTypeOK
<1>1. CASE SetBegin
  BY <1>1 DEF SetBegin, Claiming, Scanning, Used
<1>2. CASE SetClaim
  <2>1. PICK i \in TimeoutIds :
          /\ ~Used(i) /\ \A j \in TimeoutIds : ~Used(j) => i <= j
          /\ bits' = [bits EXCEPT ![i] = {"USED"}]
          /\ id' = i
    BY <1>2 DEF SetClaim, Claimed
  <2>2. TimeoutsTypeOK'
    BY <1>2, <2>1 DEF SetClaim
  <2>3. \A j \in TimeoutIds : j # i => bits'[j] = bits[j]
    BY <2>1
  <2>4. Claiming'
    BY <1>2, <2>1, <2>3 DEF SetClaim, Claiming, Used
  <2> QED
    BY <1>2, <2>2, <2>4 DEF SetClaim, Scanning
<1>3. CASE SetFail
  BY <1>3 DEF SetFail, Claiming, Scanning, Used
<1>4. CASE SetArm
  <2>1. id \in TimeoutIds /\ bits[id] = {"USED"}
    BY <1>4 DEF SetArm, Claiming
  <2>2. seconds - age \in Overdue .. MAX_DELAY
    BY DEF Overdue
  <2>3. bits' = [bits EXCEPT ![id] = {"USED", "ARMED"}]
    BY <1>4, <2>1 DEF SetArm
  <2>4. TimeoutsTypeOK'
    BY <1>4, <2>1, <2>2, <2>3 DEF SetArm
  <2>5. Claiming'
    BY <1>4, <2>1, <2>3 DEF SetArm, Claiming, Used
  <2> QED
    BY <1>4, <2>4, <2>5 DEF SetArm, Scanning
<1>5. CASE SetScan
  <2>1. at \in TimeoutIds /\ at' \in 0 .. TIMEOUTS
    BY <1>5 DEF SetScan, Scanning, TimeoutIds
  <2>2. left[at] + age \in Int
    BY <2>1 DEF Overdue
  <2>3. next' \in 0 .. MAX_DELAY
    BY <1>5, <2>2 DEF SetScan, IsSooner
  <2>4. TimeoutsTypeOK'
    BY <1>5, <2>1, <2>3 DEF SetScan
  <2> QED
    BY <1>5, <2>1, <2>4 DEF SetScan, Claiming, Scanning, Used
<1>6. CASE SetTime
  BY <1>6 DEF SetTime, Claiming, Scanning, Used, OFF
<1>7. CASE Unset
  <2>1. PICK i \in TimeoutIds : bits' = [bits EXCEPT ![i] = @ \cap {"PASSED"}]
    BY <1>7 DEF Unset
  <2>2. TimeoutsTypeOK'
    BY <1>7, <2>1 DEF Unset, callVars
  <2>3. ~Used(i)' /\ \A j \in TimeoutIds : j # i => bits'[j] = bits[j]
    BY <2>1 DEF Used
  <2> QED
    BY <1>7, <2>2, <2>3 DEF Unset, callVars, Claiming, Scanning, Used
<1>8. CASE Expire
  BY <1>8 DEF Expire, callVars, Claiming, Scanning, Used, OFF
<1>9. CASE Handler
  <2>1. \A i \in TimeoutIds :
          bits'[i] = bits[i] \/ (bits[i] = {"USED", "ARMED"}
                                 /\ bits'[i] = {"USED", "ARMED", "PASSED"})
    BY <1>9 DEF Handler, Pending
  <2>2. bits' \in [TimeoutIds -> SUBSET {"USED", "ARMED", "PASSED"}]
    BY <1>9, <2>1 DEF Handler
  <2>3. os' \in {OFF} \cup 0 .. MAX_DELAY
    BY <1>9 DEF Handler, Rest, Pending, Overdue
  <2>4. TimeoutsTypeOK'
    BY <1>9, <2>2, <2>3 DEF Handler, callVars
  <2> QED
    BY <1>9, <2>1, <2>4 DEF Handler, callVars, Claiming, Scanning, Used
<1>10. CASE Tick
  <2>1. left' \in [TimeoutIds -> Overdue .. MAX_DELAY]
    BY <1>10 DEF Tick, Overdue
  <2>2. os' \in {OFF} \cup 0 .. MAX_DELAY
    BY <1>10 DEF Tick, OFF
  <2>3. TimeoutsTypeOK'
    BY <1>10, <2>1, <2>2 DEF Tick
  <2> QED
    BY <1>10, <2>3 DEF Tick, Claiming, Scanning, Used
<1>11. CASE UNCHANGED vars
  BY <1>11 DEF vars, callVars, Claiming, Scanning, Used
<1> QED
  BY <1>1, <1>2, <1>3, <1>4, <1>5, <1>6, <1>7, <1>8, <1>9, <1>10, <1>11 DEF Next, SetStep

LEMMA Invariant == Spec => []IInv
BY InitInvariant, NextInvariant, PTL DEF Spec

(* Whatever interrupts what, the variables keep their types: the delay for *)
(* which timeout_set arms the OS timer is never negative, in particular.   *)
THEOREM TimeoutsTypeCorrect == Spec => []TimeoutsTypeOK
<1>1. IInv => TimeoutsTypeOK
  BY DEF IInv
<1> QED
  BY <1>1, Invariant, PTL

-----------------------------------------------------------------------------
(* What is marked as passed stays overdue until it is released.            *)
LEMMA NeverEarlyPreserved == IInv /\ NeverEarly /\ [Next]_vars => NeverEarly'
<1> SUFFICES ASSUME IInv, NeverEarly, [Next]_vars,
                    NEW i \in TimeoutIds, View'[i] = "passed"
             PROVE  left'[i] <= 0
  BY DEF NeverEarly
<1> USE DEF IInv, TimeoutsTypeOK
<1>1. {"USED", "ARMED", "PASSED"} \subseteq bits'[i]
  BY DEF View
<1>2. CASE UNCHANGED <<bits, left>>
  BY <1>1, <1>2 DEF NeverEarly, View
<1>3. CASE SetClaim
  BY <1>1, <1>3 DEF SetClaim, Claimed, NeverEarly, View
<1>4. CASE SetArm
  BY <1>1, <1>4 DEF SetArm, Claiming, NeverEarly, View
<1>5. CASE Unset
  BY <1>1, <1>5 DEF Unset, NeverEarly, View
<1>6. CASE Handler
  <2>1. bits'[i] = bits[i] \/ left[i] <= 0
    BY <1>6 DEF Handler, DueIn
  <2> QED
    BY <1>1, <1>6, <2>1 DEF Handler, NeverEarly, View
<1>7. CASE Tick
  <2>1. left[i] <= 0
    BY <1>1, <1>7 DEF Tick, NeverEarly, View
  <2>2. left'[i] \in {Overdue, left[i] - 1}
    BY <1>7 DEF Tick
  <2> QED
    BY <2>1, <2>2, TimeoutsClockAssumption DEF Overdue
<1> QED
  BY <1>2, <1>3, <1>4, <1>5, <1>6, <1>7
  DEF Next, SetStep, SetBegin, SetFail, SetScan, SetTime, Expire, callVars, vars

(* timeout_passed never answers 1 before the delay that was asked for is   *)
(* over, not even when an entry that had passed is handed out again.       *)
THEOREM PassedIsDue == Spec => []NeverEarly
<1>1. Init => NeverEarly
  BY DEF Init, NeverEarly, View
<1> QED
  BY <1>1, NeverEarlyPreserved, Invariant, PTL DEF Spec

-----------------------------------------------------------------------------
(* When timeout_set begins, or has not armed anything yet, nothing but the *)
(* OS timer or its signal looks after the timeouts that are armed already. *)
LookedAfter == Pending # {} => os # OFF \/ signal \/ pc \in {"scan", "settime"}

(* On RIOT, where a delay of zero expires at once.                         *)
LEMMA LookedAfterPreserved ==
  ASSUME ZERO_DISARMS = FALSE
  PROVE  IInv /\ LookedAfter /\ [Next]_vars => LookedAfter'
<1> SUFFICES ASSUME IInv, LookedAfter, [Next]_vars,
                    Pending' # {}, pc' \notin {"scan", "settime"}, ~signal'
             PROVE  os' # OFF
  BY DEF LookedAfter
<1> USE DEF IInv, TimeoutsTypeOK, OFF
<1>1. CASE SetTime
  BY <1>1 DEF SetTime
<1>2. CASE UNCHANGED <<bits, os, signal>> /\ ~SetTime
  <2>1. Pending' = Pending
    BY <1>2 DEF Pending
  <2>2. pc \notin {"scan", "settime"}
    BY <1>2 DEF Next, SetStep, SetBegin, SetClaim, SetFail, SetArm, SetScan, Unset,
                Expire, Handler, Tick, callVars, vars
  <2> QED
    BY <1>2, <2>1, <2>2 DEF LookedAfter
<1>3. CASE SetClaim
  <2>1. Pending' \subseteq Pending
    BY <1>3 DEF SetClaim, Claimed, Pending
  <2> QED
    BY <1>3, <2>1 DEF SetClaim, LookedAfter
<1>4. CASE Unset
  <2>1. Pending' \subseteq Pending
    BY <1>4 DEF Unset, Pending
  <2> QED
    BY <1>4, <2>1 DEF Unset, callVars, LookedAfter
<1>5. CASE Handler
  <2>1. PICK i \in TimeoutIds : i \in Pending'
    BY DEF Pending
  <2>2. bits'[i] = bits[i] /\ i \in Pending /\ ~DueIn(i)
    BY <1>5, <2>1 DEF Handler, Pending
  <2>3. i \in Rest /\ left[i] > 0
    BY <2>2, TimeoutsClockAssumption DEF Rest, DueIn, Overdue
  <2> QED
    BY <1>5, <2>3, TimeoutsClockAssumption DEF Handler, Rest, Pending, Overdue
<1>6. CASE Tick
  <2>1. Pending' = Pending
    BY <1>6 DEF Tick, Pending
  <2> QED
    BY <1>6, <2>1 DEF Tick, LookedAfter
<1> QED
  BY <1>1, <1>2, <1>3, <1>4, <1>5, <1>6
  DEF Next, SetStep, SetBegin, SetFail, SetArm, SetScan, Expire, callVars, vars

(* On RIOT no armed timeout is left without an OS timer, however the       *)
(* handler interrupts timeout_set.                                         *)
THEOREM NoneIsForgotten ==
  ASSUME ZERO_DISARMS = FALSE
  PROVE  Spec => []NoneForgotten
<1>1. Init => LookedAfter
  BY DEF Init, LookedAfter, Pending
<1>2. LookedAfter => NoneForgotten
  BY DEF LookedAfter, NoneForgotten
<1> QED
  BY <1>1, <1>2, LookedAfterPreserved, Invariant, PTL DEF Spec

-----------------------------------------------------------------------------
(* The operations of the service, instantiated, are those of TimerPool.    *)
LEMMA SamePool ==
  /\ Service!TimeoutIds = TimeoutIds
  /\ Service!Handles = Handles
  /\ Service!EmptyPool = EmptyPool
  /\ \A p : Service!FreeIds(p) = FreeIds(p)
  /\ \A p, positive, h : Service!TimeoutSet(p, positive, h) = TimeoutSet(p, positive, h)
  /\ \A p, h : /\ Service!AfterSet(p, h) = AfterSet(p, h)
               /\ Service!AfterUnset(p, h) = AfterUnset(p, h)
               /\ Service!CanPass(p, h) = CanPass(p, h)
BY DEF Service!TimeoutIds, TimeoutIds, Service!TIMEOUT_SET_ERROR, TIMEOUT_SET_ERROR,
       Service!Handles, Handles, Service!EmptyPool, EmptyPool, Service!FreeIds, FreeIds,
       Service!TimeoutSet, TimeoutSet, Service!AfterSet, AfterSet,
       Service!AfterUnset, AfterUnset, Service!CanPass, CanPass

(* Every step is a step of the service, or none.                           *)
LEMMA StepOfService == IInv /\ [Next]_vars => [Service!Next]_View
<1> SUFFICES ASSUME IInv, [Next]_vars PROVE [Service!Next]_View
  OBVIOUS
<1> USE DEF IInv, TimeoutsTypeOK
<1>1. CASE UNCHANGED bits
  BY <1>1 DEF View
<1>2. CASE SetClaim
  BY <1>2 DEF SetClaim, Claimed, Used, View
<1>3. CASE SetArm
  <2>1. /\ id \in TimeoutIds
        /\ bits' = [bits EXCEPT ![id] = {"USED", "ARMED"}]
        /\ bits[id] = {"USED"}
    BY <1>3 DEF SetArm, Claiming
  <2>2. View' = AfterSet(View, id)
    BY <2>1 DEF View, AfterSet
  <2>3. View[id] = "free" /\ \A j \in TimeoutIds : View[j] = "free" => id <= j
    BY <1>3, <2>1, IdsAreNat DEF SetArm, Claiming, View, Used
  <2>4. TimeoutSet(View, TRUE, id)
    BY <2>1, <2>3 DEF TimeoutSet, FreeIds
  <2> QED
    BY <2>1, <2>2, <2>4, IdsAreNat, SamePool DEF Service!Next, Service!Set
<1>4. CASE Unset
  <2>1. PICK i \in TimeoutIds : bits' = [bits EXCEPT ![i] = @ \cap {"PASSED"}]
    BY <1>4 DEF Unset
  <2>2. View' = AfterUnset(View, i)
    BY <2>1 DEF View, AfterUnset
  <2> QED
    BY <2>2, SamePool DEF Service!Next, Service!Unset
<1>5. CASE Handler
  <2> DEFINE due == {i \in TimeoutIds : i \in Pending /\ DueIn(i)}
  <2>1. \A i \in due : CanPass(View, i)
    BY DEF Pending, CanPass, View
  <2>2. View' = [i \in TimeoutIds |-> IF i \in due THEN "passed" ELSE View[i]]
    BY <1>5 DEF Handler, Pending, View
  <2> QED
    BY <2>1, <2>2, SamePool DEF Service!Next, Service!Pass
<1> QED
  BY <1>1, <1>2, <1>3, <1>4, <1>5
  DEF Next, SetStep, SetBegin, SetFail, SetScan, SetTime, Expire, Tick, callVars, vars

(* timeouts.c implements TimerService: what the node's machines assume of  *)
(* the pool holds of the code, wherever the signal interrupts it.          *)
THEOREM Implementation == Spec => ImplementsService
<1>1. Init => Service!Init
  BY SamePool DEF Init, Service!Init, View, EmptyPool
<1> QED
  BY <1>1, StepOfService, Invariant, PTL DEF Spec, ImplementsService, Service!Spec
=============================================================================
