-------------------------- MODULE ReceptionProofs -------------------------
(***************************************************************************)
(* Proofs about hearing a control packet, for packets of any length, any   *)
(* number of timeouts and of byte strings, whether or not chunks are lost. *)
(***************************************************************************)
EXTENDS ReceptionProperties, TLAPS

(* While a listen runs, its timeout is the one that timeout_set would give *)
(* if it were asked now, nobody else has given it back, and without one    *)
(* the rest of a packet is not waited for.                                 *)
ListenTimer ==
  /\ pc # "idle" => /\ TimeoutSet(AfterUnset(pool, timer), positive, timer)
                    /\ timer \in TimeoutIds => pool[timer] # "free"
  /\ pc = "rest" => timer \in TimeoutIds

(* The inductive invariant.  The counters need CountersAgree to stay in    *)
(* their ranges, the byte strings need StringsAccounted.                   *)
IInv ==
  /\ TypeOK /\ CountersAgree /\ StringsAccounted /\ SyncPacketIsFresh /\ ListenTimer

-----------------------------------------------------------------------------
LEMMA IdsAreNat ==
  /\ TimeoutIds \subseteq Nat
  /\ TimeoutIds \subseteq Handles
  /\ TIMEOUT_SET_ERROR \in Handles
  /\ TIMEOUT_SET_ERROR \notin TimeoutIds
  /\ Handles = TimeoutIds \cup {TIMEOUT_SET_ERROR}
BY TimeoutsAssumption DEF TimeoutIds, Handles, TIMEOUT_SET_ERROR

(* The operations keep a pool a pool, and undo each other.                 *)
LEMMA PoolOperations ==
  ASSUME NEW p \in Pools, NEW id \in Handles
  PROVE  /\ AfterSet(p, id) \in Pools
         /\ AfterUnset(p, id) \in Pools
         /\ id \in TimeoutIds => AfterPass(p, id) \in Pools
         /\ (id \in TimeoutIds => p[id] = "free") => AfterUnset(AfterSet(p, id), id) = p
         /\ id \in TimeoutIds /\ p[id] = "armed" => p = AfterSet(AfterUnset(p, id), id)
         /\ id \in TimeoutIds /\ p[id] = "passed"
              => p = AfterPass(AfterSet(AfterUnset(p, id), id), id)
         /\ AfterUnset(AfterUnset(p, id), id) = AfterUnset(p, id)
         /\ id \notin TimeoutIds => AfterUnset(p, id) = p
BY DEF Pools, Status, AfterSet, AfterUnset, AfterPass

LEMMA SetReturnsFree ==
  ASSUME NEW p \in Pools, NEW positive_ \in BOOLEAN, NEW id \in Handles,
         TimeoutSet(p, positive_, id)
  PROVE  id \in TimeoutIds => p[id] = "free"
BY IdsAreNat DEF TimeoutSet, FreeIds

(* A timeout that passes is neither taken nor given back.                  *)
LEMMA PassKeepsOthers ==
  ASSUME NEW p \in Pools, NEW id \in TimeoutIds, CanPass(p, id), NEW t \in Handles
  PROVE  /\ AfterPass(p, id) \in Pools
         /\ t \in TimeoutIds /\ p[t] # "free" => AfterPass(p, id)[t] # "free"
         /\ FreeIds(AfterUnset(AfterPass(p, id), t)) = FreeIds(AfterUnset(p, t))
         /\ t = id => AfterUnset(AfterPass(p, id), t) = AfterUnset(p, t)
         /\ t # id => /\ CanPass(AfterUnset(p, t), id)
                      /\ AfterUnset(AfterPass(p, id), t) = AfterPass(AfterUnset(p, t), id)
BY DEF Pools, Status, AfterPass, AfterUnset, CanPass, FreeIds

-----------------------------------------------------------------------------
LEMMA InitInvariant == Init => IInv
<1> SUFFICES ASSUME Init PROVE IInv
  OBVIOUS
<1> USE ReceptionAssumption, IdsAreNat
<1>1. TypeOK
  <2>1. /\ 0 \in Chunks /\ FOREIGN \in Chunks \cup {FOREIGN}
        /\ 0 \in -1 .. CHUNKS /\ CHUNKS \in 0 .. CHUNKS + 1
        /\ 0 \in 0 .. MAX_STRINGS /\ MAX_STRINGS \in 0 .. MAX_STRINGS
    BY DEF Chunks
  <2>2. buf \in [Chunks -> Chunks \cup {FOREIGN}]
    BY <2>1 DEF Init
  <2> QED
    BY <2>1, <2>2 DEF Init, TypeOK
<1>2. CountersAgree /\ StringsAccounted /\ SyncPacketIsFresh /\ ListenTimer
  BY DEF Init, CountersAgree, StringsAccounted, SyncPacketIsFresh, ListenTimer
<1> QED
  BY <1>1, <1>2 DEF IInv

(* A listen that returns false.                                            *)
LEMMA MissKeeps ==
  ASSUME IInv, Miss, pc # "idle", pool' \in Pools,
         pos' = pos, remaining' = remaining, buf' = buf, air' \in Chunks
  PROVE  IInv'
<1>1. misses' \in 0 .. MAX_STRINGS /\ StringsAccounted'
  BY ReceptionAssumption DEF IInv, TypeOK, StringsAccounted, Miss
<1>2. TypeOK'
  BY <1>1 DEF IInv, TypeOK, Miss
<1>3. CountersAgree' /\ SyncPacketIsFresh' /\ ListenTimer'
  BY DEF IInv, CountersAgree, SyncPacketIsFresh, ListenTimer, Miss
<1> QED
  BY <1>1, <1>2, <1>3 DEF IInv

LEMMA ReadsChunk ==
  ASSUME TypeOK, NEW c, Read(c)
  PROVE  air' \in Chunks /\ c \in Chunks \cup {FOREIGN}
BY ReceptionAssumption DEF TypeOK, Read, Chunks

LEMMA NextInvariant == IInv /\ [Next]_vars => IInv'
<1> SUFFICES ASSUME IInv, [Next]_vars PROVE IInv'
  OBVIOUS
<1> USE ReceptionAssumption, IdsAreNat
<1>0. TypeOK
  BY DEF IInv
<1>1. ASSUME NEW c \in Callers, Listen(c) PROVE IInv'
  <2>1. PICK id \in Handles : /\ TimeoutSet(pool, positive, id)
                              /\ timer' = id
                              /\ pool' = AfterSet(pool, id)
    BY <1>1 DEF Listen
  <2>2. pool' \in Pools /\ AfterUnset(pool', timer') = pool
    BY <1>0, <2>1, PoolOperations, SetReturnsFree DEF TypeOK
  <2>3. timer' \in TimeoutIds => pool'[timer'] # "free"
    BY <1>0, <2>1 DEF TypeOK, AfterSet, Pools
  <2>4. ListenTimer'
    BY <1>1, <2>1, <2>2, <2>3 DEF Listen, ListenTimer
  <2>5. TypeOK'
    BY <1>0, <1>1, <2>1, <2>2 DEF Listen, TypeOK, Chunks, FOREIGN
  <2>6. CountersAgree' /\ StringsAccounted' /\ SyncPacketIsFresh'
    BY <1>0, <1>1 DEF Listen, IInv, TypeOK, CountersAgree, StringsAccounted, SyncPacketIsFresh
  <2> QED
    BY <2>4, <2>5, <2>6 DEF IInv
<1>2. CASE FirstUntimed \/ FirstError \/ RestError
  BY <1>0, <1>2, MissKeeps DEF FirstUntimed, FirstError, RestError, TypeOK
<1>3. CASE FirstRefused
  <2>1. air' \in Chunks
    BY <1>0, <1>3, ReadsChunk DEF FirstRefused
  <2>2. CASE TimeoutPassed(pool, timer) = 1
    <3>1. pool' \in Pools
      BY <1>0, <1>3, <2>2, PoolOperations DEF FirstRefused, Expired, TypeOK
    <3> QED
      BY <1>3, <2>1, <2>2, <3>1, MissKeeps DEF FirstRefused
  <2>3. CASE TimeoutPassed(pool, timer) # 1
    BY <1>3, <2>1, <2>3 DEF FirstRefused, IInv, TypeOK, CountersAgree, StringsAccounted,
       SyncPacketIsFresh, ListenTimer
  <2> QED
    BY <2>2, <2>3
<1>4. CASE FirstHeard
  <2>1. PICK c \in Chunks : TypeOne(c) /\ Read(c) /\ buf' = [buf EXCEPT ![0] = c]
    BY <1>4 DEF FirstHeard
  <2>2. air' \in Chunks /\ buf' \in [Chunks -> Chunks \cup {FOREIGN}]
    BY <1>0, <2>1, ReadsChunk DEF TypeOK
  <2>3. pos = 0 /\ remaining = CHUNKS /\ pos' = -1 /\ remaining' = CHUNKS + 1
    BY <1>0, <1>4 DEF FirstHeard, Counted, IInv, CountersAgree, TypeOK
  <2>4. TypeOK' /\ CountersAgree'
    BY <1>0, <1>4, <2>2, <2>3 DEF FirstHeard, TypeOK, CountersAgree
  <2>5. StringsAccounted' /\ SyncPacketIsFresh' /\ ListenTimer'
    BY <1>0, <1>4 DEF FirstHeard, Untimed, IInv, TypeOK, StringsAccounted, SyncPacketIsFresh,
       ListenTimer
  <2> QED
    BY <2>4, <2>5 DEF IInv
<1>5. CASE RestRead
  <2>1. PICK c \in Chunks \cup {FOREIGN} :
          /\ Read(c)
          /\ buf' = IF pos \in Chunks THEN [buf EXCEPT ![pos] = c] ELSE buf
    BY <1>5 DEF RestRead
  <2>2. air' \in Chunks /\ buf' \in [Chunks -> Chunks \cup {FOREIGN}]
    BY <1>0, <2>1, ReadsChunk DEF TypeOK
  <2>3. /\ pos' = pos + 1 /\ remaining' = remaining - 1
        /\ pos + remaining = CHUNKS /\ pos < CHUNKS /\ pos >= -1
        /\ pos \in Int /\ remaining \in Nat
    BY <1>0, <1>5 DEF RestRead, IInv, CountersAgree, TypeOK
  <2>4. pos' \in -1 .. CHUNKS /\ remaining' \in 0 .. CHUNKS + 1
    BY <2>3
  <2>5. CASE More(remaining')
    <3>1. UNCHANGED <<pc, caller, positive, timer, ones, fresh, strings, misses, ret, pool>>
      BY <1>5, <2>5 DEF RestRead
    <3>2. TypeOK' /\ CountersAgree'
      BY <1>0, <1>5, <2>2, <2>3, <2>4, <2>5, <3>1 DEF RestRead, TypeOK, CountersAgree, More
    <3> QED
      BY <1>5, <3>1, <3>2 DEF RestRead, IInv, StringsAccounted, SyncPacketIsFresh, ListenTimer
  <2>6. CASE ~More(remaining')
    <3>1. Finish(buf') /\ UNCHANGED pool
      BY <1>5, <2>6 DEF RestRead
    <3>2. pc' = "idle" /\ pos' + remaining' = CHUNKS
      BY <2>3, <3>1 DEF Finish, Miss
    <3>3. CASE Accepted(buf')
      <4>1. /\ ret' = TRUE /\ fresh' = TypeOne(buf'[0]) /\ strings' = strings + 1
            /\ UNCHANGED <<caller, positive, timer, ones, misses>>
        BY <3>1, <3>3 DEF Finish, Freed
      <4>2. strings' \in 0 .. MAX_STRINGS /\ StringsAccounted'
        BY <1>0, <1>5, <3>2, <4>1 DEF RestRead, IInv, TypeOK, StringsAccounted
      <4>3. fresh' \in BOOLEAN
        BY <4>1 DEF TypeOne
      <4>4. TypeOK'
        BY <1>0, <2>2, <2>4, <3>1, <3>2, <4>1, <4>2, <4>3 DEF TypeOK
      <4>5. SyncPacketIsFresh'
        BY <3>3, <4>1 DEF SyncPacketIsFresh, Accepted, TypeOne
      <4> QED
        BY <3>2, <4>2, <4>4, <4>5 DEF IInv, CountersAgree, ListenTimer
    <3>4. CASE ~Accepted(buf')
      <4>1. Miss
        BY <3>1, <3>4 DEF Finish
      <4>2. misses' \in 0 .. MAX_STRINGS /\ StringsAccounted'
        BY <1>0, <1>5, <4>1 DEF RestRead, IInv, TypeOK, StringsAccounted, Miss
      <4>3. TypeOK'
        BY <1>0, <2>2, <2>4, <3>1, <4>1, <4>2 DEF TypeOK, Miss
      <4> QED
        BY <3>2, <4>1, <4>2, <4>3 DEF IInv, CountersAgree, SyncPacketIsFresh, ListenTimer, Miss
    <3> QED
      BY <3>3, <3>4
  <2> QED
    BY <2>5, <2>6
<1>6. CASE Lose
  <2>1. air' \in Chunks
    BY <1>0, <1>6 DEF Lose, TypeOK, Chunks
  <2> QED
    BY <1>6, <2>1 DEF Lose, IInv, TypeOK, CountersAgree, StringsAccounted, SyncPacketIsFresh,
       TypeOne, ListenTimer
<1>7. ASSUME NEW id \in TimeoutIds, Fire(id) PROVE IInv'
  <2>1. CanPass(pool, id) /\ pool' = AfterPass(pool, id) /\ timer' = timer /\ positive' = positive
    BY <1>7 DEF Fire
  <2>2. /\ pool' \in Pools
        /\ timer \in TimeoutIds /\ pool[timer] # "free" => pool'[timer] # "free"
        /\ FreeIds(AfterUnset(pool', timer)) = FreeIds(AfterUnset(pool, timer))
    BY <1>0, <2>1, PassKeepsOthers DEF TypeOK
  <2>3. ListenTimer'
    BY <1>7, <2>1, <2>2 DEF Fire, IInv, ListenTimer, TimeoutSet
  <2> QED
    BY <1>7, <2>2, <2>3 DEF Fire, IInv, TypeOK, CountersAgree, StringsAccounted,
       SyncPacketIsFresh, TypeOne
<1>8. CASE UNCHANGED vars
  BY <1>8 DEF vars, IInv, TypeOK, CountersAgree, StringsAccounted, SyncPacketIsFresh, TypeOne,
     ListenTimer
<1> QED
  BY <1>1, <1>2, <1>3, <1>4, <1>5, <1>6, <1>7, <1>8 DEF Next, Receiver

LEMMA Invariant == Spec => []IInv
BY InitInvariant, NextInvariant, PTL DEF Spec

-----------------------------------------------------------------------------
(* Every variable keeps its type.                                          *)
THEOREM TypeCorrect == Spec => []TypeOK
<1>1. IInv => TypeOK
  BY DEF IInv
<1> QED
  BY <1>1, Invariant, PTL

(* With the two counters passed in each other's place the code still       *)
(* writes nothing behind its buffer, and stops (Packets_Handlers.c 166-168,*)
(* 206-209): pos + remaining_bytes is always the size of a packet.         *)
THEOREM CountersAlwaysAgree == Spec => []CountersAgree
<1>1. IInv => CountersAgree
  BY DEF IInv
<1> QED
  BY <1>1, Invariant, PTL

(* A byte string is lost by each listen that fails and by no other.        *)
THEOREM StringsAlwaysAccounted == Spec => []StringsAccounted
<1>1. IInv => StringsAccounted
  BY DEF IInv
<1> QED
  BY <1>1, Invariant, PTL

(* Whatever is lost or heard in between, a synchronising node takes no     *)
(* packet that was not constructed by the listen that returned true.       *)
THEOREM SyncPacketAlwaysFresh == Spec => []SyncPacketIsFresh
<1>1. IInv => SyncPacketIsFresh
  BY DEF IInv
<1> QED
  BY <1>1, Invariant, PTL

-----------------------------------------------------------------------------
(* The operations of the service, instantiated, are those of Listens.      *)
LEMMA SameListens ==
  /\ Service!TimeoutIds = TimeoutIds
  /\ Service!Pools = Pools
  /\ \A p, h : /\ Service!CanPass(p, h) = CanPass(p, h)
               /\ Service!AfterPass(p, h) = AfterPass(p, h)
  /\ \A p, b, h : Service!AfterListen(p, b, h) = AfterListen(p, b, h)
BY DEF Service!TimeoutIds, TimeoutIds, Service!Pools, Pools, Service!Status, Status,
       Service!CanPass, CanPass, Service!AfterPass, AfterPass,
       Service!AfterListen, AfterListen, Service!TIMEOUT_SET_ERROR, TIMEOUT_SET_ERROR,
       Service!Handles, Handles, Service!TimeoutSet, TimeoutSet, Service!FreeIds, FreeIds,
       Service!AfterSet, AfterSet

(* The pool without the timeout of a listen that is going on.              *)
Outside == IF pc # "idle" THEN AfterUnset(pool, timer) ELSE pool

(* A listen that ends with its timeout still set is one step of the        *)
(* service, heard or not.                                                  *)
LEMMA EndsWithTimer ==
  ASSUME IInv, pc # "idle", timer \in TimeoutIds, pool' = pool, pc' = "idle",
         positive' = positive, ret' \in BOOLEAN
  PROVE  Service!Listened
<1> DEFINE p == AfterUnset(pool, timer)
           q == AfterSet(p, timer)
<1>1. /\ pool \in Pools /\ timer \in Handles
      /\ TimeoutSet(p, positive, timer) /\ pool[timer] # "free"
  BY DEF IInv, TypeOK, ListenTimer
<1>2. q \in AfterListen(p, positive, ret')
  BY <1>1, ReceptionAssumption, IdsAreNat DEF AfterListen
<1>3. p[timer] = "free" /\ CanPass(q, timer)
  BY <1>1 DEF AfterUnset, AfterSet, CanPass, Pools
<1>4. pool = q \/ pool = AfterPass(q, timer)
  BY <1>1, PoolOperations DEF Pools, Status
<1>5. Outside = p /\ Outside' = pool
  BY DEF Outside
<1> QED
  BY <1>2, <1>3, <1>4, <1>5, SameListens DEF Service!Listened, Outside

(* A listen that ends with its timeout given back, or without one, is a    *)
(* step of the service that hears nothing.                                 *)
LEMMA EndsWithoutTimer ==
  ASSUME IInv, pc # "idle", pool' = AfterUnset(pool, timer), pc' = "idle",
         positive' = positive, ret' = FALSE
  PROVE  Service!Listened
<1> DEFINE p == AfterUnset(pool, timer)
<1>1. timer \in Handles /\ TimeoutSet(p, positive, timer)
  BY DEF IInv, TypeOK, ListenTimer
<1>2. p \in AfterListen(p, positive, FALSE)
  BY <1>1, ReceptionAssumption, IdsAreNat DEF AfterListen
<1>3. Outside = p /\ Outside' = p
  BY DEF Outside
<1> QED
  BY <1>2, <1>3, SameListens DEF Service!Listened, Outside

(* Every step is a step of the service, or none.                           *)
LEMMA StepOfService ==
  IInv /\ [Next]_vars => [Service!Next]_<<Outside, positive, ret>>
<1> SUFFICES ASSUME IInv, [Next]_vars PROVE [Service!Next]_<<Outside, positive, ret>>
  OBVIOUS
<1>0. pool \in Pools /\ timer \in Handles
  BY DEF IInv, TypeOK
<1>1. ASSUME NEW c \in Callers, Listen(c) PROVE UNCHANGED <<Outside, positive, ret>>
  <2>1. PICK id \in Handles : /\ TimeoutSet(pool, positive, id)
                              /\ timer' = id
                              /\ pool' = AfterSet(pool, id)
    BY <1>1 DEF Listen
  <2>2. positive \in BOOLEAN
    BY DEF IInv, TypeOK
  <2>3. AfterUnset(pool', timer') = pool
    BY <1>0, <2>1, <2>2, PoolOperations, SetReturnsFree
  <2> QED
    BY <1>1, <2>3 DEF Listen, Outside
<1>2. CASE FirstUntimed
  <2>1. pool' = AfterUnset(pool, timer)
    BY <1>0, <1>2, IdsAreNat, PoolOperations DEF FirstUntimed, Untimed
  <2> QED
    BY <1>2, <2>1, EndsWithoutTimer DEF FirstUntimed, Miss, Service!Next
<1>3. CASE FirstError \/ RestError
  <2>1. timer \in TimeoutIds
    BY <1>0, <1>3, IdsAreNat DEF FirstError, RestError, Untimed, IInv, ListenTimer
  <2> QED
    BY <1>3, <2>1, EndsWithTimer DEF FirstError, RestError, Miss, Service!Next
<1>4. CASE FirstRefused
  <2>1. CASE TimeoutPassed(pool, timer) = 1
    BY <1>4, <2>1, EndsWithoutTimer DEF FirstRefused, Expired, Miss, Service!Next
  <2>2. CASE TimeoutPassed(pool, timer) # 1
    BY <1>4, <2>2 DEF FirstRefused, Outside
  <2> QED
    BY <2>1, <2>2
<1>5. CASE FirstHeard
  BY <1>5 DEF FirstHeard, Outside
<1>6. CASE RestRead
  <2>1. CASE More(remaining')
    BY <1>6, <2>1 DEF RestRead, Outside
  <2>2. CASE ~More(remaining')
    <3>1. timer \in TimeoutIds
      BY <1>6 DEF RestRead, IInv, ListenTimer
    <3>2. pc' = "idle" /\ positive' = positive /\ ret' \in BOOLEAN /\ pool' = pool
      BY <1>6, <2>2 DEF RestRead, Finish, Miss
    <3> QED
      BY <1>6, <3>1, <3>2, EndsWithTimer DEF RestRead, Service!Next
  <2> QED
    BY <2>1, <2>2
<1>7. CASE Lose \/ UNCHANGED vars
  BY <1>7 DEF Lose, vars, Outside
<1>8. ASSUME NEW id \in TimeoutIds, Fire(id) PROVE [Service!Next]_<<Outside, positive, ret>>
  <2>1. /\ CanPass(pool, id) /\ pool' = AfterPass(pool, id)
        /\ UNCHANGED <<pc, timer, positive, ret>>
    BY <1>8 DEF Fire
  <2>2. CASE pc # "idle" /\ timer = id
    BY <1>0, <2>1, <2>2, PassKeepsOthers DEF Outside
  <2>3. CASE ~(pc # "idle" /\ timer = id)
    <3>1. CanPass(Outside, id) /\ Outside' = AfterPass(Outside, id)
      BY <1>0, <2>1, <2>3, PassKeepsOthers DEF Outside
    <3> QED
      BY <2>1, <3>1, SameListens DEF Service!Next, Service!Fire, Outside
  <2> QED
    BY <2>2, <2>3
<1> QED
  BY <1>1, <1>2, <1>3, <1>4, <1>5, <1>6, <1>7, <1>8 DEF Next, Receiver

(* The loops of the radio code do to the timeouts what the state machines  *)
(* of MacNode take a listen to do in one step.                             *)
THEOREM Implementation == Spec => ImplementsListenService
<1>1. Init => Service!Init
  BY SameListens DEF Init, Service!Init
<1> QED
  BY <1>1, StepOfService, Invariant, PTL
  DEF Spec, ImplementsListenService, Service!Spec, Outside
=============================================================================
