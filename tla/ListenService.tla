---------------------------- MODULE ListenService -------------------------
(***************************************************************************)
(* A listen for a control packet as the state machines see it: one step    *)
(* with one result, after which the pool of timeouts is one of those that  *)
(* Listens describes.                                                      *)
(***************************************************************************)
EXTENDS Listens

VARIABLES
  pool,      \* the timeouts
  positive,  \* is 5% of the slot duration a positive delay?
  ret        \* what the last listen returned

Init ==
  /\ pool \in Pools
  /\ positive \in BOOLEAN
  /\ ret = FALSE

(* The timeout that a listen leaves behind may have passed meanwhile.      *)
Listened ==
  \E heard \in BOOLEAN : \E q \in AfterListen(pool, positive, heard) :
    /\ ret' = heard
    /\ \/ pool' = q
       \/ \E id \in TimeoutIds :
            pool[id] = "free" /\ CanPass(q, id) /\ pool' = AfterPass(q, id)
    /\ UNCHANGED positive

Fire ==
  /\ \E id \in TimeoutIds : CanPass(pool, id) /\ pool' = AfterPass(pool, id)
  /\ UNCHANGED <<positive, ret>>

Next == Listened \/ Fire

Spec == Init /\ [][Next]_<<pool, positive, ret>>
=============================================================================
