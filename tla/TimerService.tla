--------------------------- MODULE TimerService ---------------------------
(***************************************************************************)
(* The service that utils/timeouts.c offers, as a specification: a pool in *)
(* which timeouts are set and unset by the caller and pass on their own.   *)
(* The node's machines are written against the operations of this pool;    *)
(* Timeouts shows that the implementation provides it.                     *)
(***************************************************************************)
EXTENDS TimerPool

VARIABLE pool

Init == pool = EmptyPool

(* timeout_set, which may fail and then changes nothing.                   *)
Set ==
  \E id \in Handles : TimeoutSet(pool, TRUE, id) /\ pool' = AfterSet(pool, id)

Unset ==
  \E id \in TimeoutIds : pool' = AfterUnset(pool, id)

(* The timeouts that are due pass; one signal may mark several.            *)
Pass ==
  \E due \in SUBSET {id \in TimeoutIds : CanPass(pool, id)} :
    pool' = [id \in TimeoutIds |-> IF id \in due THEN "passed" ELSE pool[id]]

Next == Set \/ Unset \/ Pass

Spec == Init /\ [][Next]_pool
=============================================================================
