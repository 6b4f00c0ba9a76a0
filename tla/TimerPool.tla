----------------------------- MODULE TimerPool ----------------------------
(***************************************************************************)
(* What utils/timeouts.c promises to its callers: a fixed pool of one-shot *)
(* timeouts.  A caller claims the lowest free entry, asks whether it has   *)
(* passed, and gives it back; an armed entry passes at some later moment.  *)
(* These are the operations as functions of the pool; TimerService makes   *)
(* them a specification, and the MAC modules call them.                    *)
(***************************************************************************)
EXTENDS Naturals

CONSTANT TIMEOUTS     \* size of the pool; 20 in utils/include/timeouts.h

ASSUME TimeoutsAssumption == TIMEOUTS \in Nat \ {0}

TimeoutIds == 0 .. TIMEOUTS - 1

(* The number timeout_set returns when it cannot set a timeout.            *)
TIMEOUT_SET_ERROR == TIMEOUTS + 1

Handles == TimeoutIds \cup {TIMEOUT_SET_ERROR}

Status == {"free", "armed", "passed"}

Pools == [TimeoutIds -> Status]

EmptyPool == [i \in TimeoutIds |-> "free"]

FreeIds(p) == {i \in TimeoutIds : p[i] = "free"}

-----------------------------------------------------------------------------
(* timeout_set(seconds) may return id: the lowest free entry, or the error *)
(* number when the delay is not positive or no entry is free.              *)
TimeoutSet(p, positive, id) ==
  IF positive /\ FreeIds(p) # {}
    THEN id \in FreeIds(p) /\ \A j \in FreeIds(p) : id <= j
    ELSE id = TIMEOUT_SET_ERROR

(* The pool after timeout_set has returned id.                             *)
AfterSet(p, id) ==
  IF id \in TimeoutIds THEN [p EXCEPT ![id] = "armed"] ELSE p

(* The pool after timeout_unset(id); an invalid number changes nothing.    *)
AfterUnset(p, id) ==
  IF id \in TimeoutIds THEN [p EXCEPT ![id] = "free"] ELSE p

(* The value of timeout_passed(id): 1 passed, 0 not yet, 2 for a number    *)
(* that is invalid or not in use.                                          *)
TimeoutPassed(p, id) ==
  IF id \in TimeoutIds
    THEN CASE p[id] = "passed" -> 1
           [] p[id] = "armed"  -> 0
           [] p[id] = "free"   -> 2
    ELSE 2

(* The signal handler marks an armed entry.                                *)
CanPass(p, id) == id \in TimeoutIds /\ p[id] = "armed"

AfterPass(p, id) == [p EXCEPT ![id] = "passed"]
=============================================================================
