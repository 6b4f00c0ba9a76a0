------------------------------ MODULE Timeouts ----------------------------
(***************************************************************************)
(* utils/timeouts.c: many timeouts behind one timer of the operating       *)
(* system.  timeout_set claims an entry, computes how long it is to the    *)
(* next timeout and arms the OS timer for it; when the OS timer expires,   *)
(* the handler marks what is due and arms the OS timer for the rest.  The  *)
(* handler interrupts the thread, so it may run between any two steps of   *)
(* timeout_set; the two settings of the OS timer overwrite each other.     *)
(*                                                                         *)
(* Time is kept as distances from the present: left[i] is timeout_time[i]  *)
(* minus the clock, os is the OS timer's remaining time.                   *)
(***************************************************************************)
EXTENDS TimerPool, Integers

CONSTANTS
  MAX_DELAY,     \* bound on the delays that are asked for, in ticks
  MAX_STALL,     \* bound on the ticks that pass during one timeout_set
  ZERO_DISARMS   \* what a delay of zero does to the OS timer: on Linux it is
                 \* disarmed, on RIOT it expires at once

ASSUME TimeoutsClockAssumption ==
  /\ MAX_DELAY \in Nat \ {0}
  /\ MAX_STALL \in Nat
  /\ ZERO_DISARMS \in BOOLEAN

VARIABLES
  bits,          \* timeouts.timeout_state[]
  left,          \* timeouts.timeout_time[] - clock
  os,            \* remaining time of timeouts.timeout_timer, or OFF
  signal,        \* has the OS timer expired and the handler not run yet?
  pc,            \* where the thread is in timeout_set; "idle" when outside
  id,            \* local timeout of timeout_set, and its result
  seconds,       \* its parameter
  age,           \* clock - now, with its local now
  next,          \* its local next
  at             \* its local i, while it computes next

callVars == <<pc, id, seconds, age, next, at>>
vars == <<bits, left, os, signal, callVars>>

OFF == -1

(* An overdue timeout is the same however long it has been overdue, as     *)
(* long as it was overdue when timeout_set looked at the clock.            *)
Overdue == -(MAX_STALL + 1)

Used(i) == "USED" \in bits[i]

(* What both scans look for: used and armed, but not passed yet.           *)
Pending == {i \in TimeoutIds : bits[i] = {"USED", "ARMED"}}

(* timeout_init.                                                           *)
Init ==
  /\ bits = [i \in TimeoutIds |-> {}]
  /\ left = [i \in TimeoutIds |-> 0]
  /\ os = OFF
  /\ signal = FALSE
  /\ pc = "idle" /\ id = TIMEOUT_SET_ERROR /\ seconds = 0 /\ age = 0 /\ next = 0
  /\ at = 0

-----------------------------------------------------------------------------
(* timeout_set(s): the delay must be positive; read the clock.             *)
SetBegin ==
  /\ pc = "idle"
  /\ \E s \in 1 .. MAX_DELAY : seconds' = s
  /\ age' = 0
  /\ pc' = "claim"
  /\ UNCHANGED <<bits, left, os, signal, id, next, at>>

(* Faulty variant (cf. Claimed): PASSED may be left from an earlier use.   *)
ClaimedAsItIs(b) == b \cup {"USED"}

Claimed(b) == {"USED"}

(* Claim the first unused timeout and clear its state, ...                 *)
SetClaim ==
  /\ pc = "claim"
  /\ \E i \in TimeoutIds :
       /\ ~Used(i) /\ \A j \in TimeoutIds : ~Used(j) => i <= j
       /\ bits' = [bits EXCEPT ![i] = Claimed(@)]
       /\ id' = i
  /\ pc' = "arm"
  /\ UNCHANGED <<left, os, signal, seconds, age, next, at>>

(* ... or give up.                                                         *)
SetFail ==
  /\ pc = "claim"
  /\ \A i \in TimeoutIds : Used(i)
  /\ id' = TIMEOUT_SET_ERROR
  /\ pc' = "idle"
  /\ UNCHANGED <<bits, left, os, signal, seconds, age, next, at>>

(* Note when it is due, and arm it.                                        *)
SetArm ==
  /\ pc = "arm"
  /\ left' = [left EXCEPT ![id] = seconds - age]
  /\ bits' = [bits EXCEPT ![id] = @ \cup {"ARMED"}]
  /\ next' = seconds
  /\ at' = 0
  /\ pc' = "scan"
  /\ UNCHANGED <<os, signal, id, seconds, age>>

(* Faulty variant (cf. IsSooner): without secs >= 0.                       *)
IsSoonerSigned(secs) == secs < next

IsSooner(secs) == 0 <= secs /\ secs < next

(* How long is it to the next timeout, from now on?  One entry at a time;  *)
(* a timeout that was already overdue at that moment is not looked at.     *)
SetScan ==
  /\ pc = "scan"
  /\ next' = IF at \in Pending /\ IsSooner(left[at] + age) THEN left[at] + age ELSE next
  /\ at' = at + 1
  /\ pc' = IF at' = TIMEOUTS THEN "settime" ELSE "scan"
  /\ UNCHANGED <<bits, left, os, signal, id, seconds, age>>

(* Arm the OS timer for it.                                                *)
SetTime ==
  /\ pc = "settime"
  /\ os' = IF next = 0 /\ ZERO_DISARMS THEN OFF ELSE next
  /\ pc' = "idle"
  /\ UNCHANGED <<bits, left, signal, id, seconds, age, next, at>>

(* timeout_unset(i) clears all but PASSED.                                 *)
Unset ==
  /\ pc = "idle"
  /\ \E i \in TimeoutIds : bits' = [bits EXCEPT ![i] = @ \cap {"PASSED"}]
  /\ UNCHANGED <<left, os, signal, callVars>>

-----------------------------------------------------------------------------
(* The OS timer expires.                                                   *)
Expire ==
  /\ os = 0
  /\ os' = OFF
  /\ signal' = TRUE
  /\ UNCHANGED <<bits, left, callVars>>

(* Faulty variants (cf. DueIn): a tick early, a tick late.                 *)
DueEarlyIn(i) == left[i] <= 1

DueLateIn(i) == left[i] < 0

DueIn(i) == left[i] <= 0

(* Faulty variant (cf. Rest): the handler leaves the rest to the next one. *)
RestForgotten == {}

Rest == {i \in Pending : ~DueIn(i)}

(* timeout_signal_handler: mark what is due; arm the OS timer for the      *)
(* soonest of the rest.  If nothing is left, Linux disarms it and RIOT     *)
(* leaves it as it is.                                                     *)
Handler ==
  /\ signal
  /\ signal' = FALSE
  /\ bits' = [i \in TimeoutIds |->
                IF i \in Pending /\ DueIn(i) THEN bits[i] \cup {"PASSED"} ELSE bits[i]]
  /\ LET upcoming == {i \in Rest : left[i] > 0}
     IN  \/ /\ upcoming = {}
            /\ os' = IF ZERO_DISARMS THEN OFF ELSE os
         \/ \E i \in upcoming : os' = left[i] /\ \A j \in upcoming : left[i] <= left[j]
  /\ UNCHANGED <<left, callVars>>

(* The clock.                                                              *)
Tick ==
  /\ pc # "idle" => age < MAX_STALL
  /\ age' = IF pc = "idle" THEN age ELSE age + 1
  /\ left' = [i \in TimeoutIds |-> IF left[i] = Overdue THEN Overdue ELSE left[i] - 1]
  /\ os' = IF os \in {OFF, 0} THEN os ELSE os - 1
  /\ UNCHANGED <<bits, signal, pc, id, seconds, next, at>>

SetStep == SetClaim \/ SetFail \/ SetArm \/ SetScan \/ SetTime

Next == SetBegin \/ SetStep \/ Unset \/ Expire \/ Handler \/ Tick

Spec == Init /\ [][Next]_vars

(* A call of timeout_set comes to its end, the clock goes on, the OS timer *)
(* expires when it is due and its signal is delivered.                     *)
Fairness ==
  WF_vars(SetStep) /\ WF_vars(Tick) /\ WF_vars(Expire) /\ WF_vars(Handler)

FairSpec == Spec /\ Fairness
=============================================================================
