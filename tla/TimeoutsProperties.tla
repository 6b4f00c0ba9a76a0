------------------------- MODULE TimeoutsProperties -----------------------
(***************************************************************************)
(* What is asked of the timeouts.                                          *)
(***************************************************************************)
EXTENDS Timeouts

(* The timeouts as their callers see them.  An entry that timeout_set has  *)
(* claimed and not armed yet is still free to them.                        *)
View ==
  [i \in TimeoutIds |->
     IF {"USED", "ARMED"} \subseteq bits[i]
       THEN IF "PASSED" \in bits[i] THEN "passed" ELSE "armed"
       ELSE "free"]

Service == INSTANCE TimerService WITH pool <- View

(* Every variable of the timeouts has its type.                            *)
TimeoutsTypeOK ==
  /\ bits \in [TimeoutIds -> SUBSET {"USED", "ARMED", "PASSED"}]
  /\ left \in [TimeoutIds -> Overdue .. MAX_DELAY]
  /\ os \in {OFF} \cup 0 .. MAX_DELAY
  /\ signal \in BOOLEAN
  /\ pc \in {"idle", "claim", "arm", "scan", "settime"}
  /\ id \in Handles
  /\ seconds \in 0 .. MAX_DELAY /\ age \in 0 .. MAX_STALL /\ next \in 0 .. MAX_DELAY
  /\ at \in 0 .. TIMEOUTS

(* timeouts.c implements the pool that the node's machines call: whatever  *)
(* the handler interrupts, a timeout is handed out once, the lowest free   *)
(* one, starts unpassed, and changes only when it is marked or unset.      *)
ImplementsService == Service!Spec

(* A timeout is never marked before it is due.                             *)
NeverEarly ==
  \A i \in TimeoutIds : View[i] = "passed" => left[i] <= 0

(* No timeout is forgotten: as long as one is armed, the OS timer runs, or *)
(* its signal is on the way, or timeout_set is about to arm it.            *)
NoneForgotten ==
  Pending # {} => os # OFF \/ signal \/ pc # "idle"

(* Once the caller sets no more timeouts, every armed one passes or is     *)
(* unset.                                                                  *)
EveryTimeoutPasses ==
  <>[](pc = "idle") => \A i \in TimeoutIds : View[i] = "armed" ~> View[i] # "armed"
=============================================================================
