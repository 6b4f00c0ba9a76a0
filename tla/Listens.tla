------------------------------ MODULE Listens -----------------------------
(***************************************************************************)
(* What a listen for a control packet does to the pool of timeouts, as one *)
(* step: the state machines are written against it, and Reception shows    *)
(* that the loops of the radio code do no more.                            *)
(***************************************************************************)
EXTENDS TimerPool

CONSTANT LISTEN_TIMERS  \* does a listen arm a timeout (radio code) or not (NATIVE stubs)?

(* The pools a listen for a control packet may leave behind.  The radio    *)
(* code arms a timeout for it: without one nothing is heard; it gives the  *)
(* timeout back when it expires, and keeps it when first bytes arrived,    *)
(* whether or not the rest of the packet did.                              *)
AfterListen(p, positive, heard) ==
  IF LISTEN_TIMERS
    THEN UNION {IF id = TIMEOUT_SET_ERROR
                  THEN IF heard THEN {} ELSE {p}
                  ELSE IF heard THEN {AfterSet(p, id)} ELSE {AfterSet(p, id), p} :
                id \in {h \in Handles : TimeoutSet(p, positive, h)}}
    ELSE {p}
=============================================================================
