----------------------------- MODULE Reception ----------------------------
(***************************************************************************)
(* How the radio code hears a control packet (MAC/Packets_Handlers.c): a   *)
(* byte string and a timeout are taken, the first 32 bytes are waited for, *)
(* the remaining chunks of 32 bytes are read one after the other, and the  *)
(* packet is constructed from what was put together.  The same two loops   *)
(* serve mclmac_receive_ctrlpkt_sync and mclmac_receive_control_packet.    *)
(*                                                                         *)
(* A sender broadcasts the chunks of its control packet over and over; the *)
(* receiver's reads fall where they fall.  Of a chunk only its place in    *)
(* the packet and whether its first byte is 1 are kept.                    *)
(***************************************************************************)
EXTENDS Integers, Listens

CONSTANTS
  CHUNKS,        \* PACKET_SIZE_MAC / NRF24L01P_NG_MAX_PAYLOAD_WIDTH; 256 / 32
  MAX_STRINGS,   \* byte strings that memory has room for
  RELIABLE       \* does every read find the sender's next chunk?

ASSUME ReceptionAssumption ==
  /\ CHUNKS \in Nat \ {0}
  /\ MAX_STRINGS \in Nat
  /\ RELIABLE \in BOOLEAN
  /\ LISTEN_TIMERS = TRUE

VARIABLES
  pc,            \* where the receiver's thread is
  caller,        \* which of the two functions listens
  positive,      \* is 5% of the slot duration a positive delay?
  pool,          \* the timeouts
  timer,         \* the local timer
  pos,           \* the local pos, in chunks
  remaining,     \* the local remaining_bytes, in chunks
  buf,           \* the local bytes_pkt, by chunks
  air,           \* the chunk that the sender broadcasts next
  ones,          \* the chunks after the first whose first byte is 1
  fresh,         \* did the last listen rewrite the control packet?
  strings,       \* byte strings that can still be created
  misses,        \* listens that have returned false
  ret            \* what the last listen returned

vars == <<pc, caller, positive, pool, timer, pos, remaining, buf, air, ones,
          fresh, strings, misses, ret>>

Chunks == 0 .. CHUNKS - 1

(* Bytes that are no part of the packet and do not begin with 1: another   *)
(* frame, or the zeros of a buffer that nothing was read into.             *)
FOREIGN == CHUNKS

Callers == {"sync", "receive"}

(* The first byte is the type of a control packet.                         *)
TypeOne(c) == c = 0 \/ c \in ones

Init ==
  /\ pc = "idle" /\ caller \in Callers
  /\ positive \in BOOLEAN
  /\ pool \in Pools /\ timer = TIMEOUT_SET_ERROR
  /\ pos = 0 /\ remaining = CHUNKS
  /\ buf = [k \in Chunks |-> FOREIGN]
  /\ air = 0 /\ ones \in SUBSET (Chunks \ {0})
  /\ fresh = FALSE /\ ret = FALSE
  /\ strings = MAX_STRINGS /\ misses = 0

-----------------------------------------------------------------------------
(* mclmac_receive_ctrlpkt_sync or mclmac_receive_control_packet begins.    *)
(* The model ends where memory does: without a byte string the code would  *)
(* go on with an array_t that nothing has initialised.                     *)
Listen(c) ==
  /\ pc = "idle" /\ strings > 0
  /\ caller' = c
  /\ strings' = strings - 1
  /\ pos' = 0 /\ remaining' = CHUNKS
  /\ buf' = [k \in Chunks |-> FOREIGN]
  /\ \E id \in Handles :
       /\ TimeoutSet(pool, positive, id)
       /\ timer' = id
       /\ pool' = AfterSet(pool, id)
  /\ pc' = "first"
  /\ UNCHANGED <<positive, air, ones, fresh, misses, ret>>

(* return false; the byte string is not freed.                             *)
Miss ==
  /\ pc' = "idle" /\ ret' = FALSE /\ fresh' = FALSE
  /\ misses' = misses + 1
  /\ UNCHANGED <<caller, positive, timer, ones, strings>>

(* What a read of 32 bytes finds.                                          *)
Read(c) ==
  \/ c = air /\ air' = (air + 1) % CHUNKS
  \/ ~RELIABLE /\ c = FOREIGN /\ UNCHANGED air

(* Faulty variant (cf. Untimed): the error of timeout_set goes unnoticed.  *)
UntimedUnnoticed == FALSE

Untimed == timer = TIMEOUT_SET_ERROR

(* _recv_first_32_bytes: no timeout, no reception.                         *)
FirstUntimed ==
  /\ pc = "first" /\ Untimed
  /\ Miss
  /\ UNCHANGED <<pool, pos, remaining, buf, air>>

(* The driver reports an error; the timeout is kept.                       *)
FirstError ==
  /\ pc = "first" /\ ~Untimed
  /\ ~RELIABLE
  /\ Miss
  /\ UNCHANGED <<pool, pos, remaining, buf, air>>

(* Faulty variant (cf. Expired): another timeout is given back.            *)
ExpiredFirst == AfterUnset(pool, 0)

(* The pool after a listen has run out of time.                            *)
Expired == AfterUnset(pool, timer)

(* No frame, a frame of another length or of another type: try again until *)
(* the timeout has passed.                                                 *)
FirstRefused ==
  /\ pc = "first" /\ ~Untimed
  /\ \E c \in Chunks \cup {FOREIGN} : ~TypeOne(c) /\ Read(c)
  /\ IF TimeoutPassed(pool, timer) = 1
       THEN Miss /\ pool' = Expired
       ELSE UNCHANGED <<pc, caller, positive, pool, timer, ones, fresh, strings, misses, ret>>
  /\ UNCHANGED <<pos, remaining, buf>>

(* Faulty variant (cf. Counted): bytes still to come are not counted.      *)
CountedOnlyHere ==
  /\ remaining' = remaining
  /\ pos' = pos - 1

(* The callers pass &pos and &remaining_bytes in each other's place, so    *)
(* that what is added to *pos is added to the bytes still to come.         *)
Counted ==
  /\ remaining' = remaining + 1
  /\ pos' = pos - 1

FirstHeard ==
  /\ pc = "first" /\ ~Untimed
  /\ \E c \in Chunks : TypeOne(c) /\ Read(c) /\ buf' = [buf EXCEPT ![0] = c]
  /\ Counted
  /\ pc' = "rest"
  /\ UNCHANGED <<caller, positive, pool, timer, ones, fresh, strings, misses, ret>>

-----------------------------------------------------------------------------
(* Faulty variant (cf. Accepted): sync does not look at the type.          *)
AcceptedUnseen(b) == TRUE

(* sync checks the type again; receive leaves that to the constructor,     *)
(* which does nothing when it does not match, and returns true.            *)
Accepted(b) == caller = "receive" \/ TypeOne(b[0])

(* Faulty variant (cf. Freed): the byte string is not freed.               *)
NotFreed == strings

(* free_array(&byteString).                                                *)
Freed == strings + 1

(* The byte string is filled, decoded and freed; the timeout stays set.    *)
Finish(b) ==
  IF Accepted(b)
    THEN /\ pc' = "idle" /\ ret' = TRUE
         /\ fresh' = TypeOne(b[0])
         /\ strings' = Freed
         /\ UNCHANGED <<caller, positive, timer, ones, misses>>
    ELSE Miss

(* Faulty variant (cf. More): one chunk too many.                          *)
MoreThanAll(left) == left >= 0

More(left) == left > 0

(* _recv_remaining_packet: one more chunk, or whatever the driver returned *)
(* instead; a read that finds nothing counts as well.  The first write     *)
(* goes to the 32 bytes before bytes_pkt.                                  *)
RestRead ==
  /\ pc = "rest"
  /\ \E c \in Chunks \cup {FOREIGN} :
       /\ Read(c)
       /\ buf' = IF pos \in Chunks THEN [buf EXCEPT ![pos] = c] ELSE buf
  /\ pos' = pos + 1
  /\ remaining' = remaining - 1
  /\ IF More(remaining')
       THEN UNCHANGED <<pc, caller, positive, timer, ones, fresh, strings, misses, ret>>
       ELSE Finish(buf')
  /\ UNCHANGED pool

RestError ==
  /\ pc = "rest"
  /\ ~RELIABLE
  /\ Miss
  /\ UNCHANGED <<pool, pos, remaining, buf, air>>

-----------------------------------------------------------------------------
(* A chunk is broadcast while nobody reads.                                *)
Lose ==
  /\ ~RELIABLE
  /\ air' = (air + 1) % CHUNKS
  /\ UNCHANGED <<pc, caller, positive, pool, timer, pos, remaining, buf, ones,
                 fresh, strings, misses, ret>>

Fire(id) ==
  /\ CanPass(pool, id)
  /\ pool' = AfterPass(pool, id)
  /\ UNCHANGED <<pc, caller, positive, timer, pos, remaining, buf, air, ones,
                 fresh, strings, misses, ret>>

Receiver ==
  \/ FirstUntimed \/ FirstError \/ FirstRefused \/ FirstHeard
  \/ RestRead \/ RestError

Next ==
  \/ \E c \in Callers : Listen(c)
  \/ Receiver
  \/ Lose
  \/ \E id \in TimeoutIds : Fire(id)

Spec == Init /\ [][Next]_vars

(* The receiver's thread runs, and the clock does.                         *)
FairSpec == Spec /\ WF_vars(Receiver) /\ \A id \in TimeoutIds : WF_vars(Fire(id))
=============================================================================
