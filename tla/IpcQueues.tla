----------------------------- MODULE IpcQueues ----------------------------
(***************************************************************************)
(* The queues between the layers of the stack (ipc-queues/ipc-queues.c).   *)
(* On Linux a queue is a POSIX message queue; on RIOT it is the mailbox of *)
(* the thread that opened it, and the bytes of a message lie in            *)
(* msg_storage, one ring that all queues share.  Every thread has one      *)
(* queue, named by the thread.  POSIX queues, mailboxes and scheduling are *)
(* external.                                                               *)
(***************************************************************************)
EXTENDS PacketRings, Sequences, FiniteSets

CONSTANTS
  Builds,        \* the builds considered: "riot", "linux"
  MAX_QUEUES,    \* queues that may exist; 10
  MAX_ELEMENTS,  \* MAX_ELEMENTS_ON_QUEUE; 10
  QUEUE_SIZE,    \* capacity of a RIOT mailbox; 16
  Threads,       \* the threads of the layers; a larger one has priority
  PREEMPTIVE     \* may a RIOT thread be preempted inside send_message?

ASSUME IpcQueuesAssumption ==
  /\ Builds \subseteq {"riot", "linux"}
  /\ MAX_QUEUES \in Nat \ {0} /\ MAX_ELEMENTS \in Nat \ {0} /\ QUEUE_SIZE \in Nat \ {0}
  /\ Threads \subseteq Nat \ {0}
  /\ PREEMPTIVE \in BOOLEAN

VARIABLES
  os,            \* the build; never changes
  queues,        \* the queue of each thread: "none", "created", "open"
  box,           \* the mailbox or the POSIX queue of each thread
  storage,       \* msg_storage
  start_storage, \* where the next message is released
  end_storage,   \* where the next message is stored
  stored,        \* stored_elements
  pc,            \* where each thread is
  sending,       \* locals of each thread's send_message
  fault          \* "assert": stopped; "stray": wrote outside an array

storageVars == <<storage, start_storage, end_storage, stored>>
ipcVars == <<os, queues, box, storageVars, pc, sending, fault>>

(* Slots of msg_storage.                                                   *)
STORAGE == MAX_QUEUES * MAX_ELEMENTS

StorageSlots == 0 .. STORAGE - 1

(* A message on its way: on RIOT the slot that holds its bytes; whether it *)
(* has the queue's message size; what the sender gave (on RIOT only to     *)
(* state what should arrive).                                              *)
Envelopes == [slot : StorageSlots, full : BOOLEAN, msg : Contents]

NoEnvelope == [slot |-> 0, full |-> TRUE, msg |-> Zeros]

NoSend == [to |-> 0, envelope |-> NoEnvelope]

(* init_queues.                                                            *)
InitQueues ==
  /\ os \in Builds
  /\ box = [t \in Threads |-> <<>>]
  /\ storage = [i \in StorageSlots |-> Zeros]
  /\ start_storage = 0 /\ end_storage = 0 /\ stored = 0
  /\ pc = [t \in Threads |-> "idle"]
  /\ sending = [t \in Threads |-> NoSend]
  /\ fault = "none"

(* Linux threads run in parallel.  A RIOT thread inside send_message runs  *)
(* on, unless one of a higher priority may preempt it.                     *)
MayRun(t) ==
  /\ fault = "none"
  /\ os = "riot" => \A u \in Threads \ {t} : pc[u] = "post" => PREEMPTIVE /\ t > u

Runs(t, where) == MayRun(t) /\ pc[t] = where

(* A failed assertion, or a write outside an array, after which nothing is *)
(* modelled.                                                               *)
Fault(what) == fault' = what /\ UNCHANGED <<os, queues, box, storageVars, pc, sending>>

-----------------------------------------------------------------------------
(* create_queue; with MAX_QUEUES in use it returns 0.                      *)
CreateQueue(t) ==
  /\ Runs(t, "idle") /\ queues[t] = "none"
  /\ Cardinality({u \in Threads : queues[u] # "none"}) < MAX_QUEUES
  /\ queues' = [queues EXCEPT ![t] = "created"]
  /\ UNCHANGED <<os, box, storageVars, pc, sending, fault>>

(* open_queue: msg_init_queue gives the thread an empty mailbox.           *)
OpenQueue(t) ==
  /\ Runs(t, "idle") /\ queues[t] = "created"
  /\ queues' = [queues EXCEPT ![t] = "open"]
  /\ box' = IF os = "riot" THEN [box EXCEPT ![t] = <<>>] ELSE box
  /\ UNCHANGED <<os, storageVars, pc, sending, fault>>

(* close_queue.  A POSIX queue goes with its messages, and who waits for   *)
(* room in it waits for ever; a mailbox and msg_storage stay as they are.  *)
CloseQueue(t) ==
  /\ Runs(t, "idle") /\ queues[t] # "none"
  /\ queues' = [queues EXCEPT ![t] = "none"]
  /\ IF os = "riot" THEN UNCHANGED <<box, sending>>
     ELSE /\ box' = [box EXCEPT ![t] = <<>>]
          /\ sending' = [u \in Threads |->
               IF pc[u] = "blocked" /\ sending[u].to = t THEN NoSend ELSE sending[u]]
  /\ UNCHANGED <<os, storageVars, pc, fault>>

-----------------------------------------------------------------------------
(* send_message with queue q for thread to.  It returns 0 when no queue is *)
(* open for that thread; it asserts that q exists (on Linux, is open); on  *)
(* RIOT it returns 0 when every slot is in use.                            *)
Unknown(to) == queues[to] # "open"

Usable(q) == IF os = "riot" THEN queues[q] # "none" ELSE queues[q] = "open"

StorageFull == os = "riot" /\ stored = STORAGE

(* end_storage reaches STORAGE, one past the last slot, before it wraps.   *)
StorageStrays == os = "riot" /\ end_storage \notin StorageSlots

NextEnd(last) == IF last >= STORAGE THEN 0 ELSE last + 1

Refused(q, to) == Unknown(to) \/ (Usable(q) /\ StorageFull)

Asserted(q, to) == ~Unknown(to) /\ ~Usable(q)

Strayed(q, to) == ~Refused(q, to) /\ ~Asserted(q, to) /\ StorageStrays

(* The bytes are copied; on RIOT end_storage is read but not yet moved.    *)
StartSend(t, q, to, msg, full) ==
  LET slot == IF os = "riot" THEN end_storage ELSE 0
  IN
  /\ ~Refused(q, to) /\ ~Asserted(q, to) /\ ~StorageStrays
  /\ storage' = IF os = "riot" THEN [storage EXCEPT ![slot] = msg] ELSE storage
  /\ sending' = [sending EXCEPT ![t] =
       [to |-> to, envelope |-> [slot |-> slot, full |-> full, msg |-> msg]]]
  /\ pc' = [pc EXCEPT ![t] = "post"]
  /\ UNCHANGED <<os, queues, box, start_storage, end_storage, stored, fault>>

Capacity == IF os = "riot" THEN QUEUE_SIZE ELSE MAX_ELEMENTS

HasRoom(t) == Len(box[t]) < Capacity

(* The POSIX queue was closed in the meantime: mq_send fails with EBADF,   *)
(* which send_message takes for success.                                   *)
Gone(to) == os = "linux" /\ queues[to] # "open"

(* Faulty variant (cf. Waits): a RIOT thread waits for room in its own     *)
(* mailbox.                                                                *)
WaitsForItself(t, to) == ~HasRoom(to) /\ ~Gone(to)

(* A full queue makes the sender wait, but msg_send drops what a thread    *)
(* sends to itself.                                                        *)
Waits(t, to) == ~HasRoom(to) /\ ~Gone(to) /\ (os = "riot" => t # to)

(* The rest of send_message, msg_send or mq_send.                          *)
Post(t) ==
  LET to == sending[t].to
      envelope == sending[t].envelope
  IN
  /\ Runs(t, "post")
  /\ IF os = "riot"
     THEN end_storage' = NextEnd(envelope.slot) /\ stored' = stored + 1
     ELSE UNCHANGED <<end_storage, stored>>
  /\ box' = IF HasRoom(to) /\ ~Gone(to) THEN [box EXCEPT ![to] = Append(@, envelope)] ELSE box
  /\ IF Waits(t, to)
     THEN pc' = [pc EXCEPT ![t] = "blocked"] /\ UNCHANGED sending
     ELSE pc' = [pc EXCEPT ![t] = "idle"] /\ sending' = [sending EXCEPT ![t] = NoSend]
  /\ UNCHANGED <<os, queues, storage, start_storage, fault>>

-----------------------------------------------------------------------------
(* msg_receive or mq_receive: the head is taken, and a sender that waits   *)
(* for room gets it at once.                                               *)
Take(t, next) ==
  LET waiting == {u \in Threads : pc[u] = "blocked" /\ sending[u].to = t}
  IN
  \/ /\ waiting = {}
     /\ box' = [box EXCEPT ![t] = Tail(@)]
     /\ pc' = [pc EXCEPT ![t] = next]
     /\ UNCHANGED sending
  \/ \E u \in waiting :
       /\ box' = [box EXCEPT ![t] = Append(Tail(@), sending[u].envelope)]
       /\ pc' = [pc EXCEPT ![t] = next, ![u] = "idle"]
       /\ sending' = [sending EXCEPT ![u] = NoSend]

(* What the receiver gets; on RIOT not a message of the wrong size.        *)
Delivers(envelope) == os = "riot" => stored > 0 /\ envelope.full

Content(envelope) == IF os = "riot" THEN storage[envelope.slot] ELSE envelope.msg

(* Faulty variant (cf. Release): the slot after it is cleared.             *)
ReleaseNext ==
  /\ storage' = [storage EXCEPT ![(start_storage + 1) % STORAGE] = Zeros]
  /\ start_storage' = (start_storage + 1) % STORAGE
  /\ stored' = stored - 1

(* The first slot in use is cleared, whichever slot the message was in.    *)
Release ==
  /\ storage' = [storage EXCEPT ![start_storage] = Zeros]
  /\ start_storage' = (start_storage + 1) % STORAGE
  /\ stored' = stored - 1

(* recv_message when a message waits.  On RIOT nothing is received while   *)
(* nothing is stored, a case that cannot arise as long as every message in *)
(* a mailbox is counted in stored.  Taking a message and releasing a slot  *)
(* are one step: of the threads that may preempt a receiver in between,    *)
(* only those that send meanwhile would notice.                            *)
RecvMessage(t, next) ==
  /\ IF os = "riot" /\ stored = 0
     THEN pc' = [pc EXCEPT ![t] = next] /\ UNCHANGED <<box, sending>>
     ELSE Take(t, next)
  /\ IF os = "riot" /\ Delivers(Head(box[t])) THEN Release
     ELSE UNCHANGED <<storage, start_storage, stored>>
  /\ UNCHANGED <<os, queues, end_storage, fault>>

(* elements_on_queue, called by thread t for queue q: msg_avail counts the *)
(* mailbox of the caller.                                                  *)
Elements(t, q) == Len(box[IF os = "riot" THEN t ELSE q])
=============================================================================
