# A specification of the MCLMAC node

WMN-IoT is the C implementation of MCLMAC, a multichannel MAC protocol for a
wireless mesh of small nodes. It builds for Linux and for RIOT. This directory
holds TLA+ models of it, what TLC checks of them on small instances, and what
TLAPS proves of them for every size.

## The system

| part | source | state | operations |
|---|---|---|---|
| MAC state machine | `MAC/MAC_StateMachine.c` | current and next state, `_is_first_node`, `_wakeup_frame`, occupied slots; the locals of a state that is executing | `mclmac_execute_mac_state_machine`, `mclmac_update_mac_state_machine` |
| PowerMode state machine | `MAC/MAC_PowerMode_StateMachine.c` | current and next state, slot and cf slot counters, slot and cf timer, collision record, packet counters | `mclmac_execute_powermode_state`, `mclmac_update_powermode_state_machine` |
| timeouts | `utils/timeouts.c` | a pool of 20 one-shot timeouts behind one OS timer | `timeout_set`, `timeout_passed`, `timeout_unset`, the signal handler |
| packet handlers | `MAC/Packets_Handlers.c` | none of its own | send and receive cf, control and data packets; listens use timeouts |
| MCLMAC structure | `MAC/MCLMAC.c`, `MAC/MAC_Internals.c` | the packet rings; the fields of the machines | initialisation, accessors, `mclmac_read_queue_element`, `mclmac_write_queue_element` |
| packet codecs | `MAC/ControlPacket.c`, `CFPacket.c`, `DataPacket.c` | none | structure to bytes and back |
| IPC queues | `ipc-queues/ipc-queues.c` | message queues between the layers | create, open, close, send, receive, count |
| memory pool | `utils/memory.c` | RIOT's replacement of `malloc` | create, free, read, write an array |

**How they interact.** A node is one thread. A driver executes the MAC machine
and updates it, for ever. In MEDIUM_ACCESS the MAC machine executes the
PowerMode machine and reacts to what it returns. Both poll timeouts, which a
signal handler (Linux) or a timer callback (RIOT) marks at any moment. Packets
come from the radio; other layers, in other threads, use the IPC queues. The
driver is *not* part of the repository (`main.c` only runs the tests): the
models take it to be what the tests do, execute then update, without looking at
what the execution returned.

**Builds.** With `-DNATIVE` the packet handlers are stubs. The RIOT radio code
(`LISTEN_TIMERS = TRUE`) arms a timeout for every control packet it listens
for; the stubs (`FALSE`) do not. The plain Linux build has no radio: the listens
of SYNCHRONIZATION miss and leave a timeout armed, which the first case includes;
those of RECEIVE take uninitialised bytes for a packet, which is not modelled. The radio itself is nondeterministic: anything
may or may not be heard.

**What is hard.** Timers pass between any two polls. Timeouts are a bounded
pool that the code leaks from. A value read at the head of a loop is used after
it has changed. Two nested state machines report errors to each other through
return values, requested states and flags. `PROJECT.json` lists each of these
hazards with its line.

**What makes each part correct.**

- *Timeouts*: a number that was returned names one timeout until it is given
  back; an armed timeout passes.
- *PowerMode machine*: it sends only in its own slot and cf slot; its timers are
  there when it waits for them; a slot always leads to the next slot; a
  collision is recorded, announced, and forgotten once.
- *MAC machine*: it follows its diagram; it does not block without a timer that
  will wake it; the slot it selects is free; it leaves medium access with empty
  rings; only a node that heard nobody is the first.
- *Listens*: a listen ends, accounts for what it takes (a timeout, a byte
  string), and a packet it returns was put together from what was heard.
- *Rings and queues*: first in, first out; never beyond the capacity; a message
  arrives as it was sent; a call returns.
- *Codecs*: decoding inverts encoding, and no kind of packet is taken for another.
- *Memory*: arrays do not share blocks, and what is written can be read.

## The modules

| module | what it is |
|---|---|
| `TimerPool` | the timeouts as their callers see them: functions of a pool of entries that are free, armed or passed |
| `TimerService` | the same pool as a specification with steps: set, unset, pass |
| `Timeouts` | the implementation: bits and due times of the entries, one OS timer, the handler, `timeout_set` in steps |
| `TimeoutsProperties`, `MCTimeouts` | what is asked of the timeouts; their instances for TLC |
| `TimeoutsProofs` | proofs about the timeouts, `Timeouts` implements `TimerService` among them |
| `Listens` | what a listen for a control packet does to the pool of timeouts, as one step |
| `ListenService` | the same as a specification with steps |
| `Reception` | the radio code of a listen: first 32 bytes, remaining chunks, timeout, byte string |
| `ReceptionProperties`, `MCReception`, `ReceptionProofs` | what is asked of a listen, its instances, the proofs, `Reception` implements `ListenService` among them |
| `PowerMode` | the PowerMode machine: variables of the node and one action for each iteration of a loop or exit of a state |
| `MacNode` | the MAC machine around it, the marking of timeouts, `Init`, `Next`, `Spec`, `FairSpec` |
| `MacNodeProperties`, `MCMacNode` | what is asked of a node, the module TLC checks |
| `MacNodeProofs`, `MacNodeEntryProofs` | the proofs: types, control flow and medium access; how a node enters the network, and its cf messages |
| `PacketRings` | the rings of data packets as functions: push, pop, receive |
| `IpcQueues` | the message queues of both builds, with RIOT's shared message storage |
| `Layers` | the MAC's thread and the threads of the upper layers on rings and queues |
| `LayersProperties`, `MCLayers`, `LayersProofs` | what is asked of them; their instances; the proofs |
| `PacketCodec` | the byte strings of the three kinds of packets, bit by bit |
| `Packets`, `MCPackets` | the way of a packet from creation to a receiver, what is asked of it; its instance |
| `PacketCodecProofs`, `PacketsProofs` | decoding inverts encoding, for every packet; what this says of a packet's way |
| `ByteArrays` | what the memory pool promises: arrays of bytes |
| `Memory`, `MCMemory`, `MemoryProofs` | the linked blocks of `memory.c`, which implement it; the instance; the proofs |

`MacNode` extends `PowerMode` extends `Listens` extends `TimerPool`: the machines
run in one thread on one pool and share its variables. `TimerService` is built
from the same operations as the machines use, so that what `Timeouts` is shown to
implement is what they call; `ListenService` is built from the operation
`AfterListen` that the machines use, so that what `Reception` is shown to
implement is what they assume of a listen. `Layers` extends `IpcQueues` extends
`PacketRings`.

**State of the node.** `pc` is where the thread is: `mac` before a MAC state executes,
`mac_update` after it, `init_loop`, `sync_listen`, `sync_loop`, `timeslot_wait`
inside one; `pm` before a PowerMode state executes, `ma_switch` when it has
returned to the `switch` of MEDIUM_ACCESS, and `passive_loop`, `active_loop`,
`active_end`, `transmit_loop`, `receive_listen`, `receive_loop` inside one. The
other variables carry the names of the C fields, in the comments of the
`VARIABLES`.

**Actions of the node.** The thread takes a step for every iteration of a loop of the code,
so that the handler (`Fire`) can mark a timeout between any two looks at it.
Code between two loops touches nothing that another thread changes, and is one
step. Functions that a step calls are part of it: `PassiveEnd` releases the
timer, exchanges packets, advances the slot and arms the timer again;
`SyncLoop` listens, and then looks at both timers in the order of the code.
An execution of MAC that fails asks for nothing, and the same state executes
again (`Failed`).

**Abstractions.** `toSend` is the sum of the two rings of packets to send: the
guards of the node only use the sum, with one exception, the assertions at the
head of `mclmac_read_queue_element`, which belong to `Layers`. A frequency is its position in
`FREQUENCIES`. Frame numbers and network times appear as the answers of the
comparisons with a received packet's (`sameFrame`, `onTime`), and as the number
of frames still to wait in SYNCHRONIZATION (`framesLeft`). The occupied slots
are the bits set on *some* frequency, which is all that slot selection asks
for; the first node overwrites a byte of one frequency, so that bits of that
byte may or may not remain. The time that remains of a slot is positive or not.
The number of cf messages heard, a `uint8_t` that is only compared with 1, is 0, 1
or 2 for several, from which one more message may lead back to 0, as from 255 in
the code.
`_collisionSlot`, hop counts, `_selected_slots_neighbors` and destination
identifiers are never read by the machines and are left out.

**The timeouts in detail.** `Timeouts` follows one `timeout_set` through its steps
(`SetBegin` reads the clock, `SetClaim` claims an entry, `SetArm` arms it,
`SetScan` looks at one entry after the other, `SetTime` arms the OS timer), with
its C locals as variables. `Expire` is the OS timer, `Handler` the whole of
`timeout_signal_handler`, `Tick` the clock; all three may come between any two
steps. `timeout_passed` is the view `View` of the bits; `timeout_unset` is one
atomic operation in the code and here. Time is kept relative to the clock:
`left[i]` is `timeout_time[i]` minus the present, `os` what remains of the OS
timer. The two builds differ in what a delay of zero does: Linux disarms the
timer, RIOT lets it expire at once (`ZERO_DISARMS`). The handler takes no time
and ticks are whole; `timespec_add` and its rounding are left out, and so is the
wrapping of RIOT's 32-bit microseconds: delays are taken to be below 2^31 of
them, 35 minutes. There
is one caller: on Linux `timeout_set` is thread-safe entry by entry, but only the
node's thread calls it.

**A listen in detail.** `Reception` follows `mclmac_receive_ctrlpkt_sync` and
`mclmac_receive_control_packet` of the radio build through
`_recv_first_32_bytes` and `_recv_remaining_packet`, one step per read. A chunk of
32 bytes is its place in the packet; `ones` are the later chunks whose first byte
happens to be 1, the type of a control packet. The sender broadcasts the chunks
of one packet over and over. Unless `RELIABLE`, chunks are lost, other frames
are heard and the driver returns errors. `pos` and `remaining` count in chunks,
and the callers' exchange of the two arguments is kept. The write to the 32 bytes
before `bytes_pkt` is taken to be harmless. The branch of
`_recv_remaining_packet` that waits for bytes is never taken, since
`min(remaining, len) <= len`: nothing read counts as a chunk. The model ends when
no byte string can be created, because the code goes on with an array that
nothing has initialised. The refinement hides the timeout of a listen that is
under way: it is taken when the listen ends.

**Rings, queues and layers.** In `Layers` the MAC's thread takes a packet from
the medium (`ReceiveDataPacket`), hands one to it (`SendDataPacket`), starts again
(`Restart`: FINISHP and the next STARTP), and does one round of PASSIVE's loop:
`ReadQueueElement`, then `Write`, whose steps are the checks, `send_message` up to
the message being in place, and the sending proper, since other threads run in
between. Upper layers create, open, close, send to a fixed set of threads
(`targets`) and receive, in any order. A slot or a message is a packet or zeros.
On Linux a queue is a POSIX queue and a full one blocks; on RIOT it is the
mailbox of a thread, the bytes lie in one ring that all queues share, `msg_send`
to oneself does not block, and `msg_avail` counts the caller's mailbox whatever
queue was asked for. `recv_message` takes a
message and releases a slot in one step. A failed assertion or a write outside an array sets `fault`
and ends the behaviour. The message for the routing layer goes to `_self_pid`,
the MAC's own queue, as in the code.

**Packets.** A number is the set of its bits, so a packet is a set of pairs
<<field, bit>> and a byte string a set of pairs <<position, bit>>. Both
directions of each codec are tables of shifts; `PacketCodec` has the layout once
and the one place where the two directions disagree (`DecodedControl`). The calls
that would give the bytes to the radio are commented out in the code; `Transmit`
is what they would be given.

**Memory.** A block is its first word, which links an array or memarray's free
list, and a byte. RIOT's `memarray` is external: it hands out and takes back
blocks at the front of its list.

**Faulty variants.** Definitions marked *Faulty variant (cf. X)* are not part of
the model. Each is X with a plausible mistake (a timer that is not given back, a
check that is dropped, a reset that is forgotten). `PROJECT.json` pairs each
with the property that exposes it: with X replaced by the variant, TLC finds
the property violated.

## What TLC checks

| run | instance | result |
|---|---|---|
| `node_radio` | 4 timeouts, 2 slots, listens arm timeouts, with fairness | `TypeOK`, `TransmitInOwnSlot`, `SlotTimerHeld`, `UpdatesAccepted`, `OnlyCollisionRepeatsActive`, `CollisionRecordConsistent`, `FinishedClean`, `FirstNodeOwnsFirstSlot`, `SelectedSlotWasFree`, `InitializationEnds`, `ElectedAfterDetection`, `CfMessageNearOwnCfSlot` hold |
| `node_native` | 3 timeouts, 1 slot, stubs, with fairness | `SyncTimersHeld`, `SelectionHasTimer`, `CollectionEnds`, `CfPhaseTerminates` hold |
| `transmit_returns` | 3 timeouts, with fairness | `TransmitReturnsToActive` **fails** |
| `timeouts_riot` | 2 timeouts, delays of 1 to 3 ticks, RIOT, with fairness | `TimeoutsTypeOK`, `NeverEarly`, `NoneForgotten`, `ImplementsService`, `EveryTimeoutPasses` hold |
| `timeouts_linux` | the same on Linux | `NoneForgotten` **fails** |
| `reception` | 3 chunks, 2 timeouts, 2 byte strings, with losses and fairness | `TypeOK`, `CountersAgree`, `StringsAccounted`, `SyncPacketIsFresh`, `ImplementsListenService`, `ListenEnds` hold |
| `reassembled` | the same, nothing is lost | `ReassembledInOrder` **fails** |
| `layers` | 2 threads, rings of 2 and 4, both builds, with fairness | `TypeOK`, `SendRingsConsistent`, `ReceivedRingConsistent`, `SoleReceiverGetsWhatWasSent`, `PacketNotLost`, `WriteReturnsOnRiot` hold |
| `received_as_sent` | 3 threads, 2 of them receive, RIOT | `ReceivedAsSent` **fails** |
| `write_returns` | Linux, the routing queue set as in the tests, with fairness | `WriteReturns` **fails** |
| `codecs` | one bit of one field at a time, all fields of all packets | `FieldsSurvive`, `KindsApart` hold |
| `memory` | 4 blocks, 2 arrays | `ListsApart`, `ImplementsByteArrays` hold |

The properties that fail state what a comment or a test of the code, or the
repository's README, says:

1. *TRANSMIT stops the node.* When its slot is over, TRANSMIT unsets the slot
   timer and goes to PASSIVE, which waits until that timer has passed. RECEIVE
   has a comment saying why it must not do this.
2. *Linux: no OS timer.* A timeout that is due exactly when `timeout_set` reads
   the clock gives a delay of zero, which disarms the OS timer. No timeout passes
   until another is set.
3. *Chunks in the wrong place.* `&pos` and `&remaining_bytes` are passed in each
   other's place. The second chunk goes before the buffer, the third over the
   first, and one chunk too many is read.
4. *A message cleared before it is read.* On RIOT `recv_message` clears the
   oldest slot of the shared storage, not the slot of its message. With one
   receiver, and one sender besides the receiver itself, the two are the same,
   and `SoleReceiverGetsWhatWasSent` holds.
5. *The MAC waits for itself.* Between counting the elements of the queue and
   `mq_send`, another thread may fill it. The queue is the MAC's own.

**Disagreements that the models show and that have no run of their own.** They
can be reproduced by stating the property named:

- When it detects a collision ACTIVE asks for PASSIVE
  (`MAC_PowerMode_StateMachine.c:277`), and MEDIUM_ACCESS records the collision
  without updating the PowerMode machine (`MAC_StateMachine.c:401-407`). ACTIVE
  executes again, with a second cf phase in the same slot, as often as collisions
  are detected. The tests say "The next state should be PASSIVE."
  (`MAC_PowerMode_StateMachine_Tests.c:663`, `:686`; they only look at the next
  state that was asked for), and the repository's README says that the node
  "returns to the Passive state". A property that does not hold of the model is
  `[][pc = "ma_switch" /\ pc' = "pm" => pmCur' = pmNext]_vars`: the step
  `MaRecordCollision` violates it. `OnlyCollisionRepeatsActive` says what does hold:
  nothing but a collision repeats a state, the state is ACTIVE, and the collision
  has been recorded.
- A node that finds no free timeout becomes the first node at once: `bool passed =
  timeout_passed(timer)` is true for the answer 2, "invalid".
  `ElectedAfterDetection` says what does hold: a node elects itself only after its
  detection timer has passed, or when it could not set one.
- The cf slot advances between reading its frequency and using it, so a cf message
  may be sent in the cf slot after the node's own. `CfMessageNearOwnCfSlot` says
  what does hold: in its own or in the next.
- Listens last 5 % of the slot duration, which is zero until the first medium
  access; a node that joins gets an error instead of a timeout, eleven times at
  once.
- Slot numbers of the second byte of a frequency are computed with the number of
  bytes, 2, where a byte holds 8 slots. `SelectedSlotWasFree` says what does
  hold: the selected slot is free when the first byte has a free slot. Without
  that premise it fails for `SLOT_BYTES = 2`.
- A cf timer that cannot be set, because the pool is empty, never passes: the
  cf phase does not end. The premise of `CfPhaseTerminates`, that the timer was
  set, leaves this out.
- The first node overwrites a byte of the occupied slots it had collected
  (`MAC_StateMachine.c:306`). No property is about it: the vector is collected
  anew before a slot is selected from it.
- A control packet heard at the second listen of RECEIVE is dropped: the test is
  `count >= 2` (`MAC_PowerMode_StateMachine.c:359`, `ReceiveHeardLate`).
- The most significant byte of a network time is shifted by 52 bits where a
  packet is constructed, and by 56 where its byte string is made
  (`ControlPacket.c:273`): it arrives as bits 52 to 59, over the byte after it.
  `FieldsSurvive` and `ControlPacketMostlySurvives` except it (`Lost`).
- A cf packet has 33 bytes and `mclmac_send_cf_message` copies 32 of them
  (`Packets_Handlers.c:77`): the last byte of the destination is cut off.
  `FieldsSurvive` excepts it, `CutCfPacket` proves that it is all that is lost.
- A data packet of 239 to 255 bytes does not fit into the byte string of 256, and
  its size is not checked (`DataPacket.c:117-122`). On RIOT `write_element`
  refuses the bytes beyond it, and reading them back yields uninitialised
  values; on Linux they are written to, and read from, memory behind the string.
  `FieldsSurvive` and `DataPacketSurvives` are about the sizes that fit.
- A timeout that is overdue when `timeout_set` reads the clock, and not marked
  yet, is skipped (`secs >= 0.0`), and the OS timer is armed for a later one.
- `mclmac_write_queue_element` counts the elements of queue 0, which asserts,
  before it compares the identifier with 0; a test says "The routing layer is not
  open yet. Return 0." (`MCLMAC_Tests.c:746`; it calls with no packet, and does
  not get that far). `Layers` reaches `fault = "assert"`.
- The write positions of the rings to send never wrap, and `end_storage` of the
  message storage goes one past its array. `Layers` reaches `fault = "stray"`;
  the invariants describe the rings up to there.
- The read position of the ring of received packets wraps half way. From then on
  (`rewound`) the ring is not consistent any more.
- With `PREEMPTIVE = TRUE`, two senders inside `send_message` use one slot, and
  `ReceivedAsSent` fails with one receiver too.
- With one receiver and *two* senders besides it (threads 1, 2 and 3, mailboxes of
  one message, all of it sent to the MAC), `ReceivedAsSent` fails after twelve
  steps: both senders wait in `msg_send` for room, the one that stored its message
  later gets it, and its reception clears the bytes of the other. The attempt to
  prove the property for any number of senders showed it; hence the premise
  `SoleSender`.

**Bounds.** Two slots and two frequencies give a slot that is the node's and
one that is not, and a cf slot before and after its own. One packet per ring
(two to send, two to receive) is empty, partial and full. A listen holds one
timeout, synchronising holds two and medium access two: with four timeouts
listens can leak some and all of the pool is reached, with three the pool runs
empty and every failure of `timeout_set` is met; pool entries are handed out
lowest first and are not symmetric. `SYNC_TRIES` is 2 instead of 11: a failed
listen that is retried and one that is not. `MAX_WAKEUP` bounds the frame number
that a control packet carries; 2 gives a node that waits for a frame and one
that does not. `node_native` has one slot and one bit, since what it checks
happens before slots matter.

`reception` has three chunks, the least with which a chunk can be written before,
at and after the first; two byte strings give a listen after one that lost its
byte string; two timeouts, in any state at the start, give every outcome of
`timeout_set`. In `layers` one message fills a Linux queue, two a mailbox and
three the shared storage, so that a mailbox can be full before and after the
queue's own limit, and the storage before and after the mailboxes; rings of two
and four slots wrap. Two threads suffice for one receiver; `received_as_sent` has
two receivers and a sender. In `codecs` a packet has one bit that is 1 (`BITS`), so that
a bit that goes astray is seen; data of one to three bytes has a first, a middle
and a last; a byte string is 64 bytes long instead of 256, seven more than the
longest packet. Four blocks and two arrays in `memory` give lists of up to four
blocks freed and taken in any order; the two arrays are symmetric, and the run
checks safety properties only.

For the timeouts: with two entries and delays of up to three ticks, one timeout
is set before, with or after the other is due; one tick (`MAX_STALL`) may pass
inside one `timeout_set`, which suffices for a timeout to become due between any
two of its steps.

**Fairness.** `FairSpec` asks that the thread runs when it can (weak fairness of
`Thread` without the steps that need a packet, `Delivery`) and that an armed
timeout is marked at some time (weak fairness of each `Fire`). The first is the scheduler's; the second is the promise of the
timeouts, which `Timeouts` examines: point 2 and the overdue timeout are the two ways in which the
code can break it, so the progress of the node is progress without them. Nothing is assumed of the radio or of other nodes.

For the timeouts, `FairSpec` asks that a call of `timeout_set` is continued, that
the clock goes on, that the OS timer expires when it is due and that its signal
is delivered. `EveryTimeoutPasses` has a premise: from some moment on the caller
sets no more timeouts. Without it the property is false, since each call may put
an overdue timeout off. A node that waits in a loop for a timer without
listening meets the premise; one that listens sets timeouts while it waits.

For a listen, `FairSpec` asks that the receiver's thread runs and that an armed
timeout is marked. For the layers it asks only that a thread inside a call goes
on with it; no layer has to send, receive or close anything, and the radio need
not deliver. `WriteReturns` fails under it because the MAC is the only thread that
could make room.

Deadlock is checked for the node, the timeouts, `reception`, the codecs and the
memory: a waiting thread can always look at its timer again. The layers stop at
a fault, and no message need ever come, so their runs do not check it; neither
does `reassembled`, which ends with its memory.

`SyncLoop` takes place in `node_native` only. With the radio's listens a node
that joins has no listen that can hear anything before its first medium access
(see above), and the small pool is spent when it joins for the second time.

## What is proved

**The node.** `MacNodeProofs` proves, for every number of slots, frequencies, packets,
timeouts and bits, and for both kinds of listens, from the assumptions
`TimeoutsAssumption`, `PowerModeAssumption` and `MacNodeAssumption` (the
constants are positive numbers):

| theorem | property |
|---|---|
| `TypeCorrect` | `TypeOK` |
| `TransmissionInOwnSlot` | `TransmitInOwnSlot` |
| `NoUpdateRefused` | `UpdatesAccepted` |
| `OnlyCollisionRepeats` | `OnlyCollisionRepeatsActive` |
| `MediumAccessFinishes` | `FinishedClean` |
| `CollisionRecordIsConsistent` | `CollisionRecordConsistent` |
| `SlotTimerIsHeld` | `SlotTimerHeld` |

**The inductive invariants of the node.** `TypeOK` is not inductive: the cf slot stays in
its range because a cf phase only runs below the last one, the frames left are
not negative because a node that has started has a wakeup frame, and a PowerMode
state has named a next state when it returns. `TypeInv` adds these.
`ControlInv` describes the control flow: which state is current at each point of
the thread, which transitions are requested and which errors are returned, and
when permission to send is given, and which state executes next. It implies
four of the properties.
`CollisionInv` adds that a node that has been called knows on which frequency;
`SlotTimerInv` adds that the slot timer is held already while ACTIVE, TRANSMIT
or RECEIVE is only requested. The last rests on lemmas on the pool: a timeout
that `timeout_set` returns was free, a listen takes nothing away, and setting
right after unsetting cannot fail. Each invariant is preserved by each action,
one proof step per action, and by the handler.

`MacNodeEntryProofs` proves, from the same assumptions:

| theorem | property |
|---|---|
| `SyncTimersAreHeld` | `SyncTimersHeld` |
| `SelectionAlwaysHasTimer` | `SelectionHasTimer` |
| `FirstNodeHasFirstSlot` | `FirstNodeOwnsFirstSlot` |
| `SelectedSlotIsFree` | `SelectedSlotWasFree` |
| `ElectionAfterDetection` | `ElectedAfterDetection`, an action property |
| `CfMessageOnTime` | `CfMessageNearOwnCfSlot`, an action property |

`MacTimersInv` adds to the timers of synchronisation the timer of INITIALIZATION:
a node that has set it holds it, so that the answer "invalid" only comes for a
timer that could not be set. `EntryInv` adds where a free timeout is guaranteed
(after the end of synchronisation has given two back, until the slot is
selected), where a first node has its slot already, and that a slot which has
been selected was free when it was. `CfMessageOnTime` rests on the control
invariant and on the range of the cf slot: the frequency of the slot is read at
the head of the iteration, and at most one cf slot begins in it.

**The timeouts.** `TimeoutsProofs` proves, for every size of the pool, every bound
on delays and stalls, from `TimeoutsAssumption` and `TimeoutsClockAssumption`:

| theorem | property |
|---|---|
| `TimeoutsTypeCorrect` | `TimeoutsTypeOK` |
| `PassedIsDue` | `NeverEarly` |
| `NoneIsForgotten` | `NoneForgotten`, for `ZERO_DISARMS = FALSE` (RIOT) |
| `Implementation` | `ImplementsService` |

The inductive invariant `IInv` adds to the types that an entry is used and not
armed only while `timeout_set` claims it, and was then the lowest unused one
(`Claiming`): so the step that arms it is the step `Set` of the service, and all
other steps of the call are stutters; and that the scan has an entry to look at
(`Scanning`). `NoneForgotten` is not inductive, because a `timeout_set` that finds
no free entry returns without arming anything: `LookedAfter` says that before the
scan the OS timer or its signal is still there.

**A listen.** `ReceptionProofs` proves, for every length of a packet, every pool
and every number of byte strings, from `TimeoutsAssumption` and
`ReceptionAssumption`:

| theorem | property |
|---|---|
| `TypeCorrect` | `TypeOK` |
| `CountersAlwaysAgree` | `CountersAgree` |
| `StringsAlwaysAccounted` | `StringsAccounted` |
| `SyncPacketAlwaysFresh` | `SyncPacketIsFresh` |
| `Implementation` | `ImplementsListenService` |

The inductive invariant adds to the first four that a listen which has gone past
its first look at the timer has one, and that its entry of the pool is in use:
giving that entry back yields the pool the listen began with, so every step
before the last is a stutter or the handler, and the last is `Listened`.

**The layers.** `LayersProofs` proves, for every number of threads and of queues,
every size of rings, mailboxes and queues and every assignment of receivers, for
both builds, from `PacketRingsAssumption`, `IpcQueuesAssumption` and
`LayersAssumption`:

| theorem | property |
|---|---|
| `TypeCorrect` | `TypeOK` |
| `SendRingsStayConsistent` | `SendRingsConsistent` |
| `ReceivedRingStaysConsistent` | `ReceivedRingConsistent` |
| `NoPacketLost` | `PacketNotLost`, an action property |
| `SoleReceiverIsServed` | `SoleReceiverGetsWhatWasSent` |

The inductive invariant `IInv` has three parts. `IpcInv`: types, and on RIOT a
thread that has stored its message and not yet counted it is the only one and
had found room (`OnePost`), so that a counter that is compared by `==` does not
pass its limit. `RingInv`: the rings. `WriteInv`: while the MAC is inside
`mclmac_write_queue_element` its queue is open, and the packet that was looked
at is still there. For the sole receiver, `SoleInv` says that the messages of the
mailbox lie in the storage in the order in which they will be received, between
the slot cleared next and the slot used next, and that the one sender that may
wait stands behind a full mailbox: the room that the next reception makes is its
own.

**The packets.** `PacketCodecProofs` proves, for every packet (any set of bits),
every filler and whatever the receiver's packet held: all of a control packet
but the top byte of its network time survives its byte string, and nothing is
added unless that byte was not 0 (`ControlPacketMostlySurvives`); a cf packet
survives whole (`CfPacketSurvives`), or without the last byte of its destination
when it went over the air, and is not taken for a control packet (`CutCfPacket`);
a data packet survives when its data fits into the byte string beside the 18
bytes before it, up to 238 bytes (`DataPacketSurvives`). The
argument is one lemma on layouts: fields do not overlap, and a bit that is moved
to its byte and its place in it comes back to where it was (`BitThereAndBack`);
for data packets also that a byte is determined by its bits (`OnesInjective`), so
that the receiver reads the size the sender wrote. `PacketsProofs` puts them
together along the way of a packet, for packets with any number of bits set (TLC
sets one), from `PacketSizeAssumption` and `PacketsAssumption`: `FieldsAlwaysSurvive`
proves `FieldsSurvive`, `KindsStayApart` proves `KindsApart`. Their invariant
says, stage by stage, what the byte string is the encoding of.

**The memory.** `MemoryProofs` proves, for every number of blocks and of arrays,
from `MemoryAssumption`:

| theorem | property |
|---|---|
| `ListsStayApart` | `ListsApart` |
| `PoolImplementsByteArrays` | `ImplementsByteArrays` |

The inductive invariant `PoolInv` names the lists: there are sequences, one for
the free list and one for each array, that hold the linked blocks in order, have
no block in common, and have the lengths the arrays record. Each operation says
which sequences it makes: `create_array` cuts off the head of the free list,
`free_array` puts the reverse of its list before it. What `Walk` computes along
such a list (`WalkIs`) is an induction, which the provers cannot take from the
library's theorems; the proof uses instead that a set of numbers has a least
member (`Least`), at the first place where the walk would differ from the
sequence. The refinement then compares the bytes of the sequences before and
after a step.

**Only model-checked.** The liveness properties `InitializationEnds`,
`CollectionEnds`, `CfPhaseTerminates`, `EveryTimeoutPasses`, `ListenEnds` and
`WriteReturnsOnRiot`: TLAPS does not prove liveness under fairness. Every
invariant, action property and refinement that a passing run checks is also a
theorem; `NoneForgotten` for RIOT only, since it fails on Linux.

## Plan

In the order of what depends on what:

1. done: `TimerPool`, `PowerMode`, `MacNode`, their properties and proofs.
2. done: `TimerService`, `Timeouts`, their properties and proofs.
3. done: `PacketRings`, `IpcQueues`, `Layers` and their properties.
4. done: `Reception`, `ListenService`, their properties and proofs.
5. done: `PacketCodec`, `Packets`, `Memory`, `ByteArrays`, their properties, the
   proofs of the codecs.
6. done: the proofs about `Layers`, `Packets` and `Memory`, and of the remaining
   invariants and action properties of the node.
7. Action properties that follow from the invariants and that TLC does not check
   yet: what may change a slot, a ring or a record of a collision.

## Not modelled

- The tests, `main.c`, the debugging aids, and the `TESTING` parts of the NATIVE
  stubs.
- Of the timeouts, `timeout_done`, which only the tests call, and a
  `timer_settime` that fails.
- Of the structure, `MCLMAC_clear`, `MCLMAC_destroy` and the settings of the radio;
  single-field accessors are assignments inside the actions that use them.
- Of the handlers, hearing a cf message in the radio build: it uses names that are
  not declared (`Packets_Handlers.c:297` and `:322`) and does not compile. The node
  models that a cf message may be heard. The control packet that a Linux
  build without `NATIVE` constructs from uninitialised bytes in RECEIVE.
- Of the queues, `end_queues`, several queues of one thread, interrupted system
  calls, and POSIX queues that an earlier process left behind.
- Memory that runs out, outside `Memory` itself and the byte strings of `Reception`:
  what the code does then depends on an uninitialised `array_t`.
- Network-wide behaviour: the radio is an environment that delivers anything, so
  what one node does is checked against all other nodes at once, but nothing is
  said of what several nodes achieve together.
