# Verification of microbus

microbus is a slotted bus protocol for microcontrollers: one master and up to
63 nodes share a full duplex (SPI) or a single (wireless) channel.  Time is
divided into slots; the master decides who transmits in which slot and its
packets tell the nodes.  On top of the slots runs a sliding window protocol
that promises reliable, ordered delivery between the master and each node.

This directory models the parts of the code where that promise, and the
liveness of the bus, can be lost to interleavings, losses, wrapped counters or
stale state: TLA+ modules, TLC runs on small instances, and TLAPS proofs.
Paths such as `src/txManager.c` are relative to the root of the repository.

## Inventory

| Part | State | Operations | Talks to |
|---|---|---|---|
| `txManager.c` | packet store (entries with in-use flag and header), per destination the window `txSeqNumStart/End/Next` and `txSeqNumPauseCount`, `rxSeqNum`, `activeTxNodes`, `allocatedPacket` | allocate, submit (application thread); choose the next packet, process an ack, check a received number (handlers); remove a node | `masterTx`, `masterRx`, `node`, scheduler (shares `activeTxNodes`) |
| `rxManager.c` | receive buffers, circular queue of buffer pointers | find a free buffer, append, remove a node's packets (handlers); peek, pop (application) | `masterRx`, `node`, `master` |
| `scheduler.c` | countdowns to the next unallocated and service slot, gap between unallocated slots, whose turn it is, recently scheduled nodes, buffer level per node, three round robin queues | choose the node for a slot, record a node's buffer level, new node heard | `master`, `masterRx` |
| `networkManager.c` | time to live per node (both sides), table of new nodes | register, confirm, count down, build and read join packets | `master`, `node` |
| `master.c`, `masterRx.c`, `masterTx.c` | schedule, current transmitter, buffers handed to the DMA, reset cycles | pre- and post-processing of a slot (dual channel), receive and transmit processing (single channel), timeouts, API | all of the above |
| `node.c` | copy of the schedule, packet prepared for its slot, saved ack, own ID, back-off | the same for a node; reset when it times out or the master resets | `txManager`, `rxManager`, `networkManager` |
| `common.c` | `tNodeQueue` | add, remove, next in turn; assertions spin forever | everybody |

What is hard: two or three threads per device without locks (application,
slot interrupt, timer); packets chosen one slot and sent in a later one from
memory that can be freed meanwhile; acks and packets lost or late; sequence
numbers that wrap at 255 and bytes that wrap at 256; membership that changes
under queues, windows and receive buffers.

What makes the parts correct:

* sliding window: every submitted packet is delivered once, in order and
  intact, whatever is lost; no assertion fails; packets are retained until
  delivered; the round robin serves every destination that has packets;
* receive path: an accepted (acknowledged) packet reaches the application, in
  order, and its memory is not reused before it is popped; no buffer leaks;
* scheduler: every connected node gets a slot before it times out; the master
  never drops out of a shared channel's schedule; nodes with a backlog get
  turns; unallocated slots are frequent after a join and rare later;
* membership: one ID, one node; a node that left is forgotten everywhere.

`PROJECT.json` lists the hazards line by line, with the property that covers
each, or the reason why none does yet.

## Modules

| Module | Models | Kind |
|---|---|---|
| `NodeQueue` | `tNodeQueue` and its operations (`common.c`) | operators |
| `TxManager` | `txManager.c`: one operator per function, on a record for `tTxManager` | operators |
| `TxLink` | one sender (the master, or a node), its peers and the bus between them | state machine, composes `TxManager` |
| `ReliableChannel` | what the window promises | abstract specification |
| `TxLinkInv` | the inductive invariant of `TxLink` | invariant |
| `RxManager` | `rxManager.c` | operators |
| `RxPath` | the master's receive handlers and the application's peek and pop | state machine, composes `RxManager` |
| `Scheduler` | `scheduler.c` | operators |
| `SlotSchedule` | the schedule running slot by slot | state machine, composes `Scheduler` and `NodeQueue` |
| `NetworkManager` | `networkManager.c`, both sides | operators, on the scheduler's queues |
| `Membership` | a master and several devices that join, time out and restart, slot by slot | state machine, composes `NetworkManager`, `Scheduler` and `NodeQueue` with `master.c`, `masterRx.c`, `masterTx.c`, `node.c` |
| `SubmitRace` | the master's submission, one memory access at a time, against the handlers | state machine, composes `TxManager` and `NodeQueue` |
| `RxPathInv`, `SlotScheduleInv`, `SubmitRaceInv`, `MembershipInv` | the inductive invariants of the other machines | invariants |
| `NodeQueueLemmas`, `TxManagerLemmas`, `SchedulerLemmas` | what the operators of `NodeQueue`, `TxManager` and `Scheduler` return and keep | lemmas |
| `TxLinkProofs`, `RxPathProofs`, `SlotScheduleProofs`, `SubmitRaceProofs`, `MembershipProofs` | proofs | theorems |
| `MCTxLink`, `MCRxPath`, `MCSlotSchedule`, `MCSubmitRace` | symmetry sets and constraints for TLC | model checking |

A C structure is a record and a C function an operator from the old record to
the new one, so that a handler's action is the composition of the calls it
makes.  A failed `microbusAssert` never returns (`assertMessage` spins), so it
is a `fault` field that stops the actions of that device.  Operators marked
"seeded fault" are wrong variants of the operator they precede; no
specification uses them, `PROJECT.json` lists under "mutants" which property
each one breaks.

### TxLink

Actions and code: `AllocateTxPacket` and `SubmitAllocatedTxPacket` are the
application's calls; `ProcessTx` is the choice of a data packet in
`masterProcessTx`/`nodeProcessTx`; `Transmit` hands its memory to the DMA
(`nodeGetTxPacket`, or the pre-processing of the master); `RxAck` is
`rxAckSeqNum` in `masterProcessRx` or `nodeProcessRx`; `Receive` is the quick
processing at the peer, with `rxPacketCheckAndUpdateSeqNum`; `SendAck` writes
`rxSeqNum` into an outgoing header; `LosePacket` and `LoseAck` are CRC errors
and full receive buffers.  The header is read when transmission starts, the
payload when the packet is received, so a payload refilled during the DMA is
seen.  Which slot belongs to whom is abstracted to any interleaving of these
steps.  That allows more than the scheduler does, so safety carries over.
Application calls are atomic with respect to the handlers (the comments in the
code ask for atomic updates); `SubmitRace` has them in steps.  Membership is
stable.  `ReliableDelivery` is the refinement: `ReliableChannel` is instantiated
with the packets submitted and the packets delivered per peer, everything else
(store, windows, wire, acks) is hidden.

### RxPath

A slot is two handler steps: `RejectPacket` or `QuickProcessPrevRx` at its
start (`masterQuickProcessPrevRx`), `PostProcess` while the next packet is
received (`masterProcessRx`, then `masterRemoveAnyTimeoutNodes`).  The
application's `Peek`, `Pop` and `PopDone` interleave with them; pop is two
steps because the code has two writes.  `accepted` and `settled` are history
variables: what was acknowledged to each node, and what the application popped
or a removal discarded.  A removal that cuts between the two steps of pop
corrupts the buffers (see the hazard at `rxManager.c:89`); `cutIn` marks those
behaviours, and the properties about contents exclude them.

### SlotSchedule

`Slot` is `masterUpdateSchedule`; `RxPacket`, `RxNewNodeRequest`,
`SubmitTxPacket` and `RemoveNode` are the events that change the queues the
scheduler picks from.  The level of the master's buffer is any value up to
`MaxBufferLevel` in each slot.  A node's data packet reports a level of at
least 1, since `nodeProcessTx` counts the packet itself.  The master takes data
from an ID without looking at its time to live, so an owner that was late to
learn its ID can have its level recorded, and its ID put in `nodeTxNodes`, after
the ID was removed.  A request to join can also come in a slot of a node's own:
one that it kept while it joined.  `since`, `reported` and `removed` are history
variables.

### Membership

A step is a slot of the whole bus.  In every device the timer runs
(`networkManagerUpdateTimeUs`, `nodeNwUpdateTimeUs`), then the pre-processing
handles what came in the slot before and hands over the packet that was
prepared, then the post-processing prepares the next one: `masterPreProcess`
and `masterPostProcess`, `nodePreProcess` and `nodePostProcess`, which compose
the calls of `masterDualChannelPipelinedPreProcess` and its three siblings in
the order of the code.  So a packet is prepared one slot, sent the next and
handled in the one after, as on the bus.  Two packets in one slot destroy each
other.

Faults are counted by `MaxFaults`: a packet to the master or to any of the
nodes is lost (`Slot`), the master or a device restarts, or the timer thread is
preempted by the slot in its update of the times to live (`SlotInTimer`).  How
far it is with one ID is its `Progress`: nothing done, the old value read, the
decremented one stored, or found to be 0.  What the handlers then record for the
ID is counted down, overwritten, kept, or taken for a time that has run out;
where the code reads a byte again and a compiler may keep it in a register, both
outcomes are there.  `owner`, `heard` and `raced` are history variables.

The time that a node has is counted from what it sent, the one that the master
gives it from what it received.  That is why "node must timeout first"
(`networkManager.h`) holds as `NodeTimesOutFirst`, for nodes whose last packet
was received, and not in general: `stale_owner` finds two nodes with one ID
after one lost response.  `Stabilises` says that timeouts undo this.

With the real constants a node has 1536 slots and the master at least 127
updates, about 1623 slots; the assumption of `NetworkManager` keeps that order,
`(MASTER_MAX_TIME_TO_LIVE - 1) * TIME_TO_LIVE_UPDATE_TIME >= NODE_TIMEOUT`.

### SubmitRace

`submitAllocatedTxPacket` and `nodeQueueAdd` run in the application's thread,
below the handlers.  Each access to memory that a handler can see is a step
from one `pc` to the next: the check of the time to live, the header's
destination and number, the increment and the wrap of `txSeqNumEnd`, the
comparison with `txSeqNumStart`, the search of the queue place by place, the
write of the ID, that of the length, the clearing of `allocatedPacket`, and
the second check of the time to live.  The increment of `numNodes` and the
second removal, in the same thread, are taken as atomic.  Between any two of
these the handlers run whole: `ProcessTx`, `RxAck`, `RemoveNode`,
`RegisterNewNode`.  `ClearBuffers` is `masterResetTxCredits`.

Nine interruptions do harm; `cutIn` records them, and each property says which
of them it does not survive:

| Interruption | Where | What it breaks |
|---|---|---|
| `shift` | the queue shifts during the search of `nodeQueueAdd`, or between its writes | the queue, traces of a node that left |
| `empty` | a window is acked in full while its destination is searched on the queue | the queue |
| `wrap` | `txSeqNumEnd` is read between increment and wrap | assertions, completeness, the queue |
| `orphan` | a packet is used after its node left during the submission | assertions |
| `header` | the entry being written still names a queued packet | assertions, completeness, entries, the queue |
| `stale` | a removal frees the allocated entry by its old header | the same |
| `rejoin` | the ID is given out again during the submission | the same |
| `clear` | buffers are cleared under the windows | the same |
| `leak` | a submission to a node that has left, or an allocation while the queue of destinations is full | entries, traces |

So, for instance, `NoTraceOfAbsent` holds through every interruption but two,
and that is what the second check at the end of `submitAllocatedTxPacket` is
for; without it the property fails.

## Runs

| Run | Instance | Shows |
|---|---|---|
| `node_link` | a node; 4 entries, 5 sequence numbers, window 3, 7 packets | store, wire and delivery agree; the inductive invariant holds; refinement of `ReliableChannel` |
| `master_link` | a master, 2 nodes; 2 entries, 3 sequence numbers, window 2, 4 packets each | types, round robin queue, retention, no assertion; refinement of `ReliableChannel` |
| `live_master` | as above, 2 packets each, one ack under way | delivery once started, no starvation, under fairness |
| `first_loss` | a node, 1 packet | violation: loss of the first packet is never repaired |
| `rx_path` | 2 nodes, 4 buffers, 2 packets each, 1 removal | accepted packets reach the application; buffers accounted for; what one step leaves for another still holds |
| `rx_hang` | 1 node, 3 buffers, 1 removal | violation: endless removal loop |
| `slot_schedule` | 2 nodes, schedules of 1 and 3, 1 removal and rejoin | service in time, master scheduled, backlog queued, no assertion, also while queues shift; the inductive invariant |
| `rejoin_level` | 1 node, 1 removal | violation: a rejoined node's backlog is ignored |
| `membership` | 2 devices, 2 IDs, one fault at any time | a heard node keeps its ID; queue, table and times to live agree; the inductive invariant; the bus stabilises |
| `stale_owner` | the same, safety only | violation: two nodes with one ID |
| `submit_race` | 2 nodes, 2 entries, 3 sequence numbers, no bound on packets | what a submission guarantees under each interruption; the inductive invariant |
| `submit_queue` | the same | violation: a destination is lost from the queue |

Bounds.  The number of sequence numbers is one more than the number of
entries, the tightest for which the window works (254 entries of 255 numbers;
nothing in the code rejects 255, see the hazards of `PROJECT.json`), and more
packets are sent than there are numbers, so that numbers wrap and every stale
header comes round again.  Two acks can be under way, one received and one on
the wire, which is what the pipelining allows.  Two destinations are enough for
round robin and shared entries.  Four receive buffers let one be with the DMA,
one be processed and two be queued, and the indices wrap.  The scheduler runs
with shortened gaps for acks (3 for 4), for servicing (3 for 6) and for
unallocated slots (2 to 3 for 2 to 80); `ServicedInTime` scales with them, and the
proof is for all of them.  With one packet buffered the master sends it in the
slot it has anyway, so the run does not reach the turn `MASTER_TX`; the proof
covers it.

In `membership` the times to live are scaled down to 2 updates of 8 slots for
the master and 8 slots for a node: the smallest for which two nodes are
serviced before they time out and a master's time has a first, a last and a
marked value.  The schedule has its real structure, with an unallocated slot
every two.  One fault is enough for a second ID, a reused ID, a restarted
master among nodes that still hold IDs.

`submit_race` has no bound on the number of packets: sequence numbers wrap in a
finite state.  It follows a behaviour through one harmful interruption
(`OneCutIn`), and stops at `header`, `stale`, `rejoin` and `clear`, after which
nothing is claimed but the trace of absent nodes; after the others no packet is
allocated while a node is absent.  A queue that two shifts have filled with
repeated IDs is still reached.  The proofs have none of these limits.

Deadlock is checked except in the `rx_*` and `submit_*` runs, where a device
really stops when it meets one of the faults.

Fairness (`FairSpec` of `TxLink`).  The slots never stop, so the handlers of
sender and peer run again and again: weak fairness of choosing, transmitting,
resolving the wire and sending acks.  The link is not broken for good: strong
fairness of processing an ack, and of receiving the packet that is expected.
Nothing is assumed of the application.

Fairness of `Membership`.  Slots keep coming: `[]<><<Slot>>_vars`, which is weak
fairness since `Slot` is always enabled.  Nodes without an ID draw random
back-offs, independently, so a node that stays without one is, again and again,
the only one whose request is ready (`FirstInLine`).  Without that two nodes may
collide for ever.  It does not say that the request gets through, nor that the
response does.

What the violations say is in `PROJECT.json` under "findings", with the line
of documentation that each contradicts.

## Proofs

TLAPS proves every safety invariant that a passing run checks, in `TxLink`,
`RxPath`, `SlotSchedule`, `SubmitRace` and `Membership`, and the refinement of
`ReliableChannel`, for every value of the constants that the named assumptions
allow.

| Module | Theorem | Statement |
|---|---|---|
| `TxLinkProofs` | `TypeCorrect` | `Spec => []TypeOK` |
| `TxLinkProofs` | `InductiveCorrect`, `NoAssertionFailsCorrect`, `ActiveIffQueuedCorrect`, `RetainedUntilDeliveredCorrect`, `PacketOnWireIntactCorrect`, `StoreMatchesWindowsCorrect` | `Spec => []P` for the property `P` of that name |
| `TxLinkProofs` | `Refinement` | `Spec => ReliableDelivery`, the refinement of `ReliableChannel` |
| `RxPathProofs` | `TypeCorrect`, `AssertionsHold` | `Spec => []TypeOK`, `Spec => []NoAssertionFails` |
| `RxPathProofs` | `BuffersHaveOneOwner`, `AcceptedAreDelivered`, `PeekedStaysIntact` | `Spec => []P` for `BuffersAccounted`, `AcceptedReachApplication`, `PeekedIntact` |
| `RxPathProofs` | `HandoffHolds` | `Spec => [](Inductive /\ Handoff)` |
| `SlotScheduleProofs` | `InductiveInvariant`, `TypeCorrect`, `AssertionsHold` | `Spec => []P` for `Inductive`, `TypeOK`, `NoAssertionFails` |
| `SlotScheduleProofs` | `MasterKeepsSlot`, `BackloggedStayQueued`, `ServicedBeforeTimeout` | `Spec => []P` for `MasterAlwaysScheduled`, `BackloggedQueuedUnlessRejoined`, `ServicedInTime` |
| `SubmitRaceProofs` | `InductiveInvariant`, `TypeCorrect`, `AssertionsHold` | `Spec => []P` for `Inductive`, `TypeOK`, `NoAssertionFails` |
| `SubmitRaceProofs` | `PublishedAreComplete`, `EntriesAreKept`, `QueueIsTheWindows`, `AbsentLeaveNoTrace` | `Spec => []P` for `PublishedComplete`, `NoEntryLost`, `QueueMatchesWindows`, `NoTraceOfAbsent` |
| `MembershipProofs` | `InductiveInvariant`, `TypeCorrect` | `Spec => []P` for `Inductive`, `TypeOK` |
| `MembershipProofs` | `NodesTimeOutFirst`, `ScheduledAreReserved`, `OffersAreReserved` | `Spec => []P` for `NodeTimesOutFirst`, `ScheduledIffReserved`, `OffersReserved` |
| `MembershipProofs` | `HeardHaveDistinctIds` | nodes whose last packet the master received have distinct IDs |

Assumptions.

* `TxManagerAssumption`, `TxLinkAssumption`, `SubmitRaceAssumption`: any finite
  set of peers smaller than `MAX_NODES` (one peer for a node), any window size,
  and fewer entries than sequence numbers.  The last is assumed: `maxEntries`
  is a `uint8_t`, so the code also accepts 255 entries, where one destination
  owning all of them has a full window that reads as empty (see the hazards).
* `RxManagerAssumption`, `RxPathAssumption`: more than two receive buffers, which
  the code asserts, and finitely many nodes.
* `SchedulerAssumption`, `SlotScheduleAssumption`: fewer nodes than `MAX_NODES`,
  countdowns that fit their bytes, and `MAX_MASTER_SLOTS_BETWEEN_ACKS <=
  MAX_SLOTS_BETWEEN_SERVICING` (4 and 6 in the code), without which a node could
  be passed over for a slot it had before the last service.  Schedules of any
  length.
* `NetworkManagerAssumption`, `MembershipAssumption`: node IDs are numbers, any
  finite set of devices, a table of any length, and a full time to live that
  outlasts the node's timeout when its first update comes at once (127 updates
  against 1536 slots, see above).

The bounds that TLC needs (`MaxSent`, `MaxAcks`, `MaxAccepted`, `MaxRemovals`,
`MaxFaults`) are arbitrary in the proofs, and `SubmitRace` is proved without
`OneCutIn`: for any number of interruptions, in any order.

### TxLink

None of the properties is inductive alone: whether the payload on the wire is
right depends on which entries are free, and that on which acks can still
arrive.  `Inductive` (in `TxLinkInv`) says of every place where a packet or a
number can be what is known of it:

* *store*: a live entry (in use, and not the one being written) holds a queued
  packet, no two the same one, and every queued number has one.  Headers are
  not cleared when an entry is freed, so the header in the entry just
  allocated can equal a queued one after a wrap; `StaleEntriesBehind` and
  `FreedBeforeAllocated` say why `findPacketEntry` is not deceived: the first
  free entry is taken, so the live match always comes first;
* *receiver*: the number expected lies in the window or just behind it, and
  its place in the window says how many packets were delivered;
* *acks*: those under way are in order, none is ahead of the receiver or
  behind the start of the window.  So a valid ack frees only accepted packets;
* *wire and chosen packet*: it was delivered at most `MaxPacketEntries`
  packets ago, so that its number cannot be the expected one again, or it is
  still due and then its entry is live.  A packet chosen behind one that its
  peer is about to accept must keep one number in reserve.

Distances between sequence numbers replace the code's case analysis on
wrapped and unwrapped windows (`NextInRangeIsDist`, `validSeqNumIsDist`,
`DistIncr`, `DistSplit`).  That at most `MaxPacketEntries` numbers are in a
window is a pigeonhole argument (`Capacity`), as is `QueueNotFull`.
`TxManagerLemmas` states what each operator of `TxManager` changes, and
`NodeQueueLemmas` what each operation on a queue does to its places and its
round robin position; both are shared with the proofs below.

### RxPath

Two threads change one circular buffer without a lock.  What makes it right is
what one step leaves for a later one, and `Handoff` (in `RxPathInv`) says that it
is still true when it is used: the room that `findFreeRxPacket` saw is there
when the packet is appended, since the application only takes entries out; the
entry that pop frees is still the first when pop moves on, since handlers only
append; the place that peek found is still the first and holds what peek
returned, or NULL after a removal.  The places of the queue from start to end
form the backlog of the application, a sequence, and each action is shown to
append to it, drop its head, or replace entries by NULL; ownership of buffers
and the order of packets are statements about that sequence.

### SlotSchedule

`ServicedInTime` is about a bound over many slots, so the invariant has to count.
A slot is worth 1.  Between two slots that `scheduleNextAllocatedNode` fills come
at most an unallocated slot and two that the master needs to send the
schedule, so an allocated slot is worth 4 and a round of the service
`4 * MAX_SLOTS_BETWEEN_SERVICING`.  `WaitBounded` says that what a node has waited,
what is left until the next service, and one round for every node in front of
it in the round robin, fit into `NODE_TIMEOUT_US`.  A slot decreases the second
term by what it adds to the first; a service moves one round from the third to
the second.  `RecentlyScheduled` covers the node whose turn is passed over
because it had one of the last slots: it has not waited long.
`QueuesDistinct` is what makes a place in the round robin belong to one node.

`since` counts from the last time the node was scheduled, or from the last
removal of any node.  A removal shifts the queue under the position of the
round robin, and a waiting node can lose its turn: with four nodes and shortened
constants TLC reaches a wait of 21 slots in total, where the timeout is 20.  So
the theorem says that the timeout is long enough between removals, and that is
the most that holds.

### SubmitRace

`Inductive` (in `SubmitRaceInv`) describes store, windows, queue and the
application's variables between any two accesses of a submission.  Each part
names the interruptions after which it is not claimed: those that mix up the
entries (`header`, `stale`, `rejoin`, `clear`) for all that is said of contents,
`shift` for what the search of the queue has seen, `leak` for entries that belong
to nobody, `wrap` for windows.  The parts that carry the argument:

* *windows* are counted up to `WrappedEnd`, the value that `txSeqNumEnd` has once
  the increment under way is wrapped, so that the increment publishes the
  packet and the wrap changes nothing (`Header`, `Complete`, `Kept`);
* *the fresh packet*: from the increment of `txSeqNumEnd` until its node is on the
  queue, the window of the destination is either queued already or holds the
  new packet only (`QueueKept`), and `Searched` carries what the search has seen
  from place to place;
* *a node that leaves* in the middle is `Orphaned`: nothing is said of its window
  until the second check of the time to live, which removes it again.
  `AbsentForgotten` holds for every other absent node in every state, and for
  this one when the submission has returned;
* *capacity*: the number after the last one of a window is free before it is
  given out, since the entries in the window and the allocated one are different
  (`Capacity`); so the increment never makes a full window read as empty;
* *acks*: a node expects a number of its window or the next one (`Expected`), so a
  valid ack frees packets that are in the store, and `nodeQueueRemove` finds its
  node (`AckNeedsQueue`).

### Membership

`NodeTimesOutFirst` compares two clocks that start at different times and count
in different units, so the invariant (`MembershipInv`) has to relate them in
every slot:

* *one unit*: `TimeLeft` turns a master's time to live, and the time since the last
  update, into slots.  `LeftFacts` shows that the timer takes one slot of it in each
  slot, also across an update;
* *not on its way* (`HeardInTime`): while no packet of a heard node is on the bus,
  the node has fewer slots left than the master gives its ID.  Both lose one slot
  in each step, so the order stays, and a node with time left means an ID with
  at least two slots left, which neither runs out nor is free;
* *on its way*: when the node sends, its time starts again and the master's only
  when the packet arrives, one slot later.  If it arrives the master has at
  least `(MASTER_MAX_TIME_TO_LIVE - 1)` updates, the assumption's bound; if not,
  the node is no longer heard.  `PacketsCurrent` says that the packet carries the
  ID the node still has, and that the next one is prepared already.

The records of an ID change one after the other in a slot: restored, given out,
freed and taken out of queues and table, and around this the timer.
`MasterStep` is what a slot does to the master; it is proved once for the timer
before the handlers and once for handlers that preempt it at an ID
(`SlotStep`, `SlotInTimerStep`), with `ProgressFacts` for the ID itself.  In the
second the handlers may see a time to live of 0 for an ID that is in the queue
and in the table, so `Matched` and `Offered` are stated up to a set of IDs that
are being updated.  If that ID is given out at this moment the table may offer it
twice, which is what `raced` excludes in `OffersReserved`; the queue is right all
the same, since `nodeQueueAdd` finds the ID, and the timer either marks it as in
use or leaves it its new time.

`SchedulerLemmas` (no assertion of the scheduler fails, the queues keep their
IDs and positions) and `NodeQueueLemmas` (removing several IDs from a queue or
the table) are shared with `SlotSchedule`.

### Only model-checked

The liveness properties (`DeliveredOnceStarted`, `Stabilises`) are out of the
prover's reach, as is everything that needs `ENABLED`.  That the fairness
conditions are met by the code is argued above, not proved.  The properties of
the violation runs are false.

## Observed without a run of their own

* `txManager.c:189`: near the wrap `windowEnd` is a number that is not in use,
  so more than `SLIDING_WINDOW_SIZE` packets go out unacknowledged.  `TxManager`
  has this computation; delivery is not affected (`ReliableDelivery`).
* `scheduler.c:143`: `unallocatedSlotGapUpdateCount` is not restarted when a new
  node is heard, so the gap can double in the very next unallocated slot; this
  costs joining time only.
* `rxManager.c:87`: if a node times out between the application's peek and pop of
  its packet, pop follows a NULL pointer.  In `RxPath` the device then
  stops with the fault "null".
* `node.c:167`: a node that has a request prepared when it joins keeps it until
  an own slot comes and sends it there.  `Membership` has this; `Stabilises`
  shows that what the master makes of it passes.

## Not modelled

* Packet layout and bit packing, statistics and logging: no control.
* The STM32 examples: hardware glue.  Their calling pattern is the environment
  of the modules.
* The single channel calls (`masterNoDelaySingleChannelProcessRx`, its
  siblings, `nodeIsTxMode`): they make the calls of the pipelined processing
  without the pipeline.  The schedules of a shared channel are in
  `SlotSchedule`.
* The reuse of `tmpPacket` by the master while the DMA may still read it: the
  pre-processing of the example stops the DMA first.
* The application of a node against `nodeReset`, which a handler calls: every
  place at which the reset comes in is harmful, so there is nothing to state
  but that it does not happen (hazard at `node.c:412`).

## What could come next

`Bus`: data over the slots of `Membership`, composing `TxManager` and `RxManager`
with the node's copy of the schedule and its real backlog.  Properties: a node
with packets gets turns and one without gives them up, and delivery from one
application to the other.
