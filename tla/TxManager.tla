----------------------------- MODULE TxManager -----------------------------
(***************************************************************************)
(* txManager.c: the packet store and the sliding window that the master    *)
(* and every node use to send data packets.  The state of one tTxManager   *)
(* is a record; every function of txManager.c that changes it is an        *)
(* operator from the old record to the new one, so that the modules that   *)
(* model the interrupt handlers can compose the calls a handler makes.     *)
(*                                                                         *)
(* A record tm has the fields                                              *)
(*   inUse, dst, seq, data   the store, per packet entry: the in-use flag, *)
(*                           the header fields dstNodeId and txSeqNum, and *)
(*                           which packet the payload bytes belong to      *)
(*   allocated               allocatedPacket, NoSlot for NULL              *)
(*   start, end, next, pause the window, per destination                   *)
(*   active, lastTxQueueIndex the destinations with queued packets, and    *)
(*                           the round robin position in that queue        *)
(*   fault                   an assertion of the code has failed: the      *)
(*                           program spins in assertMessage forever        *)
(*                                                                         *)
(* Header fields and payload stay in memory when an entry is freed.        *)
(*                                                                         *)
(* Operators marked "seeded fault" are faulty variants of the operator     *)
(* they precede.  No specification uses them: PROJECT.json names them to   *)
(* show that each property fails when the code is wrong in that way.       *)
(***************************************************************************)
EXTENDS Integers, FiniteSets, FiniteSetsExt, NodeQueue

CONSTANTS
  Peers,              \* the destinations of this manager
  NoPeer,             \* the dstNodeId found in zeroed packet memory
  IsMaster,           \* the manager is the master's, else a node's
  MaxPacketEntries,   \* packetStore.maxEntries
  MaxSequenceNum,     \* MAX_SEQUENCE_NUM: sequence numbers run below it
  SlidingWindowSize   \* SLIDING_WINDOW_SIZE

ASSUME TxManagerAssumption ==
  /\ IsFiniteSet(Peers)
  /\ NoPeer \notin Peers
  /\ IsMaster \in BOOLEAN
  /\ Peers # {}
  /\ ~IsMaster => \A p, q \in Peers : p = q
  /\ MaxNodes \in Nat
  /\ Cardinality(Peers) < MaxNodes
  /\ MaxSequenceNum \in Nat
  /\ MaxPacketEntries \in 1 .. MaxSequenceNum - 1
  /\ SlidingWindowSize \in 1 .. MaxSequenceNum - 1

Slots  == 1 .. MaxPacketEntries
NoSlot == 0
SeqNums == 0 .. MaxSequenceNum - 1

(* INVALID_SEQUENCE_NUM and NULL_SEQUENCE_NUM are the same value, the one  *)
(* that no packet carries.                                                 *)
NullSequenceNum == MaxSequenceNum

(* Packet n of destination d is the n-th the application submits to d.     *)
(* Torn is what payload memory holds while the application is writing it.  *)
Packet(d, n) == <<d, n>>
Torn == Packet(NoPeer, 0)

(* INCR_SEQUENCE_NUM *)
IncrNoWrap(s) == s + 1  \* seeded fault
Incr(s) == IF s + 1 >= MaxSequenceNum THEN 0 ELSE s + 1

(* How many increments lead from a to b. *)
Dist(a, b) == IF b >= a THEN b - a ELSE b - a + MaxSequenceNum

initTxManager ==
  [inUse            |-> [i \in Slots |-> FALSE],
   dst              |-> [i \in Slots |-> NoPeer],
   seq              |-> [i \in Slots |-> 0],
   data             |-> [i \in Slots |-> Torn],
   allocated        |-> NoSlot,
   start            |-> [d \in Peers |-> 0],
   end              |-> [d \in Peers |-> 0],
   next             |-> [d \in Peers |-> 0],
   pause            |-> [d \in Peers |-> 0],
   active           |-> EmptyQueue,
   lastTxQueueIndex |-> 0,
   fault            |-> FALSE]

(* The type of a manager whose payload memory holds values of Payloads and *)
(* whose txSeqNumEnd are in Ends.                                          *)
TxManagers(Payloads, Ends) ==
  [inUse            : [Slots -> BOOLEAN],
   dst              : [Slots -> Peers \cup {NoPeer}],
   seq              : [Slots -> SeqNums],
   data             : [Slots -> Payloads],
   allocated        : Slots \cup {NoSlot},
   start            : [Peers -> SeqNums],
   end              : [Peers -> Ends],
   next             : [Peers -> SeqNums],
   pause            : [Peers -> 0 .. 2],
   active           : [nodeIds : Seq(Peers), lastIndex : Nat],
   lastTxQueueIndex : Nat,
   fault            : BOOLEAN]

Faulty(tm) == [tm EXCEPT !.fault = TRUE]
-----------------------------------------------------------------------------
(* The packet store *)

(* The entries that findPacketEntry accepts for a destination and sequence *)
(* number.  A node has one destination and does not compare it.            *)
Matching(tm, d, s) ==
  {i \in Slots : tm.inUse[i] /\ (IsMaster => tm.dst[i] = d) /\ tm.seq[i] = s}

(* The first match; the code asserts that there is one. *)
findPacketEntry(tm, d, s) == Min(Matching(tm, d, s))

FreeSlots(tm) == {i \in Slots : ~tm.inUse[i]}

(* The entry that is taken. *)
allocateLastEntry(tm) == Max(FreeSlots(tm))  \* seeded fault
allocatePacketEntry(tm) == Min(FreeSlots(tm))

(* The application's call.  The entry is taken before anything else is     *)
(* checked: an outstanding allocation is an assertion failure, and a full  *)
(* queue of destinations leaves the entry taken.                           *)
allocateTxPacket(tm) ==
  LET i     == allocatePacketEntry(tm)
      taken == [tm EXCEPT !.inUse[i] = TRUE]
  IN  IF FreeSlots(tm) = {} THEN tm
      ELSE IF tm.allocated # NoSlot THEN Faulty(taken)
      ELSE IF IsMaster /\ QueueFull(tm.active) THEN taken
      ELSE [taken EXCEPT !.allocated = i, !.data[i] = Torn]

(* submitAllocatedTxPacket for payload id to destination d.  A master whose *)
(* destination has no time to live forgets the allocation, and does not    *)
(* free the entry.                                                         *)
submitAllocatedTxPacket(tm, ttl, d, id) ==
  LET i      == tm.allocated
      s      == tm.end[d]
      filled == [tm EXCEPT !.dst[i]    = IF IsMaster THEN d ELSE @,
                           !.seq[i]    = s,
                           !.data[i]   = id,
                           !.end[d]    = Incr(s),
                           !.allocated = NoSlot]
  IN  IF IsMaster /\ ttl = 0 THEN [tm EXCEPT !.allocated = NoSlot]
      ELSE IF ~IsMaster \/ s # tm.start[d] THEN filled
      ELSE IF QueueFull(tm.active) THEN Faulty(filled)
      ELSE [filled EXCEPT !.active = nodeQueueAdd(@, d)]
-----------------------------------------------------------------------------
(* Choosing the next packet *)

(* windowEnd is a uint8_t: it wraps at MaxSequenceNum + 1, one later than  *)
(* the sequence numbers do.                                                *)
windowEnd(tm, d) == (tm.start[d] + SlidingWindowSize) % (MaxSequenceNum + 1)

(* The assertion on txSeqNumNext in getNextTxPacketForNode. *)
NextInRange(tm, d) ==
  IF tm.end[d] >= tm.start[d]
  THEN tm.next[d] >= tm.start[d] /\ tm.next[d] <= tm.end[d]
  ELSE tm.next[d] >= tm.start[d] \/ tm.next[d] <= tm.end[d]

(* Not paused and not empty: getNextTxPacketForNode does something. *)
Ready(tm, d) == tm.pause[d] = 0 /\ tm.start[d] # tm.end[d]

AtWindowEnd(tm, d) == tm.next[d] = tm.end[d] \/ tm.next[d] = windowEnd(tm, d)

(* The calls that trip an assertion, that find a packet, and that pause. *)
Asserts(tm, d) ==
  /\ Ready(tm, d)
  /\ \/ ~NextInRange(tm, d)
     \/ ~AtWindowEnd(tm, d) /\ Matching(tm, d, tm.next[d]) = {}
Finds(tm, d)  == Ready(tm, d) /\ ~AtWindowEnd(tm, d)
Pauses(tm, d) == Ready(tm, d) /\ AtWindowEnd(tm, d)

(* At the end of the window or of the queued packets, wait for 2 acks. *)
Pause(tm, D) ==
  [tm EXCEPT !.pause = [d \in Peers |-> IF d \in D /\ Pauses(tm, d) THEN 2 ELSE @[d]]]

(* Both operators below return the manager and the entry to send. *)
getNextTxPacketForNode(tm, d) ==
  IF Asserts(tm, d) THEN [tm |-> Faulty(tm), entry |-> NoSlot]
  ELSE IF Finds(tm, d)
       THEN [tm    |-> [tm EXCEPT !.next[d] = Incr(@)],
             entry |-> findPacketEntry(tm, d, tm.next[d])]
       ELSE [tm |-> Pause(tm, {d}), entry |-> NoSlot]

(* Seeded fault: serves only the destination served last. *)
masterGetLastTxDataPacket(tm) ==
  LET n == numNodes(tm.active)
  IN  IF n = 0 THEN [tm |-> tm, entry |-> NoSlot]
      ELSE getNextTxPacketForNode(
             tm, tm.active.nodeIds[IF tm.lastTxQueueIndex >= n THEN n ELSE tm.lastTxQueueIndex + 1])

(* masterGetNextTxDataPacket: round robin over the active destinations,    *)
(* starting behind the one served last, until one has a packet to send.    *)
(* The destinations tried before it may be told to pause.  burstSize is    *)
(* always 1.                                                               *)
masterGetNextTxDataPacket(tm) ==
  LET n      == numNodes(tm.active)
      last   == IF tm.lastTxQueueIndex >= n THEN n - 1 ELSE tm.lastTxQueueIndex
      pos(k) == (last + k) % n
      at(k)  == tm.active.nodeIds[pos(k) + 1]
      stops  == {k \in 1 .. n : Finds(tm, at(k)) \/ Asserts(tm, at(k))}
      k      == IF stops = {} THEN n ELSE Min(stops)
      tried  == Pause(tm, {at(j) : j \in 1 .. k - 1})
      result == getNextTxPacketForNode(tried, at(k))
  IN  IF n = 0 THEN [tm |-> tm, entry |-> NoSlot]
      ELSE [result EXCEPT !.tm.lastTxQueueIndex = pos(k)]

(* nodeGetNextTxDataPacket or masterGetNextTxDataPacket. *)
getNextTxDataPacket(tm) ==
  IF IsMaster THEN masterGetNextTxDataPacket(tm)
  ELSE getNextTxPacketForNode(tm, CHOOSE d \in Peers : TRUE)
-----------------------------------------------------------------------------
(* Acknowledgements *)

(* The test for a sequence number that is queued, in rxAckSeqNum. *)
validSeqNum(tm, d, ack) ==
  IF tm.end[d] < tm.start[d]
  THEN ack >= tm.start[d] \/ ack < tm.end[d]
  ELSE ack >= tm.start[d] /\ ack < tm.end[d]

(* The sequence numbers that an ack moves the window over. *)
Acked(tm, d, newStart) ==
  {s \in SeqNums : Dist(tm.start[d], s) < Dist(tm.start[d], newStart)}

(* If the window was restarted before the ack came, next follows start. *)
NextStays(tm, d, newStart) == tm.next[d]  \* seeded fault
NextAfterAck(tm, d, newStart) ==
  IF tm.next[d] \in Acked(tm, d, newStart) THEN newStart ELSE tm.next[d]

(* The master takes a destination that became empty off the active queue;  *)
(* nodeQueueRemove asserts that it is there.                               *)
DeactivateNever(tm, d) == tm  \* seeded fault
DeactivateAlways(tm, d) ==  \* seeded fault
  IF ~IsMaster THEN tm
  ELSE IF ~Contains(tm.active.nodeIds, d) THEN Faulty(tm)
  ELSE [tm EXCEPT !.active = nodeQueueRemoveIfExists(@, d)]
DeactivateIfEmpty(tm, d) ==
  IF ~IsMaster \/ tm.start[d] # tm.end[d] THEN tm
  ELSE IF ~Contains(tm.active.nodeIds, d) THEN Faulty(tm)
  ELSE [tm EXCEPT !.active = nodeQueueRemoveIfExists(@, d)]

(* A valid ack frees every packet up to it and moves the window. *)
Acknowledge(tm, d, ack) ==
  LET newStart == Incr(ack)
      acked    == Acked(tm, d, newStart)
      freed    == {findPacketEntry(tm, d, s) : s \in acked}
  IN  IF \E s \in acked : Matching(tm, d, s) = {} THEN Faulty(tm)
      ELSE DeactivateIfEmpty(
             [tm EXCEPT !.inUse    = [i \in Slots |-> @[i] /\ i \notin freed],
                        !.next[d]  = NextAfterAck(tm, d, newStart),
                        !.start[d] = newStart,
                        !.pause[d] = 0],
             d)

(* Any other ack counts down the pause; when it ends the window restarts. *)
CountDown(tm, d) ==
  LET count == tm.pause[d] - 1
  IN  IF tm.pause[d] = 0 THEN tm
      ELSE [tm EXCEPT !.pause[d] = count,
                      !.next[d]  = IF count = 0 THEN tm.start[d] ELSE @]

(* The ack of a peer that has received nothing yet is ignored. *)
rxAckSeqNum(tm, d, ack) ==
  IF ack = NullSequenceNum THEN tm
  ELSE IF validSeqNum(tm, d, ack) THEN Acknowledge(tm, d, ack)
  ELSE CountDown(tm, d)

(* The receiving side: rx is rxSeqNum of the sender, and a packet is       *)
(* accepted only when it carries the next number.                          *)
expectedSeqNum(rx) == IF rx = NullSequenceNum THEN 0 ELSE Incr(rx)

rxPacketUpdateSeqNum(rx, s) == s  \* seeded fault
rxPacketCheckAndUpdateSeqNum(rx, s) == IF s = expectedSeqNum(rx) THEN s ELSE rx
=============================================================================
