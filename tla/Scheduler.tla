----------------------------- MODULE Scheduler -----------------------------
(***************************************************************************)
(* scheduler.c: which node may transmit in which slot.  The operators work *)
(* on a record s that holds tSchedulerState and the three queues it points *)
(* to:                                                                     *)
(*   activeNodes    all connected nodes, for servicing                     *)
(*   activeTxNodes  the nodes that owe the master an ack                   *)
(*   nodeTxNodes    the nodes that said they have more packets to send     *)
(* with nodeTxBufferLevel, recentScheduledNodes, nextTurn, the countdowns  *)
(* countTillNextAllocation and countTillNextService, unallocatedSlotGap    *)
(* and its unallocatedSlotGapUpdateCount.  numTxNodesScheduled is the      *)
(* length of the schedule, above 1 if master and nodes share a channel.    *)
(*                                                                         *)
(* An operator marked "seeded fault" is a faulty variant of the operator   *)
(* it precedes, as in TxManager.                                           *)
(***************************************************************************)
EXTENDS Integers, FiniteSetsExt, NodeQueue

CONSTANTS
  Nodes,                            \* the node IDs a master can give out
  Master, Unallocated, Invalid,     \* the three reserved node IDs
  MaxMasterSlotsBetweenAcks,        \* MAX_MASTER_SLOTS_BETWEEN_ACKS
  MaxSlotsBetweenServicing,         \* MAX_SLOTS_BETWEEN_SERVICING
  MinSlotsBetweenUnallocated,       \* MIN_SLOTS_BETWEEN_UNALLOCATED
  MaxSlotsBetweenUnallocated,       \* maxSlotsBetweenUnallocated
  NumSlotsBeforeAllocationChanged,  \* NUM_SLOTS_BEFORE_ALLOCATION_CHANGED
  ByteSize                          \* the countdowns are bytes: they wrap here

ASSUME SchedulerAssumption ==
  /\ IsFiniteSet(Nodes)
  /\ Cardinality({Master, Unallocated, Invalid}) = 3
  /\ {Master, Unallocated, Invalid} \cap Nodes = {}
  /\ MaxNodes \in Nat /\ Cardinality(Nodes) < MaxNodes
  /\ MaxMasterSlotsBetweenAcks \in Nat \ {0}
  /\ ByteSize \in Nat
  /\ MaxSlotsBetweenServicing \in 1 .. ByteSize - 1
  \* who had one of the last slots had it since the last service (4 and 6)
  /\ MaxMasterSlotsBetweenAcks <= MaxSlotsBetweenServicing
  /\ MaxSlotsBetweenUnallocated \in Nat
  /\ MinSlotsBetweenUnallocated \in 2 .. MaxSlotsBetweenUnallocated
  /\ NumSlotsBeforeAllocationChanged \in 1 .. ByteSize - 1
  \* doubling the gap never overflows the byte
  /\ 2 * (MaxSlotsBetweenUnallocated - 1) < ByteSize

Turns == {"MASTER_TX", "MASTER_RX_ACK", "NODE_TX"}
TurnAfter(turn) ==
  CASE turn = "MASTER_TX"     -> "MASTER_RX_ACK"
    [] turn = "MASTER_RX_ACK" -> "NODE_TX"
    [] turn = "NODE_TX"       -> "MASTER_TX"

schedulerInit(numTxNodesScheduled) ==
  [numTxNodesScheduled           |-> numTxNodesScheduled,
   unallocatedSlotGap            |-> MinSlotsBetweenUnallocated,
   countTillNextAllocation       |-> MinSlotsBetweenUnallocated,
   unallocatedSlotGapUpdateCount |-> 0,
   countTillNextService          |-> 0,
   nextTurn                      |-> "MASTER_TX",
   recentScheduledNodes          |-> [i \in 1 .. MaxMasterSlotsBetweenAcks |-> Master],
   nodeTxBufferLevel             |-> [n \in Nodes |-> 0],
   activeNodes                   |-> EmptyQueue,
   activeTxNodes                 |-> EmptyQueue,
   nodeTxNodes                   |-> EmptyQueue,
   fault                         |-> FALSE]

(* NEW_NODE_HEARD_UPDATE_SCHEDULER *)
newNodeHeard(s) ==
  [s EXCEPT !.unallocatedSlotGap      = MinSlotsBetweenUnallocated,
            !.countTillNextAllocation = MinSlotsBetweenUnallocated]

Asserted(s, cond) == IF cond THEN s ELSE [s EXCEPT !.fault = TRUE]

(* The types of the queues and of the scheduler, for schedules of the      *)
(* given lengths and the given buffer levels.  A round robin position      *)
(* points at an entry of its queue, and no node ID is queued twice.        *)
Queues == [nodeIds : Seq(Nodes), lastIndex : Nat]
PositionOK(queue) == queue.lastIndex = 0 \/ queue.lastIndex < numNodes(queue)
Distinct(queue) ==
  \A j, k \in 1 .. numNodes(queue) : queue.nodeIds[j] = queue.nodeIds[k] => j = k
QueueOK(queue) == PositionOK(queue) /\ Distinct(queue)
Schedulers(lengths, levels) ==
  [numTxNodesScheduled           : lengths,
   unallocatedSlotGap            : MinSlotsBetweenUnallocated .. MaxSlotsBetweenUnallocated,
   countTillNextAllocation       : 0 .. ByteSize - 1,
   unallocatedSlotGapUpdateCount : 0 .. ByteSize - 1,
   countTillNextService          : 0 .. MaxSlotsBetweenServicing,
   nextTurn                      : Turns,
   recentScheduledNodes          : [1 .. MaxMasterSlotsBetweenAcks -> Nodes \cup {Master, Invalid}],
   nodeTxBufferLevel             : [Nodes -> levels],
   activeNodes                   : Queues,
   activeTxNodes                 : Queues,
   nodeTxNodes                   : Queues,
   fault                         : BOOLEAN]
-----------------------------------------------------------------------------
(* Candidates.  Each operator returns the scheduler and a node or Invalid. *)

(* The node of the last allocated slot is not among those looked at. *)
nodeRecentlySent(s, n) ==
  \E i \in 1 .. MaxMasterSlotsBetweenAcks - 1 : s.recentScheduledNodes[i] = n

(* The first node from the round robin position that was not just given a  *)
(* slot.  The assertion bounds how many are passed over.                   *)
getNextMasterRxAckNode(s) ==
  LET queue  == s.activeTxNodes
      n      == numNodes(queue)
      usable == {k \in 0 .. n - 1 : ~nodeRecentlySent(s, NodeAfter(queue, k))}
      passed == Min(usable \cup {n})
  IN  [s    |-> Asserted(IF n = 0 THEN s
                         ELSE [s EXCEPT !.activeTxNodes =
                                 getNextNodesInQueue(@, IF passed = n THEN n ELSE passed + 1)],
                         passed <= MaxMasterSlotsBetweenAcks),
       node |-> IF passed = n THEN Invalid ELSE NodeAfter(queue, passed)]

getNextNodeTxNode(s) ==
  IF numNodes(s.nodeTxNodes) = 0 THEN [s |-> s, node |-> Invalid]
  ELSE [s    |-> [s EXCEPT !.nodeTxNodes = getNextNodesInQueue(@, 1)],
        node |-> NodeAfter(s.nodeTxNodes, 0)]

(* Seeded fault: the position moves on only when the node is scheduled. *)
getSameServiceNode(s, avoidRecentlyScheduled) ==
  LET reset == [s EXCEPT !.countTillNextService = MaxSlotsBetweenServicing]
      node  == NodeAfter(s.activeNodes, 0)
  IN  IF numNodes(s.activeNodes) = 0 \/ (avoidRecentlyScheduled /\ nodeRecentlySent(s, node))
      THEN [s |-> reset, node |-> Invalid]
      ELSE [s |-> reset, node |-> node]

(* Seeded fault: the countdown starts again only when a node is found. *)
getServiceNodeNoReset(s, avoidRecentlyScheduled) ==
  LET reset == [s EXCEPT !.countTillNextService = MaxSlotsBetweenServicing]
      node  == NodeAfter(s.activeNodes, 0)
      moved == [reset EXCEPT !.activeNodes = getNextNodesInQueue(@, 1)]
  IN  IF numNodes(s.activeNodes) = 0 THEN [s |-> s, node |-> Invalid]
      ELSE IF avoidRecentlyScheduled /\ nodeRecentlySent(s, node)
           THEN [s |-> moved, node |-> Invalid]
           ELSE [s |-> moved, node |-> node]

(* The next connected node in turn.  If it had a slot recently its turn is *)
(* over all the same.                                                      *)
getNextServiceNode(s, avoidRecentlyScheduled) ==
  LET reset == [s EXCEPT !.countTillNextService = MaxSlotsBetweenServicing]
      node  == NodeAfter(s.activeNodes, 0)
      moved == [reset EXCEPT !.activeNodes = getNextNodesInQueue(@, 1)]
  IN  IF numNodes(s.activeNodes) = 0 THEN [s |-> reset, node |-> Invalid]
      ELSE IF avoidRecentlyScheduled /\ nodeRecentlySent(s, node)
           THEN [s |-> moved, node |-> Invalid]
           ELSE [s |-> moved, node |-> node]

(* What a turn offers.  The master gets turns in a shared channel only,    *)
(* when it has more packets than it is already scheduled for.              *)
Candidate(s, turn, masterTxBufferLevel) ==
  CASE turn = "MASTER_TX" ->
         [s    |-> s,
          node |-> IF s.numTxNodesScheduled > 1 /\ masterTxBufferLevel > 0
                   THEN Master ELSE Invalid]
    [] turn = "MASTER_RX_ACK" -> getNextMasterRxAckNode(s)
    [] turn = "NODE_TX" -> getNextNodeTxNode(s)
-----------------------------------------------------------------------------
(* The next slot *)

(* The turn's candidate is taken unless an earlier turn had one; either    *)
(* way the turn is over.                                                   *)
TakeTurn(found, masterTxBufferLevel) ==
  IF found.node # Invalid THEN found
  ELSE [Candidate(found.s, found.s.nextTurn, masterTxBufferLevel)
          EXCEPT !.s.nextTurn = TurnAfter(@)]

(* Each of the three turns gets a chance, from nextTurn on. *)
TakeTurns(found, masterTxBufferLevel) ==
  LET first  == TakeTurn(found, masterTxBufferLevel)
      second == TakeTurn(first, masterTxBufferLevel)
  IN  TakeTurn(second, masterTxBufferLevel)

ServiceIfDue(s) ==
  IF s.countTillNextService = 0 THEN getNextServiceNode(s, TRUE)
  ELSE [s |-> s, node |-> Invalid]

ServiceIfNone(found) ==
  IF found.node # Invalid THEN found ELSE getNextServiceNode(found.s, FALSE)

(* Servicing when it is due, else the turns, else servicing early. *)
scheduleNextAllocatedNode(s, masterTxBufferLevel) ==
  ServiceIfNone(TakeTurns(ServiceIfDue(s), masterTxBufferLevel))

(* The gap between unallocated slots after one more of them. *)
AdaptGap(s) ==
  LET count   == (s.unallocatedSlotGapUpdateCount + 1) % ByteSize
      doubled == (2 * s.unallocatedSlotGap) % ByteSize
      capped  == IF doubled > MaxSlotsBetweenUnallocated
                 THEN MaxSlotsBetweenUnallocated ELSE doubled
  IN  IF s.unallocatedSlotGap = MaxSlotsBetweenUnallocated THEN s
      ELSE [s EXCEPT !.unallocatedSlotGapUpdateCount = count,
                     !.unallocatedSlotGap =
                        IF count = NumSlotsBeforeAllocationChanged THEN capped ELSE @]

scheduleUnallocatedSlot(s) ==
  [s    |-> [s EXCEPT !.countTillNextAllocation = (s.unallocatedSlotGap - 1) % ByteSize],
   node |-> Unallocated]

(* The slot is given to the node that was found, or to new nodes. *)
RecordAllocated(found) ==
  IF found.s.countTillNextAllocation = 0 \/ found.s.countTillNextService = 0
  THEN [found EXCEPT !.s = Asserted(@, FALSE)]
  ELSE [s    |-> [found.s EXCEPT !.countTillNextAllocation = @ - 1,
                                 !.countTillNextService    = @ - 1,
                                 !.recentScheduledNodes    = Append(Tail(@), found.node)],
        node |-> IF found.node = Invalid THEN Unallocated ELSE found.node]

scheduleNextNode(s, masterTxBufferLevel) ==
  IF s.countTillNextAllocation = 0
  THEN scheduleUnallocatedSlot(AdaptGap(s))
  ELSE RecordAllocated(scheduleNextAllocatedNode(s, masterTxBufferLevel))
-----------------------------------------------------------------------------
(* schedulerUpdateAndCalcNextTxNodes: the schedule nodesToTx moves on by   *)
(* one slot, and a new node is added at its end.  It must always hold the  *)
(* master, whose packets tell the nodes the schedule.                      *)

(* Seeded fault: looks for the master in the slot that is just leaving. *)
MasterScheduledBefore(nodesToTx) == Master \in Range(nodesToTx)
MasterScheduled(nodesToTx) == Master \in Range(Tail(nodesToTx))

RemainingLevel(nodesToTx, masterTxBufferLevel) ==
  LET scheduled == Cardinality({i \in 2 .. Len(nodesToTx) : nodesToTx[i] = Master})
  IN  IF masterTxBufferLevel > scheduled THEN masterTxBufferLevel - scheduled ELSE 0

AddToSchedule(nodesToTx, next) ==
  [s |-> next.s, nodesToTx |-> Append(Tail(nodesToTx), next.node)]

schedulerUpdateAndCalcNextTxNodes(s, nodesToTx, masterTxBufferLevel) ==
  LET shared == s.numTxNodesScheduled > 1
      level  == IF shared THEN RemainingLevel(nodesToTx, masterTxBufferLevel) ELSE 0
  IN  AddToSchedule(nodesToTx, IF shared /\ ~MasterScheduled(nodesToTx)
                               THEN [s |-> s, node |-> Master]
                               ELSE scheduleNextNode(s, level))

(* The node told in its data packet how many packets it has buffered. *)
updateLevelAboveOne(s, n, bufferLevel) ==  \* seeded fault: off by one
  [s EXCEPT !.nodeTxBufferLevel[n] = bufferLevel,
            !.nodeTxNodes = IF bufferLevel > 1 THEN nodeQueueAdd(@, n) ELSE @]
schedulerUpdateNodeTxBufferLevel(s, n, bufferLevel) ==
  LET old == s.nodeTxBufferLevel[n]
      new == [s EXCEPT !.nodeTxBufferLevel[n] = bufferLevel]
  IN  IF old = 0 /\ bufferLevel > 0
      THEN Asserted([new EXCEPT !.nodeTxNodes = nodeQueueAdd(@, n)], ~QueueFull(s.nodeTxNodes))
      ELSE IF old > 0 /\ bufferLevel = 0
      THEN Asserted([new EXCEPT !.nodeTxNodes = nodeQueueRemoveIfExists(@, n)],
                  Contains(s.nodeTxNodes.nodeIds, n))
      ELSE new
=============================================================================
