---------------------------- MODULE SlotSchedule ----------------------------
(***************************************************************************)
(* The master's slot schedule as it runs: every slot masterUpdateSchedule  *)
(* moves the schedule on, and what is then received from the node that had *)
(* the slot before changes the queues the scheduler picks from, as do the  *)
(* application's submissions and the removal of nodes that timed out.      *)
(*                                                                         *)
(* The master's packet queues are abstracted to how many packets are       *)
(* buffered in a slot, and to when a node's window fills and empties; the  *)
(* registration of a new node to its ID being added to activeNodes.        *)
(***************************************************************************)
EXTENDS Scheduler

CONSTANTS ScheduleLengths,  \* the values of numTxNodesScheduled
          MaxBufferLevel,   \* bound: packets that master or node have buffered
          MaxRemovals       \* bound: nodes removed

ASSUME SlotScheduleAssumption ==
  ScheduleLengths \subseteq Nat \ {0} /\ MaxBufferLevel \in Nat \ {0} /\ MaxRemovals \in Nat

VARIABLES
  s,          \* the scheduler
  nodesToTx,  \* nextTxNodeId: who transmits in the slots to come
  current,    \* currentTxNodeId: who transmits in this slot
  answer,     \* who transmitted in the slot before, until it is processed
  since,      \* since[n]: slots since n was last put in the schedule, or
              \* since a node was last removed
  reported,   \* reported[n]: the buffer level n reported last since it joined
  removed     \* the nodes that were removed, whether or not they came back

vars == <<s, nodesToTx, current, answer, since, reported, removed>>

Init ==
  /\ s \in {schedulerInit(k) : k \in ScheduleLengths}
  /\ nodesToTx = [i \in 1 .. s.numTxNodesScheduled |-> Master]
  /\ current = Master
  /\ answer = Invalid
  /\ since = [n \in Nodes |-> 0]
  /\ reported = [n \in Nodes |-> 0]
  /\ removed = {}

Active(n) == Contains(s.activeNodes.nodeIds, n)
-----------------------------------------------------------------------------
(* masterUpdateSchedule, at the start of every slot. *)
Slot(masterTxBufferLevel) ==
  /\ ~s.fault
  /\ \E next \in {schedulerUpdateAndCalcNextTxNodes(s, nodesToTx, masterTxBufferLevel)} :
       s' = next.s /\ nodesToTx' = next.nodesToTx
  /\ since' = [n \in Nodes |-> IF n = Last(nodesToTx') \/ ~Active(n)
                               THEN 0 ELSE since[n] + 1]
  /\ current' = nodesToTx[1]
  /\ answer' = current
  /\ UNCHANGED <<reported, removed>>

(* masterProcessRx of a node's packet: the acks in it may empty the        *)
(* window to the node, and a data packet in sequence tells how many the    *)
(* node has buffered, itself included.  Nobody looks at the time to live   *)
(* of the ID: the master expects number 0 of a node that it has removed,   *)
(* and takes the first data of an owner that was late to learn its ID.     *)
(* Only a node that was given the ID sends with it.                        *)
RxPacket(n, emptied, isData, bufferLevel) ==
  /\ ~s.fault
  /\ answer = n
  /\ Active(n) \/ n \in removed
  /\ emptied => Contains(s.activeTxNodes.nodeIds, n)
  /\ LET acked == IF emptied
                  THEN [s EXCEPT !.activeTxNodes = nodeQueueRemoveIfExists(@, n)] ELSE s
     IN  s' = IF isData THEN schedulerUpdateNodeTxBufferLevel(acked, n, bufferLevel) ELSE acked
  /\ reported' = IF isData THEN [reported EXCEPT ![n] = bufferLevel] ELSE reported
  /\ answer' = Invalid
  /\ UNCHANGED <<nodesToTx, current, since, removed>>

(* masterProcessRx of a request to join: id is the ID registered for it,   *)
(* Invalid if the network is full or the node is already registered.  A    *)
(* node that has joined in the meantime sends the request it kept in its   *)
(* own slot.                                                               *)
RxNewNodeRequest(id) ==
  /\ ~s.fault
  /\ answer \in Nodes \cup {Unallocated}
  /\ ~Active(id)
  /\ LET added == [s EXCEPT !.activeNodes = nodeQueueAdd(@, id)]
     IN  s' = newNodeHeard(IF id = Invalid THEN s
                           ELSE Asserted(added, ~QueueFull(s.activeNodes)))
  /\ reported' = [n \in Nodes |-> IF n = id THEN 0 ELSE reported[n]]
  /\ answer' = Invalid
  /\ UNCHANGED <<nodesToTx, current, since, removed>>

(* The application submits the first packet of a window to a node. *)
SubmitTxPacket(n) ==
  /\ ~s.fault
  /\ Active(n)
  /\ ~Contains(s.activeTxNodes.nodeIds, n)
  /\ s' = Asserted([s EXCEPT !.activeTxNodes = nodeQueueAdd(@, n)], ~QueueFull(s.activeTxNodes))
  /\ UNCHANGED <<nodesToTx, current, answer, since, reported, removed>>

(* masterRemoveAnyTimeoutNodes, for a node whose time to live ran out.     *)
(* The queues shift under their round robin positions, which can cost      *)
(* another node its turn: waiting is counted from here.                    *)
RemoveNode(n) ==
  /\ ~s.fault
  /\ Cardinality(removed) < MaxRemovals
  /\ Active(n)
  /\ s' = [s EXCEPT !.activeNodes   = nodeQueueRemoveIfExists(@, n),
                    !.nodeTxNodes   = nodeQueueRemoveIfExists(@, n),
                    !.activeTxNodes = nodeQueueRemoveIfExists(@, n)]
  /\ removed' = removed \cup {n}
  /\ since' = [m \in Nodes |-> 0]
  /\ UNCHANGED <<nodesToTx, current, answer, reported>>
-----------------------------------------------------------------------------
Next ==
  \/ \E level \in 0 .. MaxBufferLevel : Slot(level)
  \/ \E n \in Nodes :
       \/ \E emptied, isData \in BOOLEAN, level \in 1 .. MaxBufferLevel :
            RxPacket(n, emptied, isData, level)
       \/ SubmitTxPacket(n)
       \/ RemoveNode(n)
  \/ \E id \in Nodes \cup {Invalid} : RxNewNodeRequest(id)

Spec == Init /\ [][Next]_vars
-----------------------------------------------------------------------------
(* Properties *)

(* Every variable and field has its type, and every round robin position   *)
(* points at an entry of its queue.                                        *)
TypeOK ==
  /\ s \in Schedulers(ScheduleLengths, 0 .. MaxBufferLevel)
  /\ PositionOK(s.activeNodes) /\ PositionOK(s.activeTxNodes) /\ PositionOK(s.nodeTxNodes)
  /\ nodesToTx \in [1 .. s.numTxNodesScheduled -> Nodes \cup {Master, Unallocated}]
  /\ current \in Nodes \cup {Master, Unallocated}
  /\ answer \in Nodes \cup {Master, Unallocated, Invalid}
  /\ since \in [Nodes -> Nat]
  /\ reported \in [Nodes -> 0 .. MaxBufferLevel] /\ removed \subseteq Nodes

(* The scheduler's assertions hold: the countdowns have not run out when   *)
(* they are decremented, few nodes are passed over in the search for one   *)
(* that owes an ack, and no queue of nodes is full when one is added.      *)
NoAssertionFails == ~s.fault

(* A connected node is put in the schedule before its time to live can run *)
(* out.  NODE_TIMEOUT_US is 2 * 2 * MAX_SLOTS_BETWEEN_SERVICING *          *)
(* MAX_NODES slots (networkManager.h), whatever acks, data, joining nodes  *)
(* and unallocated slots compete for the schedule.  A removal during the   *)
(* wait can cost the node its turn, and so one more such time.             *)
ServicedInTime ==
  \A n \in Nodes : since[n] <= 2 * 2 * MaxSlotsBetweenServicing * MaxNodes

(* The schedule always holds a slot of the master's, else the nodes would  *)
(* never hear the rest of it ("to ensure the next schedule gets sent       *)
(* out", scheduler.c).                                                     *)
MasterAlwaysScheduled == s.numTxNodesScheduled > 1 => Master \in Range(nodesToTx)

(* "Record if the node has more packets it wants to send" (scheduler.c): a *)
(* connected node that has reported buffered packets is in nodeTxNodes,    *)
(* and so gets slots to send them.  A node that left and came back refutes *)
(* it, since the level recorded for its ID outlives its stay.              *)
BackloggedQueued ==
  \A n \in Nodes : Active(n) /\ reported[n] > 0 => Contains(s.nodeTxNodes.nodeIds, n)

(* The same for the nodes that never left, whoever else comes and goes.    *)
BackloggedQueuedUnlessRejoined ==
  \A n \in Nodes \ removed :
    Active(n) /\ reported[n] > 0 => Contains(s.nodeTxNodes.nodeIds, n)
=============================================================================
