-------------------------- MODULE SlotScheduleInv --------------------------
(***************************************************************************)
(* The inductive invariant of SlotSchedule: why every connected node is    *)
(* put in the schedule in time, whatever else wants slots.  TLC checks it  *)
(* on a small instance, and SlotScheduleProofs proves it for every number  *)
(* of nodes, length of the schedule and setting of the countdowns.         *)
(***************************************************************************)
EXTENDS SlotSchedule

QueuesDistinct ==
  Distinct(s.activeNodes) /\ Distinct(s.activeTxNodes) /\ Distinct(s.nodeTxNodes)

(* The levels the scheduler has recorded for the nodes that never left. *)
LevelsRecorded ==
  \A n \in Nodes \ removed :
    /\ s.nodeTxBufferLevel[n] = reported[n]
    /\ reported[n] > 0 => Active(n) /\ Contains(s.nodeTxNodes.nodeIds, n)
-----------------------------------------------------------------------------
(* A slot is worth 1.  Between two slots that scheduleNextAllocatedNode    *)
(* fills there can be an unallocated one and two that the master needs to  *)
(* send the schedule, so a countdown of allocated slots is worth 4 for     *)
(* each, and a round of the service 4 * MAX_SLOTS_BETWEEN_SERVICING.       *)
Turn == 2 * 2 * MaxSlotsBetweenServicing

MasterDue == s.numTxNodesScheduled > 1 /\ ~MasterScheduled(nodesToTx)

(* How many slots come before the next one that is allocated. *)
Ahead == (IF s.countTillNextAllocation = 0 THEN 2 ELSE 0) + (IF MasterDue THEN 1 ELSE 0)

(* How many slots come before the next service, at most. *)
UntilService == 4 * s.countTillNextService + Ahead

(* How many nodes are serviced before the one at place j of activeNodes.   *)
(* The queue may grow before its position wraps, but not beyond the nodes  *)
(* there are.                                                              *)
TurnsBefore(queue, j) ==
  IF j - 1 >= queue.lastIndex THEN j - 1 - queue.lastIndex
  ELSE j - 1 - queue.lastIndex + Cardinality(Nodes)

(* Whoever waits is serviced in time, if every node before it takes its    *)
(* turn, and its own turn is not passed over.                              *)
WaitBounded ==
  \A j \in 1 .. numNodes(s.activeNodes) :
    since[s.activeNodes.nodeIds[j]] + UntilService + 1 + Turn * TurnsBefore(s.activeNodes, j)
      <= Turn * MaxNodes

(* Whoever is passed over because it had a slot recently has not waited    *)
(* long.                                                                   *)
RecentlyScheduled ==
  \A i \in 1 .. MaxMasterSlotsBetweenAcks :
    s.recentScheduledNodes[i] \in Nodes =>
      since[s.recentScheduledNodes[i]] + Ahead <= 4 * (MaxMasterSlotsBetweenAcks - i) + 3

OnlyActiveWait == \A n \in Nodes : ~Active(n) => since[n] = 0

(* Every round of the round robin service leaves room for all the nodes'   *)
(* turns, with the slots that are taken by new nodes and by the master.    *)
ServiceInv == WaitBounded /\ RecentlyScheduled /\ OnlyActiveWait
-----------------------------------------------------------------------------
Inductive ==
  /\ TypeOK
  /\ NoAssertionFails
  /\ QueuesDistinct
  /\ MasterAlwaysScheduled
  /\ LevelsRecorded
  /\ ServiceInv
=============================================================================
