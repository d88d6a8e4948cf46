--------------------------- MODULE NetworkManager ---------------------------
(***************************************************************************)
(* networkManager.c: which nodes are on the network.  The operators of the *)
(* master work on its record m, of which they use                          *)
(*   masterNodeTimeToLive   per node ID: 0 if the ID is free, else what is *)
(*                          left of its time, or RemoveNodeTTL             *)
(*   timeToLiveTime         the time since the last update of those        *)
(*   newNodes               the table newNodeUniqueId, newNodeId of the    *)
(*                          nodes that were given an ID and not yet heard  *)
(*   s                      the scheduler, for its queue activeNodes       *)
(* Time is counted in slots.                                               *)
(*                                                                         *)
(* An operator marked "seeded fault" is a faulty variant of the operator   *)
(* it precedes, as in TxManager.                                           *)
(***************************************************************************)
EXTENDS Scheduler

CONSTANTS
  MaxNodesAllocatedAtOnce,  \* MAX_NODES_ALLOCATED_AT_ONCE, the table's length
  MasterMaxTimeToLive,      \* MASTER_MAX_TIME_TO_LIVE
  TimeToLiveUpdateTime,     \* TIME_TO_LIVE_UPDATE_TIME_US, in slots
  NodeTimeout               \* NODE_TIMEOUT_US, in slots

(* Node IDs are numbers, and the master hands out the lowest free one.  A  *)
(* time to live that has just been set ends after the node's timeout.      *)
ASSUME NetworkManagerAssumption ==
  /\ Nodes \subseteq Nat
  /\ MaxNodesAllocatedAtOnce \in Nat \ {0}
  /\ MasterMaxTimeToLive \in Nat \ {0}
  /\ TimeToLiveUpdateTime \in Nat \ {0}
  /\ NodeTimeout \in Nat \ {0}
  /\ (MasterMaxTimeToLive - 1) * TimeToLiveUpdateTime >= NodeTimeout

RemoveNodeTTL == MasterMaxTimeToLive + 1  \* REMOVE_NODE_TTL, 0xFF
TimesToLive   == 0 .. RemoveNodeTTL

FreeIds(m) == {id \in Nodes : m.masterNodeTimeToLive[id] = 0}
getNextFreeNodeId(m) == Min(FreeIds(m))

(* nodeQueueAdd to activeNodes, with its assertion. *)
Scheduled(s, id) ==
  Asserted([s EXCEPT !.activeNodes = nodeQueueAdd(@, id)], ~QueueFull(s.activeNodes))

Registered(m, uniqueId) == \E e \in Range(m.newNodes) : e.uniqueId = uniqueId

(* Seeded fault: a repeated request is not recognised. *)
registerAgain(m, uniqueId) ==
  LET id == getNextFreeNodeId(m)
  IN  IF FreeIds(m) = {} \/ Len(m.newNodes) = MaxNodesAllocatedAtOnce THEN m
      ELSE [m EXCEPT !.masterNodeTimeToLive[id] = MasterMaxTimeToLive,
                     !.newNodes = Append(@, [uniqueId |-> uniqueId, nodeId |-> id]),
                     !.s        = Scheduled(@, id)]

(* A node asks for an ID.  A full table, a node that is in the table, and  *)
(* a full network change nothing.                                          *)
networkManagerRegisterNewNode(m, uniqueId) ==
  LET id == getNextFreeNodeId(m)
  IN  IF \/ Len(m.newNodes) = MaxNodesAllocatedAtOnce
         \/ Registered(m, uniqueId)
         \/ FreeIds(m) = {}
      THEN m
      ELSE [m EXCEPT !.masterNodeTimeToLive[id] = MasterMaxTimeToLive,
                     !.newNodes = Append(@, [uniqueId |-> uniqueId, nodeId |-> id]),
                     !.s        = Scheduled(@, id)]

(* Only the first entry with the ID leaves the table. *)
networkManagerRemoveNewNodeRequest(m, id) ==
  LET entries == {k \in 1 .. Len(m.newNodes) : m.newNodes[k].nodeId = id}
  IN  IF entries = {} THEN m
      ELSE [m EXCEPT !.newNodes = RemoveAt(@, Min(entries))]

(* A node was heard: it has its full time again, and has joined. *)
recordNewNodeOnly(m, id) ==  \* seeded fault: the time is not restored
  networkManagerRemoveNewNodeRequest(m, id)
networkManagerRecordRxPacket(m, id) ==
  networkManagerRemoveNewNodeRequest(
    [m EXCEPT !.masterNodeTimeToLive[id] = MasterMaxTimeToLive], id)

(* networkManagerUpdateTimeUs, in the timer thread: when an update is due, *)
(* each time to live is decremented, and marked if it has run out.         *)
UpdateDue(m) == m.timeToLiveTime + 1 >= TimeToLiveUpdateTime

Updated(timeToLive) ==
  CASE timeToLive \in {0, RemoveNodeTTL} -> timeToLive
    [] timeToLive = 1 -> RemoveNodeTTL
    [] OTHER -> timeToLive - 1

networkManagerUpdateTimeUs(m) ==
  IF UpdateDue(m)
  THEN [m EXCEPT !.timeToLiveTime = 0,
                 !.masterNodeTimeToLive = [i \in Nodes |-> Updated(@[i])]]
  ELSE [m EXCEPT !.timeToLiveTime = @ + 1]

(* The same update, preempted by handlers when it has come to id.  Of id   *)
(* it has done nothing, or read the old value, or stored the decremented   *)
(* one and not yet tested it, or found it 0 and not yet marked it.  A      *)
(* build that tests the value it has in a register goes from "read" to     *)
(* "expired"; one that reads it again decides by what the handlers left.   *)
Progress == {"before", "read", "stored", "expired"}

Reaches(timeToLive, progress) ==
  \/ progress = "before"
  \/ progress \in {"read", "stored"} /\ timeToLive \notin {0, RemoveNodeTTL}
  \/ progress = "expired" /\ timeToLive = 1

(* What the handlers see, and what the timer then makes of what they left. *)
Seen(timeToLive, progress) ==
  IF progress \in {"before", "read"} THEN timeToLive ELSE timeToLive - 1

Completed(timeToLive, progress, left) ==
  CASE progress = "before"  -> Updated(left)
    [] progress = "read"    -> Updated(timeToLive)
    [] progress = "stored"  -> IF left = 0 THEN RemoveNodeTTL ELSE left
    [] progress = "expired" -> RemoveNodeTTL

(* What a handler records for id is overwritten, or not even recorded,     *)
(* since the ID looks free.                                                *)
Overwrites(timeToLive, progress) == progress = "read" \/ Seen(timeToLive, progress) = 0

UpdateUpTo(m, id, progress) ==
  [m EXCEPT !.timeToLiveTime = 0,
            !.masterNodeTimeToLive =
               [i \in Nodes |-> IF i < id THEN Updated(@[i])
                                ELSE IF i = id THEN Seen(@[i], progress) ELSE @[i]]]

UpdateFrom(m, id, timeToLive, progress) ==
  [m EXCEPT !.masterNodeTimeToLive =
               [i \in Nodes |-> IF i > id THEN Updated(@[i])
                                ELSE IF i = id THEN Completed(timeToLive, progress, @[i]) ELSE @[i]]]

(* The node's side: its own time to live. *)
updateTimeUnguarded(timeToLive) == timeToLive - 1  \* seeded fault
nodeNwUpdateTimeUs(timeToLive) == IF timeToLive > 0 THEN timeToLive - 1 ELSE timeToLive
nodeNwHasNodeTimedOut(timeToLive) == timeToLive = 0

(* rxNewNodePacketResponse: the ID that the entries of a response hold for *)
(* this node, Unallocated if there is none.                                *)
rxNewNodePacketResponse(entries, uniqueId) ==
  LET mine == {k \in 1 .. Len(entries) : entries[k].uniqueId = uniqueId}
  IN  IF mine = {} THEN Unallocated ELSE entries[Min(mine)].nodeId
=============================================================================
