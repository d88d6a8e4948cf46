--------------------------- MODULE MembershipInv ---------------------------
(***************************************************************************)
(* The inductive invariant of Membership: why a node that the master hears *)
(* gives up its ID before the master does, and why the master's records of *)
(* an ID agree.  TLC checks it on a small instance, and MembershipProofs   *)
(* proves it for every number of devices, node IDs and faults.             *)
(***************************************************************************)
EXTENDS Membership

(* The round robin positions and the entries of the queues. *)
QueuesOK(s) == QueueOK(s.activeNodes) /\ QueueOK(s.activeTxNodes) /\ QueueOK(s.nodeTxNodes)

(* For how many slots the timer leaves the ID alone. *)
TimeLeft(mm, id) ==
  IF mm.masterNodeTimeToLive[id] \in {0, RemoveNodeTTL} THEN 0
  ELSE (mm.masterNodeTimeToLive[id] - 1) * TimeToLiveUpdateTime
         + TimeToLiveUpdateTime - mm.timeToLiveTime

(* A node with an ID has time left, and only such a node sends as a node.  *)
NodeOK(n) ==
  /\ n.nodeId # Unallocated => n.timeToLive > 0
  /\ n.nextTxPacket = "own" => n.nodeId # Unallocated

(* A node's packet carries the ID that the node still has, and the next    *)
(* one is ready.                                                           *)
PacketsCurrent ==
  \A p \in nodeWire : p.type = "own" =>
    p.srcNodeId = node[p.from].nodeId /\ node[p.from].nextTxPacket = "own"

SendsOwn(d) == \E p \in nodeWire : p.from = d /\ p.type = "own"

(* The master keeps the ID of a node it has heard for longer than the node *)
(* does.  While the node's next packet is on its way the node's time has   *)
(* started again and the master's has not; if the packet is lost the node  *)
(* is no longer heard.                                                     *)
HeardInTime ==
  \A d \in heard :
    /\ node[d].nodeId # Unallocated /\ node[d].nextTxPacket = "own"
    /\ ~SendsOwn(d) => node[d].timeToLive < TimeLeft(m, node[d].nodeId)

Inductive ==
  /\ TypeOK
  /\ QueuesOK(m.s)
  /\ ScheduledIffReserved
  /\ OffersReserved
  /\ \A d \in Devices : NodeOK(node[d])
  /\ PacketsCurrent
  /\ HeardInTime
  /\ NodeTimesOutFirst
=============================================================================
