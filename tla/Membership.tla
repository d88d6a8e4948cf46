----------------------------- MODULE Membership -----------------------------
(***************************************************************************)
(* Nodes joining and leaving a full duplex bus: the master (master.c,      *)
(* masterTx.c, masterRx.c with networkManager.c and the scheduler), the    *)
(* devices (node.c), their timers, and a bus that loses packets.  Master   *)
(* and devices can restart.                                                *)
(*                                                                         *)
(* A step is one slot: in every device the timer runs, the pre-processing  *)
(* handles what came over the bus in the slot before and hands over the    *)
(* next packet, and the post-processing prepares the one after that.  Data *)
(* packets differ from empty ones in what other modules model (acks,       *)
(* buffer levels), so the nodes send empty packets.                        *)
(***************************************************************************)
EXTENDS NetworkManager

CONSTANTS
  Devices,             \* the unique IDs of the nodes
  NoDevice,            \* the owner of an ID that was never given out
  MaxNewNodeBackoff,   \* MAX_NEW_NODE_BACKOFF
  MasterResetCycles,   \* masterResetCycles after masterInit
  MaxFaults            \* bound: packets lost, restarts and preempted timers

ASSUME MembershipAssumption ==
  /\ IsFiniteSet(Devices) /\ NoDevice \notin Devices
  /\ MaxNewNodeBackoff \in Nat \ {0}
  /\ MasterResetCycles \in Nat /\ MaxFaults \in Nat

VARIABLES
  m,           \* the master
  node,        \* node[d]: the tNode of device d
  masterWire,  \* the packet the master sends in this slot
  nodeWire,    \* the packets nodes send in this slot
  owner,       \* history: owner[id]: the device that id was given to last
  heard,       \* history: the devices whose last packet as a node the master
               \* received, while their ID was theirs
  raced,       \* history: an ID was given out in the middle of its update
  faults       \* how many faults there were

vars == <<m, node, masterWire, nodeWire, owner, heard, raced, faults>>
-----------------------------------------------------------------------------
(* Packets *)

Empty(next)            == [type |-> "empty", next |-> next, entries |-> << >>]
Reset(next)            == [type |-> "reset", next |-> next, entries |-> << >>]
Response(next, table)  == [type |-> "response", next |-> next, entries |-> table]

Request(d)  == [type |-> "request", from |-> d, srcNodeId |-> Unallocated]
Own(d, id)  == [type |-> "own", from |-> d, srcNodeId |-> id]
Blank(d)    == [type |-> "blank", from |-> d, srcNodeId |-> Master]
NoPacket    == [type |-> "none", from |-> NoDevice, srcNodeId |-> Unallocated]
-----------------------------------------------------------------------------
(* The master *)

masterInit ==
  [s                    |-> schedulerInit(1),  \* full duplex
   nextTxNodeId         |-> <<Master>>,
   masterNodeTimeToLive |-> [id \in Nodes |-> 0],
   timeToLiveTime       |-> 0,
   newNodes             |-> << >>,
   masterResetCycles    |-> MasterResetCycles,
   tmpPacketCycle       |-> 0,
   nextTxPacket         |-> Empty(Master)]

(* During the reset cycles the schedule stays at the master's. *)
masterUpdateSchedule(mm) ==
  LET next == schedulerUpdateAndCalcNextTxNodes(mm.s, mm.nextTxNodeId, 0)
  IN  IF mm.masterResetCycles > 0 THEN mm
      ELSE [mm EXCEPT !.s = next.s, !.nextTxNodeId = next.nodesToTx]

(* A packet from an ID that is free is not recorded. *)
masterQuickProcessPrevRx(mm, packet) ==
  IF packet.type = "own" /\ mm.masterNodeTimeToLive[packet.srcNodeId] > 0
  THEN networkManagerRecordRxPacket(mm, packet.srcNodeId)
  ELSE mm

masterProcessRx(mm, packet) ==
  IF packet.type # "request" THEN mm
  ELSE LET registered == networkManagerRegisterNewNode(mm, packet.from)
       IN  [registered EXCEPT !.s = newNodeHeard(@)]

(* Every fourth packet is a response while the table is not empty. *)
masterProcessTx(mm) ==
  LET cycle == (mm.tmpPacketCycle + 1) % 4
  IN  IF mm.masterResetCycles > 0
      THEN [mm EXCEPT !.masterResetCycles = @ - 1, !.nextTxPacket = Reset(Master)]
      ELSE [mm EXCEPT !.tmpPacketCycle = cycle,
                      !.nextTxPacket   = IF mm.newNodes # << >> /\ cycle = 1
                                         THEN Response(Master, mm.newNodes)
                                         ELSE Empty(Master)]

(* The schedule may still hold a slot of a node that is removed. *)
RemoveFromQueues(mm, ids) ==
  [mm EXCEPT !.s.activeNodes   = nodeQueueRemoveEach(@, ids),
             !.s.nodeTxNodes   = nodeQueueRemoveEach(@, ids),
             !.s.activeTxNodes = nodeQueueRemoveEach(@, ids)]

(* networkManagerRemoveNewNodeRequest for each of the IDs. *)
RemoveFromTable(mm, ids) ==
  LET nodeIds == [k \in DOMAIN mm.newNodes |-> mm.newNodes[k].nodeId]
  IN  [mm EXCEPT !.newNodes = EntriesAt(@, LeftByRemovals(nodeIds, ids))]

removeTimeoutNodesKeepQueued(mm) ==  \* seeded fault: the queues keep the node
  LET ids == {id \in Nodes : mm.masterNodeTimeToLive[id] = RemoveNodeTTL}
  IN  RemoveFromTable([mm EXCEPT !.masterNodeTimeToLive =
                         [id \in Nodes |-> IF id \in ids THEN 0 ELSE @[id]]], ids)

masterRemoveAnyTimeoutNodes(mm) ==
  LET ids == {id \in Nodes : mm.masterNodeTimeToLive[id] = RemoveNodeTTL}
  IN  RemoveFromTable(
        RemoveFromQueues(
          [mm EXCEPT !.masterNodeTimeToLive =
             [id \in Nodes |-> IF id \in ids THEN 0 ELSE @[id]]], ids), ids)

masterPreProcess(mm, packet)  == masterQuickProcessPrevRx(masterUpdateSchedule(mm), packet)
masterPostProcess(mm, packet) ==
  masterRemoveAnyTimeoutNodes(masterProcessTx(masterProcessRx(mm, packet)))

(* What the application is told: the IDs that are given out, but those of  *)
(* nodes that were not heard yet.                                          *)
getConnectedNodesBitField(mm) ==
  {id \in Nodes : mm.masterNodeTimeToLive[id] > 0} \ {e.nodeId : e \in Range(mm.newNodes)}

(* masterQuickUpdateTxPacket fills in the schedule. *)
masterTxPacket(mm) == [mm.nextTxPacket EXCEPT !.next = mm.nextTxNodeId[1]]
-----------------------------------------------------------------------------
(* The nodes.  draw is a number drawn with customRand. *)

nodeInit ==
  [nodeId                       |-> Unallocated,
   timeToLive                   |-> 0,
   sentNewNodeRequest           |-> FALSE,
   nextNewNodeResponseCountdown |-> 0,
   nextTxPacket                 |-> "blank"]

(* nodeReset, unless the node has no ID. *)
nodeRemoveFromNetwork(n) == IF n.nodeId = Unallocated THEN n ELSE nodeInit

stayOnNetwork(n) == n  \* seeded fault: the node keeps its ID
nodeCheckIfTimedOut(n) ==
  IF nodeNwHasNodeTimedOut(n.timeToLive) THEN nodeRemoveFromNetwork(n) ELSE n

(* nodeQuickProcessPrevRx and nodeUpdateSchedule: who has the slot.  A     *)
(* node that did not hear the schedule takes the slot for the master's:    *)
(* the master fills in only the first entry of the schedule, and the       *)
(* others stay 0.                                                          *)
nodeQuickProcessPrevRx(n, packet) ==
  IF packet.type = "reset" THEN nodeRemoveFromNetwork(n) ELSE n
currentTxNodeId(packet) == IF packet.type = "reset" THEN Master ELSE packet.next

(* nodeGetTxPacket is called, and sends the prepared packet, unless a node *)
(* without an ID has to hold back.                                         *)
HoldsBack(n) == n.nodeId = Unallocated /\ n.nextNewNodeResponseCountdown > 0

Transmits(n, current) ==
  current = n.nodeId /\ n.nextTxPacket # "none" /\ ~HoldsBack(n)

nodeGetTxPacket(n, current, draw) ==
  IF current # n.nodeId \/ n.nextTxPacket = "none" THEN n
  ELSE IF HoldsBack(n) THEN [n EXCEPT !.nextNewNodeResponseCountdown = @ - 1]
  ELSE [n EXCEPT !.nextNewNodeResponseCountdown = IF n.nodeId = Unallocated THEN draw ELSE @,
                 !.nextTxPacket = "none",
                 !.timeToLive   = NodeTimeout]

(* nodeProcessRxData: only a node without an ID looks at responses. *)
nodeProcessRx(n, packet, d) ==
  LET id == rxNewNodePacketResponse(packet.entries, d)
  IN  IF \/ n.nodeId # Unallocated \/ ~n.sentNewNodeRequest \/ id = Unallocated THEN n
      ELSE [n EXCEPT !.nodeId = id, !.timeToLive = NodeTimeout]

(* A request that is prepared is kept until it is sent, even if the node   *)
(* has joined in the meantime.                                             *)
nodeProcessTx(n, draw) ==
  IF n.nextTxPacket = "request" THEN n
  ELSE IF n.nodeId # Unallocated THEN [n EXCEPT !.nextTxPacket = "own"]
  ELSE IF n.nextNewNodeResponseCountdown = 0
       THEN [n EXCEPT !.sentNewNodeRequest = TRUE,
                      !.nextTxPacket = "request",
                      !.nextNewNodeResponseCountdown = draw]
       ELSE [n EXCEPT !.nextTxPacket = "none",
                      !.nextNewNodeResponseCountdown = @ - 1]

nodePreProcess(n, packet, draw) ==
  nodeGetTxPacket(nodeQuickProcessPrevRx(n, packet), currentTxNodeId(packet), draw)

nodePostProcess(n, packet, d, draw) ==
  nodeProcessTx(nodeProcessRx(nodeCheckIfTimedOut(n), packet, d), draw)

(* nodeUpdateTimeUs *)
nodeTick(n) == [n EXCEPT !.timeToLive = nodeNwUpdateTimeUs(@)]

nodePacket(n, d) ==
  CASE n.nextTxPacket = "blank"   -> Blank(d)
    [] n.nextTxPacket = "request" -> Request(d)
    [] n.nextTxPacket = "own"     -> Own(d, n.nodeId)
-----------------------------------------------------------------------------
Init ==
  /\ m = masterInit
  /\ node = [d \in Devices |-> nodeInit]
  /\ masterWire = Empty(Master)
  /\ nodeWire = {}
  /\ owner = [id \in Nodes |-> NoDevice]
  /\ heard = {}
  /\ raced = FALSE
  /\ faults = 0

Draws == 0 .. MaxNewNodeBackoff - 1

(* The request that is received gets an ID. *)
Registers(mm, received) ==
  received.type = "request" /\ networkManagerRegisterNewNode(mm, received.from) # mm

(* The master's part of a slot, in which the packet received came in.  The *)
(* timer runs before the handlers, or they preempt it in its update, which *)
(* has come to id, and it then goes on with what they left.                *)
masterProcess(mm, packet) == masterPostProcess(masterPreProcess(mm, packet), packet)

MasterHandlers(ticked, received, after, updating) ==
  \E pre \in {masterPreProcess(ticked, received)} :
    LET new == IF Registers(pre, received) THEN {getNextFreeNodeId(pre)} ELSE {}
    IN  /\ m' = after
        /\ masterWire' = masterTxPacket(pre)
        /\ owner' = [id \in Nodes |-> IF id \in new THEN received.from ELSE owner[id]]
        /\ raced' = (raced \/ new \cap updating # {})

MasterSlot(received) ==
  \E ticked \in {networkManagerUpdateTimeUs(m)} :
    MasterHandlers(ticked, received, masterProcess(ticked, received), {})

MasterSlotInTimer(received, id, progress) ==
  LET old == m.masterNodeTimeToLive[id]
  IN  /\ UpdateDue(m) /\ Reaches(old, progress)
      /\ \E ticked \in {UpdateUpTo(m, id, progress)} :
           MasterHandlers(ticked, received,
                          UpdateFrom(masterProcess(ticked, received), id, old, progress),
                          IF progress = "before" THEN {} ELSE {id})

(* A node's part.  It draws a random number when it sends a request, and   *)
(* when it prepares one; else the number is not used.                      *)
NodeOutcomes(d, packet) ==
  LET ticked  == nodeTick(node[d])
      checked == nodeQuickProcessPrevRx(ticked, packet)
      current == currentTxNodeId(packet)
  IN  {[node |-> nodePostProcess(nodePreProcess(ticked, packet, draws[1]), packet, d, draws[2]),
        sent |-> IF Transmits(checked, current) THEN {nodePacket(checked, d)} ELSE {}] :
         draws \in Draws \X Draws}

(* Packets that are sent at the same time destroy each other. *)
OnBus == IF Cardinality(nodeWire) = 1 THEN CHOOSE p \in nodeWire : TRUE ELSE NoPacket

(* Which nodes the master has heard after this slot: their last packet was *)
(* received, and the time it gave to their ID was not lost to the timer.   *)
HeardAfter(received, overwritten) ==
  LET sent(d)  == \E p \in nodeWire : p.from = d /\ p.type = "own"
      known(d) == /\ received.type = "own" /\ received.from = d
                  /\ owner[received.srcNodeId] = d
                  /\ m.masterNodeTimeToLive[received.srcNodeId] > 0
                  /\ received.srcNodeId \notin overwritten
  IN  {d \in Devices : /\ node'[d].nodeId # Unallocated
                       /\ node'[d].nodeId = node[d].nodeId
                       /\ IF sent(d) THEN known(d) ELSE d \in heard}

(* The nodes' parts, when deaf are the nodes that miss the master's packet. *)
NodeSlots(deaf) ==
  LET outcomes(d) == NodeOutcomes(d, IF d \in deaf THEN Empty(Master) ELSE masterWire)
  IN  \E out \in [Devices -> UNION {outcomes(d) : d \in Devices}] :
        /\ \A d \in Devices : out[d] \in outcomes(d)
        /\ node' = [d \in Devices |-> out[d].node]
        /\ nodeWire' = UNION {out[d].sent : d \in Devices}

(* A slot in which the packets lost are the one to the master, if toMaster *)
(* is set, and those to the nodes in deaf.                                 *)
Lost(toMaster, deaf) == Cardinality(deaf) + (IF toMaster THEN 1 ELSE 0)
Received(toMaster)   == IF toMaster THEN NoPacket ELSE OnBus

Slot ==
  \E toMaster \in {FALSE} \cup {OnBus # NoPacket}, deaf \in SUBSET Devices :
    /\ faults' = faults + Lost(toMaster, deaf)
    /\ faults' <= MaxFaults
    /\ MasterSlot(Received(toMaster))
    /\ NodeSlots(deaf)
    /\ heard' = HeardAfter(Received(toMaster), {})

SlotInTimer ==
  /\ faults < MaxFaults
  /\ faults' = faults + 1
  /\ \E id \in Nodes, progress \in Progress :
       /\ MasterSlotInTimer(OnBus, id, progress)
       /\ NodeSlots({})
       /\ heard' = HeardAfter(OnBus, {i \in {id} : Overwrites(m.masterNodeTimeToLive[i], progress)})

(* masterInit again.  What is on the bus is not received. *)
MasterRestart ==
  /\ faults < MaxFaults
  /\ faults' = faults + 1
  /\ m' = masterInit
  /\ masterWire' = Empty(Master)
  /\ nodeWire' = {}
  /\ owner' = [id \in Nodes |-> NoDevice]
  /\ heard' = {}
  /\ UNCHANGED <<node, raced>>

NodeRestart(d) ==
  /\ faults < MaxFaults
  /\ faults' = faults + 1
  /\ node' = [node EXCEPT ![d] = nodeInit]
  /\ nodeWire' = {p \in nodeWire : p.from # d}
  /\ heard' = heard \ {d}
  /\ UNCHANGED <<m, masterWire, owner, raced>>

Next ==
  \/ Slot
  \/ SlotInTimer
  \/ MasterRestart
  \/ \E d \in Devices : NodeRestart(d)

Spec == Init /\ [][Next]_vars

(* d has its request ready and everybody else without an ID holds back. *)
FirstInLine(d) ==
  /\ node[d].nodeId = Unallocated /\ node[d].nextTxPacket = "request" /\ ~HoldsBack(node[d])
  /\ \A e \in Devices \ {d} : node[e].nodeId = Unallocated =>
       HoldsBack(node[e]) /\ node[e].nextTxPacket = "request"

(* The bus keeps running slots: Slot is always enabled, so this is weak    *)
(* fairness of it.  And the numbers that the nodes draw are independent: a *)
(* node that stays without an ID is alone with its request time and again. *)
Fairness ==
  /\ []<><<Slot>>_vars
  /\ \A d \in Devices : []<>(node[d].nodeId = Unallocated) => []<>FirstInLine(d)

FairSpec == Spec /\ Fairness
-----------------------------------------------------------------------------
(* Properties *)

Requests == [uniqueId : Devices, nodeId : Nodes]
MasterPackets ==
  [type    : {"empty", "reset", "response"},
   next    : Nodes \cup {Master, Unallocated},
   entries : Seq(Requests)]
NodePackets ==
  [type      : {"blank", "request", "own"},
   from      : Devices,
   srcNodeId : Nodes \cup {Master, Unallocated}]
Masters ==
  [s                    : Schedulers({1}, {0}),
   nextTxNodeId         : [1 .. 1 -> Nodes \cup {Master, Unallocated}],
   masterNodeTimeToLive : [Nodes -> TimesToLive],
   timeToLiveTime       : 0 .. TimeToLiveUpdateTime - 1,
   newNodes             : Seq(Requests),
   masterResetCycles    : 0 .. MasterResetCycles,
   tmpPacketCycle       : 0 .. 3,
   nextTxPacket         : MasterPackets]
NodeStates ==
  [nodeId                       : Nodes \cup {Unallocated},
   timeToLive                   : 0 .. NodeTimeout,
   sentNewNodeRequest           : BOOLEAN,
   nextNewNodeResponseCountdown : Draws,
   nextTxPacket                 : {"none", "blank", "request", "own"}]

(* Every variable and field has its type; no assertion of the scheduler or *)
(* of nodeQueueAdd fails and the table of new nodes does not overflow.     *)
TypeOK ==
  /\ m \in Masters /\ ~m.s.fault /\ Len(m.newNodes) <= MaxNodesAllocatedAtOnce
  /\ node \in [Devices -> NodeStates]
  /\ masterWire \in MasterPackets /\ nodeWire \subseteq NodePackets
  /\ owner \in [Nodes -> Devices \cup {NoDevice}] /\ heard \subseteq Devices
  /\ raced \in BOOLEAN /\ faults \in 0 .. MaxFaults

(* "Node must timeout first" (networkManager.h): as long as a node whose   *)
(* last packet the master received believes that it is on the network, the *)
(* master has not removed its ID, nor given it to another node.            *)
NodeTimesOutFirst ==
  \A d \in heard : /\ m.masterNodeTimeToLive[node[d].nodeId] # 0
                   /\ owner[node[d].nodeId] = d

(* The queue activeNodes that the scheduler services and the times to live *)
(* name the same IDs: networkManagerRegisterNewNode and                    *)
(* masterRemoveAnyTimeoutNodes change both.  An ID in one of them only is  *)
(* never scheduled, or keeps its slots for nobody.                         *)
ScheduledIffReserved ==
  \A id \in Nodes : Contains(m.s.activeNodes.nodeIds, id) <=> m.masterNodeTimeToLive[id] # 0

(* The IDs that txNewNodeResponse offers are reserved, and each is offered *)
(* to one node, unless one was given out in the middle of its update by    *)
(* the timer thread.                                                       *)
OffersReserved ==
  ~raced => \A j, k \in 1 .. Len(m.newNodes) :
              /\ m.masterNodeTimeToLive[m.newNodes[k].nodeId] # 0
              /\ j # k => /\ m.newNodes[j].nodeId # m.newNodes[k].nodeId
                          /\ m.newNodes[j].uniqueId # m.newNodes[k].uniqueId

(* "Node must timeout first" (networkManager.h) in full, as the tests      *)
(* assert it (checkAllNodesHaveDistinctIds, testSupport.c): no two devices *)
(* hold the same ID.  The node's time runs from what it sent, the          *)
(* master's from what it received, so a lost packet breaks it.             *)
DistinctIds ==
  \A d, e \in Devices :
    d # e /\ node[d].nodeId # Unallocated => node[d].nodeId # node[e].nodeId

(* Once the faults have ended, and whatever they left behind (two nodes    *)
(* with one ID, an ID without its node, a restarted master that does not   *)
(* know its nodes), every device is on the network with an ID of its own,  *)
(* for good: the timeouts of networkManager.c and node.c undo it.          *)
Stabilises ==
  <>[](/\ \A d \in Devices : node[d].nodeId \in getConnectedNodesBitField(m)
       /\ DistinctIds)
=============================================================================
