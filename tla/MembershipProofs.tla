-------------------------- MODULE MembershipProofs --------------------------
(***************************************************************************)
(* Proofs about Membership, for every set of devices and node IDs, setting *)
(* of the scheduler's countdowns and of the times to live, and number of   *)
(* faults that satisfy the assumptions of Scheduler, NetworkManager and    *)
(* Membership.                                                             *)
(***************************************************************************)
EXTENDS MembershipInv, SchedulerLemmas

(* The constants, as numbers. *)
LEMMA SettingFacts ==
  /\ Nodes \subseteq Nat
  /\ MaxNodesAllocatedAtOnce \in Nat
  /\ MasterMaxTimeToLive \in Nat /\ 2 <= MasterMaxTimeToLive
  /\ TimeToLiveUpdateTime \in Nat \ {0}
  /\ NodeTimeout \in Nat \ {0}
  /\ (MasterMaxTimeToLive - 1) * TimeToLiveUpdateTime >= NodeTimeout
  /\ RemoveNodeTTL = MasterMaxTimeToLive + 1
  /\ TimesToLive = 0 .. MasterMaxTimeToLive + 1
  /\ 0 \in Draws /\ Draws \subseteq Nat
  /\ MaxFaults \in Nat /\ MasterResetCycles \in Nat
  /\ Unallocated \notin Nodes
<1>1. /\ Nodes \subseteq Nat /\ MaxNodesAllocatedAtOnce \in Nat
      /\ MasterMaxTimeToLive \in Nat \ {0}
      /\ TimeToLiveUpdateTime \in Nat \ {0} /\ NodeTimeout \in Nat \ {0}
      /\ (MasterMaxTimeToLive - 1) * TimeToLiveUpdateTime >= NodeTimeout
  BY NetworkManagerAssumption
<1>2. MasterMaxTimeToLive # 1
  <2> SUFFICES ASSUME MasterMaxTimeToLive = 1 PROVE FALSE
    OBVIOUS
  <2>1. (MasterMaxTimeToLive - 1) * TimeToLiveUpdateTime = 0
    BY <1>1
  <2> QED
    BY <1>1, <2>1
<1>3. MasterMaxTimeToLive \in Nat /\ 2 <= MasterMaxTimeToLive
  BY <1>1, <1>2
<1>4. 0 \in Draws /\ Draws \subseteq Nat /\ MaxFaults \in Nat /\ MasterResetCycles \in Nat
  BY MembershipAssumption DEF Draws
<1> QED
  BY <1>1, <1>3, <1>4, ConstantFacts DEF RemoveNodeTTL, TimesToLive

(***************************************************************************)
(* The master's operations                                                 *)
(***************************************************************************)
(* The scheduler of a full duplex bus to which no node reports packets. *)
Duplex(t) == t.numTxNodesScheduled = 1 /\ t.nodeTxBufferLevel \in [Nodes -> {0}]

LEMMA DuplexStates ==
  \A t : (t \in Schedulers({1}, {0}) /\ ~t.fault /\ QueuesOK(t)) <=> (Good(t) /\ Duplex(t))
<1>1. ASSUME NEW t \in Schedulers({1}, {0}), ~t.fault, QueuesOK(t) PROVE Good(t) /\ Duplex(t)
  <2>1. t.nodeTxBufferLevel \in [Nodes -> {0}]
    BY DEF Schedulers
  <2>2. t.nodeTxBufferLevel \in [Nodes -> Nat]
    BY <2>1
  <2>3. t.numTxNodesScheduled = 1 /\ t.numTxNodesScheduled \in Nat \ {0}
    BY DEF Schedulers
  <2> QED
    BY <1>1, <2>1, <2>2, <2>3 DEF Good, Duplex, SchedulerStates, Schedulers, QueuesOK
<1>2. ASSUME NEW t, Good(t), Duplex(t)
      PROVE  t \in Schedulers({1}, {0}) /\ ~t.fault /\ QueuesOK(t)
  BY <1>2 DEF Good, Duplex, SchedulerStates, Schedulers, QueuesOK
<1> QED
  BY <1>1, <1>2

(* A master between two of its operations. *)
MasterOK(mm) ==
  /\ mm \in Masters
  /\ ~mm.s.fault
  /\ QueuesOK(mm.s)
  /\ Len(mm.newNodes) <= MaxNodesAllocatedAtOnce

(* The IDs in activeNodes are the reserved ones, and those of S: the timer *)
(* may be updating them.                                                   *)
Matched(mm, S) ==
  \A i \in Nodes : Contains(mm.s.activeNodes.nodeIds, i)
                     <=> (mm.masterNodeTimeToLive[i] # 0 \/ i \in S)

(* The IDs in the table are reserved or in S, and offered once. *)
Offered(mm, S) ==
  \A j, k \in 1 .. Len(mm.newNodes) :
    /\ mm.newNodes[k].nodeId \in S \/ mm.masterNodeTimeToLive[mm.newNodes[k].nodeId] # 0
    /\ j # k => /\ mm.newNodes[j].nodeId # mm.newNodes[k].nodeId
                /\ mm.newNodes[j].uniqueId # mm.newNodes[k].uniqueId

(* What most operations leave alone. *)
SameIds(mm, r) ==
  /\ r.masterNodeTimeToLive = mm.masterNodeTimeToLive
  /\ r.timeToLiveTime = mm.timeToLiveTime
  /\ r.newNodes = mm.newNodes
  /\ r.s.activeNodes.nodeIds = mm.s.activeNodes.nodeIds

LEMMA SameIdsFacts ==
  ASSUME NEW mm, NEW r, NEW S, SameIds(mm, r)
  PROVE  /\ Matched(mm, S) => Matched(r, S)
         /\ Offered(mm, S) => Offered(r, S)
BY DEF SameIds, Matched, Offered

(* The fields of a master have their types. *)
LEMMA MasterFields ==
  ASSUME NEW mm, MasterOK(mm)
  PROVE  /\ Good(mm.s) /\ Duplex(mm.s) /\ mm.s \in Schedulers({1}, {0})
         /\ mm.nextTxNodeId \in [1 .. 1 -> Nodes \cup {Master, Unallocated}]
         /\ mm.masterNodeTimeToLive \in [Nodes -> TimesToLive]
         /\ mm.timeToLiveTime \in 0 .. TimeToLiveUpdateTime - 1
         /\ mm.newNodes \in Seq(Requests) /\ Len(mm.newNodes) \in Nat
         /\ Len(mm.newNodes) <= MaxNodesAllocatedAtOnce
         /\ mm.masterResetCycles \in 0 .. MasterResetCycles
         /\ mm.tmpPacketCycle \in 0 .. 3
         /\ mm.nextTxPacket \in MasterPackets
BY DuplexStates DEF MasterOK, Masters

(* masterUpdateSchedule moves the schedule on. *)
LEMMA UpdateScheduleFacts ==
  ASSUME NEW mm, MasterOK(mm)
  PROVE  LET r == masterUpdateSchedule(mm) IN MasterOK(r) /\ SameIds(mm, r)
<1> DEFINE next == schedulerUpdateAndCalcNextTxNodes(mm.s, mm.nextTxNodeId, 0)
           v    == [mm EXCEPT !.s = next.s, !.nextTxNodeId = next.nodesToTx]
<1>1. masterUpdateSchedule(mm) = IF mm.masterResetCycles > 0 THEN mm ELSE v
  BY DEF masterUpdateSchedule
<1>2. /\ Good(next.s) /\ Duplex(next.s)
      /\ next.s.activeNodes.nodeIds = mm.s.activeNodes.nodeIds
      /\ next.nodesToTx \in [1 .. 1 -> Nodes \cup {Master, Unallocated}]
  <2>1. Good(mm.s) /\ mm.s.numTxNodesScheduled = 1 /\ mm.s.nodeTxBufferLevel \in [Nodes -> {0}]
        /\ mm.nextTxNodeId \in [1 .. 1 -> Nodes \cup {Master, Unallocated}]
    BY MasterFields DEF Duplex
  <2> QED
    BY <2>1, DuplexFacts DEF Duplex
<1> HIDE DEF next
<1>3. next.s \in Schedulers({1}, {0}) /\ ~next.s.fault /\ QueuesOK(next.s)
  BY <1>2, DuplexStates
<1>4. MasterOK(v) /\ SameIds(mm, v)
  BY <1>2, <1>3 DEF MasterOK, Masters, SameIds
<1> HIDE DEF v
<1> QED
  BY <1>1, <1>4 DEF SameIds

(* Table b holds some of the entries of table a, each of them once. *)
Selected(a, b) ==
  \E at \in [1 .. Len(b) -> 1 .. Len(a)] :
    /\ \A k \in 1 .. Len(b) : b[k] = a[at[k]]
    /\ \A j, k \in 1 .. Len(b) : at[j] = at[k] => j = k

(* A table that loses entries still offers reserved IDs, each once. *)
LEMMA SelectedOffers ==
  ASSUME NEW mm, MasterOK(mm), NEW r, NEW S, Selected(mm.newNodes, r.newNodes), Offered(mm, S),
         \A k \in 1 .. Len(r.newNodes) :
           \/ r.newNodes[k].nodeId \in S
           \/ mm.masterNodeTimeToLive[r.newNodes[k].nodeId] # 0
                => r.masterNodeTimeToLive[r.newNodes[k].nodeId] # 0
  PROVE  Offered(r, S)
<1> DEFINE a == mm.newNodes
           b == r.newNodes
<1>1. PICK at \in [1 .. Len(b) -> 1 .. Len(a)] :
         /\ \A k \in 1 .. Len(b) : b[k] = a[at[k]]
         /\ \A j, k \in 1 .. Len(b) : at[j] = at[k] => j = k
  BY DEF Selected
<1> SUFFICES ASSUME NEW j \in 1 .. Len(b), NEW k \in 1 .. Len(b)
             PROVE  /\ b[k].nodeId \in S \/ r.masterNodeTimeToLive[b[k].nodeId] # 0
                    /\ j # k => b[j].nodeId # b[k].nodeId /\ b[j].uniqueId # b[k].uniqueId
  BY DEF Offered
<1>2. /\ at[j] \in 1 .. Len(a) /\ b[j] = a[at[j]]
      /\ at[k] \in 1 .. Len(a) /\ b[k] = a[at[k]]
      /\ j # k => at[j] # at[k]
  BY <1>1
<1>3. /\ a[at[k]].nodeId \in S \/ mm.masterNodeTimeToLive[a[at[k]].nodeId] # 0
      /\ at[j] # at[k] => /\ a[at[j]].nodeId # a[at[k]].nodeId
                          /\ a[at[j]].uniqueId # a[at[k]].uniqueId
  BY <1>2 DEF Offered
<1> QED
  BY <1>2, <1>3

(* networkManagerRemoveNewNodeRequest takes an entry out of the table. *)
LEMMA RemoveRequestFacts ==
  ASSUME NEW mm, MasterOK(mm), NEW id
  PROVE  LET r == networkManagerRemoveNewNodeRequest(mm, id)
         IN  /\ MasterOK(r) /\ Selected(mm.newNodes, r.newNodes)
             /\ r.s = mm.s
             /\ r.masterNodeTimeToLive = mm.masterNodeTimeToLive
             /\ r.timeToLiveTime = mm.timeToLiveTime
<1> DEFINE a       == mm.newNodes
           entries == {k \in 1 .. Len(a) : a[k].nodeId = id}
           i       == Min(entries)
           b       == RemoveAt(a, i)
           v       == [mm EXCEPT !.newNodes = b]
           r       == networkManagerRemoveNewNodeRequest(mm, id)
<1>1. a \in Seq(Requests) /\ Len(a) \in Nat /\ Len(a) <= MaxNodesAllocatedAtOnce
  BY MasterFields
<1>2. CASE entries = {}
  <2>1. r = mm
    BY <1>2 DEF networkManagerRemoveNewNodeRequest
  <2>2. Selected(a, a)
    <3> DEFINE at == [k \in 1 .. Len(a) |-> k]
    <3>1. /\ at \in [1 .. Len(a) -> 1 .. Len(a)]
          /\ \A k \in 1 .. Len(a) : at[k] = k
      OBVIOUS
    <3> HIDE DEF at, a
    <3> QED
      BY <3>1 DEF Selected
  <2> QED
    BY <2>1, <2>2
<1>3. CASE entries # {}
  <2>1. r = v
    BY <1>3 DEF networkManagerRemoveNewNodeRequest
  <2>2. i \in 1 .. Len(a)
    <3>1. entries \subseteq Nat
      OBVIOUS
    <3>2. i \in entries
      BY <1>3, <3>1, MinIsLeast
    <3> QED
      BY <3>2
  <2> HIDE DEF i, a
  <2>3. /\ b \in Seq(Requests) /\ Len(b) = Len(a) - 1
        /\ \A k \in 1 .. Len(b) : b[k] = IF k < i THEN a[k] ELSE a[k + 1]
    BY <1>1, <2>2, RemoveAtFacts
  <2> HIDE DEF b
  <2>4. Selected(a, b)
    <3> DEFINE at == [k \in 1 .. Len(b) |-> IF k < i THEN k ELSE k + 1]
    <3>1. at \in [1 .. Len(b) -> 1 .. Len(a)]
      BY <1>1, <2>2, <2>3
    <3>2. \A k \in 1 .. Len(b) : b[k] = a[at[k]]
      BY <2>3
    <3>3. \A j, k \in 1 .. Len(b) : at[j] = at[k] => j = k
      BY <1>1, <2>2, <2>3
    <3> HIDE DEF at
    <3> QED
      BY <3>1, <3>2, <3>3 DEF Selected
  <2>5. Len(b) <= MaxNodesAllocatedAtOnce
    BY <1>1, <2>3, SettingFacts
  <2>6. /\ MasterOK(v) /\ v.newNodes = b /\ v.s = mm.s
        /\ v.masterNodeTimeToLive = mm.masterNodeTimeToLive
        /\ v.timeToLiveTime = mm.timeToLiveTime
    BY <2>3, <2>5 DEF MasterOK, Masters
  <2> HIDE DEF v, r
  <2> QED
    BY <2>1, <2>4, <2>6 DEF r, a
<1> QED
  BY <1>2, <1>3

(* A packet that the master handles, whole or none. *)
RxOK(p) ==
  /\ p.type = "own" => p.srcNodeId \in Nodes
  /\ p.type = "request" => p.from \in Devices

(* The time to live of the ID that sent a packet is restored. *)
Restored(ttl, p) ==
  IF p.type = "own" /\ ttl[p.srcNodeId] > 0
  THEN [ttl EXCEPT ![p.srcNodeId] = MasterMaxTimeToLive] ELSE ttl

LEMMA RestoredFacts ==
  ASSUME NEW ttl \in [Nodes -> TimesToLive], NEW p, RxOK(p)
  PROVE  /\ Restored(ttl, p) \in [Nodes -> TimesToLive]
         /\ \A i \in Nodes :
              /\ Restored(ttl, p)[i] = 0 <=> ttl[i] = 0
              /\ Restored(ttl, p)[i] = ttl[i] \/ Restored(ttl, p)[i] = MasterMaxTimeToLive
              /\ p.type = "own" /\ p.srcNodeId = i /\ ttl[i] # 0
                   => Restored(ttl, p)[i] = MasterMaxTimeToLive
<1>1. \A i \in Nodes : ttl[i] \in 0 .. MasterMaxTimeToLive + 1
  BY SettingFacts
<1>2. MasterMaxTimeToLive \in TimesToLive /\ MasterMaxTimeToLive > 0
  BY SettingFacts
<1>3. \A i \in Nodes : ttl[i] > 0 <=> ttl[i] # 0
  BY <1>1, SettingFacts
<1> QED
  BY <1>2, <1>3 DEF Restored, RxOK

(* masterQuickProcessPrevRx restores the time of who was heard. *)
LEMMA QuickFacts ==
  ASSUME NEW mm, MasterOK(mm), NEW p, RxOK(p)
  PROVE  LET r == masterQuickProcessPrevRx(mm, p)
         IN  /\ MasterOK(r) /\ Selected(mm.newNodes, r.newNodes)
             /\ r.s = mm.s
             /\ r.masterNodeTimeToLive = Restored(mm.masterNodeTimeToLive, p)
             /\ r.timeToLiveTime = mm.timeToLiveTime
<1> DEFINE ttl == mm.masterNodeTimeToLive
           r   == masterQuickProcessPrevRx(mm, p)
<1>1. ttl \in [Nodes -> TimesToLive]
  BY MasterFields
<1>2. CASE p.type = "own" /\ ttl[p.srcNodeId] > 0
  <2> DEFINE u == [mm EXCEPT !.masterNodeTimeToLive[p.srcNodeId] = MasterMaxTimeToLive]
             g == networkManagerRemoveNewNodeRequest(u, p.srcNodeId)
  <2>1. r = g
    BY <1>2 DEF masterQuickProcessPrevRx, networkManagerRecordRxPacket
  <2>2. u = [mm EXCEPT !.masterNodeTimeToLive = Restored(ttl, p)]
    BY <1>2 DEF Restored, MasterOK, Masters
  <2>3. Restored(ttl, p) \in [Nodes -> TimesToLive]
    BY <1>1, RestoredFacts
  <2> HIDE DEF u
  <2>4. /\ MasterOK(u) /\ u.newNodes = mm.newNodes /\ u.s = mm.s
        /\ u.masterNodeTimeToLive = Restored(ttl, p)
        /\ u.timeToLiveTime = mm.timeToLiveTime
    BY <2>2, <2>3 DEF MasterOK, Masters
  <2>5. /\ MasterOK(g) /\ Selected(u.newNodes, g.newNodes)
        /\ g.s = u.s
        /\ g.masterNodeTimeToLive = u.masterNodeTimeToLive
        /\ g.timeToLiveTime = u.timeToLiveTime
    BY <2>4, RemoveRequestFacts
  <2> HIDE DEF g, r
  <2> QED
    BY <2>1, <2>4, <2>5 DEF r
<1>3. CASE ~(p.type = "own" /\ ttl[p.srcNodeId] > 0)
  <2>1. r = mm /\ Restored(ttl, p) = ttl
    BY <1>3 DEF masterQuickProcessPrevRx, Restored
  <2>2. Selected(mm.newNodes, mm.newNodes)
    <3> DEFINE a  == mm.newNodes
               at == [k \in 1 .. Len(a) |-> k]
    <3>1. /\ at \in [1 .. Len(a) -> 1 .. Len(a)]
          /\ \A k \in 1 .. Len(a) : at[k] = k
      OBVIOUS
    <3> HIDE DEF at
    <3> QED
      BY <3>1 DEF Selected
  <2> QED
    BY <2>1, <2>2
<1> QED
  BY <1>2, <1>3

(* masterPreProcess: what the first half of the slot does. *)
LEMMA PreFacts ==
  ASSUME NEW mm, MasterOK(mm), NEW p, RxOK(p), NEW S
  PROVE  LET r == masterPreProcess(mm, p)
         IN  /\ MasterOK(r) /\ masterTxPacket(r) \in MasterPackets
             /\ r.masterNodeTimeToLive = Restored(mm.masterNodeTimeToLive, p)
             /\ r.timeToLiveTime = mm.timeToLiveTime
             /\ Matched(mm, S) => Matched(r, S)
             /\ Offered(mm, S) => Offered(r, S)
<1> DEFINE u == masterUpdateSchedule(mm)
           r == masterQuickProcessPrevRx(u, p)
<1>1. masterPreProcess(mm, p) = r
  BY DEF masterPreProcess
<1>2. MasterOK(u) /\ SameIds(mm, u)
  BY UpdateScheduleFacts
<1> HIDE DEF u
<1>3. /\ MasterOK(r) /\ Selected(u.newNodes, r.newNodes) /\ r.s = u.s
      /\ r.masterNodeTimeToLive = Restored(u.masterNodeTimeToLive, p)
      /\ r.timeToLiveTime = u.timeToLiveTime
  BY <1>2, QuickFacts
<1> HIDE DEF r
<1>4. \A i \in Nodes : r.masterNodeTimeToLive[i] = 0 <=> u.masterNodeTimeToLive[i] = 0
  <2>1. u.masterNodeTimeToLive \in [Nodes -> TimesToLive]
    BY <1>2, MasterFields
  <2> QED
    BY <1>3, <2>1, RestoredFacts
<1>5. Matched(mm, S) => Matched(r, S)
  <2>1. Matched(mm, S) => Matched(u, S)
    BY <1>2, SameIdsFacts
  <2>2. Matched(u, S) => Matched(r, S)
    BY <1>3, <1>4 DEF Matched
  <2> QED
    BY <2>1, <2>2
<1>6. ASSUME Offered(mm, S) PROVE Offered(r, S)
  <2>1. Offered(u, S)
    BY <1>2, <1>6, SameIdsFacts
  <2>2. r.newNodes \in Seq(Requests) /\ \A k \in 1 .. Len(r.newNodes) : r.newNodes[k].nodeId \in Nodes
    <3>1. r.newNodes \in Seq(Requests)
      BY <1>3, MasterFields
    <3>2. \A k \in 1 .. Len(r.newNodes) : r.newNodes[k] \in Requests
      BY <3>1
    <3> QED
      BY <3>1, <3>2 DEF Requests
  <2> QED
    BY <1>2, <1>3, <1>4, <2>1, <2>2, SelectedOffers
<1>7. masterTxPacket(r) \in MasterPackets
  <2>1. r.nextTxPacket \in MasterPackets /\ r.nextTxNodeId[1] \in Nodes \cup {Master, Unallocated}
    BY <1>3, MasterFields
  <2> QED
    BY <2>1 DEF masterTxPacket, MasterPackets
<1> QED
  BY <1>1, <1>2, <1>3, <1>5, <1>6, <1>7 DEF SameIds

(* The ID that a request gets, if it gets one. *)
NewId(mm, p) == IF Registers(mm, p) THEN {getNextFreeNodeId(mm)} ELSE {}

(* The times to live after IDs were given out. *)
Given(ttl, new) == [i \in Nodes |-> IF i \in new THEN MasterMaxTimeToLive ELSE ttl[i]]

(* networkManagerRegisterNewNode gives out a free ID, or changes nothing. *)
LEMMA RegisterFacts ==
  ASSUME NEW mm, MasterOK(mm), NEW d \in Devices
  PROVE  LET r  == networkManagerRegisterNewNode(mm, d)
             id == getNextFreeNodeId(mm)
         IN  \/ r = mm
             \/ /\ r # mm /\ MasterOK(r) /\ id \in FreeIds(mm)
                /\ ~Registered(mm, d)
                /\ r.timeToLiveTime = mm.timeToLiveTime
                /\ r.masterNodeTimeToLive = Given(mm.masterNodeTimeToLive, {id})
                /\ r.newNodes = Append(mm.newNodes, [uniqueId |-> d, nodeId |-> id])
                /\ \A x : Contains(r.s.activeNodes.nodeIds, x)
                            <=> Contains(mm.s.activeNodes.nodeIds, x) \/ x = id
<1> DEFINE id    == getNextFreeNodeId(mm)
           ttl   == mm.masterNodeTimeToLive
           q     == mm.s.activeNodes
           entry == [uniqueId |-> d, nodeId |-> id]
           table == Append(mm.newNodes, entry)
           t     == Scheduled(mm.s, id)
           v     == [mm EXCEPT !.masterNodeTimeToLive[id] = MasterMaxTimeToLive,
                               !.newNodes = table,
                               !.s        = t]
           r     == networkManagerRegisterNewNode(mm, d)
<1>1. CASE r = mm
  BY <1>1
<1>2. CASE r # mm
  <2>1. /\ r = v /\ Len(mm.newNodes) # MaxNodesAllocatedAtOnce
        /\ ~Registered(mm, d) /\ FreeIds(mm) # {}
    BY <1>2 DEF networkManagerRegisterNewNode
  <2>2. id \in FreeIds(mm) /\ id \in Nodes
    <3>1. FreeIds(mm) \subseteq Nat
      BY SettingFacts DEF FreeIds
    <3>2. Min(FreeIds(mm)) \in FreeIds(mm)
      BY <2>1, <3>1, MinIsLeast
    <3> QED
      BY <3>2 DEF getNextFreeNodeId, FreeIds
  <2> HIDE DEF id
  <2>3. ttl \in [Nodes -> TimesToLive] /\ MasterMaxTimeToLive \in TimesToLive
    BY MasterFields, SettingFacts
  <2>4. [ttl EXCEPT ![id] = MasterMaxTimeToLive] = Given(ttl, {id})
    BY <2>2, <2>3 DEF Given
  <2>5. Given(ttl, {id}) \in [Nodes -> TimesToLive]
    BY <2>3 DEF Given
  <2>6. table \in Seq(Requests) /\ Len(table) <= MaxNodesAllocatedAtOnce
    <3>1. entry \in Requests
      BY <2>2 DEF Requests
    <3>2. /\ mm.newNodes \in Seq(Requests) /\ Len(mm.newNodes) \in Nat
          /\ Len(mm.newNodes) <= MaxNodesAllocatedAtOnce
      BY MasterFields
    <3>3. table \in Seq(Requests) /\ Len(table) = Len(mm.newNodes) + 1
      BY <3>1, <3>2, AppendProperties
    <3> QED
      BY <2>1, <3>2, <3>3, SettingFacts
  <2>7. /\ t \in Schedulers({1}, {0}) /\ ~t.fault /\ QueuesOK(t)
        /\ \A x : Contains(t.activeNodes.nodeIds, x) <=> Contains(q.nodeIds, x) \/ x = id
    <3> DEFINE a == nodeQueueAdd(q, id)
    <3>1. mm.s \in Schedulers({1}, {0}) /\ ~mm.s.fault /\ QueuesOK(mm.s) /\ q \in Queues
      BY MasterFields DEF MasterOK, Schedulers
    <3>2. PositionOK(q) /\ Distinct(q)
      BY <3>1 DEF QueuesOK, QueueOK
    <3>3. ~QueueFull(q)
      BY <3>1, <3>2, NeverQueueFull
    <3>4. /\ a \in Queues /\ PositionOK(a) /\ Distinct(a)
          /\ \A x : Contains(a.nodeIds, x) <=> Contains(q.nodeIds, x) \/ x = id
      BY <2>2, <3>1, <3>2, AddFacts
    <3>5. t = [mm.s EXCEPT !.activeNodes = a]
      BY <3>3 DEF Scheduled, Asserted
    <3> HIDE DEF a, t
    <3> QED
      BY <3>1, <3>4, <3>5 DEF Schedulers, QueuesOK, QueueOK
  <2> HIDE DEF t, table
  <2>8. v = [mm EXCEPT !.masterNodeTimeToLive = Given(ttl, {id}), !.newNodes = table, !.s = t]
    BY <2>4
  <2>9. /\ MasterOK(v) /\ v.timeToLiveTime = mm.timeToLiveTime /\ v.newNodes = table
        /\ v.masterNodeTimeToLive = Given(ttl, {id}) /\ v.s = t
    <3> HIDE DEF v
    <3> QED
      BY <2>5, <2>6, <2>7, <2>8 DEF MasterOK, Masters
  <2> HIDE DEF v, r
  <2> QED
    BY <1>2, <2>1, <2>2, <2>7, <2>9 DEF r, id, table
<1> QED
  BY <1>1, <1>2

(* masterProcessRx registers the node that asks for an ID. *)
LEMMA ProcessRxFacts ==
  ASSUME NEW mm, MasterOK(mm), NEW p, RxOK(p), NEW S
  PROVE  LET r   == masterProcessRx(mm, p)
             new == NewId(mm, p)
         IN  /\ MasterOK(r) /\ new \subseteq FreeIds(mm)
             /\ r.masterNodeTimeToLive = Given(mm.masterNodeTimeToLive, new)
             /\ r.timeToLiveTime = mm.timeToLiveTime
             /\ Matched(mm, S) => Matched(r, S)
             /\ (Offered(mm, S) /\ new \cap S = {}) => Offered(r, S)
<1> DEFINE ttl == mm.masterNodeTimeToLive
           g   == networkManagerRegisterNewNode(mm, p.from)
           r   == masterProcessRx(mm, p)
           new == NewId(mm, p)
           id  == getNextFreeNodeId(mm)
<1>1. ttl \in [Nodes -> TimesToLive]
  BY MasterFields
<1>2. Given(ttl, {}) = ttl
  BY <1>1 DEF Given
<1>3. CASE p.type # "request"
  <2>1. r = mm /\ new = {}
    BY <1>3 DEF masterProcessRx, NewId, Registers
  <2> QED
    BY <1>2, <2>1
<1>4. CASE p.type = "request"
  <2>1. p.from \in Devices
    BY <1>4 DEF RxOK
  <2>2. /\ r = [g EXCEPT !.s = newNodeHeard(g.s)]
        /\ new = IF g # mm THEN {id} ELSE {}
    BY <1>4 DEF masterProcessRx, NewId, Registers
  <2>3. \/ g = mm
        \/ /\ g # mm /\ MasterOK(g) /\ id \in FreeIds(mm)
           /\ ~Registered(mm, p.from)
           /\ g.timeToLiveTime = mm.timeToLiveTime
           /\ g.masterNodeTimeToLive = Given(ttl, {id})
           /\ g.newNodes = Append(mm.newNodes, [uniqueId |-> p.from, nodeId |-> id])
           /\ \A x : Contains(g.s.activeNodes.nodeIds, x)
                       <=> Contains(mm.s.activeNodes.nodeIds, x) \/ x = id
    BY <2>1, RegisterFacts
  <2> HIDE DEF g, r, id, new
  <2>4. MasterOK(g) /\ g.timeToLiveTime = mm.timeToLiveTime
        /\ g.masterNodeTimeToLive = Given(ttl, new) /\ new \subseteq FreeIds(mm)
    BY <1>2, <2>2, <2>3
  <2>5. Matched(mm, S) => Matched(g, S)
    <3>1. CASE g = mm
      BY <3>1
    <3>2. CASE g # mm
      <4>1. MasterMaxTimeToLive # 0
        BY SettingFacts
      <4> QED
        BY <2>3, <3>2, <4>1 DEF Matched, Given
    <3> QED
      BY <3>1, <3>2
  <2>6. ASSUME Offered(mm, S), new \cap S = {} PROVE Offered(g, S)
    <3>1. CASE g = mm
      BY <2>6, <3>1
    <3>2. CASE g # mm
      <4> DEFINE a == mm.newNodes
                 e == [uniqueId |-> p.from, nodeId |-> id]
                 n == Len(a)
      <4>1. a \in Seq(Requests) /\ n \in Nat
        BY MasterFields
      <4>2. /\ Len(g.newNodes) = n + 1
            /\ \A k \in 1 .. n : g.newNodes[k] = a[k]
            /\ g.newNodes[n + 1] = e
        <5>1. g.newNodes = Append(a, e)
          BY <2>3, <3>2
        <5> HIDE DEF e, a
        <5> QED
          BY <4>1, <5>1, AppendProperties
      <4>3. id \in Nodes /\ id \notin S /\ ttl[id] = 0 /\ g.masterNodeTimeToLive = Given(ttl, {id})
        BY <2>2, <2>3, <2>6, <3>2 DEF FreeIds
      <4>4. \A k \in 1 .. n : /\ a[k].nodeId \in Nodes /\ a[k].nodeId # id
                              /\ a[k].uniqueId # p.from
        <5> SUFFICES ASSUME NEW k \in 1 .. n
                     PROVE  /\ a[k].nodeId \in Nodes /\ a[k].nodeId # id
                            /\ a[k].uniqueId # p.from
          OBVIOUS
        <5>1. a[k] \in Requests
          BY <4>1
        <5>2. a[k].nodeId \in S \/ ttl[a[k].nodeId] # 0
          BY <2>6 DEF Offered
        <5>3. a[k] \in Range(a)
          BY <4>1 DEF Range
        <5>4. a[k].uniqueId # p.from
          BY <2>3, <3>2, <5>3 DEF Registered
        <5> QED
          BY <4>3, <5>1, <5>2, <5>4 DEF Requests
      <4>5. /\ g.masterNodeTimeToLive[id] # 0
            /\ \A k \in 1 .. n : g.masterNodeTimeToLive[a[k].nodeId] = ttl[a[k].nodeId]
        BY <4>3, <4>4, SettingFacts DEF Given
      <4>6. /\ e.nodeId = id /\ e.uniqueId = p.from
        OBVIOUS
      <4> HIDE DEF e
      <4> SUFFICES ASSUME NEW j \in 1 .. n + 1, NEW k \in 1 .. n + 1
                   PROVE  /\ \/ g.newNodes[k].nodeId \in S
                             \/ g.masterNodeTimeToLive[g.newNodes[k].nodeId] # 0
                          /\ j # k => /\ g.newNodes[j].nodeId # g.newNodes[k].nodeId
                                      /\ g.newNodes[j].uniqueId # g.newNodes[k].uniqueId
        BY <4>2 DEF Offered
      <4>7. (j \in 1 .. n \/ j = n + 1) /\ (k \in 1 .. n \/ k = n + 1)
        BY <4>1
      <4>8. \A x, y \in 1 .. n :
              /\ a[y].nodeId \in S \/ ttl[a[y].nodeId] # 0
              /\ x # y => a[x].nodeId # a[y].nodeId /\ a[x].uniqueId # a[y].uniqueId
        BY <2>6 DEF Offered
      <4> HIDE DEF n, a
      <4> QED
        BY <4>2, <4>4, <4>5, <4>6, <4>7, <4>8
    <3> QED
      BY <3>1, <3>2
  <2>7. /\ newNodeHeard(g.s) \in Schedulers({1}, {0}) /\ ~newNodeHeard(g.s).fault
        /\ QueuesOK(newNodeHeard(g.s)) /\ newNodeHeard(g.s).activeNodes = g.s.activeNodes
    <3>1. Good(g.s) /\ Duplex(g.s)
      BY <2>4, MasterFields
    <3>2. /\ Good(newNodeHeard(g.s)) /\ Duplex(newNodeHeard(g.s))
          /\ newNodeHeard(g.s).activeNodes = g.s.activeNodes
      BY <3>1, HeardFacts DEF Duplex, SameService
    <3> QED
      BY <3>2, DuplexStates
  <2>8. MasterOK(r) /\ SameIds(g, r)
    BY <2>2, <2>4, <2>7 DEF MasterOK, Masters, SameIds
  <2>9. (Matched(g, S) => Matched(r, S)) /\ (Offered(g, S) => Offered(r, S))
    BY <2>8, SameIdsFacts
  <2> QED
    BY <2>4, <2>5, <2>6, <2>8, <2>9 DEF SameIds, r, new
<1> QED
  BY <1>3, <1>4

(* masterProcessTx prepares the next packet. *)
LEMMA ProcessTxFacts ==
  ASSUME NEW mm, MasterOK(mm)
  PROVE  LET r == masterProcessTx(mm) IN MasterOK(r) /\ SameIds(mm, r)
<1> DEFINE cycle  == (mm.tmpPacketCycle + 1) % 4
           packet == IF mm.newNodes # << >> /\ cycle = 1
                     THEN Response(Master, mm.newNodes) ELSE Empty(Master)
           left   == mm.masterResetCycles - 1
           v      == [mm EXCEPT !.masterResetCycles = left, !.nextTxPacket = Reset(Master)]
           w      == [mm EXCEPT !.tmpPacketCycle = cycle, !.nextTxPacket = packet]
<1>1. masterProcessTx(mm) = IF mm.masterResetCycles > 0 THEN v ELSE w
  BY DEF masterProcessTx
<1>2. /\ mm.masterResetCycles \in 0 .. MasterResetCycles /\ mm.tmpPacketCycle \in 0 .. 3
      /\ mm.newNodes \in Seq(Requests)
  BY MasterFields
<1>3. cycle \in 0 .. 3
  BY <1>2
<1>4. packet \in MasterPackets /\ Reset(Master) \in MasterPackets
  BY <1>2 DEF MasterPackets, Response, Empty, Reset
<1>5. mm.masterResetCycles > 0 => left \in 0 .. MasterResetCycles
  BY <1>2, SettingFacts
<1> HIDE DEF cycle, packet, left
<1>6. mm.masterResetCycles > 0 => MasterOK(v) /\ SameIds(mm, v)
  BY <1>4, <1>5 DEF MasterOK, Masters, SameIds
<1>7. MasterOK(w) /\ SameIds(mm, w)
  BY <1>3, <1>4 DEF MasterOK, Masters, SameIds
<1> HIDE DEF v, w
<1> QED
  BY <1>1, <1>6, <1>7

(* The times to live after the marked IDs were freed. *)
Freed(ttl) == [i \in Nodes |-> IF ttl[i] = RemoveNodeTTL THEN 0 ELSE ttl[i]]

(* masterRemoveAnyTimeoutNodes takes the marked IDs out of the queues and  *)
(* the table.                                                              *)
LEMMA RemoveTimeoutFacts ==
  ASSUME NEW mm, MasterOK(mm), NEW S, \A i \in S : mm.masterNodeTimeToLive[i] # RemoveNodeTTL
  PROVE  LET r == masterRemoveAnyTimeoutNodes(mm)
         IN  /\ MasterOK(r)
             /\ r.masterNodeTimeToLive = Freed(mm.masterNodeTimeToLive)
             /\ r.timeToLiveTime = mm.timeToLiveTime
             /\ Matched(mm, S) => Matched(r, S)
             /\ Offered(mm, S) => Offered(r, S)
<1> DEFINE ttl     == mm.masterNodeTimeToLive
           ids     == {id \in Nodes : ttl[id] = RemoveNodeTTL}
           new     == [id \in Nodes |-> IF id \in ids THEN 0 ELSE ttl[id]]
           u       == [mm EXCEPT !.masterNodeTimeToLive = new]
           q1      == nodeQueueRemoveEach(mm.s.activeNodes, ids)
           q2      == nodeQueueRemoveEach(mm.s.nodeTxNodes, ids)
           q3      == nodeQueueRemoveEach(mm.s.activeTxNodes, ids)
           v       == RemoveFromQueues(u, ids)
           a       == mm.newNodes
           nodeIds == [k \in DOMAIN a |-> a[k].nodeId]
           left    == LeftByRemovals(nodeIds, ids)
           b       == EntriesAt(a, left)
           r       == masterRemoveAnyTimeoutNodes(mm)
<1>1. /\ ttl \in [Nodes -> TimesToLive]
      /\ mm.s \in Schedulers({1}, {0}) /\ ~mm.s.fault /\ QueuesOK(mm.s)
      /\ a \in Seq(Requests) /\ Len(a) \in Nat /\ Len(a) <= MaxNodesAllocatedAtOnce
  BY MasterFields DEF MasterOK
<1>2. r = RemoveFromTable(v, ids)
  BY DEF masterRemoveAnyTimeoutNodes
<1>3. new = Freed(ttl)
  BY DEF Freed
<1>4. new \in [Nodes -> TimesToLive]
  <2>1. 0 \in TimesToLive
    BY SettingFacts
  <2> QED
    BY <1>1, <2>1
<1> HIDE DEF new
<1>5. MasterOK(u) /\ u.masterNodeTimeToLive = new /\ u.s = mm.s /\ u.newNodes = a
      /\ u.timeToLiveTime = mm.timeToLiveTime
  BY <1>4 DEF MasterOK, Masters
<1>6. /\ q1 \in Queues /\ QueueOK(q1) /\ q2 \in Queues /\ QueueOK(q2) /\ q3 \in Queues /\ QueueOK(q3)
      /\ \A x : Contains(q1.nodeIds, x) <=> Contains(mm.s.activeNodes.nodeIds, x) /\ x \notin ids
  <2>1. /\ mm.s.activeNodes \in Queues /\ mm.s.nodeTxNodes \in Queues
        /\ mm.s.activeTxNodes \in Queues
    BY <1>1 DEF Schedulers
  <2>2. /\ QueueOK(mm.s.activeNodes) /\ QueueOK(mm.s.nodeTxNodes)
        /\ QueueOK(mm.s.activeTxNodes)
    BY <1>1 DEF QueuesOK
  <2> HIDE DEF ids
  <2> QED
    BY <2>1, <2>2, RemoveEachFacts
<1>7. /\ MasterOK(v) /\ v.masterNodeTimeToLive = new /\ v.newNodes = a
      /\ v.timeToLiveTime = mm.timeToLiveTime /\ v.s.activeNodes = q1
  <2> DEFINE t == [mm.s EXCEPT !.activeNodes = q1, !.nodeTxNodes = q2, !.activeTxNodes = q3]
  <2>1. v = [u EXCEPT !.s = t]
    <3>1. v = [u EXCEPT !.s.activeNodes   = nodeQueueRemoveEach(@, ids),
                        !.s.nodeTxNodes   = nodeQueueRemoveEach(@, ids),
                        !.s.activeTxNodes = nodeQueueRemoveEach(@, ids)]
      BY DEF RemoveFromQueues
    <3> HIDE DEF v, ids
    <3> QED
      BY <1>1, <1>5, <3>1 DEF MasterOK, Masters, Schedulers
  <2> HIDE DEF q1, q2, q3, v, u
  <2>2. t \in Schedulers({1}, {0}) /\ ~t.fault /\ QueuesOK(t) /\ t.activeNodes = q1
    BY <1>1, <1>6 DEF Schedulers, QueuesOK
  <2> HIDE DEF t
  <2> QED
    BY <1>5, <2>1, <2>2 DEF MasterOK, Masters
<1>8. left \in SUBSET DOMAIN a
  BY DEF LeftByRemovals
<1>9. r = [v EXCEPT !.newNodes = b]
  BY <1>2, <1>7 DEF RemoveFromTable
<1> HIDE DEF v, u, q1, r, ids
<1>10. /\ b \in Seq(Requests) /\ Len(b) \in Nat /\ Len(b) <= Len(a)
       /\ \E at : Picks(b, a, left, at)
  <2> HIDE DEF left, a
  <2> QED
    BY <1>1, <1>8, EntriesAtFacts
<1>11. PICK at : Picks(b, a, left, at)
  BY <1>10
<1> HIDE DEF b
<1>12. /\ MasterOK(r) /\ r.masterNodeTimeToLive = new /\ r.timeToLiveTime = mm.timeToLiveTime
       /\ r.s.activeNodes = q1 /\ r.newNodes = b
  <2>1. Len(b) <= MaxNodesAllocatedAtOnce
    BY <1>1, <1>10, SettingFacts
  <2> QED
    BY <1>7, <1>9, <1>10, <2>1 DEF MasterOK, Masters
<1>13. ASSUME Matched(mm, S) PROVE Matched(r, S)
  BY <1>3, <1>6, <1>12, <1>13 DEF Matched, Freed, ids
<1>14. ASSUME Offered(mm, S) PROVE Offered(r, S)
  <2>1. Selected(a, b)
    <3>1. at \in [1 .. Len(b) -> 1 .. Len(a)]
      BY <1>1, <1>8, <1>11 DEF Picks
    <3> QED
      BY <1>11, <3>1 DEF Picks, Selected
  <2>2. ASSUME NEW k \in 1 .. Len(b) PROVE b[k].nodeId \in Nodes /\ b[k].nodeId \notin ids
    <3>1. at[k] \in left /\ at[k] \in 1 .. Len(a) /\ b[k] = a[at[k]]
      BY <1>1, <1>8, <1>11 DEF Picks
    <3>2. ASSUME NEW j \in 1 .. at[k] - 1 PROVE nodeIds[j] # nodeIds[at[k]]
      <4>1. j \in 1 .. Len(a) /\ j # at[k]
        BY <1>1, <3>1
      <4>2. a[j].nodeId # a[at[k]].nodeId
        BY <1>14, <3>1, <4>1 DEF Offered
      <4> QED
        BY <1>1, <3>1, <4>1, <4>2
    <3>3. nodeIds[at[k]] = a[at[k]].nodeId
      BY <1>1, <3>1
    <3>4. nodeIds[at[k]] \notin ids
      BY <3>1, <3>2 DEF LeftByRemovals
    <3>5. a[at[k]] \in Requests
      BY <1>1, <3>1
    <3> QED
      BY <3>1, <3>3, <3>4, <3>5 DEF Requests
  <2>3. \A k \in 1 .. Len(r.newNodes) :
          ttl[r.newNodes[k].nodeId] # 0 => r.masterNodeTimeToLive[r.newNodes[k].nodeId] # 0
    BY <1>3, <1>12, <2>2 DEF Freed, ids
  <2> QED
    BY <1>12, <1>14, <2>1, <2>3, SelectedOffers
<1> QED
  BY <1>3, <1>12, <1>13, <1>14 DEF r

(* The master's handlers in a slot.  S holds the ID that the timer thread  *)
(* is updating meanwhile, if there is one.                                 *)
LEMMA ProcessFacts ==
  ASSUME NEW mm, MasterOK(mm), NEW p, RxOK(p), NEW S \in SUBSET Nodes, Matched(mm, S),
         \A i \in S : mm.masterNodeTimeToLive[i] # RemoveNodeTTL
  PROVE  LET pre == masterPreProcess(mm, p)
             new == NewId(pre, p)
             r   == masterProcess(mm, p)
             was == mm.masterNodeTimeToLive
             is  == r.masterNodeTimeToLive
         IN  /\ MasterOK(r) /\ masterTxPacket(pre) \in MasterPackets
             /\ r.timeToLiveTime = mm.timeToLiveTime
             /\ Matched(r, S)
             /\ (Offered(mm, S) /\ new \cap S = {}) => Offered(r, S)
             /\ new \subseteq Nodes /\ \A i \in new : was[i] = 0
             /\ \A i \in Nodes :
                  /\ was[i] \in 1 .. MasterMaxTimeToLive => is[i] \in {was[i], MasterMaxTimeToLive}
                  /\ (p.type = "own" /\ p.srcNodeId = i /\ was[i] # 0) => is[i] = MasterMaxTimeToLive
<1> DEFINE pre == masterPreProcess(mm, p)
           new == NewId(pre, p)
           rx  == masterProcessRx(pre, p)
           tx  == masterProcessTx(rx)
           r   == masterRemoveAnyTimeoutNodes(tx)
           was == mm.masterNodeTimeToLive
           is  == r.masterNodeTimeToLive
<1>1. masterProcess(mm, p) = r
  BY DEF masterProcess, masterPostProcess
<1>2. /\ MasterOK(pre) /\ masterTxPacket(pre) \in MasterPackets
      /\ pre.masterNodeTimeToLive = Restored(was, p)
      /\ pre.timeToLiveTime = mm.timeToLiveTime
      /\ Matched(pre, S)
      /\ Offered(mm, S) => Offered(pre, S)
  BY PreFacts
<1> HIDE DEF pre
<1>3. /\ MasterOK(rx) /\ new \subseteq FreeIds(pre)
      /\ rx.masterNodeTimeToLive = Given(pre.masterNodeTimeToLive, new)
      /\ rx.timeToLiveTime = pre.timeToLiveTime
      /\ Matched(rx, S)
      /\ (Offered(pre, S) /\ new \cap S = {}) => Offered(rx, S)
  BY <1>2, ProcessRxFacts
<1> HIDE DEF rx, new
<1>4. MasterOK(tx) /\ SameIds(rx, tx)
  BY <1>3, ProcessTxFacts
<1> HIDE DEF tx
<1>5. Matched(tx, S) /\ (Offered(rx, S) => Offered(tx, S))
  BY <1>3, <1>4, SameIdsFacts
<1>6. was \in [Nodes -> TimesToLive]
  BY MasterFields
<1>7. /\ Restored(was, p) \in [Nodes -> TimesToLive]
      /\ \A i \in Nodes :
           /\ Restored(was, p)[i] = 0 <=> was[i] = 0
           /\ Restored(was, p)[i] = was[i] \/ Restored(was, p)[i] = MasterMaxTimeToLive
           /\ (p.type = "own" /\ p.srcNodeId = i /\ was[i] # 0)
                => Restored(was, p)[i] = MasterMaxTimeToLive
  BY <1>6, RestoredFacts
<1>8. tx.masterNodeTimeToLive = Given(Restored(was, p), new)
  BY <1>2, <1>3, <1>4 DEF SameIds
<1>9. MasterMaxTimeToLive # RemoveNodeTTL /\ RemoveNodeTTL \notin 1 .. MasterMaxTimeToLive
  BY SettingFacts
<1>10. new \subseteq Nodes /\ \A i \in new : was[i] = 0
  BY <1>2, <1>3, <1>7 DEF FreeIds
<1>11. \A i \in S : tx.masterNodeTimeToLive[i] # RemoveNodeTTL
  BY <1>7, <1>8, <1>9 DEF Given
<1>12. /\ MasterOK(r)
       /\ is = Freed(tx.masterNodeTimeToLive)
       /\ r.timeToLiveTime = tx.timeToLiveTime
       /\ Matched(tx, S) => Matched(r, S)
       /\ Offered(tx, S) => Offered(r, S)
  BY <1>4, <1>11, RemoveTimeoutFacts
<1> HIDE DEF r
<1>13. ASSUME NEW i \in Nodes
       PROVE  /\ was[i] \in 1 .. MasterMaxTimeToLive => is[i] \in {was[i], MasterMaxTimeToLive}
              /\ (p.type = "own" /\ p.srcNodeId = i /\ was[i] # 0) => is[i] = MasterMaxTimeToLive
  <2>1. is[i] = IF tx.masterNodeTimeToLive[i] = RemoveNodeTTL THEN 0
                ELSE tx.masterNodeTimeToLive[i]
    BY <1>12 DEF Freed
  <2>2. tx.masterNodeTimeToLive[i] = IF i \in new THEN MasterMaxTimeToLive ELSE Restored(was, p)[i]
    BY <1>8 DEF Given
  <2> QED
    BY <1>7, <1>9, <2>1, <2>2
<1> QED
  BY <1>1, <1>2, <1>3, <1>4, <1>5, <1>10, <1>12, <1>13 DEF SameIds, pre, new

(***************************************************************************)
(* The timer                                                               *)
(***************************************************************************)
(* The slots left when the time to live is x, t slots after an update. *)
Left(x, t) == (x - 1) * TimeToLiveUpdateTime + TimeToLiveUpdateTime - t

LEMMA LeftFacts ==
  ASSUME NEW x \in Nat, 1 <= x, NEW t \in 0 .. TimeToLiveUpdateTime - 1
  PROVE  /\ Left(x, t) \in Nat /\ Left(x, t) >= 1
         /\ \A y \in Nat : x <= y => Left(y, t) \in Nat /\ Left(x, t) <= Left(y, t)
         /\ t + 1 < TimeToLiveUpdateTime => Left(x, t + 1) = Left(x, t) - 1
         /\ t + 1 >= TimeToLiveUpdateTime =>
              /\ x = 1 => Left(x, t) = 1
              /\ x # 1 => Left(x - 1, 0) = Left(x, t) - 1
         /\ Left(MasterMaxTimeToLive, t) >= NodeTimeout
         /\ Left(MasterMaxTimeToLive - 1, 0) >= NodeTimeout
<1> DEFINE U    == TimeToLiveUpdateTime
           M    == MasterMaxTimeToLive
           P(y) == (y - 1) * U
<1>1. U \in Nat \ {0} /\ M \in Nat /\ 2 <= M /\ NodeTimeout \in Nat /\ P(M) >= NodeTimeout
  BY SettingFacts
<1>2. ASSUME NEW y \in Nat, 1 <= y PROVE P(y) \in Nat
  <2>1. y - 1 \in Nat
    BY <1>2
  <2> DEFINE z == y - 1
  <2> HIDE DEF z, U
  <2>2. z * U \in Nat
    BY <1>1, <2>1 DEF z
  <2> QED
    BY <2>2 DEF z
<1>3. ASSUME NEW y \in Nat, 2 <= y PROVE P(y) = P(y - 1) + U
  <2> DEFINE z == y - 2
  <2>1. z \in Nat /\ y - 1 = z + 1 /\ (y - 1) - 1 = z
    BY <1>3
  <2>2. (z + 1) * U = z * U + U
    <3> HIDE DEF z, U
    <3> QED
      BY <1>1, <2>1
  <2> HIDE DEF z, U
  <2> QED
    BY <2>1, <2>2
<1>4. ASSUME NEW y \in Nat, x <= y PROVE P(x) <= P(y)
  <2>1. CASE x = y
    <3>1. P(x) = P(y) /\ P(x) \in Nat
      BY <1>2, <2>1
    <3> HIDE DEF P
    <3> QED
      BY <3>1
  <2>2. CASE x # y
    <3> DEFINE a == x - 1
               b == y - 1
    <3>1. a \in Nat /\ b \in Nat /\ a < b
      BY <1>4, <2>2
    <3> HIDE DEF a, b, U
    <3>2. U * a \in Nat /\ U * b \in Nat /\ U * a + U <= U * b
      BY <1>1, <3>1, ProductStep
    <3>3. a * U = U * a /\ b * U = U * b
      BY <1>1, <3>1
    <3>4. a * U <= b * U
      BY <1>1, <3>2, <3>3
    <3> QED
      BY <3>4 DEF a, b
  <2> QED
    BY <2>1, <2>2
<1>5. Left(x, t) = P(x) + U - t /\ \A y, s : Left(y, s) = P(y) + U - s
  BY DEF Left
<1>6. P(1) = 0
  BY <1>1
<1>7. P(x) \in Nat /\ \A y \in Nat : x <= y => P(y) \in Nat /\ P(x) <= P(y)
  BY <1>2, <1>4
<1>8. x # 1 => P(x) = P(x - 1) + U /\ P(x - 1) \in Nat
  BY <1>2, <1>3
<1>9. P(M) = P(M - 1) + U /\ P(M - 1) \in Nat
  BY <1>1, <1>2, <1>3
<1> HIDE DEF P, U, M
<1>10. t \in Nat /\ t < U
  BY <1>1 DEF U
<1> QED
  BY <1>1, <1>5, <1>6, <1>7, <1>8, <1>9, <1>10 DEF U, M

LEMMA UpdatedFacts ==
  ASSUME NEW x \in TimesToLive
  PROVE  /\ x \in Nat /\ Updated(x) \in TimesToLive /\ (Updated(x) = 0 <=> x = 0)
         /\ x \in 2 .. MasterMaxTimeToLive => Updated(x) = x - 1
         /\ x \in 1 .. MasterMaxTimeToLive <=> x \notin {0, RemoveNodeTTL}
<1>1. x \in 0 .. MasterMaxTimeToLive + 1 /\ RemoveNodeTTL = MasterMaxTimeToLive + 1
      /\ TimesToLive = 0 .. MasterMaxTimeToLive + 1 /\ MasterMaxTimeToLive \in Nat
  BY SettingFacts
<1>2. Updated(x) = IF x = 0 \/ x = MasterMaxTimeToLive + 1 THEN x
                   ELSE IF x = 1 THEN MasterMaxTimeToLive + 1 ELSE x - 1
  BY <1>1 DEF Updated
<1> QED
  BY <1>1, <1>2

LEMMA TimeLeftFacts ==
  ASSUME NEW mm, MasterOK(mm), NEW i \in Nodes
  PROVE  LET x == mm.masterNodeTimeToLive[i]
         IN  /\ TimeLeft(mm, i) = IF x \in 1 .. MasterMaxTimeToLive
                                  THEN Left(x, mm.timeToLiveTime) ELSE 0
             /\ x \in TimesToLive /\ x \in Nat
             /\ mm.timeToLiveTime \in 0 .. TimeToLiveUpdateTime - 1
             /\ TimeLeft(mm, i) \in Nat
<1> DEFINE x == mm.masterNodeTimeToLive[i]
           t == mm.timeToLiveTime
<1>1. x \in TimesToLive /\ t \in 0 .. TimeToLiveUpdateTime - 1
  BY MasterFields
<1>2. x \in Nat /\ (x \in 1 .. MasterMaxTimeToLive <=> x \notin {0, RemoveNodeTTL})
  BY <1>1, UpdatedFacts
<1>3. TimeLeft(mm, i) = IF x \in {0, RemoveNodeTTL} THEN 0 ELSE Left(x, t)
  BY DEF TimeLeft, Left
<1> HIDE DEF x, t
<1>4. x \in 1 .. MasterMaxTimeToLive => Left(x, t) \in Nat
  BY <1>1, <1>2, LeftFacts
<1> QED
  BY <1>1, <1>2, <1>3, <1>4 DEF x, t

(* Only whether an ID is reserved matters to the queues and the table. *)
LEMMA SameReserved ==
  ASSUME NEW mm, MasterOK(mm), NEW ttl \in [Nodes -> TimesToLive], NEW S, NEW T,
         NEW time \in 0 .. TimeToLiveUpdateTime - 1,
         \A i \in Nodes : (mm.masterNodeTimeToLive[i] # 0 \/ i \in S) <=> (ttl[i] # 0 \/ i \in T)
  PROVE  LET r == [mm EXCEPT !.timeToLiveTime = time, !.masterNodeTimeToLive = ttl]
         IN  /\ MasterOK(r) /\ r.masterNodeTimeToLive = ttl /\ r.timeToLiveTime = time
             /\ Matched(mm, S) => Matched(r, T)
             /\ Offered(mm, S) => Offered(r, T)
<1> DEFINE r == [mm EXCEPT !.timeToLiveTime = time, !.masterNodeTimeToLive = ttl]
<1>1. /\ MasterOK(r) /\ r.masterNodeTimeToLive = ttl /\ r.timeToLiveTime = time
      /\ r.s = mm.s /\ r.newNodes = mm.newNodes
  BY DEF MasterOK, Masters
<1> HIDE DEF r
<1>2. Matched(mm, S) => Matched(r, T)
  BY <1>1 DEF Matched
<1>3. Offered(mm, S) => Offered(r, T)
  <2>1. mm.newNodes \in Seq(Requests)
    BY MasterFields
  <2>2. \A k \in 1 .. Len(mm.newNodes) : mm.newNodes[k] \in Requests
    BY <2>1
  <2>3. \A k \in 1 .. Len(mm.newNodes) : mm.newNodes[k].nodeId \in Nodes
    BY <2>2 DEF Requests
  <2> QED
    BY <1>1, <2>3 DEF Offered
<1> QED
  BY <1>1, <1>2, <1>3 DEF r

(* networkManagerUpdateTimeUs takes one slot of the time that is left. *)
LEMMA TickFacts ==
  ASSUME NEW mm, MasterOK(mm)
  PROVE  LET r == networkManagerUpdateTimeUs(mm)
         IN  /\ MasterOK(r)
             /\ \A i \in Nodes : mm.masterNodeTimeToLive[i] # 0 <=> r.masterNodeTimeToLive[i] # 0
             /\ Matched(mm, {}) => Matched(r, {})
             /\ Offered(mm, {}) => Offered(r, {})
             /\ \A i \in Nodes : TimeLeft(mm, i) >= 2 => TimeLeft(r, i) = TimeLeft(mm, i) - 1
<1> DEFINE was  == mm.masterNodeTimeToLive
           t    == mm.timeToLiveTime
           time == IF UpdateDue(mm) THEN 0 ELSE t + 1
           is   == IF UpdateDue(mm) THEN [i \in Nodes |-> Updated(was[i])] ELSE was
           v    == [mm EXCEPT !.timeToLiveTime = time, !.masterNodeTimeToLive = is]
           r    == networkManagerUpdateTimeUs(mm)
<1>1. was \in [Nodes -> TimesToLive] /\ t \in 0 .. TimeToLiveUpdateTime - 1
  BY MasterFields
<1>2. UpdateDue(mm) <=> t + 1 >= TimeToLiveUpdateTime
  BY DEF UpdateDue
<1>3. r = v
  BY DEF networkManagerUpdateTimeUs, MasterOK, Masters
<1>4. time \in 0 .. TimeToLiveUpdateTime - 1
  BY <1>1, <1>2, SettingFacts
<1>5. /\ is \in [Nodes -> TimesToLive]
      /\ \A i \in Nodes : is[i] = (IF UpdateDue(mm) THEN Updated(was[i]) ELSE was[i])
  BY <1>1, UpdatedFacts
<1> HIDE DEF is
<1>6. \A i \in Nodes : was[i] # 0 <=> is[i] # 0
  BY <1>1, <1>5, UpdatedFacts
<1> HIDE DEF time
<1>7. /\ MasterOK(v) /\ v.masterNodeTimeToLive = is /\ v.timeToLiveTime = time
      /\ Matched(mm, {}) => Matched(v, {})
      /\ Offered(mm, {}) => Offered(v, {})
  BY <1>4, <1>5, <1>6, SameReserved
<1> HIDE DEF v
<1>8. ASSUME NEW i \in Nodes, TimeLeft(mm, i) >= 2 PROVE TimeLeft(v, i) = TimeLeft(mm, i) - 1
  <2> DEFINE x == was[i]
             y == is[i]
  <2>1. /\ x \in Nat /\ x \in 1 .. MasterMaxTimeToLive /\ TimeLeft(mm, i) = Left(x, t)
    BY <1>8, TimeLeftFacts
  <2>2. /\ t + 1 < TimeToLiveUpdateTime => Left(x, t + 1) = Left(x, t) - 1
        /\ t + 1 >= TimeToLiveUpdateTime =>
             /\ x = 1 => Left(x, t) = 1
             /\ x # 1 => Left(x - 1, 0) = Left(x, t) - 1
    BY <1>1, <2>1, LeftFacts
  <2>3. t \in Nat /\ TimeToLiveUpdateTime \in Nat /\ MasterMaxTimeToLive \in Nat
    BY <1>1, SettingFacts
  <2>4. TimeLeft(v, i) = IF y \in 1 .. MasterMaxTimeToLive THEN Left(y, time) ELSE 0
    BY <1>7, TimeLeftFacts
  <2>5. x \in TimesToLive
    BY <1>1
  <2>6. x \in 2 .. MasterMaxTimeToLive => Updated(x) = x - 1
    BY <2>5, UpdatedFacts
  <2>7. y = IF UpdateDue(mm) THEN Updated(x) ELSE x
    BY <1>5
  <2> HIDE DEF x, y
  <2>8. CASE UpdateDue(mm)
    <3>1. x # 1 /\ Left(x - 1, 0) = Left(x, t) - 1 /\ time = 0
      BY <1>2, <1>8, <2>1, <2>2, <2>8 DEF time
    <3>2. x \in 2 .. MasterMaxTimeToLive
      BY <2>1, <2>3, <3>1
    <3>3. y = x - 1 /\ y \in 1 .. MasterMaxTimeToLive
      BY <2>3, <2>6, <2>7, <2>8, <3>2
    <3> QED
      BY <2>1, <2>4, <3>1, <3>3
  <2>9. CASE ~UpdateDue(mm)
    <3>1. Left(x, t + 1) = Left(x, t) - 1 /\ time = t + 1
      BY <1>2, <2>2, <2>3, <2>9 DEF time
    <3> QED
      BY <2>1, <2>4, <2>7, <2>9, <3>1
  <2> QED
    BY <2>8, <2>9
<1> QED
  BY <1>3, <1>6, <1>7, <1>8 DEF r

(* What a slot, in which packet p was received and the IDs new were given  *)
(* out, makes of the master mm: an ID with time left loses at most a slot  *)
(* of it, and one that was heard, and not overwritten by the timer, has    *)
(* the time of a node again.                                               *)
MasterStep(mm, p, new, r, overwritten) ==
  /\ MasterOK(r) /\ Matched(r, {}) /\ new \subseteq Nodes
  /\ \A i \in Nodes :
       /\ TimeLeft(mm, i) >= 2 =>
            i \notin new /\ r.masterNodeTimeToLive[i] # 0 /\ TimeLeft(mm, i) - 1 <= TimeLeft(r, i)
       /\ (p.type = "own" /\ p.srcNodeId = i /\ mm.masterNodeTimeToLive[i] # 0 /\ i \notin overwritten) =>
            i \notin new /\ r.masterNodeTimeToLive[i] # 0 /\ NodeTimeout <= TimeLeft(r, i)

LEMMA SlotStep ==
  ASSUME NEW mm, MasterOK(mm), Matched(mm, {}), NEW p, RxOK(p)
  PROVE  LET ticked == networkManagerUpdateTimeUs(mm)
             pre    == masterPreProcess(ticked, p)
             r      == masterProcess(ticked, p)
         IN  /\ MasterStep(mm, p, NewId(pre, p), r, {})
             /\ masterTxPacket(pre) \in MasterPackets
             /\ Offered(mm, {}) => Offered(r, {})
<1> DEFINE u   == networkManagerUpdateTimeUs(mm)
           pre == masterPreProcess(u, p)
           new == NewId(pre, p)
           r   == masterProcess(u, p)
           was == u.masterNodeTimeToLive
           is  == r.masterNodeTimeToLive
<1>1. /\ MasterOK(u)
      /\ \A i \in Nodes : mm.masterNodeTimeToLive[i] # 0 <=> was[i] # 0
      /\ Matched(u, {})
      /\ Offered(mm, {}) => Offered(u, {})
      /\ \A i \in Nodes : TimeLeft(mm, i) >= 2 => TimeLeft(u, i) = TimeLeft(mm, i) - 1
  BY TickFacts
<1> HIDE DEF u
<1>2. /\ MasterOK(r) /\ masterTxPacket(pre) \in MasterPackets
      /\ r.timeToLiveTime = u.timeToLiveTime
      /\ Matched(r, {})
      /\ (Offered(u, {}) /\ new \cap {} = {}) => Offered(r, {})
      /\ new \subseteq Nodes /\ \A i \in new : was[i] = 0
      /\ \A i \in Nodes :
           /\ was[i] \in 1 .. MasterMaxTimeToLive => is[i] \in {was[i], MasterMaxTimeToLive}
           /\ (p.type = "own" /\ p.srcNodeId = i /\ was[i] # 0) => is[i] = MasterMaxTimeToLive
  <2> DEFINE S == {}
  <2>1. S \in SUBSET Nodes /\ Matched(u, S) /\ \A i \in S : was[i] # RemoveNodeTTL
    BY <1>1
  <2> HIDE DEF S
  <2>2. /\ MasterOK(r) /\ masterTxPacket(pre) \in MasterPackets
        /\ r.timeToLiveTime = u.timeToLiveTime
        /\ Matched(r, S)
        /\ (Offered(u, S) /\ new \cap S = {}) => Offered(r, S)
        /\ new \subseteq Nodes /\ \A i \in new : was[i] = 0
        /\ \A i \in Nodes :
             /\ was[i] \in 1 .. MasterMaxTimeToLive => is[i] \in {was[i], MasterMaxTimeToLive}
             /\ (p.type = "own" /\ p.srcNodeId = i /\ was[i] # 0) => is[i] = MasterMaxTimeToLive
    BY <1>1, <2>1, ProcessFacts
  <2> QED
    BY <2>2 DEF S
<1> HIDE DEF r, pre, new
<1> DEFINE M == MasterMaxTimeToLive
           t == u.timeToLiveTime
<1>3. M \in Nat /\ 2 <= M /\ M \in 1 .. M /\ t \in 0 .. TimeToLiveUpdateTime - 1
  BY <1>1, SettingFacts, MasterFields
<1>4. ASSUME NEW i \in Nodes, TimeLeft(mm, i) >= 2
      PROVE  i \notin new /\ is[i] # 0 /\ TimeLeft(mm, i) - 1 <= TimeLeft(r, i)
  <2> DEFINE x == was[i]
             y == is[i]
  <2>1. TimeLeft(u, i) = TimeLeft(mm, i) - 1 /\ TimeLeft(mm, i) \in Nat
    BY <1>1, <1>4, TimeLeftFacts
  <2>2. x \in 1 .. M /\ TimeLeft(u, i) = Left(x, t)
    BY <1>1, <1>4, <2>1, TimeLeftFacts
  <2>3. y \in {x, M}
    BY <1>2, <2>2
  <2>4. TimeLeft(r, i) = IF y \in 1 .. M THEN Left(y, t) ELSE 0
    BY <1>2, TimeLeftFacts
  <2> HIDE DEF x, y, M, t
  <2>5. x \in Nat /\ 1 <= x /\ y \in Nat /\ x <= y /\ y \in 1 .. M /\ x # 0 /\ y # 0
    BY <1>3, <2>2, <2>3
  <2>6. Left(x, t) <= Left(y, t)
    BY <1>3, <2>5, LeftFacts
  <2>7. i \notin new
    BY <1>2, <2>5 DEF x
  <2> QED
    BY <2>1, <2>2, <2>4, <2>5, <2>6, <2>7 DEF y
<1>5. ASSUME NEW i \in Nodes, p.type = "own" /\ p.srcNodeId = i /\ mm.masterNodeTimeToLive[i] # 0
      PROVE  i \notin new /\ is[i] # 0 /\ NodeTimeout <= TimeLeft(r, i)
  <2>1. was[i] # 0
    BY <1>1, <1>5
  <2>2. i \notin new /\ is[i] = M
    BY <1>2, <1>5, <2>1
  <2>3. TimeLeft(r, i) = Left(M, t)
    BY <1>2, <1>3, <2>2, TimeLeftFacts
  <2>4. Left(M, t) >= NodeTimeout
    <3>1. 1 <= M
      BY <1>3
    <3> QED
      BY <1>3, <3>1, LeftFacts
  <2>5. Left(M, t) \in Nat /\ NodeTimeout \in Nat
    <3>1. 1 <= M
      BY <1>3
    <3> QED
      BY <1>3, <3>1, LeftFacts, SettingFacts
  <2> QED
    BY <1>3, <2>2, <2>3, <2>4, <2>5
<1> QED
  BY <1>1, <1>2, <1>4, <1>5 DEF MasterStep, u, pre, new, r

(* What becomes of the time to live that the timer is updating. *)
LEMMA ProgressFacts ==
  ASSUME NEW old \in TimesToLive, NEW progress \in Progress, Reaches(old, progress),
         NEW left \in TimesToLive,
         Seen(old, progress) \in 1 .. MasterMaxTimeToLive =>
           left \in {Seen(old, progress), MasterMaxTimeToLive}
  PROVE  LET seen == Seen(old, progress)
             done == Completed(old, progress, left)
         IN  /\ seen \in TimesToLive /\ done \in TimesToLive
             /\ progress = "before" => seen = old /\ (left # 0 <=> done # 0)
             /\ progress # "before" =>
                  old \in 1 .. MasterMaxTimeToLive /\ seen # RemoveNodeTTL /\ done # 0
             /\ old \in 2 .. MasterMaxTimeToLive =>
                  seen # 0 /\ done \in 1 .. MasterMaxTimeToLive /\ old - 1 <= done
             /\ (~Overwrites(old, progress) /\ left = MasterMaxTimeToLive) =>
                  done \in {MasterMaxTimeToLive - 1, MasterMaxTimeToLive}
<1> DEFINE M == MasterMaxTimeToLive
           seen == Seen(old, progress)
           done == Completed(old, progress, left)
<1>1. /\ M \in Nat /\ 2 <= M /\ RemoveNodeTTL = M + 1 /\ TimesToLive = 0 .. M + 1
      /\ old \in Nat /\ old <= M + 1 /\ left \in Nat /\ left <= M + 1
  BY SettingFacts
<1>2. /\ Updated(old) \in TimesToLive /\ (Updated(old) = 0 <=> old = 0)
      /\ old \in 2 .. M => Updated(old) = old - 1
      /\ Updated(left) \in TimesToLive /\ (Updated(left) = 0 <=> left = 0)
      /\ left \in 2 .. M => Updated(left) = left - 1
  BY UpdatedFacts
<1>3. CASE progress = "before"
  <2>1. seen = old /\ done = Updated(left)
    BY <1>3 DEF Seen, Completed
  <2>2. old \in 2 .. M => left \in {old, M}
    BY <1>1, <2>1
  <2>3. M \in 2 .. M
    BY <1>1
  <2> HIDE DEF M, seen, done
  <2> QED
    BY <1>1, <1>2, <1>3, <2>1, <2>2, <2>3 DEF M, seen, done
<1>4. CASE progress = "read"
  <2>1. seen = old /\ done = Updated(old) /\ old \notin {0, RemoveNodeTTL}
    BY <1>4 DEF Seen, Completed, Reaches
  <2>2. Overwrites(old, progress)
    BY <1>4 DEF Overwrites
  <2> HIDE DEF M, seen, done
  <2> QED
    BY <1>1, <1>2, <1>4, <2>1, <2>2 DEF M, seen, done
<1>5. CASE progress = "stored"
  <2>1. /\ seen = old - 1 /\ old \notin {0, RemoveNodeTTL}
        /\ done = IF left = 0 THEN RemoveNodeTTL ELSE left
    BY <1>5 DEF Seen, Completed, Reaches
  <2>2. seen \in 1 .. M => left \in {seen, M}
    OBVIOUS
  <2> HIDE DEF M, seen, done
  <2> QED
    BY <1>1, <1>5, <2>1, <2>2 DEF M, seen, done
<1>6. CASE progress = "expired"
  <2>1. seen = old - 1 /\ old = 1 /\ done = RemoveNodeTTL
    BY <1>6 DEF Seen, Completed, Reaches
  <2>2. Overwrites(old, progress)
    BY <2>1 DEF Overwrites
  <2> HIDE DEF M, seen, done
  <2> QED
    BY <1>1, <1>6, <2>1, <2>2 DEF M, seen, done
<1> QED
  BY <1>3, <1>4, <1>5, <1>6 DEF Progress

(* The same when the handlers preempt the timer in its update, which has   *)
(* come to id.                                                             *)
LEMMA SlotInTimerStep ==
  ASSUME NEW mm, MasterOK(mm), Matched(mm, {}), NEW p, RxOK(p), NEW id \in Nodes, UpdateDue(mm),
         NEW progress \in Progress, Reaches(mm.masterNodeTimeToLive[id], progress)
  PROVE  LET old      == mm.masterNodeTimeToLive[id]
             ticked   == UpdateUpTo(mm, id, progress)
             pre      == masterPreProcess(ticked, p)
             new      == NewId(pre, p)
             r        == UpdateFrom(masterProcess(ticked, p), id, old, progress)
             updating == IF progress = "before" THEN {} ELSE {id}
         IN  /\ MasterStep(mm, p, new, r, {i \in {id} : Overwrites(mm.masterNodeTimeToLive[i], progress)})
             /\ masterTxPacket(pre) \in MasterPackets
             /\ (Offered(mm, {}) /\ new \cap updating = {}) => Offered(r, {})
<1> DEFINE old  == mm.masterNodeTimeToLive
           seen == Seen(old[id], progress)
           up   == [i \in Nodes |-> IF i < id THEN Updated(old[i]) ELSE IF i = id THEN seen ELSE old[i]]
           u    == UpdateUpTo(mm, id, progress)
           pre  == masterPreProcess(u, p)
           new  == NewId(pre, p)
           h    == masterProcess(u, p)
           hand == h.masterNodeTimeToLive
           done == Completed(old[id], progress, hand[id])
           is   == [i \in Nodes |-> IF i > id THEN Updated(hand[i])
                                    ELSE IF i = id THEN done ELSE hand[i]]
           r    == UpdateFrom(h, id, old[id], progress)
           S    == IF progress = "before" THEN {} ELSE {id}
           lost == {i \in {id} : Overwrites(old[i], progress)}
           M    == MasterMaxTimeToLive
           U    == TimeToLiveUpdateTime
<1>1. /\ old \in [Nodes -> TimesToLive] /\ mm.timeToLiveTime \in 0 .. U - 1
      /\ U \in Nat /\ U # 0 /\ M \in Nat /\ 2 <= M /\ 0 \in 0 .. U - 1
  BY MasterFields, SettingFacts
<1>2. mm.timeToLiveTime + 1 >= U
  BY DEF UpdateDue
<1>3. /\ old[id] \in TimesToLive /\ seen \in TimesToLive /\ id \in Nat
      /\ progress = "before" => seen = old[id]
      /\ progress # "before" => old[id] \in 1 .. M /\ seen # RemoveNodeTTL
  <2>1. old[id] \in TimesToLive /\ id \in Nat
    BY <1>1, SettingFacts
  <2> DEFINE left == IF seen \in 1 .. M THEN seen ELSE 0
             x    == old[id]
  <2>2. left \in TimesToLive /\ (seen \in 1 .. M => left \in {seen, M})
    BY <1>1, SettingFacts
  <2>3. x \in TimesToLive /\ Reaches(x, progress)
    BY <2>1
  <2>4. Seen(x, progress) \in 1 .. MasterMaxTimeToLive =>
          left \in {Seen(x, progress), MasterMaxTimeToLive}
    BY <2>2
  <2> HIDE DEF left, x
  <2>5. /\ Seen(x, progress) \in TimesToLive
        /\ progress = "before" => Seen(x, progress) = x
        /\ progress # "before" =>
             x \in 1 .. MasterMaxTimeToLive /\ Seen(x, progress) # RemoveNodeTTL
    BY <2>2, <2>3, <2>4, ProgressFacts
  <2> QED
    BY <2>1, <2>5 DEF x
<1>4. /\ up \in [Nodes -> TimesToLive]
      /\ \A i \in Nodes : up[i] = (IF i < id THEN Updated(old[i]) ELSE IF i = id THEN seen ELSE old[i])
  BY <1>1, <1>3, UpdatedFacts
<1>5. u = [mm EXCEPT !.timeToLiveTime = 0, !.masterNodeTimeToLive = up]
  <2>1. up = [i \in Nodes |-> IF i < id THEN Updated(old[i])
                              ELSE IF i = id THEN Seen(old[i], progress) ELSE old[i]]
    OBVIOUS
  <2> QED
    BY <2>1 DEF UpdateUpTo
<1> HIDE DEF up
<1>6. \A i \in Nodes : (old[i] # 0 \/ i \in {}) <=> (up[i] # 0 \/ i \in S)
  <2>1. \A i \in Nodes : old[i] \in TimesToLive
    BY <1>1
  <2>2. progress # "before" => old[id] # 0
    BY <1>1, <1>3
  <2>3. up[id] = seen
    BY <1>3, <1>4
  <2>4. ASSUME NEW i \in Nodes, i # id PROVE old[i] # 0 <=> up[i] # 0
    BY <1>4, <2>1, <2>4, UpdatedFacts
  <2>5. CASE progress = "before"
    BY <1>3, <2>3, <2>4, <2>5
  <2>6. CASE progress # "before"
    BY <2>2, <2>4, <2>6
  <2> QED
    BY <2>5, <2>6
<1>7. /\ MasterOK(u) /\ u.masterNodeTimeToLive = up /\ u.timeToLiveTime = 0
      /\ Matched(u, S)
      /\ Offered(mm, {}) => Offered(u, S)
  <2> DEFINE none == {}
             zero == 0
             v    == [mm EXCEPT !.timeToLiveTime = zero, !.masterNodeTimeToLive = up]
  <2>1. /\ \A i \in Nodes : (old[i] # 0 \/ i \in none) <=> (up[i] # 0 \/ i \in S)
        /\ zero \in 0 .. TimeToLiveUpdateTime - 1 /\ Matched(mm, none)
    BY <1>1, <1>6
  <2> HIDE DEF S, none, zero
  <2>2. /\ MasterOK(v) /\ v.masterNodeTimeToLive = up /\ v.timeToLiveTime = zero
        /\ Matched(mm, none) => Matched(v, S)
        /\ Offered(mm, none) => Offered(v, S)
    BY <1>4, <2>1, SameReserved
  <2> QED
    BY <1>5, <2>1, <2>2 DEF none, zero
<1>8. S \in SUBSET Nodes /\ \A i \in S : up[i] # RemoveNodeTTL
  BY <1>3, <1>4
<1> HIDE DEF u
<1>9. /\ MasterOK(h) /\ masterTxPacket(pre) \in MasterPackets
      /\ h.timeToLiveTime = 0
      /\ Matched(h, S)
      /\ (Offered(u, S) /\ new \cap S = {}) => Offered(h, S)
      /\ new \subseteq Nodes /\ \A i \in new : up[i] = 0
      /\ \A i \in Nodes :
           /\ up[i] \in 1 .. M => hand[i] \in {up[i], M}
           /\ (p.type = "own" /\ p.srcNodeId = i /\ up[i] # 0) => hand[i] = M
  <2> HIDE DEF S
  <2> QED
    BY <1>7, <1>8, ProcessFacts
<1> HIDE DEF h, pre, new
<1>10. hand \in [Nodes -> TimesToLive]
  BY <1>9, MasterFields
<1>11. /\ up[id] = seen
       /\ done \in TimesToLive
       /\ progress = "before" => (hand[id] # 0 <=> done # 0)
       /\ progress # "before" => done # 0
       /\ old[id] \in 2 .. M => seen # 0 /\ done \in 1 .. M /\ old[id] - 1 <= done
       /\ (~Overwrites(old[id], progress) /\ hand[id] = M) => done \in {M - 1, M}
  <2> DEFINE x    == old[id]
             left == hand[id]
  <2>1. up[id] = seen
    BY <1>3, <1>4
  <2>2. x \in TimesToLive /\ Reaches(x, progress) /\ left \in TimesToLive
    BY <1>3, <1>10
  <2>3. Seen(x, progress) \in 1 .. MasterMaxTimeToLive =>
          left \in {Seen(x, progress), MasterMaxTimeToLive}
    BY <1>9, <2>1
  <2> HIDE DEF left, x
  <2>4. /\ Completed(x, progress, left) \in TimesToLive
        /\ progress = "before" => (left # 0 <=> Completed(x, progress, left) # 0)
        /\ progress # "before" => Completed(x, progress, left) # 0
        /\ x \in 2 .. MasterMaxTimeToLive =>
             /\ Seen(x, progress) # 0
             /\ Completed(x, progress, left) \in 1 .. MasterMaxTimeToLive
             /\ x - 1 <= Completed(x, progress, left)
        /\ (~Overwrites(x, progress) /\ left = MasterMaxTimeToLive) =>
             Completed(x, progress, left) \in {MasterMaxTimeToLive - 1, MasterMaxTimeToLive}
    BY <2>2, <2>3, ProgressFacts
  <2> QED
    BY <2>1, <2>4 DEF x, left
<1>12. r = [h EXCEPT !.timeToLiveTime = 0, !.masterNodeTimeToLive = is]
  <2>1. is = [i \in Nodes |-> IF i > id THEN Updated(hand[i])
                              ELSE IF i = id THEN Completed(old[id], progress, hand[i]) ELSE hand[i]]
    OBVIOUS
  <2>2. r = [h EXCEPT !.masterNodeTimeToLive = is]
    BY <2>1 DEF UpdateFrom
  <2> HIDE DEF r, is
  <2> QED
    BY <1>9, <2>2 DEF MasterOK, Masters
<1> HIDE DEF done
<1>13. /\ is \in [Nodes -> TimesToLive] /\ is[id] = done
       /\ \A i \in Nodes : is[i] = (IF i > id THEN Updated(hand[i])
                                    ELSE IF i = id THEN done ELSE hand[i])
  BY <1>3, <1>10, <1>11, UpdatedFacts
<1> HIDE DEF is
<1>14. \A i \in Nodes : (hand[i] # 0 \/ i \in S) <=> (is[i] # 0 \/ i \in {})
  <2>1. \A i \in Nodes : hand[i] \in TimesToLive
    BY <1>10
  <2>2. ASSUME NEW i \in Nodes, i # id PROVE hand[i] # 0 <=> is[i] # 0
    BY <1>13, <2>1, <2>2, UpdatedFacts
  <2>3. CASE progress = "before"
    BY <1>11, <1>13, <2>2, <2>3
  <2>4. CASE progress # "before"
    BY <1>11, <1>13, <2>2, <2>4
  <2> QED
    BY <2>3, <2>4
<1>15. /\ MasterOK(r) /\ r.masterNodeTimeToLive = is /\ r.timeToLiveTime = 0
       /\ Matched(r, {})
       /\ Offered(h, S) => Offered(r, {})
  <2> DEFINE none == {}
             zero == 0
             v    == [h EXCEPT !.timeToLiveTime = zero, !.masterNodeTimeToLive = is]
  <2>1. /\ \A i \in Nodes : (hand[i] # 0 \/ i \in S) <=> (is[i] # 0 \/ i \in none)
        /\ zero \in 0 .. TimeToLiveUpdateTime - 1
    BY <1>1, <1>14
  <2> HIDE DEF S, none, zero
  <2>2. /\ MasterOK(v) /\ v.masterNodeTimeToLive = is /\ v.timeToLiveTime = zero
        /\ Matched(h, S) => Matched(v, none)
        /\ Offered(h, S) => Offered(v, none)
    BY <1>9, <1>13, <2>1, SameReserved
  <2> QED
    BY <1>9, <1>12, <2>2 DEF none, zero
<1> HIDE DEF r
<1>16. ASSUME NEW i \in Nodes PROVE i \in Nat /\ old[i] \in TimesToLive /\ hand[i] \in TimesToLive
  BY <1>1, <1>10, SettingFacts
<1>17. ASSUME NEW i \in Nodes, TimeLeft(mm, i) >= 2
       PROVE  i \notin new /\ is[i] # 0 /\ TimeLeft(mm, i) - 1 <= TimeLeft(r, i)
  <2> DEFINE x == old[i]
             y == hand[i]
             z == is[i]
             t == mm.timeToLiveTime
  <2>1. x \in Nat /\ x \in 1 .. M /\ TimeLeft(mm, i) = Left(x, t)
    BY <1>17, TimeLeftFacts
  <2>2. /\ x = 1 => Left(x, t) = 1
        /\ x # 1 => Left(x - 1, 0) = Left(x, t) - 1
    BY <1>1, <1>2, <2>1, LeftFacts
  <2>3. x # 1 /\ x \in 2 .. M
    BY <1>1, <1>17, <2>1, <2>2
  <2>4. Updated(x) = x - 1 /\ x - 1 \in 1 .. M
    BY <1>1, <1>16, <2>3, UpdatedFacts
  <2>5. i # id => up[i] = (IF i < id THEN x - 1 ELSE x)
    BY <1>3, <1>4, <2>4
  <2>6. up[i] # 0 /\ (i # id => up[i] \in 1 .. M)
    BY <1>1, <1>11, <2>1, <2>3, <2>4, <2>5
  <2>7. (i # id => y \in {up[i], M}) /\ i \notin new
    BY <1>9, <2>6
  <2>8. y \in 2 .. M => Updated(y) = y - 1
    BY <1>16, UpdatedFacts
  <2>9. /\ z = IF i > id THEN Updated(y) ELSE IF i = id THEN done ELSE y
        /\ i = id => done \in 1 .. M /\ x - 1 <= done
    BY <1>11, <1>13, <2>3
  <2>10. TimeLeft(r, i) = IF z \in 1 .. M THEN Left(z, 0) ELSE 0
    BY <1>15, TimeLeftFacts
  <2>11. i \in Nat /\ id \in Nat
    BY SettingFacts
  <2> HIDE DEF x, y, z, M
  <2>12. z \in 1 .. M /\ x - 1 <= z
    <3>1. CASE i > id
      <4>1. y \in 2 .. M /\ x <= y
        BY <1>1, <2>3, <2>5, <2>7, <2>11, <3>1
      <4>2. z = y - 1
        BY <2>8, <2>9, <3>1, <4>1
      <4> QED
        BY <1>1, <2>3, <4>1, <4>2
    <3>2. CASE i = id
      <4>1. z = done
        BY <2>9, <2>11, <3>2
      <4> QED
        BY <2>9, <3>2, <4>1
    <3>3. CASE i < id
      <4>1. z = y
        BY <2>9, <2>11, <3>3
      <4> QED
        BY <1>1, <2>3, <2>5, <2>7, <2>11, <3>3, <4>1
    <3> QED
      BY <2>11, <3>1, <3>2, <3>3
  <2>13. x - 1 \in Nat /\ 1 <= x - 1 /\ z \in Nat /\ z # 0
    BY <1>1, <2>3, <2>12
  <2> DEFINE w == x - 1
             o == 0
  <2>14. o \in 0 .. TimeToLiveUpdateTime - 1
    BY <1>1
  <2> HIDE DEF w, o
  <2>15. Left(w, o) <= Left(z, o)
    BY <2>12, <2>13, <2>14, LeftFacts DEF w
  <2> QED
    BY <2>1, <2>2, <2>3, <2>7, <2>10, <2>12, <2>13, <2>15 DEF w, o, z
<1>18. ASSUME NEW i \in Nodes, p.type = "own", p.srcNodeId = i, old[i] # 0, i \notin lost
       PROVE  i \notin new /\ is[i] # 0 /\ NodeTimeout <= TimeLeft(r, i)
  <2>1. up[i] # 0
    <3>1. CASE i = id
      BY <1>11, <1>18, <3>1 DEF Overwrites
    <3>2. CASE i # id
      BY <1>6, <1>18, <3>2
    <3> QED
      BY <3>1, <3>2
  <2>2. hand[i] = M /\ i \notin new
    BY <1>9, <1>18, <2>1
  <2>3. i # id => is[i] = (IF i > id THEN Updated(M) ELSE M)
    BY <1>13, <2>2
  <2>4. Updated(M) = M - 1
    <3>1. M \in TimesToLive /\ M \in 2 .. M
      BY <1>1, SettingFacts
    <3> QED
      BY <3>1, UpdatedFacts
  <2>5. is[i] \in {M - 1, M} /\ is[i] \in 1 .. M
    <3>1. i = id => is[i] \in {M - 1, M}
      BY <1>11, <1>13, <1>18, <2>2
    <3> QED
      BY <1>1, <2>3, <2>4, <3>1
  <2>6. TimeLeft(r, i) = Left(is[i], 0)
    BY <1>15, <2>5, TimeLeftFacts
  <2> DEFINE w == M - 1
             o == 0
  <2>7. w \in Nat /\ 1 <= w /\ w <= M /\ o \in 0 .. TimeToLiveUpdateTime - 1
    BY <1>1
  <2>8. Left(w, o) >= NodeTimeout /\ Left(M, o) >= NodeTimeout /\ Left(w, o) \in Nat
        /\ Left(M, o) \in Nat
    <3> HIDE DEF o
    <3>1. Left(w, o) \in Nat /\ Left(M, o) \in Nat
      <4> HIDE DEF w
      <4> QED
        BY <1>1, <2>7, LeftFacts
    <3>2. Left(M, o) >= NodeTimeout
      BY <1>1, <2>7, LeftFacts
    <3>3. Left(M - 1, 0) >= NodeTimeout
      BY <1>1, <2>7, LeftFacts
    <3> QED
      BY <3>1, <3>2, <3>3 DEF o
  <2> QED
    BY <1>1, <2>2, <2>5, <2>6, <2>8, SettingFacts
<1> QED
  BY <1>7, <1>9, <1>15, <1>17, <1>18 DEF MasterStep, r, new, pre, h, u

(***************************************************************************)
(* The nodes                                                               *)
(***************************************************************************)
LEMMA NodeInitFacts ==
  nodeInit \in NodeStates /\ nodeInit.nodeId = Unallocated /\ ~nodeInit.sentNewNodeRequest
    /\ nodeInit.nextTxPacket = "blank"
BY SettingFacts DEF nodeInit, NodeStates

(* nodePreProcess after the timer: the node is reset, or sends its packet, *)
(* or goes on with a slot less of its time.                                *)
LEMMA NodePreFacts ==
  ASSUME NEW n \in NodeStates, NodeOK(n), NEW packet \in MasterPackets, NEW draw \in Draws
  PROVE  LET checked == nodeQuickProcessPrevRx(nodeTick(n), packet)
             current == currentTxNodeId(packet)
             r       == nodePreProcess(nodeTick(n), packet, draw)
         IN  /\ checked \in NodeStates /\ r \in NodeStates
             /\ r.nodeId = checked.nodeId /\ r.sentNewNodeRequest = checked.sentNewNodeRequest
             /\ r.nextTxPacket \in {checked.nextTxPacket, "none"}
             /\ checked.nextTxPacket = "own" => checked.nodeId # Unallocated
             /\ \/ checked = nodeInit
                \/ /\ checked.nodeId = n.nodeId /\ checked.nextTxPacket = n.nextTxPacket
                   /\ n.nodeId # Unallocated => checked.timeToLive = n.timeToLive - 1
             /\ IF Transmits(checked, current)
                THEN /\ r.timeToLive = NodeTimeout /\ r.nextTxPacket = "none"
                     /\ checked.nextTxPacket # "none"
                ELSE checked.nodeId # Unallocated => r = checked
<1> DEFINE t == nodeTick(n)
           c == nodeQuickProcessPrevRx(t, packet)
           k == currentTxNodeId(packet)
           r == nodePreProcess(t, packet, draw)
<1>1. /\ n.nodeId \in Nodes \cup {Unallocated} /\ n.timeToLive \in 0 .. NodeTimeout
      /\ NodeTimeout \in Nat
  BY SettingFacts DEF NodeStates
<1>2. /\ t \in NodeStates /\ t.nodeId = n.nodeId /\ t.nextTxPacket = n.nextTxPacket
      /\ t.sentNewNodeRequest = n.sentNewNodeRequest
      /\ n.nodeId # Unallocated => t.timeToLive = n.timeToLive - 1
  <2> DEFINE x == nodeNwUpdateTimeUs(n.timeToLive)
  <2>1. x \in 0 .. NodeTimeout /\ (n.timeToLive > 0 => x = n.timeToLive - 1)
    BY <1>1 DEF nodeNwUpdateTimeUs
  <2>2. t = [n EXCEPT !.timeToLive = x]
    BY DEF nodeTick
  <2> HIDE DEF x, t
  <2>3. /\ t \in NodeStates /\ t.nodeId = n.nodeId /\ t.nextTxPacket = n.nextTxPacket
        /\ t.sentNewNodeRequest = n.sentNewNodeRequest /\ t.timeToLive = x
    BY <2>1, <2>2 DEF NodeStates
  <2> QED
    BY <2>1, <2>3 DEF NodeOK
<1> HIDE DEF t
<1>3. c = t \/ c = nodeInit
  BY DEF nodeQuickProcessPrevRx, nodeRemoveFromNetwork
<1>4. c \in NodeStates /\ (c.nextTxPacket = "own" => c.nodeId # Unallocated)
  BY <1>2, <1>3, NodeInitFacts DEF NodeOK
<1>5. r = nodeGetTxPacket(c, k, draw)
  BY DEF nodePreProcess
<1> HIDE DEF c, k, r
<1>6. c.nextNewNodeResponseCountdown \in Draws /\ NodeTimeout \in 0 .. NodeTimeout
  BY <1>1, <1>4 DEF NodeStates
<1>7. /\ r \in NodeStates /\ r.nodeId = c.nodeId
      /\ r.sentNewNodeRequest = c.sentNewNodeRequest
      /\ r.nextTxPacket \in {c.nextTxPacket, "none"}
      /\ IF Transmits(c, k)
         THEN r.timeToLive = NodeTimeout /\ r.nextTxPacket = "none" /\ c.nextTxPacket # "none"
         ELSE c.nodeId # Unallocated => r = c
  <2>1. CASE k # c.nodeId \/ c.nextTxPacket = "none"
    <3>1. r = c /\ ~Transmits(c, k)
      BY <1>5, <2>1 DEF nodeGetTxPacket, Transmits
    <3> QED
      BY <1>4, <3>1
  <2>2. CASE k = c.nodeId /\ c.nextTxPacket # "none" /\ HoldsBack(c)
    <3> DEFINE down == c.nextNewNodeResponseCountdown - 1
    <3>1. r = [c EXCEPT !.nextNewNodeResponseCountdown = down]
          /\ ~Transmits(c, k) /\ c.nodeId = Unallocated
      BY <1>5, <2>2 DEF nodeGetTxPacket, Transmits, HoldsBack
    <3>2. down \in Draws
      BY <1>6, <2>2, MembershipAssumption DEF HoldsBack, Draws
    <3> HIDE DEF down
    <3> QED
      BY <1>4, <3>1, <3>2 DEF NodeStates
  <2>3. CASE k = c.nodeId /\ c.nextTxPacket # "none" /\ ~HoldsBack(c)
    <3> DEFINE back == IF c.nodeId = Unallocated THEN draw ELSE c.nextNewNodeResponseCountdown
    <3>1. r = [c EXCEPT !.nextNewNodeResponseCountdown = back,
                        !.nextTxPacket = "none",
                        !.timeToLive   = NodeTimeout]
          /\ Transmits(c, k)
      BY <1>5, <2>3 DEF nodeGetTxPacket, Transmits
    <3>2. back \in Draws
      BY <1>6
    <3> HIDE DEF back
    <3> QED
      BY <1>4, <1>6, <2>3, <3>1, <3>2 DEF NodeStates
  <2> QED
    BY <2>1, <2>2, <2>3
<1> QED
  BY <1>2, <1>3, <1>4, <1>7 DEF t, c, k, r

(* nodePostProcess.  A node that has sent its packet keeps its ID. *)
LEMMA NodePostFacts ==
  ASSUME NEW n \in NodeStates, NEW packet \in MasterPackets, NEW d \in Devices, NEW draw \in Draws,
         n.nextTxPacket = "own" => n.nodeId # Unallocated
  PROVE  LET r == nodePostProcess(n, packet, d, draw)
         IN  /\ r \in NodeStates /\ NodeOK(r)
             /\ (n.nodeId # Unallocated /\ n.timeToLive # 0) =>
                  /\ r.nodeId = n.nodeId /\ r.timeToLive = n.timeToLive
                  /\ n.nextTxPacket # "request" => r.nextTxPacket = "own"
             /\ (n.nodeId # Unallocated /\ n.timeToLive = 0) => r.nodeId = Unallocated
             /\ (n.nodeId = Unallocated /\ ~n.sentNewNodeRequest) => r.nodeId = Unallocated
<1> DEFINE c == nodeCheckIfTimedOut(n)
           x == nodeProcessRx(c, packet, d)
           r == nodeProcessTx(x, draw)
           id == rxNewNodePacketResponse(packet.entries, d)
<1>1. nodePostProcess(n, packet, d, draw) = r
  BY DEF nodePostProcess
<1>2. n.timeToLive \in Nat /\ NodeTimeout \in Nat /\ NodeTimeout > 0 /\ n.timeToLive \in 0 .. NodeTimeout
  BY SettingFacts DEF NodeStates
<1>3. c = IF n.timeToLive = 0 /\ n.nodeId # Unallocated THEN nodeInit ELSE n
  BY DEF nodeCheckIfTimedOut, nodeNwHasNodeTimedOut, nodeRemoveFromNetwork
<1> HIDE DEF c
<1>4. /\ c \in NodeStates /\ NodeOK(c)
  BY <1>2, <1>3, NodeInitFacts DEF NodeOK
<1>5. id \in Nodes \cup {Unallocated}
  <2> DEFINE e    == packet.entries
             mine == {k \in 1 .. Len(e) : e[k].uniqueId = d}
  <2>1. e \in Seq(Requests)
    BY DEF MasterPackets
  <2>2. id = IF mine = {} THEN Unallocated ELSE e[Min(mine)].nodeId
    BY DEF rxNewNodePacketResponse
  <2>3. CASE mine # {}
    <3>1. mine \subseteq Nat
      BY <2>1
    <3>2. Min(mine) \in mine
      <4> HIDE DEF mine
      <4> QED
        BY <2>3, <3>1, MinIsLeast
    <3>3. Min(mine) \in 1 .. Len(e)
      BY <3>2
    <3> DEFINE k == Min(mine)
    <3> HIDE DEF k, e
    <3>4. e[k] \in Requests
      BY <2>1, <3>3 DEF k
    <3> QED
      BY <2>2, <2>3, <3>4 DEF Requests, k
  <2> QED
    BY <2>2, <2>3
<1> HIDE DEF id
<1>6. /\ x \in NodeStates /\ NodeOK(x) /\ x.nextTxPacket = c.nextTxPacket
      /\ c.nodeId # Unallocated \/ ~c.sentNewNodeRequest => x = c
  <2>1. CASE c.nodeId # Unallocated \/ ~c.sentNewNodeRequest \/ id = Unallocated
    <3>1. x = c
      BY <2>1 DEF nodeProcessRx, id
    <3> QED
      BY <1>4, <3>1
  <2>2. CASE ~(c.nodeId # Unallocated \/ ~c.sentNewNodeRequest \/ id = Unallocated)
    <3>1. x = [c EXCEPT !.nodeId = id, !.timeToLive = NodeTimeout]
      BY <2>2 DEF nodeProcessRx, id
    <3> HIDE DEF x
    <3>2. NodeTimeout \in 0 .. NodeTimeout
      BY <1>2
    <3>3. /\ x \in NodeStates /\ x.nodeId = id /\ x.timeToLive = NodeTimeout
          /\ x.nextTxPacket = c.nextTxPacket
      BY <1>4, <1>5, <3>1, <3>2 DEF NodeStates
    <3> QED
      BY <1>2, <1>4, <2>2, <3>3 DEF NodeOK
  <2> QED
    BY <2>1, <2>2
<1> HIDE DEF x
<1>7. /\ r \in NodeStates /\ r.nodeId = x.nodeId /\ r.timeToLive = x.timeToLive
      /\ r.nextTxPacket = "own" => x.nodeId # Unallocated
      /\ (x.nodeId # Unallocated /\ x.nextTxPacket # "request") => r.nextTxPacket = "own"
  <2>1. x.nextNewNodeResponseCountdown \in Draws
    BY <1>6 DEF NodeStates
  <2>2. CASE x.nextTxPacket = "request"
    <3>1. r = x
      BY <2>2 DEF nodeProcessTx
    <3> QED
      BY <1>6, <2>2, <3>1
  <2>3. CASE x.nextTxPacket # "request" /\ x.nodeId # Unallocated
    <3>1. r = [x EXCEPT !.nextTxPacket = "own"]
      BY <2>3 DEF nodeProcessTx
    <3> HIDE DEF r
    <3> QED
      BY <1>6, <2>3, <3>1 DEF NodeStates
  <2>4. CASE /\ x.nextTxPacket # "request" /\ x.nodeId = Unallocated
             /\ x.nextNewNodeResponseCountdown = 0
    <3>1. r = [x EXCEPT !.sentNewNodeRequest = TRUE,
                        !.nextTxPacket = "request",
                        !.nextNewNodeResponseCountdown = draw]
      BY <2>4 DEF nodeProcessTx
    <3> HIDE DEF r
    <3> QED
      BY <1>6, <2>4, <3>1 DEF NodeStates
  <2>5. CASE /\ x.nextTxPacket # "request" /\ x.nodeId = Unallocated
             /\ x.nextNewNodeResponseCountdown # 0
    <3> DEFINE down == x.nextNewNodeResponseCountdown - 1
    <3>1. r = [x EXCEPT !.nextTxPacket = "none", !.nextNewNodeResponseCountdown = down]
      BY <2>5 DEF nodeProcessTx
    <3>2. down \in Draws
      BY <2>1, <2>5, MembershipAssumption DEF Draws
    <3> HIDE DEF r, down
    <3> QED
      BY <1>6, <2>5, <3>1, <3>2 DEF NodeStates
  <2> QED
    BY <2>2, <2>3, <2>4, <2>5
<1> HIDE DEF r
<1>8. NodeOK(r)
  BY <1>6, <1>7 DEF NodeOK
<1>9. nodeInit.nodeId = Unallocated /\ ~nodeInit.sentNewNodeRequest
  BY NodeInitFacts
<1> QED
  BY <1>1, <1>3, <1>6, <1>7, <1>8, <1>9

(* A node's slot. *)
LEMMA NodeSlotFacts ==
  ASSUME NEW n \in NodeStates, NodeOK(n), NEW packet \in MasterPackets, NEW d \in Devices,
         NEW d1 \in Draws, NEW d2 \in Draws
  PROVE  LET ticked  == nodeTick(n)
             checked == nodeQuickProcessPrevRx(ticked, packet)
             current == currentTxNodeId(packet)
             r       == nodePostProcess(nodePreProcess(ticked, packet, d1), packet, d, d2)
             sent    == IF Transmits(checked, current) THEN {nodePacket(checked, d)} ELSE {}
         IN  /\ r \in NodeStates /\ NodeOK(r) /\ sent \subseteq NodePackets
             /\ \A p \in sent :
                  /\ p.from = d
                  /\ p.type = "own" => /\ p.srcNodeId \in Nodes /\ p.srcNodeId = r.nodeId
                                       /\ r.nextTxPacket = "own"
             /\ (n.nextTxPacket = "own" /\ n.nodeId # Unallocated /\ r.nodeId = n.nodeId) =>
                  /\ r.nextTxPacket = "own"
                  /\ \/ \E p \in sent : p.from = d /\ p.type = "own"
                     \/ r.timeToLive = n.timeToLive - 1
<1> DEFINE t    == nodeTick(n)
           c    == nodeQuickProcessPrevRx(t, packet)
           k    == currentTxNodeId(packet)
           g    == nodePreProcess(t, packet, d1)
           r    == nodePostProcess(g, packet, d, d2)
           sent == IF Transmits(c, k) THEN {nodePacket(c, d)} ELSE {}
<1>1. /\ c \in NodeStates /\ g \in NodeStates
      /\ g.nodeId = c.nodeId /\ g.sentNewNodeRequest = c.sentNewNodeRequest
      /\ g.nextTxPacket \in {c.nextTxPacket, "none"}
      /\ c.nextTxPacket = "own" => c.nodeId # Unallocated
      /\ \/ c = nodeInit
         \/ /\ c.nodeId = n.nodeId /\ c.nextTxPacket = n.nextTxPacket
            /\ n.nodeId # Unallocated => c.timeToLive = n.timeToLive - 1
      /\ IF Transmits(c, k)
         THEN /\ g.timeToLive = NodeTimeout /\ g.nextTxPacket = "none"
              /\ c.nextTxPacket # "none"
         ELSE c.nodeId # Unallocated => g = c
  BY NodePreFacts
<1> HIDE DEF t, c, k, g
<1>2. g.nextTxPacket = "own" => g.nodeId # Unallocated
  BY <1>1
<1>3. /\ r \in NodeStates /\ NodeOK(r)
      /\ (g.nodeId # Unallocated /\ g.timeToLive # 0) =>
           /\ r.nodeId = g.nodeId /\ r.timeToLive = g.timeToLive
           /\ g.nextTxPacket # "request" => r.nextTxPacket = "own"
      /\ (g.nodeId # Unallocated /\ g.timeToLive = 0) => r.nodeId = Unallocated
      /\ (g.nodeId = Unallocated /\ ~g.sentNewNodeRequest) => r.nodeId = Unallocated
  BY <1>1, <1>2, NodePostFacts
<1> HIDE DEF r
<1>4. NodeTimeout # 0 /\ c.nodeId \in Nodes \cup {Unallocated}
      /\ c.nextTxPacket \in {"none", "blank", "request", "own"}
  BY <1>1, SettingFacts DEF NodeStates
<1>5. ASSUME Transmits(c, k)
      PROVE  /\ nodePacket(c, d) \in NodePackets /\ nodePacket(c, d).from = d
             /\ nodePacket(c, d).type = c.nextTxPacket
             /\ c.nextTxPacket = "own" => nodePacket(c, d).srcNodeId = c.nodeId
  <2>1. CASE c.nextTxPacket = "blank"
    <3>1. nodePacket(c, d) = Blank(d)
      BY <2>1 DEF nodePacket
    <3> QED
      BY <2>1, <3>1 DEF Blank, NodePackets
  <2>2. CASE c.nextTxPacket = "request"
    <3>1. nodePacket(c, d) = Request(d)
      BY <2>2 DEF nodePacket
    <3> QED
      BY <2>2, <3>1 DEF Request, NodePackets
  <2>3. CASE c.nextTxPacket = "own"
    <3>1. nodePacket(c, d) = Own(d, c.nodeId)
      BY <2>3 DEF nodePacket
    <3> QED
      BY <1>4, <2>3, <3>1 DEF Own, NodePackets
  <2> QED
    BY <1>1, <1>4, <1>5, <2>1, <2>2, <2>3
<1>6. sent \subseteq NodePackets
  BY <1>5
<1>7. ASSUME NEW p \in sent
      PROVE  /\ p.from = d
             /\ p.type = "own" => p.srcNodeId \in Nodes /\ p.srcNodeId = r.nodeId
                                   /\ r.nextTxPacket = "own"
  <2>1. Transmits(c, k) /\ p = nodePacket(c, d)
    OBVIOUS
  <2> QED
    BY <1>1, <1>3, <1>4, <1>5, <2>1
<1>8. ASSUME n.nextTxPacket = "own", n.nodeId # Unallocated, r.nodeId = n.nodeId
      PROVE  /\ r.nextTxPacket = "own"
             /\ \/ \E p \in sent : p.from = d /\ p.type = "own"
                \/ r.timeToLive = n.timeToLive - 1
  <2>1. c # nodeInit
    <3>1. ASSUME c = nodeInit PROVE r.nodeId = Unallocated
      BY <1>1, <1>3, <3>1, NodeInitFacts
    <3> QED
      BY <1>8, <3>1
  <2>2. c.nodeId = n.nodeId /\ c.nextTxPacket = "own" /\ c.timeToLive = n.timeToLive - 1
    BY <1>1, <1>8, <2>1
  <2>3. CASE Transmits(c, k)
    BY <1>1, <1>3, <1>4, <1>5, <1>8, <2>2, <2>3
  <2>4. CASE ~Transmits(c, k)
    <3>1. g = c
      BY <1>1, <1>8, <2>2, <2>4
    <3>2. g.timeToLive # 0
      BY <1>3, <1>8, <2>2, <3>1
    <3> QED
      BY <1>3, <1>8, <2>2, <3>1, <3>2
  <2> QED
    BY <2>3, <2>4
<1> QED
  BY <1>3, <1>6, <1>7, <1>8 DEF t, c, k, g, r

(***************************************************************************)
(* The steps                                                               *)
(***************************************************************************)
(* What the master receives is a node's packet or nothing. *)
LEMMA ReceivedFacts ==
  ASSUME Inductive
  PROVE  /\ OnBus \in nodeWire \cup {NoPacket} /\ RxOK(OnBus) /\ RxOK(NoPacket)
         /\ \A p \in nodeWire : p.type = "own" =>
              /\ p.from \in Devices /\ p.srcNodeId \in Nodes
              /\ p.srcNodeId = node[p.from].nodeId
<1>1. nodeWire \subseteq NodePackets /\ node \in [Devices -> NodeStates] /\ PacketsCurrent
      /\ \A d \in Devices : NodeOK(node[d])
  BY DEF Inductive, TypeOK
<1>2. ASSUME NEW p \in nodeWire, p.type = "own"
      PROVE  /\ p.from \in Devices /\ p.srcNodeId \in Nodes
             /\ p.srcNodeId = node[p.from].nodeId
  <2>1. p.from \in Devices
    BY <1>1 DEF NodePackets
  <2>2. p.srcNodeId = node[p.from].nodeId /\ node[p.from].nextTxPacket = "own"
    BY <1>1, <1>2 DEF PacketsCurrent
  <2>3. node[p.from] \in NodeStates /\ NodeOK(node[p.from])
    BY <1>1, <2>1
  <2>4. node[p.from].nodeId \in Nodes
    BY <2>2, <2>3 DEF NodeOK, NodeStates
  <2> QED
    BY <2>1, <2>2, <2>4
<1>3. OnBus \in nodeWire \cup {NoPacket}
  <2>1. CASE Cardinality(nodeWire) = 1
    <3>1. nodeWire # {}
      BY <2>1, FS_EmptySet
    <3> QED
      BY <2>1, <3>1 DEF OnBus
  <2>2. CASE Cardinality(nodeWire) # 1
    BY <2>2 DEF OnBus
  <2> QED
    BY <2>1, <2>2
<1>4. RxOK(NoPacket)
  BY DEF RxOK, NoPacket
<1>5. ASSUME NEW p \in nodeWire PROVE RxOK(p)
  BY <1>1, <1>2 DEF RxOK, NodePackets
<1> QED
  BY <1>2, <1>3, <1>4, <1>5

(* The nodes' part of a slot. *)
LEMMA NodesStep ==
  ASSUME Inductive, NEW deaf, NodeSlots(deaf)
  PROVE  /\ node' \in [Devices -> NodeStates] /\ nodeWire' \subseteq NodePackets
         /\ \A d \in Devices : NodeOK(node'[d])
         /\ PacketsCurrent'
         /\ \A d \in Devices :
              (/\ node[d].nextTxPacket = "own" /\ node[d].nodeId # Unallocated
               /\ node'[d].nodeId = node[d].nodeId) =>
                /\ node'[d].nextTxPacket = "own"
                /\ SendsOwn(d)' \/ node'[d].timeToLive = node[d].timeToLive - 1
<1> DEFINE packet(d)   == IF d \in deaf THEN Empty(Master) ELSE masterWire
           outcomes(d) == NodeOutcomes(d, packet(d))
<1>1. /\ node \in [Devices -> NodeStates] /\ masterWire \in MasterPackets
      /\ \A d \in Devices : NodeOK(node[d])
  BY DEF Inductive, TypeOK
<1>2. Empty(Master) \in MasterPackets
  BY DEF Empty, MasterPackets
<1>3. PICK out \in [Devices -> UNION {outcomes(d) : d \in Devices}] :
        /\ \A d \in Devices : out[d] \in outcomes(d)
        /\ node' = [d \in Devices |-> out[d].node]
        /\ nodeWire' = UNION {out[d].sent : d \in Devices}
  BY DEF NodeSlots
<1>4. ASSUME NEW d \in Devices
      PROVE  /\ out[d].node \in NodeStates /\ NodeOK(out[d].node) /\ out[d].sent \subseteq NodePackets
             /\ \A p \in out[d].sent :
                  /\ p.from = d
                  /\ p.type = "own" => /\ p.srcNodeId = out[d].node.nodeId
                                       /\ out[d].node.nextTxPacket = "own"
             /\ (/\ node[d].nextTxPacket = "own" /\ node[d].nodeId # Unallocated
                 /\ out[d].node.nodeId = node[d].nodeId) =>
                  /\ out[d].node.nextTxPacket = "own"
                  /\ \/ \E p \in out[d].sent : p.from = d /\ p.type = "own"
                     \/ out[d].node.timeToLive = node[d].timeToLive - 1
  <2> DEFINE n       == node[d]
             k       == packet(d)
             ticked  == nodeTick(n)
             checked == nodeQuickProcessPrevRx(ticked, k)
             current == currentTxNodeId(k)
  <2>1. n \in NodeStates /\ NodeOK(n) /\ k \in MasterPackets
    BY <1>1, <1>2
  <2>2. PICK draws \in Draws \X Draws :
          out[d] = [node |-> nodePostProcess(nodePreProcess(ticked, k, draws[1]), k, d, draws[2]),
                    sent |-> IF Transmits(checked, current) THEN {nodePacket(checked, d)} ELSE {}]
    <3>1. out[d] \in NodeOutcomes(d, k)
      BY <1>3
    <3> HIDE DEF k
    <3> QED
      BY <3>1 DEF NodeOutcomes
  <2> DEFINE d1   == draws[1]
             d2   == draws[2]
             r    == nodePostProcess(nodePreProcess(ticked, k, d1), k, d, d2)
             sent == IF Transmits(checked, current) THEN {nodePacket(checked, d)} ELSE {}
  <2>3. d1 \in Draws /\ d2 \in Draws
    OBVIOUS
  <2> HIDE DEF d1, d2, n, k
  <2>4. /\ r \in NodeStates /\ NodeOK(r) /\ sent \subseteq NodePackets
        /\ \A p \in sent :
             /\ p.from = d
             /\ p.type = "own" => /\ p.srcNodeId \in Nodes /\ p.srcNodeId = r.nodeId
                                  /\ r.nextTxPacket = "own"
        /\ (n.nextTxPacket = "own" /\ n.nodeId # Unallocated /\ r.nodeId = n.nodeId) =>
             /\ r.nextTxPacket = "own"
             /\ \/ \E p \in sent : p.from = d /\ p.type = "own"
                \/ r.timeToLive = n.timeToLive - 1
    BY <2>1, <2>3, NodeSlotFacts
  <2>5. out[d] = [node |-> r, sent |-> sent]
    BY <2>2 DEF d1, d2, k
  <2> HIDE DEF r, sent
  <2>6. out[d].node = r /\ out[d].sent = sent
    BY <2>5
  <2> QED
    BY <2>4, <2>6 DEF n
<1> HIDE DEF outcomes
<1>5. \A d \in Devices : node'[d] = out[d].node
  BY <1>3
<1>6. node' \in [Devices -> NodeStates] /\ \A d \in Devices : NodeOK(node'[d])
  BY <1>3, <1>4
<1>7. nodeWire' \subseteq NodePackets
  BY <1>3, <1>4
<1>8. PacketsCurrent'
  <2> SUFFICES ASSUME NEW p \in nodeWire', p.type = "own"
               PROVE  p.srcNodeId = node'[p.from].nodeId /\ node'[p.from].nextTxPacket = "own"
    BY DEF PacketsCurrent
  <2>1. PICK d \in Devices : p \in out[d].sent
    BY <1>3
  <2> QED
    BY <1>4, <1>5, <2>1
<1>9. ASSUME NEW d \in Devices, \E p \in out[d].sent : p.from = d /\ p.type = "own"
      PROVE  SendsOwn(d)'
  BY <1>3, <1>9 DEF SendsOwn
<1> QED
  BY <1>4, <1>5, <1>6, <1>7, <1>8, <1>9

(* A node that is heard after a slot has less time than the master, and    *)
(* its ID.                                                                 *)
LEMMA HeardStep ==
  ASSUME Inductive, NEW deaf, NodeSlots(deaf),
         NEW received \in nodeWire \cup {NoPacket}, NEW new, NEW overwritten,
         MasterStep(m, received, new, m', overwritten),
         owner' = [id \in Nodes |-> IF id \in new THEN received.from ELSE owner[id]],
         heard' = HeardAfter(received, overwritten)
  PROVE  HeardInTime' /\ NodeTimesOutFirst' /\ heard' \subseteq Devices
<1>1. /\ node \in [Devices -> NodeStates] /\ heard \subseteq Devices /\ MasterOK(m)
      /\ \A d \in Devices : NodeOK(node[d])
      /\ PacketsCurrent /\ HeardInTime /\ NodeTimesOutFirst
  BY DEF Inductive, TypeOK, MasterOK
<1>2. heard' \subseteq Devices
  BY DEF HeardAfter
<1> SUFFICES ASSUME NEW d \in heard'
             PROVE  /\ node'[d].nodeId # Unallocated /\ node'[d].nextTxPacket = "own"
                    /\ ~SendsOwn(d)' => node'[d].timeToLive < TimeLeft(m', node'[d].nodeId)
                    /\ m'.masterNodeTimeToLive[node'[d].nodeId] # 0
                    /\ owner'[node'[d].nodeId] = d
  BY <1>2 DEF HeardInTime, NodeTimesOutFirst
<1> DEFINE i == node[d].nodeId
           n == node[d]
<1>3. d \in Devices /\ node'[d].nodeId # Unallocated /\ node'[d].nodeId = i
  BY DEF HeardAfter
<1>4. /\ i \in Nodes /\ n.timeToLive \in 0 .. NodeTimeout /\ n.timeToLive > 0
      /\ NodeTimeout \in Nat
  <2>1. n \in NodeStates /\ NodeOK(n)
    BY <1>1, <1>3
  <2> QED
    BY <1>3, <2>1, SettingFacts DEF NodeStates, NodeOK
<1>5. (n.nextTxPacket = "own" /\ i # Unallocated /\ node'[d].nodeId = i) =>
        /\ node'[d].nextTxPacket = "own"
        /\ SendsOwn(d)' \/ node'[d].timeToLive = n.timeToLive - 1
  BY <1>3, NodesStep
<1>6. TimeLeft(m, i) \in Nat /\ TimeLeft(m', i) \in Nat
  BY <1>1, <1>4, TimeLeftFacts DEF MasterStep
<1>7. /\ TimeLeft(m, i) >= 2 =>
           /\ i \notin new /\ m'.masterNodeTimeToLive[i] # 0
           /\ TimeLeft(m, i) - 1 <= TimeLeft(m', i)
      /\ (/\ received.type = "own" /\ received.srcNodeId = i
          /\ m.masterNodeTimeToLive[i] # 0 /\ i \notin overwritten) =>
           i \notin new /\ m'.masterNodeTimeToLive[i] # 0 /\ NodeTimeout <= TimeLeft(m', i)
  BY <1>4 DEF MasterStep
<1>8. i \notin new => owner'[i] = owner[i]
  BY <1>4
<1>9. CASE SendsOwn(d)
  <2>1. /\ received.type = "own" /\ received.from = d
        /\ owner[received.srcNodeId] = d
        /\ m.masterNodeTimeToLive[received.srcNodeId] > 0
        /\ received.srcNodeId \notin overwritten
    BY <1>9 DEF HeardAfter, SendsOwn
  <2>2. received \in nodeWire
    BY <2>1 DEF NoPacket
  <2>3. received.srcNodeId = i /\ n.nextTxPacket = "own"
    BY <1>1, <2>1, <2>2 DEF PacketsCurrent
  <2>4. m.masterNodeTimeToLive[i] # 0
    <3>1. m.masterNodeTimeToLive[i] > 0 /\ m.masterNodeTimeToLive[i] \in Nat
      BY <1>1, <1>4, <2>1, <2>3, TimeLeftFacts
    <3> QED
      BY <3>1
  <2>5. i \notin new /\ m'.masterNodeTimeToLive[i] # 0 /\ NodeTimeout <= TimeLeft(m', i)
        /\ owner[i] = d
    BY <1>7, <2>1, <2>3, <2>4
  <2>6. ~SendsOwn(d)' => node'[d].timeToLive < TimeLeft(m', i)
    <3>1. ~SendsOwn(d)' => node'[d].timeToLive = n.timeToLive - 1
      BY <1>3, <1>5, <2>3
    <3> HIDE DEF i, n
    <3> QED
      BY <1>4, <1>6, <2>5, <3>1
  <2> QED
    BY <1>3, <1>5, <1>8, <2>3, <2>5, <2>6
<1>10. CASE ~SendsOwn(d)
  <2>1. d \in heard
    BY <1>10 DEF HeardAfter, SendsOwn
  <2>2. /\ n.nextTxPacket = "own" /\ n.timeToLive < TimeLeft(m, i) /\ owner[i] = d
    BY <1>1, <1>10, <2>1 DEF HeardInTime, NodeTimesOutFirst
  <2>3. TimeLeft(m, i) >= 2
    <3> HIDE DEF i, n
    <3> QED
      BY <1>4, <1>6, <2>2
  <2>4. i \notin new /\ m'.masterNodeTimeToLive[i] # 0 /\ TimeLeft(m, i) - 1 <= TimeLeft(m', i)
    BY <1>7, <2>3
  <2>5. ~SendsOwn(d)' => node'[d].timeToLive < TimeLeft(m', i)
    <3>1. ~SendsOwn(d)' => node'[d].timeToLive = n.timeToLive - 1
      BY <1>3, <1>5, <2>2
    <3> HIDE DEF i, n
    <3> QED
      BY <1>4, <1>6, <2>2, <2>4, <3>1
  <2> QED
    BY <1>3, <1>5, <1>8, <2>2, <2>4, <2>5
<1> QED
  BY <1>9, <1>10

(* A slot, once the master's part of it is known. *)
LEMMA SlotInductive ==
  ASSUME Inductive, NEW deaf, NodeSlots(deaf),
         NEW received \in nodeWire \cup {NoPacket}, NEW new, NEW overwritten,
         MasterStep(m, received, new, m', overwritten),
         \A i \in new : received.from \in Devices,
         ~raced' => ~raced /\ (Offered(m, {}) => Offered(m', {})),
         masterWire' \in MasterPackets, raced' \in BOOLEAN, faults' \in 0 .. MaxFaults,
         owner' = [id \in Nodes |-> IF id \in new THEN received.from ELSE owner[id]],
         heard' = HeardAfter(received, overwritten)
  PROVE  Inductive'
<1>1. HeardInTime' /\ NodeTimesOutFirst' /\ heard' \subseteq Devices
  BY HeardStep
<1>2. /\ node' \in [Devices -> NodeStates] /\ nodeWire' \subseteq NodePackets
      /\ \A d \in Devices : NodeOK(node'[d])
      /\ PacketsCurrent'
  BY NodesStep
<1>3. MasterOK(m') /\ Matched(m', {})
  BY DEF MasterStep
<1>4. owner' \in [Nodes -> Devices \cup {NoDevice}]
  BY DEF Inductive, TypeOK
<1>5. TypeOK' /\ QueuesOK(m.s)'
  BY <1>1, <1>2, <1>3, <1>4 DEF TypeOK, MasterOK
<1>6. ScheduledIffReserved'
  BY <1>3 DEF Matched, ScheduledIffReserved
<1>7. OffersReserved'
  <2>1. OffersReserved
    BY DEF Inductive
  <2>2. ~raced => Offered(m, {})
    BY <2>1 DEF OffersReserved, Offered
  <2>3. ~raced' => Offered(m', {})
    BY <2>2
  <2> QED
    BY <2>3 DEF OffersReserved, Offered
<1> QED
  BY <1>1, <1>2, <1>5, <1>6, <1>7 DEF Inductive

(* masterInit *)
LEMMA MasterInitFacts ==
  /\ MasterOK(masterInit) /\ Matched(masterInit, {}) /\ Offered(masterInit, {})
  /\ Empty(Master) \in MasterPackets
<1> DEFINE t == schedulerInit(1)
<1>1. EmptyQueue \in Queues /\ QueueOK(EmptyQueue) /\ EmptyQueue.nodeIds = << >>
  BY DEF EmptyQueue, Queues, QueueOK, PositionOK, Distinct, numNodes
<1>2. t \in Schedulers({1}, {0}) /\ ~t.fault /\ QueuesOK(t) /\ t.activeNodes = EmptyQueue
  <2>1. /\ MinSlotsBetweenUnallocated \in MinSlotsBetweenUnallocated .. MaxSlotsBetweenUnallocated
        /\ MinSlotsBetweenUnallocated \in 0 .. ByteSize - 1
        /\ 0 \in 0 .. ByteSize - 1 /\ 0 \in 0 .. MaxSlotsBetweenServicing
    BY ConstantFacts
  <2>2. [i \in 1 .. MaxMasterSlotsBetweenAcks |-> Master]
          \in [1 .. MaxMasterSlotsBetweenAcks -> Nodes \cup {Master, Invalid}]
    OBVIOUS
  <2>3. [n \in Nodes |-> 0] \in [Nodes -> {0}]
    OBVIOUS
  <2> QED
    BY <1>1, <2>1, <2>2, <2>3 DEF schedulerInit, Schedulers, QueuesOK, Turns
<1>3. Empty(Master) \in MasterPackets
  BY DEF Empty, MasterPackets
<1> DEFINE none == [id \in Nodes |-> 0]
           next == <<Master>>
           table == << >>
<1>4. none \in [Nodes -> TimesToLive] /\ \A i \in Nodes : none[i] = 0
  BY SettingFacts
<1>5. next \in [1 .. 1 -> Nodes \cup {Master, Unallocated}]
  OBVIOUS
<1>6. table \in Seq(Requests) /\ Len(table) = 0
  OBVIOUS
<1>7. 0 \in 0 .. TimeToLiveUpdateTime - 1 /\ 0 \in 0 .. 3
      /\ MasterResetCycles \in 0 .. MasterResetCycles /\ 0 <= MaxNodesAllocatedAtOnce
  BY SettingFacts
<1>8. masterInit = [s                    |-> t,
                    nextTxNodeId         |-> next,
                    masterNodeTimeToLive |-> none,
                    timeToLiveTime       |-> 0,
                    newNodes             |-> table,
                    masterResetCycles    |-> MasterResetCycles,
                    tmpPacketCycle       |-> 0,
                    nextTxPacket         |-> Empty(Master)]
  BY DEF masterInit
<1> HIDE DEF t, none, next, table
<1>9. MasterOK(masterInit)
  BY <1>2, <1>3, <1>4, <1>5, <1>6, <1>7, <1>8 DEF MasterOK, Masters
<1>10. masterInit.s = t /\ masterInit.masterNodeTimeToLive = none /\ masterInit.newNodes = table
  BY <1>8
<1>11. \A x : ~Contains(t.activeNodes.nodeIds, x)
  BY <1>1, <1>2 DEF Contains
<1>12. Matched(masterInit, {})
  BY <1>4, <1>10, <1>11 DEF Matched
<1>13. Offered(masterInit, {})
  BY <1>6, <1>10 DEF Offered
<1> QED
  BY <1>3, <1>9, <1>12, <1>13

(* The master starts, whatever the nodes are doing. *)
Fresh ==
  /\ m = masterInit /\ masterWire = Empty(Master) /\ nodeWire = {} /\ heard = {}
  /\ owner = [id \in Nodes |-> NoDevice] /\ raced \in BOOLEAN /\ faults \in 0 .. MaxFaults
  /\ node \in [Devices -> NodeStates] /\ \A d \in Devices : NodeOK(node[d])

LEMMA FreshInductive == Fresh => Inductive
<1> SUFFICES ASSUME Fresh PROVE Inductive
  OBVIOUS
<1>1. MasterOK(m) /\ Matched(m, {}) /\ Offered(m, {}) /\ masterWire \in MasterPackets
  BY MasterInitFacts DEF Fresh
<1>2. owner \in [Nodes -> Devices \cup {NoDevice}]
  BY DEF Fresh
<1>3. TypeOK /\ QueuesOK(m.s)
  BY <1>1, <1>2 DEF Fresh, TypeOK, MasterOK
<1>4. ScheduledIffReserved /\ OffersReserved
  BY <1>1 DEF Matched, ScheduledIffReserved, Offered, OffersReserved
<1>5. PacketsCurrent /\ HeardInTime /\ NodeTimesOutFirst
  BY DEF Fresh, PacketsCurrent, HeardInTime, NodeTimesOutFirst
<1> QED
  BY <1>3, <1>4, <1>5 DEF Fresh, Inductive

LEMMA InitInductive == Init => Inductive
<1> SUFFICES ASSUME Init PROVE Fresh
  BY FreshInductive
<1>1. faults \in 0 .. MaxFaults
  BY SettingFacts DEF Init
<1>2. nodeInit \in NodeStates /\ NodeOK(nodeInit)
  BY NodeInitFacts DEF NodeOK
<1> QED
  BY <1>1, <1>2 DEF Init, Fresh

LEMMA SlotKeeps ==
  ASSUME Inductive, Slot
  PROVE  Inductive'
<1>1. PICK toMaster \in {FALSE} \cup {OnBus # NoPacket}, deaf \in SUBSET Devices :
        /\ faults' = faults + Lost(toMaster, deaf)
        /\ faults' <= MaxFaults
        /\ MasterSlot(Received(toMaster))
        /\ NodeSlots(deaf)
        /\ heard' = HeardAfter(Received(toMaster), {})
  BY DEF Slot
<1> DEFINE p      == Received(toMaster)
           ticked == networkManagerUpdateTimeUs(m)
           pre    == masterPreProcess(ticked, p)
           new    == NewId(pre, p)
           r      == masterProcess(ticked, p)
<1>2. p \in nodeWire \cup {NoPacket} /\ RxOK(p)
  BY ReceivedFacts DEF Received
<1>3. MasterOK(m) /\ Matched(m, {}) /\ faults \in Nat
  BY SettingFacts DEF Inductive, TypeOK, MasterOK, Matched, ScheduledIffReserved
<1>4. /\ m' = r /\ masterWire' = masterTxPacket(pre)
      /\ owner' = [id \in Nodes |-> IF id \in new THEN p.from ELSE owner[id]]
      /\ raced' = (raced \/ new \cap {} # {})
  BY <1>1 DEF MasterSlot, MasterHandlers, NewId
<1> HIDE DEF p
<1>5. /\ MasterStep(m, p, new, r, {})
      /\ masterTxPacket(pre) \in MasterPackets
      /\ Offered(m, {}) => Offered(r, {})
  BY <1>2, <1>3, SlotStep
<1>6. \A i \in new : p.from \in Devices
  BY <1>2 DEF NewId, Registers, RxOK
<1>7. faults' \in 0 .. MaxFaults
  <2>1. Lost(toMaster, deaf) \in Nat
    <3>1. IsFiniteSet(deaf)
      BY MembershipAssumption, FS_Subset
    <3>2. Cardinality(deaf) \in Nat
      BY <3>1, FS_CardinalityType
    <3> QED
      BY <3>2 DEF Lost
  <2> QED
    BY <1>1, <1>3, <2>1, SettingFacts
<1> HIDE DEF new, r, pre, ticked
<1>8. raced' \in BOOLEAN /\ (~raced' => ~raced)
  BY <1>4 DEF Inductive, TypeOK
<1>9. heard' = HeardAfter(p, {}) /\ NodeSlots(deaf)
  BY <1>1 DEF p
<1> DEFINE none == {}
<1>10. MasterStep(m, p, new, m', none) /\ heard' = HeardAfter(p, none)
  BY <1>4, <1>5, <1>9
<1> HIDE DEF none
<1> QED
  BY <1>2, <1>4, <1>5, <1>6, <1>7, <1>8, <1>9, <1>10, SlotInductive

LEMMA SlotInTimerKeeps ==
  ASSUME Inductive, SlotInTimer
  PROVE  Inductive'
<1>1. PICK id \in Nodes, progress \in Progress :
        /\ MasterSlotInTimer(OnBus, id, progress)
        /\ NodeSlots({})
        /\ heard' = HeardAfter(OnBus, {i \in {id} : Overwrites(m.masterNodeTimeToLive[i], progress)})
  BY DEF SlotInTimer
<1> DEFINE p        == OnBus
           old      == m.masterNodeTimeToLive[id]
           ticked   == UpdateUpTo(m, id, progress)
           pre      == masterPreProcess(ticked, p)
           new      == NewId(pre, p)
           r        == UpdateFrom(masterProcess(ticked, p), id, old, progress)
           updating == IF progress = "before" THEN {} ELSE {id}
           lost     == {i \in {id} : Overwrites(m.masterNodeTimeToLive[i], progress)}
<1>2. p \in nodeWire \cup {NoPacket} /\ RxOK(p)
  BY ReceivedFacts
<1>3. MasterOK(m) /\ Matched(m, {}) /\ faults \in Nat
  BY SettingFacts DEF Inductive, TypeOK, MasterOK, Matched, ScheduledIffReserved
<1>4. /\ UpdateDue(m) /\ Reaches(old, progress)
      /\ m' = r /\ masterWire' = masterTxPacket(pre)
      /\ owner' = [i \in Nodes |-> IF i \in new THEN p.from ELSE owner[i]]
      /\ raced' = (raced \/ new \cap updating # {})
  BY <1>1 DEF MasterSlotInTimer, MasterHandlers, NewId
<1> HIDE DEF p
<1>5. /\ MasterStep(m, p, new, r, lost)
      /\ masterTxPacket(pre) \in MasterPackets
      /\ (Offered(m, {}) /\ new \cap updating = {}) => Offered(r, {})
  BY <1>2, <1>3, <1>4, SlotInTimerStep
<1>6. \A i \in new : p.from \in Devices
  BY <1>2 DEF NewId, Registers, RxOK
<1>7. faults' \in 0 .. MaxFaults
  BY <1>3, SettingFacts DEF SlotInTimer
<1> HIDE DEF new, r, pre, ticked, updating
<1>8. raced' \in BOOLEAN /\ (~raced' => ~raced /\ (Offered(m, {}) => Offered(m', {})))
  BY <1>4, <1>5 DEF Inductive, TypeOK
<1>9. heard' = HeardAfter(p, lost)
  BY <1>1 DEF p
<1> DEFINE deaf == {}
<1> HIDE DEF lost
<1>10. /\ MasterStep(m, p, new, m', lost) /\ heard' = HeardAfter(p, lost)
       /\ NodeSlots(deaf)
  BY <1>1, <1>4, <1>5, <1>9
<1> HIDE DEF deaf
<1>11. masterWire' \in MasterPackets
  BY <1>4, <1>5
<1> QED
  BY <1>2, <1>4, <1>6, <1>7, <1>8, <1>10, <1>11, SlotInductive

LEMMA MasterRestartKeeps ==
  ASSUME Inductive, MasterRestart
  PROVE  Inductive'
<1>1. Fresh'
  BY SettingFacts DEF Fresh, MasterRestart, Inductive, TypeOK
<1>2. Fresh' => Inductive'
  BY FreshInductive, PTL
<1> QED
  BY <1>1, <1>2

LEMMA NodeRestartKeeps ==
  ASSUME Inductive, NEW d \in Devices, NodeRestart(d)
  PROVE  Inductive'
<1>1. /\ node' = [node EXCEPT ![d] = nodeInit]
      /\ nodeWire' = {p \in nodeWire : p.from # d}
      /\ heard' = heard \ {d}
      /\ m' = m /\ masterWire' = masterWire /\ owner' = owner /\ raced' = raced
      /\ faults' \in 0 .. MaxFaults
  BY SettingFacts DEF NodeRestart, Inductive, TypeOK
<1>2. nodeInit \in NodeStates /\ NodeOK(nodeInit)
  BY NodeInitFacts DEF NodeOK
<1>3. /\ node' \in [Devices -> NodeStates] /\ \A e \in Devices : NodeOK(node'[e])
      /\ \A e \in Devices : e # d => node'[e] = node[e]
  BY <1>1, <1>2 DEF Inductive, TypeOK
<1>4. TypeOK' /\ QueuesOK(m.s)' /\ ScheduledIffReserved' /\ OffersReserved'
  BY <1>1, <1>3 DEF Inductive, TypeOK, ScheduledIffReserved, OffersReserved
<1>5. PacketsCurrent'
  <2>1. PacketsCurrent /\ nodeWire \subseteq NodePackets
    BY DEF Inductive, TypeOK
  <2>2. ASSUME NEW p \in nodeWire' PROVE p \in nodeWire /\ p.from \in Devices /\ node'[p.from] = node[p.from]
    BY <1>1, <1>3, <2>1 DEF NodePackets
  <2> QED
    BY <2>1, <2>2 DEF PacketsCurrent
<1>6. HeardInTime' /\ NodeTimesOutFirst'
  <2>1. HeardInTime /\ NodeTimesOutFirst /\ heard \subseteq Devices
    BY DEF Inductive, TypeOK
  <2>2. ASSUME NEW e \in heard'
        PROVE  /\ e \in heard /\ node'[e] = node[e]
               /\ SendsOwn(e) => SendsOwn(e)'
    BY <1>1, <1>3, <2>1 DEF SendsOwn
  <2>3. ASSUME NEW e \in heard'
        PROVE  /\ node'[e].nodeId # Unallocated /\ node'[e].nextTxPacket = "own"
               /\ ~SendsOwn(e)' => node'[e].timeToLive < TimeLeft(m', node'[e].nodeId)
               /\ m'.masterNodeTimeToLive[node'[e].nodeId] # 0
               /\ owner'[node'[e].nodeId] = e
    BY <1>1, <2>1, <2>2 DEF HeardInTime, NodeTimesOutFirst
  <2> QED
    BY <2>3 DEF HeardInTime, NodeTimesOutFirst
<1> QED
  BY <1>3, <1>4, <1>5, <1>6 DEF Inductive

LEMMA NextInductive == Inductive /\ [Next]_vars => Inductive'
<1> SUFFICES ASSUME Inductive, [Next]_vars PROVE Inductive'
  OBVIOUS
<1>1. CASE Slot
  BY <1>1, SlotKeeps
<1>2. CASE SlotInTimer
  BY <1>2, SlotInTimerKeeps
<1>3. CASE MasterRestart
  BY <1>3, MasterRestartKeeps
<1>4. ASSUME NEW d \in Devices, NodeRestart(d) PROVE Inductive'
  BY <1>4, NodeRestartKeeps
<1>5. CASE UNCHANGED vars
  BY <1>5 DEF vars, Inductive, TypeOK, ScheduledIffReserved, OffersReserved, PacketsCurrent,
              HeardInTime, NodeTimesOutFirst, SendsOwn
<1> QED
  BY <1>1, <1>2, <1>3, <1>4, <1>5 DEF Next

-----------------------------------------------------------------------------
(* The invariant of MembershipInv is inductive: it holds in every state of *)
(* the master, the devices and the bus, whatever is lost or restarted.     *)
THEOREM InductiveInvariant == Spec => []Inductive
BY InitInductive, NextInductive, PTL DEF Spec

(* Every variable keeps its type, no assertion of scheduler.c or of        *)
(* nodeQueueAdd fails, and the table of new nodes stays within its length. *)
THEOREM TypeCorrect == Spec => []TypeOK
<1>1. Inductive => TypeOK
  BY DEF Inductive
<1> QED
  BY <1>1, InductiveInvariant, PTL

(* "Node must timeout first": whoever the master has heard, and believes   *)
(* to be on the network, still owns an ID that the master keeps for it.    *)
THEOREM NodesTimeOutFirst == Spec => []NodeTimesOutFirst
<1>1. Inductive => NodeTimesOutFirst
  BY DEF Inductive
<1> QED
  BY <1>1, InductiveInvariant, PTL

(* The queue that the scheduler services holds exactly the IDs that are    *)
(* given out, through registrations, timeouts and preempted updates.       *)
THEOREM ScheduledAreReserved == Spec => []ScheduledIffReserved
<1>1. Inductive => ScheduledIffReserved
  BY DEF Inductive
<1> QED
  BY <1>1, InductiveInvariant, PTL

(* The IDs that new nodes are offered are reserved, each for one node,     *)
(* unless one was given out in the middle of its update.                   *)
THEOREM OffersAreReserved == Spec => []OffersReserved
<1>1. Inductive => OffersReserved
  BY DEF Inductive
<1> QED
  BY <1>1, InductiveInvariant, PTL

(* checkAllNodesHaveDistinctIds (testSupport.c) holds of the nodes whose   *)
(* last packet the master received: no two of them have the same ID.       *)
THEOREM HeardHaveDistinctIds ==
  Spec => [](\A d, e \in heard : node[d].nodeId = node[e].nodeId => d = e)
<1>1. NodeTimesOutFirst => \A d, e \in heard : node[d].nodeId = node[e].nodeId => d = e
  BY DEF NodeTimesOutFirst
<1> QED
  BY <1>1, NodesTimeOutFirst, PTL
=============================================================================
