------------------------- MODULE SlotScheduleProofs -------------------------
(***************************************************************************)
(* Proofs about SlotSchedule, for every set of nodes, length of the        *)
(* schedule, setting of the scheduler's countdowns and bound that satisfy  *)
(* the assumptions of Scheduler and SlotSchedule.                          *)
(***************************************************************************)
EXTENDS SlotScheduleInv, SchedulerLemmas

(* The schedulers of this specification: their schedule and the buffer     *)
(* levels are bounded.                                                     *)
InBounds(t) ==
  /\ t.numTxNodesScheduled \in ScheduleLengths
  /\ t.nodeTxBufferLevel \in [Nodes -> 0 .. MaxBufferLevel]

LEMMA BoundFacts ==
  /\ ScheduleLengths \subseteq Nat \ {0} /\ MaxBufferLevel \in Nat \ {0}
  /\ \A t : t \in Schedulers(ScheduleLengths, 0 .. MaxBufferLevel)
              <=> (t \in SchedulerStates /\ InBounds(t))
<1>1. ScheduleLengths \subseteq Nat \ {0} /\ MaxBufferLevel \in Nat \ {0}
  BY SlotScheduleAssumption
<1>2. ASSUME NEW t \in Schedulers(ScheduleLengths, 0 .. MaxBufferLevel)
      PROVE  t \in SchedulerStates /\ InBounds(t)
  <2>1. t.nodeTxBufferLevel \in [Nodes -> 0 .. MaxBufferLevel]
    BY DEF Schedulers
  <2>2. t.nodeTxBufferLevel \in [Nodes -> Nat]
    BY <1>1, <2>1
  <2>3. t.numTxNodesScheduled \in ScheduleLengths /\ t.numTxNodesScheduled \in Nat \ {0}
    BY <1>1 DEF Schedulers
  <2> QED
    BY <2>1, <2>2, <2>3 DEF SchedulerStates, Schedulers, InBounds
<1>3. ASSUME NEW t \in SchedulerStates, InBounds(t)
      PROVE  t \in Schedulers(ScheduleLengths, 0 .. MaxBufferLevel)
  BY <1>3 DEF SchedulerStates, Schedulers, InBounds
<1> QED
  BY <1>1, <1>2, <1>3

(***************************************************************************)
(* Turns of the service                                                    *)
(***************************************************************************)
(* However the queue grows, a node waits for fewer turns than there are    *)
(* nodes, and MAX_NODES leaves room for two turns more.                    *)
LEMMA RoomForTurns ==
  ASSUME NEW q \in Queues, QueueOK(q), NEW j \in 1 .. numNodes(q)
  PROVE  /\ TurnsBefore(q, j) \in Nat
         /\ Turn \in Nat
         /\ Turn * TurnsBefore(q, j) \in Nat
         /\ Turn * MaxNodes \in Nat
         /\ Turn * TurnsBefore(q, j) + Turn + Turn <= Turn * MaxNodes
<1> DEFINE n == TurnsBefore(q, j)
           R == Cardinality(Nodes)
<1>1. /\ q.lastIndex \in Nat /\ numNodes(q) \in Nat
      /\ q.lastIndex = 0 \/ q.lastIndex < numNodes(q)
      /\ numNodes(q) <= R
  BY NeverQueueFull DEF Queues, QueueOK, PositionOK
<1>2. n \in Nat /\ n < n + 1 /\ n + 1 < MaxNodes /\ n + 1 \in Nat /\ MaxNodes \in Nat
  BY <1>1, ConstantFacts DEF TurnsBefore
<1>3. Turn \in Nat
  BY ConstantFacts DEF Turn
<1> HIDE DEF n
<1>4. Turn * n \in Nat /\ Turn * (n + 1) \in Nat /\ Turn * n + Turn <= Turn * (n + 1)
  BY <1>2, <1>3, ProductStep
<1> DEFINE n1 == n + 1
<1> HIDE DEF n1
<1>5. n1 \in Nat /\ n1 < MaxNodes
  BY <1>2 DEF n1
<1>6. Turn * n1 \in Nat /\ Turn * MaxNodes \in Nat /\ Turn * n1 + Turn <= Turn * MaxNodes
  BY <1>2, <1>3, <1>5, ProductStep
<1>7. Turn * n + Turn <= Turn * n1
  BY <1>4 DEF n1
<1>8. Turn * n + Turn + Turn <= Turn * MaxNodes
  <2> DEFINE a == Turn * n
             b == Turn * n1
             c == Turn * MaxNodes
  <2> HIDE DEF a, b, c
  <2>1. a \in Nat /\ b \in Nat /\ c \in Nat /\ a + Turn <= b /\ b + Turn <= c
    BY <1>4, <1>6, <1>7 DEF a, b, c
  <2>2. a + Turn + Turn <= c
    BY <1>3, <2>1
  <2> QED
    BY <2>2 DEF a, c
<1> QED
  BY <1>2, <1>3, <1>4, <1>6, <1>8 DEF n

(* A turn of the service brings every node but the one serviced nearer.    *)
LEMMA TurnTaken ==
  ASSUME NEW q \in Queues, QueueOK(q), NEW j \in 1 .. numNodes(q)
  PROVE  LET r == getNextNodesInQueue(q, 1)
         IN  /\ r \in Queues /\ QueueOK(r) /\ r.nodeIds = q.nodeIds
             /\ numNodes(r) = numNodes(q)
             /\ \/ q.nodeIds[j] = NodeAfter(q, 0)
                \/ Turn * TurnsBefore(r, j) + Turn <= Turn * TurnsBefore(q, j)
<1> DEFINE r == getNextNodesInQueue(q, 1)
           i == q.lastIndex
           n == numNodes(q)
<1>1. n \in Nat /\ 0 < n /\ n <= Cardinality(Nodes)
  BY NeverQueueFull DEF QueueOK
<1>2. /\ r \in Queues /\ QueueOK(r) /\ r.nodeIds = q.nodeIds
      /\ r.lastIndex = (i + 1) % n
  BY <1>1, NextFacts
<1>3. /\ i \in Nat /\ i < n /\ NodeAfter(q, 0) = q.nodeIds[i + 1]
  BY <1>1, InTurn DEF QueueOK, Queues
<1>4. numNodes(r) = n
  BY <1>2 DEF numNodes
<1>5. (i + 1) % n = IF i + 1 < n THEN i + 1 ELSE i + 1 - n
  <2> HIDE DEF i, n
  <2>1. n \in Nat \ {0} /\ i \in Nat /\ i < n
    BY <1>1, <1>3
  <2> QED
    BY <2>1, NextPlace
<1>6. CASE j = i + 1
  BY <1>2, <1>3, <1>4, <1>6
<1>7. CASE j # i + 1
  <2> DEFINE a == TurnsBefore(r, j)
             b == TurnsBefore(q, j)
  <2>1. a \in Nat /\ b \in Nat /\ Turn \in Nat
    BY <1>2, <1>4, RoomForTurns
  <2>2. a < b
    <3> DEFINE k == r.lastIndex
    <3>1. /\ j \in Nat /\ 1 <= j /\ j <= n
          /\ k = IF i + 1 < n THEN i + 1 ELSE i + 1 - n
      BY <1>1, <1>2, <1>5
    <3>2. /\ a = IF j - 1 >= k THEN j - 1 - k ELSE j - 1 - k + Cardinality(Nodes)
          /\ b = IF j - 1 >= i THEN j - 1 - i ELSE j - 1 - i + Cardinality(Nodes)
      BY DEF TurnsBefore
    <3> HIDE DEF r, k, a, b, i, n
    <3> QED
      BY <1>1, <1>3, <1>7, <3>1, <3>2, ConstantFacts
  <2> HIDE DEF a, b
  <2>3. Turn * a + Turn <= Turn * b
    BY <2>1, <2>2, ProductStep
  <2> QED
    BY <1>2, <1>4, <2>3 DEF a, b
<1> QED
  BY <1>6, <1>7

(***************************************************************************)
(* The invariant                                                           *)
(***************************************************************************)
LEMMA InductiveGood ==
  ASSUME Inductive
  PROVE  Good(s) /\ InBounds(s)
BY BoundFacts DEF Inductive, TypeOK, NoAssertionFails, QueuesDistinct, Good, QueueOK

(* The countdowns as numbers, in a well-typed state. *)
LEMMA AheadType ==
  Good(s) =>
         /\ Ahead \in 0 .. 3
         /\ s.countTillNextAllocation # 0 => Ahead <= 1
         /\ UntilService \in Nat
         /\ UntilService = 4 * s.countTillNextService + Ahead
         /\ s.countTillNextService \in Nat
         /\ UntilService + 1 <= Turn + Turn
<1> SUFFICES ASSUME Good(s) PROVE
         /\ Ahead \in 0 .. 3
         /\ s.countTillNextAllocation # 0 => Ahead <= 1
         /\ UntilService \in Nat
         /\ UntilService = 4 * s.countTillNextService + Ahead
         /\ s.countTillNextService \in Nat
         /\ UntilService + 1 <= Turn + Turn
  OBVIOUS
<1>1. s.countTillNextService \in 0 .. MaxSlotsBetweenServicing
  BY FieldTypes DEF Good
<1>2. Ahead \in 0 .. 3 /\ (s.countTillNextAllocation # 0 => Ahead <= 1)
  BY DEF Ahead
<1> QED
  BY <1>1, <1>2, ConstantFacts DEF UntilService, Turn

LEMMA AheadTypeNext ==
  Good(s)' => (/\ Ahead \in 0 .. 3
               /\ s.countTillNextAllocation # 0 => Ahead <= 1
               /\ UntilService \in Nat
               /\ UntilService = 4 * s.countTillNextService + Ahead
               /\ s.countTillNextService \in Nat
               /\ UntilService + 1 <= Turn + Turn)'
BY AheadType, PTL

(* Nobody has waited yet: all turns fit. *)
LEMMA NobodyWaits == Good(s) /\ (\A n \in Nodes : since[n] = 0) => ServiceInv
<1> SUFFICES ASSUME Good(s), \A n \in Nodes : since[n] = 0 PROVE ServiceInv
  OBVIOUS
<1>1. WaitBounded
  <2> SUFFICES ASSUME NEW j \in 1 .. numNodes(s.activeNodes)
               PROVE  since[s.activeNodes.nodeIds[j]] + UntilService + 1
                        + Turn * TurnsBefore(s.activeNodes, j) <= Turn * MaxNodes
    BY DEF WaitBounded
  <2> DEFINE q == s.activeNodes
             a == Turn * TurnsBefore(q, j)
             b == Turn * MaxNodes
  <2>1. q \in Queues /\ QueueOK(q)
    BY FieldTypes DEF Good
  <2>2. a \in Nat /\ b \in Nat /\ Turn \in Nat /\ a + Turn + Turn <= b
    BY <2>1, RoomForTurns
  <2>3. q.nodeIds[j] \in Nodes
    BY <2>1 DEF Queues, numNodes
  <2> HIDE DEF a, b, q
  <2>4. since[q.nodeIds[j]] = 0
    BY <2>3
  <2>5. UntilService \in Nat /\ UntilService + 1 <= Turn + Turn
    BY AheadType
  <2>6. 0 + UntilService + 1 + a <= b
    BY <2>2, <2>5
  <2> QED
    BY <2>4, <2>6 DEF a, b, q
<1>2. RecentlyScheduled
  BY AheadType, ConstantFacts DEF RecentlyScheduled
<1> QED
  BY <1>1, <1>2 DEF ServiceInv, OnlyActiveWait

LEMMA NobodyWaitsNext == (Good(s) /\ (\A n \in Nodes : since[n] = 0))' => ServiceInv'
BY NobodyWaits, PTL

(* The initial states. *)
LEMMA InitInductive == Init => Inductive
<1> SUFFICES ASSUME Init PROVE Inductive
  OBVIOUS
<1>1. PICK k \in ScheduleLengths : s = schedulerInit(k)
  BY DEF Init
<1>2. k \in Nat \ {0}
  BY BoundFacts
<1>3. EmptyQueue \in Queues /\ QueueOK(EmptyQueue) /\ numNodes(EmptyQueue) = 0
  BY DEF EmptyQueue, Queues, QueueOK, PositionOK, Distinct, numNodes
<1>4. /\ s.numTxNodesScheduled = k
      /\ s.activeNodes = EmptyQueue /\ s.activeTxNodes = EmptyQueue /\ s.nodeTxNodes = EmptyQueue
      /\ s.fault = FALSE
      /\ s.nodeTxBufferLevel = [n \in Nodes |-> 0]
  BY <1>1 DEF schedulerInit
<1>5. s \in SchedulerStates
  <2>1. /\ MinSlotsBetweenUnallocated \in MinSlotsBetweenUnallocated .. MaxSlotsBetweenUnallocated
        /\ MinSlotsBetweenUnallocated \in 0 .. ByteSize - 1
        /\ 0 \in 0 .. ByteSize - 1
        /\ 0 \in 0 .. MaxSlotsBetweenServicing
    BY ConstantFacts
  <2>2. "MASTER_TX" \in Turns
    BY DEF Turns
  <2> QED
    BY <1>1, <1>2, <1>3, <2>1, <2>2 DEF schedulerInit, SchedulerStates, Schedulers
<1>6. Good(s)
  BY <1>3, <1>4, <1>5 DEF Good
<1>7. nodesToTx = [i \in 1 .. k |-> Master]
  BY <1>4 DEF Init
<1>8. TypeOK
  <2>1. nodesToTx \in [1 .. s.numTxNodesScheduled -> Nodes \cup {Master, Unallocated}]
    BY <1>4, <1>7
  <2>2. /\ since \in [Nodes -> Nat] /\ reported \in [Nodes -> 0 .. MaxBufferLevel]
        /\ removed \subseteq Nodes
        /\ current \in Nodes \cup {Master, Unallocated}
        /\ answer \in Nodes \cup {Master, Unallocated, Invalid}
    BY BoundFacts DEF Init
  <2>3. InBounds(s)
    BY <1>4, BoundFacts DEF InBounds
  <2> QED
    BY <1>5, <1>6, <2>1, <2>2, <2>3, BoundFacts DEF TypeOK, Good, QueueOK
<1>9. MasterAlwaysScheduled
  <2>1. 1 \in DOMAIN nodesToTx /\ nodesToTx[1] = Master
    BY <1>2, <1>7
  <2> QED
    BY <2>1 DEF MasterAlwaysScheduled, Range
<1>10. LevelsRecorded
  BY <1>4 DEF LevelsRecorded, Init
<1>11. ServiceInv
  BY <1>6, NobodyWaits DEF Init
<1> QED
  BY <1>6, <1>8, <1>9, <1>10, <1>11
  DEF Inductive, Good, QueueOK, QueuesDistinct, NoAssertionFails

(* Whatever leaves the service, the recent slots and the schedule alone    *)
(* leaves everyone's wait alone.                                           *)
LEMMA SameWait ==
  ASSUME ServiceInv, UNCHANGED <<since, nodesToTx>>,
         s'.activeNodes = s.activeNodes,
         s'.recentScheduledNodes = s.recentScheduledNodes,
         s'.numTxNodesScheduled = s.numTxNodesScheduled,
         s'.countTillNextAllocation = s.countTillNextAllocation,
         s'.countTillNextService = s.countTillNextService
  PROVE  ServiceInv'
BY DEF ServiceInv, WaitBounded, RecentlyScheduled, OnlyActiveWait, Active, UntilService, Ahead,
       MasterDue

(* schedulerUpdateNodeTxBufferLevel, for a data packet: it holds at least  *)
(* the packet itself.                                                      *)
LEMMA LevelFacts ==
  ASSUME NEW t, Good(t), NEW n \in Nodes, NEW level \in 1 .. MaxBufferLevel
  PROVE  LET u == schedulerUpdateNodeTxBufferLevel(t, n, level)
         IN  /\ Good(u) /\ SameService(t, u)
             /\ u.recentScheduledNodes = t.recentScheduledNodes
             /\ u.numTxNodesScheduled = t.numTxNodesScheduled
             /\ u.countTillNextAllocation = t.countTillNextAllocation
             /\ u.nodeTxBufferLevel = [t.nodeTxBufferLevel EXCEPT ![n] = level]
             /\ \A m : Contains(t.nodeTxNodes.nodeIds, m) => Contains(u.nodeTxNodes.nodeIds, m)
             /\ t.nodeTxBufferLevel[n] = 0 => Contains(u.nodeTxNodes.nodeIds, n)
<1> DEFINE old == t.nodeTxBufferLevel[n]
           new == [t EXCEPT !.nodeTxBufferLevel[n] = level]
           lev == [t EXCEPT !.nodeTxBufferLevel = [t.nodeTxBufferLevel EXCEPT ![n] = level]]
           q   == nodeQueueAdd(t.nodeTxNodes, n)
           u   == schedulerUpdateNodeTxBufferLevel(t, n, level)
<1>1. /\ t \in SchedulerStates /\ t.nodeTxNodes \in Queues /\ QueueOK(t.nodeTxNodes)
      /\ t.nodeTxBufferLevel \in [Nodes -> Nat]
      /\ old \in Nat /\ level \in Nat /\ level > 0
  BY FieldTypes, BoundFacts DEF Good
<1>2. new = lev
  BY <1>1 DEF SchedulerStates, Schedulers
<1>3. /\ Good(lev) /\ SameService(t, lev)
      /\ lev.recentScheduledNodes = t.recentScheduledNodes
      /\ lev.numTxNodesScheduled = t.numTxNodesScheduled
      /\ lev.countTillNextAllocation = t.countTillNextAllocation
      /\ lev.nodeTxBufferLevel = [t.nodeTxBufferLevel EXCEPT ![n] = level]
      /\ lev.nodeTxNodes = t.nodeTxNodes
  BY <1>1 DEF Good, SameService, SchedulerStates, Schedulers
<1>4. CASE old = 0
  <2>1. ~QueueFull(t.nodeTxNodes)
    BY <1>1, NeverQueueFull DEF QueueOK
  <2>2. /\ q \in Queues /\ QueueOK(q)
        /\ \A m : Contains(q.nodeIds, m) <=> Contains(t.nodeTxNodes.nodeIds, m) \/ m = n
    BY <1>1, AddFacts DEF QueueOK
  <2>3. u = [new EXCEPT !.nodeTxNodes = nodeQueueAdd(@, n)]
    BY <1>1, <1>4, <2>1 DEF schedulerUpdateNodeTxBufferLevel, Asserted
  <2> HIDE DEF new, lev, u
  <2>4. u = [lev EXCEPT !.nodeTxNodes = q]
    BY <1>2, <1>3, <2>3
  <2> HIDE DEF q
  <2>5. /\ Good(u) /\ SameService(t, u)
        /\ u.recentScheduledNodes = t.recentScheduledNodes
        /\ u.numTxNodesScheduled = t.numTxNodesScheduled
        /\ u.countTillNextAllocation = t.countTillNextAllocation
        /\ u.nodeTxBufferLevel = [t.nodeTxBufferLevel EXCEPT ![n] = level]
        /\ u.nodeTxNodes = q
    BY <1>3, <2>2, <2>4 DEF Good, SameService, SchedulerStates, Schedulers
  <2> QED
    BY <2>2, <2>5 DEF u
<1>5. CASE old # 0
  <2>1. u = new
    BY <1>1, <1>5 DEF schedulerUpdateNodeTxBufferLevel
  <2> HIDE DEF new, lev, u
  <2> QED
    BY <1>2, <1>3, <1>5, <2>1 DEF u
<1> QED
  BY <1>4, <1>5

(* A packet of a node is processed. *)
LEMMA RxPacketInductive ==
  ASSUME Inductive, NEW n \in Nodes, NEW emptied \in BOOLEAN, NEW isData \in BOOLEAN,
         NEW level \in 1 .. MaxBufferLevel, RxPacket(n, emptied, isData, level)
  PROVE  Inductive'
<1> DEFINE q     == nodeQueueRemoveIfExists(s.activeTxNodes, n)
           acked == IF emptied
                    THEN [s EXCEPT !.activeTxNodes = nodeQueueRemoveIfExists(@, n)] ELSE s
           told  == schedulerUpdateNodeTxBufferLevel(acked, n, level)
<1>1. Good(s) /\ s \in SchedulerStates
  BY InductiveGood DEF Good
<1>2. /\ Good(acked) /\ SameService(s, acked)
      /\ acked.recentScheduledNodes = s.recentScheduledNodes
      /\ acked.numTxNodesScheduled = s.numTxNodesScheduled
      /\ acked.countTillNextAllocation = s.countTillNextAllocation
      /\ acked.nodeTxBufferLevel = s.nodeTxBufferLevel
      /\ acked.nodeTxNodes = s.nodeTxNodes
  <2>1. q \in Queues /\ QueueOK(q)
    BY <1>1, FieldTypes, RemoveFacts DEF Good, QueueOK
  <2>2. acked = IF emptied THEN [s EXCEPT !.activeTxNodes = q] ELSE s
    OBVIOUS
  <2> HIDE DEF acked, q
  <2> QED
    BY <1>1, <2>1, <2>2 DEF Good, SameService, SchedulerStates, Schedulers
<1>3. s' = IF isData THEN told ELSE acked
  BY DEF RxPacket
<1> HIDE DEF acked
<1>4. /\ Good(told) /\ SameService(acked, told)
      /\ told.recentScheduledNodes = acked.recentScheduledNodes
      /\ told.numTxNodesScheduled = acked.numTxNodesScheduled
      /\ told.countTillNextAllocation = acked.countTillNextAllocation
      /\ told.nodeTxBufferLevel = [acked.nodeTxBufferLevel EXCEPT ![n] = level]
      /\ \A m : Contains(acked.nodeTxNodes.nodeIds, m) => Contains(told.nodeTxNodes.nodeIds, m)
      /\ acked.nodeTxBufferLevel[n] = 0 => Contains(told.nodeTxNodes.nodeIds, n)
  BY <1>2, LevelFacts
<1> HIDE DEF told
<1>5. /\ Good(s') /\ SameService(s, s')
      /\ s'.recentScheduledNodes = s.recentScheduledNodes
      /\ s'.numTxNodesScheduled = s.numTxNodesScheduled
      /\ s'.countTillNextAllocation = s.countTillNextAllocation
      /\ s'.nodeTxBufferLevel =
           IF isData THEN [s.nodeTxBufferLevel EXCEPT ![n] = level] ELSE s.nodeTxBufferLevel
      /\ \A m : Contains(s.nodeTxNodes.nodeIds, m) => Contains(s'.nodeTxNodes.nodeIds, m)
      /\ isData /\ s.nodeTxBufferLevel[n] = 0 => Contains(s'.nodeTxNodes.nodeIds, n)
  BY <1>2, <1>3, <1>4 DEF SameService
<1>6. /\ UNCHANGED <<nodesToTx, current, since, removed>> /\ answer' = Invalid
      /\ reported' = IF isData THEN [reported EXCEPT ![n] = level] ELSE reported
      /\ Active(n) \/ n \in removed
  BY DEF RxPacket
<1>7. TypeOK'
  <2>1. reported' \in [Nodes -> 0 .. MaxBufferLevel]
    BY <1>6, BoundFacts DEF Inductive, TypeOK
  <2>2. InBounds(s')
    BY <1>5, InductiveGood, BoundFacts DEF InBounds
  <2> QED
    BY <1>5, <1>6, <2>1, <2>2, BoundFacts DEF Inductive, TypeOK, Good, QueueOK
<1>8. MasterAlwaysScheduled'
  BY <1>5, <1>6 DEF Inductive, MasterAlwaysScheduled
<1>9. ServiceInv'
  BY <1>5, <1>6, SameWait DEF Inductive, SameService
<1>10. LevelsRecorded'
  <2> SUFFICES ASSUME NEW m \in Nodes \ removed
               PROVE  /\ s'.nodeTxBufferLevel[m] = reported'[m]
                      /\ reported'[m] > 0 => Active(m)' /\ Contains(s'.nodeTxNodes.nodeIds, m)
    BY <1>6 DEF LevelsRecorded
  <2>1. /\ s.nodeTxBufferLevel[m] = reported[m]
        /\ reported[m] > 0 => Active(m) /\ Contains(s.nodeTxNodes.nodeIds, m)
    BY DEF Inductive, LevelsRecorded
  <2>2. Active(m)' <=> Active(m)
    BY <1>5 DEF SameService, Active
  <2>3. /\ s.nodeTxBufferLevel \in [Nodes -> 0 .. MaxBufferLevel]
        /\ reported \in [Nodes -> 0 .. MaxBufferLevel]
    BY InductiveGood DEF Inductive, TypeOK, InBounds
  <2>4. CASE isData /\ m = n
    <3>1. s'.nodeTxBufferLevel[m] = level /\ reported'[m] = level
      BY <1>5, <1>6, <2>3, <2>4
    <3>2. reported[m] = 0 \/ reported[m] > 0
      BY <2>3
    <3> QED
      BY <1>5, <1>6, <2>1, <2>2, <2>4, <3>1, <3>2
  <2>5. CASE ~(isData /\ m = n)
    <3>1. s'.nodeTxBufferLevel[m] = s.nodeTxBufferLevel[m] /\ reported'[m] = reported[m]
      BY <1>5, <1>6, <2>3, <2>5
    <3> QED
      BY <1>5, <2>1, <2>2, <3>1
  <2> QED
    BY <2>4, <2>5
<1> QED
  BY <1>5, <1>7, <1>8, <1>9, <1>10
  DEF Inductive, Good, QueueOK, QueuesDistinct, NoAssertionFails

(* A request to join is processed: a new node waits behind the others, and *)
(* the others wait no longer than before.                                  *)
LEMMA RxNewNodeRequestInductive ==
  ASSUME Inductive, NEW id \in Nodes \cup {Invalid}, RxNewNodeRequest(id)
  PROVE  Inductive'
<1> DEFINE q     == nodeQueueAdd(s.activeNodes, id)
           added == [s EXCEPT !.activeNodes = nodeQueueAdd(@, id)]
           t     == IF id = Invalid THEN s ELSE Asserted(added, ~QueueFull(s.activeNodes))
           ids   == s.activeNodes.nodeIds
<1>1. Good(s) /\ s \in SchedulerStates /\ s.activeNodes \in Queues /\ QueueOK(s.activeNodes)
  BY InductiveGood, FieldTypes DEF Good
<1>2. id # Invalid => id \in Nodes
  OBVIOUS
<1>3. /\ UNCHANGED <<nodesToTx, current, since, removed>>
      /\ answer' = Invalid
      /\ reported' = [n \in Nodes |-> IF n = id THEN 0 ELSE reported[n]]
      /\ ~Active(id)
      /\ s' = newNodeHeard(t)
  BY DEF RxNewNodeRequest
<1>4. /\ Good(t)
      /\ t.recentScheduledNodes = s.recentScheduledNodes
      /\ t.numTxNodesScheduled = s.numTxNodesScheduled
      /\ t.countTillNextService = s.countTillNextService
      /\ t.nodeTxBufferLevel = s.nodeTxBufferLevel
      /\ t.nodeTxNodes = s.nodeTxNodes
      /\ t.activeNodes.lastIndex = s.activeNodes.lastIndex
      /\ t.activeNodes.nodeIds = IF id = Invalid THEN ids ELSE Append(ids, id)
      /\ \A m : Contains(ids, m) => Contains(t.activeNodes.nodeIds, m)
  <2>1. CASE id = Invalid
    BY <1>1, <2>1
  <2>2. CASE id # Invalid
    <3>1. ~QueueFull(s.activeNodes)
      BY <1>1, NeverQueueFull DEF QueueOK
    <3>2. t = [s EXCEPT !.activeNodes = q]
      BY <2>2, <3>1 DEF Asserted
    <3>3. /\ q \in Queues /\ QueueOK(q) /\ q.lastIndex = s.activeNodes.lastIndex
          /\ \A m : Contains(q.nodeIds, m) <=> Contains(ids, m) \/ m = id
      BY <1>1, <1>2, <2>2, AddFacts DEF QueueOK
    <3>4. q.nodeIds = Append(ids, id)
      BY <1>1, <1>3 DEF nodeQueueAdd, Active, Queues
    <3> HIDE DEF t, q, ids
    <3> QED
      BY <1>1, <2>2, <3>2, <3>3, <3>4 DEF Good, SchedulerStates, Schedulers
  <2> QED
    BY <2>1, <2>2
<1> HIDE DEF t
<1>5. /\ Good(s')
      /\ s'.recentScheduledNodes = s.recentScheduledNodes
      /\ s'.numTxNodesScheduled = s.numTxNodesScheduled
      /\ s'.countTillNextService = s.countTillNextService
      /\ s'.countTillNextAllocation # 0
      /\ s'.nodeTxBufferLevel = s.nodeTxBufferLevel
      /\ s'.nodeTxNodes = s.nodeTxNodes
      /\ s'.activeNodes.lastIndex = s.activeNodes.lastIndex
      /\ s'.activeNodes.nodeIds = IF id = Invalid THEN ids ELSE Append(ids, id)
      /\ \A m : Contains(ids, m) => Contains(s'.activeNodes.nodeIds, m)
  BY <1>3, <1>4, HeardFacts DEF SameService
<1>6. TypeOK'
  <2>1. reported' \in [Nodes -> 0 .. MaxBufferLevel]
    BY <1>3, BoundFacts DEF Inductive, TypeOK
  <2>2. InBounds(s')
    BY <1>5, InductiveGood DEF InBounds
  <2> QED
    BY <1>3, <1>5, <2>1, <2>2, BoundFacts DEF Inductive, TypeOK, Good, QueueOK
<1>7. MasterAlwaysScheduled'
  BY <1>3, <1>5 DEF Inductive, MasterAlwaysScheduled
<1>8. \A m : Active(m) => Active(m)'
  BY <1>5 DEF Active
<1>9. LevelsRecorded'
  <2> SUFFICES ASSUME NEW m \in Nodes \ removed
               PROVE  /\ s'.nodeTxBufferLevel[m] = reported'[m]
                      /\ reported'[m] > 0 => Active(m)' /\ Contains(s'.nodeTxNodes.nodeIds, m)
    BY <1>3 DEF LevelsRecorded
  <2>1. /\ s.nodeTxBufferLevel[m] = reported[m]
        /\ reported[m] > 0 => Active(m) /\ Contains(s.nodeTxNodes.nodeIds, m)
        /\ reported[m] \in 0 .. MaxBufferLevel
    BY DEF Inductive, LevelsRecorded, TypeOK
  <2>2. reported'[m] = IF m = id THEN 0 ELSE reported[m]
    BY <1>3
  <2>3. m = id => reported[m] = 0
    BY <1>3, <2>1, BoundFacts
  <2> QED
    BY <1>5, <1>8, <2>1, <2>2, <2>3
<1>10. /\ Ahead' \in Nat /\ Ahead \in Nat /\ Ahead' <= Ahead
       /\ UntilService' <= UntilService /\ UntilService \in Nat
       /\ UntilService' \in Nat /\ UntilService' + 1 <= Turn + Turn
  <2>1. Ahead \in 0 .. 3 /\ UntilService = 4 * s.countTillNextService + Ahead
        /\ s.countTillNextService \in Nat /\ UntilService + 1 <= Turn + Turn
    BY <1>1, AheadType
  <2>2. MasterDue' <=> MasterDue
    BY <1>3, <1>5 DEF MasterDue
  <2>3. Ahead' \in Nat /\ Ahead' <= Ahead
    BY <1>5, <2>2 DEF Ahead
  <2>4. UntilService' = 4 * s.countTillNextService + Ahead'
    BY <1>5 DEF UntilService
  <2>5. Turn \in Nat
    BY ConstantFacts DEF Turn
  <2> QED
    BY <2>1, <2>3, <2>4, <2>5
<1>11. RecentlyScheduled'
  <2> SUFFICES ASSUME NEW i \in 1 .. MaxMasterSlotsBetweenAcks,
                      s.recentScheduledNodes[i] \in Nodes
               PROVE  since[s.recentScheduledNodes[i]] + Ahead' <= 4 * (MaxMasterSlotsBetweenAcks - i) + 3
    BY <1>3, <1>5 DEF RecentlyScheduled
  <2>1. since[s.recentScheduledNodes[i]] + Ahead <= 4 * (MaxMasterSlotsBetweenAcks - i) + 3
    BY DEF Inductive, ServiceInv, RecentlyScheduled
  <2>2. since[s.recentScheduledNodes[i]] \in Nat
    BY DEF Inductive, TypeOK
  <2>3. 4 * (MaxMasterSlotsBetweenAcks - i) + 3 \in Nat
    BY ConstantFacts
  <2> QED
    BY <1>10, <2>1, <2>2, <2>3
<1>12. OnlyActiveWait'
  BY <1>3, <1>8 DEF Inductive, ServiceInv, OnlyActiveWait
<1>13. WaitBounded'
  <2> DEFINE r == s'.activeNodes
             B == Turn * MaxNodes
  <2> SUFFICES ASSUME NEW j \in 1 .. numNodes(r)
               PROVE  since[r.nodeIds[j]] + UntilService' + 1 + Turn * TurnsBefore(r, j) <= B
    BY <1>3 DEF WaitBounded, TurnsBefore
  <2>1. r \in Queues /\ QueueOK(r)
    BY <1>5, FieldTypes DEF Good
  <2>2. ids \in Seq(Nodes) /\ numNodes(s.activeNodes) = Len(ids)
    BY <1>1 DEF Queues, numNodes
  <2>3. CASE j \in 1 .. Len(ids)
    <3>1. r.nodeIds[j] = ids[j]
      BY <1>2, <1>5, <2>2, <2>3
    <3>2. TurnsBefore(r, j) = TurnsBefore(s.activeNodes, j)
      BY <1>5 DEF TurnsBefore
    <3> DEFINE a == Turn * TurnsBefore(s.activeNodes, j)
    <3>3. since[ids[j]] + UntilService + 1 + a <= B
      BY <2>2, <2>3 DEF Inductive, ServiceInv, WaitBounded
    <3>4. a \in Nat /\ B \in Nat
      BY <1>1, <2>2, <2>3, RoomForTurns
    <3>5. since[ids[j]] \in Nat
      BY <2>2, <2>3 DEF Inductive, TypeOK
    <3> HIDE DEF a, B
    <3>6. since[ids[j]] + UntilService' + 1 + a <= B
      BY <1>10, <3>3, <3>4, <3>5
    <3> QED
      BY <3>1, <3>2, <3>6 DEF a
  <2>4. CASE j \notin 1 .. Len(ids)
    <3>1. id # Invalid
      BY <1>5, <2>2, <2>4 DEF numNodes
    <3>2. r.nodeIds[j] = id
      <4>1. r.nodeIds = Append(ids, id) /\ j \in 1 .. Len(r.nodeIds)
        BY <1>5, <3>1 DEF numNodes
      <4> HIDE DEF r, ids
      <4> QED
        BY <1>2, <2>2, <2>4, <3>1, <4>1
    <3>3. since[id] = 0
      BY <1>2, <1>3, <3>1 DEF Inductive, ServiceInv, OnlyActiveWait
    <3> DEFINE a == Turn * TurnsBefore(r, j)
    <3>4. a \in Nat /\ B \in Nat /\ Turn \in Nat /\ a + Turn + Turn <= B
      BY <2>1, RoomForTurns
    <3> HIDE DEF a, B
    <3> DEFINE u == UntilService'
    <3>5. u \in Nat /\ u + 1 <= Turn + Turn
      BY <1>10
    <3> HIDE DEF u
    <3>6. 0 + u + 1 + a <= B
      BY <3>4, <3>5
    <3> QED
      BY <3>2, <3>3, <3>6 DEF a, u
  <2> QED
    BY <2>3, <2>4
<1> QED
  BY <1>5, <1>6, <1>7, <1>9, <1>11, <1>12, <1>13
  DEF Inductive, ServiceInv, Good, QueueOK, QueuesDistinct, NoAssertionFails

(* The application submits a packet: a node owes an ack. *)
LEMMA SubmitInductive ==
  ASSUME Inductive, NEW n \in Nodes, SubmitTxPacket(n)
  PROVE  Inductive'
<1> DEFINE q == nodeQueueAdd(s.activeTxNodes, n)
<1>1. Good(s) /\ s.activeTxNodes \in Queues /\ QueueOK(s.activeTxNodes)
  BY InductiveGood, FieldTypes DEF Good
<1>2. ~QueueFull(s.activeTxNodes)
  BY <1>1, NeverQueueFull DEF QueueOK
<1>3. /\ s' = [s EXCEPT !.activeTxNodes = q]
      /\ UNCHANGED <<nodesToTx, current, answer, since, reported, removed>>
  BY <1>2 DEF SubmitTxPacket, Asserted
<1>4. q \in Queues /\ QueueOK(q)
  BY <1>1, AddFacts DEF QueueOK
<1> HIDE DEF q
<1>5. /\ Good(s')
      /\ s'.activeNodes = s.activeNodes
      /\ s'.recentScheduledNodes = s.recentScheduledNodes
      /\ s'.numTxNodesScheduled = s.numTxNodesScheduled
      /\ s'.countTillNextAllocation = s.countTillNextAllocation
      /\ s'.countTillNextService = s.countTillNextService
      /\ s'.nodeTxBufferLevel = s.nodeTxBufferLevel
      /\ s'.nodeTxNodes = s.nodeTxNodes
  BY <1>1, <1>3, <1>4 DEF Good, SchedulerStates, Schedulers
<1>6. TypeOK'
  <2>1. InBounds(s')
    BY <1>5, InductiveGood DEF InBounds
  <2> QED
    BY <1>3, <1>5, <2>1, BoundFacts DEF Inductive, TypeOK, Good, QueueOK
<1>7. ServiceInv'
  BY <1>3, <1>5, SameWait DEF Inductive
<1>8. MasterAlwaysScheduled' /\ LevelsRecorded'
  BY <1>3, <1>5 DEF Inductive, MasterAlwaysScheduled, LevelsRecorded, Active
<1> QED
  BY <1>5, <1>6, <1>7, <1>8
  DEF Inductive, Good, QueueOK, QueuesDistinct, NoAssertionFails

(* A node is removed, and everybody's wait starts again. *)
LEMMA RemoveInductive ==
  ASSUME Inductive, NEW n \in Nodes, RemoveNode(n)
  PROVE  Inductive'
<1> DEFINE qa == nodeQueueRemoveIfExists(s.activeNodes, n)
           qt == nodeQueueRemoveIfExists(s.nodeTxNodes, n)
           qx == nodeQueueRemoveIfExists(s.activeTxNodes, n)
<1>1. /\ Good(s)
      /\ s.activeNodes \in Queues /\ s.nodeTxNodes \in Queues /\ s.activeTxNodes \in Queues
  BY InductiveGood, FieldTypes DEF Good
<1>2. /\ qa \in Queues /\ QueueOK(qa)
      /\ \A m : Contains(qa.nodeIds, m) <=> Contains(s.activeNodes.nodeIds, m) /\ m # n
  BY <1>1, RemoveFacts DEF Good, QueueOK
<1>3. /\ qt \in Queues /\ QueueOK(qt)
      /\ \A m : Contains(qt.nodeIds, m) <=> Contains(s.nodeTxNodes.nodeIds, m) /\ m # n
  BY <1>1, RemoveFacts DEF Good, QueueOK
<1>4. qx \in Queues /\ QueueOK(qx)
  BY <1>1, RemoveFacts DEF Good, QueueOK
<1>5. /\ s' = [s EXCEPT !.activeNodes = qa, !.nodeTxNodes = qt, !.activeTxNodes = qx]
      /\ removed' = removed \cup {n}
      /\ since' = [m \in Nodes |-> 0]
      /\ UNCHANGED <<nodesToTx, current, answer, reported>>
  BY DEF RemoveNode
<1> HIDE DEF qa, qt, qx
<1>6. /\ Good(s')
      /\ s'.activeNodes = qa /\ s'.nodeTxNodes = qt
      /\ s'.numTxNodesScheduled = s.numTxNodesScheduled
      /\ s'.nodeTxBufferLevel = s.nodeTxBufferLevel
  BY <1>1, <1>2, <1>3, <1>4, <1>5 DEF Good, SchedulerStates, Schedulers
<1>7. TypeOK'
  <2>1. InBounds(s')
    BY <1>6, InductiveGood DEF InBounds
  <2> QED
    BY <1>5, <1>6, <2>1, BoundFacts DEF Inductive, TypeOK, Good, QueueOK
<1>8. MasterAlwaysScheduled'
  BY <1>5, <1>6 DEF Inductive, MasterAlwaysScheduled
<1>9. LevelsRecorded'
  BY <1>2, <1>3, <1>5, <1>6 DEF Inductive, LevelsRecorded, Active
<1>10. ServiceInv'
  BY <1>5, <1>6, NobodyWaitsNext
<1> QED
  BY <1>6, <1>7, <1>8, <1>9, <1>10
  DEF Inductive, Good, QueueOK, QueuesDistinct, NoAssertionFails

(***************************************************************************)
(* A slot                                                                  *)
(***************************************************************************)
(* The three kinds of slot: one the master needs to send the schedule, an  *)
(* unallocated one, and one that scheduleNextAllocatedNode fills.          *)
LEMMA SlotCases ==
  ASSUME NEW level, Slot(level)
  PROVE  \E x :
           /\ nodesToTx' = Append(Tail(nodesToTx), x)
           /\ \/ MasterDue /\ s' = s /\ x = Master
              \/ /\ ~MasterDue /\ s.countTillNextAllocation = 0
                 /\ s' = scheduleUnallocatedSlot(AdaptGap(s)).s /\ x = Unallocated
              \/ /\ ~MasterDue /\ s.countTillNextAllocation # 0
                 /\ \E left : LET r == RecordAllocated(scheduleNextAllocatedNode(s, left))
                              IN  s' = r.s /\ x = r.node
<1> DEFINE shared == s.numTxNodesScheduled > 1
           left == IF shared THEN RemainingLevel(nodesToTx, level) ELSE 0
           nx == scheduleNextNode(s, left)
           next == IF shared /\ ~MasterScheduled(nodesToTx) THEN [s |-> s, node |-> Master] ELSE nx
<1>1. s' = next.s /\ nodesToTx' = Append(Tail(nodesToTx), next.node)
  BY DEF Slot, schedulerUpdateAndCalcNextTxNodes, AddToSchedule
<1>2. CASE MasterDue
  <2>1. next = [s |-> s, node |-> Master]
    BY <1>2 DEF MasterDue
  <2> QED
    BY <1>1, <1>2, <2>1
<1>3. CASE ~MasterDue
  <2>1. next = nx
    BY <1>3 DEF MasterDue
  <2>2. CASE s.countTillNextAllocation = 0
    <3>1. nx = scheduleUnallocatedSlot(AdaptGap(s))
      BY <2>2 DEF scheduleNextNode
    <3>2. nx.node = Unallocated
      BY <3>1 DEF scheduleUnallocatedSlot
    <3> HIDE DEF nx
    <3> QED
      BY <1>1, <1>3, <2>1, <2>2, <3>1, <3>2
  <2>3. CASE s.countTillNextAllocation # 0
    <3>1. nx = RecordAllocated(scheduleNextAllocatedNode(s, left))
      BY <2>3 DEF scheduleNextNode
    <3> HIDE DEF nx, left
    <3> QED
      BY <1>1, <1>3, <2>1, <2>3, <3>1
  <2> QED
    BY <2>2, <2>3
<1> QED
  BY <1>2, <1>3

(* What a slot does apart from the wait, whatever its kind. *)
LEMMA SlotSchedulePart ==
  ASSUME Inductive, NEW level, Slot(level),
         NEW x \in Nodes \cup {Master, Unallocated},
         nodesToTx' = Append(Tail(nodesToTx), x),
         MasterDue => x = Master,
         Good(s'),
         s'.numTxNodesScheduled = s.numTxNodesScheduled,
         s'.nodeTxBufferLevel = s.nodeTxBufferLevel,
         s'.nodeTxNodes.nodeIds = s.nodeTxNodes.nodeIds,
         s'.activeNodes.nodeIds = s.activeNodes.nodeIds
  PROVE  /\ TypeOK' /\ NoAssertionFails' /\ QueuesDistinct'
         /\ MasterAlwaysScheduled' /\ LevelsRecorded' /\ OnlyActiveWait'
         /\ \A n \in Nodes : /\ since[n] \in Nat /\ since'[n] \in Nat
                             /\ since'[n] <= since[n] + 1
                             /\ n = x => since'[n] = 0
         /\ MasterDue => ~MasterDue'
<1> DEFINE k == s.numTxNodesScheduled
           T == Nodes \cup {Master, Unallocated}
<1>1. k \in Nat \ {0} /\ nodesToTx \in [1 .. k -> T]
  BY FieldTypes, InductiveGood DEF Inductive, TypeOK, Good
<1>2. /\ nodesToTx' \in [1 .. k -> T]
      /\ Last(nodesToTx') = x
      /\ nodesToTx[1] \in T
      /\ Master \in Range(Tail(nodesToTx)) => Master \in Range(nodesToTx')
      /\ x = Master => Master \in Range(nodesToTx')
      /\ x = Master /\ k > 1 => MasterScheduled(nodesToTx')
  <2>1. x \in T
    OBVIOUS
  <2> HIDE DEF k, T
  <2>2. Follows(nodesToTx', nodesToTx, k, T, x)
    BY <1>1, <2>1, ScheduleShift
  <2> QED
    BY <2>2, Zenon DEF Follows
<1>3. /\ since' = [n \in Nodes |-> IF n = x \/ ~Active(n) THEN 0 ELSE since[n] + 1]
      /\ since \in [Nodes -> Nat]
      /\ current' = nodesToTx[1] /\ answer' = current /\ UNCHANGED <<reported, removed>>
  <2>1. since \in [Nodes -> Nat]
    BY DEF Inductive, TypeOK
  <2> QED
    BY <1>2, <2>1 DEF Slot
<1>4. \A n \in Nodes : /\ since[n] \in Nat /\ since'[n] \in Nat
                       /\ since'[n] <= since[n] + 1
                       /\ n = x => since'[n] = 0
                       /\ ~Active(n) => since'[n] = 0
  BY <1>3
<1>5. since' \in [Nodes -> Nat]
  BY <1>3
<1>6. TypeOK'
  <2>1. InBounds(s')
    BY InductiveGood DEF InBounds
  <2> QED
    BY <1>2, <1>3, <1>5, <2>1, BoundFacts DEF Inductive, TypeOK, Good, QueueOK
<1>7. MasterAlwaysScheduled'
  BY <1>2 DEF MasterAlwaysScheduled, MasterDue, MasterScheduled
<1>8. LevelsRecorded'
  BY <1>3 DEF Inductive, LevelsRecorded, Active
<1>9. OnlyActiveWait'
  BY <1>4 DEF OnlyActiveWait, Active
<1>10. MasterDue => ~MasterDue'
  BY <1>2 DEF MasterDue
<1> QED
  BY <1>4, <1>6, <1>7, <1>8, <1>9, <1>10 DEF Good, QueueOK, QueuesDistinct, NoAssertionFails

(* Slots in which scheduleNextAllocatedNode does not run: the service is   *)
(* one slot nearer.                                                        *)
LEMMA OtherSlotWait ==
  ASSUME Good(s), Good(s'), ServiceInv,
         \A n \in Nodes : since[n] \in Nat /\ since'[n] \in Nat /\ since'[n] <= since[n] + 1,
         s'.activeNodes = s.activeNodes,
         s'.countTillNextService = s.countTillNextService,
         s'.recentScheduledNodes = s.recentScheduledNodes,
         Ahead' + 1 <= Ahead
  PROVE  WaitBounded' /\ RecentlyScheduled'
<1> DEFINE u == UntilService
           v == UntilService'
<1>1. /\ Ahead \in Nat /\ Ahead' \in Nat /\ u \in Nat /\ v \in Nat
      /\ v + 1 <= u
  BY AheadType, AheadTypeNext
<1>2. WaitBounded'
  <2> DEFINE q == s.activeNodes
  <2> SUFFICES ASSUME NEW j \in 1 .. numNodes(q)
               PROVE  since'[q.nodeIds[j]] + v + 1 + Turn * TurnsBefore(q, j) <= Turn * MaxNodes
    BY DEF WaitBounded, TurnsBefore
  <2> DEFINE a == Turn * TurnsBefore(q, j)
             b == Turn * MaxNodes
             n == q.nodeIds[j]
  <2>1. q \in Queues /\ QueueOK(q)
    BY FieldTypes DEF Good
  <2>2. a \in Nat /\ b \in Nat
    BY <2>1, RoomForTurns
  <2>3. n \in Nodes
    BY <2>1 DEF Queues, numNodes
  <2>4. since[n] + u + 1 + a <= b
    BY DEF ServiceInv, WaitBounded
  <2> HIDE DEF a, b, n, q, u, v
  <2>5. since'[n] + v + 1 + a <= b
    BY <1>1, <2>2, <2>3, <2>4
  <2> QED
    BY <2>5 DEF a, b, n, q
<1>3. RecentlyScheduled'
  <2> SUFFICES ASSUME NEW i \in 1 .. MaxMasterSlotsBetweenAcks,
                      s.recentScheduledNodes[i] \in Nodes
               PROVE  since'[s.recentScheduledNodes[i]] + Ahead'
                        <= 4 * (MaxMasterSlotsBetweenAcks - i) + 3
    BY DEF RecentlyScheduled
  <2>1. since[s.recentScheduledNodes[i]] + Ahead <= 4 * (MaxMasterSlotsBetweenAcks - i) + 3
    BY DEF ServiceInv, RecentlyScheduled
  <2> DEFINE n == s.recentScheduledNodes[i]
             b == 4 * (MaxMasterSlotsBetweenAcks - i) + 3
             a1 == Ahead
             a2 == Ahead'
  <2>2. b \in Nat /\ n \in Nodes
    BY ConstantFacts
  <2>3. since[n] \in Nat /\ since'[n] \in Nat /\ since'[n] <= since[n] + 1
    BY <2>2
  <2>4. a1 \in Nat /\ a2 \in Nat /\ a2 + 1 <= a1 /\ since[n] + a1 <= b
    BY <1>1, <2>1
  <2> HIDE DEF b, n, a1, a2
  <2>5. since'[n] + a2 <= b
    BY <2>2, <2>3, <2>4
  <2> QED
    BY <2>5 DEF b, n, a2
<1> QED
  BY <1>2, <1>3

(* A node that is passed over has waited for less than one turn. *)
LEMMA PassedOver ==
  ASSUME Good(s), ServiceInv, NEW n \in Nodes, since[n] \in Nat, nodeRecentlySent(s, n)
  PROVE  since[n] + 1 <= Turn
<1>1. PICK i \in 1 .. MaxMasterSlotsBetweenAcks - 1 : s.recentScheduledNodes[i] = n
  BY DEF nodeRecentlySent
<1>2. i \in 1 .. MaxMasterSlotsBetweenAcks
  BY <1>1, ConstantFacts
<1>3. since[n] + Ahead <= 4 * (MaxMasterSlotsBetweenAcks - i) + 3
  BY <1>1, <1>2 DEF ServiceInv, RecentlyScheduled
<1>4. Ahead \in 0 .. 3
  BY AheadType
<1> HIDE DEF Ahead
<1> QED
  BY <1>2, <1>3, <1>4, ConstantFacts DEF Turn

(* A slot that scheduleNextAllocatedNode fills: the service is one slot    *)
(* nearer for everyone; or a node is serviced, which gets the slot or had  *)
(* a recent one, and the turn of every other node is nearer.               *)
LEMMA AllocatedSlotWait ==
  ASSUME Good(s), Good(s'), ServiceInv, ~MasterDue, s.countTillNextAllocation # 0,
         NEW r \in Founds, NEW x, r.node # Invalid => x = r.node,
         Kept(s, r.s), r.s.countTillNextService # 0,
         \/ SameService(s, r.s)
         \/ numNodes(s.activeNodes) = 0
         \/ /\ r.s.countTillNextService = MaxSlotsBetweenServicing
            /\ ServicedOne(s, r.s, r.node) \/ ServicedTwo(s, r.s, r.node),
         s'.activeNodes = r.s.activeNodes,
         s'.countTillNextService = r.s.countTillNextService - 1,
         s'.recentScheduledNodes[MaxMasterSlotsBetweenAcks] = r.node,
         \A i \in 1 .. MaxMasterSlotsBetweenAcks - 1 :
           s'.recentScheduledNodes[i] = s.recentScheduledNodes[i + 1],
         \A n \in Nodes : /\ since[n] \in Nat /\ since'[n] \in Nat
                          /\ since'[n] <= since[n] + 1
                          /\ n = x => since'[n] = 0
  PROVE  WaitBounded' /\ RecentlyScheduled'
<1> DEFINE u == UntilService
           v == UntilService'
           S == MaxSlotsBetweenServicing
           q == s.activeNodes
           p == s'.activeNodes
           b == Turn * MaxNodes
<1>1. Ahead = 0
  BY DEF Ahead
<1>2. Ahead' \in 0 .. 3 /\ v = 4 * s'.countTillNextService + Ahead' /\ v \in Nat
  BY AheadTypeNext
<1>3. u = 4 * s.countTillNextService /\ u \in Nat
  <2>1. u = 4 * s.countTillNextService + Ahead /\ s.countTillNextService \in Nat
    BY AheadType
  <2> HIDE DEF u
  <2> QED
    BY <1>1, <2>1
<1>4. /\ q \in Queues /\ QueueOK(q) /\ p \in Queues /\ QueueOK(p)
      /\ p.nodeIds = q.nodeIds /\ numNodes(p) = numNodes(q)
  BY FieldTypes DEF Good, Kept, numNodes
<1>5. WaitBounded'
  <2> SUFFICES ASSUME NEW j \in 1 .. numNodes(q)
               PROVE  since'[q.nodeIds[j]] + v + 1 + Turn * TurnsBefore(p, j) <= b
    BY <1>4 DEF WaitBounded, TurnsBefore
  <2> DEFINE n == q.nodeIds[j]
             a == Turn * TurnsBefore(q, j)
             c == Turn * TurnsBefore(p, j)
  <2>1. /\ a \in Nat /\ b \in Nat /\ c \in Nat /\ Turn \in Nat
        /\ a + Turn + Turn <= b /\ c + Turn + Turn <= b
    BY <1>4, RoomForTurns
  <2>2. n \in Nodes
    BY <1>4 DEF Queues, numNodes
  <2>3. since[n] + u + 1 + a <= b
    BY DEF ServiceInv, WaitBounded
  <2>4. /\ since[n] \in Nat /\ since'[n] \in Nat /\ since'[n] <= since[n] + 1
        /\ n = x => since'[n] = 0
    <3> HIDE DEF n
    <3> QED
      BY <2>2, Zenon
  <2>5. CASE SameService(s, r.s)
    <3>1. c = a /\ s'.countTillNextService = s.countTillNextService - 1
      BY <2>5 DEF SameService
    <3>2. s.countTillNextService \in Nat
      BY AheadType
    <3> HIDE DEF u, v, a, b, c, n
    <3>3. v + 1 <= u
      BY <1>2, <1>3, <3>1, <3>2
    <3>4. since'[n] + v + 1 + c <= b
      BY <1>2, <1>3, <2>1, <2>3, <2>4, <3>1, <3>3
    <3> QED
      BY <3>4 DEF n, c
  <2>6. CASE numNodes(q) = 0
    BY <2>6
  <2>7. CASE /\ r.s.countTillNextService = S
             /\ ServicedOne(s, r.s, r.node) \/ ServicedTwo(s, r.s, r.node)
    <3> DEFINE q1 == getNextNodesInQueue(q, 1)
               q2 == getNextNodesInQueue(q1, 1)
    <3>1. v + 1 <= Turn
      <4>1. s'.countTillNextService = S - 1
        BY <2>7
      <4> HIDE DEF v
      <4> QED
        BY <1>2, <4>1, ConstantFacts DEF Turn
    <3>2. /\ q1 \in Queues /\ QueueOK(q1) /\ q1.nodeIds = q.nodeIds /\ numNodes(q1) = numNodes(q)
          /\ n = Serviced(s) \/ Turn * TurnsBefore(q1, j) + Turn <= a
      BY <1>4, TurnTaken DEF Serviced
    <3> HIDE DEF q1
    <3>3. n = NodeAfter(q1, 0) \/ Turn * TurnsBefore(q2, j) + Turn <= Turn * TurnsBefore(q1, j)
      BY <3>2, TurnTaken
    <3> HIDE DEF q2
    <3>4. since'[n] <= Turn \/ c + Turn <= a
      <4>1. n = x => since'[n] <= Turn
        BY <2>1, <2>4
      <4>2. nodeRecentlySent(s, n) => since'[n] <= Turn
        <5> SUFFICES ASSUME nodeRecentlySent(s, n) PROVE since'[n] <= Turn
          OBVIOUS
        <5>1. since[n] + 1 <= Turn
          BY <2>2, <2>4, PassedOver
        <5> HIDE DEF n
        <5> QED
          BY <2>1, <2>4, <5>1
      <4>3. n # Invalid
        BY <2>2, ConstantFacts
      <4>4. CASE ServicedOne(s, r.s, r.node)
        <5>1. p = q1
          BY <4>4 DEF ServicedOne, q1
        <5>2. n = Serviced(s) => n = x \/ nodeRecentlySent(s, n)
          BY <4>3, <4>4 DEF ServicedOne
        <5> QED
          BY <3>2, <4>1, <4>2, <5>1, <5>2
      <4>5. CASE ServicedTwo(s, r.s, r.node)
        <5>1. p = q2
          BY <4>5 DEF ServicedTwo, q1, q2
        <5>2. n = Serviced(s) => nodeRecentlySent(s, n)
          BY <4>5 DEF ServicedTwo
        <5>3. n = NodeAfter(q1, 0) => n = x
          BY <4>3, <4>5 DEF ServicedTwo, q1
        <5> DEFINE c1 == Turn * TurnsBefore(q1, j)
        <5>4. CASE c1 + Turn <= a /\ c + Turn <= c1
          <6>1. c1 \in Nat
            BY <3>2, RoomForTurns
          <6> HIDE DEF c1, c, a, n
          <6> QED
            BY <2>1, <5>4, <6>1
        <5> QED
          BY <3>2, <3>3, <4>1, <4>2, <5>1, <5>2, <5>3, <5>4
      <4> QED
        BY <2>7, <4>4, <4>5
    <3> HIDE DEF u, v, a, b, c, n
    <3>5. since'[n] + v + 1 + c <= b
      BY <1>2, <1>3, <2>1, <2>3, <2>4, <3>1, <3>4
    <3> QED
      BY <3>5 DEF n, c
  <2> QED
    BY <2>5, <2>6, <2>7
<1>6. RecentlyScheduled'
  <2> DEFINE M == MaxMasterSlotsBetweenAcks
             a == Ahead'
  <2> SUFFICES ASSUME NEW i \in 1 .. M, s'.recentScheduledNodes[i] \in Nodes
               PROVE  since'[s'.recentScheduledNodes[i]] + a <= 4 * (M - i) + 3
    BY DEF RecentlyScheduled
  <2> DEFINE n == s'.recentScheduledNodes[i]
  <2>1. /\ n \in Nodes /\ since[n] \in Nat /\ since'[n] \in Nat /\ since'[n] <= since[n] + 1
        /\ n = x => since'[n] = 0
    <3>1. n \in Nodes
      OBVIOUS
    <3> HIDE DEF n
    <3> QED
      BY <3>1, Zenon
  <2>2. a \in 0 .. 3 /\ M \in Nat /\ i \in Nat /\ i <= M /\ 1 <= i
    BY <1>2, ConstantFacts
  <2>3. CASE i = M
    <3>1. n = x
      BY <2>1, <2>3, ConstantFacts
    <3> HIDE DEF n, a, M
    <3>2. since'[n] + a <= 4 * (M - i) + 3
      BY <2>1, <2>2, <2>3, <3>1
    <3> QED
      BY <3>2 DEF n
  <2>4. CASE i # M
    <3>1. i + 1 \in 1 .. M /\ i \in 1 .. M - 1
      BY <2>2, <2>4
    <3>2. n = s.recentScheduledNodes[i + 1]
      BY <3>1
    <3>3. since[n] + Ahead <= 4 * (M - (i + 1)) + 3
      BY <2>1, <3>1, <3>2 DEF ServiceInv, RecentlyScheduled
    <3>4. since[n] + 0 <= 4 * (M - (i + 1)) + 3
      BY <1>1, <3>3
    <3> HIDE DEF n, a, M
    <3>5. since'[n] + a <= 4 * (M - i) + 3
      BY <2>1, <2>2, <3>4
    <3> QED
      BY <3>5 DEF n
  <2> QED
    BY <2>3, <2>4
<1> QED
  BY <1>5, <1>6

LEMMA SlotInductive ==
  ASSUME Inductive, NEW level \in 0 .. MaxBufferLevel, Slot(level)
  PROVE  Inductive'
<1>1. PICK x :
        /\ nodesToTx' = Append(Tail(nodesToTx), x)
        /\ \/ MasterDue /\ s' = s /\ x = Master
           \/ /\ ~MasterDue /\ s.countTillNextAllocation = 0
              /\ s' = scheduleUnallocatedSlot(AdaptGap(s)).s /\ x = Unallocated
           \/ /\ ~MasterDue /\ s.countTillNextAllocation # 0
              /\ \E left : LET r == RecordAllocated(scheduleNextAllocatedNode(s, left))
                           IN  s' = r.s /\ x = r.node
  BY SlotCases
<1>2. Good(s) /\ ServiceInv
  BY InductiveGood DEF Inductive
<1> DEFINE Parts == /\ TypeOK' /\ NoAssertionFails' /\ QueuesDistinct'
                    /\ MasterAlwaysScheduled' /\ LevelsRecorded' /\ OnlyActiveWait'
           Waits == \A n \in Nodes : /\ since[n] \in Nat /\ since'[n] \in Nat
                                     /\ since'[n] <= since[n] + 1
                                     /\ n = x => since'[n] = 0
<1>3. CASE MasterDue /\ s' = s /\ x = Master
  <2>1. Good(s')
    BY <1>2, <1>3
  <2>2. Parts /\ Waits /\ ~MasterDue'
    BY <1>1, <1>3, <2>1, SlotSchedulePart
  <2>3. Ahead' + 1 <= Ahead
    BY <1>3, <2>2 DEF Ahead
  <2>4. WaitBounded' /\ RecentlyScheduled'
    BY <1>2, <1>3, <2>1, <2>2, <2>3, OtherSlotWait
  <2> QED
    BY <2>2, <2>4 DEF Inductive, ServiceInv
<1>4. CASE /\ ~MasterDue /\ s.countTillNextAllocation = 0
           /\ s' = scheduleUnallocatedSlot(AdaptGap(s)).s /\ x = Unallocated
  <2>1. /\ Good(s') /\ SameService(s, s')
        /\ s'.numTxNodesScheduled = s.numTxNodesScheduled
        /\ s'.recentScheduledNodes = s.recentScheduledNodes
        /\ s'.nodeTxBufferLevel = s.nodeTxBufferLevel
        /\ s'.nodeTxNodes = s.nodeTxNodes
        /\ s'.countTillNextAllocation # 0
    BY <1>2, <1>4, UnallocatedFacts
  <2>2. s'.activeNodes = s.activeNodes /\ s'.countTillNextService = s.countTillNextService
    BY <2>1 DEF SameService
  <2>3. Parts /\ Waits
    BY <1>1, <1>4, <2>1, <2>2, SlotSchedulePart
  <2>4. Ahead' + 1 <= Ahead
    BY <1>4, <2>1 DEF Ahead
  <2>5. WaitBounded' /\ RecentlyScheduled'
    BY <1>2, <2>1, <2>2, <2>3, <2>4, OtherSlotWait
  <2> QED
    BY <2>3, <2>5 DEF Inductive, ServiceInv
<1>5. CASE /\ ~MasterDue /\ s.countTillNextAllocation # 0
           /\ \E left : LET r == RecordAllocated(scheduleNextAllocatedNode(s, left))
                        IN  s' = r.s /\ x = r.node
  <2>1. PICK left : /\ s' = RecordAllocated(scheduleNextAllocatedNode(s, left)).s
                    /\ x = RecordAllocated(scheduleNextAllocatedNode(s, left)).node
    BY <1>5
  <2> DEFINE r == scheduleNextAllocatedNode(s, left)
  <2>2. /\ r \in Founds /\ Good(r.s) /\ Kept(s, r.s)
        /\ r.s.countTillNextService # 0
        /\ \/ SameService(s, r.s)
           \/ numNodes(s.activeNodes) = 0
           \/ /\ r.s.countTillNextService = MaxSlotsBetweenServicing
              /\ ServicedOne(s, r.s, r.node) \/ ServicedTwo(s, r.s, r.node)
    BY <1>2, AllocatedFacts
  <2>3. s' = RecordAllocated(r).s /\ x = RecordAllocated(r).node
    BY <2>1
  <2> HIDE DEF r
  <2>4. r.s.countTillNextAllocation # 0
    BY <1>5, <2>2 DEF Kept
  <2>5. /\ Good(s')
        /\ x = IF r.node = Invalid THEN Unallocated ELSE r.node
        /\ s'.countTillNextService = r.s.countTillNextService - 1
        /\ s'.recentScheduledNodes[MaxMasterSlotsBetweenAcks] = r.node
        /\ \A i \in 1 .. MaxMasterSlotsBetweenAcks - 1 :
             s'.recentScheduledNodes[i] = r.s.recentScheduledNodes[i + 1]
        /\ s'.numTxNodesScheduled = r.s.numTxNodesScheduled
        /\ s'.nodeTxBufferLevel = r.s.nodeTxBufferLevel
        /\ s'.activeNodes = r.s.activeNodes
        /\ s'.nodeTxNodes = r.s.nodeTxNodes
    BY <2>2, <2>3, <2>4, RecordFacts
  <2>6. /\ s'.numTxNodesScheduled = s.numTxNodesScheduled
        /\ s'.nodeTxBufferLevel = s.nodeTxBufferLevel
        /\ s'.nodeTxNodes.nodeIds = s.nodeTxNodes.nodeIds
        /\ s'.activeNodes.nodeIds = s.activeNodes.nodeIds
        /\ \A i \in 1 .. MaxMasterSlotsBetweenAcks - 1 :
             s'.recentScheduledNodes[i] = s.recentScheduledNodes[i + 1]
    BY <2>2, <2>5 DEF Kept
  <2>7. x \in Nodes \cup {Master, Unallocated} /\ (r.node # Invalid => x = r.node)
    BY <2>2, <2>5 DEF Founds
  <2>8. Parts /\ Waits
    BY <1>1, <1>5, <2>5, <2>6, <2>7, SlotSchedulePart
  <2>9. WaitBounded' /\ RecentlyScheduled'
    BY <1>2, <1>5, <2>2, <2>5, <2>6, <2>7, <2>8, AllocatedSlotWait
  <2> QED
    BY <2>8, <2>9 DEF Inductive, ServiceInv
<1> QED
  BY <1>1, <1>3, <1>4, <1>5

(***************************************************************************)
(* The theorems                                                            *)
(***************************************************************************)
(* Inductive is an invariant: initially, and in every step of the handlers *)
(* and the application.                                                    *)
THEOREM InductiveInvariant == Spec => []Inductive
<1>1. Inductive /\ [Next]_vars => Inductive'
  <2> SUFFICES ASSUME Inductive, [Next]_vars PROVE Inductive'
    OBVIOUS
  <2>1. ASSUME NEW level \in 0 .. MaxBufferLevel, Slot(level) PROVE Inductive'
    BY <2>1, SlotInductive
  <2>2. ASSUME NEW n \in Nodes, NEW emptied \in BOOLEAN, NEW isData \in BOOLEAN,
               NEW level \in 1 .. MaxBufferLevel, RxPacket(n, emptied, isData, level)
        PROVE  Inductive'
    BY <2>2, RxPacketInductive
  <2>3. ASSUME NEW n \in Nodes, SubmitTxPacket(n) PROVE Inductive'
    BY <2>3, SubmitInductive
  <2>4. ASSUME NEW n \in Nodes, RemoveNode(n) PROVE Inductive'
    BY <2>4, RemoveInductive
  <2>5. ASSUME NEW id \in Nodes \cup {Invalid}, RxNewNodeRequest(id) PROVE Inductive'
    BY <2>5, RxNewNodeRequestInductive
  <2>6. CASE UNCHANGED vars
    BY <2>6 DEF vars, Inductive, TypeOK, NoAssertionFails, QueuesDistinct, MasterAlwaysScheduled,
                LevelsRecorded, ServiceInv, WaitBounded, RecentlyScheduled, OnlyActiveWait, Active,
                UntilService, Ahead, MasterDue
  <2> QED
    BY <2>1, <2>2, <2>3, <2>4, <2>5, <2>6 DEF Next
<1> QED
  BY <1>1, InitInductive, PTL DEF Spec

(* Every variable and field keeps its type, and every round robin position *)
(* stays inside its queue, whichever nodes are removed from it.            *)
THEOREM TypeCorrect == Spec => []TypeOK
<1>1. Inductive => TypeOK
  BY DEF Inductive
<1> QED
  BY <1>1, InductiveInvariant, PTL

(* No assertion of the scheduler and of nodeQueueAdd ever fails. *)
THEOREM AssertionsHold == Spec => []NoAssertionFails
<1>1. Inductive => NoAssertionFails
  BY DEF Inductive
<1> QED
  BY <1>1, InductiveInvariant, PTL

(* In a channel that master and nodes share, the schedule always holds a   *)
(* slot of the master's.                                                   *)
THEOREM MasterKeepsSlot == Spec => []MasterAlwaysScheduled
<1>1. Inductive => MasterAlwaysScheduled
  BY DEF Inductive
<1> QED
  BY <1>1, InductiveInvariant, PTL

(* A connected node that never left and has reported packets is in         *)
(* nodeTxNodes.                                                            *)
THEOREM BackloggedStayQueued == Spec => []BackloggedQueuedUnlessRejoined
<1>1. Inductive => BackloggedQueuedUnlessRejoined
  BY DEF Inductive, LevelsRecorded, BackloggedQueuedUnlessRejoined
<1> QED
  BY <1>1, InductiveInvariant, PTL

(* NODE_TIMEOUT_US is long enough: every connected node is put in the      *)
(* schedule in time, for every number of nodes and length of the schedule  *)
(* and whatever else competes for the slots.                               *)
THEOREM ServicedBeforeTimeout == Spec => []ServicedInTime
<1>1. Inductive => ServicedInTime
  <2> SUFFICES ASSUME Inductive, NEW n \in Nodes PROVE since[n] <= Turn * MaxNodes
    BY DEF ServicedInTime, Turn
  <2>1. Good(s) /\ s.activeNodes \in Queues /\ QueueOK(s.activeNodes) /\ since[n] \in Nat
    BY InductiveGood, FieldTypes DEF Good, Inductive, TypeOK
  <2>2. CASE Active(n)
    <3>1. PICK j \in 1 .. numNodes(s.activeNodes) : s.activeNodes.nodeIds[j] = n
      BY <2>2 DEF Active, Contains, numNodes
    <3> DEFINE a == Turn * TurnsBefore(s.activeNodes, j)
               b == Turn * MaxNodes
    <3>2. since[n] + UntilService + 1 + a <= b
      BY <3>1 DEF Inductive, ServiceInv, WaitBounded
    <3>3. a \in Nat /\ b \in Nat /\ UntilService \in Nat
      BY <2>1, RoomForTurns, AheadType
    <3> HIDE DEF a, b, UntilService
    <3>4. since[n] <= b
      BY <2>1, <3>2, <3>3
    <3> QED
      BY <3>4 DEF b
  <2>3. CASE ~Active(n)
    <3>1. since[n] = 0
      BY <2>3 DEF Inductive, ServiceInv, OnlyActiveWait
    <3>2. Turn * MaxNodes \in Nat
      BY ConstantFacts DEF Turn
    <3> QED
      BY <3>1, <3>2
  <2> QED
    BY <2>2, <2>3
<1> QED
  BY <1>1, InductiveInvariant, PTL
=============================================================================
