-------------------------- MODULE SchedulerLemmas --------------------------
(***************************************************************************)
(* Facts about the operators of Scheduler, for every set of nodes, length  *)
(* of the schedule, buffer levels and setting of the countdowns that       *)
(* satisfy the assumption of Scheduler.  SlotScheduleProofs and            *)
(* MembershipProofs rest on them.                                          *)
(***************************************************************************)
EXTENDS Scheduler, NodeQueueLemmas

(* The scheduler, with a schedule of any length and any buffer levels. *)
SchedulerStates == Schedulers(Nat \ {0}, Nat)

(* The constants, as numbers. *)
LEMMA ConstantFacts ==
  /\ MaxMasterSlotsBetweenAcks \in Nat \ {0}
  /\ MaxSlotsBetweenServicing \in Nat \ {0}
  /\ MaxMasterSlotsBetweenAcks <= MaxSlotsBetweenServicing
  /\ MinSlotsBetweenUnallocated \in Nat /\ MaxSlotsBetweenUnallocated \in Nat
  /\ 2 <= MinSlotsBetweenUnallocated
  /\ MinSlotsBetweenUnallocated <= MaxSlotsBetweenUnallocated
  /\ MaxSlotsBetweenUnallocated < ByteSize
  /\ ByteSize \in Nat \ {0}
  /\ IsFiniteSet(Nodes) /\ Cardinality(Nodes) \in Nat
  /\ MaxNodes \in Nat /\ Cardinality(Nodes) < MaxNodes
  /\ Master \notin Nodes /\ Unallocated \notin Nodes /\ Invalid \notin Nodes
<1>1. IsFiniteSet(Nodes) /\ Cardinality(Nodes) \in Nat
  BY SchedulerAssumption, FS_CardinalityType
<1>2. Master \notin Nodes /\ Unallocated \notin Nodes /\ Invalid \notin Nodes
  BY SchedulerAssumption
<1>3. ByteSize \in Nat /\ MaxSlotsBetweenServicing \in 1 .. ByteSize - 1
  BY SchedulerAssumption
<1>4. /\ MaxSlotsBetweenServicing \in Nat \ {0} /\ ByteSize \in Nat \ {0}
      /\ MaxMasterSlotsBetweenAcks \in Nat \ {0}
      /\ MaxMasterSlotsBetweenAcks <= MaxSlotsBetweenServicing
  BY <1>3, SchedulerAssumption
<1>5. MaxNodes \in Nat /\ Cardinality(Nodes) < MaxNodes
  BY SchedulerAssumption
<1>6. /\ MinSlotsBetweenUnallocated \in 2 .. MaxSlotsBetweenUnallocated
      /\ 2 * (MaxSlotsBetweenUnallocated - 1) < ByteSize
  BY SchedulerAssumption
<1>7. MaxSlotsBetweenUnallocated \in Nat
  BY SchedulerAssumption
<1>8. /\ MinSlotsBetweenUnallocated \in Nat
      /\ 2 <= MinSlotsBetweenUnallocated
      /\ MinSlotsBetweenUnallocated <= MaxSlotsBetweenUnallocated
      /\ MaxSlotsBetweenUnallocated < ByteSize
  BY <1>3, <1>6, <1>7
<1> QED
  BY <1>1, <1>2, <1>4, <1>5, <1>7, <1>8

(***************************************************************************)
(* The queues                                                              *)
(***************************************************************************)
(* A queue of nodes that has no duplicates is never full: nodeQueueAdd's   *)
(* assertion holds.                                                        *)
LEMMA NeverQueueFull ==
  ASSUME NEW q \in Queues, Distinct(q)
  PROVE  /\ numNodes(q) \in Nat
         /\ numNodes(q) <= Cardinality(Nodes)
         /\ ~QueueFull(q)
<1> DEFINE ids == q.nodeIds
           n == Len(ids)
<1>1. ids \in Seq(Nodes) /\ n \in Nat /\ ids \in [1 .. n -> Nodes]
  BY LenProperties DEF Queues
<1>2. \A j, k \in 1 .. n : ids[j] = ids[k] => j = k
  BY DEF Distinct, numNodes
<1> HIDE DEF n, ids
<1>3. n <= Cardinality(Nodes)
  BY <1>1, <1>2, ConstantFacts, Pigeonhole
<1> QED
  BY <1>1, <1>3, ConstantFacts DEF QueueFull, numNodes, n, ids

(* nodeQueueAdd keeps a queue's type, position and distinctness. *)
LEMMA AddFacts ==
  ASSUME NEW q \in Queues, PositionOK(q), Distinct(q), NEW n \in Nodes
  PROVE  LET r == nodeQueueAdd(q, n)
         IN  /\ r \in Queues /\ PositionOK(r) /\ Distinct(r)
             /\ r.lastIndex = q.lastIndex
             /\ \A m : Contains(r.nodeIds, m) <=> Contains(q.nodeIds, m) \/ m = n
<1> DEFINE ids == q.nodeIds
<1>1. CASE Contains(ids, n)
  BY <1>1 DEF nodeQueueAdd
<1>2. CASE ~Contains(ids, n)
  <2> DEFINE r == nodeQueueAdd(q, n)
  <2>1. ids \in Seq(Nodes) /\ q.lastIndex \in Nat
    BY DEF Queues
  <2>2. /\ r \in Queues
        /\ r.nodeIds = Append(ids, n)
        /\ r.lastIndex = q.lastIndex
    BY <1>2 DEF nodeQueueAdd, Queues
  <2>3. \A j, k \in 1 .. Len(ids) : ids[j] = ids[k] => j = k
    BY DEF Distinct, numNodes
  <2>4. /\ \A m : Contains(Append(ids, n), m) <=> Contains(ids, m) \/ m = n
        /\ \A j, k \in 1 .. Len(Append(ids, n)) : Append(ids, n)[j] = Append(ids, n)[k] => j = k
    BY <1>2, <2>1, <2>3, AppendDistinct
  <2>5. Distinct(r)
    BY <2>2, <2>4 DEF Distinct, numNodes
  <2>6. PositionOK(r)
    <3>1. Len(Append(ids, n)) = Len(ids) + 1 /\ Len(ids) \in Nat
      BY <2>1
    <3> QED
      BY <2>1, <2>2, <3>1 DEF PositionOK, numNodes
  <2> QED
    BY <2>2, <2>4, <2>5, <2>6
<1> QED
  BY <1>1, <1>2

(* nodeQueueRemoveIfExists keeps a queue's type and distinctness, and the  *)
(* position inside the queue.                                              *)
LEMMA RemoveFacts ==
  ASSUME NEW q \in Queues, PositionOK(q), Distinct(q), NEW n
  PROVE  LET r == nodeQueueRemoveIfExists(q, n)
         IN  /\ r \in Queues /\ PositionOK(r) /\ Distinct(r)
             /\ \A m : Contains(r.nodeIds, m) <=> Contains(q.nodeIds, m) /\ m # n
<1> DEFINE r == nodeQueueRemoveIfExists(q, n)
<1>1. q \in [nodeIds : Seq(Nodes), lastIndex : Nat]
  BY DEF Queues
<1>2. \A j, k \in 1 .. numNodes(q) : q.nodeIds[j] = q.nodeIds[k] => j = k
  BY DEF Distinct
<1>3. /\ r \in [nodeIds : Seq(Nodes), lastIndex : Nat]
      /\ r.lastIndex = 0 \/ r.lastIndex < numNodes(r) \/ r = q
      /\ \A j, k \in 1 .. numNodes(r) : r.nodeIds[j] = r.nodeIds[k] => j = k
      /\ \A x : Contains(r.nodeIds, x) <=> Contains(q.nodeIds, x) /\ x # n
  BY <1>1, <1>2, nodeQueueRemoveFacts
<1> HIDE DEF r
<1>4. r \in Queues /\ Distinct(r) /\ PositionOK(r)
  BY <1>3 DEF Queues, Distinct, PositionOK
<1> QED
  BY <1>3, <1>4 DEF r

(* nodeQueueRemoveEach does the same for several IDs. *)
LEMMA RemoveEachFacts ==
  ASSUME NEW q \in Queues, QueueOK(q), NEW ids
  PROVE  LET r == nodeQueueRemoveEach(q, ids)
         IN  /\ r \in Queues /\ QueueOK(r)
             /\ \A x : Contains(r.nodeIds, x) <=> Contains(q.nodeIds, x) /\ x \notin ids
<1> DEFINE s    == q.nodeIds
           left == LeftByRemovals(s, ids)
           e    == EntriesAt(s, left)
           r    == nodeQueueRemoveEach(q, ids)
<1>1. s \in Seq(Nodes) /\ q.lastIndex \in Nat /\ Len(s) \in Nat /\ DOMAIN s = 1 .. Len(s)
  BY DEF Queues
<1>2. /\ \A j, k \in 1 .. Len(s) : s[j] = s[k] => j = k
      /\ \A x : Contains(s, x) <=> \E k \in 1 .. Len(s) : s[k] = x
  BY DEF QueueOK, Distinct, numNodes, Contains
<1>3. left \in SUBSET DOMAIN s /\ \A k \in 1 .. Len(s) : k \in left <=> s[k] \notin ids
  <2> HIDE DEF s
  <2>1. ASSUME NEW k \in 1 .. Len(s), NEW j \in 1 .. k - 1 PROVE s[j] # s[k]
    <3>1. j \in 1 .. Len(s) /\ j # k
      BY <1>1
    <3> QED
      BY <1>2, <3>1
  <2> QED
    BY <1>1, <2>1 DEF LeftByRemovals
<1>4. CASE left = DOMAIN s
  <2>1. r = q
    BY <1>4 DEF nodeQueueRemoveEach
  <2>2. \A k \in 1 .. Len(s) : s[k] \notin ids
    BY <1>1, <1>3, <1>4
  <2> QED
    BY <1>2, <2>1, <2>2
<1>5. CASE left # DOMAIN s
  <2> HIDE DEF s, left
  <2>1. /\ e \in Seq(Nodes) /\ Len(e) = Cardinality(left) /\ Len(e) \in Nat
        /\ \E at : Picks(e, s, left, at)
    BY <1>1, <1>3, EntriesAtFacts
  <2>2. PICK at : Picks(e, s, left, at)
    BY <2>1
  <2> HIDE DEF e
  <2>3. /\ \A k \in 1 .. Len(e) : at[k] \in left /\ at[k] \in 1 .. Len(s) /\ e[k] = s[at[k]]
        /\ \A j, k \in 1 .. Len(e) : at[j] = at[k] => j = k
        /\ \A i \in left : \E k \in 1 .. Len(e) : at[k] = i
    BY <1>1, <1>3, <2>2 DEF Picks
  <2>4. \A j, k \in 1 .. Len(e) : e[j] = e[k] => j = k
    <3> SUFFICES ASSUME NEW j \in 1 .. Len(e), NEW k \in 1 .. Len(e), e[j] = e[k] PROVE j = k
      OBVIOUS
    <3>1. /\ at[j] \in 1 .. Len(s) /\ e[j] = s[at[j]]
          /\ at[k] \in 1 .. Len(s) /\ e[k] = s[at[k]]
      BY <2>3
    <3>2. at[j] = at[k]
      BY <1>2, <3>1
    <3> QED
      BY <2>3, <3>2
  <2>5. ASSUME NEW x PROVE Contains(e, x) <=> Contains(s, x) /\ x \notin ids
    <3>1. ASSUME NEW k \in 1 .. Len(e), e[k] = x PROVE Contains(s, x) /\ x \notin ids
      BY <1>2, <1>3, <2>3, <3>1
    <3>2. ASSUME NEW i \in 1 .. Len(s), s[i] = x, x \notin ids
          PROVE  \E k \in 1 .. Len(e) : e[k] = x
      <4>1. i \in left
        BY <1>3, <3>2
      <4>2. PICK k \in 1 .. Len(e) : at[k] = i
        BY <2>3, <4>1
      <4> QED
        BY <2>3, <3>2, <4>2
    <3>3. Contains(e, x) <=> \E k \in 1 .. Len(e) : e[k] = x
      BY DEF Contains
    <3> QED
      BY <1>2, <3>1, <3>2, <3>3
  <2> DEFINE last == IF q.lastIndex >= Cardinality(left) THEN 0 ELSE q.lastIndex
  <2>6. r = [nodeIds |-> e, lastIndex |-> last]
    BY <1>5 DEF nodeQueueRemoveEach, e, left, s
  <2>7. last \in Nat /\ (last = 0 \/ last < Len(e))
    BY <1>1, <2>1
  <2> HIDE DEF last, r
  <2>8. r.nodeIds = e /\ r.lastIndex = last /\ r \in Queues
    BY <2>1, <2>6, <2>7 DEF Queues
  <2>9. QueueOK(r)
    BY <2>4, <2>7, <2>8 DEF QueueOK, PositionOK, Distinct, numNodes
  <2> QED
    BY <2>5, <2>8, <2>9 DEF r, s
<1> QED
  BY <1>4, <1>5

(***************************************************************************)
(* The turns of scheduleNextAllocatedNode                                  *)
(***************************************************************************)
(* A scheduler between two of its operations. *)
Good(t) ==
  /\ t \in SchedulerStates
  /\ ~t.fault
  /\ QueueOK(t.activeNodes) /\ QueueOK(t.activeTxNodes) /\ QueueOK(t.nodeTxNodes)

(* What no turn and no service changes. *)
Kept(t, u) ==
  /\ u.numTxNodesScheduled = t.numTxNodesScheduled
  /\ u.countTillNextAllocation = t.countTillNextAllocation
  /\ u.recentScheduledNodes = t.recentScheduledNodes
  /\ u.nodeTxBufferLevel = t.nodeTxBufferLevel
  /\ u.activeNodes.nodeIds = t.activeNodes.nodeIds
  /\ u.nodeTxNodes.nodeIds = t.nodeTxNodes.nodeIds

(* What no turn changes of the service. *)
SameService(t, u) ==
  /\ u.activeNodes = t.activeNodes
  /\ u.countTillNextService = t.countTillNextService

(* The fields of a scheduler have their types. *)
LEMMA FieldTypes ==
  ASSUME NEW t \in SchedulerStates
  PROVE  /\ t.numTxNodesScheduled \in Nat \ {0}
         /\ t.unallocatedSlotGap \in MinSlotsBetweenUnallocated .. MaxSlotsBetweenUnallocated
         /\ t.countTillNextAllocation \in 0 .. ByteSize - 1
         /\ t.unallocatedSlotGapUpdateCount \in 0 .. ByteSize - 1
         /\ t.countTillNextService \in 0 .. MaxSlotsBetweenServicing
         /\ t.nextTurn \in Turns
         /\ t.recentScheduledNodes \in
              [1 .. MaxMasterSlotsBetweenAcks -> Nodes \cup {Master, Invalid}]
         /\ t.nodeTxBufferLevel \in [Nodes -> Nat]
         /\ t.activeNodes \in Queues /\ t.activeTxNodes \in Queues /\ t.nodeTxNodes \in Queues
         /\ t.fault \in BOOLEAN
BY ConstantFacts DEF SchedulerStates, Schedulers

(* Moving a queue's position on keeps it a queue of the same nodes. *)
LEMMA NextFacts ==
  ASSUME NEW q \in Queues, QueueOK(q), numNodes(q) > 0, NEW k \in Nat
  PROVE  LET r == getNextNodesInQueue(q, k)
         IN  /\ r \in Queues /\ QueueOK(r)
             /\ r.nodeIds = q.nodeIds
             /\ r.lastIndex = (q.lastIndex + k) % numNodes(q)
<1> DEFINE r == getNextNodesInQueue(q, k)
<1>1. /\ r \in [nodeIds : Seq(Nodes), lastIndex : Nat]
      /\ r.nodeIds = q.nodeIds
      /\ r.lastIndex = (q.lastIndex + k) % numNodes(q)
      /\ r.lastIndex < numNodes(r)
  BY getNextNodesFacts DEF Queues
<1> HIDE DEF r
<1>2. r \in Queues /\ QueueOK(r)
  BY <1>1 DEF Queues, QueueOK, PositionOK, Distinct, numNodes
<1> QED
  BY <1>1, <1>2 DEF r

(* The node in turn is a node. *)
LEMMA InTurn ==
  ASSUME NEW q \in Queues, PositionOK(q), NEW k \in Nat, k < numNodes(q)
  PROVE  /\ NodeAfter(q, k) \in Nodes
         /\ q.lastIndex < numNodes(q)
         /\ NodeAfter(q, 0) = q.nodeIds[q.lastIndex + 1]
         /\ q.lastIndex + 1 \in 1 .. numNodes(q)
<1>1. numNodes(q) \in Nat /\ q.lastIndex \in Nat /\ q.lastIndex < numNodes(q)
  BY DEF Queues, PositionOK, numNodes
<1>2. NodeAfter(q, k) \in Nodes
  BY <1>1, NodeAfterFacts DEF Queues
<1>3. q \in [nodeIds : Seq(Nodes), lastIndex : Nat] /\ 0 < numNodes(q)
  BY <1>1 DEF Queues
<1>4. NodeAfter(q, 0) = q.nodeIds[(IF q.lastIndex + 0 < numNodes(q) THEN q.lastIndex + 0
                                    ELSE q.lastIndex + 0 - numNodes(q)) + 1]
  BY <1>1, <1>3, NodeAfterFacts
<1> QED
  BY <1>1, <1>2, <1>4

(* Only nodes of different recent slots are passed over in the search for  *)
(* a node that owes an ack, so that getNextMasterRxAckNode's assertion     *)
(* holds.                                                                  *)
LEMMA PassedFew ==
  ASSUME NEW t, Good(t), NEW passed \in Nat, passed <= numNodes(t.activeTxNodes),
         \A k \in 0 .. passed - 1 : nodeRecentlySent(t, NodeAfter(t.activeTxNodes, k))
  PROVE  passed <= MaxMasterSlotsBetweenAcks
<1> DEFINE q == t.activeTxNodes
           I == 1 .. MaxMasterSlotsBetweenAcks - 1
           f == [k \in 1 .. passed |-> CHOOSE i \in I : t.recentScheduledNodes[i] = NodeAfter(q, k - 1)]
<1>1. q \in Queues /\ QueueOK(q)
  BY FieldTypes DEF Good
<1>2. \A k \in 1 .. passed : f[k] \in I /\ t.recentScheduledNodes[f[k]] = NodeAfter(q, k - 1)
  <2> SUFFICES ASSUME NEW k \in 1 .. passed
               PROVE  f[k] \in I /\ t.recentScheduledNodes[f[k]] = NodeAfter(q, k - 1)
    OBVIOUS
  <2>1. k - 1 \in 0 .. passed - 1
    OBVIOUS
  <2>2. \E i \in I : t.recentScheduledNodes[i] = NodeAfter(q, k - 1)
    BY <2>1 DEF nodeRecentlySent
  <2> QED
    BY <2>2
<1>3. \A j, k \in 1 .. passed : f[j] = f[k] => j = k
  <2> SUFFICES ASSUME NEW j \in 1 .. passed, NEW k \in 1 .. passed, f[j] = f[k]
               PROVE  j = k
    OBVIOUS
  <2>1. NodeAfter(q, j - 1) = NodeAfter(q, k - 1)
    BY <1>2
  <2>2. numNodes(q) \in Nat /\ numNodes(q) > 0
    BY <1>1 DEF Queues, numNodes
  <2>3. j - 1 \in 0 .. numNodes(q) - 1 /\ k - 1 \in 0 .. numNodes(q) - 1
    BY <2>2
  <2>4. /\ q \in [nodeIds : Seq(Nodes), lastIndex : Nat] /\ q.lastIndex < numNodes(q)
        /\ \A a, b \in 1 .. numNodes(q) : q.nodeIds[a] = q.nodeIds[b] => a = b
    BY <1>1, <2>2, InTurn DEF Queues, QueueOK, Distinct
  <2> HIDE DEF q, f
  <2>5. j - 1 = k - 1
    BY <2>1, <2>3, <2>4, NodeAfterDistinct
  <2> QED
    BY <2>5
<1>4. IsFiniteSet(I) /\ Cardinality(I) <= MaxMasterSlotsBetweenAcks /\ Cardinality(I) \in Nat
  <2>1. MaxMasterSlotsBetweenAcks - 1 \in Nat /\ MaxMasterSlotsBetweenAcks \in Nat
    BY ConstantFacts
  <2>2. IsFiniteSet(I) /\ Cardinality(I) = MaxMasterSlotsBetweenAcks - 1
    BY <2>1, FS_Interval
  <2> QED
    BY <2>1, <2>2
<1>5. f \in [1 .. passed -> I]
  BY <1>2
<1> HIDE DEF f, I
<1>6. passed <= Cardinality(I)
  BY <1>3, <1>4, <1>5, Pigeonhole
<1> QED
  BY <1>4, <1>6, ConstantFacts

(* getNextMasterRxAckNode moves the position of activeTxNodes only. *)
LEMMA AckFacts ==
  ASSUME NEW t, Good(t)
  PROVE  LET r == getNextMasterRxAckNode(t)
         IN  /\ Good(r.s) /\ Kept(t, r.s) /\ SameService(t, r.s)
             /\ r \in [s : SchedulerStates, node : Nodes \cup {Invalid}]
<1> DEFINE queue  == t.activeTxNodes
           n      == numNodes(queue)
           usable == {k \in 0 .. n - 1 : ~nodeRecentlySent(t, NodeAfter(queue, k))}
           passed == Min(usable \cup {n})
           moved  == [t EXCEPT !.activeTxNodes =
                        getNextNodesInQueue(@, IF passed = n THEN n ELSE passed + 1)]
           u      == IF n = 0 THEN t ELSE moved
           node   == IF passed = n THEN Invalid ELSE NodeAfter(queue, passed)
<1>1. queue \in Queues /\ QueueOK(queue) /\ n \in Nat
  BY FieldTypes DEF Good, Queues, numNodes
<1>2. passed \in usable \cup {n} /\ \A k \in usable : passed <= k
  <2>1. usable \cup {n} \subseteq Nat /\ usable \cup {n} # {}
    BY <1>1
  <2> HIDE DEF usable, n
  <2> QED
    BY <2>1, MinIsLeast
<1>3. passed \in Nat /\ passed <= n
  <2> HIDE DEF passed
  <2> QED
    BY <1>1, <1>2
<1> HIDE DEF passed
<1>4. \A k \in 0 .. passed - 1 : nodeRecentlySent(t, NodeAfter(queue, k))
  <2> SUFFICES ASSUME NEW k \in 0 .. passed - 1, ~nodeRecentlySent(t, NodeAfter(queue, k))
               PROVE  FALSE
    OBVIOUS
  <2>1. k \in usable /\ k < passed
    BY <1>1, <1>3
  <2> QED
    BY <1>2, <1>3, <2>1
<1>5. passed <= MaxMasterSlotsBetweenAcks
  BY <1>3, <1>4, PassedFew
<1>6. getNextMasterRxAckNode(t) = [s |-> u, node |-> node]
  BY <1>5 DEF getNextMasterRxAckNode, Asserted, passed
<1>7. node \in Nodes \cup {Invalid}
  <2>1. passed # n => NodeAfter(queue, passed) \in Nodes
    <3> HIDE DEF n, queue
    <3> QED
      BY <1>1, <1>3, InTurn DEF QueueOK, n
  <2> QED
    BY <2>1
<1>8. Good(u) /\ Kept(t, u) /\ SameService(t, u)
  <2>1. CASE n = 0
    BY <2>1 DEF Kept, SameService
  <2>2. CASE n # 0
    <3> DEFINE k == IF passed = n THEN n ELSE passed + 1
               r == getNextNodesInQueue(queue, k)
    <3>1. k \in Nat /\ n > 0
      BY <1>1, <1>3, <2>2
    <3> HIDE DEF k
    <3>2. r \in Queues /\ QueueOK(r)
      BY <1>1, <3>1, NextFacts
    <3>3. u = [t EXCEPT !.activeTxNodes = r]
      BY <2>2 DEF k
    <3> HIDE DEF r, u
    <3> QED
      BY <3>2, <3>3 DEF Good, Kept, SameService, SchedulerStates, Schedulers
  <2> QED
    BY <2>1, <2>2
<1> HIDE DEF u, node
<1> QED
  BY <1>6, <1>7, <1>8 DEF Good

(* getNextNodeTxNode moves the position of nodeTxNodes only. *)
LEMMA NodeTxFacts ==
  ASSUME NEW t, Good(t)
  PROVE  LET r == getNextNodeTxNode(t)
         IN  /\ Good(r.s) /\ Kept(t, r.s) /\ SameService(t, r.s)
             /\ r \in [s : SchedulerStates, node : Nodes \cup {Invalid}]
<1> DEFINE q == t.nodeTxNodes
           r == getNextNodesInQueue(q, 1)
           u == [t EXCEPT !.nodeTxNodes = r]
<1>1. q \in Queues /\ QueueOK(q) /\ numNodes(q) \in Nat
  BY FieldTypes DEF Good, Queues, numNodes
<1>2. CASE numNodes(q) = 0
  BY <1>2 DEF getNextNodeTxNode, Kept, SameService, Good
<1>3. CASE numNodes(q) # 0
  <2>1. getNextNodeTxNode(t) = [s |-> u, node |-> NodeAfter(q, 0)]
    BY <1>3 DEF getNextNodeTxNode
  <2>2. r \in Queues /\ QueueOK(r) /\ r.nodeIds = q.nodeIds
    BY <1>1, <1>3, NextFacts
  <2>3. NodeAfter(q, 0) \in Nodes
    BY <1>1, <1>3, InTurn DEF QueueOK
  <2> HIDE DEF r
  <2>4. Good(u) /\ Kept(t, u) /\ SameService(t, u)
    BY <2>2 DEF Good, Kept, SameService, SchedulerStates, Schedulers
  <2> HIDE DEF u
  <2> QED
    BY <2>1, <2>3, <2>4 DEF Good
<1> QED
  BY <1>2, <1>3

(* What has been found so far for the next slot: the scheduler, and a node *)
(* or Invalid.                                                             *)
Founds == [s : SchedulerStates, node : Nodes \cup {Master, Invalid}]

LEMMA CandidateFacts ==
  ASSUME NEW t, Good(t), NEW turn \in Turns, NEW level
  PROVE  LET r == Candidate(t, turn, level)
         IN  r \in Founds /\ Good(r.s) /\ Kept(t, r.s) /\ SameService(t, r.s)
<1>1. CASE turn = "MASTER_TX"
  <2>1. Candidate(t, turn, level) =
          [s |-> t, node |-> IF t.numTxNodesScheduled > 1 /\ level > 0 THEN Master ELSE Invalid]
    BY <1>1 DEF Candidate
  <2> QED
    BY <2>1 DEF Founds, Good, Kept, SameService
<1>2. CASE turn = "MASTER_RX_ACK"
  <2>1. Candidate(t, turn, level) = getNextMasterRxAckNode(t)
    BY <1>2 DEF Candidate
  <2> QED
    BY <2>1, AckFacts DEF Founds
<1>3. CASE turn = "NODE_TX"
  <2>1. Candidate(t, turn, level) = getNextNodeTxNode(t)
    BY <1>3 DEF Candidate
  <2> QED
    BY <2>1, NodeTxFacts DEF Founds
<1> QED
  BY <1>1, <1>2, <1>3 DEF Turns

LEMMA TakeTurnFacts ==
  ASSUME NEW found \in Founds, Good(found.s), NEW level
  PROVE  LET r == TakeTurn(found, level)
         IN  /\ r \in Founds /\ Good(r.s)
             /\ Kept(found.s, r.s) /\ SameService(found.s, r.s)
             /\ found.node # Invalid => r = found
<1>1. CASE found.node # Invalid
  BY <1>1 DEF TakeTurn, Kept, SameService
<1>2. CASE found.node = Invalid
  <2> DEFINE c == Candidate(found.s, found.s.nextTurn, level)
             r == [c EXCEPT !.s.nextTurn = TurnAfter(@)]
  <2>1. c \in Founds /\ Good(c.s) /\ Kept(found.s, c.s) /\ SameService(found.s, c.s)
    BY CandidateFacts, FieldTypes DEF Good
  <2>2. TakeTurn(found, level) = r
    BY <1>2 DEF TakeTurn
  <2> HIDE DEF c
  <2>3. TurnAfter(c.s.nextTurn) \in Turns
    <3>1. c.s.nextTurn \in Turns
      BY <2>1, FieldTypes DEF Good
    <3> QED
      BY <3>1 DEF TurnAfter, Turns
  <2>4. /\ r.s = [c.s EXCEPT !.nextTurn = TurnAfter(c.s.nextTurn)]
        /\ r = [s |-> r.s, node |-> c.node]
    BY <2>1 DEF Founds
  <2> DEFINE u == [c.s EXCEPT !.nextTurn = TurnAfter(c.s.nextTurn)]
  <2>5. Good(u) /\ Kept(found.s, u) /\ SameService(found.s, u)
    BY <2>1, <2>3 DEF Good, Kept, SameService, SchedulerStates, Schedulers
  <2> HIDE DEF u, r
  <2>6. r.s = u
    BY <2>4 DEF u
  <2>7. r \in Founds
    BY <2>1, <2>4, <2>5, <2>6 DEF Founds, Good
  <2> QED
    BY <1>2, <2>2, <2>5, <2>6, <2>7
<1> QED
  BY <1>1, <1>2

LEMMA TakeTurnsFacts ==
  ASSUME NEW found \in Founds, Good(found.s), NEW level
  PROVE  LET r == TakeTurns(found, level)
         IN  /\ r \in Founds /\ Good(r.s)
             /\ Kept(found.s, r.s) /\ SameService(found.s, r.s)
             /\ found.node # Invalid => r = found
<1> DEFINE f1 == TakeTurn(found, level)
           f2 == TakeTurn(f1, level)
           f3 == TakeTurn(f2, level)
<1>1. /\ f1 \in Founds /\ Good(f1.s) /\ Kept(found.s, f1.s) /\ SameService(found.s, f1.s)
      /\ found.node # Invalid => f1 = found
  BY TakeTurnFacts
<1> HIDE DEF f1
<1>2. /\ f2 \in Founds /\ Good(f2.s) /\ Kept(f1.s, f2.s) /\ SameService(f1.s, f2.s)
      /\ f1.node # Invalid => f2 = f1
  BY <1>1, TakeTurnFacts
<1> HIDE DEF f2
<1>3. /\ f3 \in Founds /\ Good(f3.s) /\ Kept(f2.s, f3.s) /\ SameService(f2.s, f3.s)
      /\ f2.node # Invalid => f3 = f2
  BY <1>2, TakeTurnFacts
<1>4. TakeTurns(found, level) = f3
  BY DEF TakeTurns, f1, f2
<1> HIDE DEF f3
<1>5. Kept(found.s, f3.s) /\ SameService(found.s, f3.s)
  BY <1>1, <1>2, <1>3 DEF Kept, SameService
<1>6. found.node # Invalid => f3 = found
  BY <1>1, <1>2, <1>3
<1> QED
  BY <1>3, <1>4, <1>5, <1>6

(***************************************************************************)
(* The service                                                             *)
(***************************************************************************)
Serviced(t) == NodeAfter(t.activeNodes, 0)

(* getNextServiceNode restarts the countdown, and moves the position of    *)
(* activeNodes past the node in turn; that node is found, or it had one of *)
(* the recent slots.                                                       *)
LEMMA ServiceFacts ==
  ASSUME NEW t, Good(t), NEW avoid
  PROVE  LET r == getNextServiceNode(t, avoid)
         IN  /\ r \in Founds /\ Good(r.s) /\ Kept(t, r.s)
             /\ r.s.countTillNextService = MaxSlotsBetweenServicing
             /\ numNodes(t.activeNodes) # 0 =>
                  /\ r.s.activeNodes = getNextNodesInQueue(t.activeNodes, 1)
                  /\ \/ r.node = Serviced(t)
                     \/ r.node = Invalid /\ nodeRecentlySent(t, Serviced(t))
                  /\ ~avoid => r.node = Serviced(t)
<1> DEFINE q     == t.activeNodes
           moved == getNextNodesInQueue(q, 1)
           reset == [t EXCEPT !.countTillNextService = MaxSlotsBetweenServicing]
           u     == [reset EXCEPT !.activeNodes = moved]
           r     == getNextServiceNode(t, avoid)
<1>1. q \in Queues /\ QueueOK(q) /\ numNodes(q) \in Nat
  BY FieldTypes DEF Good, Queues, numNodes
<1>2. /\ reset \in SchedulerStates /\ Good(reset) /\ Kept(t, reset)
      /\ reset.countTillNextService = MaxSlotsBetweenServicing
      /\ reset.activeNodes = q
  <2>1. MaxSlotsBetweenServicing \in 0 .. MaxSlotsBetweenServicing
    BY ConstantFacts
  <2> QED
    BY <2>1 DEF Good, Kept, SchedulerStates, Schedulers
<1>3. CASE numNodes(q) = 0
  <2>1. r = [s |-> reset, node |-> Invalid]
    BY <1>3 DEF getNextServiceNode
  <2> HIDE DEF reset
  <2> QED
    BY <1>2, <1>3, <2>1 DEF Founds
<1>4. CASE numNodes(q) # 0
  <2>1. r = [s |-> u, node |-> IF avoid /\ nodeRecentlySent(t, Serviced(t))
                               THEN Invalid ELSE Serviced(t)]
    <3>1. [reset EXCEPT !.activeNodes = getNextNodesInQueue(@, 1)] = u
      BY <1>2
    <3> HIDE DEF u, reset, moved
    <3> QED
      BY <1>4, <3>1 DEF getNextServiceNode, Serviced, reset
  <2>2. moved \in Queues /\ QueueOK(moved) /\ moved.nodeIds = q.nodeIds
    BY <1>1, <1>4, NextFacts
  <2>3. Serviced(t) \in Nodes
    BY <1>1, <1>4, InTurn DEF QueueOK, Serviced
  <2> HIDE DEF moved, reset
  <2>4. /\ Good(u) /\ Kept(t, u) /\ u.activeNodes = moved
        /\ u.countTillNextService = MaxSlotsBetweenServicing
    BY <1>2, <2>2 DEF Good, Kept, SchedulerStates, Schedulers
  <2> HIDE DEF u
  <2>5. r \in Founds
    BY <2>1, <2>3, <2>4 DEF Founds, Good
  <2>6. /\ r.s = u
        /\ (r.node = Serviced(t) \/ (r.node = Invalid /\ nodeRecentlySent(t, Serviced(t))))
        /\ ~avoid => r.node = Serviced(t)
    BY <2>1
  <2> HIDE DEF r
  <2> QED
    BY <2>4, <2>5, <2>6 DEF r, moved
<1> QED
  BY <1>3, <1>4

(* The service moved on by one node, or by two if the first was passed     *)
(* over; a node that had its turn got the slot or had a recent one.        *)
ServicedOne(t, u, node) ==
  /\ u.activeNodes = getNextNodesInQueue(t.activeNodes, 1)
  /\ node = Serviced(t) \/ nodeRecentlySent(t, Serviced(t))

ServicedTwo(t, u, node) ==
  LET moved == getNextNodesInQueue(t.activeNodes, 1)
  IN  /\ u.activeNodes = getNextNodesInQueue(moved, 1)
      /\ nodeRecentlySent(t, Serviced(t))
      /\ node = NodeAfter(moved, 0)

(* scheduleNextAllocatedNode leaves the countdown of the service running   *)
(* and above zero, or services.                                            *)
LEMMA AllocatedFacts ==
  ASSUME NEW t, Good(t), NEW level
  PROVE  LET r == scheduleNextAllocatedNode(t, level)
         IN  /\ r \in Founds /\ Good(r.s) /\ Kept(t, r.s)
             /\ r.s.countTillNextService # 0
             /\ \/ SameService(t, r.s)
                \/ numNodes(t.activeNodes) = 0
                \/ /\ r.s.countTillNextService = MaxSlotsBetweenServicing
                   /\ ServicedOne(t, r.s, r.node) \/ ServicedTwo(t, r.s, r.node)
<1> DEFINE due   == ServiceIfDue(t)
           turns == TakeTurns(due, level)
           r     == ServiceIfNone(turns)
<1>1. scheduleNextAllocatedNode(t, level) = r
  BY DEF scheduleNextAllocatedNode
<1>2. MaxSlotsBetweenServicing # 0
  BY ConstantFacts
<1>3. numNodes(t.activeNodes) # 0 => Serviced(t) # Invalid
  <2>1. t.activeNodes \in Queues /\ PositionOK(t.activeNodes) /\ numNodes(t.activeNodes) \in Nat
    BY FieldTypes DEF Good, QueueOK, Queues, numNodes
  <2> QED
    BY <2>1, InTurn, ConstantFacts DEF Serviced
<1>4. CASE t.countTillNextService # 0
  <2>1. due = [s |-> t, node |-> Invalid]
    BY <1>4 DEF ServiceIfDue
  <2>2. due \in Founds /\ due.s = t
    BY <2>1 DEF Founds, Good
  <2> HIDE DEF due
  <2>3. turns \in Founds /\ Good(turns.s) /\ Kept(t, turns.s) /\ SameService(t, turns.s)
    BY <2>2, TakeTurnsFacts
  <2> HIDE DEF turns
  <2>4. CASE turns.node # Invalid
    <3>1. r = turns
      BY <2>4 DEF ServiceIfNone
    <3> QED
      BY <1>1, <1>4, <2>3, <3>1 DEF SameService
  <2>5. CASE turns.node = Invalid
    <3> DEFINE g == getNextServiceNode(turns.s, FALSE)
    <3>1. r = g
      BY <2>5 DEF ServiceIfNone
    <3>2. /\ g \in Founds /\ Good(g.s) /\ Kept(turns.s, g.s)
          /\ g.s.countTillNextService = MaxSlotsBetweenServicing
          /\ numNodes(turns.s.activeNodes) # 0 =>
               /\ g.s.activeNodes = getNextNodesInQueue(turns.s.activeNodes, 1)
               /\ g.node = Serviced(turns.s)
      BY <2>3, ServiceFacts
    <3> HIDE DEF g
    <3>3. Kept(t, g.s)
      BY <2>3, <3>2 DEF Kept
    <3>4. turns.s.activeNodes = t.activeNodes
      BY <2>3 DEF SameService
    <3>5. numNodes(t.activeNodes) # 0 => ServicedOne(t, g.s, g.node)
      BY <3>2, <3>4 DEF ServicedOne, Serviced
    <3> QED
      BY <1>1, <1>2, <3>1, <3>2, <3>3, <3>5
  <2> QED
    BY <2>4, <2>5
<1>5. CASE t.countTillNextService = 0
  <2>1. due = getNextServiceNode(t, TRUE)
    BY <1>5 DEF ServiceIfDue
  <2>2. /\ due \in Founds /\ Good(due.s) /\ Kept(t, due.s)
        /\ due.s.countTillNextService = MaxSlotsBetweenServicing
        /\ numNodes(t.activeNodes) # 0 =>
             /\ due.s.activeNodes = getNextNodesInQueue(t.activeNodes, 1)
             /\ (due.node = Serviced(t) \/ (due.node = Invalid /\ nodeRecentlySent(t, Serviced(t))))
    BY <2>1, ServiceFacts
  <2> HIDE DEF due
  <2>3. /\ turns \in Founds /\ Good(turns.s) /\ Kept(due.s, turns.s) /\ SameService(due.s, turns.s)
        /\ due.node # Invalid => turns = due
    BY <2>2, TakeTurnsFacts
  <2> HIDE DEF turns
  <2>4. /\ Kept(t, turns.s) /\ turns.s.countTillNextService = MaxSlotsBetweenServicing
        /\ turns.s.activeNodes = due.s.activeNodes
    BY <2>2, <2>3 DEF Kept, SameService
  <2>5. CASE turns.node # Invalid
    <3>1. r = turns
      BY <2>5 DEF ServiceIfNone
    <3>2. numNodes(t.activeNodes) # 0 => ServicedOne(t, turns.s, turns.node)
      BY <1>3, <2>2, <2>3, <2>4, <2>5 DEF ServicedOne
    <3> QED
      BY <1>1, <1>2, <2>3, <2>4, <3>1, <3>2
  <2>6. CASE turns.node = Invalid
    <3> DEFINE g == getNextServiceNode(turns.s, FALSE)
    <3>1. r = g
      BY <2>6 DEF ServiceIfNone
    <3>2. /\ g \in Founds /\ Good(g.s) /\ Kept(turns.s, g.s)
          /\ g.s.countTillNextService = MaxSlotsBetweenServicing
          /\ numNodes(turns.s.activeNodes) # 0 =>
               /\ g.s.activeNodes = getNextNodesInQueue(turns.s.activeNodes, 1)
               /\ g.node = Serviced(turns.s)
      BY <2>3, ServiceFacts
    <3> HIDE DEF g
    <3>3. Kept(t, g.s)
      BY <2>4, <3>2 DEF Kept
    <3>4. numNodes(t.activeNodes) # 0 => ServicedTwo(t, g.s, g.node)
      <4> SUFFICES ASSUME numNodes(t.activeNodes) # 0 PROVE ServicedTwo(t, g.s, g.node)
        OBVIOUS
      <4>1. Serviced(t) # Invalid
        BY <1>3
      <4>2. due.node = Invalid
        BY <2>3, <2>6
      <4>3. turns.s.activeNodes = getNextNodesInQueue(t.activeNodes, 1)
        BY <2>2, <2>4
      <4>4. turns.s.activeNodes.nodeIds = t.activeNodes.nodeIds
        BY <2>4 DEF Kept
      <4>5. numNodes(turns.s.activeNodes) # 0
        BY <4>4 DEF numNodes
      <4> QED
        BY <2>2, <3>2, <4>1, <4>2, <4>3, <4>5 DEF ServicedTwo, Serviced
    <3> QED
      BY <1>1, <1>2, <3>1, <3>2, <3>3, <3>4
  <2> QED
    BY <2>5, <2>6
<1> QED
  BY <1>4, <1>5

(***************************************************************************)
(* The schedule and the countdowns                                         *)
(***************************************************************************)
(* The schedule r of k slots follows nt, with x in its last slot. *)
Follows(r, nt, k, T, x) ==
  /\ r \in [1 .. k -> T]
  /\ Last(r) = x
  /\ nt[1] \in T
  /\ Master \in Range(Tail(nt)) => Master \in Range(r)
  /\ x = Master => Master \in Range(r)
  /\ x = Master /\ k > 1 => MasterScheduled(r)

(* AddToSchedule takes the first entry off and adds one at the end. *)
LEMMA ScheduleShift ==
  ASSUME NEW T, NEW k \in Nat \ {0}, NEW nt \in [1 .. k -> T], NEW x \in T
  PROVE  Follows(Append(Tail(nt), x), nt, k, T, x)
<1> DEFINE r == Append(Tail(nt), x)
<1>1. nt \in Seq(T) /\ Len(nt) = k
  <2>1. nt \in Seq(T)
    OBVIOUS
  <2> QED
    BY <2>1, LenProperties
<1>2. /\ Tail(nt) \in Seq(T) /\ Len(Tail(nt)) = k - 1
  BY <1>1
<1> DEFINE tl == Tail(nt)
<1> HIDE DEF tl
<1>3. /\ r \in Seq(T) /\ Len(r) = k /\ r[k] = x
      /\ \A i \in 1 .. k - 1 : r[i] = tl[i]
      /\ tl \in Seq(T) /\ Len(tl) = k - 1
  BY <1>2 DEF tl
<1> HIDE DEF r
<1>4. r \in [1 .. k -> T] /\ DOMAIN r = 1 .. k /\ Last(r) = x
  BY <1>3, LenProperties DEF Last
<1>5. Master \in Range(tl) => Master \in Range(r)
  <2> SUFFICES ASSUME NEW i \in DOMAIN tl, tl[i] = Master PROVE \E j \in DOMAIN r : r[j] = Master
    BY DEF Range
  <2>1. i \in 1 .. k - 1
    BY <1>3
  <2> QED
    BY <1>3, <1>4, <2>1
<1>6. x = Master => Master \in Range(r)
  BY <1>3, <1>4 DEF Range
<1>7. x = Master /\ k > 1 => MasterScheduled(r)
  <2> SUFFICES ASSUME x = Master, k > 1 PROVE MasterScheduled(r)
    OBVIOUS
  <2> DEFINE tr == Tail(r)
  <2>1. Len(tr) = k - 1 /\ tr \in Seq(T) /\ tr[k - 1] = r[k]
    BY <1>3
  <2> HIDE DEF tr
  <2>2. k - 1 \in DOMAIN tr
    BY <2>1, LenProperties
  <2> QED
    BY <1>3, <2>1, <2>2 DEF MasterScheduled, Range, tr
<1>8. nt[1] \in T
  OBVIOUS
<1> QED
  BY <1>4, <1>5, <1>6, <1>7, <1>8 DEF Follows, r, tl

(* An unallocated slot restarts its countdown, above zero. *)
LEMMA UnallocatedFacts ==
  ASSUME NEW t, Good(t)
  PROVE  LET u == scheduleUnallocatedSlot(AdaptGap(t)).s
         IN  /\ Good(u) /\ SameService(t, u)
             /\ u.numTxNodesScheduled = t.numTxNodesScheduled
             /\ u.recentScheduledNodes = t.recentScheduledNodes
             /\ u.nodeTxBufferLevel = t.nodeTxBufferLevel
             /\ u.nodeTxNodes = t.nodeTxNodes
             /\ u.countTillNextAllocation # 0
<1> DEFINE gap     == t.unallocatedSlotGap
           count   == (t.unallocatedSlotGapUpdateCount + 1) % ByteSize
           doubled == (2 * gap) % ByteSize
           capped  == IF doubled > MaxSlotsBetweenUnallocated
                      THEN MaxSlotsBetweenUnallocated ELSE doubled
           newGap  == IF count = NumSlotsBeforeAllocationChanged THEN capped ELSE gap
           a       == AdaptGap(t)
           u       == [a EXCEPT !.countTillNextAllocation = (a.unallocatedSlotGap - 1) % ByteSize]
           Gaps    == MinSlotsBetweenUnallocated .. MaxSlotsBetweenUnallocated
<1>1. gap \in Gaps /\ t.unallocatedSlotGapUpdateCount \in 0 .. ByteSize - 1
  BY FieldTypes DEF Good
<1>2. count \in 0 .. ByteSize - 1
  <2> DEFINE b == t.unallocatedSlotGapUpdateCount + 1
  <2>1. b \in Nat
    BY <1>1, ConstantFacts
  <2> HIDE DEF b
  <2>2. b % ByteSize \in 0 .. ByteSize - 1
    BY <2>1, ConstantFacts, ModRange
  <2> QED
    BY <2>2 DEF b
<1>3. gap # MaxSlotsBetweenUnallocated => capped \in Gaps
  <2> SUFFICES ASSUME gap # MaxSlotsBetweenUnallocated PROVE capped \in Gaps
    OBVIOUS
  <2>1. gap \in Nat /\ 2 * gap < ByteSize /\ 2 * gap \in Nat
    BY <1>1, ConstantFacts, SchedulerAssumption
  <2>2. doubled = 2 * gap
    <3> DEFINE b == 2 * gap
    <3> HIDE DEF b
    <3>1. b \in Nat /\ b < ByteSize /\ b < ByteSize + ByteSize
      BY <2>1, ConstantFacts DEF b
    <3>2. b % ByteSize = b
      BY <3>1, ConstantFacts, ModStep
    <3> QED
      BY <3>2 DEF b
  <2> QED
    BY <1>1, <2>1, <2>2, ConstantFacts
<1>4. /\ a \in SchedulerStates /\ Good(a) /\ a.unallocatedSlotGap \in Gaps
      /\ a.activeNodes = t.activeNodes /\ a.nodeTxNodes = t.nodeTxNodes
      /\ a.countTillNextService = t.countTillNextService
      /\ a.numTxNodesScheduled = t.numTxNodesScheduled
      /\ a.recentScheduledNodes = t.recentScheduledNodes
      /\ a.nodeTxBufferLevel = t.nodeTxBufferLevel
  <2>1. CASE gap = MaxSlotsBetweenUnallocated
    BY <1>1, <2>1 DEF AdaptGap, Good
  <2>2. CASE gap # MaxSlotsBetweenUnallocated
    <3>1. a = [t EXCEPT !.unallocatedSlotGapUpdateCount = count, !.unallocatedSlotGap = newGap]
      BY <2>2 DEF AdaptGap, Good, SchedulerStates, Schedulers
    <3>2. newGap \in Gaps
      BY <1>1, <1>3, <2>2
    <3> HIDE DEF a, newGap, count
    <3> QED
      BY <1>2, <3>1, <3>2 DEF Good, SchedulerStates, Schedulers
  <2> QED
    BY <2>1, <2>2
<1> HIDE DEF a
<1>5. scheduleUnallocatedSlot(a).s = u
  BY DEF scheduleUnallocatedSlot
<1> DEFINE c == a.unallocatedSlotGap - 1
<1>6. c % ByteSize \in 0 .. ByteSize - 1 /\ c % ByteSize # 0
  <2>1. c \in Nat /\ c < ByteSize /\ c # 0
    BY <1>4, ConstantFacts
  <2> HIDE DEF c
  <2>2. c % ByteSize = c
    BY <2>1, ConstantFacts, ModStep
  <2> QED
    BY <2>1, <2>2, ConstantFacts
<1>7. u = [a EXCEPT !.countTillNextAllocation = c % ByteSize]
  OBVIOUS
<1> HIDE DEF u, c
<1>8. /\ Good(u) /\ SameService(t, u)
      /\ u.numTxNodesScheduled = t.numTxNodesScheduled
      /\ u.recentScheduledNodes = t.recentScheduledNodes
      /\ u.nodeTxBufferLevel = t.nodeTxBufferLevel
      /\ u.nodeTxNodes = t.nodeTxNodes
      /\ u.countTillNextAllocation # 0
  BY <1>4, <1>6, <1>7 DEF Good, SameService, SchedulerStates, Schedulers
<1> QED
  BY <1>5, <1>8 DEF a

(* RecordAllocated counts down and remembers the node: its assertions hold *)
(* when both countdowns are above zero.                                    *)
LEMMA RecordFacts ==
  ASSUME NEW found \in Founds, Good(found.s),
         found.s.countTillNextAllocation # 0, found.s.countTillNextService # 0
  PROVE  LET r == RecordAllocated(found)
             t == found.s
         IN  /\ Good(r.s)
             /\ r.node = IF found.node = Invalid THEN Unallocated ELSE found.node
             /\ r.s.countTillNextService = t.countTillNextService - 1
             /\ r.s.recentScheduledNodes \in
                  [1 .. MaxMasterSlotsBetweenAcks -> Nodes \cup {Master, Invalid}]
             /\ r.s.recentScheduledNodes[MaxMasterSlotsBetweenAcks] = found.node
             /\ \A i \in 1 .. MaxMasterSlotsBetweenAcks - 1 :
                  r.s.recentScheduledNodes[i] = t.recentScheduledNodes[i + 1]
             /\ r.s.numTxNodesScheduled = t.numTxNodesScheduled
             /\ r.s.nodeTxBufferLevel = t.nodeTxBufferLevel
             /\ r.s.activeNodes = t.activeNodes
             /\ r.s.nodeTxNodes = t.nodeTxNodes
<1> DEFINE t      == found.s
           M      == MaxMasterSlotsBetweenAcks
           T      == Nodes \cup {Master, Invalid}
           old    == t.recentScheduledNodes
           recent == Append(Tail(old), found.node)
           u      == [t EXCEPT !.countTillNextAllocation = @ - 1,
                               !.countTillNextService    = @ - 1,
                               !.recentScheduledNodes    = recent]
           v      == [t EXCEPT !.countTillNextAllocation = t.countTillNextAllocation - 1,
                               !.countTillNextService    = t.countTillNextService - 1,
                               !.recentScheduledNodes    = recent]
<1>1. /\ t \in SchedulerStates /\ found.node \in T
      /\ old \in [1 .. M -> T]
      /\ t.countTillNextAllocation \in 0 .. ByteSize - 1
      /\ t.countTillNextService \in 0 .. MaxSlotsBetweenServicing
  BY FieldTypes DEF Founds
<1>2. /\ recent \in [1 .. M -> T] /\ recent[M] = found.node
      /\ \A i \in 1 .. M - 1 : recent[i] = old[i + 1]
  <2>1. M \in Nat \ {0}
    BY ConstantFacts
  <2> HIDE DEF M, T, old
  <2>2. old \in Seq(T)
    BY <1>1, <2>1
  <2>3. Len(old) = M
    BY <1>1, <2>1, <2>2, LenProperties
  <2>4. recent \in Seq(T) /\ Len(recent) = M
    BY <1>1, <2>1, <2>2, <2>3
  <2>5. recent[M] = found.node /\ \A i \in 1 .. M - 1 : recent[i] = old[i + 1]
    BY <1>1, <2>1, <2>2, <2>3
  <2> HIDE DEF recent
  <2> QED
    BY <2>4, <2>5, LenProperties
<1>3. RecordAllocated(found) = [s |-> u, node |-> IF found.node = Invalid THEN Unallocated ELSE found.node]
  BY DEF RecordAllocated
<1>4. u = v
  BY <1>1 DEF SchedulerStates, Schedulers
<1> HIDE DEF recent, u
<1>5. /\ t.countTillNextAllocation - 1 \in 0 .. ByteSize - 1
      /\ t.countTillNextService - 1 \in 0 .. MaxSlotsBetweenServicing
  BY <1>1, ConstantFacts
<1>6. /\ v.countTillNextService = t.countTillNextService - 1
      /\ v.recentScheduledNodes = recent
      /\ v.numTxNodesScheduled = t.numTxNodesScheduled
      /\ v.nodeTxBufferLevel = t.nodeTxBufferLevel
      /\ v.activeNodes = t.activeNodes
      /\ v.nodeTxNodes = t.nodeTxNodes
      /\ v.activeTxNodes = t.activeTxNodes
      /\ v.fault = t.fault
  BY <1>1 DEF SchedulerStates, Schedulers
<1>7. v \in SchedulerStates
  <2> HIDE DEF t
  <2> QED
    BY <1>1, <1>2, <1>5 DEF SchedulerStates, Schedulers
<1> HIDE DEF v
<1>8. Good(v)
  BY <1>6, <1>7 DEF Good
<1> DEFINE r == RecordAllocated(found)
<1>9. r.s = v /\ r.node = IF found.node = Invalid THEN Unallocated ELSE found.node
  BY <1>3, <1>4
<1>10. /\ v.recentScheduledNodes \in [1 .. M -> T]
       /\ v.recentScheduledNodes[M] = found.node
       /\ \A i \in 1 .. M - 1 : v.recentScheduledNodes[i] = old[i + 1]
  BY <1>2, <1>6
<1> HIDE DEF r
<1> QED
  BY <1>6, <1>8, <1>9, <1>10 DEF r


(* newNodeHeard brings the next unallocated slot no nearer than           *)
(* MIN_SLOTS_BETWEEN_UNALLOCATED.                                          *)
LEMMA HeardFacts ==
  ASSUME NEW t, Good(t)
  PROVE  LET u == newNodeHeard(t)
         IN  /\ Good(u) /\ SameService(t, u)
             /\ u.recentScheduledNodes = t.recentScheduledNodes
             /\ u.numTxNodesScheduled = t.numTxNodesScheduled
             /\ u.countTillNextAllocation # 0
             /\ u.nodeTxBufferLevel = t.nodeTxBufferLevel
             /\ u.nodeTxNodes = t.nodeTxNodes
<1>1. /\ MinSlotsBetweenUnallocated \in MinSlotsBetweenUnallocated .. MaxSlotsBetweenUnallocated
      /\ MinSlotsBetweenUnallocated \in 0 .. ByteSize - 1
      /\ MinSlotsBetweenUnallocated # 0
  BY ConstantFacts
<1> QED
  BY <1>1 DEF newNodeHeard, Good, SameService, SchedulerStates, Schedulers

(* scheduleNextNode fails none of its assertions, finds somebody for the   *)
(* slot, and changes the queues' positions only.                           *)
LEMMA NextNodeFacts ==
  ASSUME NEW t, Good(t), NEW level
  PROVE  LET r == scheduleNextNode(t, level)
         IN  /\ Good(r.s)
             /\ r.s.numTxNodesScheduled = t.numTxNodesScheduled
             /\ r.s.nodeTxBufferLevel = t.nodeTxBufferLevel
             /\ r.s.activeNodes.nodeIds = t.activeNodes.nodeIds
             /\ r.node \in Nodes \cup {Master, Unallocated}
<1> DEFINE r == scheduleNextNode(t, level)
<1>1. CASE t.countTillNextAllocation = 0
  <2> DEFINE u == scheduleUnallocatedSlot(AdaptGap(t))
  <2>1. r = u
    BY <1>1 DEF scheduleNextNode
  <2>2. u.node = Unallocated
    BY DEF scheduleUnallocatedSlot
  <2>3. /\ Good(u.s) /\ SameService(t, u.s)
        /\ u.s.numTxNodesScheduled = t.numTxNodesScheduled
        /\ u.s.nodeTxBufferLevel = t.nodeTxBufferLevel
    BY UnallocatedFacts
  <2> HIDE DEF u, r
  <2> QED
    BY <2>1, <2>2, <2>3 DEF SameService, r
<1>2. CASE t.countTillNextAllocation # 0
  <2> DEFINE found == scheduleNextAllocatedNode(t, level)
             u     == RecordAllocated(found)
  <2>1. r = u
    BY <1>2 DEF scheduleNextNode
  <2>2. /\ found \in Founds /\ Good(found.s) /\ Kept(t, found.s)
        /\ found.s.countTillNextService # 0
    BY AllocatedFacts
  <2> HIDE DEF found
  <2>3. found.s.countTillNextAllocation # 0
    BY <1>2, <2>2 DEF Kept
  <2>4. /\ Good(u.s)
        /\ u.node = IF found.node = Invalid THEN Unallocated ELSE found.node
        /\ u.s.numTxNodesScheduled = found.s.numTxNodesScheduled
        /\ u.s.nodeTxBufferLevel = found.s.nodeTxBufferLevel
        /\ u.s.activeNodes = found.s.activeNodes
    BY <2>2, <2>3, RecordFacts
  <2> HIDE DEF u, r
  <2>5. u.node \in Nodes \cup {Master, Unallocated}
    BY <2>2, <2>4 DEF Founds
  <2> QED
    BY <2>1, <2>2, <2>4, <2>5 DEF Kept, r
<1> QED
  BY <1>1, <1>2

(* The schedule of a full duplex bus is the node of the next slot. *)
LEMMA DuplexFacts ==
  ASSUME NEW t, Good(t), t.numTxNodesScheduled = 1, NEW nt, NEW level,
         nt \in [1 .. 1 -> Nodes \cup {Master, Unallocated}]
  PROVE  LET r == schedulerUpdateAndCalcNextTxNodes(t, nt, level)
         IN  /\ Good(r.s)
             /\ r.s.numTxNodesScheduled = 1
             /\ r.s.nodeTxBufferLevel = t.nodeTxBufferLevel
             /\ r.s.activeNodes.nodeIds = t.activeNodes.nodeIds
             /\ r.nodesToTx \in [1 .. 1 -> Nodes \cup {Master, Unallocated}]
<1> DEFINE next == scheduleNextNode(t, 0)
           T    == Nodes \cup {Master, Unallocated}
           r    == schedulerUpdateAndCalcNextTxNodes(t, nt, level)
<1>1. r = AddToSchedule(nt, next)
  <2>1. ~(t.numTxNodesScheduled > 1)
    OBVIOUS
  <2> QED
    BY <2>1 DEF schedulerUpdateAndCalcNextTxNodes
<1>2. /\ Good(next.s)
      /\ next.s.numTxNodesScheduled = t.numTxNodesScheduled
      /\ next.s.nodeTxBufferLevel = t.nodeTxBufferLevel
      /\ next.s.activeNodes.nodeIds = t.activeNodes.nodeIds
      /\ next.node \in T
  BY NextNodeFacts
<1> HIDE DEF next, T
<1>3. nt \in [1 .. 1 -> T]
  BY DEF T
<1>4. Follows(Append(Tail(nt), next.node), nt, 1, T, next.node)
  <2> DEFINE k == 1
             x == next.node
  <2>1. k \in Nat \ {0} /\ nt \in [1 .. k -> T] /\ x \in T
    BY <1>2, <1>3
  <2> HIDE DEF k, x
  <2>2. Follows(Append(Tail(nt), x), nt, k, T, x)
    BY <2>1, ScheduleShift
  <2> QED
    BY <2>2 DEF k, x
<1>5. r.s = next.s /\ r.nodesToTx = Append(Tail(nt), next.node)
  BY <1>1 DEF AddToSchedule
<1> HIDE DEF r
<1>6. r.nodesToTx \in [1 .. 1 -> T]
  BY <1>4, <1>5 DEF Follows
<1> QED
  BY <1>2, <1>5, <1>6 DEF r, T
=============================================================================
