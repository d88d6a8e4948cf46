--------------------------- MODULE TxManagerLemmas ---------------------------
(***************************************************************************)
(* Facts about the operators of TxManager that the proofs in TxLinkProofs  *)
(* rest on: arithmetic on the ring of sequence numbers, and what each      *)
(* operation does to a well-typed manager.                                 *)
(***************************************************************************)
EXTENDS TxManager, NodeQueueLemmas

(* INCR_SEQUENCE_NUM stays below MAX_SEQUENCE_NUM. *)
LEMMA IncrType ==
  \A s \in SeqNums : Incr(s) \in SeqNums
BY TxManagerAssumption DEF SeqNums, Incr

(* The distance between two sequence numbers is below MAX_SEQUENCE_NUM,    *)
(* and zero only when txSeqNumStart and txSeqNumEnd, say, are equal.       *)
LEMMA DistType ==
  \A a, b \in SeqNums : /\ Dist(a, b) \in Nat
                        /\ Dist(a, b) < MaxSequenceNum
                        /\ Dist(a, b) = 0 <=> a = b
BY TxManagerAssumption DEF SeqNums, Dist

(* Two sequence numbers at the same distance from txSeqNumStart are equal. *)
LEMMA DistInjective ==
  \A a, b, c \in SeqNums : Dist(a, b) = Dist(a, c) \/ Dist(b, a) = Dist(c, a) => b = c
BY TxManagerAssumption DEF SeqNums, Dist

(* What INCR_SEQUENCE_NUM does to a distance, applied to its far end       *)
(* (txSeqNumEnd, txSeqNumNext) and to its near end (txSeqNumStart).        *)
LEMMA DistIncr ==
  \A a, b \in SeqNums :
    /\ Dist(a, b) + 1 < MaxSequenceNum => Dist(a, Incr(b)) = Dist(a, b) + 1
    /\ Dist(a, b) + 1 = MaxSequenceNum => Incr(b) = a
    /\ a # b => Dist(Incr(a), b) = Dist(a, b) - 1
BY TxManagerAssumption DEF SeqNums, Dist, Incr

(* Going from a to c by way of b: how distances change when txSeqNumStart  *)
(* moves.                                                                  *)
LEMMA DistSplit ==
  \A a, b, c \in SeqNums :
    /\ Dist(a, b) <= Dist(a, c) => Dist(b, c) = Dist(a, c) - Dist(a, b)
    /\ Dist(a, b) > Dist(a, c) => Dist(b, c) = Dist(a, c) - Dist(a, b) + MaxSequenceNum
BY TxManagerAssumption DEF SeqNums, Dist

(* The number rxPacketCheckAndUpdateSeqNum waits for is a sequence number. *)
LEMMA expectedType ==
  \A rx \in 0 .. NullSequenceNum : expectedSeqNum(rx) \in SeqNums
BY TxManagerAssumption DEF SeqNums, expectedSeqNum, Incr, NullSequenceNum
(***************************************************************************)
(* What the operations do to a well-typed manager                          *)
(***************************************************************************)
(* NULL is told from every packet entry. *)
LEMMA SlotsAreNat == Slots \subseteq Nat \ {0} /\ NoSlot \notin Slots
BY TxManagerAssumption DEF Slots, NoSlot

(* initTxManager builds a well-typed manager. *)
LEMMA initType ==
  ASSUME NEW P, Torn \in P, NEW E, 0 \in E
  PROVE  initTxManager \in TxManagers(P, E)
BY TxManagerAssumption DEF initTxManager, TxManagers, EmptyQueue, SeqNums, Slots, NoSlot

(* allocatePacketEntry returns a free entry, and all entries before it are *)
(* in use.                                                                 *)
LEMMA FirstFree ==
  ASSUME NEW P, NEW E, NEW t \in TxManagers(P, E), FreeSlots(t) # {}
  PROVE  /\ allocatePacketEntry(t) \in Slots
         /\ ~t.inUse[allocatePacketEntry(t)]
         /\ \A k \in Slots : k < allocatePacketEntry(t) => t.inUse[k]
<1>1. FreeSlots(t) \subseteq Nat /\ Slots \subseteq Nat
  BY SlotsAreNat DEF FreeSlots
<1>2. /\ Min(FreeSlots(t)) \in FreeSlots(t)
      /\ \A x \in FreeSlots(t) : Min(FreeSlots(t)) <= x
  BY <1>1, MinIsLeast
<1>3. \A k \in Slots : k < Min(FreeSlots(t)) => k \notin FreeSlots(t)
  BY <1>1, <1>2
<1> QED
  BY <1>2, <1>3 DEF allocatePacketEntry, FreeSlots

(* allocateTxPacket keeps the manager's type, on every path. *)
LEMMA allocateType ==
  ASSUME NEW P, NEW E, Torn \in P, NEW t \in TxManagers(P, E)
  PROVE  allocateTxPacket(t) \in TxManagers(P, E)
<1> DEFINE a == allocatePacketEntry(t)
           taken == [t EXCEPT !.inUse[a] = TRUE]
<1>1. CASE FreeSlots(t) = {}
  BY <1>1 DEF allocateTxPacket
<1>2. CASE FreeSlots(t) # {}
  <2>1. a \in Slots
    BY <1>2, FirstFree
  <2> HIDE DEF a
  <2>2. taken \in TxManagers(P, E)
    BY <2>1 DEF TxManagers
  <2>3. Faulty(taken) \in TxManagers(P, E)
    BY <2>2 DEF Faulty, TxManagers
  <2>4. [taken EXCEPT !.allocated = a, !.data[a] = Torn] \in TxManagers(P, E)
    BY <2>1, <2>2 DEF TxManagers
  <2> QED
    BY <1>2, <2>2, <2>3, <2>4 DEF allocateTxPacket, a
<1> QED
  BY <1>1, <1>2

(* An allocateTxPacket that meets neither an outstanding allocation nor a  *)
(* full queue of destinations takes the first free entry, and changes      *)
(* nothing else but its payload.                                           *)
LEMMA allocateEffect ==
  ASSUME NEW P, NEW E, NEW t \in TxManagers(P, E), FreeSlots(t) # {}, t.allocated = NoSlot,
         ~(IsMaster /\ QueueFull(t.active))
  PROVE  LET a == allocatePacketEntry(t)
             u == allocateTxPacket(t)
         IN  /\ u.inUse = [t.inUse EXCEPT ![a] = TRUE]
             /\ u.data = [t.data EXCEPT ![a] = Torn]
             /\ u.allocated = a
             /\ u.dst = t.dst /\ u.seq = t.seq
             /\ u.start = t.start /\ u.end = t.end /\ u.next = t.next
             /\ u.active = t.active /\ u.fault = t.fault
BY DEF allocateTxPacket, TxManagers

(* submitAllocatedTxPacket keeps the manager's type, on every path. *)
LEMMA submitType ==
  ASSUME NEW P, NEW t \in TxManagers(P, SeqNums), t.allocated # NoSlot,
         NEW ttl, NEW d \in Peers, NEW id \in P
  PROVE  submitAllocatedTxPacket(t, ttl, d, id) \in TxManagers(P, SeqNums)
<1> DEFINE filled == [t EXCEPT !.dst[t.allocated]  = IF IsMaster THEN d ELSE @,
                               !.seq[t.allocated]  = t.end[d],
                               !.data[t.allocated] = id,
                               !.end[d]    = Incr(t.end[d]),
                               !.allocated = NoSlot]
<1>1. t.allocated \in Slots /\ t.end[d] \in SeqNums /\ Incr(t.end[d]) \in SeqNums
  BY IncrType DEF TxManagers
<1>2. filled \in TxManagers(P, SeqNums)
  BY <1>1 DEF TxManagers
<1>3. [t EXCEPT !.allocated = NoSlot] \in TxManagers(P, SeqNums)
  BY DEF TxManagers
<1>4. Faulty(filled) \in TxManagers(P, SeqNums)
  <2> HIDE DEF filled
  <2> QED
    BY <1>2 DEF Faulty, TxManagers
<1>5. [filled EXCEPT !.active = nodeQueueAdd(@, d)] \in TxManagers(P, SeqNums)
  <2> HIDE DEF filled
  <2>1. filled.active \in [nodeIds : Seq(Peers), lastIndex : Nat]
    BY <1>2 DEF TxManagers
  <2>2. nodeQueueAdd(filled.active, d) \in [nodeIds : Seq(Peers), lastIndex : Nat]
    BY <2>1, nodeQueueAddType
  <2> QED
    BY <1>2, <2>2 DEF TxManagers
<1> QED
  BY <1>2, <1>3, <1>4, <1>5 DEF submitAllocatedTxPacket

(* What a submitAllocatedTxPacket that meets no full queue writes: the     *)
(* header and payload of the allocated entry, txSeqNumEnd of the           *)
(* destination, and the queue of destinations if the window was empty.     *)
LEMMA submitEffect ==
  ASSUME NEW P, NEW t \in TxManagers(P, SeqNums), t.allocated # NoSlot,
         NEW d \in Peers, NEW id \in P,
         ~(IsMaster /\ QueueFull(t.active))
  PROVE  LET u == submitAllocatedTxPacket(t, 1, d, id)
         IN  /\ u.inUse = t.inUse
             /\ u.dst = IF IsMaster THEN [t.dst EXCEPT ![t.allocated] = d] ELSE t.dst
             /\ u.seq = [t.seq EXCEPT ![t.allocated] = t.end[d]]
             /\ u.data = [t.data EXCEPT ![t.allocated] = id]
             /\ u.end = [t.end EXCEPT ![d] = Incr(t.end[d])]
             /\ u.allocated = NoSlot
             /\ u.start = t.start /\ u.next = t.next /\ u.fault = t.fault
             /\ u.active = IF IsMaster /\ t.end[d] = t.start[d]
                           THEN nodeQueueAdd(t.active, d) ELSE t.active
<1>1. CASE IsMaster
  BY <1>1 DEF submitAllocatedTxPacket, TxManagers
<1>2. CASE ~IsMaster
  BY <1>2 DEF submitAllocatedTxPacket, TxManagers
<1> QED
  BY <1>1, <1>2

(* findPacketEntry returns the first of the matching entries. *)
LEMMA FirstMatch ==
  ASSUME NEW t, NEW d, NEW n, Matching(t, d, n) # {}
  PROVE  /\ findPacketEntry(t, d, n) \in Slots
         /\ findPacketEntry(t, d, n) \in Matching(t, d, n)
         /\ \A i \in Matching(t, d, n) : findPacketEntry(t, d, n) <= i
<1>1. Matching(t, d, n) \subseteq Slots /\ Slots \subseteq Nat
  BY SlotsAreNat DEF Matching
<1> QED
  BY <1>1, MinIsLeast DEF findPacketEntry

(* Reaching the end of the window or of the queued packets only sets the   *)
(* pause counter of the destination.                                       *)
LEMMA PauseFacts ==
  ASSUME NEW P, NEW E, NEW t \in TxManagers(P, E), NEW D
  PROVE  LET u == Pause(t, D)
         IN  /\ u \in TxManagers(P, E)
             /\ u.inUse = t.inUse /\ u.dst = t.dst /\ u.seq = t.seq /\ u.data = t.data
             /\ u.allocated = t.allocated
             /\ u.start = t.start /\ u.end = t.end /\ u.next = t.next
             /\ u.active = t.active /\ u.fault = t.fault
             /\ u.lastTxQueueIndex = t.lastTxQueueIndex
             /\ \A d \in Peers : u.pause[d] = IF d \in D /\ Pauses(t, d) THEN 2 ELSE t.pause[d]
<1> DEFINE pauses == [d \in Peers |-> IF d \in D /\ Pauses(t, d) THEN 2 ELSE t.pause[d]]
<1>1. pauses \in [Peers -> 0 .. 2]
  BY DEF TxManagers
<1>2. Pause(t, D) = [t EXCEPT !.pause = pauses]
  BY DEF Pause
<1>3. \A d \in Peers : pauses[d] = IF d \in D /\ Pauses(t, d) THEN 2 ELSE t.pause[d]
  OBVIOUS
<1> HIDE DEF pauses
<1> QED
  BY <1>1, <1>2, <1>3 DEF TxManagers

(* The packets and the windows, which choosing a packet leaves alone. *)
SameQueues(t, u) ==
  /\ u.inUse = t.inUse /\ u.dst = t.dst /\ u.seq = t.seq /\ u.data = t.data
  /\ u.allocated = t.allocated
  /\ u.start = t.start /\ u.end = t.end
  /\ u.active = t.active

(* Either nothing is chosen, or the next packet of a destination of D is. *)
ChoosesFrom(D, t, u, entry) ==
  \/ entry = NoSlot /\ u.next = t.next
  \/ \E d \in D : /\ Finds(t, d) /\ ~Asserts(t, d)
                  /\ entry = findPacketEntry(t, d, t.next[d])
                  /\ u.next = [t.next EXCEPT ![d] = Incr(@)]

Chooses(t, u, entry) == ChoosesFrom(Peers, t, u, entry)

(* The destinations on the queue of active ones. *)
ActiveNodes(t) == {d \in Peers : Contains(t.active.nodeIds, d)}

(* getNextTxPacketForNode leaves packets and windows alone; unless an      *)
(* assertion fails it chooses the packet at txSeqNumNext and steps that,   *)
(* or chooses nothing.                                                     *)
LEMMA getNextForNodeFacts ==
  ASSUME NEW P, NEW E, NEW t \in TxManagers(P, E), NEW d \in Peers
  PROVE  LET r == getNextTxPacketForNode(t, d)
         IN  /\ r = [tm |-> r.tm, entry |-> r.entry]
             /\ r.tm \in TxManagers(P, E)
             /\ r.entry \in Slots \cup {NoSlot}
             /\ SameQueues(t, r.tm)
             /\ Asserts(t, d) => r.entry = NoSlot /\ r.tm.next = t.next
             /\ ~Asserts(t, d) => r.tm.fault = t.fault /\ ChoosesFrom({d}, t, r.tm, r.entry)
<1> DEFINE r == getNextTxPacketForNode(t, d)
<1>1. CASE Asserts(t, d)
  BY <1>1 DEF getNextTxPacketForNode, Faulty, TxManagers, SameQueues
<1>2. CASE ~Asserts(t, d) /\ Finds(t, d)
  <2> DEFINE u == [t EXCEPT !.next[d] = Incr(@)]
  <2>1. r = [tm |-> u, entry |-> findPacketEntry(t, d, t.next[d])]
    BY <1>2 DEF getNextTxPacketForNode
  <2>2. Matching(t, d, t.next[d]) # {}
    BY <1>2 DEF Asserts, Finds
  <2>3. t.next[d] \in SeqNums /\ Incr(t.next[d]) \in SeqNums
    BY IncrType DEF TxManagers
  <2>4. u \in TxManagers(P, E) /\ SameQueues(t, u) /\ u.fault = t.fault
    BY <2>3 DEF TxManagers, SameQueues
  <2>5. u.next = [t.next EXCEPT ![d] = Incr(@)]
    BY DEF TxManagers
  <2>6. ChoosesFrom({d}, t, u, findPacketEntry(t, d, t.next[d]))
    BY <1>2, <2>5 DEF ChoosesFrom
  <2> HIDE DEF u, r
  <2> QED
    BY <1>2, <2>1, <2>2, <2>4, <2>6, FirstMatch DEF r
<1>3. CASE ~Asserts(t, d) /\ ~Finds(t, d)
  <2>1. r = [tm |-> Pause(t, {d}), entry |-> NoSlot]
    BY <1>3 DEF getNextTxPacketForNode
  <2> HIDE DEF r
  <2> QED
    BY <1>3, <2>1, PauseFacts DEF SameQueues, ChoosesFrom, r
<1> QED
  BY <1>1, <1>2, <1>3

(* masterGetNextTxDataPacket does what getNextTxPacketForNode does, for    *)
(* one of the active destinations.                                         *)
LEMMA masterGetNextFacts ==
  ASSUME NEW P, NEW E, NEW t \in TxManagers(P, E)
  PROVE  LET r == masterGetNextTxDataPacket(t)
         IN  /\ r.tm \in TxManagers(P, E)
             /\ r.entry \in Slots \cup {NoSlot}
             /\ SameQueues(t, r.tm)
             /\ \/ r.tm.fault = t.fault /\ ChoosesFrom(ActiveNodes(t), t, r.tm, r.entry)
                \/ /\ r.entry = NoSlot /\ r.tm.next = t.next
                   /\ \E d \in ActiveNodes(t) : Asserts(t, d)
<1> DEFINE n      == numNodes(t.active)
           last   == IF t.lastTxQueueIndex >= n THEN n - 1 ELSE t.lastTxQueueIndex
           pos(k) == (last + k) % n
           at(k)  == t.active.nodeIds[pos(k) + 1]
           stops  == {k \in 1 .. n : Finds(t, at(k)) \/ Asserts(t, at(k))}
           k      == IF stops = {} THEN n ELSE Min(stops)
           tried  == Pause(t, {at(j) : j \in 1 .. k - 1})
           result == getNextTxPacketForNode(tried, at(k))
           r      == masterGetNextTxDataPacket(t)
<1>1. n \in Nat /\ t.active.nodeIds \in Seq(Peers) /\ t.lastTxQueueIndex \in Nat
  BY DEF TxManagers, numNodes
<1>2. CASE n = 0
  <2>1. r = [tm |-> t, entry |-> NoSlot]
    BY <1>2 DEF masterGetNextTxDataPacket
  <2> QED
    BY <2>1 DEF SameQueues, ChoosesFrom
<1>3. CASE n # 0
  <2>1. r = [result EXCEPT !.tm.lastTxQueueIndex = pos(k)]
    BY <1>3 DEF masterGetNextTxDataPacket
  <2>2. last \in Nat
    BY <1>1, <1>3
  <2>3. k \in 1 .. n
    <3>1. stops \subseteq 1 .. n
      OBVIOUS
    <3> HIDE DEF stops, n
    <3>2. n \in 1 .. n /\ stops \subseteq Nat
      BY <3>1, <1>1, <1>3
    <3>3. CASE stops = {}
      BY <3>2, <3>3
    <3>4. CASE stops # {}
      <4>1. Min(stops) \in stops
        BY <3>2, <3>4, MinIsLeast
      <4> QED
        BY <4>1, <3>1, <3>4
    <3> QED
      BY <3>3, <3>4
  <2> HIDE DEF last, k
  <2>4. pos(k) \in 0 .. n - 1
    <3>1. last + k \in Nat /\ n \in Nat \ {0}
      BY <1>1, <1>3, <2>2, <2>3
    <3> HIDE DEF n
    <3> QED
      BY <3>1, ModRange
  <2>5. at(k) \in Peers /\ at(k) \in ActiveNodes(t)
    <3>1. pos(k) + 1 \in 1 .. Len(t.active.nodeIds)
      BY <1>1, <2>4 DEF numNodes
    <3> QED
      BY <1>1, <3>1 DEF ActiveNodes, Contains
  <2> HIDE DEF pos, at
  <2>6. /\ tried \in TxManagers(P, E)
        /\ SameQueues(t, tried) /\ tried.next = t.next /\ tried.fault = t.fault
        /\ \A d \in Peers : tried.pause[d] = t.pause[d] \/ tried.pause[d] = 2
    BY PauseFacts DEF SameQueues
  <2> HIDE DEF tried
  <2>7. \A d \in Peers : Asserts(tried, d) => Asserts(t, d)
    BY <2>6 DEF Asserts, Ready, NextInRange, AtWindowEnd, windowEnd, Matching, SameQueues
  <2>8. \A d \in Peers : Finds(tried, d) => /\ Finds(t, d)
                                            /\ Asserts(t, d) => Asserts(tried, d)
    BY <2>6 DEF Finds, Asserts, Ready, NextInRange, AtWindowEnd, windowEnd, Matching, SameQueues
  <2>9. /\ result = [tm |-> result.tm, entry |-> result.entry]
        /\ result.tm \in TxManagers(P, E)
        /\ result.entry \in Slots \cup {NoSlot}
        /\ SameQueues(tried, result.tm)
        /\ Asserts(tried, at(k)) => result.entry = NoSlot /\ result.tm.next = tried.next
        /\ ~Asserts(tried, at(k)) =>
              /\ result.tm.fault = tried.fault
              /\ ChoosesFrom({at(k)}, tried, result.tm, result.entry)
    BY <2>5, <2>6, getNextForNodeFacts
  <2> HIDE DEF result, r
  <2>10. /\ r.entry = result.entry
         /\ r.tm = [result.tm EXCEPT !.lastTxQueueIndex = pos(k)]
    BY <2>1, <2>9
  <2>11. /\ r.tm \in TxManagers(P, E)
         /\ SameQueues(result.tm, r.tm)
         /\ r.tm.next = result.tm.next /\ r.tm.fault = result.tm.fault
    <3> DEFINE w == result.tm
               j == pos(k)
    <3>1. w \in TxManagers(P, E) /\ j \in Nat /\ r.tm = [w EXCEPT !.lastTxQueueIndex = j]
      BY <1>1, <2>4, <2>9, <2>10
    <3> HIDE DEF w, j
    <3> QED
      BY <3>1 DEF TxManagers, SameQueues, w
  <2>12. SameQueues(t, r.tm)
    BY <2>6, <2>9, <2>11 DEF SameQueues
  <2>13. ASSUME ~Asserts(tried, at(k))
         PROVE  r.tm.fault = t.fault /\ ChoosesFrom(ActiveNodes(t), t, r.tm, r.entry)
    <3>1. r.tm.fault = t.fault /\ ChoosesFrom({at(k)}, tried, result.tm, result.entry)
      BY <2>6, <2>9, <2>11, <2>13
    <3>2. \A d \in Peers : findPacketEntry(tried, d, tried.next[d]) = findPacketEntry(t, d, t.next[d])
      BY <2>6 DEF findPacketEntry, Matching, SameQueues
    <3>3. CASE result.entry = NoSlot /\ result.tm.next = tried.next
      BY <3>1, <3>3, <2>6, <2>10, <2>11 DEF ChoosesFrom
    <3>4. CASE ~(result.entry = NoSlot /\ result.tm.next = tried.next)
      <4> DEFINE d == at(k)
      <4>1. /\ d \in Peers /\ d \in ActiveNodes(t)
            /\ Finds(tried, d) /\ ~Asserts(tried, d)
            /\ result.entry = findPacketEntry(tried, d, tried.next[d])
            /\ result.tm.next = [tried.next EXCEPT ![d] = Incr(@)]
        BY <3>1, <3>4, <2>5 DEF ChoosesFrom
      <4> HIDE DEF d
      <4>2. /\ Finds(t, d) /\ ~Asserts(t, d)
            /\ r.entry = findPacketEntry(t, d, t.next[d])
            /\ r.tm.next = [t.next EXCEPT ![d] = Incr(@)]
        <5>1. tried.next = t.next /\ r.tm.next = result.tm.next /\ r.entry = result.entry
          BY <2>6, <2>10, <2>11
        <5>2. Finds(t, d) /\ ~Asserts(t, d)
          BY <4>1, <2>8
        <5>3. r.entry = findPacketEntry(t, d, t.next[d])
          BY <4>1, <5>1, <3>2, Zenon
        <5> QED
          BY <4>1, <5>1, <5>2, <5>3, Zenon
      <4> QED
        BY <4>1, <4>2, <3>1 DEF ChoosesFrom
    <3> QED
      BY <3>3, <3>4
  <2>14. ASSUME Asserts(tried, at(k))
         PROVE  /\ r.entry = NoSlot /\ r.tm.next = t.next
                /\ \E d \in ActiveNodes(t) : Asserts(t, d)
    BY <2>5, <2>6, <2>7, <2>9, <2>10, <2>11, <2>14
  <2> QED
    BY <2>9, <2>10, <2>11, <2>12, <2>13, <2>14 DEF r
<1> QED
  BY <1>2, <1>3

(* The same for the two of them, the master's and the node's. *)
LEMMA getNextFacts ==
  ASSUME NEW P, NEW E, NEW t \in TxManagers(P, E)
  PROVE  LET r == getNextTxDataPacket(t)
         IN  /\ r.tm \in TxManagers(P, E)
             /\ r.entry \in Slots \cup {NoSlot}
             /\ SameQueues(t, r.tm)
             /\ (\A d \in Peers : ~Asserts(t, d)) =>
                  r.tm.fault = t.fault /\ Chooses(t, r.tm, r.entry)
<1>1. CASE IsMaster
  <2>1. getNextTxDataPacket(t) = masterGetNextTxDataPacket(t)
    BY <1>1 DEF getNextTxDataPacket
  <2>2. ActiveNodes(t) \subseteq Peers
    BY DEF ActiveNodes
  <2> QED
    BY <2>1, <2>2, masterGetNextFacts DEF Chooses, ChoosesFrom
<1>2. CASE ~IsMaster
  <2> DEFINE p == CHOOSE d \in Peers : TRUE
  <2>1. p \in Peers
    BY TxManagerAssumption
  <2>2. getNextTxDataPacket(t) = getNextTxPacketForNode(t, p)
    BY <1>2 DEF getNextTxDataPacket
  <2> HIDE DEF p
  <2> DEFINE u == getNextTxPacketForNode(t, p)
  <2>3. /\ u.tm \in TxManagers(P, E)
        /\ u.entry \in Slots \cup {NoSlot}
        /\ SameQueues(t, u.tm)
        /\ ~Asserts(t, p) => u.tm.fault = t.fault /\ ChoosesFrom({p}, t, u.tm, u.entry)
    BY <2>1, getNextForNodeFacts
  <2> HIDE DEF u
  <2>4. ChoosesFrom({p}, t, u.tm, u.entry) => Chooses(t, u.tm, u.entry)
    BY <2>1 DEF Chooses, ChoosesFrom
  <2> QED
    BY <2>1, <2>2, <2>3, <2>4 DEF u
<1> QED
  BY <1>1, <1>2

(* The range test of rxAckSeqNum, with its case for a wrapped window, says *)
(* that the ack lies less far from txSeqNumStart than txSeqNumEnd.         *)
LEMMA validSeqNumTest ==
  ASSUME NEW t, NEW d, t.start[d] \in SeqNums, t.end[d] \in SeqNums, NEW ack \in SeqNums
  PROVE  validSeqNum(t, d, ack) <=> Dist(t.start[d], ack) < Dist(t.start[d], t.end[d])
BY TxManagerAssumption DEF validSeqNum, Dist, SeqNums

(* The assertion of getNextTxPacketForNode, with its case for a wrapped    *)
(* window, says that txSeqNumNext lies no farther from txSeqNumStart than  *)
(* txSeqNumEnd.                                                            *)
LEMMA NextInRangeTest ==
  ASSUME NEW t, NEW d, t.start[d] \in SeqNums, t.end[d] \in SeqNums, t.next[d] \in SeqNums
  PROVE  NextInRange(t, d) <=> Dist(t.start[d], t.next[d]) <= Dist(t.start[d], t.end[d])
BY TxManagerAssumption DEF NextInRange, Dist, SeqNums

(* The same for a well-typed manager. *)
LEMMA validSeqNumIsDist ==
  ASSUME NEW P, NEW t \in TxManagers(P, SeqNums), NEW d \in Peers, NEW ack \in SeqNums
  PROVE  validSeqNum(t, d, ack) <=> Dist(t.start[d], ack) < Dist(t.start[d], t.end[d])
<1>1. t.start[d] \in SeqNums /\ t.end[d] \in SeqNums
  BY DEF TxManagers
<1> QED
  BY <1>1, validSeqNumTest

(* And for the assertion of getNextTxPacketForNode. *)
LEMMA NextInRangeIsDist ==
  ASSUME NEW P, NEW t \in TxManagers(P, SeqNums), NEW d \in Peers
  PROVE  NextInRange(t, d) <=> Dist(t.start[d], t.next[d]) <= Dist(t.start[d], t.end[d])
<1>1. t.start[d] \in SeqNums /\ t.end[d] \in SeqNums /\ t.next[d] \in SeqNums
  BY DEF TxManagers
<1> QED
  BY <1>1, NextInRangeTest

(* Taking an empty destination off the active queue in rxAckSeqNum keeps   *)
(* the manager's type.                                                     *)
LEMMA DeactivateType ==
  ASSUME NEW P, NEW E, NEW t \in TxManagers(P, E), NEW d \in Peers
  PROVE  DeactivateIfEmpty(t, d) \in TxManagers(P, E)
<1>1. Faulty(t) \in TxManagers(P, E)
  BY DEF Faulty, TxManagers
<1>2. [t EXCEPT !.active = nodeQueueRemoveIfExists(@, d)] \in TxManagers(P, E)
  <2>1. t.active \in [nodeIds : Seq(Peers), lastIndex : Nat]
    BY DEF TxManagers
  <2>2. nodeQueueRemoveIfExists(t.active, d) \in [nodeIds : Seq(Peers), lastIndex : Nat]
    BY <2>1, nodeQueueRemoveFacts
  <2> QED
    BY <2>2 DEF TxManagers
<1> QED
  BY <1>1, <1>2 DEF DeactivateIfEmpty

(* A valid ack, before an empty destination is taken off the queue. *)
Moved(t, d, ack) ==
  LET newStart == Incr(ack)
      freed    == {findPacketEntry(t, d, n) : n \in Acked(t, d, newStart)}
  IN  [t EXCEPT !.inUse    = [i \in Slots |-> @[i] /\ i \notin freed],
                !.next[d]  = NextAfterAck(t, d, newStart),
                !.start[d] = newStart,
                !.pause[d] = 0]

(* What a valid ack does in rxAckSeqNum: exactly the entries found for the *)
(* acknowledged numbers are freed, and the window starts behind the ack.   *)
LEMMA MovedFacts ==
  ASSUME NEW P, NEW E, NEW t \in TxManagers(P, E), NEW d \in Peers, NEW ack \in SeqNums
  PROVE  LET u == Moved(t, d, ack)
             freed == {findPacketEntry(t, d, n) : n \in Acked(t, d, Incr(ack))}
         IN  /\ u \in TxManagers(P, E)
             /\ \A i \in Slots : u.inUse[i] <=> t.inUse[i] /\ i \notin freed
             /\ u.dst = t.dst /\ u.seq = t.seq /\ u.data = t.data
             /\ u.allocated = t.allocated
             /\ u.end = t.end
             /\ u.start = [t.start EXCEPT ![d] = Incr(ack)]
             /\ u.next = [t.next EXCEPT ![d] = NextAfterAck(t, d, Incr(ack))]
             /\ u.active = t.active /\ u.fault = t.fault
<1> DEFINE newStart == Incr(ack)
           freed == {findPacketEntry(t, d, n) : n \in Acked(t, d, newStart)}
           inUse == [i \in Slots |-> t.inUse[i] /\ i \notin freed]
           next  == NextAfterAck(t, d, newStart)
<1>1. inUse \in [Slots -> BOOLEAN] /\ \A i \in Slots : inUse[i] <=> t.inUse[i] /\ i \notin freed
  OBVIOUS
<1>2. newStart \in SeqNums /\ next \in SeqNums
  BY IncrType DEF NextAfterAck, TxManagers
<1>3. Moved(t, d, ack) = [t EXCEPT !.inUse = inUse, !.next[d] = next,
                                   !.start[d] = newStart, !.pause[d] = 0]
  BY DEF Moved
<1> HIDE DEF freed, inUse, next, newStart
<1> DEFINE u == Moved(t, d, ack)
<1>4. u \in TxManagers(P, E)
  <2> DEFINE starts == [t.start EXCEPT ![d] = newStart]
             nexts  == [t.next EXCEPT ![d] = next]
             pauses == [t.pause EXCEPT ![d] = 0]
  <2>1. starts \in [Peers -> SeqNums] /\ nexts \in [Peers -> SeqNums] /\ pauses \in [Peers -> 0 .. 2]
    BY <1>2 DEF TxManagers
  <2>2. u = [t EXCEPT !.inUse = inUse, !.next = nexts, !.start = starts, !.pause = pauses]
    BY <1>3 DEF TxManagers
  <2> HIDE DEF starts, nexts, pauses, u
  <2> QED
    BY <1>1, <2>1, <2>2 DEF TxManagers
<1>5. /\ u.inUse = inUse
      /\ u.start = [t.start EXCEPT ![d] = newStart]
      /\ u.next = [t.next EXCEPT ![d] = next]
  BY <1>3 DEF TxManagers
<1>6. /\ u.dst = t.dst /\ u.seq = t.seq /\ u.data = t.data /\ u.allocated = t.allocated
      /\ u.end = t.end /\ u.active = t.active /\ u.fault = t.fault
  BY <1>3 DEF TxManagers
<1> HIDE DEF u
<1> QED
  BY <1>1, <1>4, <1>5, <1>6 DEF u, newStart, freed, next

(* A valid ack in rxAckSeqNum: the window moves, then a destination that   *)
(* became empty leaves the active queue.                                   *)
LEMMA AcknowledgeIsMoved ==
  ASSUME NEW t, NEW d, NEW ack
  PROVE  Acknowledge(t, d, ack) =
           IF \E n \in Acked(t, d, Incr(ack)) : Matching(t, d, n) = {} THEN Faulty(t)
           ELSE DeactivateIfEmpty(Moved(t, d, ack), d)
BY DEF Acknowledge, Moved

(* An ack outside the window only changes the pause counter, and may set   *)
(* txSeqNumNext back to txSeqNumStart.                                     *)
LEMMA CountDownFacts ==
  ASSUME NEW P, NEW E, NEW t \in TxManagers(P, E), NEW d \in Peers
  PROVE  LET u == CountDown(t, d)
         IN  /\ u \in TxManagers(P, E)
             /\ SameQueues(t, u) /\ u.fault = t.fault
             /\ u.next = t.next \/ u.next = [t.next EXCEPT ![d] = t.start[d]]
<1>1. CASE t.pause[d] = 0
  BY <1>1 DEF CountDown, SameQueues
<1>2. CASE t.pause[d] # 0
  <2> DEFINE count == t.pause[d] - 1
             next == IF count = 0 THEN t.start[d] ELSE t.next[d]
  <2>1. count \in 0 .. 2 /\ next \in SeqNums
    BY <1>2 DEF TxManagers
  <2>2. CountDown(t, d) = [t EXCEPT !.pause[d] = count, !.next[d] = next]
    BY <1>2 DEF CountDown
  <2>3. next = t.start[d] \/ next = t.next[d]
    OBVIOUS
  <2> HIDE DEF count, next
  <2> DEFINE u == CountDown(t, d)
  <2>4. u \in TxManagers(P, E)
    <3> DEFINE nexts  == [t.next EXCEPT ![d] = next]
               pauses == [t.pause EXCEPT ![d] = count]
    <3>1. nexts \in [Peers -> SeqNums] /\ pauses \in [Peers -> 0 .. 2]
      BY <2>1 DEF TxManagers
    <3>2. u = [t EXCEPT !.pause = pauses, !.next = nexts]
      BY <2>2 DEF TxManagers
    <3> HIDE DEF nexts, pauses, u
    <3> QED
      BY <3>1, <3>2 DEF TxManagers
  <2>5. SameQueues(t, u) /\ u.fault = t.fault
    BY <2>2 DEF TxManagers, SameQueues
  <2>6. u.next = [t.next EXCEPT ![d] = next]
    BY <2>2 DEF TxManagers
  <2>7. [t.next EXCEPT ![d] = t.next[d]] = t.next
    BY DEF TxManagers
  <2> HIDE DEF u
  <2> QED
    BY <2>3, <2>4, <2>5, <2>6, <2>7 DEF u
<1> QED
  BY <1>1, <1>2

(* rxAckSeqNum keeps the manager's type, whatever the ack. *)
LEMMA rxAckType ==
  ASSUME NEW P, NEW E, NEW t \in TxManagers(P, E), NEW d \in Peers, NEW ack \in 0 .. NullSequenceNum
  PROVE  rxAckSeqNum(t, d, ack) \in TxManagers(P, E)
<1>1. CASE ack = NullSequenceNum
  BY <1>1 DEF rxAckSeqNum
<1>2. CASE ack # NullSequenceNum
  <2>1. ack \in SeqNums
    BY <1>2, TxManagerAssumption DEF SeqNums, NullSequenceNum
  <2>2. Moved(t, d, ack) \in TxManagers(P, E)
    BY <2>1, MovedFacts
  <2>3. DeactivateIfEmpty(Moved(t, d, ack), d) \in TxManagers(P, E)
    BY <2>2, DeactivateType
  <2>4. Faulty(t) \in TxManagers(P, E)
    BY DEF Faulty, TxManagers
  <2>5. Acknowledge(t, d, ack) \in TxManagers(P, E)
    BY <2>3, <2>4, AcknowledgeIsMoved
  <2>6. CountDown(t, d) \in TxManagers(P, E)
    BY CountDownFacts
  <2> QED
    BY <1>2, <2>5, <2>6 DEF rxAckSeqNum
<1> QED
  BY <1>1, <1>2
=============================================================================
