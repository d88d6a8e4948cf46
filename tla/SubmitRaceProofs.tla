-------------------------- MODULE SubmitRaceProofs --------------------------
(***************************************************************************)
(* Proof that SubmitRace keeps its inductive invariant, for every number   *)
(* of nodes, packet entries and sequence numbers: what a submission        *)
(* guarantees wherever the handlers come in.                               *)
(***************************************************************************)
EXTENDS SubmitRaceInv, TxManagerLemmas

Managers == TxManagers({Torn}, 0 .. MaxSequenceNum)

Pcs == {"idle", "allocated", "checked", "addressed", "numbered", "incremented", "wrapped",
        "searching", "absent", "written", "queued", "cleared"}

(* The fields of a well-typed manager. *)
LEMMA FieldTypes ==
  ASSUME NEW t \in Managers
  PROVE  /\ t.inUse \in [Slots -> BOOLEAN] /\ t.dst \in [Slots -> Peers \cup {NoPeer}]
         /\ t.seq \in [Slots -> SeqNums] /\ t.allocated \in Slots \cup {NoSlot}
         /\ t.start \in [Peers -> SeqNums] /\ t.next \in [Peers -> SeqNums]
         /\ t.end \in [Peers -> 0 .. MaxSequenceNum]
         /\ t.active \in [nodeIds : Seq(Peers), lastIndex : Nat]
         /\ t.active.nodeIds \in Seq(Peers) /\ t.fault \in BOOLEAN
BY DEF Managers, TxManagers

LEMMA ConstantFacts ==
  /\ IsMaster
  /\ MaxSequenceNum \in Nat /\ MaxSequenceNum > 1
  /\ 0 \in SeqNums /\ 0 \in 0 .. MaxSequenceNum
  /\ \A n \in SeqNums : n \in 0 .. MaxSequenceNum /\ n # MaxSequenceNum
  /\ \A n \in 0 .. MaxSequenceNum : n # MaxSequenceNum => n \in SeqNums
  /\ NoSlot \notin Slots
  /\ NoDst \notin Peers
BY SubmitRaceAssumption, TxManagerAssumption, SlotsAreNat DEF SeqNums

(* What masterTxManagerRemoveNode does. *)
LEMMA removeNodeEffect ==
  ASSUME NEW t \in Managers, NEW d \in Peers
  PROVE  LET u == masterTxManagerRemoveNode(t, d)
         IN  /\ u \in Managers
             /\ \A i \in Slots : u.inUse[i] <=> t.inUse[i] /\ t.dst[i] # d
             /\ u.dst = t.dst /\ u.seq = t.seq /\ u.allocated = t.allocated
             /\ u.start = [t.start EXCEPT ![d] = 0]
             /\ u.end = [t.end EXCEPT ![d] = 0]
             /\ u.next = [t.next EXCEPT ![d] = 0]
             /\ u.active = nodeQueueRemoveIfExists(t.active, d)
             /\ u.fault = t.fault
<1> DEFINE inUse == [i \in Slots |-> t.inUse[i] /\ t.dst[i] # d]
           queue == nodeQueueRemoveIfExists(t.active, d)
           u == masterTxManagerRemoveNode(t, d)
<1>1. /\ inUse \in [Slots -> BOOLEAN]
      /\ \A i \in Slots : inUse[i] <=> t.inUse[i] /\ t.dst[i] # d
  OBVIOUS
<1>2. queue \in [nodeIds : Seq(Peers), lastIndex : Nat]
  BY FieldTypes, nodeQueueRemoveFacts
<1>3. u = [t EXCEPT !.active = queue, !.inUse = inUse,
                    !.start[d] = 0, !.end[d] = 0, !.next[d] = 0, !.pause[d] = 0]
  BY DEF masterTxManagerRemoveNode
<1> HIDE DEF inUse, queue, u
<1>4. /\ u.inUse = inUse /\ u.active = queue
      /\ u.dst = t.dst /\ u.seq = t.seq /\ u.allocated = t.allocated
      /\ u.start = [t.start EXCEPT ![d] = 0]
      /\ u.end = [t.end EXCEPT ![d] = 0]
      /\ u.next = [t.next EXCEPT ![d] = 0]
      /\ u.fault = t.fault
  BY <1>3 DEF Managers, TxManagers
<1>5. u \in Managers
  <2> DEFINE starts == [t.start EXCEPT ![d] = 0]
             ends   == [t.end EXCEPT ![d] = 0]
             nexts  == [t.next EXCEPT ![d] = 0]
             pauses == [t.pause EXCEPT ![d] = 0]
  <2>1. /\ starts \in [Peers -> SeqNums] /\ nexts \in [Peers -> SeqNums]
        /\ ends \in [Peers -> 0 .. MaxSequenceNum] /\ pauses \in [Peers -> 0 .. 2]
    BY ConstantFacts DEF Managers, TxManagers
  <2>2. u = [t EXCEPT !.active = queue, !.inUse = inUse, !.start = starts, !.end = ends,
                      !.next = nexts, !.pause = pauses]
    BY <1>3 DEF Managers, TxManagers
  <2> HIDE DEF starts, ends, nexts, pauses
  <2> QED
    BY <1>1, <1>2, <2>1, <2>2 DEF Managers, TxManagers
<1> QED
  BY <1>1, <1>4, <1>5 DEF u, queue

(* The three things rxAckSeqNum does with an ack for p. *)
AckIgnored(t, u, p, ack) ==
  /\ ack = NullSequenceNum \/ ~validSeqNum(t, p, ack)
  /\ SameQueues(t, u) /\ u.fault = t.fault
  /\ u.next = t.next \/ u.next = [t.next EXCEPT ![p] = t.start[p]]

AckFails(t, u, p, ack) ==
  /\ ack \in SeqNums /\ validSeqNum(t, p, ack)
  /\ \E n \in Acked(t, p, Incr(ack)) : Matching(t, p, n) = {}
  /\ SameQueues(t, u) /\ u.next = t.next

AckMoves(t, u, p, ack) ==
  /\ ack \in SeqNums /\ validSeqNum(t, p, ack)
  /\ \A n \in Acked(t, p, Incr(ack)) : Matching(t, p, n) # {}
  /\ \A i \in Slots : u.inUse[i] <=>
       /\ t.inUse[i]
       /\ \A n \in Acked(t, p, Incr(ack)) : i # findPacketEntry(t, p, n)
  /\ u.dst = t.dst /\ u.seq = t.seq /\ u.allocated = t.allocated
  /\ u.start = [t.start EXCEPT ![p] = Incr(ack)]
  /\ u.end = t.end
  /\ u.next = [t.next EXCEPT ![p] = NextAfterAck(t, p, Incr(ack))]
  /\ u.active = IF Incr(ack) = t.end[p] THEN nodeQueueRemoveIfExists(t.active, p) ELSE t.active
  /\ u.fault => t.fault \/ (Incr(ack) = t.end[p] /\ ~Contains(t.active.nodeIds, p))

LEMMA rxAckEffect ==
  ASSUME NEW t \in Managers, NEW p \in Peers, NEW ack \in 0 .. NullSequenceNum
  PROVE  LET u == rxAckSeqNum(t, p, ack)
         IN  /\ u \in Managers
             /\ AckIgnored(t, u, p, ack) \/ AckFails(t, u, p, ack) \/ AckMoves(t, u, p, ack)
<1> DEFINE u == rxAckSeqNum(t, p, ack)
           m == Moved(t, p, ack)
           freed == {findPacketEntry(t, p, n) : n \in Acked(t, p, Incr(ack))}
<1>1. u \in Managers
  BY rxAckType DEF Managers
<1>2. CASE ack = NullSequenceNum
  BY <1>1, <1>2 DEF rxAckSeqNum, AckIgnored, SameQueues
<1>3. CASE ack # NullSequenceNum /\ ~validSeqNum(t, p, ack)
  <2>1. u = CountDown(t, p)
    BY <1>3 DEF rxAckSeqNum
  <2>2. AckIgnored(t, u, p, ack)
    BY <1>3, <2>1, CountDownFacts DEF AckIgnored, Managers
  <2> QED
    BY <1>1, <2>2
<1>4. CASE ack # NullSequenceNum /\ validSeqNum(t, p, ack)
  <2>1. ack \in SeqNums
    BY <1>4, ConstantFacts DEF NullSequenceNum
  <2>2. u = Acknowledge(t, p, ack)
    BY <1>4 DEF rxAckSeqNum
  <2>3. CASE \E n \in Acked(t, p, Incr(ack)) : Matching(t, p, n) = {}
    <3>1. u = Faulty(t)
      BY <2>2, <2>3, AcknowledgeIsMoved
    <3>2. SameQueues(t, u) /\ u.next = t.next
      BY <3>1 DEF Faulty, SameQueues, Managers, TxManagers
    <3> QED
      BY <1>1, <1>4, <2>1, <2>3, <3>2 DEF AckFails
  <2>4. CASE \A n \in Acked(t, p, Incr(ack)) : Matching(t, p, n) # {}
    <3>1. u = DeactivateIfEmpty(m, p)
      BY <2>2, <2>4, AcknowledgeIsMoved
    <3>2. /\ m \in Managers
          /\ \A i \in Slots : m.inUse[i] <=> t.inUse[i] /\ i \notin freed
          /\ m.dst = t.dst /\ m.seq = t.seq /\ m.allocated = t.allocated
          /\ m.end = t.end
          /\ m.start = [t.start EXCEPT ![p] = Incr(ack)]
          /\ m.next = [t.next EXCEPT ![p] = NextAfterAck(t, p, Incr(ack))]
          /\ m.active = t.active /\ m.fault = t.fault
      BY <2>1, MovedFacts DEF Managers
    <3>3. m.start[p] = Incr(ack)
      BY <3>2, FieldTypes
    <3>4. /\ u.inUse = m.inUse /\ u.dst = m.dst /\ u.seq = m.seq /\ u.allocated = m.allocated
          /\ u.end = m.end /\ u.start = m.start /\ u.next = m.next
          /\ u.active = IF Incr(ack) = t.end[p] THEN nodeQueueRemoveIfExists(t.active, p)
                        ELSE t.active
          /\ u.fault => t.fault \/ (Incr(ack) = t.end[p] /\ ~Contains(t.active.nodeIds, p))
      <4> HIDE DEF m, u
      <4>1. CASE Incr(ack) # t.end[p]
        BY <3>1, <3>2, <3>3, <4>1, ConstantFacts DEF DeactivateIfEmpty
      <4>2. CASE Incr(ack) = t.end[p] /\ ~Contains(t.active.nodeIds, p)
        <5>1. u = Faulty(m) /\ nodeQueueRemoveIfExists(t.active, p) = t.active
          BY <3>1, <3>2, <3>3, <4>2, ConstantFacts DEF DeactivateIfEmpty, nodeQueueRemoveIfExists
        <5> QED
          BY <5>1, <3>2, <4>2 DEF Faulty, Managers, TxManagers
      <4>3. CASE Incr(ack) = t.end[p] /\ Contains(t.active.nodeIds, p)
        <5>1. u = [m EXCEPT !.active = nodeQueueRemoveIfExists(@, p)]
          BY <3>1, <3>2, <3>3, <4>3, ConstantFacts DEF DeactivateIfEmpty
        <5> QED
          BY <5>1, <3>2, <4>3 DEF Managers, TxManagers
      <4> QED
        BY <4>1, <4>2, <4>3
    <3>5. \A i \in Slots : i \notin freed <=> \A n \in Acked(t, p, Incr(ack)) : i # findPacketEntry(t, p, n)
      OBVIOUS
    <3> HIDE DEF m, u, freed
    <3>6. AckMoves(t, u, p, ack)
      BY <1>4, <2>1, <2>4, <3>2, <3>4, <3>5 DEF AckMoves
    <3> QED
      BY <1>1, <3>6 DEF u
  <2> QED
    BY <2>3, <2>4
<1> QED
  BY <1>2, <1>3, <1>4

(* nodeQueueRemoveIfExists on any queue, also one with an ID twice: the    *)
(* other IDs stay, and it gets one shorter if it changes.                  *)
LEMMA removeFromQueue ==
  ASSUME NEW q \in [nodeIds : Seq(Peers), lastIndex : Nat], NEW e \in Peers
  PROVE  LET r == nodeQueueRemoveIfExists(q, e)
         IN  /\ r.nodeIds \in Seq(Peers)
             /\ \A x : x # e => (Contains(r.nodeIds, x) <=> Contains(q.nodeIds, x))
             /\ ~Contains(q.nodeIds, e) => r = q
             /\ numNodes(r) \in Nat /\ numNodes(q) \in Nat
             /\ Contains(q.nodeIds, e) => numNodes(r) = numNodes(q) - 1
             /\ QueueFull(r) => QueueFull(q)
<1> DEFINE r == nodeQueueRemoveIfExists(q, e)
           s == q.nodeIds
           ids == RemoveFirst(s, e)
<1>1. s \in Seq(Peers) /\ Len(s) \in Nat /\ MaxNodes \in Nat
  BY TxManagerAssumption
<1>2. CASE ~Contains(s, e)
  BY <1>1, <1>2 DEF nodeQueueRemoveIfExists, numNodes
<1>3. CASE Contains(s, e)
  <2>1. r.nodeIds = ids
    BY <1>3 DEF nodeQueueRemoveIfExists
  <2>2. PICK i \in 1 .. Len(s) :
             /\ s[i] = e
             /\ ids \in Seq(Peers)
             /\ Len(ids) = Len(s) - 1
             /\ \A k \in 1 .. Len(ids) : ids[k] = IF k < i THEN s[k] ELSE s[k + 1]
    BY <1>1, <1>3, RemoveFirstFacts
  <2> HIDE DEF ids, r
  <2>3. ASSUME NEW x, x # e PROVE Contains(ids, x) <=> Contains(s, x)
    <3>1. ASSUME NEW k \in 1 .. Len(ids), ids[k] = x PROVE Contains(s, x)
      <4>1. k \in 1 .. Len(s) /\ k + 1 \in 1 .. Len(s)
        BY <1>1, <2>2
      <4> QED
        BY <3>1, <4>1, <2>2 DEF Contains
    <3>2. ASSUME NEW k \in 1 .. Len(s), s[k] = x PROVE Contains(ids, x)
      <4>1. k # i
        BY <2>2, <2>3, <3>2
      <4>2. CASE k < i
        <5>1. k \in 1 .. Len(ids) /\ ids[k] = x
          BY <1>1, <2>2, <3>2, <4>2
        <5> QED
          BY <5>1 DEF Contains
      <4>3. CASE k > i
        <5>1. k - 1 \in 1 .. Len(ids) /\ ids[k - 1] = x
          BY <1>1, <2>2, <3>2, <4>3
        <5> QED
          BY <5>1 DEF Contains
      <4> QED
        BY <4>1, <4>2, <4>3
    <3> QED
      BY <3>1, <3>2 DEF Contains
  <2>4. numNodes(r) = numNodes(q) - 1 /\ numNodes(r) \in Nat /\ numNodes(q) \in Nat
    BY <1>1, <2>1, <2>2 DEF numNodes
  <2>5. QueueFull(r) => QueueFull(q)
    BY <1>1, <2>4 DEF QueueFull
  <2> QED
    BY <1>3, <2>1, <2>2, <2>3, <2>4, <2>5 DEF r
<1> QED
  BY <1>2, <1>3

(* Which interruptions Interrupts records. *)
LEMMA InterruptFacts ==
  ASSUME NEW new, NEW P
  PROVE  LET I == Interrupts(new, P)
         IN  /\ "shift" \in I <=> /\ pc = "written" \/ scan > 0
                                  /\ numNodes(new.active) < numNodes(tm.active)
             /\ "empty" \in I <=> /\ pc = "searching" /\ Contains(tm.active.nodeIds, dst)
                                  /\ ~Contains(new.active.nodeIds, dst) /\ ~removed
             /\ "wrap" \in I <=> dst \in P /\ pc = "incremented" /\ tm.end[dst] = MaxSequenceNum
             /\ "orphan" \in I <=> dst \in P /\ removed
             /\ "header" \in I <=>
                  /\ pc \in {"allocated", "checked", "addressed"}
                  /\ tm.dst[tm.allocated] \in P
                  /\ validSeqNum(tm, tm.dst[tm.allocated], tm.seq[tm.allocated])
             /\ I \subseteq {"shift", "empty", "wrap", "orphan", "header"}
BY DEF Interrupts

(* An interruption that did not happen did not happen before. *)
LEMMA WithoutBefore ==
  ASSUME NEW W, cutIn \subseteq cutIn', Without(W)'
  PROVE  Without(W)
BY DEF Without

(* The window of a destination, in the terms of the invariant. *)
LEMMA WindowFacts ==
  ASSUME TypeOK, NEW d \in Peers
  PROVE  /\ tm.start[d] \in SeqNums /\ WrappedEnd(d) \in SeqNums /\ tm.next[d] \in SeqNums
         /\ Pending(d) \in Nat /\ Pending(d) < MaxSequenceNum
         /\ Pending(d) = 0 <=> tm.start[d] = WrappedEnd(d)
         /\ tm.end[d] # MaxSequenceNum => tm.end[d] \in SeqNums /\ WrappedEnd(d) = tm.end[d]
         /\ \A n \in SeqNums :
              tm.end[d] # MaxSequenceNum \/ tm.start[d] # 0 =>
                (validSeqNum(tm, d, n) <=> InWindow(d, n))
<1>1. tm \in Managers
  BY DEF TypeOK, Managers
<1>2. tm.start[d] \in SeqNums /\ tm.next[d] \in SeqNums /\ tm.end[d] \in 0 .. MaxSequenceNum
  BY <1>1, FieldTypes
<1>3. WrappedEnd(d) \in SeqNums
  BY <1>2, ConstantFacts DEF WrappedEnd
<1>4. /\ Pending(d) \in Nat /\ Pending(d) < MaxSequenceNum
      /\ Pending(d) = 0 <=> tm.start[d] = WrappedEnd(d)
  BY <1>2, <1>3, DistType DEF Pending
<1>5. tm.end[d] # MaxSequenceNum => tm.end[d] \in SeqNums /\ WrappedEnd(d) = tm.end[d]
  BY <1>2, ConstantFacts DEF WrappedEnd
<1>6. ASSUME NEW n \in SeqNums, tm.end[d] # MaxSequenceNum
      PROVE  validSeqNum(tm, d, n) <=> InWindow(d, n)
  BY <1>2, <1>5, <1>6, validSeqNumTest DEF InWindow, Pending
<1>7. ASSUME NEW n \in SeqNums, tm.end[d] = MaxSequenceNum, tm.start[d] # 0
      PROVE  validSeqNum(tm, d, n) <=> InWindow(d, n)
  <2>1. WrappedEnd(d) = 0
    BY <1>7 DEF WrappedEnd
  <2> QED
    BY <1>2, <1>7, <2>1, ConstantFacts DEF validSeqNum, InWindow, Pending, Dist, SeqNums
<1> QED
  BY <1>2, <1>3, <1>4, <1>5, <1>6, <1>7

(***************************************************************************)
(* Steps that leave the store and the windows alone                        *)
(***************************************************************************)
(* If the same entries are live, with the same headers, in the same        *)
(* windows, what the invariant says of them stays true.                    *)
LEMMA SameStore ==
  ASSUME Complete, Kept, Expected, NextInWindow,
         tm'.start = tm.start, tm'.next = tm.next,
         \A d \in Peers : WrappedEnd(d)' = WrappedEnd(d),
         \A d : Orphaned(d)' <=> Orphaned(d),
         \A i \in Slots : Live(i)' <=> Live(i),
         \A i \in Slots : Live(i) => tm'.dst[i] = tm.dst[i] /\ tm'.seq[i] = tm.seq[i],
         \A d \in Peers : OnQueue(d) => OnQueue(d)',
         connected' = connected, connected \subseteq Peers, rxSeqNum' = rxSeqNum,
         cutIn \subseteq cutIn'
  PROVE  Complete' /\ Kept' /\ Expected' /\ NextInWindow'
<1>1. \A d \in Peers : Pending(d)' = Pending(d)
  BY DEF Pending
<1>2. \A d \in Peers, n \in SeqNums : InWindow(d, n)' <=> InWindow(d, n)
  BY <1>1 DEF InWindow
<1>3. \A i \in Slots : \A d, n : Holds(i, d, n)' <=> Holds(i, d, n)
  BY DEF Holds
<1>4. Complete'
  BY <1>2, <1>3, WithoutBefore DEF Complete
<1>5. ASSUME NEW i \in Slots, tm.dst[i] \in Peers, Live(i)
      PROVE  InWindow(tm.dst[i], tm.seq[i])' <=> InWindow(tm.dst[i], tm.seq[i])
  BY <1>1, <1>5 DEF InWindow
<1>6. Kept'
  <2> SUFFICES ASSUME Without(Mixed \cup {"leak"})'
               PROVE  /\ \A i \in Slots : Live(i)' =>
                           /\ tm'.dst[i] \in Peers
                           /\ Orphaned(tm.dst[i])' \/ InWindow(tm.dst[i], tm.seq[i])'
                      /\ \A i, j \in Slots : Live(i)' /\ Holds(j, tm.dst[i], tm.seq[i])' =>
                           Orphaned(tm.dst[i])' \/ i = j
    BY DEF Kept
  <2>1. Without(Mixed \cup {"leak"})
    BY WithoutBefore
  <2>2. ASSUME NEW i \in Slots, Live(i)'
        PROVE  /\ tm'.dst[i] \in Peers
               /\ Orphaned(tm.dst[i])' \/ InWindow(tm.dst[i], tm.seq[i])'
    <3>1. /\ Live(i) /\ tm.dst[i] \in Peers
          /\ tm'.dst[i] = tm.dst[i] /\ tm'.seq[i] = tm.seq[i]
          /\ Orphaned(tm.dst[i]) \/ InWindow(tm.dst[i], tm.seq[i])
      BY <2>1, <2>2 DEF Kept
    <3>2. Orphaned(tm.dst[i])' <=> Orphaned(tm.dst[i])
      BY <3>1 DEF Orphaned
    <3> QED
      BY <3>1, <3>2, <1>5
  <2>3. ASSUME NEW i \in Slots, NEW j \in Slots, Live(i)', Holds(j, tm.dst[i], tm.seq[i])'
        PROVE  Orphaned(tm.dst[i])' \/ i = j
    <3>1. Live(i) /\ tm'.dst[i] = tm.dst[i] /\ tm'.seq[i] = tm.seq[i]
      BY <2>3
    <3>2. Holds(j, tm.dst[i], tm.seq[i])
      BY <2>3, <3>1 DEF Holds
    <3>3. Orphaned(tm.dst[i])' <=> Orphaned(tm.dst[i])
      BY <3>1 DEF Orphaned
    <3> QED
      BY <2>1, <3>1, <3>2, <3>3 DEF Kept
  <2> QED
    BY <2>2, <2>3
<1>7. Expected'
  BY <1>1, WithoutBefore DEF Expected
<1>8. NextInWindow'
  BY <1>1, WithoutBefore DEF NextInWindow
<1> QED
  BY <1>4, <1>6, <1>7, <1>8

(* The application's variables in a state of the invariant. *)
LEMMA ControlFacts ==
  ASSUME Inductive
  PROVE  /\ tm \in Managers /\ connected \subseteq Peers /\ pc \in Pcs
         /\ tm.allocated \in Slots <=> pc \notin {"idle", "cleared"}
         /\ Submitting => dst \in Peers /\ packet \in Slots
         /\ Submitting /\ pc # "cleared" => packet = tm.allocated
         /\ \A d \in Peers : WrappedEnd(d) = tm.end[d] \/ (d = dst /\ pc = "incremented")
         /\ \A i \in Slots : tm.dst[i] \in Peers \cup {NoPeer} /\ tm.seq[i] \in SeqNums
<1>1. tm \in Managers
  BY DEF Inductive, TypeOK, Managers
<1>2. tm.allocated \in Slots \cup {NoSlot} /\ NoSlot \notin Slots
  BY <1>1, FieldTypes, ConstantFacts
<1> QED
  BY <1>1, <1>2, FieldTypes DEF Inductive, TypeOK, Control, Submitting, WrappedEnd, Pcs

(* nodeQueueAdd's search, one place further on. *)
LEMMA SearchOnInductive ==
  ASSUME Inductive, SearchOn
  PROVE  Inductive'
<1>1. /\ UNCHANGED <<tm, connected, rxSeqNum, dst, packet, behind, removed, cutIn>>
      /\ pc = "searching" /\ pc' = "searching" /\ scan' = scan + 1
      /\ scan < numNodes(tm.active) /\ tm.active.nodeIds[scan + 1] # dst
  BY DEF SearchOn, Step
<1>2. tm \in Managers /\ scan \in Nat /\ numNodes(tm.active) \in Nat
  BY ControlFacts, FieldTypes DEF Inductive, TypeOK, numNodes
<1>3. TypeOK'
  BY <1>1, <1>2 DEF Inductive, TypeOK
<1>4. Control' /\ Header' /\ RoomOnQueue' /\ Reserved' /\ AbsentForgotten' /\ QueueKept'
      /\ NoAssertionFails'
  BY <1>1 DEF Inductive, Control, Header, RoomOnQueue, Reserved, AbsentForgotten, QueueKept,
              NoAssertionFails, Submitting, Unpublished, Without, WrappedEnd, Orphaned, OnQueue,
              Pending
<1>5. Complete' /\ Kept' /\ Expected' /\ NextInWindow'
  BY <1>1 DEF Inductive, Complete, Kept, Expected, NextInWindow, Without, InWindow, Orphaned,
              Holds, Live, Unpublished, OnQueue, Pending, WrappedEnd
<1>6. Searched'
  <2> SUFFICES ASSUME Without({"shift"})
               PROVE  scan + 1 <= numNodes(tm.active) /\
                      \A k \in 1 .. scan + 1 : tm.active.nodeIds[k] # dst
    BY <1>1 DEF Inductive, Searched, Without, OnQueue
  <2>1. \A k \in 1 .. scan : tm.active.nodeIds[k] # dst
    BY DEF Inductive, Searched
  <2>2. \A k \in 1 .. scan + 1 : k \in 1 .. scan \/ k = scan + 1
    BY <1>2
  <2> QED
    BY <1>1, <1>2, <2>1, <2>2
<1> QED
  BY <1>3, <1>4, <1>5, <1>6 DEF Inductive

(* A step from one place to another that changes no variable but scan and  *)
(* behind, which nobody reads there.                                       *)
LEMMA SearchEndsInductive ==
  ASSUME Inductive, SearchEnds
  PROVE  Inductive'
<1>1. /\ UNCHANGED <<tm, connected, rxSeqNum, dst, packet, behind, removed, cutIn>>
      /\ pc = "searching" /\ scan' = 0
      /\ pc' = IF scan < numNodes(tm.active) THEN "queued" ELSE "absent"
      /\ scan < numNodes(tm.active) => tm.active.nodeIds[scan + 1] = dst
  BY DEF SearchEnds, Step
<1>2. tm \in Managers /\ scan \in Nat /\ numNodes(tm.active) \in Nat
  BY ControlFacts, FieldTypes DEF Inductive, TypeOK, numNodes
<1>3. TypeOK'
  BY <1>1, <1>2 DEF Inductive, TypeOK
<1>4. pc' \in {"queued", "absent"}
  BY <1>1
<1>5. Control' /\ Header' /\ RoomOnQueue' /\ Reserved' /\ AbsentForgotten' /\ NoAssertionFails'
  BY <1>1, <1>4 DEF Inductive, Control, Header, RoomOnQueue, Reserved, AbsentForgotten,
              NoAssertionFails, Submitting, Unpublished, Without, WrappedEnd, OnQueue
<1>6. Complete' /\ Kept' /\ Expected' /\ NextInWindow'
  <2>1. \A i \in Slots : Live(i)' <=> Live(i)
    BY <1>1, <1>4 DEF Live, Unpublished
  <2> QED
    BY <1>1, <2>1, SameStore, ControlFacts DEF Inductive, Orphaned, WrappedEnd, OnQueue
<1>7. Searched'
  <2> SUFFICES ASSUME Without({"shift"}), ~(scan < numNodes(tm.active)) PROVE ~OnQueue(dst)
    BY <1>1, <1>2, <1>4 DEF Inductive, Searched, Without, OnQueue
  <2>1. scan = numNodes(tm.active) /\ \A k \in 1 .. scan : tm.active.nodeIds[k] # dst
    BY <1>2 DEF Inductive, Searched
  <2> QED
    BY <2>1 DEF OnQueue, Contains, numNodes
<1>8. QueueKept'
  <2> SUFFICES ASSUME Without(Mixed \cup {"shift", "empty", "wrap"}), pc' = "queued", ~Orphaned(dst)
               PROVE  OnQueue(dst) <=> Pending(dst) # 0
    BY <1>1, <1>4 DEF Inductive, QueueKept, Without, Orphaned, OnQueue, Pending, WrappedEnd
  <2>1. scan < numNodes(tm.active) /\ tm.active.nodeIds[scan + 1] = dst
    BY <1>1
  <2>2. OnQueue(dst)
    <3>1. scan + 1 \in 1 .. Len(tm.active.nodeIds)
      BY <1>2, <2>1 DEF numNodes
    <3> QED
      BY <2>1, <3>1 DEF OnQueue, Contains
  <2>3. Pending(dst) # 0
    BY <1>1 DEF Inductive, QueueKept
  <2> QED
    BY <2>2, <2>3
<1> QED
  BY <1>3, <1>5, <1>6, <1>7, <1>8 DEF Inductive

(* The time to live is there: the submission starts. *)
LEMMA CheckTimeToLiveInductive ==
  ASSUME Inductive, NEW d \in Peers, CheckTimeToLive(d)
  PROVE  Inductive'
<1>1. /\ UNCHANGED <<tm, connected, rxSeqNum, behind, cutIn, scan>>
      /\ pc = "allocated" /\ pc' = "checked" /\ d \in connected
      /\ dst' = d /\ packet' = tm.allocated /\ removed' = FALSE
  BY DEF CheckTimeToLive, Step
<1>2. tm.allocated \in Slots /\ dst = NoDst /\ ~removed /\ NoDst \notin Peers /\ scan = 0
  BY <1>1, ControlFacts, ConstantFacts DEF Inductive, Control, Submitting
<1>3. TypeOK'
  BY <1>1, <1>2 DEF Inductive, TypeOK
<1>4. \A e \in Peers : tm.end[e] # MaxSequenceNum
  BY <1>1 DEF Inductive, Control
<1>5. Control' /\ Header' /\ RoomOnQueue' /\ Reserved'
  BY <1>1, <1>2, <1>4, ConstantFacts
     DEF Inductive, Control, Header, RoomOnQueue, Reserved, Submitting, Unpublished, Without
<1>6. Complete' /\ Kept' /\ Expected' /\ NextInWindow'
  <2>1. \A i \in Slots : Live(i)' <=> Live(i)
    BY <1>1 DEF Live, Unpublished
  <2>2. \A e : Orphaned(e)' <=> Orphaned(e)
    BY <1>1, <1>2 DEF Orphaned
  <2> QED
    BY <1>1, <2>1, <2>2, SameStore, ControlFacts DEF Inductive, WrappedEnd, OnQueue
<1>7. Searched' /\ AbsentForgotten' /\ NoAssertionFails'
  BY <1>1, <1>2 DEF Inductive, Searched, AbsentForgotten, NoAssertionFails, Without, OnQueue
<1>8. QueueKept'
  BY <1>1, <1>2 DEF Inductive, QueueKept, Without, Orphaned, OnQueue, Pending, WrappedEnd
<1> QED
  BY <1>3, <1>5, <1>6, <1>7, <1>8 DEF Inductive

(* The ID is written behind the queue, where it does not count yet. *)
LEMMA WriteNodeIdInductive ==
  ASSUME Inductive, WriteNodeId
  PROVE  Inductive'
<1>1. /\ UNCHANGED <<tm, connected, rxSeqNum, dst, packet, scan, removed, cutIn>>
      /\ pc = "absent" /\ pc' = "written" /\ behind' = dst
  BY DEF WriteNodeId, Step
<1>2. dst \in Peers
  BY <1>1, ControlFacts DEF Submitting
<1>3. TypeOK'
  BY <1>1, <1>2 DEF Inductive, TypeOK
<1>4. Control' /\ Header' /\ RoomOnQueue' /\ Reserved' /\ AbsentForgotten' /\ NoAssertionFails'
  BY <1>1 DEF Inductive, Control, Header, RoomOnQueue, Reserved, AbsentForgotten,
              NoAssertionFails, Submitting, Unpublished, Without, WrappedEnd, OnQueue
<1>5. Complete' /\ Kept' /\ Expected' /\ NextInWindow'
  <2>1. \A i \in Slots : Live(i)' <=> Live(i)
    BY <1>1 DEF Live, Unpublished
  <2> QED
    BY <1>1, <2>1, SameStore, ControlFacts DEF Inductive, Orphaned, WrappedEnd, OnQueue
<1>6. Searched' /\ QueueKept'
  BY <1>1 DEF Inductive, Searched, QueueKept, Without, Orphaned, OnQueue, Pending, WrappedEnd
<1> QED
  BY <1>3, <1>4, <1>5, <1>6 DEF Inductive

(* The comparison with txSeqNumStart: a window that was empty has to go on *)
(* the queue, any other is there.                                          *)
LEMMA CompareStartInductive ==
  ASSUME Inductive, CompareStart
  PROVE  Inductive'
<1> DEFINE wasEmpty == tm.seq[packet] = tm.start[dst]
<1>1. /\ UNCHANGED <<connected, rxSeqNum, dst, packet, behind, removed, cutIn>>
      /\ pc = "wrapped" /\ scan' = 0
      /\ pc' = IF wasEmpty THEN "searching" ELSE "queued"
      /\ tm' = IF wasEmpty /\ QueueFull(tm.active) THEN Faulty(tm) ELSE tm
  BY DEF CompareStart, Step
<1>2. tm' = tm
  BY <1>1 DEF Inductive, RoomOnQueue
<1>3. pc' \in {"searching", "queued"} /\ scan = 0
  BY <1>1 DEF Inductive, Control
<1>4. dst \in Peers /\ packet \in Slots
  BY <1>1, ControlFacts DEF Submitting
<1>5. TypeOK'
  BY <1>1, <1>2, <1>3 DEF Inductive, TypeOK
<1>6. Control' /\ Header' /\ RoomOnQueue' /\ Reserved' /\ AbsentForgotten' /\ NoAssertionFails'
  BY <1>1, <1>2, <1>3 DEF Inductive, Control, Header, RoomOnQueue, Reserved, AbsentForgotten,
              NoAssertionFails, Submitting, Unpublished, Without, WrappedEnd, OnQueue
<1>7. Complete' /\ Kept' /\ Expected' /\ NextInWindow'
  <2>1. \A i \in Slots : Live(i)' <=> Live(i)
    BY <1>1, <1>2, <1>3 DEF Live, Unpublished
  <2> QED
    BY <1>1, <1>2, <2>1, SameStore, ControlFacts DEF Inductive, Orphaned, WrappedEnd, OnQueue
<1>8. Searched'
  BY <1>1, <1>2, <1>3 DEF Inductive, Searched, Without, OnQueue
<1>9. QueueKept'
  <2> SUFFICES ASSUME Without(Mixed \cup {"shift", "empty", "wrap"})
               PROVE  /\ \A d \in Peers :
                           \/ Orphaned(d)
                           \/ OnQueue(d) <=> Pending(d) # 0
                           \/ d = dst /\ wasEmpty /\ ~OnQueue(d)
                      /\ wasEmpty => Orphaned(dst) \/ Pending(dst) # 0
    BY <1>1, <1>2, <1>3 DEF QueueKept, Without, Orphaned, OnQueue, Pending, WrappedEnd
  <2>1. \A d \in Peers :
           \/ Orphaned(d)
           \/ OnQueue(d) <=> Pending(d) # 0
           \/ d = dst /\ wasEmpty /\ ~OnQueue(d)
    BY <1>1 DEF Inductive, QueueKept
  <2>2. ASSUME wasEmpty, ~Orphaned(dst) PROVE Pending(dst) # 0
    <3>1. WrappedEnd(dst) = Incr(tm.start[dst])
      BY <1>1, <2>2 DEF Inductive, Header, Submitting, Unpublished, Orphaned
    <3>2. tm.start[dst] \in SeqNums
      BY <1>4, WindowFacts DEF Inductive
    <3> QED
      BY <3>1, <3>2, ConstantFacts DEF Pending, Dist, Incr, SeqNums
  <2> QED
    BY <2>1, <2>2
<1> QED
  BY <1>5, <1>6, <1>7, <1>8, <1>9 DEF Inductive

(* The wrap of txSeqNumEnd, which the invariant has taken for done. *)
LEMMA WrapEndInductive ==
  ASSUME Inductive, WrapEnd
  PROVE  Inductive'
<1>1. /\ UNCHANGED <<connected, rxSeqNum, dst, packet, behind, scan, removed, cutIn>>
      /\ pc = "incremented" /\ pc' = "wrapped"
      /\ tm' = [tm EXCEPT !.end[dst] = IF @ >= MaxSequenceNum THEN 0 ELSE @]
  BY DEF WrapEnd, Step
<1>2. dst \in Peers /\ packet \in Slots /\ tm \in Managers
  BY <1>1, ControlFacts DEF Submitting
<1>3. tm.end \in [Peers -> 0 .. MaxSequenceNum]
  BY <1>2, FieldTypes
<1> DEFINE e == IF tm.end[dst] >= MaxSequenceNum THEN 0 ELSE tm.end[dst]
           ends == [tm.end EXCEPT ![dst] = e]
<1>4. e \in SeqNums /\ e = WrappedEnd(dst)
  BY <1>2, <1>3, ConstantFacts DEF WrappedEnd, SeqNums
<1>5. ends \in [Peers -> 0 .. MaxSequenceNum] /\ \A d \in Peers : ends[d] # MaxSequenceNum
  <2>1. \A d \in Peers : d # dst => tm.end[d] # MaxSequenceNum
    BY DEF Inductive, Control
  <2> HIDE DEF e
  <2> QED
    BY <1>2, <1>3, <1>4, <2>1, ConstantFacts
<1>6. \A d \in Peers : ends[d] = WrappedEnd(d)
  <2>1. \A d \in Peers : d # dst => WrappedEnd(d) = tm.end[d]
    BY ControlFacts
  <2> HIDE DEF e
  <2> QED
    BY <1>2, <1>3, <1>4, <2>1
<1>7. tm' = [tm EXCEPT !.end = ends]
  BY <1>1, <1>2 DEF Managers, TxManagers
<1> HIDE DEF e, ends
<1>8. /\ tm' \in Managers /\ tm'.end = ends
      /\ tm'.inUse = tm.inUse /\ tm'.dst = tm.dst /\ tm'.seq = tm.seq
      /\ tm'.allocated = tm.allocated /\ tm'.start = tm.start /\ tm'.next = tm.next
      /\ tm'.active = tm.active /\ tm'.fault = tm.fault
  BY <1>2, <1>5, <1>7 DEF Managers, TxManagers
<1>9. \A d \in Peers : WrappedEnd(d)' = WrappedEnd(d)
  BY <1>5, <1>6, <1>8 DEF WrappedEnd
<1>10. TypeOK'
  BY <1>1, <1>8 DEF Inductive, TypeOK, Managers
<1>11. Control' /\ Header' /\ RoomOnQueue' /\ Reserved' /\ NoAssertionFails'
  BY <1>1, <1>2, <1>5, <1>8, <1>9 DEF Inductive, Control, Header, RoomOnQueue, Reserved,
              NoAssertionFails, Submitting, Unpublished, Without
<1>12. AbsentForgotten'
  <2>1. \A d \in Peers : d # dst => tm'.end[d] = tm.end[d]
    BY <1>2, <1>3, <1>8 DEF ends
  <2> QED
    BY <1>1, <1>8, <2>1 DEF Inductive, AbsentForgotten, Without, OnQueue
<1>13. Complete' /\ Kept' /\ Expected' /\ NextInWindow'
  <2>1. \A i \in Slots : Live(i)' <=> Live(i)
    BY <1>1, <1>8 DEF Live, Unpublished
  <2> QED
    BY <1>1, <1>8, <1>9, <2>1, SameStore, ControlFacts DEF Inductive, Orphaned, OnQueue
<1>14. Searched'
  BY <1>1, <1>8 DEF Inductive, Searched, Without, OnQueue
<1>15. QueueKept'
  BY <1>1, <1>2, <1>8, <1>9 DEF Inductive, QueueKept, Without, Orphaned, OnQueue, Pending
<1> QED
  BY <1>10, <1>11, <1>12, <1>13, <1>14, <1>15 DEF Inductive

(***************************************************************************)
(* Steps that write the entry's header and the end of the window           *)
(***************************************************************************)
(* The destination is written into an entry that is in no window. *)
LEMMA WriteDstInductive ==
  ASSUME Inductive, WriteDst
  PROVE  Inductive'
<1>1. /\ UNCHANGED <<connected, rxSeqNum, dst, packet, behind, scan, removed, cutIn>>
      /\ pc = "checked" /\ pc' = "addressed"
      /\ tm' = [tm EXCEPT !.dst[packet] = dst]
  BY DEF WriteDst, Step
<1>2. dst \in Peers /\ packet \in Slots /\ tm \in Managers /\ packet = tm.allocated
  BY <1>1, ControlFacts DEF Submitting
<1>3. /\ tm' \in Managers /\ tm'.dst = [tm.dst EXCEPT ![packet] = dst]
      /\ tm'.inUse = tm.inUse /\ tm'.seq = tm.seq /\ tm'.end = tm.end
      /\ tm'.allocated = tm.allocated /\ tm'.start = tm.start /\ tm'.next = tm.next
      /\ tm'.active = tm.active /\ tm'.fault = tm.fault
  BY <1>1, <1>2 DEF Managers, TxManagers
<1>4. /\ tm'.dst[packet] = dst
      /\ \A i \in Slots : i # packet => tm'.dst[i] = tm.dst[i]
  BY <1>2, <1>3, FieldTypes
<1>5. TypeOK'
  BY <1>1, <1>3 DEF Inductive, TypeOK, Managers
<1>6. Control' /\ Header' /\ RoomOnQueue' /\ Reserved' /\ NoAssertionFails'
  BY <1>1, <1>2, <1>3, <1>4 DEF Inductive, Control, Header, RoomOnQueue, Reserved,
              NoAssertionFails, Submitting, Unpublished, Without
<1>7. AbsentForgotten'
  BY <1>1, <1>2, <1>3, <1>4 DEF Inductive, AbsentForgotten, Without, OnQueue
<1>8. Complete' /\ Kept' /\ Expected' /\ NextInWindow'
  <2>1. \A i \in Slots : /\ Live(i)' <=> Live(i)
                         /\ Live(i) => tm'.dst[i] = tm.dst[i] /\ tm'.seq[i] = tm.seq[i]
    BY <1>1, <1>2, <1>3, <1>4 DEF Live, Unpublished
  <2> QED
    BY <1>1, <1>3, <2>1, SameStore, ControlFacts DEF Inductive, Orphaned, OnQueue, WrappedEnd
<1>9. Searched' /\ QueueKept'
  BY <1>1, <1>3 DEF Inductive, Searched, QueueKept, Without, Orphaned, OnQueue, Pending, WrappedEnd
<1> QED
  BY <1>5, <1>6, <1>7, <1>8, <1>9 DEF Inductive

(* And its number, the one behind the window. *)
LEMMA WriteSeqNumInductive ==
  ASSUME Inductive, WriteSeqNum
  PROVE  Inductive'
<1>1. /\ UNCHANGED <<connected, rxSeqNum, dst, packet, behind, scan, removed, cutIn>>
      /\ pc = "addressed" /\ pc' = "numbered"
      /\ tm' = [tm EXCEPT !.seq[packet] = tm.end[dst]]
  BY DEF WriteSeqNum, Step
<1>2. dst \in Peers /\ packet \in Slots /\ tm \in Managers /\ packet = tm.allocated
  BY <1>1, ControlFacts DEF Submitting
<1>3. tm.end[dst] \in SeqNums
  BY <1>1, <1>2, WindowFacts DEF Inductive, Control
<1>4. /\ tm' \in Managers /\ tm'.seq = [tm.seq EXCEPT ![packet] = tm.end[dst]]
      /\ tm'.inUse = tm.inUse /\ tm'.dst = tm.dst /\ tm'.end = tm.end
      /\ tm'.allocated = tm.allocated /\ tm'.start = tm.start /\ tm'.next = tm.next
      /\ tm'.active = tm.active /\ tm'.fault = tm.fault
  BY <1>1, <1>2, <1>3 DEF Managers, TxManagers
<1>5. /\ tm'.seq[packet] = tm.end[dst]
      /\ \A i \in Slots : i # packet => tm'.seq[i] = tm.seq[i]
  BY <1>2, <1>4, FieldTypes
<1>6. TypeOK'
  BY <1>1, <1>4 DEF Inductive, TypeOK, Managers
<1>7. Control' /\ Header' /\ RoomOnQueue' /\ Reserved' /\ NoAssertionFails'
  BY <1>1, <1>2, <1>4, <1>5 DEF Inductive, Control, Header, RoomOnQueue, Reserved,
              NoAssertionFails, Submitting, Unpublished, Without
<1>8. AbsentForgotten'
  BY <1>1, <1>4 DEF Inductive, AbsentForgotten, Without, OnQueue
<1>9. Complete' /\ Kept' /\ Expected' /\ NextInWindow'
  <2>1. \A i \in Slots : /\ Live(i)' <=> Live(i)
                         /\ Live(i) => tm'.dst[i] = tm.dst[i] /\ tm'.seq[i] = tm.seq[i]
    BY <1>1, <1>2, <1>4, <1>5 DEF Live, Unpublished
  <2> QED
    BY <1>1, <1>4, <2>1, SameStore, ControlFacts DEF Inductive, Orphaned, OnQueue, WrappedEnd
<1>10. Searched' /\ QueueKept'
  BY <1>1, <1>4 DEF Inductive, Searched, QueueKept, Without, Orphaned, OnQueue, Pending, WrappedEnd
<1> QED
  BY <1>6, <1>7, <1>8, <1>9, <1>10 DEF Inductive

(* The number k places into the window to d. *)
NumberAt(d, k) == CHOOSE n \in SeqNums : Dist(tm.start[d], n) = k

LEMMA NumberAtFacts ==
  ASSUME TypeOK, NEW d \in Peers, NEW k \in Nat, k < MaxSequenceNum
  PROVE  NumberAt(d, k) \in SeqNums /\ Dist(tm.start[d], NumberAt(d, k)) = k
<1> DEFINE m == IF tm.start[d] + k < MaxSequenceNum THEN tm.start[d] + k
                ELSE tm.start[d] + k - MaxSequenceNum
<1>1. tm.start[d] \in SeqNums
  BY WindowFacts
<1>2. m \in SeqNums /\ Dist(tm.start[d], m) = k
  BY <1>1, TxManagerAssumption DEF SeqNums, Dist
<1> QED
  BY <1>2 DEF NumberAt

(* While an entry is allocated and not yet in a window, fewer packets are  *)
(* queued for a destination than there are entries: the increment of       *)
(* txSeqNumEnd cannot catch up with txSeqNumStart.                         *)
LEMMA Capacity ==
  ASSUME TypeOK, NEW d \in Peers, Unpublished, tm.allocated \in Slots,
         \A n \in SeqNums : InWindow(d, n) => \E i \in Slots : Holds(i, d, n)
  PROVE  Pending(d) + 1 < MaxSequenceNum
<1> DEFINE U == Pending(d)
           E == Slots \ {tm.allocated}
           f == [k \in 1 .. U |-> CHOOSE i \in Slots : Holds(i, d, NumberAt(d, k - 1))]
<1>1. U \in Nat /\ U < MaxSequenceNum
  BY WindowFacts
<1> HIDE DEF U
<1>2. ASSUME NEW k \in 1 .. U
      PROVE  f[k] \in E /\ Dist(tm.start[d], tm.seq[f[k]]) = k - 1
  <2>1. k - 1 \in Nat /\ k - 1 < U /\ k - 1 < MaxSequenceNum
    BY <1>1, TxManagerAssumption
  <2>2. NumberAt(d, k - 1) \in SeqNums /\ Dist(tm.start[d], NumberAt(d, k - 1)) = k - 1
    BY <2>1, NumberAtFacts
  <2>3. InWindow(d, NumberAt(d, k - 1))
    BY <2>1, <2>2 DEF InWindow, U
  <2>4. f[k] \in Slots /\ Holds(f[k], d, NumberAt(d, k - 1))
    BY <2>2, <2>3
  <2> QED
    BY <2>2, <2>4 DEF Holds, Live
<1>3. f \in [1 .. U -> E]
  BY <1>2
<1> HIDE DEF f
<1>4. \A j, k \in 1 .. U : f[j] = f[k] => j = k
  <2> SUFFICES ASSUME NEW j \in 1 .. U, NEW k \in 1 .. U, f[j] = f[k] PROVE j = k
    OBVIOUS
  <2>1. j - 1 = k - 1
    BY <1>2
  <2> QED
    BY <2>1
<1>5. IsFiniteSet(Slots) /\ Cardinality(Slots) = MaxPacketEntries
  BY FS_Interval, TxManagerAssumption DEF Slots
<1>6. IsFiniteSet(E) /\ Cardinality(E) = MaxPacketEntries - 1
  BY <1>5, FS_RemoveElement
<1> HIDE DEF E
<1>7. U <= Cardinality(E)
  BY <1>1, <1>3, <1>4, <1>6, Pigeonhole
<1> QED
  BY <1>1, <1>6, <1>7, TxManagerAssumption DEF U

(* The increment of txSeqNumEnd puts the packet into the window. *)
LEMMA IncrementEndInductive ==
  ASSUME Inductive, IncrementEnd
  PROVE  Inductive'
<1>1. /\ UNCHANGED <<connected, rxSeqNum, dst, packet, behind, scan, removed, cutIn>>
      /\ pc = "numbered" /\ pc' = "incremented"
      /\ tm' = [tm EXCEPT !.end[dst] = @ + 1]
  BY DEF IncrementEnd, Step
<1>2. /\ dst \in Peers /\ packet \in Slots /\ tm \in Managers /\ packet = tm.allocated
      /\ Submitting /\ Unpublished /\ TypeOK
  BY <1>1, ControlFacts DEF Submitting, Unpublished, Inductive
<1> DEFINE e == tm.end[dst]
           ends == [tm.end EXCEPT ![dst] = e + 1]
<1>3. \A d \in Peers : tm.end[d] \in SeqNums /\ WrappedEnd(d) = tm.end[d]
  BY <1>1, <1>2, WindowFacts DEF Inductive, Control
<1>4. e + 1 \in 0 .. MaxSequenceNum /\ Incr(e) = IF e + 1 = MaxSequenceNum THEN 0 ELSE e + 1
  BY <1>2, <1>3, ConstantFacts DEF SeqNums, Incr
<1>5. tm.end \in [Peers -> 0 .. MaxSequenceNum]
  BY <1>2, FieldTypes
<1>6. /\ ends \in [Peers -> 0 .. MaxSequenceNum] /\ ends[dst] = e + 1
      /\ \A d \in Peers : d # dst => ends[d] = tm.end[d]
  <2> HIDE DEF e
  <2> QED
    BY <1>2, <1>4, <1>5
<1>7. tm' = [tm EXCEPT !.end = ends]
  BY <1>1, <1>2 DEF Managers, TxManagers
<1> HIDE DEF ends
<1>8. /\ tm' \in Managers /\ tm'.end = ends
      /\ tm'.inUse = tm.inUse /\ tm'.dst = tm.dst /\ tm'.seq = tm.seq
      /\ tm'.allocated = tm.allocated /\ tm'.start = tm.start /\ tm'.next = tm.next
      /\ tm'.active = tm.active /\ tm'.fault = tm.fault
  BY <1>2, <1>6, <1>7 DEF Managers, TxManagers
<1>9. /\ \A d \in Peers : d = dst => WrappedEnd(d)' = Incr(e)
      /\ \A d \in Peers : d # dst => WrappedEnd(d)' = WrappedEnd(d) /\ Pending(d)' = Pending(d)
      /\ \A d \in Peers, n \in SeqNums : d # dst => (InWindow(d, n)' <=> InWindow(d, n))
  <2>1. \A d \in Peers : d = dst => WrappedEnd(d)' = Incr(e)
    BY <1>4, <1>6, <1>8 DEF WrappedEnd
  <2>2. \A d \in Peers : d # dst => WrappedEnd(d)' = WrappedEnd(d)
    BY <1>6, <1>8 DEF WrappedEnd
  <2> QED
    BY <1>8, <2>1, <2>2 DEF Pending, InWindow
<1>10. TypeOK'
  BY <1>1, <1>8 DEF Inductive, TypeOK, Managers
<1>11. tm.dst[packet] = dst /\ (~removed => tm.seq[packet] = e)
  BY <1>1, <1>2 DEF Inductive, Header
<1>12. ASSUME ~removed, Without(Mixed \cup {"wrap"}) \/ Without(Mixed \cup {"leak"})
       PROVE  /\ \A d \in Peers : d = dst =>
                   /\ Pending(d)' = Pending(d) + 1
                   /\ \A n \in SeqNums : InWindow(d, n)' <=> InWindow(d, n) \/ n = e
              /\ ~InWindow(dst, e)
  <2>1. \A n \in SeqNums : InWindow(dst, n) => \E i \in Slots : Holds(i, dst, n)
    BY <1>2, <1>12 DEF Inductive, Complete, Orphaned
  <2>2. Pending(dst) + 1 < MaxSequenceNum
    BY <1>2, <2>1, Capacity
  <2>3. tm.start[dst] \in SeqNums /\ e \in SeqNums /\ WrappedEnd(dst) = e
    BY <1>2, <1>3, WindowFacts
  <2>4. Dist(tm.start[dst], e) = Pending(dst)
    BY <2>3 DEF Pending
  <2>5. \A d \in Peers : d = dst => Pending(d)' = Dist(tm.start[d], Incr(e))
    BY <1>8, <1>9 DEF Pending
  <2> HIDE DEF e
  <2>6. \A d \in Peers : d = dst => Pending(d)' = Pending(d) + 1
    <3>1. Dist(tm.start[dst], Incr(e)) = Pending(dst) + 1
      BY <2>2, <2>3, <2>4, DistIncr
    <3> QED
      BY <2>5, <3>1
  <2>7. ASSUME NEW d \in Peers, d = dst, NEW n \in SeqNums
        PROVE  InWindow(d, n)' <=> InWindow(d, n) \/ n = e
    <3>1. Dist(tm.start[dst], n) \in Nat /\ Dist(tm.start[dst], e) \in Nat
      BY <2>3, DistType
    <3>2. Dist(tm.start[dst], n) = Dist(tm.start[dst], e) => n = e
      BY <2>3, DistInjective
    <3>3. InWindow(d, n)' <=> Dist(tm.start[d], n) < Pending(d) + 1
      BY <1>8, <2>6, <2>7 DEF InWindow
    <3> QED
      BY <2>4, <2>7, <3>1, <3>2, <3>3 DEF InWindow
  <2>8. ~InWindow(dst, e)
    BY <2>3, <2>4, DistType DEF InWindow
  <2> QED
    BY <2>6, <2>7, <2>8
<1>13. \A i \in Slots : Live(i)' <=> Live(i) \/ (i = packet /\ tm.inUse[i])
  BY <1>1, <1>2, <1>8 DEF Live, Unpublished
<1>14. \A d : Orphaned(d)' <=> Orphaned(d)
  BY <1>1 DEF Orphaned
<1>15. \A d \in Peers : OnQueue(d)' <=> OnQueue(d)
  BY <1>8 DEF OnQueue
<1>16. Control' /\ RoomOnQueue' /\ Reserved' /\ NoAssertionFails'
  BY <1>1, <1>2, <1>3, <1>6, <1>8, ConstantFacts DEF Inductive, Control, RoomOnQueue, Reserved,
              NoAssertionFails, Submitting, Unpublished, Without
<1>17. Header'
  <2>1. WrappedEnd(dst)' = Incr(e)
    BY <1>1, <1>2, <1>9 DEF WrappedEnd
  <2>2. ASSUME ~removed, Without(Mixed \cup {"wrap"}) PROVE tm.start[dst] # WrappedEnd(dst)'
    <3>1. PICK d \in Peers : d = dst
      BY <1>2
    <3>2. Pending(d)' # 0 /\ Pending(d)' = Dist(tm.start[d], Incr(e))
      BY <1>2, <1>8, <1>9, <1>12, <2>2, <3>1, WindowFacts DEF Pending
    <3>3. tm.start[dst] \in SeqNums /\ Incr(e) \in SeqNums
      BY <1>2, <1>3, WindowFacts, IncrType
    <3> QED
      BY <2>1, <3>1, <3>2, <3>3, DistType
  <2> HIDE DEF e
  <2> QED
    BY <1>1, <1>8, <1>11, <2>1, <2>2 DEF Header, Submitting, Unpublished, Without
<1>18. AbsentForgotten'
  BY <1>1, <1>6, <1>8 DEF Inductive, AbsentForgotten, Without, OnQueue
<1>19. Searched'
  BY <1>1, <1>8 DEF Inductive, Searched, Without, OnQueue
<1> HIDE DEF e
<1>20. Complete'
  <2> SUFFICES ASSUME Without(Mixed \cup {"wrap"}) \/ Without(Mixed \cup {"leak"}),
                      NEW d \in Peers, NEW n \in SeqNums, InWindow(d, n)', ~Orphaned(d)
               PROVE  \E i \in Slots : Live(i)' /\ tm.dst[i] = d /\ tm.seq[i] = n
    BY <1>1, <1>8, <1>14 DEF Complete, Holds, Without
  <2>1. CASE InWindow(d, n)
    BY <1>13, <2>1 DEF Inductive, Complete, Holds
  <2>2. CASE ~InWindow(d, n)
    <3>1. d = dst /\ ~removed
      BY <1>9, <2>2 DEF Orphaned
    <3>2. n = e
      BY <1>12, <2>2, <3>1
    <3>3. tm.inUse[packet]
      BY <1>2, <3>1 DEF Inductive, Reserved, Without
    <3> QED
      BY <1>2, <1>11, <1>13, <3>1, <3>2, <3>3
  <2> QED
    BY <2>1, <2>2
<1>21. Kept'
  <2> SUFFICES ASSUME Without(Mixed \cup {"leak"})
               PROVE  /\ \A i \in Slots : Live(i)' =>
                           /\ tm.dst[i] \in Peers
                           /\ Orphaned(tm.dst[i]) \/ InWindow(tm.dst[i], tm.seq[i])'
                      /\ \A i, j \in Slots : Live(i)' /\ Live(j)' /\ tm.dst[j] = tm.dst[i] /\ tm.seq[j] = tm.seq[i] =>
                           Orphaned(tm.dst[i]) \/ i = j
    <3>1. \A i \in Slots : Orphaned(tm.dst[i])' <=> Orphaned(tm.dst[i])
      BY <1>1, <1>8 DEF Orphaned
    <3> QED
      BY <1>1, <1>8, <3>1 DEF Kept, Holds, Without
  <2>1. ASSUME NEW i \in Slots, Live(i)
        PROVE  /\ tm.dst[i] \in Peers /\ tm.seq[i] \in SeqNums
               /\ Orphaned(tm.dst[i]) \/ InWindow(tm.dst[i], tm.seq[i])
    BY <2>1, ControlFacts DEF Inductive, Kept
  <2>2. ASSUME NEW i \in Slots, NEW j \in Slots, Live(i), Live(j),
               tm.dst[j] = tm.dst[i], tm.seq[j] = tm.seq[i]
        PROVE  Orphaned(tm.dst[i]) \/ i = j
    BY <2>2 DEF Inductive, Kept, Holds
  <2>3. \A d \in Peers, n \in SeqNums : InWindow(d, n) /\ ~Orphaned(d) => InWindow(d, n)'
    BY <1>9, <1>12 DEF Orphaned
  <2>4. ASSUME NEW i \in Slots, Live(i)'
        PROVE  /\ tm.dst[i] \in Peers
               /\ Orphaned(tm.dst[i]) \/ InWindow(tm.dst[i], tm.seq[i])'
    <3>1. ASSUME NEW n \in SeqNums, tm.seq[i] = n, tm.dst[i] \in Peers, InWindow(tm.dst[i], n)
          PROVE  Orphaned(tm.dst[i]) \/ InWindow(tm.dst[i], tm.seq[i])'
      <4>1. PICK d \in Peers : d = tm.dst[i]
        BY <3>1
      <4>2. InWindow(d, n)' => InWindow(tm.dst[i], tm.seq[i])'
        BY <3>1, <4>1, <1>8 DEF InWindow, Pending, WrappedEnd
      <4> QED
        BY <2>3, <3>1, <4>1, <4>2
    <3>2. CASE Live(i)
      BY <2>1, <3>1, <3>2
    <3>3. CASE ~Live(i)
      <4>1. i = packet /\ tm.dst[i] = dst
        BY <1>11, <1>13, <2>4, <3>3
      <4>2. CASE removed
        BY <1>2, <4>1, <4>2 DEF Orphaned
      <4>3. CASE ~removed
        <5>1. PICK d \in Peers, n \in SeqNums : d = dst /\ n = e
          BY <1>2, <1>3 DEF e
        <5>2. InWindow(d, n)' /\ tm.dst[i] = d /\ tm.seq[i] = n
          BY <1>11, <1>12, <4>1, <4>3, <5>1
        <5>3. InWindow(tm.dst[i], tm.seq[i])'
          BY <1>8, <5>2 DEF InWindow, Pending, WrappedEnd
        <5> QED
          BY <5>2, <5>3
      <4> QED
        BY <4>2, <4>3
    <3> QED
      BY <3>2, <3>3
  <2>5. ASSUME NEW i \in Slots, NEW j \in Slots, Live(i)', Live(j)',
               tm.dst[j] = tm.dst[i], tm.seq[j] = tm.seq[i], i # j
        PROVE  Orphaned(tm.dst[i])
    <3>1. CASE Live(i) /\ Live(j)
      BY <2>2, <2>5, <3>1
    <3>2. ASSUME NEW k \in {i, j}, Live(k), packet \in {i, j}, ~removed PROVE FALSE
      <4>1. tm.dst[k] = dst /\ tm.seq[k] = e
        BY <1>11, <2>5, <3>2
      <4> QED
        BY <1>12, <2>1, <3>2, <4>1 DEF Orphaned
    <3>3. CASE ~(Live(i) /\ Live(j))
      <4>1. packet \in {i, j} /\ \E k \in {i, j} : Live(k)
        BY <1>13, <2>5, <3>3
      <4>2. removed
        BY <3>2, <4>1
      <4> QED
        BY <1>11, <2>5, <4>1, <4>2 DEF Orphaned
    <3> QED
      BY <3>1, <3>3
  <2> QED
    BY <2>4, <2>5
<1>22. \A d \in Peers : ~Orphaned(d) /\ Without(Mixed \cup {"wrap"}) =>
         Pending(d) \in Nat /\ Pending(d)' = IF d = dst THEN Pending(d) + 1 ELSE Pending(d)
  BY <1>2, <1>9, <1>12, WindowFacts DEF Orphaned
<1>23. Expected'
  <2> SUFFICES ASSUME Without(Mixed \cup {"wrap"}), NEW d \in connected
               PROVE  /\ Dist(tm.start[d], expectedSeqNum(rxSeqNum[d])) <= Pending(d)'
                      /\ ~OnQueue(d)' => expectedSeqNum(rxSeqNum[d]) = tm.start[d]
    BY <1>1, <1>8 DEF Expected, Without
  <2>1. d \in Peers /\ ~Orphaned(d)
    BY DEF Inductive, TypeOK, Control, Orphaned, Without, Mixed
  <2>2. /\ Dist(tm.start[d], expectedSeqNum(rxSeqNum[d])) <= Pending(d)
        /\ ~OnQueue(d) => expectedSeqNum(rxSeqNum[d]) = tm.start[d]
    BY DEF Inductive, Expected
  <2>3. Dist(tm.start[d], expectedSeqNum(rxSeqNum[d])) \in Nat
    BY <1>2, <2>1, WindowFacts, DistType, expectedType DEF TypeOK
  <2> QED
    BY <1>15, <1>22, <2>1, <2>2, <2>3
<1>24. NextInWindow'
  <2> SUFFICES ASSUME Without(Mixed \cup {"wrap"}), NEW d \in Peers, ~Orphaned(d)
               PROVE  Dist(tm.start[d], tm.next[d]) <= Pending(d)'
    BY <1>1, <1>8, <1>14 DEF NextInWindow, Without
  <2>1. Dist(tm.start[d], tm.next[d]) <= Pending(d)
    BY DEF Inductive, NextInWindow
  <2>2. Dist(tm.start[d], tm.next[d]) \in Nat
    BY <1>2, WindowFacts, DistType
  <2> QED
    BY <1>22, <2>1, <2>2
<1>25. QueueKept'
  <2> SUFFICES ASSUME Without(Mixed \cup {"shift", "empty", "wrap"}), NEW d \in Peers, ~Orphaned(d)
               PROVE  \/ OnQueue(d) <=> Pending(d)' # 0
                      \/ d = dst /\ ~OnQueue(d) /\ tm.start[d] = tm.seq[packet]
    BY <1>1, <1>8, <1>14, <1>15 DEF QueueKept, Without
  <2>1. Without(Mixed \cup {"wrap"})
    BY DEF Without
  <2>2. OnQueue(d) <=> Pending(d) # 0
    BY <1>1 DEF Inductive, QueueKept
  <2>3. CASE d # dst
    BY <1>22, <2>1, <2>2, <2>3
  <2>4. CASE d = dst
    <3>1. Pending(dst) = 0 => tm.start[dst] = tm.seq[packet]
      BY <1>2, <1>3, <1>11, <2>4, WindowFacts DEF Orphaned, e
    <3> QED
      BY <1>22, <2>1, <2>2, <2>4, <3>1
  <2> QED
    BY <2>3, <2>4
<1> QED
  BY <1>10, <1>16, <1>17, <1>18, <1>19, <1>20, <1>21, <1>23, <1>24, <1>25 DEF Inductive

(***************************************************************************)
(* The end of a submission                                                 *)
(***************************************************************************)
(* The new length makes the ID written behind the queue count. *)
LEMMA IncrementNumNodesInductive ==
  ASSUME Inductive, IncrementNumNodes
  PROVE  Inductive'
<1>1. /\ UNCHANGED <<connected, rxSeqNum, dst, packet, scan, removed, cutIn>>
      /\ pc = "written" /\ pc' = "queued" /\ behind' = NoPeer
      /\ tm' = [tm EXCEPT !.active.nodeIds = Append(@, behind)]
  BY DEF IncrementNumNodes, Step
<1>2. /\ dst \in Peers /\ packet \in Slots /\ tm \in Managers
      /\ behind \in Peers /\ TypeOK
  BY <1>1, ControlFacts DEF Submitting, Inductive, Control
<1> DEFINE ids == Append(tm.active.nodeIds, behind)
           queue == [tm.active EXCEPT !.nodeIds = ids]
<1>3. tm.active \in [nodeIds : Seq(Peers), lastIndex : Nat] /\ tm.active.nodeIds \in Seq(Peers)
  BY <1>2, FieldTypes
<1>4. ids \in Seq(Peers) /\ \A x : Contains(ids, x) <=> Contains(tm.active.nodeIds, x) \/ x = behind
  <2> DEFINE s == tm.active.nodeIds
  <2>1. /\ ids \in Seq(Peers) /\ Len(ids) = Len(s) + 1 /\ Len(s) \in Nat
        /\ \A k \in 1 .. Len(s) : ids[k] = s[k]
        /\ ids[Len(s) + 1] = behind
    BY <1>2, <1>3
  <2> HIDE DEF ids, s
  <2>2. \A k \in 1 .. Len(ids) : k \in 1 .. Len(s) \/ k = Len(s) + 1
    BY <2>1
  <2>3. (1 .. Len(s)) \cup {Len(s) + 1} \subseteq 1 .. Len(ids)
    BY <2>1
  <2> QED
    BY <2>1, <2>2, <2>3 DEF Contains, s
<1>5. queue \in [nodeIds : Seq(Peers), lastIndex : Nat] /\ queue.nodeIds = ids
  <2> HIDE DEF ids
  <2> QED
    BY <1>3, <1>4
<1>6. tm' = [tm EXCEPT !.active = queue]
  BY <1>1, <1>2 DEF Managers, TxManagers
<1> HIDE DEF queue
<1>7. /\ tm' \in Managers /\ tm'.active = queue
      /\ tm'.inUse = tm.inUse /\ tm'.dst = tm.dst /\ tm'.seq = tm.seq /\ tm'.end = tm.end
      /\ tm'.allocated = tm.allocated /\ tm'.start = tm.start /\ tm'.next = tm.next
      /\ tm'.fault = tm.fault
  BY <1>2, <1>5, <1>6 DEF Managers, TxManagers
<1>8. \A d : OnQueue(d)' <=> OnQueue(d) \/ d = behind
  BY <1>4, <1>5, <1>7 DEF OnQueue
<1>9. TypeOK'
  BY <1>1, <1>7 DEF Inductive, TypeOK, Managers
<1>10. Control' /\ Header' /\ RoomOnQueue' /\ Reserved' /\ NoAssertionFails'
  BY <1>1, <1>2, <1>7 DEF Inductive, Control, Header, RoomOnQueue, Reserved,
              NoAssertionFails, Submitting, Unpublished, Without, WrappedEnd
<1>11. Complete' /\ Kept' /\ Expected' /\ NextInWindow'
  <2>1. \A i \in Slots : Live(i)' <=> Live(i)
    BY <1>1, <1>7 DEF Live, Unpublished
  <2> QED
    BY <1>1, <1>7, <1>8, <2>1, SameStore, ControlFacts DEF Inductive, Orphaned, WrappedEnd
<1>12. Without({"shift"}) => /\ behind = dst /\ ~OnQueue(dst)
                             /\ \A j, k \in 1 .. numNodes(tm.active) :
                                  tm.active.nodeIds[j] = tm.active.nodeIds[k] => j = k
  BY <1>1 DEF Inductive, Searched
<1>13. Searched'
  <2> SUFFICES ASSUME Without({"shift"})
               PROVE  /\ \A j, k \in 1 .. Len(ids) : ids[j] = ids[k] => j = k
                      /\ 0 <= Len(ids)
    <3>1. scan' = 0 /\ tm'.active.nodeIds = ids /\ pc' \notin {"absent", "written"}
      BY <1>1, <1>5, <1>7 DEF Inductive, Control
    <3>2. \A k \in 1 .. 0 : FALSE
      OBVIOUS
    <3>3. Without({"shift"})' <=> Without({"shift"})
      BY <1>1 DEF Without
    <3> HIDE DEF ids
    <3> QED
      BY <3>1, <3>2, <3>3 DEF Searched, numNodes
  <2>1. ~Contains(tm.active.nodeIds, behind)
    BY <1>12 DEF OnQueue
  <2> QED
    BY <1>2, <1>3, <1>4, <1>12, <2>1, AppendDistinct DEF numNodes
<1>14. AbsentForgotten'
  BY <1>1, <1>7, <1>8, <1>12 DEF Inductive, AbsentForgotten, Without
<1>15. QueueKept'
  <2> SUFFICES ASSUME Without(Mixed \cup {"shift", "empty", "wrap"}), NEW d \in Peers, ~Orphaned(d)
               PROVE  OnQueue(d) \/ d = behind <=> Pending(d) # 0
    BY <1>1, <1>7, <1>8 DEF QueueKept, Without, Orphaned, Pending, WrappedEnd
  <2>1. behind = dst
    BY <1>12 DEF Without
  <2>2. CASE d = dst
    BY <1>1, <2>1, <2>2 DEF Inductive, QueueKept
  <2>3. CASE d # dst
    BY <1>1, <2>1, <2>3 DEF Inductive, QueueKept
  <2> QED
    BY <2>2, <2>3
<1> QED
  BY <1>9, <1>10, <1>11, <1>13, <1>14, <1>15 DEF Inductive

(* The entry is the window's now. *)
LEMMA ClearAllocatedInductive ==
  ASSUME Inductive, ClearAllocated
  PROVE  Inductive'
<1>1. /\ UNCHANGED <<connected, rxSeqNum, dst, packet, behind, scan, removed, cutIn>>
      /\ pc = "queued" /\ pc' = "cleared"
      /\ tm' = [tm EXCEPT !.allocated = NoSlot]
  BY DEF ClearAllocated, Step
<1>2. /\ dst \in Peers /\ packet \in Slots /\ tm \in Managers /\ packet = tm.allocated
      /\ tm.dst[packet] = dst
  BY <1>1, ControlFacts DEF Submitting, Inductive, Header
<1>3. /\ tm' \in Managers /\ tm'.allocated = NoSlot
      /\ tm'.inUse = tm.inUse /\ tm'.dst = tm.dst /\ tm'.seq = tm.seq /\ tm'.end = tm.end
      /\ tm'.active = tm.active /\ tm'.start = tm.start /\ tm'.next = tm.next
      /\ tm'.fault = tm.fault
  BY <1>1, <1>2 DEF Managers, TxManagers
<1>4. TypeOK'
  BY <1>1, <1>3 DEF Inductive, TypeOK, Managers
<1>5. Control' /\ Header' /\ RoomOnQueue' /\ Reserved' /\ NoAssertionFails'
  BY <1>1, <1>2, <1>3 DEF Inductive, Control, Header, RoomOnQueue, Reserved,
              NoAssertionFails, Submitting, Unpublished, Without, WrappedEnd
<1>6. Complete' /\ Kept' /\ Expected' /\ NextInWindow'
  <2>1. \A i \in Slots : Live(i)' <=> Live(i)
    BY <1>1, <1>3 DEF Live, Unpublished
  <2> QED
    BY <1>1, <1>3, <2>1, SameStore, ControlFacts DEF Inductive, Orphaned, WrappedEnd, OnQueue
<1>7. Searched' /\ QueueKept'
  BY <1>1, <1>3 DEF Inductive, Searched, QueueKept, Without, Orphaned, OnQueue, Pending, WrappedEnd
<1>8. AbsentForgotten'
  BY <1>1, <1>2, <1>3 DEF Inductive, AbsentForgotten, Without, OnQueue
<1> QED
  BY <1>4, <1>5, <1>6, <1>7, <1>8 DEF Inductive

(***************************************************************************)
(* Steps that remove a node                                                *)
(***************************************************************************)
(* masterTxManagerRemoveNode leaves nothing of p, and what the invariant   *)
(* says of the other nodes stays true.                                     *)
LEMMA NodeRemoved ==
  ASSUME Inductive, NEW p \in Peers, tm' = masterTxManagerRemoveNode(tm, p),
         cutIn \subseteq cutIn', rxSeqNum' = rxSeqNum,
         \A d \in connected' : d \in connected /\ d # p,
         \A d \in Peers : d # p => (Orphaned(d)' <=> Orphaned(d)),
         Unpublished' <=> Unpublished
  PROVE  /\ tm' \in Managers
         /\ \A i \in Slots : tm'.inUse[i] <=> tm.inUse[i] /\ tm.dst[i] # p
         /\ tm'.dst = tm.dst /\ tm'.seq = tm.seq /\ tm'.allocated = tm.allocated
         /\ \A d \in Peers : /\ tm'.start[d] = IF d = p THEN 0 ELSE tm.start[d]
                             /\ tm'.end[d] = IF d = p THEN 0 ELSE tm.end[d]
         /\ tm'.active = nodeQueueRemoveIfExists(tm.active, p) /\ tm'.fault = tm.fault
         /\ \A d \in Peers : OnQueue(d)' => OnQueue(d)
         /\ \A d \in Peers : d # p => (OnQueue(d)' <=> OnQueue(d)) /\ Pending(d)' = Pending(d)
         /\ Pending(p)' = 0
         /\ Without({"shift"}) =>
              /\ ~OnQueue(p)'
              /\ \A j, k \in 1 .. numNodes(tm'.active) :
                   tm'.active.nodeIds[j] = tm'.active.nodeIds[k] => j = k
         /\ Complete' /\ Kept' /\ Expected' /\ NextInWindow'
<1>1. tm \in Managers /\ TypeOK /\ connected \subseteq Peers
  BY ControlFacts DEF Inductive
<1>2. /\ tm' \in Managers
      /\ \A i \in Slots : tm'.inUse[i] <=> tm.inUse[i] /\ tm.dst[i] # p
      /\ tm'.dst = tm.dst /\ tm'.seq = tm.seq /\ tm'.allocated = tm.allocated
      /\ tm'.start = [tm.start EXCEPT ![p] = 0]
      /\ tm'.end = [tm.end EXCEPT ![p] = 0]
      /\ tm'.next = [tm.next EXCEPT ![p] = 0]
      /\ tm'.active = nodeQueueRemoveIfExists(tm.active, p)
      /\ tm'.fault = tm.fault
  BY <1>1, removeNodeEffect
<1>3. \A d \in Peers : /\ tm'.start[d] = IF d = p THEN 0 ELSE tm.start[d]
                       /\ tm'.end[d] = IF d = p THEN 0 ELSE tm.end[d]
                       /\ tm'.next[d] = IF d = p THEN 0 ELSE tm.next[d]
  BY <1>1, <1>2, FieldTypes
<1>4. 0 # MaxSequenceNum /\ Dist(0, 0) = 0
  BY ConstantFacts DEF Dist
<1>5. \A d \in Peers : Pending(d)' = IF d = p THEN 0 ELSE Pending(d)
  BY <1>3, <1>4 DEF Pending, WrappedEnd
<1>6. \A d \in Peers, n \in SeqNums : InWindow(d, n)' <=> InWindow(d, n) /\ d # p
  <2> SUFFICES ASSUME NEW d \in Peers, NEW n \in SeqNums
               PROVE  InWindow(d, n)' <=> InWindow(d, n) /\ d # p
    OBVIOUS
  <2>1. CASE d = p
    <3>1. Dist(0, n) \in Nat
      BY ConstantFacts, DistType
    <3> QED
      BY <1>3, <1>5, <2>1, <3>1 DEF InWindow
  <2>2. CASE d # p
    BY <1>3, <1>5, <2>2 DEF InWindow
  <2> QED
    BY <2>1, <2>2
<1> DEFINE r == nodeQueueRemoveIfExists(tm.active, p)
<1>7. \A d \in Peers : d # p => (OnQueue(d)' <=> OnQueue(d))
  <2>1. \A x : x # p => (Contains(r.nodeIds, x) <=> Contains(tm.active.nodeIds, x))
    BY <1>1, FieldTypes, removeFromQueue
  <2> HIDE DEF r
  <2> QED
    BY <1>2, <2>1 DEF OnQueue, r
<1>8. ~OnQueue(p) => ~OnQueue(p)'
  <2>1. ~Contains(tm.active.nodeIds, p) => r = tm.active
    BY <1>1, FieldTypes, removeFromQueue
  <2> QED
    BY <1>2, <2>1 DEF OnQueue
<1>9. ASSUME Without({"shift"})
      PROVE  /\ ~OnQueue(p)'
             /\ \A j, k \in 1 .. numNodes(tm'.active) :
                  tm'.active.nodeIds[j] = tm'.active.nodeIds[k] => j = k
  <2>1. \A j, k \in 1 .. numNodes(tm.active) :
          tm.active.nodeIds[j] = tm.active.nodeIds[k] => j = k
    BY <1>9 DEF Inductive, Searched
  <2>2. tm.active \in [nodeIds : Seq(Peers), lastIndex : Nat]
    BY <1>1, FieldTypes
  <2>3. /\ \A j, k \in 1 .. numNodes(r) : r.nodeIds[j] = r.nodeIds[k] => j = k
        /\ \A x : Contains(r.nodeIds, x) <=> Contains(tm.active.nodeIds, x) /\ x # p
    BY <2>1, <2>2, nodeQueueRemoveFacts
  <2> HIDE DEF r
  <2> QED
    BY <1>2, <2>3 DEF OnQueue, r
<1>10. \A i \in Slots : Live(i)' <=> Live(i) /\ tm.dst[i] # p
  BY <1>2 DEF Live
<1>11. Complete'
  <2> SUFFICES ASSUME Without(Mixed \cup {"wrap"})' \/ Without(Mixed \cup {"leak"})',
                      NEW d \in Peers, NEW n \in SeqNums, InWindow(d, n)', ~Orphaned(d)'
               PROVE  \E i \in Slots : Live(i)' /\ tm.dst[i] = d /\ tm.seq[i] = n
    BY <1>2 DEF Complete, Holds
  <2>1. d # p /\ InWindow(d, n) /\ ~Orphaned(d)
    BY <1>6
  <2>2. Without(Mixed \cup {"wrap"}) \/ Without(Mixed \cup {"leak"})
    BY WithoutBefore
  <2> QED
    BY <1>10, <2>1, <2>2 DEF Inductive, Complete, Holds
<1>12. Kept'
  <2> SUFFICES ASSUME Without(Mixed \cup {"leak"})'
               PROVE  /\ \A i \in Slots : Live(i)' =>
                           /\ tm.dst[i] \in Peers
                           /\ Orphaned(tm.dst[i])' \/ InWindow(tm.dst[i], tm.seq[i])'
                      /\ \A i, j \in Slots : Live(i)' /\ Live(j)' /\ tm.dst[j] = tm.dst[i]
                                             /\ tm.seq[j] = tm.seq[i] =>
                           Orphaned(tm.dst[i])' \/ i = j
    BY <1>2 DEF Kept, Holds
  <2>1. Without(Mixed \cup {"leak"})
    BY WithoutBefore
  <2>2. ASSUME NEW i \in Slots, Live(i)'
        PROVE  \E d \in Peers, n \in SeqNums :
                 /\ d = tm.dst[i] /\ n = tm.seq[i] /\ d # p /\ Live(i)
                 /\ Orphaned(d)' \/ InWindow(d, n)'
                 /\ Orphaned(tm.dst[i])' <=> Orphaned(d)
    <3>1. Live(i) /\ tm.dst[i] # p
      BY <1>10, <2>2
    <3>2. PICK d \in Peers, n \in SeqNums : d = tm.dst[i] /\ n = tm.seq[i]
      BY <2>1, <3>1, ControlFacts DEF Inductive, Kept
    <3>3. Orphaned(d) \/ InWindow(d, n)
      BY <2>1, <3>1, <3>2 DEF Inductive, Kept
    <3>4. Orphaned(tm.dst[i])' <=> Orphaned(d)'
      BY <1>2, <3>2 DEF Orphaned
    <3> QED
      BY <1>6, <3>1, <3>2, <3>3, <3>4
  <2>3. ASSUME NEW i \in Slots, Live(i)'
        PROVE  tm.dst[i] \in Peers /\ (Orphaned(tm.dst[i])' \/ InWindow(tm.dst[i], tm.seq[i])')
    <3>1. PICK d \in Peers, n \in SeqNums :
                 /\ d = tm.dst[i] /\ n = tm.seq[i] /\ d # p /\ Live(i)
                 /\ Orphaned(d)' \/ InWindow(d, n)'
      BY <2>2, <2>3
    <3> QED
      BY <3>1, <1>2 DEF Orphaned, InWindow, Pending, WrappedEnd
  <2>4. ASSUME NEW i \in Slots, NEW j \in Slots, Live(i)', Live(j)',
               tm.dst[j] = tm.dst[i], tm.seq[j] = tm.seq[i]
        PROVE  Orphaned(tm.dst[i])' \/ i = j
    <3>1. Live(i) /\ Live(j) /\ (Orphaned(tm.dst[i])' <=> Orphaned(tm.dst[i]))
      BY <2>2, <2>4
    <3> QED
      BY <2>1, <2>4, <3>1 DEF Inductive, Kept, Holds
  <2> QED
    BY <2>3, <2>4
<1>13. Expected'
  BY <1>1, <1>3, <1>5, <1>7, WithoutBefore DEF Inductive, Expected
<1>14. NextInWindow'
  BY <1>3, <1>4, <1>5, WithoutBefore DEF Inductive, NextInWindow
<1>15. Pending(p)' = 0
  BY <1>5
<1> QED
  BY <1>2, <1>3, <1>5, <1>7, <1>8, <1>9, <1>11, <1>12, <1>13, <1>14, <1>15

(* The end of submitAllocatedTxPacket: a destination that has left is      *)
(* removed again, with what the submission put back.                       *)
LEMMA RecheckTimeToLiveInductive ==
  ASSUME Inductive, RecheckTimeToLive
  PROVE  Inductive'
<1>1. /\ UNCHANGED <<connected, rxSeqNum, behind, cutIn, scan>>
      /\ pc = "cleared" /\ pc' = "idle"
      /\ dst' = NoDst /\ packet' = NoSlot /\ removed' = FALSE
      /\ tm' = IF dst \notin connected THEN masterTxManagerRemoveNode(tm, dst) ELSE tm
  BY DEF RecheckTimeToLive, Return, Step
<1>2. /\ dst \in Peers /\ tm \in Managers /\ TypeOK /\ scan = 0 /\ tm.allocated = NoSlot
      /\ \A d \in Peers : tm.end[d] # MaxSequenceNum
  BY <1>1, ControlFacts DEF Submitting, Inductive, Control
<1>3. CASE dst \in connected
  <2>1. tm' = tm
    BY <1>1, <1>3
  <2>2. removed => ~Without({"rejoin"})
    BY <1>3 DEF Inductive, Control
  <2>3. TypeOK'
    BY <1>1, <2>1 DEF Inductive, TypeOK
  <2>4. /\ Control' /\ Header' /\ RoomOnQueue' /\ Reserved' /\ AbsentForgotten' /\ Searched'
        /\ NoAssertionFails'
    BY <1>1, <1>2, <1>3, <2>1, ConstantFacts DEF Inductive, Control, Header, RoomOnQueue,
       Reserved, AbsentForgotten, Searched, NoAssertionFails, Submitting, Unpublished, Without, OnQueue
  <2>5. CASE removed
    <3>1. "rejoin" \in cutIn
      BY <2>2, <2>5 DEF Without
    <3>2. \A W : ~(Without(Mixed \cup W)')
      BY <1>1, <3>1 DEF Without, Mixed
    <3> QED
      BY <2>3, <2>4, <3>2 DEF Inductive, Complete, Kept, Expected, NextInWindow, QueueKept
  <2>6. CASE ~removed
    <3>1. \A i \in Slots : Live(i)' <=> Live(i)
      BY <1>1, <2>1 DEF Live, Unpublished
    <3>2. \A d : Orphaned(d)' <=> Orphaned(d)
      BY <1>1, <2>6 DEF Orphaned
    <3>3. Complete' /\ Kept' /\ Expected' /\ NextInWindow'
      BY <1>1, <2>1, <3>1, <3>2, SameStore, ControlFacts DEF Inductive, WrappedEnd, OnQueue
    <3>4. QueueKept'
      BY <1>1, <2>1, <3>2 DEF Inductive, QueueKept, Without, OnQueue, Pending, WrappedEnd
    <3> QED
      BY <2>3, <2>4, <3>3, <3>4 DEF Inductive
  <2> QED
    BY <2>5, <2>6
<1>4. CASE dst \notin connected
  <2>1. tm' = masterTxManagerRemoveNode(tm, dst)
    BY <1>1, <1>4
  <2>2. PICK q \in Peers : q = dst
    BY <1>2
  <2>5. \A d \in Peers : d # q => (Orphaned(d)' <=> Orphaned(d))
    BY <1>1, <2>2 DEF Orphaned
  <2>6. Unpublished' <=> Unpublished
    BY <1>1 DEF Unpublished
  <2>7. /\ tm' \in Managers
        /\ \A i \in Slots : tm'.inUse[i] <=> tm.inUse[i] /\ tm.dst[i] # q
        /\ tm'.dst = tm.dst /\ tm'.seq = tm.seq /\ tm'.allocated = tm.allocated
        /\ \A d \in Peers : /\ tm'.start[d] = IF d = q THEN 0 ELSE tm.start[d]
                            /\ tm'.end[d] = IF d = q THEN 0 ELSE tm.end[d]
        /\ tm'.fault = tm.fault
        /\ \A d \in Peers : d # q => (OnQueue(d)' <=> OnQueue(d)) /\ Pending(d)' = Pending(d)
        /\ Pending(q)' = 0
        /\ Without({"shift"}) =>
             /\ ~OnQueue(q)'
             /\ \A j, k \in 1 .. numNodes(tm'.active) :
                  tm'.active.nodeIds[j] = tm'.active.nodeIds[k] => j = k
        /\ Complete' /\ Kept' /\ Expected' /\ NextInWindow'
    <3>1. tm' = masterTxManagerRemoveNode(tm, q)
      BY <2>1, <2>2
    <3>2. \A d \in connected' : d \in connected /\ d # q
      BY <1>1, <1>4, <2>2
    <3>3. \A d \in Peers : d # q => (Orphaned(d)' <=> Orphaned(d))
      BY <2>5, <2>2
    <3>4. cutIn \subseteq cutIn' /\ rxSeqNum' = rxSeqNum
      BY <1>1
    <3> QED
      BY <2>6, <3>1, <3>2, <3>3, <3>4, NodeRemoved
  <2>8. TypeOK'
    BY <1>1, <2>7 DEF Inductive, TypeOK, Managers
  <2>9. Control' /\ Header' /\ RoomOnQueue' /\ Reserved' /\ NoAssertionFails'
    BY <1>1, <1>2, <2>7, ConstantFacts DEF Inductive, Control, Header, RoomOnQueue,
       Reserved, NoAssertionFails, Submitting, Unpublished, Without
  <2>10. Searched'
    <3>1. Len(tm'.active.nodeIds) \in Nat
      BY <2>7, FieldTypes
    <3>2. \A k \in 1 .. 0 : FALSE
      OBVIOUS
    <3> QED
      BY <1>1, <1>2, <2>7, <3>1, <3>2 DEF Searched, Without, numNodes
  <2>11. AbsentForgotten'
    <3> SUFFICES ASSUME NEW d \in Peers \ connected
                 PROVE  /\ tm'.start[d] = 0 /\ tm'.end[d] = 0
                        /\ Without({"shift"}) => ~OnQueue(d)'
                        /\ Without({"leak"}) =>
                             \A i \in Slots : tm'.inUse[i] /\ tm'.dst[i] = d => i = tm'.allocated
      BY <1>1 DEF AbsentForgotten, Without
    <3>1. CASE d = q
      BY <2>2, <2>7, <3>1
    <3>2. CASE d # q
      BY <2>2, <2>7, <3>2 DEF Inductive, AbsentForgotten
    <3> QED
      BY <3>1, <3>2
  <2>12. QueueKept'
    <3> SUFFICES ASSUME Without(Mixed \cup {"shift", "empty", "wrap"}), NEW d \in Peers
                 PROVE  OnQueue(d)' <=> Pending(d)' # 0
      BY <1>1 DEF QueueKept, Without
    <3>1. CASE d = q
      BY <2>7, <3>1 DEF Without
    <3>2. CASE d # q
      BY <1>1, <2>2, <2>7, <3>2 DEF Inductive, QueueKept, Orphaned
    <3> QED
      BY <3>1, <3>2
  <2> QED
    BY <2>7, <2>8, <2>9, <2>10, <2>11, <2>12 DEF Inductive
<1> QED
  BY <1>3, <1>4

(* A handler takes at most one ID off the queue.  Unless that shifts the   *)
(* queue during the search or behind the ID written last, the search stays *)
(* right.                                                                  *)
LEMMA QueueShrinks ==
  ASSUME Inductive, NEW p \in Peers,
         tm'.active \in {tm.active, nodeQueueRemoveIfExists(tm.active, p)},
         UNCHANGED <<pc, dst, scan>>, behind' = BehindAfter(tm.active, tm'.active),
         cutIn \subseteq cutIn',
         (pc = "written" \/ scan > 0) /\ numNodes(tm'.active) < numNodes(tm.active) =>
           "shift" \in cutIn'
  PROVE  /\ RoomOnQueue' /\ Searched'
         /\ behind' \in Peers \cup {NoPeer} /\ (pc = "written" => behind' \in Peers)
         /\ \A d \in Peers : OnQueue(d)' => OnQueue(d)
         /\ \A d \in Peers : d # p => (OnQueue(d)' <=> OnQueue(d))
         /\ Without({"shift"}) /\ tm'.active # tm.active => ~OnQueue(p)'
<1> DEFINE q == tm.active
           r == nodeQueueRemoveIfExists(q, p)
<1>1. q \in [nodeIds : Seq(Peers), lastIndex : Nat] /\ q.nodeIds \in Seq(Peers) /\ TypeOK
  BY ControlFacts, FieldTypes DEF Inductive
<1>2. /\ \A x : x # p => (Contains(r.nodeIds, x) <=> Contains(q.nodeIds, x))
      /\ ~Contains(q.nodeIds, p) => r = q
      /\ numNodes(r) \in Nat /\ numNodes(q) \in Nat
      /\ r = q \/ numNodes(r) = numNodes(q) - 1
      /\ QueueFull(r) => QueueFull(q)
  BY <1>1, removeFromQueue
<1>3. Without({"shift"}) =>
        /\ \A j, k \in 1 .. numNodes(r) : r.nodeIds[j] = r.nodeIds[k] => j = k
        /\ ~Contains(r.nodeIds, p)
  <2> SUFFICES ASSUME Without({"shift"})
               PROVE  /\ \A j, k \in 1 .. numNodes(r) : r.nodeIds[j] = r.nodeIds[k] => j = k
                      /\ ~Contains(r.nodeIds, p)
    OBVIOUS
  <2>1. \A j, k \in 1 .. numNodes(q) : q.nodeIds[j] = q.nodeIds[k] => j = k
    BY DEF Inductive, Searched
  <2> QED
    BY <1>1, <2>1, nodeQueueRemoveFacts
<1> HIDE DEF r
<1>4. tm'.active = q \/ (tm'.active = r /\ r # q)
  BY DEF r
<1>5. /\ QueueFull(tm'.active) => QueueFull(q)
      /\ numNodes(tm'.active) \in Nat /\ numNodes(q) \in Nat
      /\ tm'.active = q \/ numNodes(tm'.active) < numNodes(q)
      /\ \A d \in Peers : OnQueue(d)' => OnQueue(d)
      /\ \A d \in Peers : d # p => (OnQueue(d)' <=> OnQueue(d))
      /\ Without({"shift"}) /\ tm'.active # q => ~OnQueue(p)'
  BY <1>2, <1>3, <1>4 DEF OnQueue
<1>6. \/ behind' = behind
      \/ behind' \in Peers /\ pc = "written" /\ numNodes(tm'.active) < numNodes(q)
  <2>1. CASE Len(tm'.active.nodeIds) < Len(q.nodeIds) /\ pc = "written"
    <3>1. Len(q.nodeIds) \in 1 .. Len(q.nodeIds)
      BY <1>1, <1>5, <2>1 DEF numNodes
    <3>2. behind' = q.nodeIds[Len(q.nodeIds)]
      BY <2>1 DEF BehindAfter, Last
    <3> QED
      BY <1>1, <2>1, <3>1, <3>2 DEF numNodes
  <2>2. CASE ~(Len(tm'.active.nodeIds) < Len(q.nodeIds) /\ pc = "written")
    BY <2>2 DEF BehindAfter
  <2> QED
    BY <2>1, <2>2
<1>7. behind' \in Peers \cup {NoPeer} /\ (pc = "written" => behind' \in Peers)
  BY <1>6 DEF Inductive, TypeOK, Control
<1>8. RoomOnQueue'
  BY <1>5 DEF Inductive, RoomOnQueue, Unpublished
<1>9. Searched'
  <2> SUFFICES ASSUME Without({"shift"})'
               PROVE  /\ \A j, k \in 1 .. numNodes(tm'.active) :
                           tm'.active.nodeIds[j] = tm'.active.nodeIds[k] => j = k
                      /\ scan <= numNodes(tm'.active)
                      /\ \A k \in 1 .. scan : tm'.active.nodeIds[k] # dst
                      /\ pc \in {"absent", "written"} => ~OnQueue(dst)'
                      /\ pc = "written" => behind' = dst
    BY DEF Searched
  <2>1. Without({"shift"}) /\ "shift" \notin cutIn' /\ scan \in Nat
    BY <1>1, WithoutBefore DEF Without, TypeOK
  <2>2. /\ \A j, k \in 1 .. numNodes(q) : q.nodeIds[j] = q.nodeIds[k] => j = k
        /\ scan <= numNodes(q)
        /\ \A k \in 1 .. scan : q.nodeIds[k] # dst
        /\ pc \in {"absent", "written"} => ~OnQueue(dst)
        /\ pc = "written" => behind = dst
    BY <2>1 DEF Inductive, Searched
  <2>3. pc \in {"absent", "written"} => ~OnQueue(dst)'
    <3>1. pc \in {"absent", "written"} => dst \in Peers
      BY ControlFacts DEF Submitting
    <3> QED
      BY <1>5, <2>2, <3>1 DEF OnQueue
  <2>4. CASE tm'.active = q
    BY <1>5, <1>6, <2>2, <2>3, <2>4
  <2>5. CASE tm'.active = r /\ numNodes(tm'.active) < numNodes(q)
    <3>1. scan = 0 /\ pc # "written"
      BY <2>1, <2>5
    <3>2. \A k \in 1 .. 0 : FALSE
      OBVIOUS
    <3> QED
      BY <1>3, <1>5, <2>1, <2>3, <2>5, <3>1, <3>2
  <2> QED
    BY <1>4, <1>5, <2>4, <2>5
<1> QED
  BY <1>5, <1>7, <1>8, <1>9

(* masterRemoveAnyTimeoutNodes, wherever the submission is. *)
LEMMA RemoveNodeInductive ==
  ASSUME Inductive, NEW p \in Peers, RemoveNode(p)
  PROVE  Inductive'
<1> DEFINE stale == IF tm.allocated # NoSlot /\ tm.dst[tm.allocated] = p /\ dst # p
                    THEN {"stale"} ELSE {}
<1>1. /\ UNCHANGED <<rxSeqNum, pc, dst, packet, scan>>
      /\ p \in connected /\ connected' = connected \ {p}
      /\ tm' = masterTxManagerRemoveNode(tm, p)
      /\ behind' = BehindAfter(tm.active, tm'.active)
      /\ removed' = (removed \/ p = dst)
      /\ cutIn' = cutIn \cup Interrupts(tm', {}) \cup stale
  BY DEF RemoveNode
<1>2. tm \in Managers /\ TypeOK /\ connected \subseteq Peers
  BY ControlFacts DEF Inductive
<1>3. cutIn \subseteq cutIn' /\ rxSeqNum' = rxSeqNum
  BY <1>1
<1>4. \A d \in connected' : d \in connected /\ d # p
  BY <1>1
<1>5. removed' <=> removed \/ p = dst
  BY <1>1, <1>2 DEF TypeOK
<1>6. \A d \in Peers : d # p => (Orphaned(d)' <=> Orphaned(d))
  BY <1>1, <1>5 DEF Orphaned
<1>7. Unpublished' <=> Unpublished
  BY <1>1 DEF Unpublished
<1>8. tm' = masterTxManagerRemoveNode(tm, p)
  BY <1>1
<1>9. /\ tm' \in Managers
      /\ \A i \in Slots : tm'.inUse[i] <=> tm.inUse[i] /\ tm.dst[i] # p
      /\ tm'.dst = tm.dst /\ tm'.seq = tm.seq /\ tm'.allocated = tm.allocated
      /\ \A d \in Peers : /\ tm'.start[d] = IF d = p THEN 0 ELSE tm.start[d]
                          /\ tm'.end[d] = IF d = p THEN 0 ELSE tm.end[d]
      /\ tm'.active = nodeQueueRemoveIfExists(tm.active, p) /\ tm'.fault = tm.fault
      /\ \A d \in Peers : OnQueue(d)' => OnQueue(d)
      /\ \A d \in Peers : d # p => (OnQueue(d)' <=> OnQueue(d)) /\ Pending(d)' = Pending(d)
      /\ Pending(p)' = 0
      /\ Without({"shift"}) =>
           /\ ~OnQueue(p)'
           /\ \A j, k \in 1 .. numNodes(tm'.active) :
                tm'.active.nodeIds[j] = tm'.active.nodeIds[k] => j = k
      /\ Complete' /\ Kept' /\ Expected' /\ NextInWindow'
  BY <1>3, <1>4, <1>6, <1>7, <1>8, NodeRemoved
<1>10. /\ "shift" \in cutIn' <=> \/ "shift" \in cutIn
                                 \/ (pc = "written" \/ scan > 0) /\ numNodes(tm'.active) < numNodes(tm.active)
       /\ cutIn' \subseteq cutIn \cup {"shift", "empty", "wrap", "orphan", "header", "stale"}
       /\ tm.allocated # NoSlot /\ tm.dst[tm.allocated] = p /\ dst # p => "stale" \in cutIn'
  <2> DEFINE I == Interrupts(tm', {})
  <2>1. /\ "shift" \in I <=> (pc = "written" \/ scan > 0) /\ numNodes(tm'.active) < numNodes(tm.active)
        /\ I \subseteq {"shift", "empty", "wrap", "orphan", "header"}
    BY InterruptFacts
  <2> HIDE DEF I
  <2>2. cutIn' = cutIn \cup I \cup stale
    BY <1>1 DEF I
  <2> QED
    BY <2>1, <2>2
<1>11. /\ RoomOnQueue' /\ Searched'
       /\ behind' \in Peers \cup {NoPeer} /\ (pc = "written" => behind' \in Peers)
  BY <1>1, <1>3, <1>9, <1>10, QueueShrinks
<1>12. TypeOK'
  <2>1. behind' \in Peers \cup {NoPeer}
    BY <1>11
  <2>2. cutIn' \subseteq {"shift", "empty", "wrap", "orphan", "stale", "rejoin", "leak", "clear", "header"}
    BY <1>10 DEF Inductive, TypeOK
  <2>3. removed' \in BOOLEAN /\ connected' \subseteq Peers
    BY <1>1, <1>2
  <2> QED
    BY <1>1, <1>9, <2>1, <2>2, <2>3 DEF Inductive, TypeOK, Managers
<1>13. Control'
  <2>1. \A d \in Peers : tm'.end[d] = MaxSequenceNum => pc' = "incremented" /\ d = dst'
    BY <1>1, <1>9, ConstantFacts DEF Inductive, Control
  <2>2. pc' = "written" => behind' \in Peers
    BY <1>1, <1>11
  <2>3. removed' /\ Without({"rejoin"})' => dst' \notin connected'
    BY <1>1, <1>3, <1>5, WithoutBefore DEF Inductive, Control
  <2>4. Submitting' <=> Submitting
    BY <1>1 DEF Submitting
  <2>5. dst = NoDst => p # dst
    BY ConstantFacts
  <2>6. Submitting' => dst' \in connected' \/ removed'
    BY <1>1, <1>5, <2>4 DEF Inductive, Control
  <2>7. ~Submitting' => dst' = NoDst /\ ~removed'
    BY <1>1, <1>5, <2>4, <2>5 DEF Inductive, Control
  <2>8. Submitting' => dst' \in Peers /\ packet' \in Slots /\ tm'.allocated \in {packet', NoSlot}
    BY <1>1, <1>9, <2>4 DEF Inductive, Control
  <2>9. tm'.allocated = NoSlot <=> pc' \in {"idle", "cleared"}
    BY <1>1, <1>9 DEF Inductive, Control
  <2>10. pc' # "searching" => scan' = 0
    BY <1>1 DEF Inductive, Control
  <2> QED
    BY <2>1, <2>2, <2>3, <2>6, <2>7, <2>8, <2>9, <2>10 DEF Control
<1>14. Header'
  <2>1. Submitting' <=> Submitting
    BY <1>1 DEF Submitting
  <2>2. Submitting => dst \in Peers
    BY ControlFacts
  <2>3. ~removed' => ~removed /\ p # dst
    BY <1>5
  <2>4. ASSUME Submitting, ~removed'
        PROVE  tm'.end[dst] = tm.end[dst] /\ tm'.start[dst] = tm.start[dst] /\ WrappedEnd(dst)' = WrappedEnd(dst)
    BY <1>1, <1>9, <2>2, <2>3, <2>4 DEF WrappedEnd
  <2>5. pc = "numbered" \/ pc = "incremented" => Submitting
    BY DEF Submitting
  <2>6. Submitting' /\ pc' # "checked" => tm'.dst[packet'] = dst'
    BY <1>1, <1>9, <2>1 DEF Inductive, Header
  <2>7. pc' = "numbered" /\ ~removed' => tm'.seq[packet'] = tm'.end[dst']
    BY <1>1, <1>9, <2>3, <2>4, <2>5 DEF Inductive, Header
  <2>8. Submitting' /\ ~Unpublished' /\ ~removed' => WrappedEnd(dst)' = Incr(tm'.seq[packet'])
    BY <1>1, <1>7, <1>9, <2>1, <2>3, <2>4 DEF Inductive, Header
  <2>9. pc' = "incremented" /\ ~removed' /\ Without(Mixed \cup {"wrap"})' =>
          tm'.start[dst'] # WrappedEnd(dst)' \/ tm'.end[dst'] # MaxSequenceNum
    BY <1>1, <1>3, <2>3, <2>4, <2>5, WithoutBefore DEF Inductive, Header
  <2> QED
    BY <2>6, <2>7, <2>8, <2>9 DEF Header
<1>15. NoAssertionFails'
  BY <1>3, <1>9, WithoutBefore DEF Inductive, NoAssertionFails
<1>16. Reserved'
  <2> SUFFICES ASSUME Without(Mixed)', Unpublished, ~removed' PROVE tm'.inUse[tm.allocated]
    BY <1>7, <1>9 DEF Reserved
  <2>1. tm.inUse[tm.allocated] /\ tm.allocated \in Slots /\ tm.allocated # NoSlot
    BY <1>3, <1>5, WithoutBefore, ControlFacts, ConstantFacts DEF Inductive, Reserved, Unpublished
  <2>2. "stale" \notin cutIn'
    BY DEF Without, Mixed
  <2> QED
    BY <1>5, <1>9, <1>10, <2>1, <2>2
<1>17. AbsentForgotten'
  <2> SUFFICES ASSUME NEW d \in Peers, d \notin connected', d # dst
               PROVE  /\ tm'.start[d] = 0 /\ tm'.end[d] = 0
                      /\ Without({"shift"})' => ~OnQueue(d)'
                      /\ Without({"leak"})' =>
                           \A i \in Slots : tm'.inUse[i] /\ tm'.dst[i] = d => i = tm'.allocated
    BY <1>1 DEF AbsentForgotten
  <2>1. CASE d = p
    BY <1>3, <1>9, <2>1, WithoutBefore
  <2>2. CASE d # p
    <3>1. d \notin connected
      BY <1>1, <2>2
    <3> QED
      BY <1>3, <1>9, <2>2, <3>1, WithoutBefore DEF Inductive, AbsentForgotten
  <2> QED
    BY <2>1, <2>2
<1>18. QueueKept'
  <2> SUFFICES ASSUME Without(Mixed \cup {"shift", "empty", "wrap"})'
               PROVE  /\ \A d \in Peers :
                           \/ Orphaned(d)'
                           \/ OnQueue(d)' <=> Pending(d)' # 0
                           \/ /\ d = dst /\ pc \in {"incremented", "wrapped", "searching", "absent", "written"}
                              /\ ~OnQueue(d)' /\ tm'.start[d] = tm'.seq[packet]
                      /\ pc \in {"searching", "absent", "written"} => Orphaned(dst)' \/ Pending(dst)' # 0
    BY <1>1 DEF QueueKept
  <2>1. Without(Mixed \cup {"shift", "empty", "wrap"}) /\ Without({"shift"})
    BY <1>3, WithoutBefore DEF Without
  <2>2. ASSUME NEW d \in Peers
        PROVE  \/ Orphaned(d)'
               \/ OnQueue(d)' <=> Pending(d)' # 0
               \/ /\ d = dst /\ pc \in {"incremented", "wrapped", "searching", "absent", "written"}
                  /\ ~OnQueue(d)' /\ tm'.start[d] = tm'.seq[packet]
    <3>1. CASE d = p
      BY <1>9, <2>1, <3>1
    <3>2. CASE d # p
      BY <1>6, <1>9, <2>1, <3>2 DEF Inductive, QueueKept
    <3> QED
      BY <3>1, <3>2
  <2>3. ASSUME pc \in {"searching", "absent", "written"}, ~Orphaned(dst)' PROVE Pending(dst)' # 0
    <3>1. PICK d \in Peers : d = dst
      BY <2>3, ControlFacts DEF Submitting
    <3>2. d # p /\ ~Orphaned(d)
      BY <1>1, <1>5, <2>3, <3>1 DEF Orphaned
    <3>3. Pending(d) # 0
      BY <2>1, <2>3, <3>1, <3>2 DEF Inductive, QueueKept
    <3>4. Pending(dst)' = Pending(d)'
      BY <1>1, <3>1 DEF Pending, WrappedEnd
    <3> QED
      BY <1>9, <3>2, <3>3, <3>4
  <2> QED
    BY <2>2, <2>3
<1> QED
  BY <1>9, <1>11, <1>12, <1>13, <1>14, <1>15, <1>16, <1>17, <1>18 DEF Inductive

(***************************************************************************)
(* Allocation, and the entries that get lost                               *)
(***************************************************************************)
(* A further entry in use that belongs to nothing spoils nothing else. *)
LEMMA EntryLeaks ==
  ASSUME Inductive, "leak" \in cutIn', cutIn \subseteq cutIn',
         tm'.dst = tm.dst, tm'.seq = tm.seq, tm'.start = tm.start, tm'.end = tm.end,
         tm'.next = tm.next, tm'.active = tm.active,
         \A i \in Slots : Live(i) => Live(i)',
         dst' = dst, removed' = removed, connected' = connected, rxSeqNum' = rxSeqNum
  PROVE  Complete' /\ Kept' /\ Expected' /\ NextInWindow'
<1>1. \A d, n : InWindow(d, n)' <=> InWindow(d, n)
  BY DEF InWindow, Pending, WrappedEnd
<1>2. \A d : /\ Pending(d)' = Pending(d)
             /\ Orphaned(d)' <=> Orphaned(d)
             /\ OnQueue(d)' <=> OnQueue(d)
  BY DEF Pending, WrappedEnd, Orphaned, OnQueue
<1>3. Kept'
  BY DEF Kept, Without
<1>4. Complete'
  <2> SUFFICES ASSUME Without(Mixed \cup {"wrap"})' \/ Without(Mixed \cup {"leak"})',
                      NEW d \in Peers, NEW n \in SeqNums, InWindow(d, n), ~Orphaned(d)
               PROVE  \E i \in Slots : Live(i)' /\ tm.dst[i] = d /\ tm.seq[i] = n
    BY <1>1, <1>2 DEF Complete, Holds
  <2>1. Without(Mixed \cup {"wrap"}) \/ Without(Mixed \cup {"leak"})
    BY WithoutBefore
  <2> QED
    BY <2>1 DEF Inductive, Complete, Holds
<1>5. Expected' /\ NextInWindow'
  BY <1>2, WithoutBefore DEF Inductive, Expected, NextInWindow
<1> QED
  BY <1>3, <1>4, <1>5

(* What allocateTxPacket does when there is a free entry. *)
LEMMA allocateCases ==
  ASSUME NEW t \in Managers, FreeSlots(t) # {}, t.allocated = NoSlot
  PROVE  LET a == allocatePacketEntry(t)
             u == allocateTxPacket(t)
         IN  /\ u \in Managers /\ a \in Slots /\ ~t.inUse[a]
             /\ u.inUse = [t.inUse EXCEPT ![a] = TRUE]
             /\ u.allocated = IF QueueFull(t.active) THEN NoSlot ELSE a
             /\ u.dst = t.dst /\ u.seq = t.seq
             /\ u.start = t.start /\ u.end = t.end /\ u.next = t.next
             /\ u.active = t.active /\ u.fault = t.fault
<1> DEFINE a == allocatePacketEntry(t)
           u == allocateTxPacket(t)
<1>1. u \in Managers
  BY allocateType DEF Managers
<1>2. a \in Slots /\ ~t.inUse[a]
  BY FirstFree DEF Managers
<1>3. CASE ~QueueFull(t.active)
  <2>1. /\ u.inUse = [t.inUse EXCEPT ![a] = TRUE] /\ u.allocated = a
        /\ u.dst = t.dst /\ u.seq = t.seq
        /\ u.start = t.start /\ u.end = t.end /\ u.next = t.next
        /\ u.active = t.active /\ u.fault = t.fault
    <3>1. u = [t EXCEPT !.inUse[a] = TRUE, !.allocated = a, !.data[a] = Torn]
      BY <1>3, ConstantFacts DEF allocateTxPacket
    <3> HIDE DEF a, u
    <3> QED
      BY <3>1 DEF Managers, TxManagers
  <2> HIDE DEF a, u
  <2> QED
    BY <1>1, <1>2, <1>3, <2>1 DEF a, u
<1>4. CASE QueueFull(t.active)
  <2>1. u = [t EXCEPT !.inUse[a] = TRUE]
    BY <1>4, ConstantFacts DEF allocateTxPacket
  <2> HIDE DEF a, u
  <2>2. /\ u.inUse = [t.inUse EXCEPT ![a] = TRUE] /\ u.allocated = NoSlot
        /\ u.dst = t.dst /\ u.seq = t.seq
        /\ u.start = t.start /\ u.end = t.end /\ u.next = t.next
        /\ u.active = t.active /\ u.fault = t.fault
    BY <2>1 DEF Managers, TxManagers
  <2> QED
    BY <1>1, <1>2, <1>4, <2>2 DEF a, u
<1> QED
  BY <1>3, <1>4

(* allocateTxPacket, between submissions. *)
LEMMA AllocateTxPacketInductive ==
  ASSUME Inductive, AllocateTxPacket
  PROVE  Inductive'
<1> DEFINE full == QueueFull(tm.active)
           a == allocatePacketEntry(tm)
<1>1. /\ UNCHANGED <<connected, rxSeqNum, dst, packet, behind, scan, removed>>
      /\ pc = "idle" /\ pc' = IF full THEN "idle" ELSE "allocated"
      /\ FreeSlots(tm) # {} /\ tm' = allocateTxPacket(tm)
      /\ cutIn' = IF full THEN cutIn \cup {"leak"} ELSE cutIn
  BY DEF AllocateTxPacket, Step
<1>2. /\ tm \in Managers /\ tm.allocated = NoSlot /\ dst = NoDst /\ ~removed /\ scan = 0
      /\ \A d \in Peers : tm.end[d] # MaxSequenceNum
  BY <1>1, ControlFacts DEF Inductive, Control, Submitting
<1>3. /\ tm' \in Managers /\ a \in Slots /\ ~tm.inUse[a]
      /\ tm'.inUse = [tm.inUse EXCEPT ![a] = TRUE]
      /\ tm'.allocated = IF full THEN NoSlot ELSE a
      /\ tm'.dst = tm.dst /\ tm'.seq = tm.seq
      /\ tm'.start = tm.start /\ tm'.end = tm.end /\ tm'.next = tm.next
      /\ tm'.active = tm.active /\ tm'.fault = tm.fault
  BY <1>1, <1>2, allocateCases
<1> HIDE DEF a
<1>4. \A i \in Slots : tm'.inUse[i] <=> tm.inUse[i] \/ i = a
  BY <1>2, <1>3, FieldTypes
<1>5. cutIn \subseteq cutIn' /\ pc' \in {"idle", "allocated"}
  BY <1>1
<1>6. TypeOK'
  <2>1. cutIn' \subseteq {"shift", "empty", "wrap", "orphan", "stale", "rejoin", "leak", "clear", "header"}
    BY <1>1 DEF Inductive, TypeOK
  <2>2. pc' \in Pcs
    BY <1>5 DEF Pcs
  <2> QED
    BY <1>1, <1>3, <2>1, <2>2 DEF Inductive, TypeOK, Managers, Pcs
<1>7. Control' /\ Header' /\ NoAssertionFails'
  BY <1>1, <1>2, <1>3, <1>5, ConstantFacts, WithoutBefore
     DEF Inductive, Control, Header, NoAssertionFails, Submitting
<1>8. RoomOnQueue' /\ Reserved'
  BY <1>1, <1>3, <1>4 DEF RoomOnQueue, Reserved, Unpublished
<1>9. Searched'
  BY <1>1, <1>2, <1>3, <1>5, WithoutBefore DEF Inductive, Searched, OnQueue
<1>10. QueueKept'
  BY <1>1, <1>2, <1>3, <1>5, WithoutBefore DEF Inductive, QueueKept, Orphaned, OnQueue, Pending, WrappedEnd
<1>11. CASE full
  <2>1. "leak" \in cutIn'
    BY <1>1, <1>11
  <2>2. \A i \in Slots : Live(i) => Live(i)'
    BY <1>1, <1>4, <1>11 DEF Live, Unpublished
  <2>3. Complete' /\ Kept' /\ Expected' /\ NextInWindow'
    BY <1>1, <1>3, <1>5, <2>1, <2>2, EntryLeaks
  <2>4. AbsentForgotten'
    BY <1>1, <1>3, <1>5, <2>1, WithoutBefore DEF Inductive, AbsentForgotten, Without, OnQueue
  <2> QED
    BY <1>6, <1>7, <1>8, <1>9, <1>10, <2>3, <2>4 DEF Inductive
<1>12. CASE ~full
  <2>1. \A i \in Slots : Live(i)' <=> Live(i)
    BY <1>1, <1>3, <1>4, <1>12 DEF Live, Unpublished
  <2>2. Complete' /\ Kept' /\ Expected' /\ NextInWindow'
    BY <1>1, <1>3, <1>5, <2>1, SameStore, ControlFacts DEF Inductive, Orphaned, WrappedEnd, OnQueue
  <2>3. AbsentForgotten'
    <3>1. \A i \in Slots : i # tm.allocated
      BY <1>2, ConstantFacts
    <3> QED
      BY <1>1, <1>3, <1>4, <1>12, <3>1 DEF Inductive, AbsentForgotten, Without, OnQueue
  <2> QED
    BY <1>6, <1>7, <1>8, <1>9, <1>10, <2>2, <2>3 DEF Inductive
<1> QED
  BY <1>11, <1>12

(* A submission to a node that is not there. *)
LEMMA SubmitToAbsentInductive ==
  ASSUME Inductive, NEW d \in Peers, SubmitToAbsent(d)
  PROVE  Inductive'
<1>1. /\ UNCHANGED <<connected, rxSeqNum, dst, packet, behind, scan, removed>>
      /\ pc = "allocated" /\ pc' = "idle"
      /\ tm' = [tm EXCEPT !.allocated = NoSlot]
      /\ cutIn' = cutIn \cup {"leak"}
  BY ConstantFacts DEF SubmitToAbsent, Step, submitAllocatedTxPacket
<1>2. /\ tm \in Managers /\ dst = NoDst /\ ~removed /\ scan = 0
      /\ \A e \in Peers : tm.end[e] # MaxSequenceNum
  BY <1>1, ControlFacts DEF Inductive, Control, Submitting
<1>3. /\ tm' \in Managers /\ tm'.allocated = NoSlot
      /\ tm'.inUse = tm.inUse /\ tm'.dst = tm.dst /\ tm'.seq = tm.seq /\ tm'.end = tm.end
      /\ tm'.active = tm.active /\ tm'.start = tm.start /\ tm'.next = tm.next
      /\ tm'.fault = tm.fault
  BY <1>1, <1>2 DEF Managers, TxManagers
<1>4. cutIn \subseteq cutIn' /\ "leak" \in cutIn'
  BY <1>1
<1>5. TypeOK'
  BY <1>1, <1>3 DEF Inductive, TypeOK, Managers
<1>6. Control' /\ Header' /\ RoomOnQueue' /\ Reserved' /\ NoAssertionFails'
  BY <1>1, <1>2, <1>3, <1>4, WithoutBefore DEF Inductive, Control, Header, RoomOnQueue, Reserved,
              NoAssertionFails, Submitting, Unpublished
<1>7. \A i \in Slots : Live(i) => Live(i)'
  BY <1>1, <1>3 DEF Live, Unpublished
<1>8. Complete' /\ Kept' /\ Expected' /\ NextInWindow'
  BY <1>1, <1>3, <1>4, <1>7, EntryLeaks
<1>9. AbsentForgotten'
  BY <1>1, <1>3, <1>4, WithoutBefore DEF Inductive, AbsentForgotten, Without, OnQueue
<1>10. Searched'
  BY <1>1, <1>2, <1>3, <1>4, WithoutBefore DEF Inductive, Searched, OnQueue
<1>11. QueueKept'
  BY <1>1, <1>2, <1>3, <1>4, WithoutBefore DEF Inductive, QueueKept, Orphaned, OnQueue, Pending, WrappedEnd
<1> QED
  BY <1>5, <1>6, <1>8, <1>9, <1>10, <1>11 DEF Inductive

(* masterResetTxCredits frees every entry and leaves the windows: nothing  *)
(* is known of the packets any more.                                       *)
LEMMA ClearBuffersInductive ==
  ASSUME Inductive, ClearBuffers
  PROVE  Inductive'
<1> DEFINE none == [i \in Slots |-> FALSE]
<1>1. /\ UNCHANGED <<connected, rxSeqNum, pc, dst, packet, behind, scan, removed>>
      /\ tm' = [tm EXCEPT !.inUse = none]
      /\ cutIn' = cutIn \cup {"clear"}
  BY DEF ClearBuffers
<1>2. tm \in Managers
  BY ControlFacts
<1>3. none \in [Slots -> BOOLEAN] /\ \A i \in Slots : ~none[i]
  OBVIOUS
<1> HIDE DEF none
<1>4. /\ tm' \in Managers /\ tm'.inUse = none
      /\ tm'.allocated = tm.allocated /\ tm'.dst = tm.dst /\ tm'.seq = tm.seq /\ tm'.end = tm.end
      /\ tm'.active = tm.active /\ tm'.start = tm.start /\ tm'.next = tm.next
      /\ tm'.fault = tm.fault
  BY <1>1, <1>2, <1>3 DEF Managers, TxManagers
<1>5. /\ cutIn \subseteq cutIn'
      /\ ~(Without(Mixed)') /\ \A W : ~(Without(Mixed \cup W)')
      /\ ~(Without({"wrap", "orphan", "header", "stale", "rejoin", "clear"})')
  BY <1>1 DEF Without, Mixed
<1>6. TypeOK'
  BY <1>1, <1>4 DEF Inductive, TypeOK, Managers
<1>7. Control' /\ Header' /\ RoomOnQueue'
  BY <1>1, <1>4, <1>5, WithoutBefore DEF Inductive, Control, Header, RoomOnQueue,
              Submitting, Unpublished, WrappedEnd
<1>8. Reserved' /\ Complete' /\ Kept' /\ Expected' /\ NextInWindow' /\ QueueKept' /\ NoAssertionFails'
  BY <1>5 DEF Reserved, Complete, Kept, Expected, NextInWindow, QueueKept, NoAssertionFails
<1>9. Searched'
  BY <1>1, <1>4, <1>5, WithoutBefore DEF Inductive, Searched, OnQueue
<1>10. AbsentForgotten'
  BY <1>1, <1>3, <1>4, <1>5, WithoutBefore DEF Inductive, AbsentForgotten, OnQueue
<1> QED
  BY <1>6, <1>7, <1>8, <1>9, <1>10 DEF Inductive

(* networkManagerRegisterNewNode: the window of an ID that is given out    *)
(* starts at the number its node expects.                                  *)
LEMMA RegisterNewNodeInductive ==
  ASSUME Inductive, NEW p \in Peers, RegisterNewNode(p)
  PROVE  Inductive'
<1>1. /\ UNCHANGED <<tm, pc, dst, packet, behind, scan, removed>>
      /\ p \notin connected /\ connected' = connected \cup {p}
      /\ rxSeqNum' = [rxSeqNum EXCEPT ![p] = NullSequenceNum]
      /\ cutIn' = cutIn \cup (IF p = dst THEN {"rejoin"} ELSE {})
  BY DEF RegisterNewNode
<1>2. cutIn \subseteq cutIn' /\ (p = dst => "rejoin" \in cutIn')
  BY <1>1
<1>3. /\ rxSeqNum \in [Peers -> 0 .. NullSequenceNum] /\ NullSequenceNum \in 0 .. NullSequenceNum
      /\ TypeOK /\ connected \subseteq Peers
  BY ConstantFacts DEF Inductive, TypeOK, NullSequenceNum
<1>4. \A d \in Peers : rxSeqNum'[d] = IF d = p THEN NullSequenceNum ELSE rxSeqNum[d]
  BY <1>1, <1>3
<1>5. rxSeqNum' \in [Peers -> 0 .. NullSequenceNum]
  BY <1>1, <1>3
<1>6. TypeOK'
  <2>1. cutIn' \subseteq {"shift", "empty", "wrap", "orphan", "stale", "rejoin", "leak", "clear", "header"}
    BY <1>1 DEF Inductive, TypeOK
  <2> QED
    BY <1>1, <1>3, <1>5, <2>1 DEF TypeOK
<1>7. Control' /\ Header' /\ RoomOnQueue' /\ Reserved' /\ NoAssertionFails'
  <2>1. Control'
    <3>1. removed /\ Without({"rejoin"})' => dst \notin connected'
      BY <1>1, <1>2, WithoutBefore DEF Inductive, Control, Without
    <3> QED
      BY <1>1, <3>1 DEF Inductive, Control, Submitting
  <2>2. Header' /\ RoomOnQueue' /\ Reserved' /\ NoAssertionFails'
    BY <1>1, <1>2, WithoutBefore DEF Inductive, Header, RoomOnQueue, Reserved,
              NoAssertionFails, Submitting, Unpublished, WrappedEnd
  <2> QED
    BY <2>1, <2>2
<1>8. Complete' /\ Kept' /\ NextInWindow' /\ QueueKept'
  <2>1. \A d, n : InWindow(d, n)' <=> InWindow(d, n)
    BY <1>1 DEF InWindow, Pending, WrappedEnd
  <2>2. \A d : /\ Pending(d)' = Pending(d)
               /\ Orphaned(d)' <=> Orphaned(d)
               /\ OnQueue(d)' <=> OnQueue(d)
    BY <1>1 DEF Pending, WrappedEnd, Orphaned, OnQueue
  <2>3. \A i, d, n : Holds(i, d, n)' <=> Holds(i, d, n)
    BY <1>1 DEF Holds, Live, Unpublished
  <2>4. Complete'
    BY <1>2, <2>1, <2>2, <2>3, WithoutBefore DEF Inductive, Complete
  <2>5. Kept'
    BY <1>1, <1>2, WithoutBefore DEF Inductive, Kept, Holds, Live, Unpublished, Orphaned,
                                     InWindow, Pending, WrappedEnd
  <2>6. NextInWindow' /\ QueueKept'
    BY <1>1, <1>2, <2>2, WithoutBefore DEF Inductive, NextInWindow, QueueKept, Orphaned, Pending, WrappedEnd
  <2> QED
    BY <2>4, <2>5, <2>6
<1>9. Searched' /\ AbsentForgotten'
  BY <1>1, <1>2, WithoutBefore DEF Inductive, Searched, AbsentForgotten, OnQueue
<1>10. Expected'
  <2> SUFFICES ASSUME Without(Mixed \cup {"wrap"})', NEW d \in connected'
               PROVE  /\ Dist(tm.start[d], expectedSeqNum(rxSeqNum'[d])) <= Pending(d)
                      /\ ~OnQueue(d) => expectedSeqNum(rxSeqNum'[d]) = tm.start[d]
    BY <1>1 DEF Expected, Pending, WrappedEnd, OnQueue
  <2>1. Without(Mixed \cup {"wrap"}) /\ p # dst
    BY <1>2, WithoutBefore DEF Without, Mixed
  <2>2. CASE d = p
    <3>1. tm.start[p] = 0 /\ tm.end[p] = 0
      BY <1>1, <2>1 DEF Inductive, AbsentForgotten
    <3>2. Pending(p) = 0 /\ expectedSeqNum(rxSeqNum'[p]) = 0 /\ Dist(0, 0) = 0
      BY <1>4, <3>1, ConstantFacts DEF Pending, WrappedEnd, Dist, expectedSeqNum
    <3> QED
      BY <2>2, <3>1, <3>2
  <2>3. CASE d # p
    <3>1. d \in connected /\ d \in Peers
      BY <1>1, <1>3, <2>3
    <3> QED
      BY <1>4, <2>1, <2>3, <3>1 DEF Inductive, Expected
  <2> QED
    BY <2>2, <2>3
<1> QED
  BY <1>6, <1>7, <1>8, <1>9, <1>10 DEF Inductive

(***************************************************************************)
(* masterProcessTx                                                         *)
(***************************************************************************)
(* A destination on the queue whose window is not being changed: its next  *)
(* number is in range, and if it is not the end it is that of a packet.    *)
LEMMA NextPacket ==
  ASSUME Inductive, NEW d \in Peers, Without(Mixed \cup {"wrap"}), ~Orphaned(d),
         tm.end[d] # MaxSequenceNum
  PROVE  /\ NextInRange(tm, d)
         /\ tm.next[d] # tm.end[d] =>
              /\ Matching(tm, d, tm.next[d]) # {}
              /\ Dist(tm.start[d], Incr(tm.next[d])) <= Pending(d)
<1>1. /\ tm.start[d] \in SeqNums /\ tm.end[d] \in SeqNums /\ tm.next[d] \in SeqNums
      /\ WrappedEnd(d) = tm.end[d] /\ Pending(d) \in Nat /\ Pending(d) < MaxSequenceNum
  BY WindowFacts DEF Inductive
<1>2. Dist(tm.start[d], tm.next[d]) <= Pending(d)
  BY DEF Inductive, NextInWindow
<1>3. NextInRange(tm, d)
  BY <1>1, <1>2, NextInRangeTest DEF Pending
<1>4. ASSUME tm.next[d] # tm.end[d]
      PROVE  /\ Matching(tm, d, tm.next[d]) # {}
             /\ Dist(tm.start[d], Incr(tm.next[d])) <= Pending(d)
  <2>1. Dist(tm.start[d], tm.next[d]) \in Nat /\ Dist(tm.start[d], tm.next[d]) # Pending(d)
    BY <1>1, <1>4, DistType, DistInjective DEF Pending
  <2>2. InWindow(d, tm.next[d])
    BY <1>1, <1>2, <2>1 DEF InWindow
  <2>3. PICK i \in Slots : Holds(i, d, tm.next[d])
    BY <1>1, <2>2 DEF Inductive, Complete
  <2>4. i \in Matching(tm, d, tm.next[d])
    BY <2>3 DEF Holds, Live, Matching
  <2>5. Dist(tm.start[d], tm.next[d]) + 1 < MaxSequenceNum
    BY <1>1, <1>2, <2>1, ConstantFacts
  <2>6. Dist(tm.start[d], Incr(tm.next[d])) = Dist(tm.start[d], tm.next[d]) + 1
    BY <1>1, <2>5, DistIncr
  <2> QED
    BY <1>1, <1>2, <2>1, <2>4, <2>6
<1> QED
  BY <1>3, <1>4

(* A packet is chosen, and received or lost. *)
LEMMA ProcessTxInductive ==
  ASSUME Inductive, NEW received \in BOOLEAN, ProcessTx(received)
  PROVE  Inductive'
<1> DEFINE r == masterGetNextTxDataPacket(tm)
           P == Range(tm.active.nodeIds)
<1>1. /\ UNCHANGED <<connected, pc, dst, packet, behind, scan, removed>>
      /\ ~tm.fault /\ tm' = r.tm
      /\ rxSeqNum' = IF received /\ r.entry # NoSlot
                     THEN [rxSeqNum EXCEPT ![tm.dst[r.entry]] =
                             rxPacketCheckAndUpdateSeqNum(@, tm.seq[r.entry])]
                     ELSE rxSeqNum
      /\ cutIn' = cutIn \cup Interrupts(r.tm, P)
  BY DEF ProcessTx
<1>2. /\ tm \in Managers /\ TypeOK /\ connected \subseteq Peers
      /\ rxSeqNum \in [Peers -> 0 .. NullSequenceNum]
  BY ControlFacts DEF Inductive, TypeOK
<1>3. /\ r.tm \in Managers
      /\ SameQueues(tm, r.tm)
      /\ \/ r.tm.fault = tm.fault /\ ChoosesFrom(ActiveNodes(tm), tm, r.tm, r.entry)
         \/ /\ r.entry = NoSlot /\ r.tm.next = tm.next
            /\ \E d \in ActiveNodes(tm) : Asserts(tm, d)
  BY <1>2, masterGetNextFacts DEF Managers
<1>4. \A d : d \in P <=> OnQueue(d)
  <2>1. tm.active.nodeIds \in Seq(Peers)
    BY <1>2, FieldTypes
  <2> QED
    BY <2>1 DEF OnQueue, Contains, Range
<1>5. /\ dst \in P /\ pc = "incremented" /\ tm.end[dst] = MaxSequenceNum => "wrap" \in cutIn'
      /\ dst \in P /\ removed => "orphan" \in cutIn'
      /\ cutIn \subseteq cutIn'
      /\ cutIn' \subseteq cutIn \cup {"shift", "empty", "wrap", "orphan", "header"}
  BY <1>1, InterruptFacts
<1> HIDE DEF r, P
<1>6. /\ tm' \in Managers
      /\ tm'.inUse = tm.inUse /\ tm'.dst = tm.dst /\ tm'.seq = tm.seq /\ tm'.allocated = tm.allocated
      /\ tm'.start = tm.start /\ tm'.end = tm.end /\ tm'.active = tm.active
  BY <1>1, <1>3 DEF SameQueues
<1>7. ActiveNodes(tm) = {d \in Peers : OnQueue(d)}
  BY DEF ActiveNodes, OnQueue
(* The destinations that are tried. *)
<1>8. ASSUME NEW d \in ActiveNodes(tm), Without(Mixed \cup {"wrap"})', ~Orphaned(d)
      PROVE  /\ d \in Peers /\ ~Asserts(tm, d)
             /\ Finds(tm, d) => Dist(tm.start[d], Incr(tm.next[d])) <= Pending(d)
  <2>1. d \in Peers /\ d \in P
    BY <1>4, <1>7
  <2>2. Without(Mixed \cup {"wrap"}) /\ "wrap" \notin cutIn'
    BY <1>5, <1>8, WithoutBefore DEF Without
  <2>3. tm.end[d] # MaxSequenceNum
    BY <1>5, <2>1, <2>2 DEF Inductive, Control
  <2> QED
    BY <1>8, <2>1, <2>2, <2>3, NextPacket DEF Asserts, Finds, AtWindowEnd
<1>9. r.entry # NoSlot =>
        \E d \in ActiveNodes(tm) :
          /\ Finds(tm, d) /\ tm.dst[r.entry] = d /\ tm.seq[r.entry] = tm.next[d]
          /\ tm'.next = [tm.next EXCEPT ![d] = Incr(@)]
  <2> SUFFICES ASSUME r.entry # NoSlot
               PROVE  \E d \in ActiveNodes(tm) :
                        /\ Finds(tm, d) /\ tm.dst[r.entry] = d /\ tm.seq[r.entry] = tm.next[d]
                        /\ tm'.next = [tm.next EXCEPT ![d] = Incr(@)]
    OBVIOUS
  <2>1. PICK d \in ActiveNodes(tm) : /\ Finds(tm, d) /\ ~Asserts(tm, d)
                                     /\ r.entry = findPacketEntry(tm, d, tm.next[d])
                                     /\ r.tm.next = [tm.next EXCEPT ![d] = Incr(@)]
    BY <1>3 DEF ChoosesFrom
  <2>2. Matching(tm, d, tm.next[d]) # {}
    BY <2>1 DEF Asserts, Finds
  <2>3. r.entry \in Matching(tm, d, tm.next[d])
    BY <2>1, <2>2, FirstMatch
  <2> QED
    BY <1>1, <2>1, <2>3, ConstantFacts DEF Matching
<1>10. r.entry = NoSlot => tm'.next = tm.next /\ rxSeqNum' = rxSeqNum
  <2> SUFFICES ASSUME r.entry = NoSlot PROVE tm'.next = tm.next
    BY <1>1
  <2>1. ASSUME NEW d \in ActiveNodes(tm), Finds(tm, d), ~Asserts(tm, d),
               r.entry = findPacketEntry(tm, d, tm.next[d])
        PROVE  FALSE
    <3>1. Matching(tm, d, tm.next[d]) # {}
      BY <2>1 DEF Asserts, Finds
    <3> QED
      BY <2>1, <3>1, FirstMatch, ConstantFacts
  <2> QED
    BY <1>1, <1>3, <2>1 DEF ChoosesFrom
<1>11. \A d \in Peers : /\ Pending(d)' = Pending(d) /\ WrappedEnd(d)' = WrappedEnd(d)
                        /\ Orphaned(d)' <=> Orphaned(d)
                        /\ OnQueue(d)' <=> OnQueue(d)
  BY <1>1, <1>6 DEF Pending, WrappedEnd, Orphaned, OnQueue
<1>12. rxSeqNum' \in [Peers -> 0 .. NullSequenceNum]
  <2>1. CASE r.entry = NoSlot
    BY <1>2, <1>10, <2>1
  <2>2. CASE r.entry # NoSlot
    <3>1. PICK d \in ActiveNodes(tm) : tm.dst[r.entry] = d /\ tm.seq[r.entry] = tm.next[d]
      BY <1>9, <2>2
    <3>2. d \in Peers /\ tm.next[d] \in 0 .. NullSequenceNum
      BY <1>2, <1>7, <3>1, WindowFacts, ConstantFacts DEF NullSequenceNum
    <3>3. rxPacketCheckAndUpdateSeqNum(rxSeqNum[d], tm.next[d]) \in 0 .. NullSequenceNum
      BY <1>2, <3>2 DEF rxPacketCheckAndUpdateSeqNum
    <3> QED
      BY <1>1, <1>2, <3>1, <3>2, <3>3
  <2> QED
    BY <2>1, <2>2
<1>13. TypeOK'
  <2>1. cutIn' \subseteq {"shift", "empty", "wrap", "orphan", "stale", "rejoin", "leak", "clear", "header"}
    BY <1>2, <1>5 DEF TypeOK
  <2> QED
    BY <1>1, <1>6, <1>12, <2>1 DEF Inductive, TypeOK, Managers
<1>14. Control' /\ Header' /\ RoomOnQueue' /\ Reserved'
  BY <1>1, <1>5, <1>6, WithoutBefore DEF Inductive, Control, Header, RoomOnQueue, Reserved,
     Submitting, Unpublished, WrappedEnd
<1>15. Complete'
  <2>1. \A d \in Peers, n \in SeqNums : InWindow(d, n)' <=> InWindow(d, n)
    BY <1>6, <1>11 DEF InWindow
  <2>2. \A i \in Slots : \A d, n : Holds(i, d, n)' <=> Holds(i, d, n)
    BY <1>1, <1>6 DEF Holds, Live, Unpublished
  <2> QED
    BY <1>5, <1>11, <2>1, <2>2, WithoutBefore DEF Inductive, Complete
<1>16. Kept'
  BY <1>1, <1>5, <1>6, WithoutBefore DEF Inductive, Kept, Holds, Live, Unpublished, Orphaned,
                                         InWindow, Pending, WrappedEnd
<1>17. Searched' /\ AbsentForgotten'
  BY <1>1, <1>5, <1>6, WithoutBefore DEF Inductive, Searched, AbsentForgotten, OnQueue
<1>18. QueueKept'
  BY <1>1, <1>5, <1>6, WithoutBefore DEF Inductive, QueueKept, Orphaned, OnQueue, Pending, WrappedEnd
<1>19. NextInWindow'
  <2> SUFFICES ASSUME Without(Mixed \cup {"wrap"})', NEW d \in Peers, ~Orphaned(d)
               PROVE  Dist(tm.start[d], tm'.next[d]) <= Pending(d)
    BY <1>6, <1>11 DEF NextInWindow
  <2>1. Dist(tm.start[d], tm.next[d]) <= Pending(d)
    BY <1>5, WithoutBefore DEF Inductive, NextInWindow
  <2>2. CASE tm'.next[d] = tm.next[d]
    BY <2>1, <2>2
  <2>3. CASE tm'.next[d] # tm.next[d]
    <3>1. r.entry # NoSlot
      BY <1>10, <2>3
    <3>2. PICK e \in ActiveNodes(tm) : Finds(tm, e) /\ tm'.next = [tm.next EXCEPT ![e] = Incr(@)]
      BY <1>9, <3>1
    <3>3. e = d /\ tm'.next[d] = Incr(tm.next[d])
      BY <1>2, <2>3, <3>2, FieldTypes
    <3> QED
      BY <1>8, <3>2, <3>3
  <2> QED
    BY <2>2, <2>3
<1>20. Expected'
  <2> SUFFICES ASSUME Without(Mixed \cup {"wrap"})', NEW d \in connected
               PROVE  /\ Dist(tm.start[d], expectedSeqNum(rxSeqNum'[d])) <= Pending(d)
                      /\ ~OnQueue(d) => expectedSeqNum(rxSeqNum'[d]) = tm.start[d]
    BY <1>1, <1>2, <1>6, <1>11 DEF Expected
  <2>1. Without(Mixed \cup {"wrap"}) /\ d \in Peers /\ ~Orphaned(d)
    BY <1>2, <1>5, WithoutBefore DEF Inductive, Control, Orphaned, Without, Mixed
  <2>2. /\ Dist(tm.start[d], expectedSeqNum(rxSeqNum[d])) <= Pending(d)
        /\ ~OnQueue(d) => expectedSeqNum(rxSeqNum[d]) = tm.start[d]
    BY <2>1 DEF Inductive, Expected
  <2>3. CASE rxSeqNum'[d] = rxSeqNum[d]
    BY <2>2, <2>3
  <2>4. CASE rxSeqNum'[d] # rxSeqNum[d]
    <3>1. r.entry # NoSlot
      BY <1>10, <2>4
    <3>2. PICK e \in ActiveNodes(tm) :
            Finds(tm, e) /\ tm.dst[r.entry] = e /\ tm.seq[r.entry] = tm.next[e]
      BY <1>9, <3>1
    <3>3. rxSeqNum' = [rxSeqNum EXCEPT ![e] = rxPacketCheckAndUpdateSeqNum(@, tm.next[e])]
      BY <1>1, <2>4, <3>2
    <3>4. e = d /\ rxSeqNum'[d] = tm.next[d]
      BY <1>2, <2>1, <2>4, <3>3 DEF rxPacketCheckAndUpdateSeqNum
    <3>5. tm.next[d] # NullSequenceNum
      BY <1>2, <2>1, WindowFacts, ConstantFacts DEF NullSequenceNum
    <3>6. expectedSeqNum(rxSeqNum'[d]) = Incr(tm.next[d])
      BY <3>4, <3>5 DEF expectedSeqNum
    <3> QED
      BY <1>7, <1>8, <2>1, <3>2, <3>4, <3>6
  <2> QED
    BY <2>3, <2>4
<1>21. NoAssertionFails'
  <2> SUFFICES ASSUME Without({"wrap", "orphan", "header", "stale", "rejoin", "clear"})', tm'.fault
               PROVE  FALSE
    BY DEF NoAssertionFails
  <2>1. PICK d \in ActiveNodes(tm) : Asserts(tm, d)
    BY <1>1, <1>3
  <2>2. Without(Mixed \cup {"wrap"})' /\ "orphan" \notin cutIn'
    BY DEF Without, Mixed
  <2>3. ~Orphaned(d)
    BY <1>4, <1>5, <1>7, <2>1, <2>2 DEF Orphaned
  <2> QED
    BY <1>8, <2>1, <2>2, <2>3
<1> QED
  BY <1>13, <1>14, <1>15, <1>16, <1>17, <1>18, <1>19, <1>20, <1>21 DEF Inductive

(***************************************************************************)
(* masterProcessRx                                                         *)
(***************************************************************************)
(* The window from a to e after its start has moved to s. *)
LEMMA StartMoves ==
  ASSUME NEW a \in SeqNums, NEW s \in SeqNums, NEW e \in SeqNums, Dist(a, s) <= Dist(a, e)
  PROVE  /\ Dist(s, e) = Dist(a, e) - Dist(a, s)
         /\ \A n \in SeqNums : /\ Dist(s, n) < Dist(s, e) <=>
                                    Dist(a, n) < Dist(a, e) /\ ~(Dist(a, n) < Dist(a, s))
                               /\ Dist(a, n) <= Dist(a, e) /\ ~(Dist(a, n) < Dist(a, s)) =>
                                    Dist(s, n) <= Dist(s, e)
<1>1. Dist(s, e) = Dist(a, e) - Dist(a, s)
  BY DistSplit
<1>2. Dist(a, s) \in Nat /\ Dist(a, e) \in Nat /\ Dist(a, e) < MaxSequenceNum
  BY DistType
<1>3. ASSUME NEW n \in SeqNums
      PROVE  /\ Dist(s, n) < Dist(s, e) <=> Dist(a, n) < Dist(a, e) /\ ~(Dist(a, n) < Dist(a, s))
             /\ Dist(a, n) <= Dist(a, e) /\ ~(Dist(a, n) < Dist(a, s)) => Dist(s, n) <= Dist(s, e)
  <2>1. Dist(a, n) \in Nat /\ Dist(s, n) \in Nat
    BY DistType
  <2>2. CASE Dist(a, s) <= Dist(a, n)
    <3>1. Dist(s, n) = Dist(a, n) - Dist(a, s)
      BY <2>2, DistSplit
    <3> QED
      BY <1>1, <1>2, <2>1, <2>2, <3>1
  <2>3. CASE Dist(a, s) > Dist(a, n)
    <3>1. Dist(s, n) = Dist(a, n) - Dist(a, s) + MaxSequenceNum
      BY <2>3, DistSplit
    <3> QED
      BY <1>1, <1>2, <2>1, <2>3, <3>1, ConstantFacts
  <2> QED
    BY <1>2, <2>1, <2>2, <2>3
<1> QED
  BY <1>1, <1>3

(* A valid ack is one of the window, and so are the numbers that it        *)
(* acknowledges.                                                           *)
LEMMA AckInWindow ==
  ASSUME TypeOK, NEW p \in Peers, NEW ack \in SeqNums, validSeqNum(tm, p, ack),
         tm.end[p] # MaxSequenceNum \/ tm.start[p] # 0
  PROVE  LET s == Incr(ack)
         IN  /\ s \in SeqNums /\ s # tm.start[p]
             /\ Dist(tm.start[p], s) <= Pending(p)
             /\ s = WrappedEnd(p) <=> Dist(tm.start[p], s) = Pending(p)
             /\ \A n \in Acked(tm, p, s) : n \in SeqNums /\ InWindow(p, n)
<1> DEFINE s == Incr(ack)
           a == tm.start[p]
<1>1. a \in SeqNums /\ WrappedEnd(p) \in SeqNums /\ Pending(p) \in Nat /\ Pending(p) < MaxSequenceNum
  BY WindowFacts
<1>2. InWindow(p, ack)
  BY WindowFacts
<1>3. s \in SeqNums /\ Dist(a, ack) \in Nat /\ Dist(a, s) \in Nat
  BY <1>1, IncrType, DistType
<1>4. Dist(a, ack) < Pending(p)
  BY <1>2 DEF InWindow
<1>5. Dist(a, s) = Dist(a, ack) + 1
  <2>1. Dist(a, ack) + 1 < MaxSequenceNum
    BY <1>1, <1>3, <1>4, ConstantFacts
  <2> QED
    BY <1>1, <2>1, DistIncr
<1> HIDE DEF s, a
<1>6. s # a
  BY <1>1, <1>3, <1>5, DistType
<1>7. s = WrappedEnd(p) <=> Dist(a, s) = Pending(p)
  BY <1>1, <1>3, DistInjective DEF Pending, a
<1>8. ASSUME NEW n \in Acked(tm, p, s) PROVE n \in SeqNums /\ InWindow(p, n)
  <2>1. n \in SeqNums /\ Dist(a, n) < Dist(a, s)
    BY <1>8 DEF Acked, a
  <2>2. Dist(a, n) \in Nat
    BY <1>1, <2>1, DistType
  <2> QED
    BY <1>1, <1>3, <1>4, <1>5, <2>1, <2>2 DEF InWindow, a
<1> QED
  BY <1>1, <1>3, <1>4, <1>5, <1>6, <1>7, <1>8 DEF s, a

(* An entry that is being written is found for a number of the window only *)
(* before its own number is in it.                                         *)
LEMMA UnpublishedFound ==
  ASSUME Inductive, NEW p \in Peers, NEW n \in SeqNums, InWindow(p, n), ~Orphaned(p),
         Unpublished, tm.dst[tm.allocated] = p, tm.seq[tm.allocated] = n
  PROVE  /\ pc \in {"allocated", "checked", "addressed"}
         /\ validSeqNum(tm, tm.dst[tm.allocated], tm.seq[tm.allocated])
<1>1. TypeOK /\ tm.end[p] # MaxSequenceNum
  BY DEF Inductive, Control, Unpublished
<1>2. validSeqNum(tm, p, n)
  BY <1>1, WindowFacts
<1>3. pc # "numbered"
  <2> SUFFICES ASSUME pc = "numbered" PROVE FALSE
    OBVIOUS
  <2>1. packet = tm.allocated /\ tm.dst[packet] = dst
    BY ControlFacts DEF Inductive, Header, Submitting
  <2>2. tm.seq[packet] = tm.end[p] /\ p = dst
    BY <2>1 DEF Inductive, Header, Orphaned
  <2>3. n = WrappedEnd(p)
    BY <1>1, <2>1, <2>2, WindowFacts
  <2>4. Dist(tm.start[p], n) = Pending(p) /\ Pending(p) \in Nat
    BY <1>1, <2>3, WindowFacts DEF Pending
  <2> QED
    BY <2>4 DEF InWindow
<1> QED
  BY <1>2, <1>3 DEF Unpublished

(* A node that is on no queue has been sent nothing of its window: it      *)
(* cannot acknowledge any of it.                                           *)
LEMMA AckNeedsQueue ==
  ASSUME Inductive, NEW p \in connected, NEW ack \in SeqNums, rxSeqNum[p] = ack,
         validSeqNum(tm, p, ack), tm.end[p] # MaxSequenceNum, Without(Mixed \cup {"wrap"})
  PROVE  OnQueue(p)
<1>1. p \in Peers /\ TypeOK
  BY DEF Inductive, TypeOK
<1>2. Incr(ack) # tm.start[p]
  BY <1>1, AckInWindow
<1>3. expectedSeqNum(rxSeqNum[p]) = Incr(ack)
  BY ConstantFacts DEF expectedSeqNum, NullSequenceNum
<1> QED
  BY <1>2, <1>3 DEF Inductive, Expected

(* The steps of rxAckSeqNum for an ack from p, and what the interruption   *)
(* is recorded as.                                                         *)
AckStep(p) ==
  /\ UNCHANGED <<connected, rxSeqNum, pc, dst, packet, scan, removed>>
  /\ tm \in Managers /\ tm' \in Managers /\ ~tm.fault
  /\ behind' = BehindAfter(tm.active, tm'.active)
  /\ cutIn \subseteq cutIn'
  /\ cutIn' \subseteq cutIn \cup {"shift", "empty", "wrap", "orphan", "header"}
  /\ (pc = "written" \/ scan > 0) /\ numNodes(tm'.active) < numNodes(tm.active) => "shift" \in cutIn'
  /\ pc = "searching" /\ OnQueue(dst) /\ ~OnQueue(dst)' /\ ~removed => "empty" \in cutIn'
  /\ p = dst /\ pc = "incremented" /\ tm.end[dst] = MaxSequenceNum => "wrap" \in cutIn'
  /\ p = dst /\ removed => "orphan" \in cutIn'
  /\ /\ pc \in {"allocated", "checked", "addressed"} /\ tm.dst[tm.allocated] = p
     /\ validSeqNum(tm, tm.dst[tm.allocated], tm.seq[tm.allocated])
     => "header" \in cutIn'

LEMMA RxAckStep ==
  ASSUME Inductive, NEW p \in Peers, RxAck(p)
  PROVE  /\ AckStep(p)
         /\ LET ack == rxSeqNum[p]
            IN  AckIgnored(tm, tm', p, ack) \/ AckFails(tm, tm', p, ack) \/ AckMoves(tm, tm', p, ack)
<1> DEFINE ack == rxSeqNum[p]
           I == Interrupts(tm', {p})
<1>1. /\ UNCHANGED <<connected, rxSeqNum, pc, dst, packet, scan, removed>>
      /\ ~tm.fault /\ tm' = rxAckSeqNum(tm, p, ack)
      /\ behind' = BehindAfter(tm.active, tm'.active)
      /\ cutIn' = cutIn \cup I
  BY DEF RxAck
<1>2. tm \in Managers /\ ack \in 0 .. NullSequenceNum
  BY ControlFacts DEF Inductive, TypeOK
<1>3. /\ tm' \in Managers
      /\ AckIgnored(tm, tm', p, ack) \/ AckFails(tm, tm', p, ack) \/ AckMoves(tm, tm', p, ack)
  BY <1>1, <1>2, rxAckEffect
<1>4. /\ "shift" \in I <=> (pc = "written" \/ scan > 0) /\ numNodes(tm'.active) < numNodes(tm.active)
      /\ "empty" \in I <=> /\ pc = "searching" /\ Contains(tm.active.nodeIds, dst)
                           /\ ~Contains(tm'.active.nodeIds, dst) /\ ~removed
      /\ "wrap" \in I <=> dst \in {p} /\ pc = "incremented" /\ tm.end[dst] = MaxSequenceNum
      /\ "orphan" \in I <=> dst \in {p} /\ removed
      /\ "header" \in I <=>
           /\ pc \in {"allocated", "checked", "addressed"}
           /\ tm.dst[tm.allocated] \in {p}
           /\ validSeqNum(tm, tm.dst[tm.allocated], tm.seq[tm.allocated])
      /\ I \subseteq {"shift", "empty", "wrap", "orphan", "header"}
  BY InterruptFacts
<1> HIDE DEF I
<1>5. AckStep(p)
  BY <1>1, <1>2, <1>3, <1>4 DEF AckStep, OnQueue
<1> QED
  BY <1>3, <1>5

(* A step of rxAckSeqNum that leaves packets, windows and queue alone. *)
LEMMA AckLeavesQueues ==
  ASSUME Inductive, NEW p \in Peers, AckStep(p), SameQueues(tm, tm'),
         tm'.next = tm.next \/ tm'.next = [tm.next EXCEPT ![p] = tm.start[p]],
         NoAssertionFails'
  PROVE  Inductive'
<1>1. /\ UNCHANGED <<connected, rxSeqNum, pc, dst, packet, scan, removed>>
      /\ tm' \in Managers /\ TypeOK /\ tm \in Managers
      /\ behind' = BehindAfter(tm.active, tm'.active)
      /\ cutIn \subseteq cutIn'
      /\ cutIn' \subseteq cutIn \cup {"shift", "empty", "wrap", "orphan", "header"}
  BY DEF AckStep, Inductive
<1>2. /\ tm'.inUse = tm.inUse /\ tm'.dst = tm.dst /\ tm'.seq = tm.seq /\ tm'.allocated = tm.allocated
      /\ tm'.start = tm.start /\ tm'.end = tm.end /\ tm'.active = tm.active
  BY DEF SameQueues
<1>3. behind' = behind
  <2>1. Len(tm.active.nodeIds) \in Nat
    BY <1>1, FieldTypes
  <2> QED
    BY <1>1, <1>2, <2>1 DEF BehindAfter
<1>4. TypeOK'
  <2>1. cutIn' \subseteq {"shift", "empty", "wrap", "orphan", "stale", "rejoin", "leak", "clear", "header"}
    BY <1>1 DEF TypeOK
  <2> QED
    BY <1>1, <1>3, <2>1 DEF TypeOK, Managers
<1>5. Control' /\ Header' /\ RoomOnQueue' /\ Reserved'
  BY <1>1, <1>2, <1>3, WithoutBefore DEF Inductive, Control, Header, RoomOnQueue, Reserved,
     Submitting, Unpublished, WrappedEnd
<1>6. \A d \in Peers : /\ Pending(d)' = Pending(d)
                       /\ Orphaned(d)' <=> Orphaned(d)
                       /\ OnQueue(d)' <=> OnQueue(d)
  BY <1>1, <1>2 DEF Pending, WrappedEnd, Orphaned, OnQueue
<1>7. Complete'
  <2>1. \A d \in Peers, n \in SeqNums : InWindow(d, n)' <=> InWindow(d, n)
    BY <1>2, <1>6 DEF InWindow
  <2>2. \A i \in Slots : \A d, n : Holds(i, d, n)' <=> Holds(i, d, n)
    BY <1>1, <1>2 DEF Holds, Live, Unpublished
  <2> QED
    BY <1>1, <1>6, <2>1, <2>2, WithoutBefore DEF Inductive, Complete
<1>8. Kept'
  BY <1>1, <1>2, WithoutBefore DEF Inductive, Kept, Holds, Live, Unpublished, Orphaned,
                                   InWindow, Pending, WrappedEnd
<1>9. Searched' /\ AbsentForgotten'
  BY <1>1, <1>2, <1>3, WithoutBefore DEF Inductive, Searched, AbsentForgotten, OnQueue
<1>10. QueueKept' /\ Expected'
  BY <1>1, <1>2, WithoutBefore DEF Inductive, QueueKept, Expected, Orphaned, OnQueue, Pending, WrappedEnd
<1>11. NextInWindow'
  <2> SUFFICES ASSUME Without(Mixed \cup {"wrap"})', NEW d \in Peers, ~Orphaned(d)
               PROVE  Dist(tm.start[d], tm'.next[d]) <= Pending(d)
    BY <1>2, <1>6 DEF NextInWindow
  <2>1. Dist(tm.start[d], tm.next[d]) <= Pending(d)
    BY <1>1, WithoutBefore DEF Inductive, NextInWindow
  <2>2. tm'.next[d] = tm.next[d] \/ tm'.next[d] = tm.start[d]
    BY <1>1, FieldTypes
  <2>3. Dist(tm.start[d], tm.start[d]) <= Pending(d)
    <3>1. tm.start[d] \in SeqNums /\ Pending(d) \in Nat
      BY <1>1, WindowFacts
    <3>2. Dist(tm.start[d], tm.start[d]) = 0
      BY <3>1, DistType
    <3> QED
      BY <3>1, <3>2
  <2> QED
    BY <2>1, <2>2, <2>3
<1> QED
  BY <1>4, <1>5, <1>7, <1>8, <1>9, <1>10, <1>11 DEF Inductive

(* An ack for which a packet is missing: there is none without one of the  *)
(* interruptions.                                                          *)
LEMMA AckFindsPackets ==
  ASSUME Inductive, NEW p \in Peers, AckStep(p), NEW ack, AckFails(tm, tm', p, ack)
  PROVE  NoAssertionFails'
<1> SUFFICES ASSUME Without({"wrap", "orphan", "header", "stale", "rejoin", "clear"})' PROVE FALSE
  BY DEF NoAssertionFails
<1>1. ack \in SeqNums /\ validSeqNum(tm, p, ack) /\ TypeOK /\ cutIn \subseteq cutIn'
  BY DEF AckFails, Inductive, AckStep
<1>2. PICK n \in Acked(tm, p, Incr(ack)) : Matching(tm, p, n) = {}
  BY DEF AckFails
<1>3. "wrap" \notin cutIn' /\ "orphan" \notin cutIn' /\ Without(Mixed \cup {"wrap"})'
  BY DEF Without, Mixed
<1>4. tm.end[p] # MaxSequenceNum /\ ~Orphaned(p) /\ Without(Mixed \cup {"wrap"})
  BY <1>1, <1>3, WithoutBefore DEF AckStep, Inductive, Control, Orphaned
<1>5. n \in SeqNums /\ InWindow(p, n)
  BY <1>1, <1>4, AckInWindow
<1>6. PICK i \in Slots : Holds(i, p, n)
  BY <1>4, <1>5 DEF Inductive, Complete
<1>7. i \in Matching(tm, p, n)
  BY <1>6 DEF Holds, Live, Matching
<1> QED
  BY <1>2, <1>7

(* A valid ack moves the window and frees its packets. *)
LEMMA AckMovesInductive ==
  ASSUME Inductive, NEW p \in Peers, AckStep(p), NEW ack, ack = rxSeqNum[p],
         AckMoves(tm, tm', p, ack)
  PROVE  Inductive'
<1> DEFINE s == Incr(ack)
           A == Acked(tm, p, s)
           odd == tm.end[p] = MaxSequenceNum /\ tm.start[p] = 0
<1>1. /\ UNCHANGED <<connected, rxSeqNum, pc, dst, packet, scan, removed>>
      /\ tm \in Managers /\ tm' \in Managers /\ ~tm.fault /\ TypeOK
      /\ behind' = BehindAfter(tm.active, tm'.active)
      /\ cutIn \subseteq cutIn'
      /\ cutIn' \subseteq cutIn \cup {"shift", "empty", "wrap", "orphan", "header"}
  BY DEF AckStep, Inductive
<1>2. /\ ack \in SeqNums /\ validSeqNum(tm, p, ack)
      /\ \A n \in A : Matching(tm, p, n) # {}
      /\ \A i \in Slots : tm'.inUse[i] <=> tm.inUse[i] /\ \A n \in A : i # findPacketEntry(tm, p, n)
      /\ tm'.dst = tm.dst /\ tm'.seq = tm.seq /\ tm'.allocated = tm.allocated
      /\ tm'.start = [tm.start EXCEPT ![p] = s]
      /\ tm'.end = tm.end
      /\ tm'.next = [tm.next EXCEPT ![p] = NextAfterAck(tm, p, s)]
      /\ tm'.active = IF s = tm.end[p] THEN nodeQueueRemoveIfExists(tm.active, p) ELSE tm.active
      /\ tm'.fault => tm.fault \/ (s = tm.end[p] /\ ~Contains(tm.active.nodeIds, p))
  BY DEF AckMoves
<1>3. s \in SeqNums
  BY <1>2, IncrType
<1>4. \A d \in Peers : /\ tm'.start[d] = IF d = p THEN s ELSE tm.start[d]
                       /\ tm'.next[d] = IF d = p THEN NextAfterAck(tm, p, s) ELSE tm.next[d]
  BY <1>1, <1>2, FieldTypes
<1>5. ASSUME ~odd
      PROVE  /\ s # tm.start[p] /\ Dist(tm.start[p], s) <= Pending(p)
             /\ s = WrappedEnd(p) <=> Dist(tm.start[p], s) = Pending(p)
             /\ \A n \in A : n \in SeqNums /\ InWindow(p, n)
  BY <1>1, <1>2, <1>5, AckInWindow
<1>6. tm.end[p] = MaxSequenceNum => p = dst /\ pc = "incremented" /\ "wrap" \in cutIn'
  BY DEF AckStep, Inductive, Control
<1>7. \A n \in A : /\ findPacketEntry(tm, p, n) \in Slots
                   /\ tm.inUse[findPacketEntry(tm, p, n)]
                   /\ tm.dst[findPacketEntry(tm, p, n)] = p
                   /\ tm.seq[findPacketEntry(tm, p, n)] = n
  BY <1>2, FirstMatch, ConstantFacts DEF Matching
<1>8. /\ \A d : Orphaned(d)' <=> Orphaned(d)
      /\ Unpublished' <=> Unpublished
      /\ Submitting' <=> Submitting
      /\ \A d \in Peers : WrappedEnd(d)' = WrappedEnd(d)
  BY <1>1, <1>2 DEF Orphaned, Unpublished, Submitting, WrappedEnd
<1>9. \A d \in Peers : d # p =>
        /\ Pending(d)' = Pending(d)
        /\ \A n \in SeqNums : InWindow(d, n)' <=> InWindow(d, n)
  BY <1>4, <1>8 DEF Pending, InWindow
<1> HIDE DEF s
(* The window of p after the ack. *)
<1>10. ASSUME ~odd
       PROVE  /\ Pending(p)' = Pending(p) - Dist(tm.start[p], s)
              /\ \A n \in SeqNums : InWindow(p, n)' <=> InWindow(p, n) /\ n \notin A
              /\ \A n \in SeqNums : Dist(tm.start[p], n) <= Pending(p) /\ n \notin A =>
                                      Dist(s, n) <= Pending(p)'
  <2>1. tm.start[p] \in SeqNums /\ WrappedEnd(p) \in SeqNums /\ Pending(p) = Dist(tm.start[p], WrappedEnd(p))
    BY <1>1, WindowFacts DEF Pending
  <2>2. Pending(p)' = Dist(s, WrappedEnd(p))
    BY <1>4, <1>8 DEF Pending
  <2>3. \A n \in SeqNums : n \in A <=> Dist(tm.start[p], n) < Dist(tm.start[p], s)
    BY DEF Acked
  <2>4. \A n \in SeqNums : InWindow(p, n)' <=> Dist(s, n) < Pending(p)'
    BY <1>4 DEF InWindow
  <2> HIDE DEF A
  <2>5. Dist(tm.start[p], s) <= Dist(tm.start[p], WrappedEnd(p))
    BY <1>5, <1>10, <2>1
  <2> QED
    BY <1>3, <2>1, <2>2, <2>3, <2>4, <2>5, StartMoves DEF InWindow
<1>11. \A i \in Slots : /\ Live(i)' => Live(i)
                        /\ Live(i) /\ (tm.dst[i] # p \/ tm.seq[i] \notin A) => Live(i)'
  BY <1>2, <1>7, <1>8 DEF Live
(* The entries that are freed are in the window, unless that of p is not   *)
(* spoken of.                                                              *)
<1>12. ASSUME NEW n \in A, ~odd, ~Orphaned(p), "header" \notin cutIn', Unpublished
       PROVE  findPacketEntry(tm, p, n) # tm.allocated
  <2> SUFFICES ASSUME findPacketEntry(tm, p, n) = tm.allocated PROVE FALSE
    OBVIOUS
  <2>1. tm.dst[tm.allocated] = p /\ tm.seq[tm.allocated] = n /\ n \in SeqNums /\ InWindow(p, n)
    BY <1>5, <1>7, <1>12
  <2>2. /\ pc \in {"allocated", "checked", "addressed"}
        /\ validSeqNum(tm, tm.dst[tm.allocated], tm.seq[tm.allocated])
    BY <1>12, <2>1, UnpublishedFound
  <2> QED
    BY <1>12, <2>1, <2>2 DEF AckStep
<1>13. /\ RoomOnQueue' /\ Searched'
       /\ behind' \in Peers \cup {NoPeer} /\ (pc = "written" => behind' \in Peers)
       /\ \A d \in Peers : OnQueue(d)' => OnQueue(d)
       /\ \A d \in Peers : d # p => (OnQueue(d)' <=> OnQueue(d))
       /\ Without({"shift"}) /\ tm'.active # tm.active => ~OnQueue(p)'
  <2>1. tm'.active \in {tm.active, nodeQueueRemoveIfExists(tm.active, p)}
    BY <1>2
  <2>2. (pc = "written" \/ scan > 0) /\ numNodes(tm'.active) < numNodes(tm.active) => "shift" \in cutIn'
    BY DEF AckStep
  <2> QED
    BY <1>1, <2>1, <2>2, QueueShrinks
<1>14. TypeOK'
  <2>1. cutIn' \subseteq {"shift", "empty", "wrap", "orphan", "stale", "rejoin", "leak", "clear", "header"}
    BY <1>1 DEF TypeOK
  <2> QED
    BY <1>1, <1>13, <2>1 DEF TypeOK, Managers
<1>15. Control'
  BY <1>1, <1>2, <1>8, <1>13, WithoutBefore DEF Inductive, Control
<1>16. Header'
  <2>1. Submitting => dst \in Peers
    BY ControlFacts
  <2>2. Submitting => WrappedEnd(dst)' = WrappedEnd(dst)
    BY <1>1, <1>2 DEF WrappedEnd
  <2>3. ASSUME pc = "incremented", ~removed, Without(Mixed \cup {"wrap"})'
        PROVE  tm'.start[dst] # WrappedEnd(dst)' \/ tm'.end[dst] # MaxSequenceNum
    <3>1. dst \in Peers /\ "wrap" \notin cutIn' /\ Without(Mixed \cup {"wrap"})
      BY <1>1, <2>1, <2>3, WithoutBefore DEF Submitting, Without
    <3>2. CASE dst = p
      BY <1>2, <1>6, <3>1, <3>2
    <3>3. CASE dst # p
      BY <1>2, <1>4, <2>1, <2>2, <2>3, <3>1, <3>3 DEF Inductive, Header, Submitting
    <3> QED
      BY <3>2, <3>3
  <2>4. \A e : pc = "numbered" \/ pc = "incremented" => Submitting
    BY DEF Submitting
  <2> QED
    BY <1>1, <1>2, <1>8, <2>2, <2>3, <2>4 DEF Inductive, Header
<1>17. Reserved'
  <2> SUFFICES ASSUME Without(Mixed)', Unpublished, ~removed PROVE tm'.inUse[tm.allocated]
    BY <1>1, <1>2, <1>8 DEF Reserved
  <2>1. tm.inUse[tm.allocated] /\ tm.allocated \in Slots
    BY <1>1, WithoutBefore, ControlFacts DEF Inductive, Reserved, Unpublished
  <2>2. "header" \notin cutIn' /\ ~Orphaned(p) /\ ~odd
    BY <1>6 DEF Without, Mixed, Orphaned, Unpublished
  <2> QED
    BY <1>2, <1>12, <2>1, <2>2
(* With start and end at the ends of the range nothing is freed. *)
<1>18. ASSUME odd, ~Orphaned(p), Without(Mixed \cup {"leak"})
       PROVE  /\ \A i \in Slots : ~(Live(i) /\ tm.dst[i] = p)
              /\ Pending(p)' = 0
  <2>1. pc = "incremented" /\ Pending(p) = 0
    <3>1. tm.start[p] \in SeqNums /\ WrappedEnd(p) = tm.start[p]
      BY <1>1, <1>18, WindowFacts DEF WrappedEnd
    <3> QED
      BY <1>1, <1>6, <1>18, <3>1, WindowFacts
  <2>2. ASSUME NEW i \in Slots, Live(i), tm.dst[i] = p PROVE FALSE
    <3>1. InWindow(p, tm.seq[i]) /\ tm.seq[i] \in SeqNums
      BY <1>18, <2>2, ControlFacts DEF Inductive, Kept
    <3>2. Dist(tm.start[p], tm.seq[i]) \in Nat
      BY <1>1, <3>1, WindowFacts, DistType
    <3> QED
      BY <2>1, <3>1, <3>2 DEF InWindow
  <2>3. \A n \in A : FALSE
    <3> SUFFICES ASSUME NEW n \in A PROVE FALSE
      OBVIOUS
    <3>1. Live(findPacketEntry(tm, p, n))
      BY <1>7, <2>1 DEF Live, Unpublished
    <3> QED
      BY <1>7, <2>2, <3>1
  <2>4. s = tm.start[p]
    <3>1. tm.start[p] \in SeqNums
      BY <1>1, WindowFacts
    <3>2. Dist(tm.start[p], tm.start[p]) = 0 /\ Dist(tm.start[p], s) \in Nat
      BY <1>3, <3>1, DistType
    <3>3. ~(Dist(tm.start[p], tm.start[p]) < Dist(tm.start[p], s))
      BY <2>3, <3>1 DEF Acked
    <3>4. Dist(tm.start[p], s) = 0
      BY <3>2, <3>3
    <3> QED
      BY <1>3, <3>1, <3>4, DistType
  <2>5. Pending(p)' = Pending(p)
    BY <1>4, <1>8, <2>4 DEF Pending
  <2> QED
    BY <2>1, <2>2, <2>5
<1>19. Complete'
  <2> SUFFICES ASSUME Without(Mixed \cup {"wrap"})' \/ Without(Mixed \cup {"leak"})',
                      NEW d \in Peers, NEW n \in SeqNums, InWindow(d, n)', ~Orphaned(d)
               PROVE  \E i \in Slots : Live(i)' /\ tm.dst[i] = d /\ tm.seq[i] = n
    BY <1>2, <1>8 DEF Complete, Holds
  <2>1. Without(Mixed \cup {"wrap"}) \/ Without(Mixed \cup {"leak"})
    BY <1>1, WithoutBefore
  <2>2. InWindow(d, n) => \E i \in Slots : Live(i) /\ tm.dst[i] = d /\ tm.seq[i] = n
    BY <2>1 DEF Inductive, Complete, Holds
  <2>3. CASE d # p
    BY <1>9, <1>11, <2>2, <2>3
  <2>4. CASE d = p /\ ~odd
    <3>1. InWindow(d, n) /\ n \notin A
      BY <1>10, <2>4
    <3> QED
      BY <1>11, <2>2, <3>1
  <2>5. CASE d = p /\ odd
    <3>1. "wrap" \in cutIn'
      BY <1>6, <2>5
    <3>2. Without(Mixed \cup {"leak"})
      BY <1>1, <3>1, WithoutBefore DEF Without
    <3>3. Pending(p)' = 0
      BY <1>18, <2>5, <3>2
    <3>4. Dist(tm'.start[p], n) < Pending(p)'
      BY <2>5 DEF InWindow
    <3>5. Dist(tm'.start[p], n) \in Nat
      BY <1>3, <1>4, DistType
    <3> QED
      BY <3>3, <3>4, <3>5
  <2> QED
    BY <2>3, <2>4, <2>5
<1>20. Kept'
  <2> SUFFICES ASSUME Without(Mixed \cup {"leak"})'
               PROVE  /\ \A i \in Slots : Live(i)' =>
                           /\ tm.dst[i] \in Peers
                           /\ Orphaned(tm.dst[i]) \/ InWindow(tm.dst[i], tm.seq[i])'
                      /\ \A i, j \in Slots : Live(i)' /\ Live(j)' /\ tm.dst[j] = tm.dst[i]
                                             /\ tm.seq[j] = tm.seq[i] =>
                           Orphaned(tm.dst[i]) \/ i = j
    <3>1. \A i \in Slots : Orphaned(tm.dst[i])' <=> Orphaned(tm.dst[i])
      BY <1>1, <1>2 DEF Orphaned
    <3> QED
      BY <1>2, <3>1 DEF Kept, Holds
  <2>1. Without(Mixed \cup {"leak"}) /\ "header" \notin cutIn'
    BY <1>1, WithoutBefore DEF Without, Mixed
  <2>2. ASSUME NEW i \in Slots, NEW j \in Slots, Live(i), Live(j),
               tm.dst[j] = tm.dst[i], tm.seq[j] = tm.seq[i]
        PROVE  Orphaned(tm.dst[i]) \/ i = j
    BY <2>1, <2>2 DEF Inductive, Kept, Holds
  <2>3. ASSUME NEW i \in Slots, Live(i)'
        PROVE  /\ tm.dst[i] \in Peers
               /\ Orphaned(tm.dst[i]) \/ InWindow(tm.dst[i], tm.seq[i])'
    <3>1. Live(i) /\ tm.dst[i] \in Peers /\ tm.seq[i] \in SeqNums
      BY <1>11, <2>1, <2>3, ControlFacts DEF Inductive, Kept
    <3>2. PICK d \in Peers, n \in SeqNums : d = tm.dst[i] /\ n = tm.seq[i]
      BY <3>1
    <3>3. Orphaned(d) \/ InWindow(d, n)
      BY <2>1, <3>1, <3>2 DEF Inductive, Kept
    <3>4. InWindow(d, n)' => InWindow(tm.dst[i], tm.seq[i])'
      BY <1>2, <3>2 DEF InWindow, Pending, WrappedEnd
    <3>5. CASE d # p \/ Orphaned(d)
      BY <1>9, <3>2, <3>3, <3>4, <3>5
    <3>6. CASE d = p /\ ~Orphaned(d) /\ odd
      BY <1>18, <2>1, <3>1, <3>2, <3>6
    <3>7. CASE d = p /\ ~Orphaned(d) /\ ~odd
      <4>1. n \notin A
        <5> SUFFICES ASSUME n \in A PROVE FALSE
          OBVIOUS
        <5> DEFINE f == findPacketEntry(tm, p, n)
        <5>1. f \in Slots /\ tm.inUse[f] /\ tm.dst[f] = p /\ tm.seq[f] = n
          BY <1>7
        <5>2. Unpublished => f # tm.allocated
          BY <1>12, <2>1, <3>7
        <5> HIDE DEF f
        <5>3. Live(f)
          BY <5>1, <5>2 DEF Live
        <5>4. f = i
          BY <2>2, <3>1, <3>2, <3>7, <5>1, <5>3
        <5>5. ~tm'.inUse[i]
          BY <1>2, <5>4 DEF f
        <5> QED
          BY <2>3, <5>5 DEF Live
      <4> QED
        BY <1>10, <3>1, <3>3, <3>4, <3>7, <4>1
    <3> QED
      BY <3>5, <3>6, <3>7
  <2> QED
    BY <1>11, <2>2, <2>3
<1>21. \A d \in Peers \ connected : d = dst \/ d # p
  <2>1. ASSUME tm.start[p] = 0, tm.end[p] = 0 PROVE FALSE
    BY <1>2, <2>1, ConstantFacts DEF validSeqNum, SeqNums
  <2> QED
    BY <2>1 DEF Inductive, AbsentForgotten
<1>22. AbsentForgotten'
  <2> SUFFICES ASSUME NEW d \in Peers \ connected, d # dst
               PROVE  /\ tm'.start[d] = 0 /\ tm'.end[d] = 0
                      /\ Without({"shift"})' => ~OnQueue(d)'
                      /\ Without({"leak"})' =>
                           \A i \in Slots : tm'.inUse[i] /\ tm'.dst[i] = d => i = tm'.allocated
    BY <1>1 DEF AbsentForgotten
  <2> QED
    BY <1>1, <1>2, <1>4, <1>13, <1>21, WithoutBefore DEF Inductive, AbsentForgotten
<1>23. ASSUME Without(Mixed \cup {"wrap"})'
       PROVE  /\ Without(Mixed \cup {"wrap"}) /\ ~odd
              /\ tm.end[p] # MaxSequenceNum /\ WrappedEnd(p) = tm.end[p]
  BY <1>1, <1>6, <1>23, WithoutBefore, WindowFacts DEF Without
<1>24. Expected'
  <2> SUFFICES ASSUME Without(Mixed \cup {"wrap"})', NEW d \in connected
               PROVE  /\ Dist(tm'.start[d], expectedSeqNum(rxSeqNum[d])) <= Pending(d)'
                      /\ ~OnQueue(d)' => expectedSeqNum(rxSeqNum[d]) = tm'.start[d]
    BY <1>1 DEF Expected
  <2>1. d \in Peers
    BY <1>1 DEF TypeOK
  <2>2. CASE d # p
    BY <1>4, <1>9, <1>13, <1>23, <2>1, <2>2 DEF Inductive, Expected
  <2>3. CASE d = p
    <3>1. expectedSeqNum(rxSeqNum[d]) = s /\ tm'.start[d] = s
      BY <1>2, <1>4, <2>1, <2>3, ConstantFacts DEF expectedSeqNum, NullSequenceNum, s
    <3>2. Dist(s, s) = 0
      BY <1>3, DistType
    <3>3. Pending(p)' \in Nat
      <4>1. tm'.start[p] \in SeqNums /\ WrappedEnd(p)' \in SeqNums
        BY <1>1, <1>3, <1>4, <1>8, WindowFacts
      <4> QED
        BY <4>1, DistType DEF Pending
    <3> QED
      BY <2>3, <3>1, <3>2, <3>3
  <2> QED
    BY <2>2, <2>3
<1>25. NextInWindow'
  <2> SUFFICES ASSUME Without(Mixed \cup {"wrap"})', NEW d \in Peers, ~Orphaned(d)
               PROVE  Dist(tm'.start[d], tm'.next[d]) <= Pending(d)'
    BY <1>8 DEF NextInWindow
  <2>1. Dist(tm.start[d], tm.next[d]) <= Pending(d)
    BY <1>23 DEF Inductive, NextInWindow
  <2>2. CASE d # p
    BY <1>4, <1>9, <2>1, <2>2
  <2>3. CASE d = p
    <3>1. tm'.start[p] = s /\ tm'.next[p] = IF tm.next[p] \in A THEN s ELSE tm.next[p]
      BY <1>4 DEF NextAfterAck
    <3>2. tm.next[p] \in SeqNums /\ tm.start[p] \in SeqNums /\ WrappedEnd(p) \in SeqNums
      BY <1>1, WindowFacts
    <3>3. Pending(p)' = Dist(s, WrappedEnd(p)) /\ Pending(p)' \in Nat /\ Dist(s, s) = 0
      BY <1>3, <1>4, <1>8, <3>2, DistType DEF Pending
    <3>4. CASE tm.next[p] \in A
      BY <2>3, <3>1, <3>3, <3>4
    <3>5. CASE tm.next[p] \notin A
      BY <1>10, <1>23, <2>1, <2>3, <3>1, <3>2, <3>5
    <3> QED
      BY <3>4, <3>5
  <2> QED
    BY <2>2, <2>3
<1>26. ASSUME Without(Mixed \cup {"wrap"})', ~Orphaned(p) PROVE OnQueue(p)
  <2>1. CASE p # dst
    BY <1>2, <1>21, <1>23, <1>26, <2>1, AckNeedsQueue
  <2>2. CASE p = dst
    <3>1. Submitting /\ ~removed
      BY <1>26, <2>2, ConstantFacts DEF Inductive, Control, Orphaned
    <3>2. p \in connected
      BY <2>2, <3>1 DEF Inductive, Control
    <3> QED
      BY <1>2, <1>23, <1>26, <3>2, AckNeedsQueue
  <2> QED
    BY <2>1, <2>2
<1>27. QueueKept'
  <2> SUFFICES ASSUME Without(Mixed \cup {"shift", "empty", "wrap"})'
               PROVE  /\ \A d \in Peers :
                           \/ Orphaned(d)
                           \/ OnQueue(d)' <=> Pending(d)' # 0
                           \/ /\ d = dst /\ pc \in {"incremented", "wrapped", "searching", "absent", "written"}
                              /\ ~OnQueue(d)' /\ tm'.start[d] = tm'.seq[packet]
                      /\ pc \in {"searching", "absent", "written"} => Orphaned(dst)' \/ Pending(dst)' # 0
    BY <1>1, <1>8 DEF QueueKept
  <2>1. /\ Without(Mixed \cup {"shift", "empty", "wrap"}) /\ Without({"shift"})
        /\ Without(Mixed \cup {"wrap"})' /\ "empty" \notin cutIn'
    BY <1>1, WithoutBefore DEF Without
  <2>2. ~Orphaned(p) => (OnQueue(p)' <=> Pending(p)' # 0)
    <3> SUFFICES ASSUME ~Orphaned(p) PROVE OnQueue(p)' <=> Pending(p)' # 0
      OBVIOUS
    <3>1. OnQueue(p)
      BY <1>26, <2>1
    <3>2. Pending(p)' = 0 <=> s = tm.end[p]
      <4>1. /\ Pending(p)' = Pending(p) - Dist(tm.start[p], s)
            /\ s = tm.end[p] <=> Dist(tm.start[p], s) = Pending(p)
        BY <1>5, <1>10, <1>23, <2>1
      <4>2. Pending(p) \in Nat /\ Dist(tm.start[p], s) \in Nat
        BY <1>1, <1>3, WindowFacts, DistType
      <4> QED
        BY <4>1, <4>2
    <3>3. CASE s # tm.end[p]
      BY <1>2, <3>1, <3>2, <3>3 DEF OnQueue
    <3>4. CASE s = tm.end[p]
      <4>1. tm'.active # tm.active
        <5>1. tm.active \in [nodeIds : Seq(Peers), lastIndex : Nat]
          BY <1>1, FieldTypes
        <5> DEFINE r == nodeQueueRemoveIfExists(tm.active, p)
        <5>2. numNodes(r) = numNodes(tm.active) - 1 /\ numNodes(tm.active) \in Nat
          BY <3>1, <5>1, removeFromQueue DEF OnQueue
        <5>3. tm'.active = r
          BY <1>2, <3>4
        <5> HIDE DEF r
        <5> QED
          BY <5>2, <5>3
      <4> QED
        BY <1>13, <2>1, <3>2, <3>4, <4>1
    <3> QED
      BY <3>3, <3>4
  <2>3. ASSUME NEW d \in Peers
        PROVE  \/ Orphaned(d)
               \/ OnQueue(d)' <=> Pending(d)' # 0
               \/ /\ d = dst /\ pc \in {"incremented", "wrapped", "searching", "absent", "written"}
                  /\ ~OnQueue(d)' /\ tm'.start[d] = tm'.seq[packet]
    <3>1. CASE d = p
      BY <2>2, <3>1
    <3>2. CASE d # p
      BY <1>2, <1>4, <1>9, <1>13, <2>1, <3>2 DEF Inductive, QueueKept
    <3> QED
      BY <3>1, <3>2
  <2>4. ASSUME pc \in {"searching", "absent", "written"}, ~Orphaned(dst) PROVE Pending(dst)' # 0
    <3>1. PICK d \in Peers : d = dst
      BY <2>4, ControlFacts DEF Submitting
    <3>2. Pending(dst)' = Pending(d)' /\ (OnQueue(dst)' <=> OnQueue(d)')
      BY <1>1, <3>1 DEF Pending, WrappedEnd, OnQueue
    <3>3. CASE d # p
      BY <1>9, <2>1, <2>4, <3>1, <3>2, <3>3 DEF Inductive, QueueKept
    <3>4. CASE d = p
      <4>1. OnQueue(p)
        BY <1>26, <2>1, <2>4, <3>1, <3>4
      <4>2. pc = "searching"
        BY <2>1, <2>4, <3>1, <3>4, <4>1 DEF Inductive, Searched
      <4>3. ~removed
        BY <2>4 DEF Orphaned
      <4>4. OnQueue(dst)'
        BY <2>1, <3>1, <3>4, <4>1, <4>2, <4>3 DEF AckStep
      <4> QED
        BY <2>2, <2>4, <3>1, <3>2, <3>4, <4>4
    <3> QED
      BY <3>3, <3>4
  <2> QED
    BY <1>1, <1>8, <2>3, <2>4 DEF Orphaned
<1>28. NoAssertionFails'
  <2> SUFFICES ASSUME Without({"wrap", "orphan", "header", "stale", "rejoin", "clear"})', tm'.fault
               PROVE  FALSE
    BY DEF NoAssertionFails
  <2>1. Without(Mixed \cup {"wrap"})' /\ "orphan" \notin cutIn'
    BY DEF Without, Mixed
  <2>2. ~Orphaned(p)
    BY <2>1 DEF AckStep, Orphaned
  <2> QED
    BY <1>1, <1>2, <1>26, <2>1, <2>2 DEF OnQueue
<1> QED
  BY <1>13, <1>14, <1>15, <1>16, <1>17, <1>19, <1>20, <1>22, <1>24, <1>25, <1>27, <1>28 DEF Inductive

(* An ack, wherever the submission is. *)
LEMMA RxAckInductive ==
  ASSUME Inductive, NEW p \in Peers, RxAck(p)
  PROVE  Inductive'
<1> DEFINE ack == rxSeqNum[p]
<1>1. AckStep(p) /\ (AckIgnored(tm, tm', p, ack) \/ AckFails(tm, tm', p, ack) \/ AckMoves(tm, tm', p, ack))
  BY RxAckStep
<1>2. CASE AckIgnored(tm, tm', p, ack)
  <2>1. NoAssertionFails'
    BY <1>1, <1>2 DEF AckIgnored, AckStep, NoAssertionFails
  <2> QED
    BY <1>1, <1>2, <2>1, AckLeavesQueues DEF AckIgnored
<1>3. CASE AckFails(tm, tm', p, ack)
  <2>1. NoAssertionFails'
    BY <1>1, <1>3, AckFindsPackets
  <2> QED
    BY <1>1, <1>3, <2>1, AckLeavesQueues DEF AckFails
<1>4. CASE AckMoves(tm, tm', p, ack)
  BY <1>1, <1>4, AckMovesInductive
<1> QED
  BY <1>1, <1>2, <1>3, <1>4

(***************************************************************************)
(* The inductive invariant                                                 *)
(***************************************************************************)
LEMMA InitInductive == Init => Inductive
<1> SUFFICES ASSUME Init PROVE Inductive
  OBVIOUS
<1>1. /\ tm = initTxManager /\ connected = {} /\ pc = "idle" /\ dst = NoDst /\ scan = 0
      /\ removed = FALSE /\ cutIn = {}
  BY DEF Init
<1>2. 0 \in SeqNums /\ 0 \in 0 .. MaxSequenceNum
  BY ConstantFacts
<1>3. tm \in Managers
  BY <1>1, <1>2, initType DEF Managers
<1>4. TypeOK
  <2>1. rxSeqNum \in [Peers -> 0 .. NullSequenceNum]
    <3>1. NullSequenceNum \in 0 .. NullSequenceNum
      BY ConstantFacts DEF NullSequenceNum
    <3> QED
      BY <3>1 DEF Init
  <2>2. packet = NoSlot /\ behind = NoPeer
    BY DEF Init
  <2>3. removed \in BOOLEAN
    BY <1>1, Zenon
  <2> QED
    BY <1>1, <1>3, <2>1, <2>2, <2>3 DEF TypeOK, Managers
<1>5. /\ \A i \in Slots : ~tm.inUse[i]
      /\ \A d \in Peers : tm.start[d] = 0 /\ tm.end[d] = 0 /\ tm.next[d] = 0
      /\ tm.allocated = NoSlot /\ tm.active.nodeIds = << >> /\ tm.fault = FALSE
  BY <1>1 DEF initTxManager, EmptyQueue
<1>6. \A d \in Peers : Pending(d) = 0 /\ Dist(tm.start[d], tm.next[d]) = 0
  <2> SUFFICES ASSUME NEW d \in Peers
               PROVE  Pending(d) = 0 /\ Dist(tm.start[d], tm.next[d]) = 0
    OBVIOUS
  <2>1. WrappedEnd(d) = 0
    BY <1>5 DEF WrappedEnd
  <2>2. Dist(0, 0) = 0
    BY DEF Dist
  <2> QED
    BY <1>5, <2>1, <2>2 DEF Pending
<1>7. \A d : ~OnQueue(d)
  <2>1. Len(tm.active.nodeIds) = 0
    BY <1>5
  <2>2. \A k \in 1 .. 0 : FALSE
    OBVIOUS
  <2> QED
    BY <2>1, <2>2 DEF OnQueue, Contains
<1>8. Control
  BY <1>1, <1>5, ConstantFacts DEF Control, Submitting
<1>9. Header /\ RoomOnQueue /\ Reserved
  BY <1>1 DEF Header, RoomOnQueue, Reserved, Submitting, Unpublished
<1>10. Complete
  <2> SUFFICES ASSUME NEW d \in Peers, NEW n \in SeqNums PROVE ~InWindow(d, n)
    BY DEF Complete
  <2>1. Dist(tm.start[d], n) \in Nat /\ Pending(d) = 0
    BY <1>4, <1>6, WindowFacts, DistType
  <2> QED
    BY <2>1 DEF InWindow
<1>11. Kept
  BY <1>5 DEF Kept, Live
<1>12. Searched
  <2>1. numNodes(tm.active) = 0
    BY <1>5 DEF numNodes
  <2>2. \A k \in 1 .. 0 : FALSE
    OBVIOUS
  <2> QED
    BY <1>1, <2>1, <2>2 DEF Searched
<1>13. AbsentForgotten
  BY <1>5, <1>7 DEF AbsentForgotten
<1>14. Expected /\ NextInWindow
  BY <1>1, <1>6 DEF Expected, NextInWindow
<1>15. QueueKept
  BY <1>1, <1>6, <1>7 DEF QueueKept
<1>16. NoAssertionFails
  BY <1>5 DEF NoAssertionFails
<1> QED
  BY <1>4, <1>8, <1>9, <1>10, <1>11, <1>12, <1>13, <1>14, <1>15, <1>16 DEF Inductive

LEMMA StutterInductive ==
  ASSUME Inductive, UNCHANGED vars
  PROVE  Inductive'
<1> USE DEF vars
<1>1. TypeOK' /\ NoAssertionFails'
  BY DEF Inductive, TypeOK, NoAssertionFails, Without
<1>2. Control' /\ RoomOnQueue' /\ Reserved'
  BY DEF Inductive, Control, RoomOnQueue, Reserved, Submitting, Without, Unpublished
<1>3. Header'
  BY DEF Inductive, Header, Submitting, Unpublished, Without, WrappedEnd
<1>4. Complete' /\ Kept' /\ Expected' /\ NextInWindow'
  <2>1. /\ \A d \in Peers : WrappedEnd(d)' = WrappedEnd(d)
        /\ \A d : Orphaned(d)' <=> Orphaned(d)
        /\ \A i \in Slots : Live(i)' <=> Live(i)
        /\ \A d \in Peers : OnQueue(d) => OnQueue(d)'
    BY DEF WrappedEnd, Orphaned, Live, Unpublished, OnQueue
  <2>2. connected \subseteq Peers
    BY DEF Inductive, TypeOK
  <2> QED
    BY <2>1, <2>2, SameStore DEF Inductive
<1>5. Searched' /\ AbsentForgotten'
  BY DEF Inductive, Searched, AbsentForgotten, Without, OnQueue
<1>6. QueueKept'
  BY DEF Inductive, QueueKept, Without, Orphaned, OnQueue, Pending, WrappedEnd
<1> QED
  BY <1>1, <1>2, <1>3, <1>4, <1>5, <1>6 DEF Inductive

LEMMA NextInductive == Inductive /\ [Next]_vars => Inductive'
<1> SUFFICES ASSUME Inductive, [Next]_vars PROVE Inductive'
  OBVIOUS
<1>1. CASE AllocateTxPacket
  BY <1>1, AllocateTxPacketInductive
<1>2. ASSUME NEW d \in Peers, SubmitToAbsent(d) PROVE Inductive'
  BY <1>2, SubmitToAbsentInductive
<1>3. ASSUME NEW d \in Peers, CheckTimeToLive(d) PROVE Inductive'
  BY <1>3, CheckTimeToLiveInductive
<1>4. CASE WriteDst
  BY <1>4, WriteDstInductive
<1>5. CASE WriteSeqNum
  BY <1>5, WriteSeqNumInductive
<1>6. CASE IncrementEnd
  BY <1>6, IncrementEndInductive
<1>7. CASE WrapEnd
  BY <1>7, WrapEndInductive
<1>8. CASE CompareStart
  BY <1>8, CompareStartInductive
<1>9. CASE SearchOn
  BY <1>9, SearchOnInductive
<1>10. CASE SearchEnds
  BY <1>10, SearchEndsInductive
<1>11. CASE WriteNodeId
  BY <1>11, WriteNodeIdInductive
<1>12. CASE IncrementNumNodes
  BY <1>12, IncrementNumNodesInductive
<1>13. CASE ClearAllocated
  BY <1>13, ClearAllocatedInductive
<1>14. CASE RecheckTimeToLive
  BY <1>14, RecheckTimeToLiveInductive
<1>15. CASE ClearBuffers
  BY <1>15, ClearBuffersInductive
<1>16. ASSUME NEW received \in BOOLEAN, ProcessTx(received) PROVE Inductive'
  BY <1>16, ProcessTxInductive
<1>17. ASSUME NEW p \in Peers, RxAck(p) PROVE Inductive'
  BY <1>17, RxAckInductive
<1>18. ASSUME NEW p \in Peers, RemoveNode(p) PROVE Inductive'
  BY <1>18, RemoveNodeInductive
<1>19. ASSUME NEW p \in Peers, RegisterNewNode(p) PROVE Inductive'
  BY <1>19, RegisterNewNodeInductive
<1>20. CASE UNCHANGED vars
  BY <1>20, StutterInductive
<1>21. CASE Submit
  BY <1>2, <1>3, <1>4, <1>5, <1>6, <1>7, <1>8, <1>9, <1>10, <1>11, <1>12, <1>13, <1>14,
     <1>21 DEF Submit
<1>22. CASE Handler
  BY <1>16, <1>17, <1>18, <1>19, <1>22 DEF Handler
<1> QED
  BY <1>1, <1>15, <1>20, <1>21, <1>22 DEF Next

(* Wherever a handler comes in between two accesses of a submission, it    *)
(* finds store, windows and queue as the invariant describes them, for     *)
(* every number of nodes, packet entries and sequence numbers.             *)
THEOREM InductiveInvariant == Spec => []Inductive
BY InitInductive, NextInductive, PTL DEF Spec

(* The tTxManager and the application's variables keep their types; in     *)
(* particular txSeqNumEnd never exceeds MAX_SEQUENCE_NUM.                  *)
THEOREM TypeCorrect == Spec => []TypeOK
<1>1. Inductive => TypeOK
  BY DEF Inductive
<1> QED
  BY <1>1, InductiveInvariant, PTL

(* No assertion of txManager.c or common.c fails wherever in a submission  *)
(* the handlers come in, but for the interruptions the property names.     *)
THEOREM AssertionsHold == Spec => []NoAssertionFails
<1>1. Inductive => NoAssertionFails
  BY DEF Inductive
<1> QED
  BY <1>1, InductiveInvariant, PTL

(* A packet is complete before a handler can see it: the order in which    *)
(* submitAllocatedTxPacket writes header, number and txSeqNumEnd.          *)
THEOREM PublishedAreComplete == Spec => []PublishedComplete
<1>1. Inductive => PublishedComplete
  <2> SUFFICES ASSUME Inductive, Without({"wrap", "header", "stale", "rejoin", "clear"}),
                      NEW d \in Peers, ~(removed /\ d = dst), NEW n \in Queued(d)
               PROVE  Matching(tm, d, n) # {}
    BY DEF PublishedComplete
  <2>1. TypeOK /\ n \in SeqNums /\ validSeqNum(tm, d, n) /\ Without(Mixed \cup {"wrap"})
    BY DEF Inductive, Queued, Without, Mixed
  <2>2. tm.end[d] # MaxSequenceNum \/ tm.start[d] # 0
    <3> SUFFICES ASSUME tm.end[d] = MaxSequenceNum PROVE tm.start[d] # 0
      OBVIOUS
    <3>1. pc = "incremented" /\ d = dst
      BY DEF Inductive, Control
    <3>2. tm.start[d] # WrappedEnd(d)
      BY <2>1, <3>1 DEF Inductive, Header
    <3> QED
      BY <3>2 DEF WrappedEnd
  <2>3. InWindow(d, n)
    BY <2>1, <2>2, WindowFacts
  <2>4. PICK i \in Slots : Holds(i, d, n)
    BY <2>1, <2>3 DEF Inductive, Complete, Orphaned
  <2> QED
    BY <2>4 DEF Holds, Live, Matching
<1> QED
  BY <1>1, InductiveInvariant, PTL

(* Between submissions every entry in use is the allocated one or holds a  *)
(* queued packet, so that an ack will free it.                             *)
THEOREM EntriesAreKept == Spec => []NoEntryLost
<1>1. Inductive => NoEntryLost
  <2> SUFFICES ASSUME Inductive, Without({"header", "stale", "rejoin", "leak", "clear"}), ~Submitting,
                      NEW i \in Slots, tm.inUse[i], i # tm.allocated
               PROVE  tm.dst[i] \in Peers /\ tm.seq[i] \in Queued(tm.dst[i])
    BY DEF NoEntryLost
  <2>1. TypeOK /\ Without(Mixed \cup {"leak"}) /\ tm.seq[i] \in SeqNums
    BY ControlFacts DEF Inductive, Without, Mixed
  <2>2. pc # "incremented" /\ ~removed
    BY DEF Inductive, Control, Submitting
  <2>3. tm.dst[i] \in Peers /\ InWindow(tm.dst[i], tm.seq[i])
    BY <2>1, <2>2 DEF Inductive, Kept, Live, Orphaned
  <2>4. tm.end[tm.dst[i]] # MaxSequenceNum
    BY <2>2, <2>3 DEF Inductive, Control
  <2> QED
    BY <2>1, <2>3, <2>4, WindowFacts DEF Queued
<1> QED
  BY <1>1, InductiveInvariant, PTL

(* Between submissions activeTxNodes lists the destinations with packets   *)
(* to send, each once, but for the interruptions the property names.       *)
THEOREM QueueIsTheWindows == Spec => []QueueMatchesWindows
<1>1. Inductive => QueueMatchesWindows
  <2> SUFFICES ASSUME Inductive, ~Submitting,
                      Without({"shift", "empty", "wrap", "header", "stale", "rejoin", "clear"})
               PROVE  /\ \A d \in Peers : Contains(tm.active.nodeIds, d) <=> tm.start[d] # tm.end[d]
                      /\ IsInjective(tm.active.nodeIds)
    BY DEF QueueMatchesWindows
  <2>1. TypeOK /\ Without(Mixed \cup {"shift", "empty", "wrap"}) /\ Without({"shift"})
    BY DEF Inductive, Without, Mixed
  <2>2. pc \in {"idle", "allocated"} /\ ~removed
    BY DEF Inductive, Control, Submitting
  <2>3. ASSUME NEW d \in Peers PROVE Contains(tm.active.nodeIds, d) <=> tm.start[d] # tm.end[d]
    <3>1. OnQueue(d) <=> Pending(d) # 0
      BY <2>1, <2>2 DEF Inductive, QueueKept, Orphaned
    <3>2. tm.end[d] # MaxSequenceNum
      BY <2>2 DEF Inductive, Control
    <3> QED
      BY <2>1, <3>1, <3>2, WindowFacts DEF OnQueue
  <2>4. IsInjective(tm.active.nodeIds)
    <3>1. tm.active.nodeIds \in Seq(Peers)
      BY ControlFacts, FieldTypes
    <3>2. DOMAIN tm.active.nodeIds = 1 .. numNodes(tm.active)
      BY <3>1 DEF numNodes
    <3> QED
      BY <2>1, <3>2 DEF Inductive, Searched, IsInjective
  <2> QED
    BY <2>3, <2>4
<1> QED
  BY <1>1, InductiveInvariant, PTL

(* Once submitAllocatedTxPacket has returned, nothing of a node that has   *)
(* left is queued or in the store, but for the interruptions the property  *)
(* names.                                                                  *)
THEOREM AbsentLeaveNoTrace == Spec => []NoTraceOfAbsent
<1>1. Inductive => NoTraceOfAbsent
  <2> SUFFICES ASSUME Inductive, Without({"shift", "leak"}), ~Submitting, NEW d \in Peers \ connected
               PROVE  /\ ~Contains(tm.active.nodeIds, d)
                      /\ tm.start[d] = tm.end[d]
                      /\ \A i \in Slots : tm.inUse[i] /\ tm.dst[i] = d => i = tm.allocated
    BY DEF NoTraceOfAbsent
  <2>1. Without({"shift"}) /\ Without({"leak"})
    BY DEF Without
  <2>2. d # dst
    BY ConstantFacts DEF Inductive, Control
  <2> QED
    BY <2>1, <2>2 DEF Inductive, AbsentForgotten, OnQueue
<1> QED
  BY <1>1, InductiveInvariant, PTL
=============================================================================
