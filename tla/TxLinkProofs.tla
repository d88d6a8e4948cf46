---------------------------- MODULE TxLinkProofs ----------------------------
(***************************************************************************)
(* Proofs about TxLink, for every set of peers, number of packet entries,  *)
(* number of sequence numbers, window size, and bounds MaxSent and MaxAcks *)
(* that satisfy the assumptions of TxManager and TxLink.                   *)
(***************************************************************************)
EXTENDS TxLinkInv, TxManagerLemmas

(***************************************************************************)
(* Type correctness                                                        *)
(***************************************************************************)
(* Payload memory that the application is writing is payload memory. *)
LEMMA TornIsPayload == Torn \in Payloads
BY TxLinkAssumption DEF Torn, Packet, Payloads

(* NULL_SEQUENCE_NUM is the only value of an ack that is not a sequence    *)
(* number.                                                                 *)
LEMMA SeqNumsOrNull ==
  /\ SeqNums \subseteq 0 .. NullSequenceNum
  /\ NullSequenceNum \in 0 .. NullSequenceNum
  /\ NullSequenceNum \notin SeqNums
  /\ \A a \in 0 .. NullSequenceNum : a # NullSequenceNum => a \in SeqNums
BY TxManagerAssumption DEF SeqNums, NullSequenceNum

(* initTxManager and the peers' initial rxSeqNum are well-typed. *)
LEMMA TypeInit == Init => TypeOK
<1> SUFFICES ASSUME Init PROVE TypeOK
  OBVIOUS
<1>1. tm \in TxManagers(Payloads, SeqNums)
  <2>1. 0 \in SeqNums
    BY TxManagerAssumption DEF SeqNums
  <2> QED
    BY <2>1, initType, TornIsPayload DEF Init
<1>2. rxSeqNum \in [Peers -> 0 .. NullSequenceNum]
  BY SeqNumsOrNull DEF Init
<1>3. sent \in [Peers -> 0 .. MaxSent]
  BY TxLinkAssumption DEF Init
<1> QED
  BY <1>1, <1>2, <1>3 DEF Init, TypeOK

(* Every handler and every call of the application keeps all types. *)
LEMMA TypeStep == TypeOK /\ [Next]_vars => TypeOK'
<1> SUFFICES ASSUME TypeOK, [Next]_vars PROVE TypeOK'
  OBVIOUS
<1> USE DEF TypeOK
<1>1. CASE AllocateTxPacket
  <2>1. tm' \in TxManagers(Payloads, SeqNums)
    BY <1>1, allocateType, TornIsPayload DEF AllocateTxPacket
  <2> QED
    BY <1>1, <2>1 DEF AllocateTxPacket
<1>2. ASSUME NEW d \in Peers, SubmitAllocatedTxPacket(d) PROVE TypeOK'
  <2>1. sent[d] + 1 \in 0 .. MaxSent
    BY <1>2, TxLinkAssumption DEF SubmitAllocatedTxPacket
  <2>2. Packet(d, sent[d] + 1) \in Payloads
    BY <2>1 DEF Packet, Payloads
  <2>3. tm' \in TxManagers(Payloads, SeqNums)
    BY <1>2, <2>2, submitType DEF SubmitAllocatedTxPacket
  <2> QED
    BY <1>2, <2>1, <2>3 DEF SubmitAllocatedTxPacket
<1>3. CASE ProcessTx
  <2>1. tm' \in TxManagers(Payloads, SeqNums) /\ nextTxPacket' \in Slots \cup {NoSlot}
    BY <1>3, getNextFacts DEF ProcessTx
  <2> QED
    BY <1>3, <2>1 DEF ProcessTx
<1>4. CASE Transmit
  <2>1. nextTxPacket \in Slots
    BY <1>4 DEF Transmit
  <2>2. (IF IsMaster THEN tm.dst[nextTxPacket] ELSE CHOOSE p \in Peers : TRUE) \in Peers \cup {NoPeer}
    BY <2>1, TxManagerAssumption DEF TxManagers
  <2>3. tm.seq[nextTxPacket] \in SeqNums
    BY <2>1 DEF TxManagers
  <2>4. wire' \in [dst : Peers \cup {NoPeer}, seq : SeqNums, slot : Slots]
    BY <1>4, <2>1, <2>2, <2>3 DEF Transmit
  <2> QED
    BY <1>4, <2>4 DEF Transmit
<1>5. ASSUME NEW p \in Peers, RxAck(p) PROVE TypeOK'
  <2>1. ackWire[p] \in Seq(0 .. NullSequenceNum) /\ ackWire[p] # << >>
    BY <1>5 DEF RxAck
  <2>2. Head(ackWire[p]) \in 0 .. NullSequenceNum /\ Tail(ackWire[p]) \in Seq(0 .. NullSequenceNum)
    BY <2>1, HeadTailProperties
  <2>3. tm' \in TxManagers(Payloads, SeqNums)
    BY <1>5, <2>2, rxAckType DEF RxAck
  <2>4. ackWire' \in [Peers -> Seq(0 .. NullSequenceNum)]
    BY <1>5, <2>2 DEF RxAck
  <2> QED
    BY <1>5, <2>3, <2>4 DEF RxAck
<1>6. ASSUME NEW p \in Peers, Receive(p) PROVE TypeOK'
  <2>1. wire.seq \in SeqNums /\ wire.slot \in Slots
    BY <1>6 DEF Receive
  <2>2. rxPacketCheckAndUpdateSeqNum(rxSeqNum[p], wire.seq) \in 0 .. NullSequenceNum
    BY <2>1, SeqNumsOrNull DEF rxPacketCheckAndUpdateSeqNum
  <2>3. rxSeqNum' \in [Peers -> 0 .. NullSequenceNum]
    BY <1>6, <2>2 DEF Receive
  <2>4. tm.data[wire.slot] \in Payloads
    BY <2>1 DEF TxManagers
  <2>5. delivered' \in [Peers -> Seq(Payloads)]
    BY <1>6, <2>4 DEF Receive
  <2> QED
    BY <1>6, <2>3, <2>5 DEF Receive
<1>7. ASSUME NEW p \in Peers, SendAck(p) PROVE TypeOK'
  BY <1>7 DEF SendAck
<1>8. ASSUME NEW p \in Peers, LoseAck(p) PROVE TypeOK'
  <2>1. ackWire[p] \in Seq(0 .. NullSequenceNum) /\ ackWire[p] # << >>
    BY <1>8 DEF LoseAck
  <2>2. Tail(ackWire[p]) \in Seq(0 .. NullSequenceNum)
    BY <2>1, HeadTailProperties
  <2> QED
    BY <1>8, <2>2 DEF LoseAck
<1>9. CASE LosePacket
  BY <1>9 DEF LosePacket
<1>10. CASE UNCHANGED vars
  BY <1>10 DEF vars
<1> QED
  BY <1>1, <1>2, <1>3, <1>4, <1>5, <1>6, <1>7, <1>8, <1>9, <1>10 DEF Next

(* Every variable, and every field of the sender's tTxManager, keeps its   *)
(* type: sequence numbers stay below MAX_SEQUENCE_NUM, the pause counter   *)
(* at most 2, and every chosen entry is one of the store's.                *)
THEOREM TypeCorrect == Spec => []TypeOK
<1>1. Init => TypeOK
  BY TypeInit
<1>2. TypeOK /\ [Next]_vars => TypeOK'
  BY TypeStep
<1> QED
  BY <1>1, <1>2, PTL DEF Spec

(***************************************************************************)
(* Consequences of the invariant in a state                                *)
(***************************************************************************)
(* The window of a destination in a well-typed state: txSeqNumStart,       *)
(* txSeqNumEnd, txSeqNumNext, and what lies between them.                  *)
LEMMA WindowTypes ==
  ASSUME TypeOK, NEW d \in Peers
  PROVE  /\ tm.start[d] \in SeqNums /\ tm.end[d] \in SeqNums /\ tm.next[d] \in SeqNums
         /\ Expected(d) \in SeqNums
         /\ Unacked(d) \in Nat /\ Unacked(d) < MaxSequenceNum
         /\ sent[d] \in Nat /\ Len(delivered[d]) \in Nat
<1>1. tm.start[d] \in SeqNums /\ tm.end[d] \in SeqNums /\ tm.next[d] \in SeqNums
  BY DEF TypeOK, TxManagers
<1>2. Expected(d) \in SeqNums
  BY expectedType DEF TypeOK, Expected
<1>3. Unacked(d) \in Nat /\ Unacked(d) < MaxSequenceNum
  BY <1>1, DistType DEF Unacked
<1>4. sent[d] \in Nat /\ Len(delivered[d]) \in Nat
  BY TxLinkAssumption DEF TypeOK
<1> QED
  BY <1>1, <1>2, <1>3, <1>4

(* A node's only destination is the master. *)
LEMMA OnlyPeer ==
  ASSUME ~IsMaster, NEW p \in Peers
  PROVE  p = CHOOSE q \in Peers : TRUE
BY TxManagerAssumption

(* findPacketEntry compares the in-use flag, the destination, and the      *)
(* sequence number of an entry; a node does not need to compare the        *)
(* destination.                                                            *)
LEMMA MatchingIsHeader ==
  ASSUME NEW d \in Peers, NEW n, NEW i \in Slots
  PROVE  i \in Matching(tm, d, n) <=> tm.inUse[i] /\ Owner(i) = d /\ tm.seq[i] = n
<1>1. CASE IsMaster
  BY <1>1 DEF Matching, Owner
<1>2. CASE ~IsMaster
  BY <1>2, OnlyPeer DEF Matching, Owner
<1> QED
  BY <1>1, <1>2

(* findPacketEntry finds the live entry of every queued packet. *)
LEMMA QueuedFound ==
  ASSUME TypeOK, StoreInv, NEW d \in Peers, NEW n \in SeqNums, InWindow(d, n)
  PROVE  /\ Matching(tm, d, n) # {}
         /\ findPacketEntry(tm, d, n) \in Slots
         /\ Holds(findPacketEntry(tm, d, n), d, n)
<1>1. PICK j \in Slots : Holds(j, d, n)
  BY DEF StoreInv, QueuedHaveEntries
<1>2. j \in Matching(tm, d, n)
  BY <1>1, MatchingIsHeader DEF Holds, Live
<1> DEFINE f == findPacketEntry(tm, d, n)
<1>3. f \in Slots /\ f \in Matching(tm, d, n) /\ f <= j
  BY <1>2, FirstMatch
<1> HIDE DEF f
<1>4. Owner(f) = d /\ tm.seq[f] = n
  BY <1>3, MatchingIsHeader
<1>5. f = j
  <2>1. CASE Live(f)
    BY <1>1, <1>3, <1>4, <2>1 DEF StoreInv, LiveEntries, Holds
  <2>2. CASE ~Live(f)
    <3>1. ~(f < j)
      BY <1>1, <1>3, <1>4, <2>2 DEF StoreInv, StaleEntriesBehind, Holds
    <3> QED
      BY <1>3, <3>1, SlotsAreNat
  <2> QED
    BY <2>1, <2>2
<1> QED
  BY <1>1, <1>2, <1>3, <1>5 DEF f

(* The number k places into the window to d. *)
NumberAt(d, k) == CHOOSE n \in SeqNums : Dist(tm.start[d], n) = k

(* Every place below MAX_SEQUENCE_NUM has a number. *)
LEMMA NumberAtFacts ==
  ASSUME TypeOK, NEW d \in Peers, NEW k \in Nat, k < MaxSequenceNum
  PROVE  NumberAt(d, k) \in SeqNums /\ Dist(tm.start[d], NumberAt(d, k)) = k
<1> DEFINE m == IF tm.start[d] + k < MaxSequenceNum THEN tm.start[d] + k
                ELSE tm.start[d] + k - MaxSequenceNum
<1>1. tm.start[d] \in SeqNums
  BY WindowTypes
<1>2. m \in SeqNums /\ Dist(tm.start[d], m) = k
  BY <1>1, TxManagerAssumption DEF SeqNums, Dist
<1> QED
  BY <1>2 DEF NumberAt

(* There are at most as many queued packets as entries, and one less while *)
(* an entry is allocated: the sequence numbers cannot run a whole turn     *)
(* ahead of the start of the window.                                       *)
LEMMA Capacity ==
  ASSUME TypeOK, StoreInv, NEW d \in Peers
  PROVE  /\ Unacked(d) <= MaxPacketEntries
         /\ tm.allocated # NoSlot => Unacked(d) < MaxPacketEntries
<1> DEFINE U == Unacked(d)
           E == Slots \ {tm.allocated}
           f == [k \in 1 .. U |-> findPacketEntry(tm, d, NumberAt(d, k - 1))]
<1>1. U \in Nat /\ U < MaxSequenceNum
  BY WindowTypes
<1> HIDE DEF U
<1>2. ASSUME NEW k \in 1 .. U
      PROVE  /\ f[k] \in E
             /\ Dist(tm.start[d], tm.seq[f[k]]) = k - 1
  <2>1. k - 1 \in Nat /\ k - 1 < U /\ k - 1 < MaxSequenceNum
    BY <1>1, TxManagerAssumption
  <2>2. NumberAt(d, k - 1) \in SeqNums /\ Dist(tm.start[d], NumberAt(d, k - 1)) = k - 1
    BY <2>1, NumberAtFacts
  <2>3. InWindow(d, NumberAt(d, k - 1))
    BY <2>1, <2>2 DEF InWindow, U
  <2> QED
    BY <2>2, <2>3, QueuedFound DEF Holds, Live
<1> HIDE DEF f
<1>3. \A j, k \in 1 .. U : f[j] = f[k] => j = k
  <2> SUFFICES ASSUME NEW j \in 1 .. U, NEW k \in 1 .. U, f[j] = f[k] PROVE j = k
    OBVIOUS
  <2>1. j - 1 = k - 1
    BY <1>2
  <2> QED
    BY <2>1
<1>4. /\ IsFiniteSet(Slots)
      /\ Cardinality(Slots) = MaxPacketEntries
  BY FS_Interval, TxManagerAssumption DEF Slots
<1>5. /\ IsFiniteSet(E)
      /\ Cardinality(E) = IF tm.allocated \in Slots THEN MaxPacketEntries - 1 ELSE MaxPacketEntries
  BY <1>4, FS_RemoveElement
<1>6. f \in [1 .. U -> E]
  BY <1>2 DEF f
<1> HIDE DEF E
<1>7. U <= Cardinality(E)
  BY <1>1, <1>3, <1>5, <1>6, Pigeonhole
<1>8. tm.allocated # NoSlot => tm.allocated \in Slots
  BY DEF TypeOK, TxManagers
<1> QED
  BY <1>1, <1>5, <1>7, <1>8, TxManagerAssumption DEF U

(* The queue of active destinations is never full: nodeQueueAdd's          *)
(* assertion in submitAllocatedTxPacket holds.                             *)
LEMMA QueueNotFull ==
  ASSUME TypeOK, ActiveIffQueued, IsMaster
  PROVE  ~QueueFull(tm.active)
<1> DEFINE ids == tm.active.nodeIds
           n == Len(ids)
<1>1. ids \in Seq(Peers) /\ n \in Nat /\ ids \in [1 .. n -> Peers]
  BY LenProperties DEF TypeOK, TxManagers
<1>2. \A j, k \in 1 .. n : ids[j] = ids[k] => j = k
  BY DEF ActiveIffQueued, numNodes
<1>3. IsFiniteSet(Peers) /\ Cardinality(Peers) \in Nat
  BY TxManagerAssumption, FS_CardinalityType
<1> HIDE DEF n, ids
<1>4. n <= Cardinality(Peers)
  BY <1>1, <1>2, <1>3, Pigeonhole
<1> QED
  BY <1>1, <1>3, <1>4, TxManagerAssumption DEF QueueFull, numNodes, n, ids

(***************************************************************************)
(* The inductive invariant: one lemma per action, in the order of the      *)
(* code's steps, and what follows from it.                                 *)
(***************************************************************************)

(***************************************************************************)
(* Steps that leave the packet store and the windows alone                 *)
(***************************************************************************)

(* Choosing a packet, counting down the pause, and everything the peers    *)
(* and the link do leave the store's invariant alone.                      *)
LEMMA SameStore ==
  ASSUME SameQueues(tm, tm'), UNCHANGED sent
  PROVE  /\ \A i \in Slots : /\ Live(i)' <=> Live(i)
                             /\ Owner(i)' = Owner(i)
                             /\ tm'.seq[i] = tm.seq[i]
         /\ \A d \in Peers : Unacked(d)' = Unacked(d)
         /\ StoreInv => StoreInv'
         /\ ActiveIffQueued => ActiveIffQueued'
<1>1. \A i \in Slots : /\ Live(i)' <=> Live(i)
                       /\ Owner(i)' = Owner(i)
                       /\ tm'.seq[i] = tm.seq[i]
  BY DEF SameQueues, Live, Owner
<1>2. \A d \in Peers : Unacked(d)' = Unacked(d)
  BY DEF SameQueues, Unacked
<1>3. StoreInv => StoreInv'
  BY DEF SameQueues, StoreInv, AllocatedInUse, LiveEntries, QueuedHaveEntries, StaleEntriesBehind,
         FreedBeforeAllocated, Live, Owner, Holds, InWindow, Unacked, Number
<1>4. ActiveIffQueued => ActiveIffQueued'
  BY DEF SameQueues, ActiveIffQueued
<1> QED
  BY <1>1, <1>2, <1>3, <1>4

(* What the invariant says of an entry or a number does not change in a    *)
(* step in which the sender and the peers' rxSeqNum stay as they are.      *)
LEMMA SameEnds ==
  ASSUME UNCHANGED <<tm, rxSeqNum, sent, delivered>>
  PROVE  /\ StoreInv => StoreInv'
         /\ ActiveIffQueued => ActiveIffQueued'
         /\ NoAssertionFails => NoAssertionFails'
         /\ NextInWindow => NextInWindow'
         /\ ReceiverInv => ReceiverInv'
         /\ \A d \in Peers : Expected(d)' = Expected(d)
         /\ \A d, n : /\ Old(d, n)' <=> Old(d, n)
                      /\ New(d, n)' <=> New(d, n)
         /\ \A i, d, n : Holds(i, d, n)' <=> Holds(i, d, n)
         /\ \A i : Owner(i)' = Owner(i) /\ (Live(i)' <=> Live(i))
<1>1. StoreInv => StoreInv'
  BY DEF StoreInv, AllocatedInUse, LiveEntries, QueuedHaveEntries, StaleEntriesBehind,
         FreedBeforeAllocated, Live, Owner, Holds, InWindow, Unacked, Number
<1>2. ActiveIffQueued => ActiveIffQueued'
  BY DEF ActiveIffQueued
<1>3. NoAssertionFails => NoAssertionFails'
  BY DEF NoAssertionFails
<1>4. NextInWindow => NextInWindow'
  BY DEF NextInWindow, Unacked
<1>5. ReceiverInv => ReceiverInv'
  BY DEF ReceiverInv, Unacked, Expected
<1>6. \A d \in Peers : Expected(d)' = Expected(d)
  BY DEF Expected
<1>7. \A d, n : Old(d, n)' <=> Old(d, n)
  BY DEF Expected, Old
<1>8. \A d, n : New(d, n)' <=> New(d, n)
  BY DEF Expected, New, Undelivered
<1>9. \A i, d, n : Holds(i, d, n)' <=> Holds(i, d, n)
  BY DEF Holds, Live, Owner
<1>10. \A i : Owner(i)' = Owner(i) /\ (Live(i)' <=> Live(i))
  BY DEF Live, Owner
<1> QED
  BY <1>1, <1>2, <1>3, <1>4, <1>5, <1>6, <1>7, <1>8, <1>9, <1>10

(* The packet on the wire is lost. *)
LEMMA LosePacketStep ==
  ASSUME Inductive, LosePacket
  PROVE  Inductive'
<1> USE DEF Inductive
<1>1. TypeOK'
  BY TypeStep DEF Next
<1>2. UNCHANGED <<tm, rxSeqNum, sent, delivered>>
  BY DEF LosePacket
<1>3. AckInv'
  BY DEF LosePacket, AckInv, AckPlace
<1>4. WireInv'
  BY DEF LosePacket, WireInv
<1>5. ChosenInv'
  <2> SUFFICES ASSUME nextTxPacket # NoSlot
               PROVE  LET d == Owner(nextTxPacket)
                          n == tm.seq[nextTxPacket]
                      IN  d \in Peers /\ (Old(d, n) \/ (New(d, n) /\ Live(nextTxPacket))) /\ wire'.dst # d
    BY <1>2, SameEnds DEF ChosenInv, LosePacket
  <2> QED
    BY TxManagerAssumption DEF LosePacket, NoPacket, ChosenInv
<1> QED
  BY <1>1, <1>2, <1>3, <1>4, <1>5, SameEnds

(* A slot starts: what was known of the chosen packet is now known of the  *)
(* one on the wire.                                                        *)
LEMMA TransmitStep ==
  ASSUME Inductive, Transmit
  PROVE  Inductive'
<1> USE DEF Inductive
<1>1. TypeOK'
  BY TypeStep DEF Next
<1>2. UNCHANGED <<tm, rxSeqNum, sent, delivered>>
  BY DEF Transmit
<1>3. AckInv'
  BY DEF Transmit, AckInv, AckPlace
<1>4. WireInv'
  <2>1. nextTxPacket \in Slots
    BY DEF Transmit, TypeOK
  <2>2. /\ wire'.dst = Owner(nextTxPacket)
        /\ wire'.seq = tm.seq[nextTxPacket]
        /\ wire'.slot = nextTxPacket
    BY DEF Transmit, Owner
  <2>3. /\ Owner(nextTxPacket) \in Peers
        /\ \/ Old(wire'.dst, wire'.seq)
           \/ New(wire'.dst, wire'.seq) /\ Holds(wire'.slot, wire'.dst, wire'.seq)
    BY <2>2 DEF Transmit, ChosenInv, Holds
  <2> QED
    BY <1>2, <2>1, <2>2, <2>3, SameEnds DEF WireInv
<1>5. ChosenInv'
  BY DEF Transmit, ChosenInv
<1> QED
  BY <1>1, <1>2, <1>3, <1>4, <1>5, SameEnds

(* The part of AckInv about one destination. *)
AckOrder(d) ==
  \A k \in 1 .. Len(ackWire[d]) :
    /\ AckPlace(d, ackWire[d][k]) <= AckPlace(d, rxSeqNum[d])
    /\ \A j \in 1 .. k : AckPlace(d, ackWire[d][j]) <= AckPlace(d, ackWire[d][k])

(* An ack leads to a place below MAX_SEQUENCE_NUM. *)
LEMMA AckPlaceType ==
  ASSUME TypeOK, NEW d \in Peers, NEW ack \in 0 .. NullSequenceNum
  PROVE  AckPlace(d, ack) \in Nat /\ AckPlace(d, ack) < MaxSequenceNum
BY WindowTypes, expectedType, DistType DEF AckPlace

(* A peer's packet carries its rxSeqNum, the newest ack there is. *)
LEMMA SendAckStep ==
  ASSUME Inductive, NEW p \in Peers, SendAck(p)
  PROVE  Inductive'
<1> USE DEF Inductive
<1>1. TypeOK'
  BY TypeStep DEF Next
<1>2. UNCHANGED <<tm, nextTxPacket, wire, rxSeqNum, sent, delivered>>
  BY DEF SendAck
<1>3. AckInv'
  <2>1. ASSUME NEW d \in Peers PROVE AckOrder(d)'
    <3>1. ackWire[d] \in Seq(0 .. NullSequenceNum) /\ rxSeqNum[d] \in 0 .. NullSequenceNum
      BY DEF TypeOK
    <3>2. ackWire'[d] = ackWire[d] \/ ackWire'[d] = Append(ackWire[d], rxSeqNum[d])
      BY DEF SendAck, TypeOK
    <3>3. AckOrder(d)
      BY DEF AckInv, AckOrder
    <3>4. AckPlace(d, rxSeqNum[d]) \in Nat
      BY <3>1, AckPlaceType
    <3>5. CASE ackWire'[d] = ackWire[d]
      BY <1>2, <3>3, <3>5 DEF AckOrder, AckPlace
    <3>6. CASE ackWire'[d] = Append(ackWire[d], rxSeqNum[d])
      <4> DEFINE w == ackWire[d]
                 v == Append(w, rxSeqNum[d])
      <4>1. /\ Len(v) = Len(w) + 1 /\ Len(w) \in Nat
            /\ \A k \in 1 .. Len(w) : v[k] = w[k]
            /\ v[Len(w) + 1] = rxSeqNum[d]
        BY <3>1
      <4> SUFFICES ASSUME NEW k \in 1 .. Len(v)
                   PROVE  /\ AckPlace(d, v[k]) <= AckPlace(d, rxSeqNum[d])
                          /\ \A j \in 1 .. k : AckPlace(d, v[j]) <= AckPlace(d, v[k])
        BY <1>2, <3>6 DEF AckOrder, AckPlace
      <4> HIDE DEF w, v
      <4>2. \A i \in 1 .. Len(v) : AckPlace(d, v[i]) <= AckPlace(d, rxSeqNum[d])
        BY <3>3, <3>4, <4>1 DEF AckOrder, w
      <4>3. CASE k = Len(w) + 1
        <5>1. v[k] = rxSeqNum[d] /\ \A j \in 1 .. k : j \in 1 .. Len(v)
          BY <4>1, <4>3
        <5> QED
          BY <4>2, <5>1
      <4>4. CASE k \in 1 .. Len(w)
        <5>1. v[k] = w[k] /\ \A j \in 1 .. k : v[j] = w[j]
          BY <4>1, <4>4
        <5>2. \A j \in 1 .. k : AckPlace(d, w[j]) <= AckPlace(d, w[k])
          BY <3>3, <4>4 DEF AckOrder, w
        <5> QED
          BY <4>2, <5>1, <5>2
      <4> QED
        BY <4>1, <4>3, <4>4
    <3> QED
      BY <3>2, <3>5, <3>6
  <2> QED
    BY <2>1 DEF AckInv, AckOrder
<1>4. WireInv'
  BY <1>2, SameEnds DEF WireInv
<1>5. ChosenInv'
  BY <1>2, SameEnds DEF ChosenInv
<1> QED
  BY <1>1, <1>2, <1>3, <1>4, <1>5, SameEnds

(* Without the first of the acks on their way, the others are in order. *)
LEMMA TailAckOrder ==
  ASSUME NEW d \in Peers, ackWire[d] \in Seq(0 .. NullSequenceNum), ackWire[d] # << >>, AckOrder(d)
  PROVE  \A k \in 1 .. Len(Tail(ackWire[d])) :
           /\ AckPlace(d, Tail(ackWire[d])[k]) <= AckPlace(d, rxSeqNum[d])
           /\ AckPlace(d, Head(ackWire[d])) <= AckPlace(d, Tail(ackWire[d])[k])
           /\ \A j \in 1 .. k :
                AckPlace(d, Tail(ackWire[d])[j]) <= AckPlace(d, Tail(ackWire[d])[k])
<1> DEFINE w == ackWire[d]
           v == Tail(w)
<1>1. /\ Len(v) \in Nat /\ Len(v) = Len(w) - 1 /\ Len(w) \in Nat
      /\ \A k \in 1 .. Len(v) : v[k] = w[k + 1]
      /\ Head(w) = w[1]
  BY HeadTailProperties
<1> SUFFICES ASSUME NEW k \in 1 .. Len(v)
             PROVE  /\ AckPlace(d, v[k]) <= AckPlace(d, rxSeqNum[d])
                    /\ AckPlace(d, Head(w)) <= AckPlace(d, v[k])
                    /\ \A j \in 1 .. k : AckPlace(d, v[j]) <= AckPlace(d, v[k])
  OBVIOUS
<1>2. \A i \in 1 .. Len(w) : 
        /\ AckPlace(d, w[i]) <= AckPlace(d, rxSeqNum[d])
        /\ \A j \in 1 .. i : AckPlace(d, w[j]) <= AckPlace(d, w[i])
  BY DEF AckOrder
<1> HIDE DEF w, v
<1>3. k + 1 \in 1 .. Len(w) /\ 1 \in 1 .. k + 1
  BY <1>1
<1>4. ASSUME NEW j \in 1 .. k PROVE AckPlace(d, v[j]) <= AckPlace(d, v[k])
  <2>1. j + 1 \in 1 .. k + 1 /\ v[j] = w[j + 1] /\ v[k] = w[k + 1]
    BY <1>1
  <2> QED
    BY <1>2, <1>3, <2>1
<1> QED
  BY <1>1, <1>2, <1>3, <1>4

(* A packet of a peer is lost, and the ack it carries. *)
LEMMA LoseAckStep ==
  ASSUME Inductive, NEW p \in Peers, LoseAck(p)
  PROVE  Inductive'
<1> USE DEF Inductive
<1>1. TypeOK'
  BY TypeStep DEF Next
<1>2. UNCHANGED <<tm, nextTxPacket, wire, rxSeqNum, sent, delivered>>
  BY DEF LoseAck
<1>3. AckInv'
  <2>1. ASSUME NEW d \in Peers PROVE AckOrder(d)'
    <3>1. ackWire[d] \in Seq(0 .. NullSequenceNum)
      BY DEF TypeOK
    <3>2. ackWire'[d] = ackWire[d] \/ (ackWire[d] # << >> /\ ackWire'[d] = Tail(ackWire[d]))
      BY DEF LoseAck, TypeOK
    <3>3. AckOrder(d)
      BY DEF AckInv, AckOrder
    <3>4. CASE ackWire'[d] = ackWire[d]
      BY <1>2, <3>3, <3>4 DEF AckOrder, AckPlace
    <3>5. CASE ackWire[d] # << >> /\ ackWire'[d] = Tail(ackWire[d])
      BY <1>2, <3>1, <3>3, <3>5, TailAckOrder DEF AckOrder, AckPlace
    <3> QED
      BY <3>2, <3>4, <3>5
  <2> QED
    BY <2>1 DEF AckInv, AckOrder
<1>4. WireInv'
  BY <1>2, SameEnds DEF WireInv
<1>5. ChosenInv'
  BY <1>2, SameEnds DEF ChosenInv
<1> QED
  BY <1>1, <1>2, <1>3, <1>4, <1>5, SameEnds

(***************************************************************************)
(* Receiving a packet                                                      *)
(***************************************************************************)

(* The packet on the wire that its peer would accept is the next one that  *)
(* is due, its entry is still live, and the DMA reads its payload.         *)
LEMMA WireIntact ==
  ASSUME Inductive, wire # NoPacket, wire.seq = Expected(wire.dst)
  PROVE  LET p == wire.dst
         IN  /\ p \in Peers
             /\ wire.slot \in Slots /\ Holds(wire.slot, p, wire.seq)
             /\ tm.data[wire.slot] = Packet(p, Len(delivered[p]) + 1)
             /\ Len(delivered[p]) < sent[p]
             /\ Dist(tm.start[p], Expected(p)) < Unacked(p)
<1> USE DEF Inductive
<1> DEFINE p == wire.dst
           s == wire.slot
<1>1. p \in Peers /\ s \in Slots
  BY DEF WireInv
<1>2. /\ tm.start[p] \in SeqNums /\ tm.end[p] \in SeqNums
      /\ Expected(p) \in SeqNums
      /\ Unacked(p) \in Nat
      /\ sent[p] \in Nat /\ Len(delivered[p]) \in Nat
  BY <1>1, WindowTypes
<1>3. Dist(Expected(p), Expected(p)) = 0
  BY <1>2, DistType
<1>4. Holds(s, p, wire.seq) /\ Undelivered(p) > 0
  BY <1>3 DEF WireInv, Old, New
<1>5. tm.data[s] = Packet(p, Number(p, Expected(p)))
  BY <1>1, <1>4 DEF StoreInv, LiveEntries, Holds
<1>6. /\ Dist(tm.start[p], Expected(p)) \in Nat
      /\ Dist(tm.start[p], Expected(p)) <= Unacked(p)
      /\ sent[p] - Unacked(p) + Dist(tm.start[p], Expected(p)) = Len(delivered[p])
  BY <1>1, <1>2, DistType DEF ReceiverInv
<1>7. Dist(Expected(p), tm.end[p]) = Unacked(p) - Dist(tm.start[p], Expected(p))
  BY <1>2, <1>6, DistSplit DEF Unacked
<1>8. Number(p, Expected(p)) = Len(delivered[p]) + 1
  <2>1. Number(p, Expected(p)) = sent[p] + 1 - (Unacked(p) - Dist(tm.start[p], Expected(p)))
    BY <1>7 DEF Number
  <2> QED
    BY <1>2, <1>6, <2>1, SMTT(30)
<1>9. Len(delivered[p]) < sent[p]
  BY <1>2, <1>4 DEF Undelivered
<1>10. Dist(tm.start[p], Expected(p)) < Unacked(p)
  BY <1>2, <1>6, <1>9
<1>11. tm.data[s] = Packet(p, Len(delivered[p]) + 1)
  BY <1>5, <1>8
<1> QED
  BY <1>1, <1>4, <1>9, <1>10, <1>11

(* A peer accepts the packet on the wire, or ignores it. *)
LEMMA ReceiveStep ==
  ASSUME Inductive, NEW p \in Peers, Receive(p)
  PROVE  Inductive'
<1> USE DEF Inductive
<1>1. CASE wire.seq # Expected(p)
  <2>1. rxSeqNum' = rxSeqNum /\ delivered' = delivered
    BY <1>1 DEF Receive, Expected, rxPacketCheckAndUpdateSeqNum, TypeOK
  <2>2. LosePacket
    BY <2>1 DEF Receive, LosePacket
  <2> QED
    BY <2>2, LosePacketStep
<1>2. CASE wire.seq = Expected(p)
  <2> DEFINE e == Expected(p)
  <2>1. /\ wire.dst = p /\ wire' = NoPacket
        /\ UNCHANGED <<tm, nextTxPacket, ackWire, sent>>
    BY DEF Receive
  <2>2. /\ Holds(wire.slot, p, e)
        /\ Len(delivered[p]) < sent[p]
        /\ Dist(tm.start[p], e) < Unacked(p)
    BY <1>2, <2>1, WireIntact DEF Receive
  <2>3. \A d \in Peers :
          /\ tm.start[d] \in SeqNums /\ tm.end[d] \in SeqNums
          /\ Expected(d) \in SeqNums
          /\ Unacked(d) \in Nat /\ Unacked(d) < MaxSequenceNum
          /\ sent[d] \in Nat /\ Len(delivered[d]) \in Nat
    BY WindowTypes
  <2>4. /\ Expected(p)' = Incr(e)
        /\ rxSeqNum'[p] = e
        /\ \A d \in Peers : d # p => rxSeqNum'[d] = rxSeqNum[d] /\ Expected(d)' = Expected(d)
    BY <1>2, <2>3, SeqNumsOrNull
       DEF Receive, Expected, rxPacketCheckAndUpdateSeqNum, expectedSeqNum, TypeOK
  <2>5. /\ Len(delivered'[p]) = Len(delivered[p]) + 1
        /\ \A d \in Peers : d # p => delivered'[d] = delivered[d]
    BY <1>2 DEF Receive, Expected, TypeOK
  <2>6. Dist(tm.start[p], e) \in Nat /\ Dist(tm.start[p], Incr(e)) = Dist(tm.start[p], e) + 1
    BY <2>2, <2>3, DistType, DistIncr, TxManagerAssumption
  <2> HIDE DEF e
  <2>7. TypeOK'
    BY TypeStep DEF Next
  <2>8. StoreInv' /\ ActiveIffQueued'
    BY <2>1, SameStore DEF SameQueues
  <2>9. NoAssertionFails' /\ NextInWindow'
    BY <2>1 DEF NoAssertionFails, NextInWindow, Unacked
  <2>10. ReceiverInv'
    <3>1. ASSUME NEW d \in Peers
          PROVE  /\ Dist(tm.start[d], Expected(d)') <= Unacked(d)
                 /\ sent[d] - Unacked(d) + Dist(tm.start[d], Expected(d)') = Len(delivered'[d])
      <4>1. CASE d # p
        BY <2>4, <2>5, <4>1 DEF ReceiverInv
      <4>2. CASE d = p
        <5>1. sent[p] - Unacked(p) + Dist(tm.start[p], e) = Len(delivered[p])
          BY DEF ReceiverInv, e
        <5> QED
          BY <2>2, <2>3, <2>4, <2>5, <2>6, <4>2, <5>1, SMTT(30)
      <4> QED
        BY <4>1, <4>2
    <3> QED
      BY <2>1, <3>1 DEF ReceiverInv, Unacked
  <2>11. AckInv'
    <3>1. ASSUME NEW d \in Peers PROVE AckPlace(d, rxSeqNum[d]) <= AckPlace(d, rxSeqNum'[d])
      <4>1. CASE d # p
        <5>1. AckPlace(d, rxSeqNum[d]) \in Nat
          BY AckPlaceType DEF TypeOK
        <5> QED
          BY <2>4, <4>1, <5>1
      <4>2. CASE d = p
        BY <2>4, <2>6, <4>2 DEF AckPlace, Expected, e
      <4> QED
        BY <4>1, <4>2
    <3>2. ASSUME NEW d \in Peers, NEW k \in 1 .. Len(ackWire[d])
          PROVE  AckPlace(d, ackWire[d][k]) <= AckPlace(d, rxSeqNum'[d])
      <4>1. ackWire[d][k] \in 0 .. NullSequenceNum
        <5>1. ackWire[d] \in Seq(0 .. NullSequenceNum)
          BY DEF TypeOK
        <5> QED
          BY <5>1, ElementOfSeq
      <4>2. /\ AckPlace(d, ackWire[d][k]) \in Nat
            /\ AckPlace(d, rxSeqNum[d]) \in Nat
        BY <4>1, AckPlaceType DEF TypeOK
      <4>3. AckPlace(d, rxSeqNum'[d]) \in Nat
        BY <2>7, AckPlaceType DEF TypeOK
      <4> QED
        BY <3>1, <4>2, <4>3 DEF AckInv
    <3> QED
      BY <2>1, <3>2 DEF AckInv, AckPlace
  <2>12. WireInv'
    BY <2>1 DEF WireInv
  <2>13. ChosenInv'
    <3> SUFFICES ASSUME nextTxPacket # NoSlot,
                        NEW d, d = Owner(nextTxPacket),
                        NEW n, n = tm.seq[nextTxPacket]
                 PROVE  /\ d \in Peers
                        /\ Old(d, n)' \/ (New(d, n)' /\ Live(nextTxPacket))
                        /\ wire'.dst # d
      BY <2>1 DEF ChosenInv, Live, Owner, Old, New
    <3>1. d \in Peers
      BY DEF ChosenInv
    <3>2. wire'.dst # d
      BY <2>1, <3>1, TxManagerAssumption DEF NoPacket
    <3>3. n \in SeqNums
      BY DEF TypeOK, TxManagers
    <3>4. CASE d # p
      BY <2>1, <2>4, <2>5, <3>1, <3>2, <3>4 DEF ChosenInv, Old, New, Undelivered
    <3>5. CASE d = p
      <4>1. CASE /\ Old(p, n)
                 /\ wire.dst = p /\ wire.seq = Expected(p)
                       => Dist(n, Expected(p)) < MaxPacketEntries
        <5>1. Dist(n, e) \in 1 .. MaxPacketEntries - 1
          BY <1>2, <2>1, <4>1, TxManagerAssumption DEF Old, e
        <5>2. Dist(n, Incr(e)) = Dist(n, e) + 1
          BY <2>3, <3>3, <5>1, DistIncr, TxManagerAssumption DEF e
        <5> QED
          BY <2>4, <3>1, <3>2, <3>5, <5>1, <5>2, TxManagerAssumption DEF Old
      <4>2. CASE New(p, n) /\ Live(nextTxPacket) /\ n # e
        <5>1. Dist(Incr(e), n) = Dist(e, n) - 1 /\ Dist(e, n) \in Nat
          BY <2>3, <3>3, <4>2, DistIncr, DistType DEF e
        <5>2. New(p, n)'
          BY <2>1, <2>3, <2>4, <2>5, <4>2, <5>1 DEF New, Undelivered, e
        <5> QED
          BY <3>1, <3>2, <3>5, <4>2, <5>2
      <4>3. CASE n = e
        <5>1. Dist(e, Incr(e)) = 1
          BY <2>3, DistType, DistIncr, TxManagerAssumption DEF e
        <5> QED
          BY <2>4, <3>1, <3>2, <3>5, <4>3, <5>1, TxManagerAssumption DEF Old
      <4> QED
        BY <3>5, <4>1, <4>2, <4>3 DEF ChosenInv
    <3> QED
      BY <3>4, <3>5
  <2> QED
    BY <2>7, <2>8, <2>9, <2>10, <2>11, <2>12, <2>13
<1> QED
  BY <1>1, <1>2

(***************************************************************************)
(* Choosing the next packet                                                *)
(***************************************************************************)

(* A step that moves only txSeqNumNext and the pause counters keeps all of *)
(* the invariant that is not about them or about the chosen packet.        *)
LEMMA SameWindows ==
  ASSUME SameQueues(tm, tm'), UNCHANGED <<rxSeqNum, sent, delivered>>
  PROVE  /\ ReceiverInv => ReceiverInv'
         /\ \A d, ack : AckPlace(d, ack)' = AckPlace(d, ack)
         /\ \A d, n : /\ Old(d, n)' <=> Old(d, n)
                      /\ New(d, n)' <=> New(d, n)
         /\ \A i, d, n : Holds(i, d, n)' <=> Holds(i, d, n)
         /\ \A i : Owner(i)' = Owner(i) /\ (Live(i)' <=> Live(i))
<1>1. ReceiverInv => ReceiverInv'
  BY DEF SameQueues, ReceiverInv, Unacked, Expected
<1>2. \A d, ack : AckPlace(d, ack)' = AckPlace(d, ack)
  BY DEF SameQueues, AckPlace
<1>3. \A d, n : Old(d, n)' <=> Old(d, n)
  BY DEF Expected, Old
<1>4. \A d, n : New(d, n)' <=> New(d, n)
  BY DEF Expected, New, Undelivered
<1>5. \A i, d, n : Holds(i, d, n)' <=> Holds(i, d, n)
  BY DEF SameQueues, Holds, Live, Owner
<1>6. \A i : Owner(i)' = Owner(i) /\ (Live(i)' <=> Live(i))
  BY DEF SameQueues, Live, Owner
<1> QED
  BY <1>1, <1>2, <1>3, <1>4, <1>5, <1>6

(* When a packet is chosen it is a queued one. *)
LEMMA FindsInWindow ==
  ASSUME Inductive, NEW d \in Peers, tm.next[d] # tm.end[d]
  PROVE  InWindow(d, tm.next[d])
<1>1. /\ tm.start[d] \in SeqNums /\ tm.end[d] \in SeqNums /\ tm.next[d] \in SeqNums
  BY WindowTypes DEF Inductive
<1>2. Dist(tm.start[d], tm.next[d]) <= Dist(tm.start[d], tm.end[d])
  BY DEF Inductive, NextInWindow, Unacked
<1>3. Dist(tm.start[d], tm.next[d]) # Dist(tm.start[d], tm.end[d])
  BY <1>1, DistInjective
<1> QED
  BY <1>1, <1>2, <1>3, DistType DEF InWindow, Unacked

(* The assertions of getNextTxPacketForNode hold. *)
LEMMA NoneAsserts ==
  ASSUME Inductive, NEW d \in Peers
  PROVE  ~Asserts(tm, d)
<1>1. NextInRange(tm, d)
  BY NextInRangeIsDist DEF Inductive, TypeOK, NextInWindow, Unacked
<1>2. ASSUME ~AtWindowEnd(tm, d) PROVE Matching(tm, d, tm.next[d]) # {}
  <2>1. InWindow(d, tm.next[d])
    BY <1>2, FindsInWindow DEF AtWindowEnd
  <2>2. tm.next[d] \in SeqNums
    BY WindowTypes DEF Inductive
  <2> QED
    BY <2>1, <2>2, QueuedFound DEF Inductive
<1> QED
  BY <1>1, <1>2 DEF Asserts

(* masterProcessTx or nodeProcessTx chooses a packet that the peer has had *)
(* within the last MaxPacketEntries packets, or one that it still needs.   *)
LEMMA ProcessTxStep ==
  ASSUME Inductive, ProcessTx
  PROVE  Inductive'
<1> USE DEF Inductive
<1>1. TypeOK'
  BY TypeStep DEF Next
<1>2. UNCHANGED <<wire, rxSeqNum, ackWire, sent, delivered>>
  BY DEF ProcessTx
<1>3. /\ SameQueues(tm, tm')
      /\ tm'.fault = tm.fault
      /\ Chooses(tm, tm', nextTxPacket')
  BY NoneAsserts, getNextFacts DEF ProcessTx, TypeOK
<1>4. StoreInv' /\ ActiveIffQueued'
  BY <1>2, <1>3, SameStore
<1>5. NoAssertionFails'
  BY <1>3 DEF NoAssertionFails
<1>6. ReceiverInv'
  BY <1>2, <1>3, SameWindows
<1>7. AckInv'
  BY <1>2, <1>3 DEF AckInv, AckPlace, SameQueues
<1>8. WireInv'
  BY <1>2, <1>3, SameWindows DEF WireInv
<1>9. CASE nextTxPacket' = NoSlot /\ tm'.next = tm.next
  <2>1. NextInWindow'
    BY <1>3, <1>9 DEF NextInWindow, Unacked, SameQueues
  <2>2. ChosenInv'
    BY <1>9 DEF ChosenInv
  <2> QED
    BY <1>1, <1>4, <1>5, <1>6, <1>7, <1>8, <2>1, <2>2
<1>10. ASSUME NEW d \in Peers, Finds(tm, d),
              nextTxPacket' = findPacketEntry(tm, d, tm.next[d]),
              tm'.next = [tm.next EXCEPT ![d] = Incr(@)]
       PROVE  NextInWindow' /\ ChosenInv'
  <2> DEFINE n == tm.next[d]
             e == Expected(d)
             x == Dist(tm.start[d], n)
             y == Dist(tm.start[d], e)
             i == findPacketEntry(tm, d, n)
  <2>1. /\ tm.start[d] \in SeqNums /\ tm.end[d] \in SeqNums /\ n \in SeqNums /\ e \in SeqNums
        /\ Unacked(d) \in Nat /\ Unacked(d) < MaxSequenceNum
        /\ sent[d] \in Nat /\ Len(delivered[d]) \in Nat
    BY WindowTypes
  <2>2. x \in Nat /\ y \in Nat
    BY <2>1, DistType
  <2>3. x < Unacked(d) /\ InWindow(d, n)
    BY <1>10, FindsInWindow DEF Finds, AtWindowEnd, InWindow
  <2>4. y <= Unacked(d) /\ sent[d] - Unacked(d) + y = Len(delivered[d])
    BY DEF ReceiverInv
  <2>5. i \in Slots /\ Holds(i, d, n)
    BY <2>1, <2>3, QueuedFound
  <2>6. Unacked(d) <= MaxPacketEntries
    BY Capacity
  <2>7. NextInWindow'
    <3>1. Dist(tm.start[d], Incr(n)) = x + 1
      BY <2>1, <2>2, <2>3, DistIncr, TxManagerAssumption
    <3>2. tm.next \in [Peers -> SeqNums]
      BY DEF TypeOK, TxManagers
    <3>3. \A c \in Peers : Dist(tm.start[c], tm'.next[c]) <= Unacked(c)
      <4> SUFFICES ASSUME NEW c \in Peers PROVE Dist(tm.start[c], tm'.next[c]) <= Unacked(c)
        OBVIOUS
      <4>1. CASE c # d
        BY <1>10, <3>2, <4>1 DEF NextInWindow
      <4>2. CASE c = d
        BY <1>10, <2>1, <2>2, <2>3, <3>1, <3>2, <4>2
      <4> QED
        BY <4>1, <4>2
    <3> QED
      BY <1>3, <3>3 DEF NextInWindow, SameQueues, Unacked
  <2>8. CASE x < y
    <3>1. Dist(n, e) = y - x
      BY <2>1, <2>2, <2>8, DistSplit
    <3>2. Dist(n, e) \in 1 .. MaxPacketEntries
      BY <2>1, <2>2, <2>4, <2>6, <2>8, <3>1, TxManagerAssumption
    <3>3. ASSUME wire.dst = d, wire.seq = e
          PROVE  Dist(n, e) < MaxPacketEntries
      <4>1. wire # NoPacket
        BY <3>3, TxManagerAssumption DEF NoPacket
      <4>2. y < Unacked(d)
        BY <3>3, <4>1, WireIntact
      <4> QED
        BY <2>1, <2>2, <2>6, <3>1, <4>2, TxManagerAssumption
    <3>4. Owner(i) = d /\ tm.seq[i] = n
      BY <2>5 DEF Holds
    <3> HIDE DEF n, e, i
    <3>5. /\ Owner(nextTxPacket)' = d
          /\ tm'.seq[nextTxPacket'] = n
          /\ Expected(d)' = e
      BY <1>2, <1>3, <1>10, <3>4 DEF SameQueues, Owner, Expected, e, i, n
    <3>6. ChosenInv'
      BY <1>2, <3>2, <3>3, <3>5 DEF ChosenInv, Old
    <3> QED
      BY <2>7, <3>6
  <2>9. CASE x >= y
    <3>1. Dist(e, n) = x - y
      BY <2>1, <2>2, <2>9, DistSplit
    <3>2. New(d, n)
      BY <2>1, <2>2, <2>3, <2>4, <3>1 DEF New, Undelivered
    <3>3. Owner(i) = d /\ tm.seq[i] = n /\ Live(i)
      BY <2>5 DEF Holds
    <3> HIDE DEF n, e, i
    <3>4. /\ Owner(nextTxPacket)' = d
          /\ tm'.seq[nextTxPacket'] = n
          /\ Live(nextTxPacket)'
      BY <1>3, <1>10, <3>3 DEF SameQueues, Owner, Live, i, n
    <3>5. ChosenInv'
      BY <1>2, <3>2, <3>4 DEF ChosenInv, New, Expected, Undelivered
    <3> QED
      BY <2>7, <3>5
  <2> QED
    BY <2>2, <2>8, <2>9
<1> QED
  BY <1>1, <1>3, <1>4, <1>5, <1>6, <1>7, <1>8, <1>9, <1>10 DEF Chooses, ChoosesFrom

(***************************************************************************)
(* The application's calls                                                 *)
(***************************************************************************)

(* allocateTxPacket takes the first free entry, so that every entry before *)
(* it is live.                                                             *)
LEMMA AllocateStep ==
  ASSUME Inductive, AllocateTxPacket
  PROVE  Inductive'
<1> USE DEF Inductive
<1> DEFINE a == allocatePacketEntry(tm)
<1>1. TypeOK'
  BY TypeStep DEF Next
<1>2. UNCHANGED <<nextTxPacket, wire, rxSeqNum, ackWire, sent, delivered>>
  BY DEF AllocateTxPacket
<1>3. /\ tm \in TxManagers(Payloads, SeqNums) /\ FreeSlots(tm) # {}
      /\ tm.allocated = NoSlot
      /\ ~(IsMaster /\ QueueFull(tm.active))
  BY QueueNotFull DEF AllocateTxPacket, TypeOK
<1>4. a \in Slots /\ ~tm.inUse[a] /\ \A k \in Slots : k < a => tm.inUse[k]
  BY <1>3, FirstFree
<1>5. /\ tm'.inUse = [tm.inUse EXCEPT ![a] = TRUE]
      /\ tm'.data = [tm.data EXCEPT ![a] = Torn]
      /\ tm'.allocated = a
      /\ tm'.dst = tm.dst /\ tm'.seq = tm.seq
      /\ tm'.start = tm.start /\ tm'.end = tm.end /\ tm'.next = tm.next
      /\ tm'.active = tm.active /\ tm'.fault = tm.fault
  <2>1. tm' = allocateTxPacket(tm)
    BY DEF AllocateTxPacket
  <2> QED
    BY <1>3, <2>1, allocateEffect
<1> HIDE DEF a
<1>6. tm.inUse \in [Slots -> BOOLEAN] /\ tm.data \in [Slots -> Payloads]
  BY DEF TypeOK, TxManagers
<1>7. \A i \in Slots : /\ Live(i)' <=> Live(i)
                       /\ Owner(i)' = Owner(i)
                       /\ Live(i) => tm'.data[i] = tm.data[i]
  <2>1. \A i \in Slots : Live(i)' <=> Live(i)
    BY <1>3, <1>4, <1>5, <1>6, SlotsAreNat DEF Live
  <2> QED
    BY <1>4, <1>5, <1>6, <2>1 DEF Live, Owner
<1>8. /\ \A d : Unacked(d)' = Unacked(d)
      /\ \A d, n : Number(d, n)' = Number(d, n) /\ (InWindow(d, n)' <=> InWindow(d, n))
  BY <1>2, <1>5 DEF Unacked, Number, InWindow
<1>9. StoreInv'
  <2>1. AllocatedInUse'
    BY <1>4, <1>5, <1>6 DEF AllocatedInUse
  <2>2. LiveEntries'
    <3>1. \A i \in Slots : Live(i)' =>
            /\ Owner(i)' \in Peers
            /\ InWindow(Owner(i), tm.seq[i])
            /\ tm'.data[i] = Packet(Owner(i), Number(Owner(i), tm.seq[i]))
      BY <1>7 DEF StoreInv, LiveEntries
    <3>2. \A i, j \in Slots :
            Live(i)' /\ Live(j)' /\ Owner(i)' = Owner(j)' /\ tm'.seq[i] = tm'.seq[j] => i = j
      BY <1>5, <1>7 DEF StoreInv, LiveEntries
    <3> QED
      BY <1>2, <1>5, <1>7, <3>1, <3>2 DEF LiveEntries, Unacked, Number, InWindow
  <2>3. QueuedHaveEntries'
    <3>1. \A i \in Slots : \A d, n : Holds(i, d, n) => Holds(i, d, n)'
      BY <1>5, <1>7 DEF Holds
    <3> QED
      BY <1>8, <3>1 DEF StoreInv, QueuedHaveEntries
  <2>4. StaleEntriesBehind'
    BY <1>5, <1>7 DEF StoreInv, StaleEntriesBehind
  <2>5. FreedBeforeAllocated'
    <3>1. \A k \in Slots : k < a => Live(k)'
      BY <1>3, <1>4, <1>7, SlotsAreNat DEF Live
    <3> QED
      BY <1>5, <3>1 DEF FreedBeforeAllocated
  <2> QED
    BY <2>1, <2>2, <2>3, <2>4, <2>5 DEF StoreInv
<1>10. ActiveIffQueued' /\ NoAssertionFails'
  BY <1>5 DEF ActiveIffQueued, NoAssertionFails
<1>11. NextInWindow' /\ ReceiverInv' /\ AckInv'
  BY <1>2, <1>5 DEF NextInWindow, ReceiverInv, AckInv, AckPlace, Unacked, Expected
<1>12. \A d, n : (Old(d, n)' <=> Old(d, n)) /\ (New(d, n)' <=> New(d, n))
  BY <1>2 DEF Old, New, Expected, Undelivered
<1>13. WireInv'
  <2>1. \A i \in Slots : \A d, n : Holds(i, d, n)' <=> Holds(i, d, n)
    BY <1>5, <1>7 DEF Holds
  <2> QED
    BY <1>2, <1>12, <2>1 DEF WireInv
<1>14. ChosenInv'
  <2> SUFFICES ASSUME nextTxPacket # NoSlot PROVE ChosenInv'
    BY <1>2 DEF ChosenInv
  <2>1. nextTxPacket \in Slots
    BY DEF TypeOK
  <2>2. \A d \in Peers : Expected(d)' = Expected(d)
    BY <1>2 DEF Expected
  <2> QED
    BY <1>2, <1>5, <1>7, <1>12, <2>1, <2>2 DEF ChosenInv
<1> QED
  BY <1>1, <1>9, <1>10, <1>11, <1>13, <1>14

(* submitAllocatedTxPacket gives the allocated entry the number at the end *)
(* of the window, which no other entry of the destination has.             *)
LEMMA SubmitStep ==
  ASSUME Inductive, NEW d \in Peers, SubmitAllocatedTxPacket(d)
  PROVE  Inductive'
<1> USE DEF Inductive
<1> SUFFICES ASSUME NEW a, a = tm.allocated,
                    NEW s, s = tm.end[d],
                    NEW id, id = Packet(d, sent[d] + 1)
             PROVE  Inductive'
  OBVIOUS
<1>1. TypeOK'
  BY TypeStep DEF Next
<1>2. UNCHANGED <<nextTxPacket, wire, rxSeqNum, ackWire, delivered>>
  BY DEF SubmitAllocatedTxPacket
<1>3. /\ tm \in TxManagers(Payloads, SeqNums) /\ tm.allocated # NoSlot
      /\ ~(IsMaster /\ QueueFull(tm.active))
      /\ a \in Slots /\ tm.inUse[a]
  BY QueueNotFull DEF SubmitAllocatedTxPacket, TypeOK, TxManagers, StoreInv, AllocatedInUse
<1>4. id \in Payloads
  <2>1. sent[d] \in 0 .. MaxSent /\ sent[d] < MaxSent
    BY DEF TypeOK, SubmitAllocatedTxPacket
  <2>2. sent[d] + 1 \in 0 .. MaxSent
    BY <2>1, TxLinkAssumption
  <2> QED
    BY <2>2 DEF Packet, Payloads
<1>5. /\ tm'.inUse = tm.inUse
      /\ tm'.dst = IF IsMaster THEN [tm.dst EXCEPT ![a] = d] ELSE tm.dst
      /\ tm'.seq = [tm.seq EXCEPT ![a] = s]
      /\ tm'.data = [tm.data EXCEPT ![a] = id]
      /\ tm'.end = [tm.end EXCEPT ![d] = Incr(s)]
      /\ tm'.allocated = NoSlot
      /\ tm'.start = tm.start /\ tm'.next = tm.next /\ tm'.fault = tm.fault
      /\ tm'.active = IF IsMaster /\ s = tm.start[d]
                      THEN nodeQueueAdd(tm.active, d) ELSE tm.active
  BY <1>3, <1>4, submitEffect, SMTT(30) DEF SubmitAllocatedTxPacket
<1>6. /\ tm.dst \in [Slots -> Peers \cup {NoPeer}] /\ tm.seq \in [Slots -> SeqNums]
      /\ tm.data \in [Slots -> Payloads] /\ tm.end \in [Peers -> SeqNums]
  BY DEF TypeOK, TxManagers
<1>7. \A c \in Peers : /\ tm.start[c] \in SeqNums /\ tm.end[c] \in SeqNums
                       /\ tm.next[c] \in SeqNums /\ Expected(c) \in SeqNums
                       /\ Unacked(c) \in Nat /\ Unacked(c) < MaxSequenceNum
                       /\ sent[c] \in Nat /\ Len(delivered[c]) \in Nat
  BY WindowTypes
<1>8. Unacked(d) < MaxPacketEntries /\ Unacked(d) + 1 < MaxSequenceNum
  BY <1>3, <1>7, Capacity, TxManagerAssumption
<1>9. /\ sent'[d] = sent[d] + 1
      /\ \A c \in Peers : c # d => sent'[c] = sent[c]
  BY DEF SubmitAllocatedTxPacket, TypeOK
\* The entries
<1>10. /\ \A i \in Slots : i # a => /\ Live(i)' <=> Live(i)
                                    /\ Owner(i)' = Owner(i)
                                    /\ tm'.seq[i] = tm.seq[i]
                                    /\ tm'.data[i] = tm.data[i]
       /\ Live(a)' /\ ~Live(a)
       /\ Owner(a)' = d /\ tm'.seq[a] = s /\ tm'.data[a] = id
  <2>1. Owner(a)' = d
    BY <1>3, <1>5, <1>6, OnlyPeer DEF Owner
  <2>2. \A i \in Slots : i # a => /\ Owner(i)' = Owner(i)
                                  /\ tm'.seq[i] = tm.seq[i]
                                  /\ tm'.data[i] = tm.data[i]
    BY <1>3, <1>5, <1>6 DEF Owner
  <2>3. tm'.seq[a] = s /\ tm'.data[a] = id
    BY <1>3, <1>5, <1>6
  <2>4. \A i \in Slots : Live(i)' <=> tm.inUse[i]
    BY <1>5, SlotsAreNat DEF Live
  <2> QED
    BY <1>3, <2>1, <2>2, <2>3, <2>4 DEF Live
\* The window
<1>11. /\ Unacked(d)' = Unacked(d) + 1
       /\ \A c \in Peers : c # d => Unacked(c)' = Unacked(c)
  <2>1. Dist(tm.start[d], Incr(s)) = Dist(tm.start[d], s) + 1
    BY <1>7, <1>8, DistIncr DEF Unacked
  <2> QED
    BY <1>5, <1>6, <2>1 DEF Unacked
<1>12. ASSUME NEW n \in SeqNums
       PROVE  /\ InWindow(d, n)' <=> InWindow(d, n) \/ n = s
              /\ InWindow(d, n) => Number(d, n)' = Number(d, n)
              /\ ~InWindow(d, s)
              /\ Number(d, s)' = sent[d] + 1
  <2>1. InWindow(d, n)' <=> Dist(tm.start[d], n) < Unacked(d) + 1
    BY <1>5, <1>11 DEF InWindow
  <2>2. Dist(tm.start[d], n) = Unacked(d) <=> n = s
    BY <1>7, DistInjective DEF Unacked
  <2>3. Dist(tm.start[d], n) \in Nat
    BY <1>7, DistType
  <2>4. ~InWindow(d, s)
    BY <1>7 DEF InWindow, Unacked
  <2>5. ASSUME InWindow(d, n) PROVE Number(d, n)' = Number(d, n)
    <3>1. Dist(n, s) = Unacked(d) - Dist(tm.start[d], n)
      BY <1>7, <2>3, <2>5, DistSplit DEF InWindow, Unacked
    <3>2. Dist(n, Incr(s)) = Dist(n, s) + 1
      BY <1>7, <1>8, <2>3, <3>1, DistIncr, TxManagerAssumption
    <3>3. Dist(n, s) \in Nat
      BY <1>7, DistType
    <3> QED
      BY <1>5, <1>6, <1>7, <1>9, <3>2, <3>3 DEF Number
  <2>6. Number(d, s)' = sent[d] + 1
    <3>1. s \in SeqNums /\ Dist(s, s) = 0
      BY <1>7, DistType
    <3>2. Dist(s, Incr(s)) = 1
      BY <3>1, DistIncr, TxManagerAssumption
    <3> QED
      BY <1>5, <1>6, <1>7, <1>9, <3>2 DEF Number
  <2> QED
    BY <1>7, <2>1, <2>2, <2>3, <2>4, <2>5, <2>6 DEF InWindow
<1>13. \A c \in Peers : c # d => \A n \in SeqNums : /\ InWindow(c, n)' <=> InWindow(c, n)
                                                   /\ Number(c, n)' = Number(c, n)
  BY <1>5, <1>6, <1>9, <1>11 DEF InWindow, Number
<1>14. StoreInv'
  <2>1. AllocatedInUse' /\ FreedBeforeAllocated'
    BY <1>5 DEF AllocatedInUse, FreedBeforeAllocated
  <2>2. ASSUME NEW i \in Slots, Live(i)', i # a
        PROVE  /\ Owner(i)' \in Peers
               /\ InWindow(Owner(i), tm.seq[i])'
               /\ tm'.data[i] = Packet(Owner(i), Number(Owner(i), tm.seq[i]))'
    <3>1. /\ Live(i) /\ Owner(i) \in Peers /\ InWindow(Owner(i), tm.seq[i])
          /\ tm.data[i] = Packet(Owner(i), Number(Owner(i), tm.seq[i]))
          /\ tm.seq[i] \in SeqNums
      BY <1>6, <1>10, <2>2 DEF StoreInv, LiveEntries
    <3> SUFFICES ASSUME NEW c \in Peers, c = Owner(i), NEW n \in SeqNums, n = tm.seq[i]
                 PROVE  InWindow(c, n)' /\ Number(c, n)' = Number(c, n)
      BY <1>10, <2>2, <3>1 DEF InWindow, Number, Unacked, Packet
    <3> QED
      BY <1>12, <1>13, <3>1
  <2>3. /\ Owner(a)' \in Peers
        /\ InWindow(Owner(a), tm.seq[a])'
        /\ tm'.data[a] = Packet(Owner(a), Number(Owner(a), tm.seq[a]))'
    <3>1. InWindow(d, s)' /\ Number(d, s)' = sent[d] + 1
      BY <1>7, <1>12
    <3> QED
      BY <1>10, <3>1 DEF InWindow, Number, Unacked, Packet
  <2>4. ASSUME NEW i \in Slots, NEW j \in Slots, Live(i)', Live(j)',
               Owner(i)' = Owner(j)', tm'.seq[i] = tm'.seq[j]
        PROVE  i = j
    <3>1. CASE i # a /\ j # a
      BY <1>10, <2>4, <3>1 DEF StoreInv, LiveEntries
    <3>2. ASSUME NEW k \in Slots, k # a, Live(k), Owner(k) = d, tm.seq[k] = s PROVE FALSE
      BY <1>7, <1>12, <3>2 DEF StoreInv, LiveEntries
    <3> QED
      BY <1>10, <2>4, <3>1, <3>2
  <2>5. LiveEntries'
    BY <2>2, <2>3, <2>4 DEF LiveEntries
  <2>6. QueuedHaveEntries'
    <3>1. ASSUME NEW c \in Peers, NEW n \in SeqNums, InWindow(c, n)'
          PROVE  \E i \in Slots : Holds(i, c, n)'
      <4>1. CASE c = d /\ n = s
        BY <1>3, <1>10, <4>1 DEF Holds
      <4>2. CASE InWindow(c, n)
        <5>1. PICK i \in Slots : Holds(i, c, n)
          BY <4>2 DEF StoreInv, QueuedHaveEntries
        <5>2. Holds(i, c, n)'
          BY <1>10, <5>1 DEF Holds
        <5> QED
          BY <5>2
      <4> QED
        BY <1>12, <1>13, <3>1, <4>1, <4>2
    <3> QED
      BY <3>1 DEF QueuedHaveEntries
  <2>7. StaleEntriesBehind'
    <3>1. ASSUME NEW k \in Slots, NEW j \in Slots, k < j, ~Live(k)', Live(j)'
          PROVE  ~(Owner(k)' = Owner(j)' /\ tm'.seq[k] = tm'.seq[j])
      <4>1. k # a /\ ~Live(k) /\ Owner(k)' = Owner(k) /\ tm'.seq[k] = tm.seq[k]
        BY <1>10, <3>1
      <4>2. CASE j # a
        BY <1>10, <3>1, <4>1, <4>2 DEF StoreInv, StaleEntriesBehind
      <4>3. CASE j = a
        BY <1>3, <1>10, <3>1, <4>1, <4>3 DEF StoreInv, FreedBeforeAllocated
      <4> QED
        BY <4>2, <4>3
    <3> QED
      BY <3>1 DEF StaleEntriesBehind
  <2> QED
    BY <2>1, <2>5, <2>6, <2>7 DEF StoreInv
<1>15. ActiveIffQueued'
  <2> SUFFICES ASSUME IsMaster PROVE ActiveIffQueued'
    BY DEF ActiveIffQueued
  <2> DEFINE ids == tm.active.nodeIds
  <2>1. ids \in Seq(Peers)
    BY DEF TypeOK, TxManagers
  <2>2. /\ \A c \in Peers : Contains(ids, c) <=> tm.start[c] # tm.end[c]
        /\ \A j, k \in 1 .. Len(ids) : ids[j] = ids[k] => j = k
    BY DEF ActiveIffQueued, numNodes
  <2>3. /\ tm.start[d] # tm'.end[d]
        /\ \A c \in Peers : c # d => tm'.end[c] = tm.end[c]
    <3>1. Dist(tm.start[d], Incr(s)) # 0
      BY <1>5, <1>6, <1>7, <1>11 DEF Unacked
    <3> QED
      BY <1>5, <1>6, <1>7, <3>1, DistType, IncrType
  <2>4. CASE s # tm.start[d]
    BY <1>5, <2>2, <2>3, <2>4 DEF ActiveIffQueued, numNodes
  <2>5. CASE s = tm.start[d]
    <3>1. ~Contains(ids, d)
      BY <2>2, <2>5
    <3>2. tm'.active.nodeIds = Append(ids, d)
      BY <1>3, <1>5, <2>5, <3>1 DEF nodeQueueAdd, TxManagers
    <3>3. /\ \A c : Contains(Append(ids, d), c) <=> Contains(ids, c) \/ c = d
          /\ \A j, k \in 1 .. Len(Append(ids, d)) :
               Append(ids, d)[j] = Append(ids, d)[k] => j = k
      BY <2>1, <2>2, <3>1, AppendDistinct, SMTT(30)
    <3>4. tm'.start = tm.start
      BY <1>5
    <3>5. \A c \in Peers : Contains(tm'.active.nodeIds, c) <=> tm'.start[c] # tm'.end[c]
      BY <2>2, <2>3, <3>2, <3>3, <3>4
    <3>6. \A j, k \in 1 .. Len(tm'.active.nodeIds) :
            tm'.active.nodeIds[j] = tm'.active.nodeIds[k] => j = k
      BY <3>2, <3>3, Zenon
    <3> QED
      BY <3>5, <3>6, Zenon DEF ActiveIffQueued, numNodes
  <2> QED
    BY <2>4, <2>5
<1>16. NoAssertionFails'
  BY <1>5 DEF NoAssertionFails
<1>17. \A c \in Peers : /\ Unacked(c)' \in Nat /\ Unacked(c) <= Unacked(c)'
                        /\ sent'[c] - Unacked(c)' = sent[c] - Unacked(c)
                        /\ Undelivered(c) <= Undelivered(c)'
  BY <1>2, <1>7, <1>9, <1>11 DEF Undelivered
<1>18. NextInWindow' /\ ReceiverInv'
  <2>1. \A c \in Peers : /\ Dist(tm.start[c], tm.next[c]) \in Nat
                         /\ Dist(tm.start[c], Expected(c)) \in Nat
    BY <1>7, DistType
  <2>2. \A c \in Peers : /\ Dist(tm.start[c], tm.next[c]) <= Unacked(c)'
                         /\ Dist(tm.start[c], Expected(c)) <= Unacked(c)'
                         /\ sent'[c] - Unacked(c)' + Dist(tm.start[c], Expected(c))
                              = Len(delivered[c])
    BY <1>7, <1>17, <2>1 DEF NextInWindow, ReceiverInv
  <2> QED
    BY <1>2, <1>5, <2>2 DEF NextInWindow, ReceiverInv, Expected
<1>19. AckInv'
  BY <1>2, <1>5 DEF AckInv, AckPlace
<1>20. ASSUME NEW c \in Peers, NEW n \in SeqNums
       PROVE  (Old(c, n)' <=> Old(c, n)) /\ (New(c, n) => New(c, n)')
  <2>1. Expected(c)' = Expected(c)
    BY <1>2 DEF Expected
  <2>2. Dist(Expected(c), n) \in Nat
    BY <1>7, DistType
  <2>3. sent[c] \in Nat /\ sent'[c] \in Nat /\ Len(delivered[c]) \in Nat
    BY <1>7, <1>9
  <2>4. Undelivered(c) \in Int /\ Undelivered(c)' \in Int
    BY <1>2, <2>3 DEF Undelivered
  <2> QED
    BY <1>17, <2>1, <2>2, <2>4 DEF Old, New
<1>21. WireInv'
  <2>1. \A i \in Slots : \A c, n : Holds(i, c, n) => Holds(i, c, n)'
    BY <1>10 DEF Holds
  <2>2. wire # NoPacket => wire.seq \in SeqNums
    BY DEF TypeOK
  <2> QED
    BY <1>2, <1>20, <2>1, <2>2 DEF WireInv
<1>22. ChosenInv'
  <2> SUFFICES ASSUME nextTxPacket # NoSlot PROVE ChosenInv'
    BY <1>2 DEF ChosenInv
  <2>1. nextTxPacket \in Slots
    BY DEF TypeOK
  <2>2. CASE nextTxPacket # a
    <3> SUFFICES ASSUME NEW c, c = Owner(nextTxPacket), NEW n, n = tm.seq[nextTxPacket]
                 PROVE  /\ c \in Peers
                        /\ \/ /\ Old(c, n)'
                              /\ wire.dst = c /\ wire.seq = Expected(c)'
                                   => Dist(n, Expected(c)') < MaxPacketEntries
                           \/ New(c, n)' /\ Live(nextTxPacket)
      BY <1>2, <1>10, <2>1, <2>2 DEF ChosenInv, Old, New
    <3>1. c \in Peers /\ n \in SeqNums /\ Expected(c)' = Expected(c)
      BY <1>2, <1>6, <2>1 DEF ChosenInv, Expected
    <3> QED
      BY <1>20, <3>1 DEF ChosenInv
  <2>3. CASE nextTxPacket = a
    <3>1. Dist(Expected(d), s) = Unacked(d) - Dist(tm.start[d], Expected(d))
      BY <1>7, DistSplit DEF ReceiverInv, Unacked
    <3>2. Dist(tm.start[d], Expected(d)) \in Nat
      BY <1>7, DistType
    <3>3. sent[d] - Unacked(d) + Dist(tm.start[d], Expected(d)) = Len(delivered[d])
      BY DEF ReceiverInv
    <3>4. Dist(Expected(d), s) < sent'[d] - Len(delivered[d])
      BY <1>7, <1>9, <3>1, <3>2, <3>3
    <3>5. Dist(Expected(d)', s) < Undelivered(d)'
      BY <1>2, <3>4 DEF Expected, Undelivered
    <3> QED
      BY <1>2, <1>10, <2>3, <3>5 DEF ChosenInv, New, Expected, Undelivered
  <2> QED
    BY <2>2, <2>3
<1> QED
  BY <1>1, <1>14, <1>15, <1>16, <1>18, <1>19, <1>21, <1>22

(***************************************************************************)
(* Acknowledgements                                                        *)
(***************************************************************************)

(* How many packets a valid ack moves the window over, and what it frees. *)
Passed(p, ack) == Dist(tm.start[p], Incr(ack))
Freed(p, ack) == {findPacketEntry(tm, p, n) : n \in Acked(tm, p, Incr(ack))}

(* A valid ack moves the window to p over the packets that p has accepted, *)
(* at least one: their entries are found and freed, no other entry is, and *)
(* every place in the window counts from the new start.                    *)
LEMMA AckedFacts ==
  ASSUME Inductive, NEW p \in Peers, NEW ack \in SeqNums,
         validSeqNum(tm, p, ack), AckPlace(p, ack) <= AckPlace(p, rxSeqNum[p]),
         NEW A, A = Passed(p, ack), NEW freed, freed = Freed(p, ack)
  PROVE  /\ A \in Nat \ {0}
         /\ A <= Dist(tm.start[p], Expected(p)) /\ A <= Unacked(p)
         /\ \A n \in Acked(tm, p, Incr(ack)) : Matching(tm, p, n) # {}
         /\ \A i \in Slots :
              i \in freed <=> Live(i) /\ Owner(i) = p /\ Dist(tm.start[p], tm.seq[i]) < A
         /\ \A n \in SeqNums :
              /\ A <= Dist(tm.start[p], n) => Dist(Incr(ack), n) = Dist(tm.start[p], n) - A
              /\ Dist(Incr(ack), n) < Unacked(p) - A
                   <=> A <= Dist(tm.start[p], n) /\ InWindow(p, n)
              /\ New(p, n) => A <= Dist(tm.start[p], n)
<1> USE DEF Inductive, Passed, Freed
<1> DEFINE start == tm.start[p]
           e == Expected(p)
           U == Unacked(p)
<1>1. /\ start \in SeqNums /\ tm.end[p] \in SeqNums /\ e \in SeqNums /\ Incr(ack) \in SeqNums
      /\ U \in Nat /\ U < MaxSequenceNum
      /\ sent[p] \in Nat /\ Len(delivered[p]) \in Nat
  BY WindowTypes, IncrType
<1>2. \A n \in SeqNums : Dist(start, n) \in Nat /\ Dist(start, n) < MaxSequenceNum
  BY <1>1, DistType
<1>3. Dist(start, ack) < U
  BY validSeqNumIsDist DEF TypeOK, Unacked
<1>4. A = Dist(start, ack) + 1 /\ A \in Nat \ {0} /\ A <= U
  BY <1>1, <1>2, <1>3, DistIncr, TxManagerAssumption
<1>5. A <= Dist(start, e)
  <2>1. ack # NullSequenceNum
    BY SeqNumsOrNull
  <2> QED
    BY <2>1 DEF AckPlace, Expected, expectedSeqNum
<1>6. Dist(start, e) <= U /\ sent[p] - U + Dist(start, e) = Len(delivered[p])
  BY DEF ReceiverInv
<1> HIDE DEF start, e, U
<1>7. \A n \in Acked(tm, p, Incr(ack)) : n \in SeqNums /\ Dist(start, n) < A /\ InWindow(p, n)
  BY <1>1, <1>2, <1>4 DEF Acked, InWindow, start, U
<1>8. \A n \in Acked(tm, p, Incr(ack)) : /\ Matching(tm, p, n) # {}
                                         /\ findPacketEntry(tm, p, n) \in Slots
                                         /\ Holds(findPacketEntry(tm, p, n), p, n)
  BY <1>7, QueuedFound
<1>9. ASSUME NEW i \in Slots
      PROVE  i \in freed <=> Live(i) /\ Owner(i) = p /\ Dist(start, tm.seq[i]) < A
  <2>1. ASSUME i \in freed PROVE Live(i) /\ Owner(i) = p /\ Dist(start, tm.seq[i]) < A
    BY <1>7, <1>8, <2>1 DEF Holds
  <2>2. ASSUME Live(i), Owner(i) = p, Dist(start, tm.seq[i]) < A PROVE i \in freed
    <3>1. tm.seq[i] \in SeqNums
      BY DEF TypeOK, TxManagers
    <3>2. tm.seq[i] \in Acked(tm, p, Incr(ack))
      BY <2>2, <3>1 DEF Acked, start
    <3>3. findPacketEntry(tm, p, tm.seq[i]) = i
      BY <1>8, <2>2, <3>2 DEF Holds, StoreInv, LiveEntries
    <3> QED
      BY <3>2, <3>3
  <2> QED
    BY <2>1, <2>2
<1>10. ASSUME NEW n \in SeqNums
       PROVE  /\ A <= Dist(start, n) => Dist(Incr(ack), n) = Dist(start, n) - A
              /\ Dist(Incr(ack), n) < U - A <=> A <= Dist(start, n) /\ Dist(start, n) < U
              /\ New(p, n) => A <= Dist(start, n)
  <2>1. /\ A <= Dist(start, n) => Dist(Incr(ack), n) = Dist(start, n) - A
        /\ A > Dist(start, n) => Dist(Incr(ack), n) = Dist(start, n) - A + MaxSequenceNum
    BY <1>1, DistSplit DEF start
  <2>2. ASSUME New(p, n) PROVE A <= Dist(start, n)
    <3>1. Dist(e, n) < U - Dist(start, e)
      BY <1>1, <1>2, <1>6, <2>2 DEF New, Undelivered, e
    <3>2. Dist(start, e) > Dist(start, n) => Dist(e, n) = Dist(start, n) - Dist(start, e) + MaxSequenceNum
      BY <1>1, DistSplit
    <3>3. ~(Dist(start, e) > Dist(start, n))
      BY <1>1, <1>2, <3>1, <3>2, TxManagerAssumption
    <3> QED
      BY <1>1, <1>2, <1>4, <1>5, <3>3
  <2>3. Dist(Incr(ack), n) < U - A <=> A <= Dist(start, n) /\ Dist(start, n) < U
    <3>1. /\ Dist(start, n) \in Nat /\ U \in Nat /\ U < MaxSequenceNum /\ MaxSequenceNum \in Nat
          /\ A \in Nat
      BY <1>1, <1>2, <1>4, TxManagerAssumption
    <3>2. CASE A <= Dist(start, n)
      BY <2>1, <3>1, <3>2
    <3>3. CASE A > Dist(start, n)
      BY <2>1, <3>1, <3>3
    <3> QED
      BY <3>1, <3>2, <3>3
  <2> QED
    BY <2>1, <2>2, <2>3
<1> QED
  BY <1>1, <1>4, <1>5, <1>8, <1>9, <1>10 DEF InWindow, start, e, U

(* What a valid ack changes: the entries in use, the start and next of the *)
(* window, and the queue of active destinations; nodeQueueRemove finds the *)
(* destination.                                                            *)
LEMMA AcknowledgeEffect ==
  ASSUME Inductive, NEW p \in Peers, NEW ack \in SeqNums,
         validSeqNum(tm, p, ack), AckPlace(p, ack) <= AckPlace(p, rxSeqNum[p])
  PROVE  LET u == Acknowledge(tm, p, ack)
         IN  /\ \A i \in Slots : u.inUse[i] <=> tm.inUse[i] /\ i \notin Freed(p, ack)
             /\ u.dst = tm.dst /\ u.seq = tm.seq /\ u.data = tm.data
             /\ u.allocated = tm.allocated /\ u.end = tm.end
             /\ u.start = [tm.start EXCEPT ![p] = Incr(ack)]
             /\ u.next = [tm.next EXCEPT ![p] = NextAfterAck(tm, p, Incr(ack))]
             /\ u.fault = tm.fault
             /\ u.active = IF IsMaster /\ Incr(ack) = tm.end[p]
                           THEN nodeQueueRemoveIfExists(tm.active, p) ELSE tm.active
<1> DEFINE m == Moved(tm, p, ack)
<1>1. tm \in TxManagers(Payloads, SeqNums)
  BY DEF Inductive, TypeOK
<1>2. /\ m \in TxManagers(Payloads, SeqNums)
      /\ \A i \in Slots : m.inUse[i] <=> tm.inUse[i] /\ i \notin Freed(p, ack)
      /\ m.dst = tm.dst /\ m.seq = tm.seq /\ m.data = tm.data
      /\ m.allocated = tm.allocated /\ m.end = tm.end
      /\ m.start = [tm.start EXCEPT ![p] = Incr(ack)]
      /\ m.next = [tm.next EXCEPT ![p] = NextAfterAck(tm, p, Incr(ack))]
      /\ m.active = tm.active /\ m.fault = tm.fault
  BY <1>1, MovedFacts DEF Freed
<1>3. \A n \in Acked(tm, p, Incr(ack)) : Matching(tm, p, n) # {}
  <2> SUFFICES ASSUME NEW A, A = Passed(p, ack), NEW F, F = Freed(p, ack)
               PROVE  \A n \in Acked(tm, p, Incr(ack)) : Matching(tm, p, n) # {}
    OBVIOUS
  <2> QED
    BY AckedFacts
<1>4. Acknowledge(tm, p, ack) = DeactivateIfEmpty(m, p)
  BY <1>3, AcknowledgeIsMoved
<1>5. m.start[p] = Incr(ack)
  BY <1>1, <1>2 DEF TxManagers
<1>6. IsMaster => Contains(tm.active.nodeIds, p)
  <2>1. tm.start[p] \in SeqNums /\ tm.end[p] \in SeqNums
    BY WindowTypes DEF Inductive
  <2>2. Dist(tm.start[p], ack) < Dist(tm.start[p], tm.end[p])
    BY <1>1, validSeqNumIsDist
  <2>3. tm.start[p] # tm.end[p]
    BY <2>1, <2>2, DistType
  <2> QED
    BY <2>3 DEF Inductive, ActiveIffQueued
<1> HIDE DEF m
<1>7. CASE ~IsMaster \/ Incr(ack) # tm.end[p]
  <2>1. Acknowledge(tm, p, ack) = m
    BY <1>2, <1>4, <1>5, <1>7 DEF DeactivateIfEmpty
  <2> QED
    BY <1>2, <1>7, <2>1
<1>8. CASE IsMaster /\ Incr(ack) = tm.end[p]
  <2>1. Acknowledge(tm, p, ack) = [m EXCEPT !.active = nodeQueueRemoveIfExists(@, p)]
    BY <1>2, <1>4, <1>5, <1>6, <1>8 DEF DeactivateIfEmpty
  <2> QED
    BY <1>2, <1>8, <2>1 DEF TxManagers
<1> QED
  BY <1>7, <1>8

(* An ack that is not of a queued packet at most restarts the window. *)
LEMMA CountDownStep ==
  ASSUME Inductive, NEW p \in Peers, RxAck(p), tm' = CountDown(tm, p)
  PROVE  Inductive'
<1> USE DEF Inductive
<1>1. TypeOK'
  BY TypeStep DEF Next
<1>2. UNCHANGED <<nextTxPacket, wire, rxSeqNum, sent, delivered>>
  BY DEF RxAck
<1>3. /\ SameQueues(tm, tm') /\ tm'.fault = tm.fault
      /\ tm'.next = tm.next \/ tm'.next = [tm.next EXCEPT ![p] = tm.start[p]]
  <2>1. tm \in TxManagers(Payloads, SeqNums)
    BY DEF TypeOK
  <2> QED
    BY <2>1, CountDownFacts
<1>4. StoreInv' /\ ActiveIffQueued' /\ ReceiverInv' /\ NoAssertionFails'
  BY <1>2, <1>3, SameStore, SameWindows DEF NoAssertionFails
<1>5. NextInWindow'
  <2>1. ASSUME NEW d \in Peers PROVE Dist(tm.start[d], tm'.next[d]) <= Unacked(d)
    <3>1. tm.start[d] \in SeqNums /\ Unacked(d) \in Nat
      BY WindowTypes
    <3>2. Dist(tm.start[d], tm.start[d]) = 0
      BY <3>1, DistType
    <3>3. tm.next \in [Peers -> SeqNums]
      BY DEF TypeOK, TxManagers
    <3>4. tm'.next[d] = tm.next[d] \/ tm'.next[d] = tm.start[d]
      BY <1>3, <3>3
    <3> QED
      BY <3>1, <3>2, <3>4 DEF NextInWindow
  <2> QED
    BY <1>3, <2>1 DEF NextInWindow, SameQueues, Unacked
<1>6. AckInv'
  <2>1. ASSUME NEW d \in Peers PROVE AckOrder(d)'
    <3>1. ackWire[d] \in Seq(0 .. NullSequenceNum)
      BY DEF TypeOK
    <3>2. ackWire'[d] = ackWire[d] \/ (ackWire[d] # << >> /\ ackWire'[d] = Tail(ackWire[d]))
      BY DEF RxAck, TypeOK
    <3>3. AckOrder(d)
      BY DEF AckInv, AckOrder
    <3>4. tm'.start = tm.start
      BY <1>3 DEF SameQueues
    <3>5. CASE ackWire'[d] = ackWire[d]
      BY <1>2, <3>3, <3>4, <3>5 DEF AckOrder, AckPlace
    <3>6. CASE ackWire[d] # << >> /\ ackWire'[d] = Tail(ackWire[d])
      BY <1>2, <3>1, <3>3, <3>4, <3>6, TailAckOrder DEF AckOrder, AckPlace
    <3> QED
      BY <3>2, <3>5, <3>6
  <2> QED
    BY <2>1 DEF AckInv, AckOrder
<1>7. WireInv'
  BY <1>2, <1>3, SameWindows DEF WireInv
<1>8. ChosenInv'
  BY <1>2, <1>3 DEF ChosenInv, SameQueues, Owner, Live, Old, New, Expected, Undelivered
<1> QED
  BY <1>1, <1>4, <1>5, <1>6, <1>7, <1>8

(* A valid ack frees only packets that the peer has accepted, so neither a *)
(* packet that is still to be delivered nor the one being written.         *)
LEMMA AcknowledgeStep ==
  ASSUME Inductive, NEW p \in Peers, RxAck(p),
         NEW ack \in SeqNums, ack = Head(ackWire[p]),
         validSeqNum(tm, p, ack), tm' = Acknowledge(tm, p, ack)
  PROVE  Inductive'
<1> USE DEF Inductive
<1> SUFFICES ASSUME NEW A, A = Passed(p, ack), NEW freed, freed = Freed(p, ack)
             PROVE  Inductive'
  OBVIOUS
<1>1. TypeOK'
  BY TypeStep DEF Next
<1>2. /\ UNCHANGED <<nextTxPacket, wire, rxSeqNum, sent, delivered>>
      /\ ackWire[p] # << >>
      /\ ackWire' = [ackWire EXCEPT ![p] = Tail(@)]
  BY DEF RxAck
<1>3. ackWire \in [Peers -> Seq(0 .. NullSequenceNum)]
  BY DEF TypeOK
<1>4. AckPlace(p, ack) <= AckPlace(p, rxSeqNum[p])
  <2>1. Head(ackWire[p]) = ackWire[p][1] /\ 1 \in 1 .. Len(ackWire[p])
    BY <1>2, <1>3
  <2> QED
    BY <2>1 DEF AckInv
<1>5. /\ \A i \in Slots : tm'.inUse[i] <=> tm.inUse[i] /\ i \notin freed
      /\ tm'.dst = tm.dst /\ tm'.seq = tm.seq /\ tm'.data = tm.data
      /\ tm'.allocated = tm.allocated /\ tm'.end = tm.end
      /\ tm'.start = [tm.start EXCEPT ![p] = Incr(ack)]
      /\ tm'.next = [tm.next EXCEPT ![p] = NextAfterAck(tm, p, Incr(ack))]
      /\ tm'.fault = tm.fault
      /\ tm'.active = IF IsMaster /\ Incr(ack) = tm.end[p]
                      THEN nodeQueueRemoveIfExists(tm.active, p) ELSE tm.active
  BY <1>4, AcknowledgeEffect
<1>6. /\ A \in Nat \ {0}
      /\ A <= Dist(tm.start[p], Expected(p)) /\ A <= Unacked(p)
      /\ \A i \in Slots :
           i \in freed <=> Live(i) /\ Owner(i) = p /\ Dist(tm.start[p], tm.seq[i]) < A
      /\ \A n \in SeqNums :
           /\ A <= Dist(tm.start[p], n) => Dist(Incr(ack), n) = Dist(tm.start[p], n) - A
           /\ Dist(Incr(ack), n) < Unacked(p) - A
                <=> A <= Dist(tm.start[p], n) /\ InWindow(p, n)
           /\ New(p, n) => A <= Dist(tm.start[p], n)
  <2> HIDE DEF Inductive
  <2> QED
    BY <1>4, AckedFacts
<1>7. \A d \in Peers : /\ tm.start[d] \in SeqNums /\ tm.end[d] \in SeqNums
                       /\ tm.next[d] \in SeqNums /\ Expected(d) \in SeqNums
                       /\ Unacked(d) \in Nat /\ Unacked(d) < MaxSequenceNum
                       /\ sent[d] \in Nat /\ Len(delivered[d]) \in Nat
  BY WindowTypes
<1>8. /\ tm.start \in [Peers -> SeqNums] /\ tm.next \in [Peers -> SeqNums]
      /\ tm.seq \in [Slots -> SeqNums]
  BY DEF TypeOK, TxManagers
<1>9. \A d \in Peers : \A n \in SeqNums : Dist(tm.start[d], n) \in Nat
  BY <1>7, DistType
<1>10. /\ tm'.start[p] = Incr(ack)
       /\ \A d \in Peers : d # p => tm'.start[d] = tm.start[d]
  BY <1>5, <1>8
\* The entries and the window
<1>11. \A i \in Slots : /\ Owner(i)' = Owner(i)
                        /\ Live(i)' => Live(i)
                        /\ Live(i) => (Live(i)' <=> i \notin freed)
  BY <1>5 DEF Owner, Live
<1>12. /\ Unacked(p)' = Unacked(p) - A
       /\ \A d \in Peers : d # p => Unacked(d)' = Unacked(d)
  <2>1. A <= Dist(tm.start[p], tm.end[p])
    BY <1>6 DEF Unacked
  <2>2. Dist(Incr(ack), tm.end[p]) = Dist(tm.start[p], tm.end[p]) - A
    BY <1>6, <1>7, <2>1
  <2> QED
    BY <1>5, <1>10, <2>2 DEF Unacked
<1>13. \A d \in Peers : \A n \in SeqNums :
         /\ Number(d, n)' = Number(d, n)
         /\ InWindow(d, n)' <=> InWindow(d, n) /\ (d = p => A <= Dist(tm.start[p], n))
  <2>1. \A n \in SeqNums : InWindow(p, n)' <=> A <= Dist(tm.start[p], n) /\ InWindow(p, n)
    BY <1>6, <1>10, <1>12 DEF InWindow
  <2>2. \A d \in Peers : d # p => \A n \in SeqNums : InWindow(d, n)' <=> InWindow(d, n)
    BY <1>10, <1>12 DEF InWindow
  <2>3. \A d \in Peers : \A n \in SeqNums : Number(d, n)' = Number(d, n)
    BY <1>2, <1>5 DEF Number
  <2> QED
    BY <2>1, <2>2, <2>3
<1>14. StoreInv'
  <2>1. AllocatedInUse'
    <3>1. tm.allocated # NoSlot => tm.allocated \in Slots
      BY DEF TypeOK, TxManagers
    <3>2. tm.allocated # NoSlot => tm.allocated \notin freed
      BY <1>6, <3>1 DEF Live
    <3> QED
      BY <1>5, <3>1, <3>2 DEF AllocatedInUse, StoreInv
  <2>2. ASSUME NEW i \in Slots, Live(i)'
        PROVE  /\ Owner(i)' \in Peers
               /\ InWindow(Owner(i), tm.seq[i])'
               /\ tm'.data[i] = Packet(Owner(i), Number(Owner(i), tm.seq[i]))'
    <3>1. /\ Live(i) /\ Owner(i) \in Peers /\ InWindow(Owner(i), tm.seq[i])
          /\ tm.data[i] = Packet(Owner(i), Number(Owner(i), tm.seq[i]))
          /\ tm.seq[i] \in SeqNums
      BY <1>8, <1>11, <2>2 DEF StoreInv, LiveEntries
    <3>2. Owner(i) = p => A <= Dist(tm.start[p], tm.seq[i])
      <4>1. i \notin freed
        BY <1>11, <2>2, <3>1
      <4> QED
        BY <1>6, <1>9, <3>1, <4>1
    <3> SUFFICES ASSUME NEW c \in Peers, c = Owner(i), NEW n \in SeqNums, n = tm.seq[i]
                 PROVE  InWindow(c, n)' /\ Number(c, n)' = Number(c, n)
      BY <1>5, <1>11, <3>1 DEF InWindow, Number, Unacked, Packet
    <3> QED
      BY <1>13, <3>1, <3>2
  <2>3. \A i, j \in Slots :
          Live(i)' /\ Live(j)' /\ Owner(i)' = Owner(j)' /\ tm'.seq[i] = tm'.seq[j] => i = j
    BY <1>5, <1>11 DEF StoreInv, LiveEntries
  <2>4. LiveEntries'
    BY <2>2, <2>3 DEF LiveEntries
  <2>5. QueuedHaveEntries'
    <3>1. ASSUME NEW d \in Peers, NEW n \in SeqNums, InWindow(d, n)'
          PROVE  \E i \in Slots : Holds(i, d, n)'
      <4>1. InWindow(d, n) /\ (d = p => A <= Dist(tm.start[p], n))
        BY <1>13, <3>1
      <4>2. PICK i \in Slots : Holds(i, d, n)
        BY <4>1 DEF StoreInv, QueuedHaveEntries
      <4>3. i \notin freed
        BY <1>6, <1>9, <4>1, <4>2 DEF Holds
      <4>4. Holds(i, d, n)'
        BY <1>5, <1>11, <4>2, <4>3 DEF Holds
      <4> QED
        BY <4>4
    <3> QED
      BY <3>1 DEF QueuedHaveEntries
  <2>6. StaleEntriesBehind'
    <3>1. ASSUME NEW k \in Slots, NEW j \in Slots, k < j, ~Live(k)', Live(j)'
          PROVE  ~(Owner(k)' = Owner(j)' /\ tm'.seq[k] = tm'.seq[j])
      <4>1. Live(j) /\ k # j
        BY <1>11, <3>1, SlotsAreNat
      <4>2. CASE Live(k)
        BY <1>5, <1>11, <4>1, <4>2 DEF StoreInv, LiveEntries
      <4>3. CASE ~Live(k)
        BY <1>5, <1>11, <3>1, <4>1, <4>3 DEF StoreInv, StaleEntriesBehind
      <4> QED
        BY <4>2, <4>3
    <3> QED
      BY <3>1 DEF StaleEntriesBehind
  <2>7. FreedBeforeAllocated'
    <3>1. ASSUME tm.allocated # NoSlot, NEW k \in Slots, k < tm.allocated, ~Live(k)'
          PROVE  Owner(k) \in Peers /\ tm.seq[k] # tm.end[Owner(k)]
      <4>1. CASE Live(k)
        <5>1. Owner(k) \in Peers /\ InWindow(Owner(k), tm.seq[k])
          BY <4>1 DEF StoreInv, LiveEntries
        <5>2. ~InWindow(Owner(k), tm.end[Owner(k)])
          BY <1>7, <5>1 DEF InWindow, Unacked
        <5> QED
          BY <5>1, <5>2
      <4>2. CASE ~Live(k)
        BY <3>1, <4>2 DEF StoreInv, FreedBeforeAllocated
      <4> QED
        BY <4>1, <4>2
    <3> QED
      BY <1>5, <1>11, <3>1 DEF FreedBeforeAllocated
  <2> QED
    BY <2>1, <2>4, <2>5, <2>6, <2>7 DEF StoreInv
<1>15. NoAssertionFails'
  BY <1>5 DEF NoAssertionFails
<1>16. ActiveIffQueued'
  <2> SUFFICES ASSUME IsMaster PROVE ActiveIffQueued'
    BY DEF ActiveIffQueued
  <2>1. /\ \A d \in Peers : Contains(tm.active.nodeIds, d) <=> tm.start[d] # tm.end[d]
        /\ \A j, k \in 1 .. numNodes(tm.active) :
             tm.active.nodeIds[j] = tm.active.nodeIds[k] => j = k
    BY DEF ActiveIffQueued
  <2>2. tm.start[p] # tm.end[p]
    BY <1>6, <1>7, DistType DEF Unacked
  <2>3. CASE Incr(ack) # tm.end[p]
    BY <1>5, <1>10, <2>1, <2>2, <2>3, SMTT(30) DEF ActiveIffQueued
  <2>4. CASE Incr(ack) = tm.end[p]
    <3>1. tm.active \in [nodeIds : Seq(Peers), lastIndex : Nat]
      BY DEF TypeOK, TxManagers
    <3>2. tm'.active = nodeQueueRemoveIfExists(tm.active, p)
      BY <1>5, <2>4
    <3>3. /\ \A j, k \in 1 .. numNodes(tm'.active) :
               tm'.active.nodeIds[j] = tm'.active.nodeIds[k] => j = k
          /\ \A x : Contains(tm'.active.nodeIds, x) <=> Contains(tm.active.nodeIds, x) /\ x # p
      <4> SUFFICES ASSUME NEW ids, ids = tm.active.nodeIds, NEW rest, rest = RemoveFirst(ids, p)
                   PROVE  /\ \A j, k \in 1 .. Len(rest) : rest[j] = rest[k] => j = k
                          /\ \A x : Contains(rest, x) <=> Contains(ids, x) /\ x # p
        <5>1. Contains(tm.active.nodeIds, p)
          BY <2>1, <2>2
        <5>2. tm'.active.nodeIds = RemoveFirst(tm.active.nodeIds, p)
          BY <3>2, <5>1 DEF nodeQueueRemoveIfExists
        <5> QED
          BY <5>2 DEF numNodes
      <4>1. /\ ids \in Seq(Peers) /\ Contains(ids, p)
            /\ \A j, k \in 1 .. Len(ids) : ids[j] = ids[k] => j = k
        BY <2>1, <2>2, <3>1 DEF numNodes
      <4> QED
        BY <4>1, RemoveFirstDistinct
    <3>4. \A d \in Peers : Contains(tm'.active.nodeIds, d) <=> tm'.start[d] # tm'.end[d]
      BY <1>5, <1>10, <2>1, <2>4, <3>3
    <3> QED
      BY <3>3, <3>4, Zenon DEF ActiveIffQueued
  <2> QED
    BY <2>3, <2>4
<1>17. NextInWindow'
  <2>1. Dist(Incr(ack), tm'.next[p]) <= Unacked(p) - A
    <3>1. tm'.next[p] = IF Dist(tm.start[p], tm.next[p]) < A THEN Incr(ack) ELSE tm.next[p]
      BY <1>5, <1>7, <1>8 DEF NextAfterAck, Acked, Passed
    <3>2. Dist(Incr(ack), Incr(ack)) = 0
      BY IncrType, DistType
    <3>3. Dist(tm.start[p], tm.next[p]) <= Unacked(p)
      BY DEF NextInWindow
    <3> QED
      BY <1>6, <1>7, <1>9, <3>1, <3>2, <3>3
  <2>2. \A d \in Peers : d # p => Dist(tm'.start[d], tm'.next[d]) <= Unacked(d)'
    BY <1>5, <1>8, <1>10, <1>12 DEF NextInWindow
  <2> QED
    BY <1>10, <1>12, <2>1, <2>2 DEF NextInWindow
<1>18. ReceiverInv'
  <2>1. /\ Dist(tm.start[p], Expected(p)) <= Unacked(p)
        /\ sent[p] - Unacked(p) + Dist(tm.start[p], Expected(p)) = Len(delivered[p])
    BY DEF ReceiverInv
  <2>2. Dist(Incr(ack), Expected(p)) = Dist(tm.start[p], Expected(p)) - A
    BY <1>6, <1>7
  <2>3. /\ Dist(Incr(ack), Expected(p)) <= Unacked(p) - A
        /\ sent[p] - (Unacked(p) - A) + Dist(Incr(ack), Expected(p)) = Len(delivered[p])
    BY <1>6, <1>7, <1>9, <2>1, <2>2
  <2>4. \A d \in Peers : Expected(d)' = Expected(d)
    BY <1>2 DEF Expected
  <2> QED
    BY <1>2, <1>10, <1>12, <2>3, <2>4 DEF ReceiverInv
<1>19. AckInv'
  <2>1. ASSUME NEW d \in Peers PROVE AckOrder(d)'
    <3>1. AckOrder(d)
      BY DEF AckInv, AckOrder
    <3>2. CASE d # p
      BY <1>2, <1>3, <1>10, <3>1, <3>2 DEF AckOrder, AckPlace
    <3>3. CASE d = p
      <4> SUFFICES ASSUME NEW v, v = Tail(ackWire[p]), NEW rx, rx = rxSeqNum[p]
                   PROVE  AckOrder(d)'
        OBVIOUS
      <4>1. ackWire'[p] = v /\ v \in Seq(0 .. NullSequenceNum)
        BY <1>2, <1>3
      <4>2. rx \in 0 .. NullSequenceNum
        BY DEF TypeOK
      <4>3. AckPlace(p, ack) = A
        BY SeqNumsOrNull DEF AckPlace, expectedSeqNum, Passed
      <4>4. \A k \in 1 .. Len(v) :
              /\ AckPlace(p, v[k]) <= AckPlace(p, rx)
              /\ A <= AckPlace(p, v[k])
              /\ \A j \in 1 .. k : AckPlace(p, v[j]) <= AckPlace(p, v[k])
        BY <1>2, <1>3, <3>1, <3>3, <4>3, TailAckOrder
      <4>5. ASSUME NEW a \in 0 .. NullSequenceNum, A <= AckPlace(p, a)
            PROVE  AckPlace(p, a)' = AckPlace(p, a) - A /\ AckPlace(p, a) \in Nat
        BY <1>6, <1>9, <1>10, <4>5, expectedType DEF AckPlace
      <4>6. \A k \in 1 .. Len(v) : v[k] \in 0 .. NullSequenceNum
        BY <4>1, ElementOfSeq
      <4>7. A <= AckPlace(p, rx)
        BY <1>4, <4>3
      <4>8. ASSUME NEW k \in 1 .. Len(v)
            PROVE  /\ AckPlace(p, v[k])' <= AckPlace(p, rx)'
                   /\ \A j \in 1 .. k : AckPlace(p, v[j])' <= AckPlace(p, v[k])'
        <5>1. \A j \in 1 .. k : j \in 1 .. Len(v)
          BY <4>1, LenProperties
        <5>2. \A j \in 1 .. Len(v) : /\ AckPlace(p, v[j]) \in Nat
                                     /\ AckPlace(p, v[j])' = AckPlace(p, v[j]) - A
          BY <4>4, <4>5, <4>6
        <5>3. AckPlace(p, rx) \in Nat /\ AckPlace(p, rx)' = AckPlace(p, rx) - A
          BY <4>2, <4>5, <4>7
        <5>4. AckPlace(p, v[k])' <= AckPlace(p, rx)'
          BY <1>6, <4>4, <5>2, <5>3
        <5>5. ASSUME NEW j \in 1 .. k PROVE AckPlace(p, v[j])' <= AckPlace(p, v[k])'
          <6>1. AckPlace(p, v[j]) <= AckPlace(p, v[k])
            BY <4>4
          <6> QED
            BY <1>6, <5>1, <5>2, <6>1
        <5> QED
          BY <5>4, <5>5
      <4> QED
        BY <1>2, <3>3, <4>1, <4>8 DEF AckOrder
    <3> QED
      BY <3>2, <3>3
  <2> QED
    BY <2>1 DEF AckInv, AckOrder
\* The chosen packet and the one on the wire
<1>20. \A d, n : (Old(d, n)' <=> Old(d, n)) /\ (New(d, n)' <=> New(d, n))
  BY <1>2 DEF Old, New, Expected, Undelivered
<1>21. ASSUME NEW i \in Slots, Live(i), Owner(i) \in Peers, New(Owner(i), tm.seq[i])
       PROVE  Live(i)'
  <2>1. i \notin freed
    BY <1>6, <1>8, <1>9, <1>21
  <2> QED
    BY <1>11, <1>21, <2>1
<1>22. WireInv'
  BY <1>2, <1>5, <1>11, <1>20, <1>21 DEF WireInv, Holds
<1>23. ChosenInv'
  <2> SUFFICES ASSUME nextTxPacket # NoSlot PROVE ChosenInv'
    BY <1>2 DEF ChosenInv
  <2>1. nextTxPacket \in Slots
    BY DEF TypeOK
  <2>2. \A d \in Peers : Expected(d)' = Expected(d)
    BY <1>2 DEF Expected
  <2> QED
    BY <1>2, <1>5, <1>11, <1>20, <1>21, <2>1, <2>2 DEF ChosenInv
<1> QED
  BY <1>1, <1>14, <1>15, <1>16, <1>17, <1>18, <1>19, <1>22, <1>23

(* rxAckSeqNum ignores, uses or counts the ack. *)
LEMMA RxAckStep ==
  ASSUME Inductive, NEW p \in Peers, RxAck(p)
  PROVE  Inductive'
<1> DEFINE ack == Head(ackWire[p])
<1>1. ack \in 0 .. NullSequenceNum
  <2>1. ackWire[p] \in Seq(0 .. NullSequenceNum) /\ ackWire[p] # << >>
    BY DEF RxAck, Inductive, TypeOK
  <2> QED
    BY <2>1, HeadTailProperties
<1>2. tm' = rxAckSeqNum(tm, p, ack)
  BY DEF RxAck
<1> HIDE DEF ack
<1>3. CASE ack = NullSequenceNum
  <2>1. LoseAck(p)
    BY <1>2, <1>3 DEF RxAck, LoseAck, rxAckSeqNum
  <2> QED
    BY <2>1, LoseAckStep
<1>4. CASE ack # NullSequenceNum /\ validSeqNum(tm, p, ack)
  <2>1. ack \in SeqNums /\ tm' = Acknowledge(tm, p, ack)
    BY <1>1, <1>2, <1>4, SeqNumsOrNull DEF rxAckSeqNum
  <2> QED
    BY <1>4, <2>1, AcknowledgeStep DEF ack
<1>5. CASE ack # NullSequenceNum /\ ~validSeqNum(tm, p, ack)
  <2>1. tm' = CountDown(tm, p)
    BY <1>2, <1>5 DEF rxAckSeqNum
  <2> QED
    BY <2>1, CountDownStep
<1> QED
  BY <1>3, <1>4, <1>5

(***************************************************************************)
(* The invariant, and what follows from it                                 *)
(***************************************************************************)

(* A session starts with empty windows and an empty store. *)
LEMMA InductiveInit == Init => Inductive
<1> SUFFICES ASSUME Init PROVE Inductive
  OBVIOUS
<1>1. TypeOK
  BY TypeInit
<1>2. /\ \A i \in Slots : tm.inUse[i] = FALSE
      /\ tm.allocated = NoSlot /\ tm.fault = FALSE
      /\ tm.active = EmptyQueue
      /\ \A d \in Peers : tm.start[d] = 0 /\ tm.end[d] = 0 /\ tm.next[d] = 0
  BY DEF Init, initTxManager
<1>3. 0 \in SeqNums /\ Dist(0, 0) = 0
  BY TxManagerAssumption DEF SeqNums, Dist
<1>4. \A d \in Peers : /\ Unacked(d) = 0 /\ Expected(d) = 0
                       /\ sent[d] = 0 /\ delivered[d] = << >> /\ ackWire[d] = << >>
  BY <1>2, <1>3 DEF Init, Unacked, Expected, expectedSeqNum
<1>5. \A i \in Slots : ~Live(i)
  BY <1>2 DEF Live
<1>6. \A d \in Peers : \A n \in SeqNums : ~InWindow(d, n)
  <2>1. \A n \in SeqNums : Dist(0, n) \in Nat
    BY <1>3, DistType
  <2> QED
    BY <1>2, <1>4, <2>1 DEF InWindow
<1>7. StoreInv
  BY <1>2, <1>5, <1>6 DEF StoreInv, AllocatedInUse, LiveEntries, QueuedHaveEntries,
                          StaleEntriesBehind, FreedBeforeAllocated
<1>8. ActiveIffQueued /\ NoAssertionFails
  BY <1>2 DEF ActiveIffQueued, NoAssertionFails, EmptyQueue, numNodes, Contains
<1>9. NextInWindow /\ ReceiverInv
  BY <1>2, <1>3, <1>4 DEF NextInWindow, ReceiverInv
<1>10. AckInv
  BY <1>4 DEF AckInv
<1>11. WireInv /\ ChosenInv
  BY DEF Init, WireInv, ChosenInv
<1> QED
  BY <1>1, <1>7, <1>8, <1>9, <1>10, <1>11 DEF Inductive

(* Every step of the application, the handlers, the peers and the link     *)
(* preserves the invariant.                                                *)
LEMMA InductiveStep == Inductive /\ [Next]_vars => Inductive'
<1> SUFFICES ASSUME Inductive, [Next]_vars PROVE Inductive'
  OBVIOUS
<1>1. CASE UNCHANGED vars
  <2>1. TypeOK'
    BY TypeStep DEF Inductive
  <2>2. UNCHANGED <<tm, nextTxPacket, wire, rxSeqNum, ackWire, sent, delivered>>
    BY <1>1 DEF vars
  <2>3. AckInv' /\ WireInv' /\ ChosenInv'
    BY <2>2, SameEnds DEF Inductive, AckInv, AckPlace, WireInv, ChosenInv
  <2> QED
    BY <2>1, <2>2, <2>3, SameEnds DEF Inductive
<1> QED
  BY <1>1, AllocateStep, SubmitStep, ProcessTxStep, TransmitStep, RxAckStep, ReceiveStep,
     SendAckStep, LoseAckStep, LosePacketStep DEF Next

(* The inductive invariant of the sliding window protocol holds for any    *)
(* number of peers, packet entries and sequence numbers and any window     *)
(* size: application, handlers and link may interleave in every way.       *)
THEOREM InductiveCorrect == Spec => []Inductive
<1>1. Init => Inductive
  BY InductiveInit
<1>2. Inductive /\ [Next]_vars => Inductive'
  BY InductiveStep
<1> QED
  BY <1>1, <1>2, PTL DEF Spec

(* No assertion of txManager.c and common.c ever fails: the packet that    *)
(* findPacketEntry looks for is there, txSeqNumNext stays in the queued    *)
(* range, and the queue of active nodes holds what is removed from it and  *)
(* has room for what is added.                                             *)
THEOREM NoAssertionFailsCorrect == Spec => []NoAssertionFails
<1>1. Inductive => NoAssertionFails
  BY DEF Inductive
<1> QED
  BY <1>1, InductiveCorrect, PTL

(* The master's round robin queue always lists the destinations with       *)
(* queued packets, each once.                                              *)
THEOREM ActiveIffQueuedCorrect == Spec => []ActiveIffQueued
<1>1. Inductive => ActiveIffQueued
  BY DEF Inductive
<1> QED
  BY <1>1, InductiveCorrect, PTL

(* rxAckSeqNum frees only packets that the peer has accepted, and the peer *)
(* accepts only packets that were submitted.                               *)
THEOREM RetainedUntilDeliveredCorrect == Spec => []RetainedUntilDelivered
<1>1. ASSUME Inductive PROVE RetainedUntilDelivered
  <2> SUFFICES ASSUME NEW d \in Peers
               PROVE  /\ sent[d] - Unacked(d) <= Len(delivered[d])
                      /\ Len(delivered[d]) <= sent[d]
    BY DEF RetainedUntilDelivered
  <2>1. /\ tm.start[d] \in SeqNums /\ Expected(d) \in SeqNums
        /\ Unacked(d) \in Nat /\ sent[d] \in Nat /\ Len(delivered[d]) \in Nat
    BY <1>1, WindowTypes DEF Inductive
  <2>2. Dist(tm.start[d], Expected(d)) \in Nat
    BY <2>1, DistType
  <2>3. /\ Dist(tm.start[d], Expected(d)) <= Unacked(d)
        /\ sent[d] - Unacked(d) + Dist(tm.start[d], Expected(d)) = Len(delivered[d])
    BY <1>1 DEF Inductive, ReceiverInv
  <2> QED
    BY <2>1, <2>2, <2>3
<1> QED
  BY <1>1, InductiveCorrect, PTL

(* Whenever the peer would accept the packet on the wire, the entry that   *)
(* the DMA reads still holds the payload that belongs to the header, even  *)
(* if acks have freed entries since and the application refilled them.     *)
THEOREM PacketOnWireIntactCorrect == Spec => []PacketOnWireIntact
<1>1. Inductive => PacketOnWireIntact
  BY WireIntact DEF PacketOnWireIntact, Expected
<1> QED
  BY <1>1, InductiveCorrect, PTL

(* findPacketEntry finds for every queued number the packet submitted      *)
(* under it, and no entry is in use that is neither queued nor allocated:  *)
(* the store never leaks an entry.                                         *)
THEOREM StoreMatchesWindowsCorrect == Spec => []StoreMatchesWindows
<1>1. ASSUME Inductive PROVE StoreMatchesWindows
  <2> USE <1>1 DEF Inductive
  <2>1. ASSUME NEW d \in Peers, NEW n \in SeqNums
        PROVE  n \in Queued(d) <=> InWindow(d, n)
    BY validSeqNumIsDist DEF Queued, InWindow, Unacked, TypeOK
  <2>2. ASSUME NEW d \in Peers, NEW n \in Queued(d)
        PROVE  /\ Matching(tm, d, n) # {}
               /\ tm.data[findPacketEntry(tm, d, n)] = Packet(d, Number(d, n))
    <3>1. n \in SeqNums
      BY DEF Queued
    <3>2. /\ Matching(tm, d, n) # {}
          /\ findPacketEntry(tm, d, n) \in Slots
          /\ Holds(findPacketEntry(tm, d, n), d, n)
      BY <2>1, <3>1, QueuedFound
    <3> QED
      BY <3>2 DEF StoreInv, LiveEntries, Holds
  <2>3. ASSUME NEW i \in Slots, tm.inUse[i], i # tm.allocated
        PROVE  \E d \in Peers : \E n \in Queued(d) : i = findPacketEntry(tm, d, n)
    <3>1. Live(i) /\ Owner(i) \in Peers /\ InWindow(Owner(i), tm.seq[i])
      BY <2>3 DEF Live, StoreInv, LiveEntries
    <3>2. tm.seq[i] \in SeqNums
      BY DEF TypeOK, TxManagers
    <3>3. /\ findPacketEntry(tm, Owner(i), tm.seq[i]) \in Slots
          /\ Holds(findPacketEntry(tm, Owner(i), tm.seq[i]), Owner(i), tm.seq[i])
      BY <3>1, <3>2, QueuedFound
    <3>4. findPacketEntry(tm, Owner(i), tm.seq[i]) = i
      BY <3>1, <3>3 DEF Holds, StoreInv, LiveEntries
    <3> QED
      BY <2>1, <3>1, <3>2, <3>4
  <2> QED
    BY <2>2, <2>3 DEF StoreMatchesWindows
<1> QED
  BY <1>1, InductiveCorrect, PTL

(* The protocol implements the reliable channel: every step submits a      *)
(* packet, delivers the next one intact, or leaves the channel as it is.   *)
THEOREM Refinement == Spec => ReliableDelivery
<1>1. Init => Channel!Init
  BY DEF Init, Channel!Init
<1>2. ASSUME Inductive, [Next]_vars
      PROVE  [Channel!Next]_<<sent, delivered>>
  <2>1. ASSUME NEW d \in Peers, SubmitAllocatedTxPacket(d) PROVE Channel!Send(d)
    BY <2>1 DEF SubmitAllocatedTxPacket, Channel!Send
  <2>2. ASSUME NEW p \in Peers, Receive(p), wire.seq = Expected(p) PROVE Channel!Deliver(p)
    <3>1. wire.dst = p /\ wire # NoPacket
      BY <2>2 DEF Receive
    <3>2. /\ tm.data[wire.slot] = Packet(p, Len(delivered[p]) + 1)
          /\ Len(delivered[p]) < sent[p]
      BY <1>2, <2>2, <3>1, WireIntact
    <3> QED
      BY <2>2, <3>2 DEF Receive, Expected, Channel!Deliver
  <2>3. ASSUME NEW p \in Peers, Receive(p), wire.seq # Expected(p)
        PROVE  UNCHANGED <<sent, delivered>>
    BY <2>3 DEF Receive, Expected
  <2>4. ASSUME \/ AllocateTxPacket \/ ProcessTx \/ Transmit \/ LosePacket \/ UNCHANGED vars
               \/ \E p \in Peers : RxAck(p) \/ SendAck(p) \/ LoseAck(p)
        PROVE  UNCHANGED <<sent, delivered>>
    BY <2>4 DEF AllocateTxPacket, ProcessTx, Transmit, LosePacket, RxAck, SendAck, LoseAck, vars
  <2> QED
    BY <1>2, <2>1, <2>2, <2>3, <2>4 DEF Next, Channel!Next
<1> QED
  BY <1>1, <1>2, InductiveCorrect, PTL DEF Spec, ReliableDelivery, Channel!Spec
=============================================================================
