---------------------------- MODULE RxPathProofs ----------------------------
(***************************************************************************)
(* The proof that Inductive is an invariant of RxPath, and what follows    *)
(* from it, for every number of buffers, nodes, packets and removals.      *)
(* First the circular queue as a ring of places, then how the backlog      *)
(* changes with it, then one lemma per action.                             *)
(***************************************************************************)
EXTENDS RxPathInv, NodeQueueLemmas

N == MaxRxPacketEntries

(***************************************************************************)
(* The ring                                                                *)
(***************************************************************************)

LEMMA NType == N \in Nat /\ N > 2
BY RxManagerAssumption DEF N

(* The place k of the queue wraps once at most. *)
LEMMA QueuedIndexValue ==
  ASSUME NEW r, r.start \in Indices, NEW k \in 1 .. N
  PROVE  /\ QueuedIndex(r, k) = IF r.start + k - 1 < N THEN r.start + k - 1
                                                       ELSE r.start + k - 1 - N
         /\ QueuedIndex(r, k) \in Indices
<1> DEFINE a == r.start + k - 1
<1>1. N \in Nat \ {0} /\ a \in Nat /\ a < N + N
  BY NType DEF Indices, N
<1> HIDE DEF a
<1>2. a % N = IF a < N THEN a ELSE a - N
  BY <1>1, ModStep
<1>3. QueuedIndex(r, k) = a % N
  BY DEF QueuedIndex, a, N
<1> QED
  BY <1>1, <1>2, <1>3 DEF a, Indices, N

(* Different places are different indices. *)
LEMMA QueuedIndexDistinct ==
  ASSUME NEW r, r.start \in Indices, NEW j \in 1 .. N, NEW k \in 1 .. N,
         QueuedIndex(r, j) = QueuedIndex(r, k)
  PROVE  j = k
<1>1. r.start \in 0 .. N - 1
  BY DEF Indices, N
<1> QED
  BY <1>1, NType, QueuedIndexValue

(* How many places are occupied, and what end points to. *)
LEMMA LengthFacts ==
  ASSUME NEW r, r.start \in Indices, r.end \in Indices
  PROVE  /\ Length(r) \in 0 .. N - 1
         /\ r.end = QueuedIndex(r, Length(r) + 1)
         /\ Full(r) <=> Length(r) = N - 1
         /\ r.start = r.end <=> Length(r) = 0
         /\ r.start = QueuedIndex(r, 1)
<1>1. r.start \in 0 .. N - 1 /\ r.end \in 0 .. N - 1
  BY DEF Indices, N
<1>2. Length(r) = IF r.end < r.start THEN N - r.start + r.end ELSE r.end - r.start
  BY DEF Length, N
<1>3. Length(r) \in 0 .. N - 1
  BY <1>1, <1>2, NType
<1>4. /\ Length(r) + 1 \in 1 .. N
      /\ 1 \in 1 .. N
  BY <1>3, NType
<1>5. QueuedIndex(r, Length(r) + 1) = IF r.start + Length(r) < N THEN r.start + Length(r)
                                                                 ELSE r.start + Length(r) - N
  BY <1>1, <1>3, <1>4, NType, QueuedIndexValue
<1>6. QueuedIndex(r, 1) = r.start
  BY <1>1, <1>4, NType, QueuedIndexValue
<1>7. r.end = QueuedIndex(r, Length(r) + 1)
  BY <1>1, <1>2, <1>5, NType
<1>8. Full(r) <=> r.start = IF r.end >= N - 1 THEN 0 ELSE r.end + 1
  BY DEF Full, IncrAndWrap, N
<1>9. Full(r) <=> Length(r) = N - 1
  BY <1>1, <1>2, <1>8, NType
<1>10. r.start = r.end <=> Length(r) = 0
  BY <1>1, <1>2, NType
<1> QED
  BY <1>3, <1>6, <1>7, <1>9, <1>10

(* Appending leaves the places occupied so far alone. *)
LEMMA RingAdd ==
  ASSUME NEW r, r.start \in Indices, r.end \in Indices, ~Full(r),
         NEW s, s.start = r.start, s.end = IncrAndWrap(r.end)
  PROVE  /\ s.end \in Indices
         /\ Length(s) = Length(r) + 1
         /\ \A k \in 1 .. N : QueuedIndex(s, k) = QueuedIndex(r, k)
         /\ s.start # s.end
<1>1. r.start \in 0 .. N - 1 /\ r.end \in 0 .. N - 1
  BY DEF Indices, N
<1>2. Length(r) = IF r.end < r.start THEN N - r.start + r.end ELSE r.end - r.start
  BY DEF Length, N
<1>3. Length(s) = IF s.end < s.start THEN N - s.start + s.end ELSE s.end - s.start
  BY DEF Length, N
<1>4. s.end = IF r.end >= N - 1 THEN 0 ELSE r.end + 1
  BY DEF IncrAndWrap, N
<1>5. s.end # s.start
  BY DEF Full
<1>6. s.end \in 0 .. N - 1
  BY <1>1, <1>4, NType
<1>7. Length(s) = Length(r) + 1
  BY <1>1, <1>2, <1>3, <1>4, <1>5, NType
<1>8. \A k \in 1 .. N : QueuedIndex(s, k) = QueuedIndex(r, k)
  BY DEF QueuedIndex
<1> QED
  BY <1>5, <1>6, <1>7, <1>8 DEF Indices, N

(* Taking d entries out renumbers the others. *)
LEMMA RingTake ==
  ASSUME NEW r, r.start \in Indices, r.end \in Indices, NEW d \in 0 .. Length(r),
         NEW s, s.start = QueuedIndex(r, d + 1), s.end = r.end
  PROVE  /\ s.start \in Indices
         /\ Length(s) = Length(r) - d
         /\ \A k \in 1 .. Length(s) : QueuedIndex(s, k) = QueuedIndex(r, k + d)
         /\ ~Full(r) => ~Full(s)
<1>1. r.start \in 0 .. N - 1 /\ r.end \in 0 .. N - 1
  BY DEF Indices, N
<1>2. Length(r) = IF r.end < r.start THEN N - r.start + r.end ELSE r.end - r.start
  BY DEF Length, N
<1>3. Length(s) = IF s.end < s.start THEN N - s.start + s.end ELSE s.end - s.start
  BY DEF Length, N
<1>4. Length(r) \in 0 .. N - 1
  BY LengthFacts
<1>5. d + 1 \in 1 .. N
  BY <1>4, NType
<1>6. /\ s.start = IF r.start + d < N THEN r.start + d ELSE r.start + d - N
      /\ s.start \in Indices
  BY <1>1, <1>5, NType, QueuedIndexValue
<1>7. Length(s) = Length(r) - d
  BY <1>1, <1>2, <1>3, <1>4, <1>6, NType
<1>8. ASSUME NEW k \in 1 .. Length(s)
      PROVE  QueuedIndex(s, k) = QueuedIndex(r, k + d)
  <2>1. k \in 1 .. N /\ k + d \in 1 .. N
    BY <1>4, <1>7, NType
  <2>2. QueuedIndex(s, k) = IF s.start + k - 1 < N THEN s.start + k - 1 ELSE s.start + k - 1 - N
    BY <1>6, <2>1, QueuedIndexValue
  <2>3. QueuedIndex(r, k + d) = IF r.start + (k + d) - 1 < N THEN r.start + (k + d) - 1
                                                             ELSE r.start + (k + d) - 1 - N
    BY <2>1, QueuedIndexValue
  <2> QED
    BY <1>1, <1>4, <1>6, <1>7, <2>1, <2>2, <2>3, NType
<1>9. ~Full(r) => ~Full(s)
  <2>1. /\ Full(r) <=> Length(r) = N - 1
        /\ Full(s) <=> Length(s) = N - 1
    BY <1>6, LengthFacts
  <2> QED
    BY <1>4, <1>7, <2>1, NType
<1> QED
  BY <1>6, <1>7, <1>8, <1>9

(***************************************************************************)
(* The backlog                                                             *)
(***************************************************************************)

(* What the backlog holds at which place. *)
BacklogShape ==
  /\ \A k : k \in DOMAIN Backlog <=>
              \/ /\ k \in 1 .. Length(rpm)
                 /\ rpm.queue[QueuedIndex(rpm, k)] # NoEntry
                 /\ ~(app = "popping" /\ k = 1)
              \/ /\ k = Length(rpm) + 1
                 /\ validRx
  /\ \A k \in DOMAIN Backlog :
       /\ k \in 1 .. N
       /\ Backlog[k] \in Entries
       /\ k <= Length(rpm) => Backlog[k] = rpm.queue[QueuedIndex(rpm, k)]
       /\ k > Length(rpm) => k = Length(rpm) + 1 /\ validRx /\ Backlog[k] = prevRx
  /\ Length(rpm) \in 0 .. N - 1

LEMMA BacklogFacts == TypeOK /\ ResultsPending => BacklogShape
<1> SUFFICES ASSUME TypeOK, ResultsPending PROVE BacklogShape
  OBVIOUS
<1> DEFINE last   == Length(rpm)
           queued == {k \in 1 .. last : /\ rpm.queue[QueuedIndex(rpm, k)] # NoEntry
                                        /\ ~(app = "popping" /\ k = 1)}
           coming == {k \in {last + 1} : phase = "post" /\ validRx}
<1>1. /\ DOMAIN Backlog = queued \cup coming
      /\ \A k \in queued \cup coming :
           Backlog[k] = IF k <= last THEN rpm.queue[QueuedIndex(rpm, k)] ELSE prevRx
  BY DEF Backlog
<1>2. last \in 0 .. N - 1
  BY LengthFacts DEF TypeOK
<1>3. validRx => phase = "post" /\ prevRx \in Entries
  BY DEF ResultsPending
<1>4. \A k \in 1 .. last : /\ k \in 1 .. N
                           /\ QueuedIndex(rpm, k) \in Indices
                           /\ rpm.queue[QueuedIndex(rpm, k)] \in Entries \cup {NoEntry}
  <2> TAKE k \in 1 .. last
  <2>1. k \in 1 .. N
    BY <1>2, NType
  <2>2. QueuedIndex(rpm, k) \in Indices
    BY <2>1, QueuedIndexValue DEF TypeOK
  <2> QED
    BY <2>1, <2>2 DEF TypeOK
<1>5. \A k : k \in queued \cup coming <=>
               \/ /\ k \in 1 .. last
                  /\ rpm.queue[QueuedIndex(rpm, k)] # NoEntry
                  /\ ~(app = "popping" /\ k = 1)
               \/ /\ k = last + 1
                  /\ validRx
  BY <1>3
<1>6. \A k \in queued \cup coming :
        /\ k \in 1 .. N
        /\ Backlog[k] \in Entries
        /\ k <= last => Backlog[k] = rpm.queue[QueuedIndex(rpm, k)]
        /\ k > last => k = last + 1 /\ validRx /\ Backlog[k] = prevRx
  <2> SUFFICES ASSUME NEW k \in queued \cup coming
               PROVE  /\ k \in 1 .. N
                      /\ Backlog[k] \in Entries
                      /\ k <= last => Backlog[k] = rpm.queue[QueuedIndex(rpm, k)]
                      /\ k > last => k = last + 1 /\ validRx /\ Backlog[k] = prevRx
    OBVIOUS
  <2>1. Backlog[k] = IF k <= last THEN rpm.queue[QueuedIndex(rpm, k)] ELSE prevRx
    BY <1>1
  <2>2. CASE k \in queued
    BY <1>2, <1>4, <2>1, <2>2
  <2>3. CASE k \in coming
    <3>1. k = last + 1 /\ validRx /\ prevRx \in Entries
      BY <1>3, <2>3
    <3>2. k \in 1 .. N /\ ~(k <= last)
      BY <1>2, <3>1, NType
    <3> QED
      BY <2>1, <3>1, <3>2
  <2> QED
    BY <2>2, <2>3
<1> HIDE DEF queued, coming
<1> QED
  BY <1>1, <1>2, <1>5, <1>6 DEF BacklogShape

LEMMA BacklogFactsNext == TypeOK' /\ ResultsPending' => BacklogShape'
BY BacklogFacts, PTL

(* The two invariants about the backlog, without their condition. *)
Accounted ==
  /\ IsInjective(Backlog)
  /\ nextRx \notin Range(Backlog)
  /\ {e \in Entries : rpm.inUse[e]} = {nextRx} \cup Range(Backlog)

Ordered(n) ==
  /\ settled[n] <= accepted[n]
  /\ {Number(k) : k \in Owed(n)} = settled[n] + 1 .. accepted[n]
  /\ \A j, k \in Owed(n) : j < k => Number(j) < Number(k)

(* A step in which places leave the backlog and the others move down by d  *)
(* keeps the buffers accounted for, if it frees exactly the buffers that   *)
(* leave.                                                                  *)
LEMMA BuffersMove ==
  ASSUME NEW d \in Nat, Accounted, BacklogShape, BacklogShape', nextRx' = nextRx,
         \A k \in DOMAIN Backlog' : /\ k + d \in DOMAIN Backlog
                                    /\ Backlog'[k] = Backlog[k + d],
         \A e \in Entries :
           rpm'.inUse[e] <=> /\ rpm.inUse[e]
                             /\ \A k \in DOMAIN Backlog : Backlog[k] = e => k - d \in DOMAIN Backlog'
  PROVE  Accounted'
<1>1. /\ \A k \in DOMAIN Backlog : k \in Int /\ Backlog[k] \in Entries
      /\ \A k \in DOMAIN Backlog' : k \in Int /\ Backlog'[k] \in Entries
  BY NType DEF BacklogShape
<1>2. /\ \A j, k \in DOMAIN Backlog : Backlog[j] = Backlog[k] => j = k
      /\ \A k \in DOMAIN Backlog : Backlog[k] # nextRx
      /\ nextRx \in Entries
      /\ \A e \in Entries : rpm.inUse[e] <=> e = nextRx \/ \E k \in DOMAIN Backlog : Backlog[k] = e
  BY <1>1 DEF Accounted, IsInjective, Range
<1>3. \A j, k \in DOMAIN Backlog' : Backlog'[j] = Backlog'[k] => j = k
  <2> SUFFICES ASSUME NEW j \in DOMAIN Backlog', NEW k \in DOMAIN Backlog', Backlog'[j] = Backlog'[k]
               PROVE  j = k
    OBVIOUS
  <2>1. j + d = k + d
    BY <1>2
  <2> QED
    BY <1>1, <2>1
<1>4. \A k \in DOMAIN Backlog' : Backlog'[k] # nextRx'
  BY <1>2
<1>5. ASSUME NEW e \in Entries
      PROVE  rpm'.inUse[e] <=> e = nextRx' \/ \E k \in DOMAIN Backlog' : Backlog'[k] = e
  <2>1. ASSUME rpm'.inUse[e], e # nextRx
        PROVE  \E k \in DOMAIN Backlog' : Backlog'[k] = e
    <3>1. PICK k \in DOMAIN Backlog : Backlog[k] = e
      BY <1>2, <2>1
    <3>2. k - d \in DOMAIN Backlog'
      BY <2>1, <3>1
    <3>3. (k - d) + d = k
      BY <1>1
    <3> QED
      BY <3>1, <3>2, <3>3
  <2>2. ASSUME e = nextRx
        PROVE  rpm'.inUse[e]
    BY <1>2, <2>2
  <2>3. ASSUME NEW k \in DOMAIN Backlog', Backlog'[k] = e
        PROVE  rpm'.inUse[e]
    <3>1. rpm.inUse[e]
      BY <1>2, <2>3
    <3>2. ASSUME NEW j \in DOMAIN Backlog, Backlog[j] = e
          PROVE  j - d \in DOMAIN Backlog'
      <4>1. j = k + d
        BY <1>2, <2>3, <3>2
      <4>2. j - d = k
        BY <1>1, <4>1
      <4> QED
        BY <4>2
    <3> QED
      BY <3>1, <3>2
  <2> QED
    BY <2>1, <2>2, <2>3
<1> QED
  <2>1. IsInjective(Backlog')
    BY <1>3 DEF IsInjective
  <2>2. nextRx' \notin Range(Backlog')
    BY <1>4 DEF Range
  <2>3. {e \in Entries : rpm'.inUse[e]} = {nextRx'} \cup Range(Backlog')
    BY <1>1, <1>2, <1>5 DEF Range
  <2> QED
    BY <2>1, <2>2, <2>3 DEF Accounted

(* The same for the packets of a node of which none leaves. *)
LEMMA OrderMove ==
  ASSUME NEW n \in Sources, NEW d \in Nat, Ordered(n), BacklogShape, BacklogShape',
         accepted'[n] = accepted[n], settled'[n] = settled[n],
         \A k \in Owed(n)' : k + d \in Owed(n) /\ Number(k)' = Number(k + d),
         \A k \in Owed(n) : k - d \in Owed(n)'
  PROVE  Ordered(n)'
<1>1. /\ \A k \in Owed(n) : k \in Int
      /\ \A k \in Owed(n)' : k \in Int
  BY NType DEF BacklogShape, Owed
<1>2. {Number(k)' : k \in Owed(n)'} = {Number(k) : k \in Owed(n)}
  <2>1. \A k \in Owed(n) : k - d \in Owed(n)' /\ (k - d) + d = k /\ Number(k - d)' = Number(k)
    BY <1>1
  <2> QED
    BY <2>1
<1>3. ASSUME NEW j \in Owed(n)', NEW k \in Owed(n)', j < k
      PROVE  Number(j)' < Number(k)'
  <2>1. j + d < k + d /\ j + d \in Owed(n) /\ k + d \in Owed(n)
    BY <1>1, <1>3
  <2>2. Number(j + d) < Number(k + d)
    BY <2>1 DEF Ordered
  <2> QED
    BY <2>2
<1> QED
  BY <1>2, <1>3 DEF Ordered

LEMMA Conditions ==
  /\ BuffersAccounted <=> (Running /\ ~cutIn => Accounted)
  /\ AcceptedReachApplication <=> (Running /\ ~cutIn => \A n \in Sources : Ordered(n))
BY DEF BuffersAccounted, AcceptedReachApplication, Accounted, Ordered

LEMMA ConditionsNext ==
  /\ BuffersAccounted' <=> (Running' /\ ~cutIn' => Accounted')
  /\ AcceptedReachApplication' <=> (Running' /\ ~cutIn' => \A n \in Sources : Ordered(n)')
BY DEF BuffersAccounted, AcceptedReachApplication, Accounted, Ordered

(***************************************************************************)
(* The actions                                                             *)
(***************************************************************************)

LEMMA RejectStep ==
  ASSUME Inductive, RejectPacket
  PROVE  Inductive'
<1>1. /\ TypeOK /\ NoAssertionFails /\ ResultsPending /\ RoomKept /\ FirstKept /\ PeekedFirst
      /\ BuffersAccounted /\ AcceptedReachApplication
  BY DEF Inductive, Handoff
<1>2. /\ rpm' = rpm /\ app' = app /\ nextRx' = nextRx /\ cutIn' = cutIn /\ peeked' = peeked
      /\ accepted' = accepted /\ settled' = settled
      /\ ~validRx /\ ~validRx' /\ ~validSeq /\ ~validSeq'
  BY <1>1 DEF RejectPacket, ResultsPending
<1>3. TypeOK' /\ ResultsPending'
  BY <1>1, <1>2 DEF RejectPacket, TypeOK, ResultsPending
<1>4. NoAssertionFails' /\ RoomKept' /\ FirstKept' /\ PeekedFirst'
  BY <1>1, <1>2 DEF NoAssertionFails, RoomKept, FirstKept, PeekedFirst, Running
<1>5. BacklogShape /\ BacklogShape'
  BY <1>1, <1>3, BacklogFacts, BacklogFactsNext
<1>6. Length(rpm)' = Length(rpm) /\ \A k : QueuedIndex(rpm, k)' = QueuedIndex(rpm, k)
  BY <1>2 DEF Length, QueuedIndex
<1>7. DOMAIN Backlog' = DOMAIN Backlog /\ \A k \in DOMAIN Backlog : Backlog'[k] = Backlog[k]
  <2>1. \A k : k \in DOMAIN Backlog' <=> k \in DOMAIN Backlog
    BY <1>2, <1>5, <1>6 DEF BacklogShape
  <2>2. \A k \in DOMAIN Backlog : k <= Length(rpm)
    BY <1>2, <1>5, NType DEF BacklogShape
  <2>3. \A k \in DOMAIN Backlog : Backlog'[k] = Backlog[k]
    BY <1>2, <1>5, <1>6, <2>1, <2>2 DEF BacklogShape
  <2> QED
    BY <2>1, <2>3
<1>8. ASSUME Running', ~cutIn'
      PROVE  Accounted' /\ \A n \in Sources : Ordered(n)'
  <2>1. Accounted /\ \A n \in Sources : Ordered(n)
    BY <1>1, <1>2, <1>8, Conditions DEF Running
  <2>2. Accounted'
    BY <1>2, <1>7, <2>1 DEF Accounted, IsInjective, Range
  <2>3. ASSUME NEW n \in Sources
        PROVE  Ordered(n)'
    <3>1. \A k \in DOMAIN Backlog : Number(k)' = Number(k)
      BY <1>2, <1>7 DEF Number
    <3>2. Owed(n)' = Owed(n)
      BY <1>2, <1>6, <1>7 DEF Owed
    <3>3. \A k \in Owed(n) : k \in DOMAIN Backlog
      BY DEF Owed
    <3>4. {Number(k)' : k \in Owed(n)'} = {Number(k) : k \in Owed(n)}
      BY <3>1, <3>2, <3>3
    <3>5. \A j, k \in Owed(n)' : j < k => Number(j)' < Number(k)'
      BY <2>1, <3>1, <3>2, <3>3 DEF Ordered
    <3> QED
      BY <1>2, <2>1, <3>4, <3>5 DEF Ordered
  <2> QED
    BY <2>2, <2>3
<1> QED
  BY <1>3, <1>4, <1>8, ConditionsNext DEF Inductive, Handoff

(* The stutter. *)
LEMMA UnchangedStep ==
  ASSUME Inductive, UNCHANGED vars
  PROVE  Inductive'
<1>1. TypeOK' /\ NoAssertionFails' /\ Handoff'
  BY DEF Inductive, vars, TypeOK, NoAssertionFails, Handoff, ResultsPending, RoomKept, FirstKept,
         PeekedFirst, Running
<1>2. Backlog' = Backlog
  BY DEF vars, Backlog, Length, QueuedIndex
<1>3. BuffersAccounted'
  BY <1>2 DEF Inductive, vars, BuffersAccounted, Running
<1>4. AcceptedReachApplication'
  BY <1>2 DEF Inductive, vars, AcceptedReachApplication, Running, Owed, Number, Length
<1> QED
  BY <1>1, <1>3, <1>4 DEF Inductive

(* A buffer is only handed out if it is free and the queue has room. *)
LEMMA FreeFacts ==
  ASSUME NEW r
  PROVE  \/ findFreeRxPacket(r) = NoEntry
         \/ /\ findFreeRxPacket(r) \in Entries
            /\ ~r.inUse[findFreeRxPacket(r)]
            /\ ~Full(r)
            /\ findFreeRxPacket(r) # NoEntry
<1> DEFINE free == {e \in Entries : ~r.inUse[e]}
<1>1. CASE Full(r) \/ free = {}
  BY <1>1 DEF findFreeRxPacket
<1>2. CASE ~Full(r) /\ free # {}
  <2>1. free \subseteq Nat
    BY NType DEF Entries, N
  <2>2. Min(free) \in free
    BY <1>2, <2>1, MinIsLeast
  <2>3. findFreeRxPacket(r) = Min(free)
    BY <1>2 DEF findFreeRxPacket
  <2>4. \A e \in Entries : e # NoEntry
    BY NType DEF Entries, NoEntry, N
  <2> QED
    BY <1>2, <2>2, <2>3, <2>4
<1> QED
  BY <1>1, <1>2

(* The packet just received takes the place behind the last one: the       *)
(* buffer that was the DMA's, and the number after the last accepted one.  *)
LEMMA QuickStep ==
  ASSUME Inductive, NEW n \in Sources, NEW isData \in BOOLEAN, NEW inSeq \in BOOLEAN,
         QuickProcessPrevRx(n, isData, inSeq)
  PROVE  Inductive'
<1> DEFINE new  == IF inSeq THEN accepted[n] + 1 ELSE accepted[n]
           free == findFreeRxPacket(rpm)
           last == Length(rpm)
<1>1. /\ TypeOK /\ NoAssertionFails /\ ResultsPending /\ RoomKept /\ FirstKept /\ PeekedFirst
      /\ BuffersAccounted /\ AcceptedReachApplication
  BY DEF Inductive, Handoff
<1>2. /\ Running /\ phase = "slot" /\ phase' = "post"
      /\ inSeq => isData
      /\ new <= MaxAccepted
      /\ prevRx' = nextRx
      /\ validRx' = (free # NoEntry)
      /\ nextRx' = IF free # NoEntry THEN free ELSE nextRx
      /\ rpm' = IF free # NoEntry
                THEN [[rpm EXCEPT !.packet[nextRx] = <<n, new>>] EXCEPT !.inUse[free] = TRUE]
                ELSE [rpm EXCEPT !.packet[nextRx] = <<n, new>>]
      /\ validSeq' = IF isData /\ free # NoEntry THEN inSeq ELSE validSeq
      /\ accepted' = IF isData /\ inSeq /\ free # NoEntry THEN [accepted EXCEPT ![n] = new] ELSE accepted
      /\ UNCHANGED <<app, peeked, removals, cutIn, settled>>
  BY DEF QuickProcessPrevRx
<1>3. ~validRx /\ ~validSeq
  BY <1>1, <1>2 DEF ResultsPending
<1>4. free = NoEntry \/ (free \in Entries /\ ~rpm.inUse[free] /\ ~Full(rpm) /\ free # NoEntry)
  BY FreeFacts
<1>5. new \in 0 .. MaxAccepted /\ <<n, new>> \in Packets
  BY <1>1, <1>2, RxPathAssumption DEF TypeOK, Packets
<1> HIDE DEF new, free
<1>6. /\ rpm'.queue = rpm.queue /\ rpm'.start = rpm.start /\ rpm'.end = rpm.end /\ rpm'.fault = rpm.fault
      /\ rpm'.packet = [rpm.packet EXCEPT ![nextRx] = <<n, new>>]
      /\ rpm'.inUse = IF free # NoEntry THEN [rpm.inUse EXCEPT ![free] = TRUE] ELSE rpm.inUse
  BY <1>1, <1>2 DEF TypeOK
<1>7. TypeOK'
  <2>1. rpm' \in [inUse  : [Entries -> BOOLEAN],
                  packet : [Entries -> Packets],
                  queue  : [Indices -> Entries \cup {NoEntry}],
                  start  : Indices,
                  end    : Indices,
                  fault  : {"none", "assert", "null", "loop"}]
    BY <1>1, <1>2, <1>4, <1>5 DEF TypeOK
  <2>2. nextRx' \in Entries /\ prevRx' \in Entries \cup {NoEntry}
    BY <1>1, <1>2, <1>4 DEF TypeOK
  <2>3. accepted' \in [Sources -> 0 .. MaxAccepted]
    BY <1>1, <1>2, <1>5 DEF TypeOK
  <2>4. validRx' \in BOOLEAN /\ validSeq' \in BOOLEAN
    BY <1>1, <1>2 DEF TypeOK
  <2> QED
    BY <1>1, <1>2, <2>1, <2>2, <2>3, <2>4 DEF TypeOK
<1>8. ResultsPending'
  BY <1>1, <1>2, <1>3 DEF ResultsPending, TypeOK
<1>9. RoomKept'
  BY <1>2, <1>4, <1>6 DEF RoomKept, Full
<1>10. NoAssertionFails' /\ FirstKept'
  BY <1>1, <1>2, <1>6 DEF NoAssertionFails, FirstKept, Running
<1>11. BacklogShape /\ BacklogShape'
  BY <1>1, <1>7, <1>8, BacklogFacts, BacklogFactsNext
<1>12. Length(rpm)' = last /\ \A k : QueuedIndex(rpm, k)' = QueuedIndex(rpm, k)
  BY <1>6 DEF Length, QueuedIndex
<1>13. /\ \A k : k \in DOMAIN Backlog => k <= last /\ k \in Int
       /\ last \in Nat
  BY <1>3, <1>11, NType DEF BacklogShape
<1>14. /\ \A k : k \in DOMAIN Backlog' <=> k \in DOMAIN Backlog \/ (k = last + 1 /\ free # NoEntry)
       /\ \A k \in DOMAIN Backlog : Backlog'[k] = Backlog[k]
       /\ free # NoEntry => Backlog'[last + 1] = nextRx
  <2>1. \A k : k \in DOMAIN Backlog' <=> k \in DOMAIN Backlog \/ (k = last + 1 /\ free # NoEntry)
    <3>1. (validRx' <=> free # NoEntry) /\ app' = app
      BY <1>2
    <3>2. \A k : k \in DOMAIN Backlog <=>
                   /\ k \in 1 .. last
                   /\ rpm.queue[QueuedIndex(rpm, k)] # NoEntry
                   /\ ~(app = "popping" /\ k = 1)
      BY <1>3, <1>11 DEF BacklogShape
    <3>3. \A k : k \in DOMAIN Backlog' <=>
                   \/ /\ k \in 1 .. last
                      /\ rpm.queue[QueuedIndex(rpm, k)] # NoEntry
                      /\ ~(app = "popping" /\ k = 1)
                   \/ /\ k = last + 1
                      /\ free # NoEntry
      <4>1. \A k : k \in DOMAIN Backlog' <=>
                     \/ /\ k \in 1 .. Length(rpm)'
                        /\ rpm'.queue[QueuedIndex(rpm, k)'] # NoEntry
                        /\ ~(app' = "popping" /\ k = 1)
                     \/ /\ k = Length(rpm)' + 1
                        /\ validRx'
        BY <1>11, Zenon DEF BacklogShape
      <4> QED
        BY <1>6, <1>12, <3>1, <4>1
    <3> QED
      BY <3>2, <3>3, Zenon
  <2>2. \A k \in DOMAIN Backlog : Backlog'[k] = Backlog[k]
    BY <1>2, <1>6, <1>11, <1>12, <1>13, <2>1 DEF BacklogShape
  <2>3. free # NoEntry => Backlog'[last + 1] = nextRx
    <3>1. ~(last + 1 <= last) /\ last + 1 > last
      BY <1>13
    <3> QED
      BY <1>2, <1>11, <1>12, <2>1, <3>1 DEF BacklogShape
  <2> QED
    BY <2>1, <2>2, <2>3
<1>15. ASSUME ~cutIn
       PROVE  /\ Accounted /\ \A m \in Sources : Ordered(m)
              /\ \A k \in DOMAIN Backlog : Backlog[k] # nextRx /\ Backlog[k] \in Entries
              /\ nextRx \in Entries
  <2>1. Accounted /\ \A m \in Sources : Ordered(m)
    BY <1>1, <1>2, <1>15, Conditions
  <2> QED
    BY <1>1, <1>11, <2>1 DEF Accounted, Range, BacklogShape, TypeOK
<1>16. PeekedFirst'
  <2> SUFFICES ASSUME ~cutIn, app = "peeked"
               PROVE  /\ rpm'.start # rpm'.end
                      /\ peeked'.entry \in Entries
                      /\ rpm'.queue[rpm'.start] \in {peeked'.entry, NoEntry}
                      /\ rpm'.queue[rpm'.start] = peeked'.entry =>
                           rpm'.packet[peeked'.entry] = peeked'.packet
    BY <1>2, <1>6 DEF PeekedFirst, Running
  <2>1. /\ rpm.start # rpm.end
        /\ peeked.entry \in Entries
        /\ rpm.queue[rpm.start] \in {peeked.entry, NoEntry}
        /\ rpm.queue[rpm.start] = peeked.entry => rpm.packet[peeked.entry] = peeked.packet
    BY <1>1, <1>2 DEF PeekedFirst
  <2>2. ASSUME rpm.queue[rpm.start] = peeked.entry
        PROVE  peeked.entry # nextRx
    <3>1. rpm.start = QueuedIndex(rpm, 1) /\ last # 0
      BY <1>1, <2>1, LengthFacts DEF TypeOK
    <3>2. 1 \in 1 .. last
      BY <1>13, <3>1
    <3>3. peeked.entry # NoEntry
      BY <2>1, NType DEF Entries, NoEntry, N
    <3>4. 1 \in DOMAIN Backlog /\ Backlog[1] = peeked.entry
      BY <1>11, <1>13, <2>2, <3>1, <3>2, <3>3 DEF BacklogShape
    <3> QED
      BY <1>15, <3>4
  <2>3. rpm.queue[rpm.start] = peeked.entry => rpm'.packet[peeked.entry] = rpm.packet[peeked.entry]
    BY <1>1, <1>6, <2>1, <2>2 DEF TypeOK
  <2> QED
    BY <1>2, <1>6, <2>1, <2>3
<1>17. ASSUME ~cutIn
       PROVE  Accounted'
  <2>1. /\ \A j, k \in DOMAIN Backlog : Backlog[j] = Backlog[k] => j = k
        /\ \A e \in Entries : rpm.inUse[e] <=> e = nextRx \/ \E k \in DOMAIN Backlog : Backlog[k] = e
    BY <1>15, <1>17 DEF Accounted, IsInjective, Range
  <2>2. CASE free = NoEntry
    <3>1. DOMAIN Backlog' = DOMAIN Backlog
      BY <1>14, <2>2
    <3> QED
      BY <1>2, <1>6, <1>14, <1>15, <1>17, <2>2, <3>1 DEF Accounted, IsInjective, Range
  <2>3. CASE free # NoEntry
    <3>1. free \in Entries /\ ~rpm.inUse[free] /\ free # nextRx /\ \A k \in DOMAIN Backlog : Backlog[k] # free
      BY <1>4, <1>15, <1>17, <2>1, <2>3
    <3>2. IsInjective(Backlog')
      BY <1>14, <1>15, <1>17, <2>1 DEF IsInjective
    <3>3. nextRx' = free
      BY <1>2, <2>3
    <3>4. nextRx' \notin Range(Backlog')
      BY <1>14, <3>1, <3>3 DEF Range
    <3>5. ASSUME NEW e \in Entries
          PROVE  rpm'.inUse[e] <=> e = free \/ \E k \in DOMAIN Backlog' : Backlog'[k] = e
      <4>1. rpm'.inUse[e] <=> e = free \/ rpm.inUse[e]
        BY <1>1, <1>6, <2>3, <3>1 DEF TypeOK
      <4>2. (\E k \in DOMAIN Backlog' : Backlog'[k] = e) <=> (e = nextRx \/ \E k \in DOMAIN Backlog : Backlog[k] = e)
        BY <1>14, <2>3
      <4> QED
        BY <2>1, <4>1, <4>2
    <3>6. \A k \in DOMAIN Backlog' : Backlog'[k] \in Entries
      BY <1>11 DEF BacklogShape
    <3>7. {e \in Entries : rpm'.inUse[e]} = {nextRx'} \cup Range(Backlog')
      BY <3>1, <3>3, <3>5, <3>6 DEF Range
    <3> QED
      BY <3>2, <3>4, <3>7 DEF Accounted
  <2> QED
    BY <2>2, <2>3
<1>18. ASSUME ~cutIn, NEW m \in Sources
       PROVE  Ordered(m)'
  <2>1. \A k \in DOMAIN Backlog : rpm'.packet[Backlog'[k]] = rpm.packet[Backlog[k]]
    BY <1>1, <1>6, <1>14, <1>15, <1>18 DEF TypeOK
  <2>2. \A k \in Owed(m) : k \in DOMAIN Backlog /\ k <= last /\ k \in Int
    BY <1>13 DEF Owed
  <2>3. \A k \in DOMAIN Backlog : (k \in Owed(m)' <=> k \in Owed(m)) /\ Number(k)' = Number(k)
    BY <1>12, <1>13, <1>14, <2>1 DEF Owed, Number
  <2>4. ~(last + 1 <= last) /\ last + 1 \notin DOMAIN Backlog
    BY <1>13
  <2>5. free # NoEntry => rpm'.packet[Backlog'[last + 1]] = <<n, new>>
    BY <1>1, <1>6, <1>14, <1>15, <1>18 DEF TypeOK
  <2>6. last + 1 \in Owed(m)' <=> m = n /\ isData /\ inSeq /\ free # NoEntry
    BY <1>2, <1>3, <1>12, <1>14, <2>4, <2>5 DEF Owed
  <2>7. \A k \in Owed(m)' : k \in DOMAIN Backlog \/ k = last + 1
    BY <1>14 DEF Owed
  <2>8. Ordered(m)
    BY <1>15, <1>18
  <2>9. CASE ~(m = n /\ isData /\ inSeq /\ free # NoEntry)
    <3>1. Owed(m)' = Owed(m)
      BY <2>2, <2>3, <2>6, <2>7, <2>9
    <3>2. \A k \in Owed(m) : Number(k)' = Number(k)
      BY <2>2, <2>3
    <3>3. accepted'[m] = accepted[m] /\ settled'[m] = settled[m]
      BY <1>1, <1>2, <2>9 DEF TypeOK
    <3>4. {Number(k)' : k \in Owed(m)'} = {Number(k) : k \in Owed(m)}
      BY <3>1, <3>2
    <3>5. \A j, k \in Owed(m)' : j < k => Number(j)' < Number(k)'
      BY <2>8, <3>1, <3>2 DEF Ordered
    <3> QED
      BY <2>8, <3>3, <3>4, <3>5 DEF Ordered
  <2>10. CASE m = n /\ isData /\ inSeq /\ free # NoEntry
    <3>1. /\ accepted'[m] = accepted[m] + 1 /\ settled'[m] = settled[m]
          /\ accepted[m] \in Nat /\ settled[m] \in Nat
      BY <1>1, <1>2, <2>10, RxPathAssumption DEF TypeOK, new
    <3>2. \A k : k = last + 1 => Number(k)' = accepted[m] + 1
      BY <2>5, <2>10 DEF Number, new
    <3>3. Owed(m)' = Owed(m) \cup {last + 1}
      BY <2>2, <2>3, <2>6, <2>7, <2>10
    <3>4. /\ settled[m] <= accepted[m]
          /\ {Number(k) : k \in Owed(m)} = settled[m] + 1 .. accepted[m]
          /\ \A j, k \in Owed(m) : j < k => Number(j) < Number(k)
      BY <2>8 DEF Ordered
    <3>5. \A k \in Owed(m) : Number(k)' = Number(k) /\ Number(k) \in settled[m] + 1 .. accepted[m]
      BY <2>2, <2>3, <3>4
    <3>6. {Number(k)' : k \in Owed(m)'} = {Number(k) : k \in Owed(m)} \cup {accepted[m] + 1}
      BY <3>2, <3>3, <3>5
    <3>7. {Number(k)' : k \in Owed(m)'} = settled[m] + 1 .. accepted[m] + 1
      BY <3>1, <3>4, <3>6
    <3>8. ASSUME NEW j \in Owed(m)', NEW k \in Owed(m)', j < k
          PROVE  Number(j)' < Number(k)'
      <4>1. CASE j \in Owed(m) /\ k \in Owed(m)
        BY <3>4, <3>5, <3>8, <4>1
      <4>2. CASE j \in Owed(m) /\ k = last + 1
        BY <3>1, <3>2, <3>5, <4>2
      <4>3. CASE j = last + 1
        BY <1>13, <2>2, <3>3, <3>8, <4>3
      <4> QED
        BY <3>3, <4>1, <4>2, <4>3
    <3> QED
      BY <3>1, <3>4, <3>7, <3>8 DEF Ordered
  <2> QED
    BY <2>9, <2>10
<1> QED
  <2>1. cutIn' = cutIn
    BY <1>2
  <2> QED
    BY <2>1, <1>7, <1>8, <1>9, <1>10, <1>16, <1>17, <1>18, ConditionsNext DEF Inductive, Handoff

(* Any tRxPacketManager. *)
Managers ==
  [inUse  : [Entries -> BOOLEAN],
   packet : [Entries -> Packets],
   queue  : [Indices -> Entries \cup {NoEntry}],
   start  : Indices,
   end    : Indices,
   fault  : {"none", "assert", "null", "loop"}]

(* What masterProcessRx makes of the queue and the buffers. *)
LEMMA ProcessFacts ==
  ASSUME Inductive, Running
  PROVE  /\ ProcessRx \in Managers
         /\ ProcessRx.fault = "none"
         /\ ProcessRx.start = rpm.start
         /\ ProcessRx.packet = rpm.packet
         /\ Length(ProcessRx) = IF validRx /\ validSeq THEN Length(rpm) + 1 ELSE Length(rpm)
         /\ \A k \in 1 .. N : QueuedIndex(ProcessRx, k) = QueuedIndex(rpm, k)
         /\ \A k \in 1 .. Length(ProcessRx) :
              ProcessRx.queue[QueuedIndex(rpm, k)] = IF k <= Length(rpm)
                                                     THEN rpm.queue[QueuedIndex(rpm, k)] ELSE prevRx
         /\ \A e \in Entries :
              ProcessRx.inUse[e] <=> rpm.inUse[e] /\ ~(validRx /\ ~validSeq /\ e = prevRx)
<1> DEFINE P == ProcessRx
           last == Length(rpm)
<1>1. /\ rpm \in Managers /\ rpm.fault = "none" /\ rpm.start \in Indices /\ rpm.end \in Indices
      /\ validRx => prevRx \in Entries /\ ~Full(rpm)
      /\ validRx \in BOOLEAN /\ validSeq \in BOOLEAN
  BY DEF Inductive, TypeOK, Managers, Running, Handoff, ResultsPending, RoomKept
<1>2. last \in 0 .. N - 1
  BY <1>1, LengthFacts
<1>3. \A k \in 1 .. last : k <= last /\ k \in 1 .. N
  BY <1>2, NType
<1>4. CASE ~validRx \/ ~validSeq
  <2>1. P = rpm \/ (validRx /\ ~validSeq /\ P = [rpm EXCEPT !.inUse[prevRx] = FALSE])
    BY <1>4 DEF ProcessRx
  <2>2. /\ P \in Managers
        /\ P.fault = "none" /\ P.start = rpm.start /\ P.end = rpm.end
        /\ P.packet = rpm.packet /\ P.queue = rpm.queue
    BY <1>1, <2>1 DEF Managers
  <2>3. Length(P) = last /\ \A k \in 1 .. N : QueuedIndex(P, k) = QueuedIndex(rpm, k)
    BY <2>2 DEF Length, QueuedIndex
  <2>4. \A e \in Entries : P.inUse[e] <=> rpm.inUse[e] /\ ~(validRx /\ ~validSeq /\ e = prevRx)
    <3>1. CASE ~validRx
      <4>1. P = rpm
        BY <3>1 DEF ProcessRx
      <4> QED
        BY <3>1, <4>1
    <3>2. CASE validRx
      <4>1. ~validSeq /\ P = [rpm EXCEPT !.inUse[prevRx] = FALSE]
        BY <1>4, <3>2 DEF ProcessRx
      <4>2. P.inUse = [rpm.inUse EXCEPT ![prevRx] = FALSE] /\ rpm.inUse \in [Entries -> BOOLEAN]
        BY <1>1, <4>1 DEF Managers
      <4> QED
        BY <3>2, <4>1, <4>2
    <3> QED
      BY <3>1, <3>2
  <2> QED
    BY <1>3, <1>4, <2>2, <2>3, <2>4
<1>5. CASE validRx /\ validSeq
  <2>1. P = [rpm EXCEPT !.queue[rpm.end] = prevRx, !.end = IncrAndWrap(@)]
    BY <1>1, <1>5 DEF ProcessRx, addRxDataPacket, Full
  <2>2. /\ P.start = rpm.start /\ P.end = IncrAndWrap(rpm.end) /\ P.packet = rpm.packet
        /\ P.fault = "none" /\ P.inUse = rpm.inUse
        /\ P.queue = [rpm.queue EXCEPT ![rpm.end] = prevRx]
    BY <1>1, <2>1 DEF Managers
  <2>3. /\ P.end \in Indices
        /\ Length(P) = last + 1
        /\ \A k \in 1 .. N : QueuedIndex(P, k) = QueuedIndex(rpm, k)
    BY <1>1, <1>5, <2>2, RingAdd
  <2>4. P \in Managers
    <3>1. P.queue \in [Indices -> Entries \cup {NoEntry}]
      BY <1>1, <1>5, <2>2 DEF Managers
    <3>2. P = [inUse |-> P.inUse, packet |-> P.packet, queue |-> P.queue, start |-> P.start,
               end |-> P.end, fault |-> P.fault]
      BY <1>1, <2>1 DEF Managers
    <3> QED
      BY <1>1, <2>2, <2>3, <3>1, <3>2 DEF Managers
  <2>5. ASSUME NEW k \in 1 .. Length(P)
        PROVE  P.queue[QueuedIndex(rpm, k)] = IF k <= last THEN rpm.queue[QueuedIndex(rpm, k)] ELSE prevRx
    <3>1. k \in 1 .. N /\ last + 1 \in 1 .. N /\ (k <= last \/ k = last + 1)
      BY <1>2, <2>3, NType
    <3>2. QueuedIndex(rpm, k) \in Indices /\ rpm.end = QueuedIndex(rpm, last + 1)
      BY <1>1, <3>1, QueuedIndexValue, LengthFacts
    <3>3. CASE k = last + 1
      <4>1. ~(k <= last)
        BY <1>2, <3>3
      <4> QED
        BY <1>1, <2>2, <3>2, <3>3, <4>1 DEF Managers
    <3>4. CASE k <= last
      <4>1. k # last + 1
        BY <1>2, <3>4
      <4>2. QueuedIndex(rpm, k) # rpm.end
        BY <1>1, <3>1, <3>2, <4>1, QueuedIndexDistinct
      <4> QED
        BY <1>1, <2>2, <3>2, <3>4, <4>2 DEF Managers
    <3> QED
      BY <3>1, <3>3, <3>4
  <2> QED
    BY <1>5, <2>2, <2>3, <2>4, <2>5
<1> QED
  BY <1>1, <1>4, <1>5

(* What the removal of the nodes in T does, if it ends. *)
LEMMA RemoveFacts ==
  ASSUME NEW r \in Managers, NEW T
  PROVE  LET c == rxManagerRemoveAllPackets(r, T)
         IN  /\ c \in Managers
             /\ c.start = r.start /\ c.end = r.end /\ c.packet = r.packet
             /\ \/ c.fault = "loop"
                \/ /\ c.fault = r.fault
                   /\ \A k \in 1 .. Length(r) :
                        c.queue[QueuedIndex(r, k)] =
                          IF /\ r.queue[QueuedIndex(r, k)] # NoEntry
                             /\ r.packet[r.queue[QueuedIndex(r, k)]][1] \in T
                          THEN NoEntry ELSE r.queue[QueuedIndex(r, k)]
                   /\ \A e \in Entries :
                        c.inUse[e] <=> /\ r.inUse[e]
                                       /\ ~\E k \in 1 .. Length(r) :
                                             /\ r.queue[QueuedIndex(r, k)] = e
                                             /\ r.packet[e][1] \in T
<1> DEFINE c == rxManagerRemoveAllPackets(r, T)
           gone == IndicesOf(r, T)
           freed == {r.queue[i] : i \in gone}
<1>1. CASE T # {} /\ r.end = 0 /\ r.start # 0
  <2>1. c = [r EXCEPT !.fault = "loop"]
    BY <1>1 DEF rxManagerRemoveAllPackets, Fault
  <2> QED
    BY <2>1 DEF Managers
<1>2. CASE ~(T # {} /\ r.end = 0 /\ r.start # 0)
  <2>1. c = [r EXCEPT !.inUse = [e \in Entries |-> @[e] /\ e \notin freed],
                      !.queue = [i \in Indices |-> IF i \in gone THEN NoEntry ELSE @[i]]]
    BY <1>2 DEF rxManagerRemoveAllPackets
  <2> HIDE DEF gone, freed
  <2>2. /\ c.inUse = [e \in Entries |-> r.inUse[e] /\ e \notin freed]
        /\ c.queue = [i \in Indices |-> IF i \in gone THEN NoEntry ELSE r.queue[i]]
        /\ c.start = r.start /\ c.end = r.end /\ c.packet = r.packet /\ c.fault = r.fault
    BY <2>1 DEF Managers
  <2>3. c \in Managers
    <3>1. c = [inUse |-> c.inUse, packet |-> c.packet, queue |-> c.queue, start |-> c.start,
               end |-> c.end, fault |-> c.fault]
      BY <2>1 DEF Managers
    <3>2. c.inUse \in [Entries -> BOOLEAN] /\ c.queue \in [Indices -> Entries \cup {NoEntry}]
      BY <2>2 DEF Managers
    <3> QED
      BY <2>2, <3>1, <3>2 DEF Managers
  <2>4. ASSUME NEW k \in 1 .. Length(r)
        PROVE  /\ QueuedIndex(r, k) \in Indices
               /\ QueuedIndex(r, k) \in gone <=>
                    /\ r.queue[QueuedIndex(r, k)] # NoEntry
                    /\ r.packet[r.queue[QueuedIndex(r, k)]][1] \in T
    <3>1. k \in 1 .. N
      BY LengthFacts, NType DEF Managers
    <3>2. QueuedIndex(r, k) \in Indices
      BY <3>1, QueuedIndexValue DEF Managers
    <3> QED
      BY <3>2 DEF gone, IndicesOf, QueuedIndices
  <2>5. \A i \in gone : \E k \in 1 .. Length(r) :
          /\ i = QueuedIndex(r, k)
          /\ r.queue[i] # NoEntry
          /\ r.packet[r.queue[i]][1] \in T
    BY DEF gone, IndicesOf, QueuedIndices
  <2>6. \A e \in Entries : e \in freed <=> \E k \in 1 .. Length(r) :
                                             /\ r.queue[QueuedIndex(r, k)] = e
                                             /\ r.packet[e][1] \in T
    <3>1. \A e \in Entries : e # NoEntry
      BY NType DEF Entries, NoEntry, N
    <3> QED
      BY <2>4, <2>5, <3>1 DEF freed
  <2>7. ASSUME NEW k \in 1 .. Length(r)
        PROVE  c.queue[QueuedIndex(r, k)] =
                 IF /\ r.queue[QueuedIndex(r, k)] # NoEntry
                    /\ r.packet[r.queue[QueuedIndex(r, k)]][1] \in T
                 THEN NoEntry ELSE r.queue[QueuedIndex(r, k)]
    BY <2>2, <2>4
  <2>8. ASSUME NEW e \in Entries
        PROVE  c.inUse[e] <=> r.inUse[e] /\ e \notin freed
    BY <2>2
  <2>9. ASSUME NEW e \in Entries
        PROVE  c.inUse[e] <=> /\ r.inUse[e]
                              /\ ~\E k \in 1 .. Length(r) :
                                    /\ r.queue[QueuedIndex(r, k)] = e
                                    /\ r.packet[e][1] \in T
    BY <2>6, <2>8, Zenon
  <2> HIDE DEF c
  <2> QED
    BY <2>2, <2>3, <2>7, <2>9 DEF c
<1> QED
  BY <1>1, <1>2

(* The packet that was accepted is queued, one that was not is dropped,    *)
(* and the packets of the nodes in T leave the backlog.                    *)
LEMMA PostStep ==
  ASSUME Inductive, NEW T \in SUBSET Sources, PostProcess(T)
  PROVE  Inductive'
<1> DEFINE P == ProcessRx
           last == Length(rpm)
<1>1. /\ TypeOK /\ NoAssertionFails /\ ResultsPending /\ RoomKept /\ FirstKept /\ PeekedFirst
      /\ BuffersAccounted /\ AcceptedReachApplication /\ Running
  BY DEF Inductive, Handoff, PostProcess
<1>2. /\ P \in Managers
      /\ P.fault = "none" /\ P.start = rpm.start /\ P.packet = rpm.packet
      /\ Length(P) = IF validRx /\ validSeq THEN last + 1 ELSE last
      /\ \A k \in 1 .. N : QueuedIndex(P, k) = QueuedIndex(rpm, k)
      /\ \A k \in 1 .. Length(P) :
           P.queue[QueuedIndex(rpm, k)] = IF k <= last THEN rpm.queue[QueuedIndex(rpm, k)] ELSE prevRx
      /\ \A e \in Entries : P.inUse[e] <=> rpm.inUse[e] /\ ~(validRx /\ ~validSeq /\ e = prevRx)
  BY <1>1, ProcessFacts
<1>3. /\ rpm' = rxManagerRemoveAllPackets(P, T)
      /\ phase' = "slot" /\ validRx' = FALSE
      /\ validSeq' = IF validRx THEN FALSE ELSE validSeq
      /\ removals + Cardinality(T) <= MaxRemovals
      /\ removals' = removals + Cardinality(T)
      /\ cutIn' = (cutIn \/ (T # {} /\ app = "popping"))
      /\ settled' = [n \in Sources |-> IF n \in T THEN accepted[n] ELSE settled[n]]
      /\ UNCHANGED <<nextRx, prevRx, app, peeked, accepted>>
  BY <1>2 DEF PostProcess
<1> HIDE DEF P
<1>4. /\ rpm' \in Managers
      /\ rpm'.start = rpm.start /\ rpm'.end = P.end /\ rpm'.packet = rpm.packet
      /\ rpm'.fault \in {"none", "loop"}
  BY <1>2, <1>3, RemoveFacts
<1>5. ASSUME Running'
      PROVE  /\ \A k \in 1 .. Length(P) :
                  rpm'.queue[QueuedIndex(P, k)] =
                    IF /\ P.queue[QueuedIndex(P, k)] # NoEntry
                       /\ P.packet[P.queue[QueuedIndex(P, k)]][1] \in T
                    THEN NoEntry ELSE P.queue[QueuedIndex(P, k)]
             /\ \A e \in Entries :
                  rpm'.inUse[e] <=> /\ P.inUse[e]
                                    /\ ~\E k \in 1 .. Length(P) :
                                          /\ P.queue[QueuedIndex(P, k)] = e
                                          /\ P.packet[e][1] \in T
  BY <1>2, <1>3, <1>5, RemoveFacts DEF Running
<1>6. TypeOK'
  <2>1. Cardinality(T) \in Nat
    BY RxPathAssumption, FS_Subset, FS_CardinalityType
  <2>2. removals' \in 0 .. MaxRemovals
    BY <1>1, <1>3, <2>1, RxPathAssumption DEF TypeOK
  <2>3. settled' \in [Sources -> Nat]
    BY <1>1, <1>3, RxPathAssumption DEF TypeOK
  <2>4. cutIn' \in BOOLEAN /\ validSeq' \in BOOLEAN
    BY <1>1, <1>3 DEF TypeOK
  <2> QED
    BY <1>1, <1>3, <1>4, <2>2, <2>3, <2>4 DEF TypeOK, Managers
<1>7. NoAssertionFails' /\ ResultsPending' /\ RoomKept' /\ ~validRx' /\ ~validSeq'
  BY <1>1, <1>3, <1>4 DEF NoAssertionFails, ResultsPending, RoomKept
<1>8. /\ last \in 0 .. N - 1
      /\ Length(P) \in 0 .. N - 1
      /\ rpm.start # rpm.end => last # 0
      /\ rpm.start = QueuedIndex(rpm, 1)
      /\ rpm'.start = rpm'.end => Length(P) = 0
      /\ Length(rpm)' = Length(P)
      /\ \A k \in 1 .. N : QueuedIndex(rpm, k)' = QueuedIndex(rpm, k)
  <2>1. Length(rpm)' = Length(P) /\ \A k : QueuedIndex(rpm, k)' = QueuedIndex(P, k)
    BY <1>2, <1>4 DEF Length, QueuedIndex
  <2>2. /\ Length(P) \in 0 .. N - 1
        /\ P.start = P.end <=> Length(P) = 0
    BY <1>2, LengthFacts DEF Managers
  <2>3. /\ last \in 0 .. N - 1
        /\ rpm.start = rpm.end <=> last = 0
        /\ rpm.start = QueuedIndex(rpm, 1)
    BY <1>1, LengthFacts DEF TypeOK
  <2> QED
    BY <1>2, <1>4, <2>1, <2>2, <2>3
<1>9. /\ \A k \in 1 .. Length(P) : k \in 1 .. N /\ (k <= last \/ (k = last + 1 /\ validRx /\ validSeq))
      /\ \A k \in 1 .. last : k \in 1 .. Length(P)
      /\ last # 0 => Length(P) # 0
  BY <1>2, <1>8, NType
<1>10. FirstKept'
  BY <1>1, <1>3, <1>8, <1>9 DEF FirstKept
<1>11. ASSUME Running', NEW k \in 1 .. Length(P)
       PROVE  LET e == IF k <= last THEN rpm.queue[QueuedIndex(rpm, k)] ELSE prevRx
              IN  /\ P.queue[QueuedIndex(P, k)] = e
                  /\ rpm'.queue[QueuedIndex(rpm, k)] =
                       IF e # NoEntry /\ rpm.packet[e][1] \in T THEN NoEntry ELSE e
  BY <1>2, <1>5, <1>9, <1>11
<1>12. PeekedFirst'
  <2> SUFFICES ASSUME Running', ~cutIn', app = "peeked"
               PROVE  /\ rpm'.start # rpm'.end
                      /\ peeked.entry \in Entries
                      /\ rpm'.queue[rpm'.start] \in {peeked.entry, NoEntry}
                      /\ rpm'.queue[rpm'.start] = peeked.entry =>
                           rpm'.packet[peeked.entry] = peeked.packet
    BY <1>3 DEF PeekedFirst
  <2>1. /\ rpm.start # rpm.end
        /\ peeked.entry \in Entries
        /\ rpm.queue[rpm.start] \in {peeked.entry, NoEntry}
        /\ rpm.queue[rpm.start] = peeked.entry => rpm.packet[peeked.entry] = peeked.packet
    BY <1>1, <1>3 DEF PeekedFirst
  <2>2. 1 \in 1 .. Length(P) /\ 1 <= last
    BY <1>8, <1>9, <2>1
  <2>3. rpm'.queue[rpm.start] \in {rpm.queue[rpm.start], NoEntry}
    BY <1>8, <1>11, <2>2
  <2>4. peeked.entry # NoEntry
    BY <2>1, NType DEF Entries, NoEntry, N
  <2> QED
    BY <1>4, <1>8, <1>9, <2>1, <2>2, <2>3, <2>4
<1>13. BacklogShape /\ BacklogShape'
  BY <1>1, <1>6, <1>7, BacklogFacts, BacklogFactsNext
<1>14. ASSUME Running', NEW k \in DOMAIN Backlog'
       PROVE  /\ k \in DOMAIN Backlog /\ Backlog'[k] = Backlog[k]
              /\ rpm.packet[Backlog[k]][1] \notin T
              /\ k <= last \/ validSeq
              /\ k <= Length(rpm)'
  <2>1. /\ k \in 1 .. Length(P)
        /\ rpm'.queue[QueuedIndex(rpm, k)] # NoEntry
        /\ ~(app = "popping" /\ k = 1)
        /\ Backlog'[k] = rpm'.queue[QueuedIndex(rpm, k)]
    <3>1. /\ k \in 1 .. Length(rpm)'
          /\ rpm'.queue[QueuedIndex(rpm, k)'] # NoEntry
          /\ ~(app' = "popping" /\ k = 1)
          /\ k <= Length(rpm)'
          /\ Backlog'[k] = rpm'.queue[QueuedIndex(rpm, k)']
      BY <1>7, <1>8, <1>13 DEF BacklogShape
    <3> QED
      BY <1>3, <1>8, <1>9, <3>1
  <2>2. CASE k <= last
    <3>1. rpm'.queue[QueuedIndex(rpm, k)] = rpm.queue[QueuedIndex(rpm, k)]
          /\ rpm.queue[QueuedIndex(rpm, k)] # NoEntry
          /\ rpm.packet[rpm.queue[QueuedIndex(rpm, k)]][1] \notin T
      BY <1>11, <1>14, <2>1, <2>2
    <3>2. k \in 1 .. last
      BY <1>8, <2>1, <2>2
    <3> QED
      BY <1>8, <1>13, <2>1, <2>2, <3>1, <3>2 DEF BacklogShape
  <2>3. CASE ~(k <= last)
    <3>1. k = last + 1 /\ validRx /\ validSeq /\ k > last
      BY <1>8, <1>9, <2>1, <2>3
    <3>2. rpm'.queue[QueuedIndex(rpm, k)] = prevRx /\ rpm.packet[prevRx][1] \notin T
      BY <1>11, <1>14, <2>1, <2>3
    <3> QED
      BY <1>8, <1>13, <2>1, <3>1, <3>2 DEF BacklogShape
  <2> QED
    BY <2>2, <2>3
<1>15. ASSUME Running', NEW k \in DOMAIN Backlog, k <= last \/ validSeq
       PROVE  /\ k \in 1 .. Length(P)
              /\ P.queue[QueuedIndex(P, k)] = Backlog[k]
              /\ rpm.packet[Backlog[k]][1] \notin T => k \in DOMAIN Backlog'
  <2>1. k \in 1 .. N /\ Backlog[k] \in Entries /\ Backlog[k] # NoEntry
    BY <1>13, NType DEF BacklogShape, Entries, NoEntry, N
  <2>2. /\ k \in 1 .. Length(P)
        /\ Backlog[k] = IF k <= last THEN rpm.queue[QueuedIndex(rpm, k)] ELSE prevRx
        /\ ~(app = "popping" /\ k = 1)
    <3>1. CASE k <= last
      <4>1. k \in 1 .. last
        BY <1>8, <2>1, <3>1
      <4>2. k # last + 1
        BY <1>8, <3>1
      <4> QED
        BY <1>9, <1>13, <3>1, <4>1, <4>2 DEF BacklogShape
    <3>2. CASE ~(k <= last)
      <4>1. k = last + 1 /\ validRx /\ validSeq /\ k > last
        BY <1>8, <1>13, <1>15, <2>1, <3>2, NType DEF BacklogShape
      <4>2. k \in 1 .. Length(P)
        BY <1>2, <1>8, <4>1
      <4>3. app = "popping" => k # 1
        BY <1>1, <1>8, <4>1 DEF FirstKept
      <4> QED
        BY <1>13, <3>2, <4>1, <4>2, <4>3 DEF BacklogShape
    <3> QED
      BY <3>1, <3>2
  <2>3. P.queue[QueuedIndex(P, k)] = Backlog[k]
    BY <1>11, <1>15, <2>2
  <2>4. ASSUME rpm.packet[Backlog[k]][1] \notin T
        PROVE  k \in DOMAIN Backlog'
    <3>1. rpm'.queue[QueuedIndex(rpm, k)'] # NoEntry
      BY <1>8, <1>11, <1>15, <2>1, <2>2, <2>4
    <3>2. k \in 1 .. Length(rpm)' /\ ~(app' = "popping" /\ k = 1)
      BY <1>3, <1>8, <2>2
    <3> QED
      BY <1>13, <3>1, <3>2 DEF BacklogShape
  <2> QED
    BY <2>2, <2>3, <2>4
<1>16. ASSUME Running', ~cutIn', NEW e \in Entries
       PROVE  rpm'.inUse[e] <=> /\ rpm.inUse[e]
                                /\ \A k \in DOMAIN Backlog : Backlog[k] = e => k \in DOMAIN Backlog'
  <2>1. rpm'.inUse[e] <=> /\ P.inUse[e]
                          /\ ~\E k \in 1 .. Length(P) : /\ P.queue[QueuedIndex(P, k)] = e
                                                        /\ rpm.packet[e][1] \in T
    BY <1>2, <1>5, <1>16
  <2>2. P.inUse[e] <=> rpm.inUse[e] /\ ~(validRx /\ ~validSeq /\ e = prevRx)
    BY <1>2
  <2>3. ASSUME rpm'.inUse[e], NEW k \in DOMAIN Backlog, Backlog[k] = e
        PROVE  k \in DOMAIN Backlog'
    <3>1. CASE k <= last \/ validSeq
      BY <1>15, <1>16, <2>1, <2>3, <3>1
    <3>2. CASE ~(k <= last) /\ ~validSeq
      <4>1. k > last
        BY <1>8, <1>13, <3>2, NType DEF BacklogShape
      <4>2. validRx /\ e = prevRx
        BY <1>13, <2>3, <4>1 DEF BacklogShape
      <4> QED
        BY <2>1, <2>2, <2>3, <3>2, <4>2
    <3> QED
      BY <3>1, <3>2
  <2>4. ASSUME rpm.inUse[e], \A k \in DOMAIN Backlog : Backlog[k] = e => k \in DOMAIN Backlog'
        PROVE  rpm'.inUse[e]
    <3>1. ASSUME validRx, ~validSeq, e = prevRx
          PROVE  FALSE
      <4>1. last + 1 \in DOMAIN Backlog
        BY <1>13, <3>1 DEF BacklogShape
      <4>2. last + 1 > last /\ ~(last + 1 <= last)
        BY <1>8
      <4>3. Backlog[last + 1] = e
        BY <1>13, <3>1, <4>1, <4>2 DEF BacklogShape
      <4> QED
        BY <1>14, <1>16, <2>4, <3>1, <4>1, <4>2, <4>3
    <3>2. ASSUME NEW k \in 1 .. Length(P), P.queue[QueuedIndex(P, k)] = e, rpm.packet[e][1] \in T
          PROVE  FALSE
      <4>1. app # "popping"
        BY <1>3, <1>16, <3>2
      <4>2. e = IF k <= last THEN rpm.queue[QueuedIndex(rpm, k)] ELSE prevRx
        BY <1>11, <1>16, <3>2
      <4>3. e # NoEntry
        BY NType DEF Entries, NoEntry, N
      <4>4. k \in DOMAIN Backlog /\ Backlog[k] = e
        <5>1. CASE k <= last
          <6>1. k \in 1 .. last
            BY <1>8, <3>2, <5>1
          <6> QED
            BY <1>8, <1>13, <4>1, <4>2, <4>3, <5>1, <6>1 DEF BacklogShape
        <5>2. CASE ~(k <= last)
          <6>1. k = last + 1 /\ k > last /\ validRx
            BY <1>8, <1>9, <3>2, <5>2
          <6> QED
            BY <1>8, <1>13, <4>2, <5>2, <6>1 DEF BacklogShape
        <5> QED
          BY <5>1, <5>2
      <4> QED
        BY <1>14, <1>16, <2>4, <3>2, <4>4
    <3> QED
      BY <2>1, <2>2, <2>4, <3>1, <3>2
  <2> QED
    BY <2>1, <2>2, <2>3, <2>4
<1>17. ASSUME Running', ~cutIn'
       PROVE  Accounted' /\ \A n \in Sources : Ordered(n)'
  <2>1. Accounted /\ \A n \in Sources : Ordered(n)
    BY <1>1, <1>3, <1>17, Conditions
  <2>2. /\ \A k \in DOMAIN Backlog : k \in Int /\ k + 0 = k /\ k - 0 = k
        /\ \A k \in DOMAIN Backlog' : k \in Int /\ k + 0 = k /\ k - 0 = k
    BY <1>13, NType DEF BacklogShape
  <2>3. Accounted'
    <3>1. \A k \in DOMAIN Backlog' : k + 0 \in DOMAIN Backlog /\ Backlog'[k] = Backlog[k + 0]
      BY <1>14, <1>17, <2>2
    <3>2. \A e \in Entries :
            rpm'.inUse[e] <=> /\ rpm.inUse[e]
                              /\ \A k \in DOMAIN Backlog : Backlog[k] = e => k - 0 \in DOMAIN Backlog'
      BY <1>16, <1>17, <2>2
    <3>3. nextRx' = nextRx /\ 0 \in Nat
      BY <1>3
    <3> QED
      BY <1>13, <2>1, <3>1, <3>2, <3>3, BuffersMove
  <2>4. ASSUME NEW n \in Sources
        PROVE  Ordered(n)'
    <3>1. \A k \in DOMAIN Backlog' : Number(k)' = Number(k) /\ rpm'.packet[Backlog'[k]][1] = rpm.packet[Backlog[k]][1]
      BY <1>4, <1>14, <1>17 DEF Number
    <3>2. \A k \in Owed(n)' : k \in DOMAIN Backlog' /\ k \in Owed(n) /\ n \notin T
      BY <1>14, <1>17, <3>1 DEF Owed
    <3>3. CASE n \in T
      <4>1. Owed(n)' = {}
        BY <3>2, <3>3
      <4>2. settled'[n] = accepted[n] /\ accepted'[n] = accepted[n] /\ accepted[n] \in Nat
        BY <1>1, <1>3, <3>3, RxPathAssumption DEF TypeOK
      <4>3. settled'[n] + 1 .. accepted'[n] = {}
        BY <4>2
      <4> QED
        BY <4>1, <4>2, <4>3 DEF Ordered
    <3>4. CASE n \notin T
      <4>1. settled'[n] = settled[n] /\ accepted'[n] = accepted[n]
        BY <1>3, <3>4
      <4>2. \A k \in Owed(n) : k \in DOMAIN Backlog'
        BY <1>15, <1>17, <3>4 DEF Owed
      <4>3. \A k \in Owed(n) : k \in DOMAIN Backlog /\ k \in Owed(n)'
        BY <1>14, <1>17, <3>1, <4>2 DEF Owed
      <4>4. \A k \in Owed(n)' : k + 0 \in Owed(n) /\ Number(k)' = Number(k + 0)
        BY <2>2, <3>1, <3>2
      <4>5. \A k \in Owed(n) : k - 0 \in Owed(n)'
        BY <2>2, <4>3
      <4>6. Ordered(n) /\ 0 \in Nat
        BY <2>1
      <4> QED
        BY <1>13, <4>1, <4>4, <4>5, <4>6, OrderMove
    <3> QED
      BY <3>3, <3>4
  <2> QED
    BY <2>3, <2>4
<1> QED
  BY <1>6, <1>7, <1>10, <1>12, <1>17, ConditionsNext DEF Inductive, Handoff

(* The application takes the first d places out of the queue; none of them *)
(* is in the backlog.                                                      *)
LEMMA TakeStep ==
  ASSUME Inductive, Running, NEW d \in 0 .. Length(rpm),
         rpm' = [rpm EXCEPT !.start = QueuedIndex(rpm, d + 1)],
         app' # "popping",
         \A k \in 1 .. d : \/ rpm.queue[QueuedIndex(rpm, k)] = NoEntry
                           \/ app = "popping" /\ k = 1,
         app = "popping" => d >= 1,
         peeked' \in [packet : Packets, entry : Entries \cup {NoEntry}],
         app' \in {"idle", "peeked"},
         UNCHANGED <<nextRx, prevRx, validRx, validSeq, phase, removals, cutIn, accepted, settled>>,
         PeekedFirst'
  PROVE  Inductive'
<1> DEFINE last == Length(rpm)
<1>1. /\ TypeOK /\ NoAssertionFails /\ ResultsPending /\ RoomKept /\ FirstKept /\ PeekedFirst
      /\ BuffersAccounted /\ AcceptedReachApplication
  BY DEF Inductive, Handoff
<1>2. /\ rpm'.start = QueuedIndex(rpm, d + 1)
      /\ rpm'.end = rpm.end /\ rpm'.queue = rpm.queue /\ rpm'.packet = rpm.packet
      /\ rpm'.inUse = rpm.inUse /\ rpm'.fault = rpm.fault
      /\ rpm.start \in Indices /\ rpm.end \in Indices
  BY <1>1 DEF TypeOK
<1>3. /\ rpm'.start \in Indices
      /\ Length(rpm)' = last - d
      /\ \A k \in 1 .. Length(rpm)' : QueuedIndex(rpm, k)' = QueuedIndex(rpm, k + d)
      /\ ~Full(rpm) => ~Full(rpm)'
  <2>1. ASSUME NEW s, s.start = QueuedIndex(rpm, d + 1), s.end = rpm.end
        PROVE  /\ s.start \in Indices
               /\ Length(s) = last - d
               /\ \A k \in 1 .. Length(s) : QueuedIndex(s, k) = QueuedIndex(rpm, k + d)
               /\ ~Full(rpm) => ~Full(s)
    BY <1>2, <2>1, RingTake
  <2> QED
    BY <1>2, <2>1
<1>4. TypeOK'
  BY <1>1, <1>2, <1>3 DEF TypeOK
<1>5. NoAssertionFails' /\ ResultsPending' /\ RoomKept' /\ FirstKept'
  BY <1>1, <1>2, <1>3 DEF NoAssertionFails, ResultsPending, RoomKept, FirstKept
<1>6. BacklogShape /\ BacklogShape'
  BY <1>1, <1>4, <1>5, BacklogFacts, BacklogFactsNext
<1>7. last \in 0 .. N - 1 /\ d \in Nat /\ last - d \in Nat
  BY <1>6, NType DEF BacklogShape
<1>8. ASSUME NEW k \in DOMAIN Backlog'
      PROVE  /\ k \in Int /\ k + d \in DOMAIN Backlog /\ Backlog'[k] = Backlog[k + d]
             /\ k <= Length(rpm)' <=> k + d <= last
  <2>1. CASE k <= Length(rpm)'
    <3>1. /\ k \in 1 .. Length(rpm)'
          /\ rpm'.queue[QueuedIndex(rpm, k)'] # NoEntry
          /\ Backlog'[k] = rpm'.queue[QueuedIndex(rpm, k)']
      BY <1>3, <1>6, <1>7, <2>1 DEF BacklogShape
    <3>2. k + d \in 1 .. last /\ k + d <= last /\ k \in Int
      BY <1>3, <1>7, <3>1
    <3>3. ~(app = "popping" /\ k + d = 1)
      BY <1>3, <1>7, <3>1
    <3>4. rpm.queue[QueuedIndex(rpm, k + d)] # NoEntry /\ Backlog'[k] = rpm.queue[QueuedIndex(rpm, k + d)]
      BY <1>2, <1>3, <3>1
    <3> QED
      BY <1>6, <2>1, <3>2, <3>3, <3>4 DEF BacklogShape
  <2>2. CASE ~(k <= Length(rpm)')
    <3>1. k \in 1 .. N /\ k > Length(rpm)'
      BY <1>3, <1>6, <1>7, <2>2, NType DEF BacklogShape
    <3>2. k = Length(rpm)' + 1 /\ validRx /\ Backlog'[k] = prevRx
      BY <1>6, <3>1 DEF BacklogShape
    <3>3. k + d = last + 1 /\ k + d > last /\ ~(k + d <= last) /\ k \in Int
      BY <1>3, <1>7, <3>2
    <3> QED
      BY <1>6, <2>2, <3>2, <3>3 DEF BacklogShape
  <2> QED
    BY <2>1, <2>2
<1>9. ASSUME NEW k \in DOMAIN Backlog
      PROVE  k \in Int /\ k - d \in DOMAIN Backlog'
  <2>1. k \in 1 .. N
    BY <1>6 DEF BacklogShape
  <2>2. CASE k <= last
    <3>1. /\ rpm.queue[QueuedIndex(rpm, k)] # NoEntry
          /\ ~(app = "popping" /\ k = 1)
      <4>1. k # last + 1
        BY <1>7, <2>1, <2>2
      <4> QED
        BY <1>6, <4>1 DEF BacklogShape
    <3>2. k \notin 1 .. d
      BY <3>1
    <3>3. k - d \in 1 .. Length(rpm)' /\ (k - d) + d = k
      BY <1>3, <1>7, <2>1, <2>2, <3>2
    <3>4. rpm'.queue[QueuedIndex(rpm, k - d)'] # NoEntry
      <4> DEFINE j == k - d
      <4>1. QueuedIndex(rpm, j)' = QueuedIndex(rpm, j + d)
        BY <1>3, <3>3
      <4> QED
        BY <1>2, <3>1, <3>3, <4>1
    <3> QED
      BY <1>6, <2>1, <3>3, <3>4 DEF BacklogShape
  <2>3. CASE ~(k <= last)
    <3>1. k = last + 1 /\ validRx
      BY <1>6, <1>7, <2>1, <2>3 DEF BacklogShape
    <3>2. k - d = Length(rpm)' + 1
      BY <1>3, <1>7, <3>1
    <3> QED
      BY <1>6, <2>1, <3>1, <3>2 DEF BacklogShape
  <2> QED
    BY <2>2, <2>3
<1>10. ASSUME Running', ~cutIn'
       PROVE  Accounted' /\ \A n \in Sources : Ordered(n)'
  <2>1. Accounted /\ \A n \in Sources : Ordered(n)
    BY <1>1, <1>10, Conditions
  <2>2. Accounted'
    <3>1. \A k \in DOMAIN Backlog' : k + d \in DOMAIN Backlog /\ Backlog'[k] = Backlog[k + d]
      BY <1>8
    <3>2. \A e \in Entries :
            rpm'.inUse[e] <=> /\ rpm.inUse[e]
                              /\ \A k \in DOMAIN Backlog : Backlog[k] = e => k - d \in DOMAIN Backlog'
      BY <1>2, <1>9
    <3> QED
      BY <1>6, <1>7, <2>1, <3>1, <3>2, BuffersMove
  <2>3. ASSUME NEW n \in Sources
        PROVE  Ordered(n)'
    <3>1. \A k \in DOMAIN Backlog' : Number(k)' = Number(k + d) /\ rpm'.packet[Backlog'[k]] = rpm.packet[Backlog[k + d]]
      BY <1>2, <1>8 DEF Number
    <3>2. \A k \in DOMAIN Backlog' : k \in Owed(n)' <=> k + d \in Owed(n)
      BY <1>8, <3>1 DEF Owed
    <3>3. \A k \in Owed(n)' : k \in DOMAIN Backlog'
      BY DEF Owed
    <3>4. \A k \in Owed(n) : k \in DOMAIN Backlog
      BY DEF Owed
    <3>5. \A k \in Owed(n)' : k + d \in Owed(n) /\ Number(k)' = Number(k + d)
      BY <3>1, <3>2, <3>3
    <3>6. \A k \in Owed(n) : k - d \in DOMAIN Backlog' /\ (k - d) + d = k
      BY <1>7, <1>9, <3>4
    <3>7. \A k \in Owed(n) : k - d \in Owed(n)'
      BY <3>2, <3>6
    <3>8. accepted'[n] = accepted[n] /\ settled'[n] = settled[n] /\ Ordered(n)
      BY <2>1
    <3> QED
      BY <1>6, <1>7, <3>5, <3>7, <3>8, OrderMove
  <2> QED
    BY <2>2, <2>3
<1> QED
  BY <1>4, <1>5, <1>10, ConditionsNext DEF Inductive, Handoff

LEMMA PeekStep ==
  ASSUME Inductive, Peek
  PROVE  Inductive'
<1> DEFINE last == Length(rpm)
           valid == {k \in 1 .. last : rpm.queue[QueuedIndex(rpm, k)] # NoEntry}
           d == IF valid = {} THEN last ELSE Min(valid) - 1
           entry == rpm.queue[rpm'.start]
           empty == rpm'.start = rpm.end
<1>1. TypeOK /\ Running /\ app = "idle"
  BY DEF Inductive, Peek
<1>2. /\ last \in 0 .. N - 1
      /\ rpm.end = QueuedIndex(rpm, last + 1)
  BY <1>1, LengthFacts DEF TypeOK
<1>3. valid # {} => Min(valid) \in valid /\ \A k \in valid : Min(valid) <= k
  <2>1. valid \subseteq Nat
    BY <1>2
  <2> QED
    BY <2>1, MinIsLeast
<1>4. rpm' = [rpm EXCEPT !.start = IF valid = {} THEN rpm.end ELSE QueuedIndex(rpm, Min(valid))]
  BY DEF Peek, peekNextRxDataPacket
<1>5. /\ d \in 0 .. last
      /\ rpm' = [rpm EXCEPT !.start = QueuedIndex(rpm, d + 1)]
      /\ \A k \in 1 .. d : k \in 1 .. last /\ rpm.queue[QueuedIndex(rpm, k)] = NoEntry
  <2>1. CASE valid = {}
    <3>1. d = last
      BY <2>1
    <3> HIDE DEF d
    <3> QED
      BY <1>2, <1>4, <2>1, <3>1
  <2>2. CASE valid # {}
    <3>1. d = Min(valid) - 1 /\ Min(valid) \in 1 .. last
      BY <1>3, <2>2
    <3>2. d + 1 = Min(valid) /\ d \in 0 .. last
      BY <1>2, <3>1
    <3>3. ASSUME NEW k \in 1 .. d
          PROVE  k \in 1 .. last /\ rpm.queue[QueuedIndex(rpm, k)] = NoEntry
      <4>1. k \in 1 .. last /\ ~(Min(valid) <= k)
        BY <1>2, <3>1, <3>2
      <4> QED
        BY <1>3, <2>2, <4>1
    <3> HIDE DEF d
    <3> QED
      BY <1>4, <2>2, <3>2, <3>3
  <2> QED
    BY <2>1, <2>2
<1>6. /\ rpm'.start = QueuedIndex(rpm, d + 1)
      /\ rpm'.end = rpm.end /\ rpm'.queue = rpm.queue /\ rpm'.packet = rpm.packet
  BY <1>1, <1>5 DEF TypeOK
<1>7. /\ app' = IF empty THEN "idle" ELSE "peeked"
      /\ peeked' = IF empty THEN peeked
                   ELSE [packet |-> IF entry = NoEntry THEN Blank ELSE rpm.packet[entry], entry |-> entry]
      /\ UNCHANGED <<nextRx, prevRx, validRx, validSeq, phase, removals, cutIn, accepted, settled>>
  <2>1. peekNextRxDataPacket(rpm) = rpm'
    BY DEF Peek
  <2>2. rpm'.queue[rpm'.start] = entry /\ (rpm'.start = rpm'.end <=> empty)
    BY <1>6
  <2> HIDE DEF entry, empty
  <2> QED
    BY <2>1, <2>2 DEF Peek
<1>8. rpm'.start \in Indices
  <2> HIDE DEF d
  <2>1. d + 1 \in 1 .. N
    BY <1>2, <1>5, NType
  <2> QED
    BY <1>1, <1>6, <2>1, QueuedIndexValue DEF TypeOK
<1>9. entry \in Entries \cup {NoEntry} /\ (entry # NoEntry => rpm.packet[entry] \in Packets)
  BY <1>1, <1>8 DEF TypeOK
<1>10. Blank \in Packets
  BY RxPathAssumption DEF Blank, Packets
<1>11. peeked' \in [packet : Packets, entry : Entries \cup {NoEntry}]
  BY <1>1, <1>7, <1>9, <1>10 DEF TypeOK
<1>12. PeekedFirst'
  <2> SUFFICES ASSUME ~empty
               PROVE  /\ entry \in Entries
                      /\ peeked'.entry = entry /\ peeked'.packet = rpm.packet[entry]
    BY <1>6, <1>7 DEF PeekedFirst
  <2>1. valid # {}
    BY <1>1, <1>4, <1>6 DEF TypeOK
  <2>2. Min(valid) \in valid /\ rpm'.start = QueuedIndex(rpm, Min(valid))
    BY <1>1, <1>3, <1>4, <2>1 DEF TypeOK
  <2>3. entry # NoEntry
    BY <2>2
  <2> QED
    BY <1>7, <1>9, <2>3
<1> HIDE DEF d
<1> QED
  BY <1>1, <1>5, <1>7, <1>11, <1>12, TakeStep

LEMMA PopDoneStep ==
  ASSUME Inductive, PopDone
  PROVE  Inductive'
<1>1. TypeOK /\ Running /\ app = "popping" /\ rpm.start # rpm.end
  BY DEF Inductive, PopDone, Handoff, FirstKept
<1>2. /\ Length(rpm) \in 0 .. N - 1 /\ Length(rpm) # 0
  BY <1>1, LengthFacts DEF TypeOK
<1>3. rpm' = [rpm EXCEPT !.start = IncrAndWrap(rpm.start)]
  BY <1>1 DEF PopDone, popAdvance
<1>4. IncrAndWrap(rpm.start) = QueuedIndex(rpm, 1 + 1)
  <2>1. 2 \in 1 .. N
    BY NType
  <2>2. QueuedIndex(rpm, 2) = IF rpm.start + 2 - 1 < N THEN rpm.start + 2 - 1 ELSE rpm.start + 2 - 1 - N
    BY <1>1, <2>1, QueuedIndexValue DEF TypeOK
  <2>3. rpm.start \in 0 .. N - 1
    BY <1>1 DEF TypeOK, Indices, N
  <2>4. IncrAndWrap(rpm.start) = IF rpm.start >= N - 1 THEN 0 ELSE rpm.start + 1
    BY DEF IncrAndWrap, N
  <2> QED
    BY <2>2, <2>3, <2>4, NType
<1>5. 1 \in 0 .. Length(rpm)
  BY <1>2
<1>6. rpm' = [rpm EXCEPT !.start = QueuedIndex(rpm, 1 + 1)]
  BY <1>3, <1>4
<1>7. /\ app' = "idle" /\ peeked' = peeked
      /\ UNCHANGED <<nextRx, prevRx, validRx, validSeq, phase, removals, cutIn, accepted, settled>>
  BY DEF PopDone
<1>8. PeekedFirst' /\ peeked' \in [packet : Packets, entry : Entries \cup {NoEntry}]
  BY <1>1, <1>7 DEF PeekedFirst, TypeOK
<1>9. \A k \in 1 .. 1 : k = 1
  OBVIOUS
<1> QED
  BY <1>1, <1>5, <1>6, <1>7, <1>8, <1>9, TakeStep

(* The packet freed is the one peeked at, and the oldest that its node is  *)
(* owed.                                                                   *)
LEMMA PopStep ==
  ASSUME Inductive, Pop
  PROVE  Inductive'
<1> DEFINE last == Length(rpm)
           entry == rpm.queue[rpm.start]
<1>1. /\ TypeOK /\ NoAssertionFails /\ ResultsPending /\ RoomKept /\ FirstKept /\ PeekedFirst
      /\ BuffersAccounted /\ AcceptedReachApplication
      /\ Running /\ app = "peeked"
  BY DEF Inductive, Handoff, Pop
<1>2. /\ app' = "popping"
      /\ rpm' = popFree(rpm)
      /\ settled' = IF rpm'.fault # "none" THEN settled ELSE [settled EXCEPT ![peeked.packet[1]] = @ + 1]
      /\ UNCHANGED <<nextRx, prevRx, validRx, validSeq, phase, peeked, removals, cutIn, accepted>>
  BY DEF Pop
<1>3. /\ rpm.start \in Indices /\ rpm.end \in Indices /\ entry \in Entries \cup {NoEntry}
      /\ rpm.inUse \in [Entries -> BOOLEAN] /\ rpm.fault = "none"
  BY <1>1 DEF TypeOK, Running
<1>4. \/ rpm' = [rpm EXCEPT !.fault = "null"]
      \/ /\ rpm.start # rpm.end /\ entry # NoEntry
         /\ rpm' = [rpm EXCEPT !.inUse[entry] = FALSE]
  BY <1>2 DEF popFree, Fault
<1> HIDE DEF entry
<1>5. /\ rpm'.start = rpm.start /\ rpm'.end = rpm.end /\ rpm'.queue = rpm.queue
      /\ rpm'.packet = rpm.packet
      /\ rpm'.fault \in {"none", "null"}
      /\ Running' => /\ rpm.start # rpm.end /\ entry \in Entries
                     /\ rpm'.inUse = [rpm.inUse EXCEPT ![entry] = FALSE]
  BY <1>1, <1>3, <1>4 DEF TypeOK, Running
<1>6. TypeOK'
  <2>1. settled' \in [Sources -> Nat]
    <3> DEFINE x == peeked.packet[1]
    <3>1. settled \in [Sources -> Nat]
      BY <1>1 DEF TypeOK
    <3>2. settled' = settled \/ settled' = [settled EXCEPT ![x] = settled[x] + 1]
      BY <1>2
    <3> HIDE DEF x
    <3>3. CASE x \in Sources
      BY <3>1, <3>2, <3>3
    <3>4. CASE x \notin Sources
      <4>1. [settled EXCEPT ![x] = settled[x] + 1] = settled
        BY <3>1, <3>4
      <4> QED
        BY <3>1, <3>2, <4>1
    <3> QED
      BY <3>3, <3>4
  <2>2. rpm' \in Managers
    <3>1. rpm \in Managers
      BY <1>1 DEF TypeOK, Managers
    <3>2. CASE rpm' = [rpm EXCEPT !.fault = "null"]
      BY <3>1, <3>2 DEF Managers
    <3>3. CASE entry # NoEntry /\ rpm' = [rpm EXCEPT !.inUse[entry] = FALSE]
      <4>1. [rpm.inUse EXCEPT ![entry] = FALSE] \in [Entries -> BOOLEAN]
        BY <1>3
      <4> QED
        BY <3>1, <3>3, <4>1 DEF Managers
    <3> QED
      BY <1>4, <3>2, <3>3
  <2> QED
    BY <1>1, <1>2, <2>1, <2>2 DEF TypeOK, Managers
<1>7. NoAssertionFails' /\ ResultsPending' /\ RoomKept' /\ FirstKept' /\ PeekedFirst'
  BY <1>1, <1>2, <1>5 DEF NoAssertionFails, ResultsPending, RoomKept, FirstKept, PeekedFirst, Full
<1>8. BacklogShape /\ BacklogShape'
  BY <1>1, <1>6, <1>7, BacklogFacts, BacklogFactsNext
<1>9. Length(rpm)' = last /\ \A k : QueuedIndex(rpm, k)' = QueuedIndex(rpm, k)
  BY <1>5 DEF Length, QueuedIndex
<1>10. ASSUME Running', ~cutIn'
       PROVE  Accounted' /\ \A n \in Sources : Ordered(n)'
  <2>1. Accounted /\ \A n \in Sources : Ordered(n)
    BY <1>1, <1>2, <1>10, Conditions
  <2>2. /\ rpm.start # rpm.end /\ entry \in Entries /\ entry # NoEntry
        /\ entry = peeked.entry /\ rpm.packet[entry] = peeked.packet
    <3>1. entry # NoEntry /\ entry \in Entries /\ rpm.start # rpm.end
      BY <1>5, <1>10, NType DEF Entries, NoEntry, N
    <3>2. cutIn = cutIn'
      BY <1>2
    <3> QED
      BY <1>1, <1>10, <3>1, <3>2 DEF PeekedFirst, entry
  <2>3. /\ last \in 0 .. N - 1 /\ last # 0
        /\ rpm.start = QueuedIndex(rpm, 1)
    BY <1>3, <2>2, LengthFacts
  <2>4. 1 \in DOMAIN Backlog /\ Backlog[1] = entry
    <3>1. 1 \in 1 .. last /\ 1 <= last
      BY <2>3
    <3> QED
      BY <1>1, <1>8, <2>2, <2>3, <3>1 DEF BacklogShape, entry
  <2>5. \A k : k \in DOMAIN Backlog' <=> k \in DOMAIN Backlog /\ k # 1
    <3>1. 1 # last + 1
      BY <2>3
    <3>2. \A k : k \in DOMAIN Backlog <=> \/ k \in 1 .. last /\ rpm.queue[QueuedIndex(rpm, k)] # NoEntry
                                          \/ k = last + 1 /\ validRx
      BY <1>1, <1>8 DEF BacklogShape
    <3>3. \A k : k \in DOMAIN Backlog' <=>
                   \/ k \in 1 .. Length(rpm)' /\ rpm'.queue[QueuedIndex(rpm, k)'] # NoEntry /\ k # 1
                   \/ k = Length(rpm)' + 1 /\ validRx'
      BY <1>2, <1>8 DEF BacklogShape
    <3>4. \A k : k \in DOMAIN Backlog' <=>
                   \/ k \in 1 .. last /\ rpm.queue[QueuedIndex(rpm, k)] # NoEntry /\ k # 1
                   \/ k = last + 1 /\ validRx
      BY <1>2, <1>5, <1>9, <3>3
    <3> QED
      BY <3>1, <3>2, <3>4
  <2>6. \A k \in DOMAIN Backlog' : Backlog'[k] = Backlog[k]
    <3> SUFFICES ASSUME NEW k \in DOMAIN Backlog' PROVE Backlog'[k] = Backlog[k]
      OBVIOUS
    <3>1. k \in DOMAIN Backlog /\ k \in 1 .. N
      BY <1>8, <2>5 DEF BacklogShape
    <3>2. CASE k <= last
      BY <1>5, <1>8, <1>9, <3>1, <3>2 DEF BacklogShape
    <3>3. CASE k > last
      BY <1>2, <1>8, <1>9, <3>1, <3>3 DEF BacklogShape
    <3> QED
      BY <2>3, <3>1, <3>2, <3>3, NType
  <2>7. /\ \A k \in DOMAIN Backlog : k \in Int /\ k >= 1 /\ k + 0 = k /\ k - 0 = k
        /\ \A k \in DOMAIN Backlog' : k \in Int /\ k + 0 = k /\ k - 0 = k
    BY <1>8, NType DEF BacklogShape
  <2>8. Accounted'
    <3>1. \A k \in DOMAIN Backlog' : k + 0 \in DOMAIN Backlog /\ Backlog'[k] = Backlog[k + 0]
      BY <2>5, <2>6, <2>7
    <3>2. \A j, k \in DOMAIN Backlog : Backlog[j] = Backlog[k] => j = k
      BY <2>1 DEF Accounted, IsInjective
    <3>3. \A e \in Entries : rpm'.inUse[e] <=> rpm.inUse[e] /\ e # entry
      BY <1>3, <1>5, <1>10
    <3>4. \A e \in Entries : e # entry <=> \A k \in DOMAIN Backlog : Backlog[k] = e => k # 1
      BY <2>4, <3>2
    <3>5. \A e \in Entries :
            rpm'.inUse[e] <=> /\ rpm.inUse[e]
                              /\ \A k \in DOMAIN Backlog : Backlog[k] = e => k - 0 \in DOMAIN Backlog'
      BY <2>5, <2>7, <3>3, <3>4
    <3>6. nextRx' = nextRx /\ 0 \in Nat
      BY <1>2
    <3> QED
      BY <1>8, <2>1, <3>1, <3>5, <3>6, BuffersMove
  <2>9. ASSUME NEW n \in Sources
        PROVE  Ordered(n)'
    <3>1. \A k \in DOMAIN Backlog' : Number(k)' = Number(k) /\ rpm'.packet[Backlog'[k]] = rpm.packet[Backlog[k]]
      BY <1>5, <2>6 DEF Number
    <3>2. \A k : k \in Owed(n)' <=> k \in Owed(n) /\ k # 1
      BY <1>2, <1>9, <2>5, <3>1 DEF Owed
    <3>3. \A k \in Owed(n) : k \in DOMAIN Backlog
      BY DEF Owed
    <3>4. 1 \in Owed(n) <=> peeked.packet[1] = n
      <4>1. 1 <= last
        BY <2>3
      <4> QED
        BY <2>2, <2>4, <4>1 DEF Owed
    <3>5. /\ settled[n] <= accepted[n]
          /\ {Number(k) : k \in Owed(n)} = settled[n] + 1 .. accepted[n]
          /\ \A j, k \in Owed(n) : j < k => Number(j) < Number(k)
      BY <2>1 DEF Ordered
    <3>6. settled[n] \in Nat /\ accepted[n] \in Nat /\ accepted'[n] = accepted[n]
      BY <1>1, <1>2, RxPathAssumption DEF TypeOK
    <3>7. CASE peeked.packet[1] # n
      <4>1. settled'[n] = settled[n]
        BY <1>1, <1>2, <3>7 DEF TypeOK
      <4>2. Owed(n)' = Owed(n)
        BY <3>2, <3>4, <3>7
      <4>3. \A k \in Owed(n) : k \in DOMAIN Backlog' /\ Number(k)' = Number(k)
        BY <2>5, <3>1, <3>3, <3>4, <3>7
      <4>4. {Number(k)' : k \in Owed(n)'} = {Number(k) : k \in Owed(n)}
        BY <4>2, <4>3
      <4>5. \A j, k \in Owed(n)' : j < k => Number(j)' < Number(k)'
        BY <3>5, <4>2, <4>3
      <4> QED
        BY <3>5, <3>6, <4>1, <4>4, <4>5 DEF Ordered
    <3>8. CASE peeked.packet[1] = n
      <4>1. settled'[n] = settled[n] + 1
        <5>1. rpm'.fault = "none"
          BY <1>10 DEF Running
        <5> QED
          BY <1>1, <1>2, <3>8, <5>1 DEF TypeOK
      <4>2. 1 \in Owed(n)
        BY <3>4, <3>8
      <4>3. \A k \in Owed(n) : Number(k) \in settled[n] + 1 .. accepted[n]
        BY <3>5
      <4>4. settled[n] + 1 \in settled[n] + 1 .. accepted[n]
        BY <3>6, <4>2, <4>3
      <4>5. PICK k \in Owed(n) : Number(k) = settled[n] + 1
        BY <3>5, <4>4
      <4>6. k = 1
        <5>1. SUFFICES ASSUME 1 < k PROVE FALSE
          BY <2>7, <3>3
        <5>2. Number(1) < Number(k)
          BY <3>5, <4>2, <5>1
        <5> QED
          BY <3>6, <4>2, <4>3, <4>5, <5>2
      <4>7. Number(1) = settled[n] + 1
        BY <4>5, <4>6
      <4>8. ASSUME NEW j \in Owed(n), j # 1
            PROVE  Number(j) # settled[n] + 1
        <5>1. 1 < j
          BY <2>7, <3>3, <4>8
        <5>2. Number(1) < Number(j)
          BY <3>5, <4>2, <5>1
        <5> QED
          BY <3>6, <4>7, <5>2
      <4>9. \A j \in Owed(n)' : j \in Owed(n) /\ j # 1 /\ Number(j)' = Number(j)
        BY <2>5, <3>1, <3>2, <3>3
      <4>10. {Number(j)' : j \in Owed(n)'} = {Number(j) : j \in Owed(n)} \ {settled[n] + 1}
        <5>1. \A j \in Owed(n)' : Number(j)' \in {Number(i) : i \in Owed(n)} \ {settled[n] + 1}
          BY <4>8, <4>9
        <5>2. \A j \in Owed(n) : Number(j) # settled[n] + 1 => j \in Owed(n)' /\ Number(j)' = Number(j)
          BY <3>2, <4>7, <4>9
        <5> QED
          BY <5>1, <5>2
      <4>11. {Number(j)' : j \in Owed(n)'} = (settled[n] + 1) + 1 .. accepted[n]
        BY <3>5, <3>6, <4>10
      <4>12. \A i, j \in Owed(n)' : i < j => Number(i)' < Number(j)'
        BY <3>5, <4>9
      <4>13. settled[n] + 1 <= accepted[n]
        BY <3>6, <4>4
      <4> QED
        BY <3>6, <4>1, <4>11, <4>12, <4>13 DEF Ordered
    <3> QED
      BY <3>7, <3>8
  <2> QED
    BY <2>8, <2>9
<1> QED
  BY <1>6, <1>7, <1>10, ConditionsNext DEF Inductive, Handoff

(***************************************************************************)
(* The theorems                                                            *)
(***************************************************************************)

LEMMA InitInductive == Init => Inductive
<1> SUFFICES ASSUME Init PROVE Inductive
  OBVIOUS
<1> DEFINE empty == rxManagerInit(Blank)
<1>1. /\ nextRx = findFreeRxPacket(empty)
      /\ rpm = [empty EXCEPT !.inUse[nextRx] = TRUE]
      /\ prevRx = NoEntry /\ validRx = FALSE /\ validSeq = FALSE /\ phase = "slot" /\ app = "idle"
      /\ peeked = [packet |-> Blank, entry |-> NoEntry]
      /\ removals = 0 /\ cutIn = FALSE
      /\ accepted = [n \in Sources |-> 0]
      /\ settled = [n \in Sources |-> 0]
  BY DEF Init
<1>2. Blank \in Packets
  BY RxPathAssumption DEF Blank, Packets
<1>3. 0 \in Indices /\ 1 \in Entries /\ Entries \subseteq Nat
  BY NType DEF Indices, Entries, N
<1>4. /\ empty.inUse = [e \in Entries |-> FALSE]
      /\ empty.start = 0 /\ empty.end = 0
  BY DEF rxManagerInit
<1>5. nextRx \in Entries
  <2>1. ~Full(empty)
    BY <1>4, NType DEF Full, IncrAndWrap, N
  <2>2. {e \in Entries : ~empty.inUse[e]} = Entries
    BY <1>4
  <2>3. nextRx = Min(Entries)
    BY <1>1, <1>3, <2>1, <2>2 DEF findFreeRxPacket
  <2> QED
    BY <1>3, <2>3, MinIsLeast
<1>6. /\ rpm = [inUse  |-> [e \in Entries |-> e = nextRx],
                packet |-> [e \in Entries |-> Blank],
                queue  |-> [i \in Indices |-> NoEntry],
                start  |-> 0,
                end    |-> 0,
                fault  |-> "none"]
  <2>1. rpm = [empty EXCEPT !.inUse = [empty.inUse EXCEPT ![nextRx] = TRUE]]
    BY <1>1
  <2>2. [empty.inUse EXCEPT ![nextRx] = TRUE] = [e \in Entries |-> e = nextRx]
    BY <1>4, <1>5
  <2> QED
    BY <2>1, <2>2 DEF rxManagerInit
<1>7. TypeOK
  <2>1. rpm \in Managers
    BY <1>2, <1>3, <1>6 DEF Managers
  <2>2. 0 \in 0 .. MaxRemovals /\ 0 \in 0 .. MaxAccepted
    BY RxPathAssumption
  <2>3. accepted \in [Sources -> 0 .. MaxAccepted] /\ settled \in [Sources -> Nat]
    BY <1>1, <2>2
  <2> QED
    BY <1>1, <1>2, <1>5, <2>1, <2>2, <2>3 DEF TypeOK, Managers
<1>8. NoAssertionFails /\ Handoff
  BY <1>1, <1>6 DEF NoAssertionFails, Handoff, ResultsPending, RoomKept, FirstKept, PeekedFirst
<1>9. DOMAIN Backlog = {}
  <2>1. BacklogShape
    BY <1>7, <1>8, BacklogFacts DEF Handoff
  <2>2. Length(rpm) = 0
    BY <1>6 DEF Length
  <2>3. 1 .. 0 = {}
    OBVIOUS
  <2>4. \A k : k \notin DOMAIN Backlog
    BY <1>1, <2>1, <2>2, <2>3 DEF BacklogShape
  <2> QED
    BY <2>4
<1>10. Accounted
  BY <1>5, <1>6, <1>9 DEF Accounted, IsInjective, Range
<1>11. ASSUME NEW n \in Sources
       PROVE  Ordered(n)
  <2>1. Owed(n) = {}
    BY <1>9 DEF Owed
  <2>2. settled[n] = 0 /\ accepted[n] = 0 /\ 0 + 1 .. 0 = {}
    BY <1>1
  <2> QED
    BY <2>1, <2>2 DEF Ordered
<1> QED
  BY <1>7, <1>8, <1>10, <1>11, Conditions DEF Inductive

LEMMA NextInductive == Inductive /\ [Next]_vars => Inductive'
<1> SUFFICES ASSUME Inductive, [Next]_vars PROVE Inductive'
  OBVIOUS
<1>1. CASE RejectPacket
  BY <1>1, RejectStep
<1>2. CASE \E n \in Sources : \E isData, inSeq \in BOOLEAN : QuickProcessPrevRx(n, isData, inSeq)
  BY <1>2, QuickStep
<1>3. CASE \E timedOut \in SUBSET Sources : PostProcess(timedOut)
  BY <1>3, PostStep
<1>4. CASE Peek
  BY <1>4, PeekStep
<1>5. CASE Pop
  BY <1>5, PopStep
<1>6. CASE PopDone
  BY <1>6, PopDoneStep
<1>7. CASE UNCHANGED vars
  BY <1>7, UnchangedStep
<1> QED
  BY <1>1, <1>2, <1>3, <1>4, <1>5, <1>6, <1>7 DEF Next

(* Handlers and application together keep the inductive invariant; with it *)
(* what the pre-processing leaves for the post-processing, and peek for    *)
(* pop, is still true when it is used.                                     *)
THEOREM HandoffHolds == Spec => [](Inductive /\ Handoff)
<1>1. Inductive => Handoff
  BY DEF Inductive
<1> QED
  BY <1>1, InitInductive, NextInductive, PTL DEF Spec

(* Every variable and every field of the tRxPacketManager keeps its type. *)
THEOREM TypeCorrect == Spec => []TypeOK
<1>1. Inductive => TypeOK
  BY DEF Inductive
<1> QED
  BY <1>1, HandoffHolds, PTL

(* No interleaving of the handlers with peek and pop appends to a full     *)
(* queue or takes an entry out of an empty one, whatever the size of the   *)
(* queue.                                                                  *)
THEOREM AssertionsHold == Spec => []NoAssertionFails
<1>1. Inductive => NoAssertionFails
  BY DEF Inductive
<1> QED
  BY <1>1, HandoffHolds, PTL

(* Every receive buffer has one owner, or is free. *)
THEOREM BuffersHaveOneOwner == Spec => []BuffersAccounted
<1>1. Inductive => BuffersAccounted
  BY DEF Inductive
<1> QED
  BY <1>1, HandoffHolds, PTL

(* Every packet whose sequence number was accepted reaches the application *)
(* once and in order, unless its node is removed.                          *)
THEOREM AcceptedAreDelivered == Spec => []AcceptedReachApplication
<1>1. Inductive => AcceptedReachApplication
  BY DEF Inductive
<1> QED
  BY <1>1, HandoffHolds, PTL

(* Nothing overwrites the packet that peek returned before pop frees it. *)
THEOREM PeekedStaysIntact == Spec => []PeekedIntact
<1>1. Inductive => PeekedIntact
  <2> SUFFICES ASSUME Inductive, Running, ~cutIn, app = "peeked", rpm.queue[rpm.start] = peeked.entry
               PROVE  /\ rpm.inUse[peeked.entry]
                      /\ peeked.entry # nextRx
                      /\ rpm.packet[peeked.entry] = peeked.packet
    BY DEF PeekedIntact
  <2>1. TypeOK /\ ResultsPending /\ PeekedFirst /\ BuffersAccounted
    BY DEF Inductive, Handoff
  <2>2. /\ rpm.start # rpm.end /\ peeked.entry \in Entries
        /\ rpm.packet[peeked.entry] = peeked.packet
    BY <2>1 DEF PeekedFirst
  <2>3. BacklogShape /\ Accounted
    BY <2>1, BacklogFacts, Conditions
  <2>4. /\ rpm.start = QueuedIndex(rpm, 1)
        /\ Length(rpm) \in 0 .. N - 1 /\ Length(rpm) # 0
    BY <2>1, <2>2, LengthFacts DEF TypeOK
  <2>5. 1 \in 1 .. Length(rpm) /\ 1 <= Length(rpm) /\ peeked.entry # NoEntry
    BY <2>2, <2>4, NType DEF Entries, NoEntry, N
  <2>6. 1 \in DOMAIN Backlog /\ Backlog[1] = peeked.entry
    BY <2>3, <2>4, <2>5 DEF BacklogShape
  <2> QED
    BY <2>2, <2>3, <2>6 DEF Accounted, Range
<1> QED
  BY <1>1, HandoffHolds, PTL
=============================================================================
