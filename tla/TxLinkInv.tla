------------------------------ MODULE TxLinkInv ------------------------------
(***************************************************************************)
(* The inductive invariant of TxLink: why the sliding window protocol      *)
(* delivers every packet intact and in order.  TLC checks it on small      *)
(* instances, and TxLinkProofs proves it for every number of peers,        *)
(* packet entries and sequence numbers.                                    *)
(***************************************************************************)
EXTENDS TxLink

(* The destination in an entry's header; a node's packets have only one.   *)
Owner(i) == IF IsMaster THEN tm.dst[i] ELSE CHOOSE p \in Peers : TRUE

(* An entry whose packet is queued: in use, and not just allocated. *)
Live(i) == tm.inUse[i] /\ i # tm.allocated

Holds(i, d, n) == Live(i) /\ Owner(i) = d /\ tm.seq[i] = n

(* How far a sequence number is behind the start of the window to d. *)
InWindow(d, n) == Dist(tm.start[d], n) < Unacked(d)

(* The number d accepts next. *)
Expected(d) == expectedSeqNum(rxSeqNum[d])

Undelivered(d) == sent[d] - Len(delivered[d])
-----------------------------------------------------------------------------
(* The store *)

AllocatedInUse == tm.allocated # NoSlot => tm.inUse[tm.allocated]

(* Live entries hold queued packets, and no two the same one. *)
LiveEntries ==
  /\ \A i \in Slots : Live(i) =>
       /\ Owner(i) \in Peers
       /\ InWindow(Owner(i), tm.seq[i])
       /\ tm.data[i] = Packet(Owner(i), Number(Owner(i), tm.seq[i]))
  /\ \A i, j \in Slots :
       Live(i) /\ Live(j) /\ Owner(i) = Owner(j) /\ tm.seq[i] = tm.seq[j] => i = j

(* Every queued packet has its live entry. *)
QueuedHaveEntries ==
  \A d \in Peers : \A n \in SeqNums : InWindow(d, n) => \E i \in Slots : Holds(i, d, n)

(* The header left in an entry that is not live can be that of a queued    *)
(* packet once the sequence numbers have wrapped, but only in an entry     *)
(* behind the live one: findPacketEntry comes to the live one first.       *)
StaleEntriesBehind ==
  \A k, j \in Slots :
    k < j /\ ~Live(k) /\ Live(j) => ~(Owner(k) = Owner(j) /\ tm.seq[k] = tm.seq[j])

(* allocatePacketEntry takes the first free entry.  An entry before it was *)
(* live then; if it has been freed since, its number is not the one that   *)
(* the packet being written will get.                                      *)
FreedBeforeAllocated ==
  tm.allocated # NoSlot =>
    \A k \in Slots : k < tm.allocated /\ ~Live(k) =>
      Owner(k) \in Peers /\ tm.seq[k] # tm.end[Owner(k)]

StoreInv ==
  /\ AllocatedInUse
  /\ LiveEntries
  /\ QueuedHaveEntries
  /\ StaleEntriesBehind
  /\ FreedBeforeAllocated
-----------------------------------------------------------------------------
(* The window *)

NextInWindow ==
  \A d \in Peers : Dist(tm.start[d], tm.next[d]) <= Unacked(d)

(* What the peer accepted lies in the window, or just before it. *)
ReceiverInv ==
  \A d \in Peers :
    /\ Dist(tm.start[d], Expected(d)) <= Unacked(d)
    /\ sent[d] - Unacked(d) + Dist(tm.start[d], Expected(d)) = Len(delivered[d])

(* How far into the window the ack of a number leads. *)
AckPlace(d, ack) == Dist(tm.start[d], expectedSeqNum(ack))

(* The acks on their way are old values of rxSeqNum, in order, and none    *)
(* older than the start of the window.                                     *)
AckInv ==
  \A d \in Peers : \A k \in 1 .. Len(ackWire[d]) :
    /\ AckPlace(d, ackWire[d][k]) <= AckPlace(d, rxSeqNum[d])
    /\ \A j \in 1 .. k : AckPlace(d, ackWire[d][j]) <= AckPlace(d, ackWire[d][k])
-----------------------------------------------------------------------------
(* A packet chosen or on the wire was delivered before, so recently that   *)
(* its number is not expected again; or it is still to be delivered, and   *)
(* then its entry is live.                                                 *)

Old(d, n) == Dist(n, Expected(d)) \in 1 .. MaxPacketEntries
New(d, n) == Dist(Expected(d), n) < Undelivered(d)

WireInv ==
  wire # NoPacket =>
    /\ wire.dst \in Peers
    /\ wire.slot \in Slots
    /\ \/ Old(wire.dst, wire.seq)
       \/ New(wire.dst, wire.seq) /\ Holds(wire.slot, wire.dst, wire.seq)

(* Before a chosen packet gets to the wire, its peer can still accept the  *)
(* one that is on the wire.                                                *)
ChosenInv ==
  nextTxPacket # NoSlot =>
    LET d == Owner(nextTxPacket)
        n == tm.seq[nextTxPacket]
    IN  /\ d \in Peers
        /\ \/ /\ Old(d, n)
              /\ wire.dst = d /\ wire.seq = Expected(d)
                   => Dist(n, Expected(d)) < MaxPacketEntries
           \/ New(d, n) /\ Live(nextTxPacket)
-----------------------------------------------------------------------------
(* Why the protocol works; see the parts. *)
Inductive ==
  /\ TypeOK
  /\ NoAssertionFails
  /\ ActiveIffQueued
  /\ StoreInv
  /\ NextInWindow
  /\ ReceiverInv
  /\ AckInv
  /\ WireInv
  /\ ChosenInv
=============================================================================
