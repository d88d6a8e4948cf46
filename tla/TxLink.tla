------------------------------- MODULE TxLink -------------------------------
(***************************************************************************)
(* One sender's sliding window protocol over the bus: the application      *)
(* thread that submits packets, the interrupt handlers that choose, send   *)
(* and acknowledge them, the peers that receive them, and a link that      *)
(* loses packets and acks.  The sender is the master with its nodes as     *)
(* peers, or a node whose only peer is the master; membership is stable.   *)
(*                                                                         *)
(* The slot schedule is abstracted to any interleaving of the handlers'    *)
(* steps: a packet is chosen at the end of one slot, sent in a later one,  *)
(* and its acks come back whenever the peer is given a slot.  The payload  *)
(* is read from the sender's memory while the packet is on the wire (DMA), *)
(* its header when transmission starts.                                    *)
(***************************************************************************)
EXTENDS TxManager

CONSTANTS MaxSent,  \* bound: packets submitted to one destination
          MaxAcks   \* acks of one peer on their way: one received, one on the wire

ASSUME TxLinkAssumption == MaxSent \in Nat /\ MaxAcks \in Nat \ {0}

VARIABLES
  tm,            \* the sender's tTxManager
  nextTxPacket,  \* the entry chosen for the sender's next slot, or NoSlot
  wire,          \* the data packet being transmitted, or NoPacket
  rxSeqNum,      \* rxSeqNum[p]: the last sequence number peer p accepted
  ackWire,       \* ackWire[p]: the acks p has sent that are not yet processed
  sent,          \* sent[p]: how many packets the application submitted to p
  delivered      \* delivered[p]: the payloads p accepted

vars == <<tm, nextTxPacket, wire, rxSeqNum, ackWire, sent, delivered>>

(* A packet's header, and the entry whose memory the DMA reads. *)
NoPacket == [dst |-> NoPeer, seq |-> 0, slot |-> NoSlot]

Init ==
  /\ tm = initTxManager
  /\ nextTxPacket = NoSlot
  /\ wire = NoPacket
  /\ rxSeqNum  = [p \in Peers |-> NullSequenceNum]
  /\ ackWire   = [p \in Peers |-> << >>]
  /\ sent      = [p \in Peers |-> 0]
  /\ delivered = [p \in Peers |-> << >>]
-----------------------------------------------------------------------------
(* The application thread.  It submits what it allocated before it         *)
(* allocates again, as the API requires.                                   *)

AllocateTxPacket ==
  /\ ~tm.fault
  /\ tm.allocated = NoSlot
  /\ FreeSlots(tm) # {}
  /\ tm' = allocateTxPacket(tm)
  /\ UNCHANGED <<nextTxPacket, wire, rxSeqNum, ackWire, sent, delivered>>

SubmitAllocatedTxPacket(d) ==
  /\ ~tm.fault
  /\ tm.allocated # NoSlot
  /\ sent[d] < MaxSent
  /\ tm' = submitAllocatedTxPacket(tm, 1, d, Packet(d, sent[d] + 1))
  /\ sent' = [sent EXCEPT ![d] = @ + 1]
  /\ UNCHANGED <<nextTxPacket, wire, rxSeqNum, ackWire, delivered>>
-----------------------------------------------------------------------------
(* The sender's handlers *)

(* masterProcessTx and nodeProcessTx.  A node keeps a data packet that it  *)
(* had no slot for; the master sends what it chose in the very next slot.  *)
ProcessTx ==
  /\ ~tm.fault
  /\ nextTxPacket = NoSlot
  /\ LET next == getNextTxDataPacket(tm)
     IN  /\ tm' = next.tm
         /\ nextTxPacket' = next.entry
  /\ UNCHANGED <<wire, rxSeqNum, ackWire, sent, delivered>>

(* A slot starts: the chosen entry's memory is handed to the DMA. *)
Transmit ==
  /\ ~tm.fault
  /\ nextTxPacket # NoSlot
  /\ wire = NoPacket
  /\ wire' = [dst  |-> IF IsMaster THEN tm.dst[nextTxPacket] ELSE CHOOSE p \in Peers : TRUE,
              seq  |-> tm.seq[nextTxPacket],
              slot |-> nextTxPacket]
  /\ nextTxPacket' = NoSlot
  /\ UNCHANGED <<tm, rxSeqNum, ackWire, sent, delivered>>

(* The handler that finds an ack from p in what it received. *)
RxAck(p) ==
  /\ ~tm.fault
  /\ ackWire[p] # << >>
  /\ tm' = rxAckSeqNum(tm, p, Head(ackWire[p]))
  /\ ackWire' = [ackWire EXCEPT ![p] = Tail(@)]
  /\ UNCHANGED <<nextTxPacket, wire, rxSeqNum, sent, delivered>>
-----------------------------------------------------------------------------
(* The peers and the link *)

(* The packet arrives intact and the peer has a receive buffer for it. *)
Receive(p) ==
  /\ wire # NoPacket
  /\ wire.dst = p
  /\ rxSeqNum' = [rxSeqNum EXCEPT ![p] = rxPacketCheckAndUpdateSeqNum(@, wire.seq)]
  /\ delivered' = IF wire.seq = expectedSeqNum(rxSeqNum[p])
                  THEN [delivered EXCEPT ![p] = Append(@, tm.data[wire.slot])]
                  ELSE delivered
  /\ wire' = NoPacket
  /\ UNCHANGED <<tm, nextTxPacket, ackWire, sent>>

(* A CRC error, or no receive buffer is free: the peer drops the packet. *)
LosePacket ==
  /\ wire # NoPacket
  /\ wire' = NoPacket
  /\ UNCHANGED <<tm, nextTxPacket, rxSeqNum, ackWire, sent, delivered>>

(* Every packet p sends carries the number it accepted last. *)
SendAckExpected(p) ==  \* seeded fault: acks what it has not received
  /\ Len(ackWire[p]) < MaxAcks
  /\ ackWire' = [ackWire EXCEPT ![p] = Append(@, expectedSeqNum(rxSeqNum[p]))]
  /\ UNCHANGED <<tm, nextTxPacket, wire, rxSeqNum, sent, delivered>>
SendAck(p) ==
  /\ Len(ackWire[p]) < MaxAcks
  /\ ackWire' = [ackWire EXCEPT ![p] = Append(@, rxSeqNum[p])]
  /\ UNCHANGED <<tm, nextTxPacket, wire, rxSeqNum, sent, delivered>>

LoseAck(p) ==
  /\ ackWire[p] # << >>
  /\ ackWire' = [ackWire EXCEPT ![p] = Tail(@)]
  /\ UNCHANGED <<tm, nextTxPacket, wire, rxSeqNum, sent, delivered>>
-----------------------------------------------------------------------------
Next ==
  \/ AllocateTxPacket
  \/ \E d \in Peers : SubmitAllocatedTxPacket(d)
  \/ ProcessTx
  \/ Transmit
  \/ \E p \in Peers : RxAck(p) \/ Receive(p) \/ SendAck(p) \/ LoseAck(p)
  \/ LosePacket

Spec == Init /\ [][Next]_vars

(* The bus keeps running slots, so the handlers run again and again, and   *)
(* neither acks nor the packet a peer is waiting for are lost forever.     *)
(* Nothing is assumed of the application.                                  *)
Fairness ==
  /\ WF_vars(ProcessTx)
  /\ WF_vars(Transmit)
  /\ WF_vars(LosePacket \/ \E p \in Peers : Receive(p))
  /\ \A p \in Peers :
       /\ WF_vars(SendAck(p))
       /\ SF_vars(RxAck(p))
       /\ SF_vars(wire.seq = expectedSeqNum(rxSeqNum[p]) /\ Receive(p))

FairSpec == Spec /\ Fairness
-----------------------------------------------------------------------------
(* Properties *)

Queued(d)  == {s \in SeqNums : validSeqNum(tm, d, s)}
Unacked(d) == Dist(tm.start[d], tm.end[d])

(* Which packet of d a queued sequence number stands for. *)
Number(d, s) == sent[d] + 1 - Dist(s, tm.end[d])

Payloads == (Peers \cup {NoPeer}) \X (0 .. MaxSent)

(* Every variable, and every field of the sender's tTxManager, has its     *)
(* type.                                                                   *)
TypeOK ==
  /\ tm \in TxManagers(Payloads, SeqNums)
  /\ nextTxPacket \in Slots \cup {NoSlot}
  /\ wire \in [dst : Peers \cup {NoPeer}, seq : SeqNums, slot : Slots] \cup {NoPacket}
  /\ rxSeqNum \in [Peers -> 0 .. NullSequenceNum]
  /\ ackWire \in [Peers -> Seq(0 .. NullSequenceNum)]
  /\ sent \in [Peers -> 0 .. MaxSent]
  /\ delivered \in [Peers -> Seq(Payloads)]

(* No interleaving of application and handlers trips an assertion of       *)
(* txManager.c or common.c: findPacketEntry always finds its packet,       *)
(* txSeqNumNext stays inside the queued range, nodeQueueRemove finds the   *)
(* destination, and there is room for it in nodeQueueAdd.                  *)
NoAssertionFails == ~tm.fault

(* The store holds exactly the packets of the windows: findPacketEntry's   *)
(* first match for a queued number is the packet submitted under that      *)
(* number, in spite of the stale headers of entries allocated but not yet  *)
(* filled, and an entry in use is queued or is the allocated one, so none  *)
(* leaks.                                                                  *)
StoreMatchesWindows ==
  /\ \A d \in Peers : \A s \in Queued(d) :
       /\ Matching(tm, d, s) # {}
       /\ tm.data[findPacketEntry(tm, d, s)] = Packet(d, Number(d, s))
  /\ \A i \in Slots : tm.inUse[i] =>
       \/ i = tm.allocated
       \/ \E d \in Peers : \E s \in Queued(d) : i = findPacketEntry(tm, d, s)

(* The round robin queue lists the destinations that have packets queued,  *)
(* each once: submitAllocatedTxPacket adds a destination only when its     *)
(* window was empty and rxAckSeqNum removes it only when it becomes empty. *)
ActiveIffQueued ==
  IsMaster =>
    /\ \A d \in Peers : Contains(tm.active.nodeIds, d) <=> tm.start[d] # tm.end[d]
    /\ \A j, k \in 1 .. numNodes(tm.active) :
         tm.active.nodeIds[j] = tm.active.nodeIds[k] => j = k

(* "Packets are retained for retransmission until acknowledged"            *)
(* (README.md): what rxAckSeqNum has freed, the peer has accepted, and     *)
(* what the peer has accepted, getNextTxPacketForNode has sent.            *)
RetainedUntilDelivered ==
  \A d \in Peers : /\ sent[d] - Unacked(d) <= Len(delivered[d])
                   /\ Len(delivered[d]) <= sent[d]

(* An entry can be freed and refilled by the application while its packet  *)
(* is still chosen, or on the wire; whenever the peer would accept the     *)
(* packet, the memory still holds the payload that belongs to the header.  *)
PacketOnWireIntact ==
  LET d == wire.dst
  IN  wire # NoPacket /\ wire.seq = expectedSeqNum(rxSeqNum[d])
        => tm.data[wire.slot] = Packet(d, Len(delivered[d]) + 1)

(* The refinement mapping: a packet counts as handed over when submit has  *)
(* returned, and as delivered when the peer has accepted it.               *)
Channel == INSTANCE ReliableChannel
             WITH Peers <- Peers, Packet <- Packet, sent <- sent, delivered <- delivered

(* The protocol implements the reliable channel: no loss, no duplicate, no *)
(* reordering and no damaged payload, whatever the link drops.             *)
ReliableDelivery == Channel!Spec

(* Once a peer has accepted the first packet of the session, it catches up *)
(* with everything submitted to it (the application stops at MaxSent): a   *)
(* window that ran into its end is always restarted, and no destination is *)
(* starved by the others.                                                  *)
DeliveredOnceStarted ==
  \A d \in Peers : delivered[d] # << >> ~> Len(delivered[d]) = sent[d]

(* "All packets will arrive without loss" (README.md), the first one of a  *)
(* session included.                                                       *)
AllDelivered ==
  \A d \in Peers : sent[d] > 0 ~> Len(delivered[d]) = sent[d]
=============================================================================
