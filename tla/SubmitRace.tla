----------------------------- MODULE SubmitRace -----------------------------
(***************************************************************************)
(* The master's application thread in the middle of a submission, and the  *)
(* handlers that interrupt it (txManager.c: "called by independent thread  *)
(* (lower priority thread)").  A step of the application is one access to  *)
(* memory that a handler can see; a handler runs to its end.  Nodes leave  *)
(* and their IDs are given out again while packets to them are submitted.  *)
(*                                                                         *)
(* The bus is reduced to what the windows see of it: a packet that is      *)
(* chosen is received or lost at once, and a node acks what it accepted    *)
(* last.  TxLink models the slots in between.                              *)
(*                                                                         *)
(* Some interruptions the code does not survive.  cutIn records which of   *)
(* them have happened, and the properties say what holds without them.     *)
(***************************************************************************)
EXTENDS TxManager

CONSTANT NoDst  \* no submission is under way

ASSUME SubmitRaceAssumption == IsMaster /\ NoDst \notin Peers

VARIABLES
  tm,         \* the master's tTxManager
  connected,  \* the nodes whose masterNodeTimeToLive is not 0
  rxSeqNum,   \* rxSeqNum[p]: the last sequence number node p accepted
  pc,         \* where the application is
  dst,        \* the destination of its submission
  packet,     \* its entry
  scan,       \* the place its search of activeTxNodes has reached
  behind,     \* the ID in the place behind the last one of activeTxNodes
  removed,    \* dst has left since the submission started
  cutIn       \* history: the interruptions that happened

vars == <<tm, connected, rxSeqNum, pc, dst, packet, scan, behind, removed, cutIn>>

Init ==
  /\ tm = initTxManager
  /\ connected = {}
  /\ rxSeqNum = [p \in Peers |-> NullSequenceNum]
  /\ pc = "idle"
  /\ dst = NoDst
  /\ packet = NoSlot
  /\ scan = 0
  /\ behind = NoPeer
  /\ removed = FALSE
  /\ cutIn = {}

Submitting == pc \notin {"idle", "allocated"}
-----------------------------------------------------------------------------
(* The application thread: allocateTxPacket, then submitAllocatedTxPacket  *)
(* one access at a time, from pc = here to pc = there.                     *)

Step(here, there) == ~tm.fault /\ pc = here /\ pc' = there

(* If the queue of destinations is full there is no packet to submit, and  *)
(* the entry stays in use.                                                 *)
AllocateTxPacket ==
  LET full == QueueFull(tm.active)
  IN  /\ Step("idle", IF full THEN "idle" ELSE "allocated")
      /\ FreeSlots(tm) # {}
      /\ tm' = allocateTxPacket(tm)
      /\ cutIn' = IF full THEN cutIn \cup {"leak"} ELSE cutIn
      /\ UNCHANGED <<connected, rxSeqNum, dst, packet, behind, scan, removed>>

(* The node has left: the entry is forgotten, and stays in use. *)
SubmitToAbsent(d) ==
  /\ Step("allocated", "idle")
  /\ d \notin connected
  /\ tm' = submitAllocatedTxPacket(tm, 0, d, Torn)
  /\ cutIn' = cutIn \cup {"leak"}
  /\ UNCHANGED <<connected, rxSeqNum, dst, packet, behind, scan, removed>>

CheckTimeToLive(d) ==
  /\ Step("allocated", "checked")
  /\ d \in connected
  /\ dst' = d
  /\ packet' = tm.allocated
  /\ removed' = FALSE
  /\ UNCHANGED <<tm, connected, rxSeqNum, behind, cutIn, scan>>

WriteDst ==
  /\ Step("checked", "addressed")
  /\ tm' = [tm EXCEPT !.dst[packet] = dst]
  /\ UNCHANGED <<connected, rxSeqNum, dst, packet, behind, scan, removed, cutIn>>

WriteSeqNum ==
  /\ Step("addressed", "numbered")
  /\ tm' = [tm EXCEPT !.seq[packet] = tm.end[dst]]
  /\ UNCHANGED <<connected, rxSeqNum, dst, packet, behind, scan, removed, cutIn>>

(* INCR_SEQUENCE_NUM: the increment is one write, the wrap another. *)
IncrementEnd ==
  /\ Step("numbered", "incremented")
  /\ tm' = [tm EXCEPT !.end[dst] = @ + 1]
  /\ UNCHANGED <<connected, rxSeqNum, dst, packet, behind, scan, removed, cutIn>>

WrapNever ==  \* seeded fault
  /\ Step("incremented", "wrapped")
  /\ UNCHANGED <<tm, connected, rxSeqNum, dst, packet, behind, scan, removed, cutIn>>
WrapEnd ==
  /\ Step("incremented", "wrapped")
  /\ tm' = [tm EXCEPT !.end[dst] = IF @ >= MaxSequenceNum THEN 0 ELSE @]
  /\ UNCHANGED <<connected, rxSeqNum, dst, packet, behind, scan, removed, cutIn>>

(* The window was empty: dst has to go on the queue. *)
CompareStart ==
  LET wasEmpty == tm.seq[packet] = tm.start[dst]
  IN  /\ Step("wrapped", IF wasEmpty THEN "searching" ELSE "queued")
      /\ tm' = IF wasEmpty /\ QueueFull(tm.active) THEN Faulty(tm) ELSE tm
      /\ scan' = 0
      /\ UNCHANGED <<connected, rxSeqNum, dst, packet, behind, removed, cutIn>>

(* nodeQueueAdd: the search, one place at a time, the write behind the     *)
(* last place, and the new length.                                         *)
SearchOn ==
  /\ Step("searching", "searching")
  /\ scan < numNodes(tm.active) /\ tm.active.nodeIds[scan + 1] # dst
  /\ scan' = scan + 1
  /\ UNCHANGED <<tm, connected, rxSeqNum, dst, packet, behind, removed, cutIn>>

SearchEnds ==
  /\ Step("searching", IF scan < numNodes(tm.active) THEN "queued" ELSE "absent")
  /\ scan < numNodes(tm.active) => tm.active.nodeIds[scan + 1] = dst
  /\ scan' = 0
  /\ UNCHANGED <<tm, connected, rxSeqNum, dst, packet, behind, removed, cutIn>>

WriteNodeId ==
  /\ Step("absent", "written")
  /\ behind' = dst
  /\ UNCHANGED <<tm, connected, rxSeqNum, dst, packet, scan, removed, cutIn>>

IncrementNumNodes ==
  /\ Step("written", "queued")
  /\ tm' = [tm EXCEPT !.active.nodeIds = Append(@, behind)]
  /\ behind' = NoPeer
  /\ UNCHANGED <<connected, rxSeqNum, dst, packet, scan, removed, cutIn>>

ClearAllocated ==
  /\ Step("queued", "cleared")
  /\ tm' = [tm EXCEPT !.allocated = NoSlot]
  /\ UNCHANGED <<connected, rxSeqNum, dst, packet, behind, scan, removed, cutIn>>

(* masterTxManagerRemoveNode: whatever names the node in its header goes. *)
removeNodeKeepPackets(t, d) ==  \* seeded fault: the entries stay in use
  [t EXCEPT !.active = nodeQueueRemoveIfExists(@, d),
            !.start[d] = 0, !.end[d] = 0, !.next[d] = 0, !.pause[d] = 0]
removeNodeKeepWindow(t, d) ==  \* seeded fault: the numbers stay
  [t EXCEPT !.active = nodeQueueRemoveIfExists(@, d),
            !.inUse  = [i \in Slots |-> @[i] /\ t.dst[i] # d]]
masterTxManagerRemoveNode(t, d) ==
  [t EXCEPT !.active = nodeQueueRemoveIfExists(@, d),
            !.inUse  = [i \in Slots |-> @[i] /\ t.dst[i] # d],
            !.start[d] = 0, !.end[d] = 0, !.next[d] = 0, !.pause[d] = 0]

(* The time to live is checked again, and the node removed again. *)
Return(remove) ==
  /\ Step("cleared", "idle")
  /\ tm' = IF remove THEN masterTxManagerRemoveNode(tm, dst) ELSE tm
  /\ dst' = NoDst
  /\ packet' = NoSlot
  /\ removed' = FALSE
  /\ UNCHANGED <<connected, rxSeqNum, behind, cutIn, scan>>

RecheckNever == Return(FALSE)  \* seeded fault
RecheckTimeToLive == Return(dst \notin connected)

(* masterResetTxCredits, which the same thread calls. *)
ClearBuffers ==
  /\ ~tm.fault
  /\ ~Submitting
  /\ \E i \in Slots : tm.inUse[i]
  /\ tm' = [tm EXCEPT !.inUse = [i \in Slots |-> FALSE]]
  /\ cutIn' = cutIn \cup {"clear"}
  /\ UNCHANGED <<connected, rxSeqNum, pc, dst, packet, behind, scan, removed>>
-----------------------------------------------------------------------------
(* The handlers *)

(* The place behind the last one, when the queue may have been shifted. *)
BehindAfter(old, new) ==
  IF Len(new.nodeIds) < Len(old.nodeIds) /\ pc = "written" THEN Last(old.nodeIds) ELSE behind

(* The interruptions that harm, for a handler that takes the manager to    *)
(* new and looks at the window of node p, or of every node:                *)
(*   shift   the queue shifts during the search, or between the write of   *)
(*           the ID and that of the length                                 *)
(*   empty   the window that was found empty, or first filled, is acked in *)
(*           full before its node is put on the queue                      *)
(*   wrap    txSeqNumEnd is read between its increment and its wrap        *)
(*   orphan  a node's packet is used after the node was removed            *)
(*   header  the header in the entry being written names a queued packet:  *)
(*           an old one whose number is used again, or the new destination *)
(*           with the old number                                           *)
Interrupts(new, P) ==
  {w \in {"shift", "empty", "wrap", "orphan", "header"} :
     CASE w = "shift"  -> /\ pc = "written" \/ scan > 0
                          /\ numNodes(new.active) < numNodes(tm.active)
       [] w = "empty"  -> /\ pc = "searching" /\ Contains(tm.active.nodeIds, dst)
                          /\ ~Contains(new.active.nodeIds, dst) /\ ~removed
       [] w = "wrap"   -> dst \in P /\ pc = "incremented" /\ tm.end[dst] = MaxSequenceNum
       [] w = "orphan" -> dst \in P /\ removed
       [] w = "header" -> /\ pc \in {"allocated", "checked", "addressed"}
                          /\ tm.dst[tm.allocated] \in P
                          /\ validSeqNum(tm, tm.dst[tm.allocated], tm.seq[tm.allocated])}

(* masterProcessTx: a packet is chosen, and its node receives it or not. *)
ProcessTx(received) ==
  /\ ~tm.fault
  /\ LET next == masterGetNextTxDataPacket(tm)
         p    == tm.dst[next.entry]
     IN  /\ tm' = next.tm
         /\ rxSeqNum' = IF received /\ next.entry # NoSlot
                        THEN [rxSeqNum EXCEPT ![p] =
                                rxPacketCheckAndUpdateSeqNum(@, tm.seq[next.entry])]
                        ELSE rxSeqNum
         /\ cutIn' = cutIn \cup Interrupts(next.tm, Range(tm.active.nodeIds))
  /\ UNCHANGED <<connected, pc, dst, packet, behind, scan, removed>>

(* masterProcessRx of a packet from p. *)
RxAck(p) ==
  /\ ~tm.fault
  /\ tm' = rxAckSeqNum(tm, p, rxSeqNum[p])
  /\ behind' = BehindAfter(tm.active, tm'.active)
  /\ cutIn' = cutIn \cup Interrupts(tm', {p})
  /\ UNCHANGED <<connected, rxSeqNum, pc, dst, packet, scan, removed>>

(* masterRemoveAnyTimeoutNodes.  The entry that is allocated goes too if   *)
(* the packet it held last was for p.                                      *)
RemoveNode(p) ==
  /\ ~tm.fault
  /\ p \in connected
  /\ connected' = connected \ {p}
  /\ tm' = masterTxManagerRemoveNode(tm, p)
  /\ behind' = BehindAfter(tm.active, tm'.active)
  /\ removed' = (removed \/ p = dst)
  /\ cutIn' = cutIn \cup Interrupts(tm', {})
                    \cup (IF tm.allocated # NoSlot /\ tm.dst[tm.allocated] = p /\ dst # p
                          THEN {"stale"} ELSE {})
  /\ UNCHANGED <<rxSeqNum, pc, dst, packet, scan>>

(* networkManagerRegisterNewNode: the ID is given out, to a node that has  *)
(* received nothing yet.                                                   *)
RegisterNewNode(p) ==
  /\ ~tm.fault
  /\ p \notin connected
  /\ connected' = connected \cup {p}
  /\ rxSeqNum' = [rxSeqNum EXCEPT ![p] = NullSequenceNum]
  /\ cutIn' = cutIn \cup (IF p = dst THEN {"rejoin"} ELSE {})
  /\ UNCHANGED <<tm, pc, dst, packet, behind, scan, removed>>
-----------------------------------------------------------------------------
Submit ==
  \/ \E d \in Peers : SubmitToAbsent(d) \/ CheckTimeToLive(d)
  \/ WriteDst
  \/ WriteSeqNum
  \/ IncrementEnd
  \/ WrapEnd
  \/ CompareStart
  \/ SearchOn
  \/ SearchEnds
  \/ WriteNodeId
  \/ IncrementNumNodes
  \/ ClearAllocated
  \/ RecheckTimeToLive

Handler ==
  \/ \E received \in BOOLEAN : ProcessTx(received)
  \/ \E p \in Peers : RxAck(p) \/ RemoveNode(p) \/ RegisterNewNode(p)

Next == AllocateTxPacket \/ Submit \/ ClearBuffers \/ Handler

Spec == Init /\ [][Next]_vars
-----------------------------------------------------------------------------
(* Properties *)

Queued(d) == {s \in SeqNums : validSeqNum(tm, d, s)}

(* Every variable has its type.  Between its increment and its wrap        *)
(* txSeqNumEnd can be MAX_SEQUENCE_NUM.                                    *)
TypeOK ==
  /\ tm \in TxManagers({Torn}, 0 .. MaxSequenceNum)
  /\ connected \subseteq Peers
  /\ rxSeqNum \in [Peers -> 0 .. NullSequenceNum]
  /\ pc \in {"idle", "allocated", "checked", "addressed", "numbered", "incremented", "wrapped",
            "searching", "absent", "written", "queued", "cleared"}
  /\ dst \in Peers \cup {NoDst} /\ packet \in Slots \cup {NoSlot}
  /\ scan \in Nat /\ behind \in Peers \cup {NoPeer} /\ removed \in BOOLEAN
  /\ cutIn \subseteq {"shift", "empty", "wrap", "orphan", "stale", "rejoin", "leak", "clear", "header"}

(* None of the interruptions W has happened. *)
Without(W) == cutIn \cap W = {}

(* No assertion of txManager.c or common.c fails, wherever in a submission *)
(* the handlers come in, but for the interruptions named: a queue spoilt   *)
(* by a shift and an entry forgotten for an absent node do not lead to one.*)
NoAssertionFails ==
  Without({"wrap", "orphan", "header", "stale", "rejoin", "clear"}) => ~tm.fault

(* A packet is complete before a handler can see it: every number in a     *)
(* window has its entry, also in the middle of a submission, which writes  *)
(* header, number and txSeqNumEnd in this order.  (But for a node that     *)
(* left meanwhile, until the submission has noticed.)                      *)
PublishedComplete ==
  Without({"wrap", "header", "stale", "rejoin", "clear"}) =>
    \A d \in Peers : (removed /\ d = dst) \/ \A s \in Queued(d) : Matching(tm, d, s) # {}

(* Between submissions no entry is lost: what is in use is queued, or the  *)
(* allocated one.                                                          *)
NoEntryLost ==
  Without({"header", "stale", "rejoin", "leak", "clear"}) /\ ~Submitting =>
    \A i \in Slots : tm.inUse[i] =>
      \/ i = tm.allocated
      \/ tm.dst[i] \in Peers /\ tm.seq[i] \in Queued(tm.dst[i])

(* Between submissions the round robin queue lists the destinations with   *)
(* packets to send, each once, but for the interruptions that spoil it.  A *)
(* submission during which its node leaves repairs it.                     *)
QueueMatchesWindows ==
  Without({"shift", "empty", "wrap", "header", "stale", "rejoin", "clear"}) /\ ~Submitting =>
    /\ \A d \in Peers : Contains(tm.active.nodeIds, d) <=> tm.start[d] # tm.end[d]
    /\ IsInjective(tm.active.nodeIds)

(* nodeQueueAdd writes the ID and then numNodes, "at the end and           *)
(* atomically to cope with the other thread cutting in" (common.c): once a *)
(* submission has returned, a destination with packets is on the queue,    *)
(* else nobody sends them.  (Apart from a node that left and rejoined      *)
(* during its submission, and cleared buffers.)  A removal or an ack that *)
(* takes another destination off the queue in between refutes it.          *)
BackloggedOnQueue ==
  Without({"rejoin", "clear"}) /\ ~Submitting /\ ~tm.fault =>
    \A d \in connected : tm.start[d] # tm.end[d] => Contains(tm.active.nodeIds, d)

(* "This function could be interrupted at any point by a thread that could *)
(* remove the node.  If that has happened check now and remove it too"     *)
(* (txManager.c): when submitAllocatedTxPacket has returned, nothing of a  *)
(* node that has left is queued or in the store.                           *)
NoTraceOfAbsent ==
  Without({"shift", "leak"}) /\ ~Submitting =>
    \A d \in Peers \ connected :
      /\ ~Contains(tm.active.nodeIds, d)
      /\ tm.start[d] = tm.end[d]
      /\ \A i \in Slots : tm.inUse[i] /\ tm.dst[i] = d => i = tm.allocated
=============================================================================
