------------------------------- MODULE RxPath -------------------------------
(***************************************************************************)
(* The receive path of the master: the pre-processing that decides at the  *)
(* start of a slot whether the packet just received is kept and accepts    *)
(* its sequence number, the post-processing that puts an accepted packet   *)
(* in the queue while the next slot runs, the removal of nodes that timed  *)
(* out, and the application thread that the handlers interrupt.            *)
(*                                                                         *)
(* Accepting a packet lets the sender free it, so from then on this copy   *)
(* is the only one.                                                        *)
(***************************************************************************)
EXTENDS RxManager, Functions

CONSTANTS
  Sources,      \* the nodes that send data packets
  NoSource,     \* the srcNodeId in zeroed memory
  MaxAccepted,  \* bound: data packets accepted from one source
  MaxRemovals   \* bound: nodes that time out

ASSUME RxPathAssumption ==
  /\ IsFiniteSet(Sources)
  /\ NoSource \notin Sources
  /\ MaxAccepted \in Nat
  /\ MaxRemovals \in Nat

VARIABLES
  rpm,        \* the tRxPacketManager
  nextRx,     \* nextRxPacketEntry, the buffer the DMA fills in this slot
  prevRx,     \* prevRxPacketEntry, the buffer filled in the slot before
  validRx,    \* validRxPacket
  validSeq,   \* validRxSeqNum
  phase,      \* "slot" while a packet is received, "post" before PostProcess
  app,        \* the application: "idle", "peeked", "popping"
  peeked,     \* the packet and the buffer that peek returned last
  removals,   \* how many nodes have been removed
  cutIn,      \* history: a removal has interrupted the application inside pop
  accepted,   \* accepted[n]: data packets of n whose sequence number was accepted
  settled     \* settled[n]: how many of those were popped, or removed with n

vars == <<rpm, nextRx, prevRx, validRx, validSeq, phase, app, peeked, removals,
          cutIn, accepted, settled>>

Blank == <<NoSource, 0>>

Running == rpm.fault = "none"

(* masterRxInit takes the first buffer for the DMA. *)
Init ==
  LET empty == rxManagerInit(Blank)
  IN  /\ nextRx = findFreeRxPacket(empty)
      /\ rpm = [empty EXCEPT !.inUse[nextRx] = TRUE]
      /\ prevRx = NoEntry
      /\ validRx = FALSE
      /\ validSeq = FALSE
      /\ phase = "slot"
      /\ app = "idle"
      /\ peeked = [packet |-> Blank, entry |-> NoEntry]
      /\ removals = 0
      /\ cutIn = FALSE
      /\ accepted = [n \in Sources |-> 0]
      /\ settled = [n \in Sources |-> 0]
-----------------------------------------------------------------------------
(* The interrupt handlers *)

(* Nothing usable was received: an idle line, a CRC error, a packet of     *)
(* another version or size.  The buffer is used again.                     *)
RejectPacket ==
  /\ Running /\ phase = "slot"
  /\ phase' = "post"
  /\ prevRx' = nextRx
  /\ validRx' = FALSE
  /\ UNCHANGED <<rpm, nextRx, validSeq, app, peeked, removals, cutIn, accepted, settled>>

(* A packet of node n was received in nextRx.  If another buffer is free   *)
(* it takes the place of nextRx, and for a data packet the sequence number *)
(* is checked; otherwise the packet is dropped.  isData tells data packets *)
(* from empty ones, inSeq whether the number is the expected one.          *)
QuickProcessPrevRx(n, isData, inSeq) ==
  LET new  == IF inSeq THEN accepted[n] + 1 ELSE accepted[n]
      full == [rpm EXCEPT !.packet[nextRx] = <<n, new>>]
      free == findFreeRxPacket(rpm)
      keep == isData /\ inSeq /\ free # NoEntry
  IN  /\ Running /\ phase = "slot"
      /\ inSeq => isData
      /\ new <= MaxAccepted
      /\ phase' = "post"
      /\ prevRx' = nextRx
      /\ validRx' = (free # NoEntry)
      /\ nextRx' = IF free # NoEntry THEN free ELSE nextRx
      /\ rpm' = IF free # NoEntry THEN [full EXCEPT !.inUse[free] = TRUE] ELSE full
      /\ validSeq' = IF isData /\ free # NoEntry THEN inSeq ELSE validSeq
      /\ accepted' = IF keep THEN [accepted EXCEPT ![n] = new] ELSE accepted
      /\ UNCHANGED <<app, peeked, removals, cutIn, settled>>

(* masterProcessRx: an accepted data packet is queued, any other valid     *)
(* packet's buffer is freed.                                               *)
ProcessRxKeepAll ==  \* seeded fault: the sequence check is ignored
  IF ~validRx THEN rpm ELSE addRxDataPacket(rpm, prevRx)
ProcessRxNoFree ==  \* seeded fault: a packet that is not kept is not freed
  IF validRx /\ validSeq THEN addRxDataPacket(rpm, prevRx) ELSE rpm
ProcessRx ==
  IF ~validRx THEN rpm
  ELSE IF validSeq THEN addRxDataPacket(rpm, prevRx)
  ELSE [rpm EXCEPT !.inUse[prevRx] = FALSE]

(* The post-processing of a slot in which the nodes in timedOut are        *)
(* removed, after the received packet was processed.                       *)
PostProcess(timedOut) ==
  LET processed == ProcessRx
      cleared   == rxManagerRemoveAllPackets(processed, timedOut)
  IN  /\ Running /\ phase = "post"
      /\ removals + Cardinality(timedOut) <= MaxRemovals
      /\ phase' = "slot"
      /\ rpm' = IF processed.fault # "none" THEN processed ELSE cleared
      /\ validRx' = FALSE
      /\ validSeq' = IF validRx THEN FALSE ELSE validSeq
      /\ removals' = removals + Cardinality(timedOut)
      /\ cutIn' = (cutIn \/ (timedOut # {} /\ app = "popping"))
      /\ settled' = [n \in Sources |-> IF n \in timedOut THEN accepted[n] ELSE settled[n]]
      /\ UNCHANGED <<nextRx, prevRx, app, peeked, accepted>>
-----------------------------------------------------------------------------
(* The application thread *)

(* masterPeekNextRxDataPacket *)
Peek ==
  LET skipped == peekNextRxDataPacket(rpm)
      entry   == skipped.queue[skipped.start]
      empty   == skipped.start = skipped.end
  IN  /\ Running /\ app = "idle" /\ rpm.start # rpm.end
      /\ rpm' = skipped
      /\ app' = IF empty THEN "idle" ELSE "peeked"
      /\ peeked' = IF empty THEN peeked
                   ELSE [packet |-> IF entry = NoEntry THEN Blank ELSE rpm.packet[entry],
                         entry  |-> entry]
      /\ UNCHANGED <<nextRx, prevRx, validRx, validSeq, phase, removals, cutIn, accepted, settled>>

(* masterPopNextDataPacket, called when the packet peeked at was used.  A  *)
(* handler may run between its two steps.                                  *)
Pop ==
  /\ Running /\ app = "peeked"
  /\ app' = "popping"
  /\ rpm' = popFree(rpm)
  /\ settled' = IF rpm'.fault # "none" THEN settled ELSE [settled EXCEPT ![peeked.packet[1]] = @ + 1]
  /\ UNCHANGED <<nextRx, prevRx, validRx, validSeq, phase, peeked, removals, cutIn, accepted>>

PopDone ==
  /\ Running /\ app = "popping"
  /\ app' = "idle"
  /\ rpm' = popAdvance(rpm)
  /\ UNCHANGED <<nextRx, prevRx, validRx, validSeq, phase, peeked, removals, cutIn, accepted, settled>>
-----------------------------------------------------------------------------
Next ==
  \/ RejectPacket
  \/ \E n \in Sources : \E isData, inSeq \in BOOLEAN : QuickProcessPrevRx(n, isData, inSeq)
  \/ \E timedOut \in SUBSET Sources : PostProcess(timedOut)
  \/ Peek
  \/ Pop
  \/ PopDone

Spec == Init /\ [][Next]_vars
-----------------------------------------------------------------------------
(* Properties *)

(* The buffers that hold received packets, by their places in the queue:   *)
(* without the places of removed packets and without a packet whose pop is *)
(* under way; the packet that PostProcess will process has the place       *)
(* behind the last one.                                                    *)
Backlog ==
  LET last   == Length(rpm)
      queued == {k \in 1 .. last : /\ rpm.queue[QueuedIndex(rpm, k)] # NoEntry
                                   /\ ~(app = "popping" /\ k = 1)}
      coming == {k \in {last + 1} : phase = "post" /\ validRx}
  IN  [k \in queued \cup coming |->
         IF k <= last THEN rpm.queue[QueuedIndex(rpm, k)] ELSE prevRx]

(* The places of the packets that n sent and the application has yet to    *)
(* get: a packet that was not accepted will not be queued.                 *)
Owed(n) ==
  {k \in DOMAIN Backlog : /\ rpm.packet[Backlog[k]][1] = n
                          /\ k <= Length(rpm) \/ validSeq}

(* The number of the packet at a place. *)
Number(k) == rpm.packet[Backlog[k]][2]

Packets == (Sources \cup {NoSource}) \X (0 .. MaxAccepted)

(* Every variable, and every field of the tRxPacketManager, has its type. *)
TypeOK ==
  /\ rpm \in [inUse  : [Entries -> BOOLEAN],
              packet : [Entries -> Packets],
              queue  : [Indices -> Entries \cup {NoEntry}],
              start  : Indices,
              end    : Indices,
              fault  : {"none", "assert", "null", "loop"}]
  /\ nextRx \in Entries
  /\ prevRx \in Entries \cup {NoEntry}
  /\ validRx \in BOOLEAN
  /\ validSeq \in BOOLEAN
  /\ phase \in {"slot", "post"}
  /\ app \in {"idle", "peeked", "popping"}
  /\ peeked \in [packet : Packets, entry : Entries \cup {NoEntry}]
  /\ removals \in 0 .. MaxRemovals
  /\ cutIn \in BOOLEAN
  /\ accepted \in [Sources -> 0 .. MaxAccepted]
  /\ settled \in [Sources -> Nat]

(* No interleaving of the handlers with peek and pop appends to a full     *)
(* queue or moves the start of an empty one: the circular buffer macros'   *)
(* assertions hold, although the room for a packet is checked one half of  *)
(* a slot before the packet is appended.                                   *)
NoAssertionFails == rpm.fault # "assert"

(* A buffer has one owner: the DMA, the packet between its pre- and        *)
(* post-processing, or one place in the queue; and a buffer that has no    *)
(* owner is free.  So none is overwritten while it holds a packet, and     *)
(* none leaks.  A removal that cuts into pop between its two steps can     *)
(* break this, and is excluded.                                            *)
BuffersAccounted ==
  Running /\ ~cutIn =>
    /\ IsInjective(Backlog)
    /\ nextRx \notin Range(Backlog)
    /\ {e \in Entries : rpm.inUse[e]} = {nextRx} \cup Range(Backlog)

(* No packet is lost, repeated or reordered between the acceptance of its  *)
(* sequence number and the application: what the queue and the packet      *)
(* still to be queued hold of each node is exactly what was accepted and   *)
(* is not yet settled, in order.                                           *)
AcceptedReachApplication ==
  Running /\ ~cutIn =>
    \A n \in Sources :
      /\ settled[n] <= accepted[n]
      /\ {Number(k) : k \in Owed(n)} = settled[n] + 1 .. accepted[n]
      /\ \A j, k \in Owed(n) : j < k => Number(j) < Number(k)

(* The application reads the payload through the pointer that peek gave it *)
(* until it calls pop: nothing overwrites that memory meanwhile, unless    *)
(* the node it came from is removed.                                       *)
PeekedIntact ==
  Running /\ ~cutIn /\ app = "peeked" /\ rpm.queue[rpm.start] = peeked.entry =>
    /\ rpm.inUse[peeked.entry]
    /\ peeked.entry # nextRx
    /\ rpm.packet[peeked.entry] = peeked.packet

(* "instead just set packet invalid" (rxManager.c): removing a node's      *)
(* packets is one pass over the queue, and ends.                           *)
RemovalEnds == rpm.fault # "loop"
=============================================================================
