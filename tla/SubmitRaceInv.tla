--------------------------- MODULE SubmitRaceInv ---------------------------
(***************************************************************************)
(* The inductive invariant of SubmitRace: what is true between any two     *)
(* accesses of a submission, and which interruptions each part of it does  *)
(* not survive.  TLC checks it on a small instance, and SubmitRaceProofs   *)
(* proves it for every number of nodes, entries and sequence numbers.      *)
(***************************************************************************)
EXTENDS SubmitRace

(* The interruptions after which nothing is known of the entries. *)
Mixed == {"header", "stale", "rejoin", "clear"}

(* txSeqNumEnd once the increment that is under way has wrapped it. *)
WrappedEnd(d) == IF tm.end[d] = MaxSequenceNum THEN 0 ELSE tm.end[d]

(* How many packets are queued for d, and which numbers they have. *)
Pending(d) == Dist(tm.start[d], WrappedEnd(d))
InWindow(d, n) == Dist(tm.start[d], n) < Pending(d)

OnQueue(d) == Contains(tm.active.nodeIds, d)

(* The destination of a submission that left meanwhile: the submission     *)
(* will remove it again, and until then nothing is said of its window.     *)
Orphaned(d) == removed /\ d = dst

(* The allocated entry is not yet in a window. *)
Unpublished == pc \in {"allocated", "checked", "addressed", "numbered"}

Live(i) == tm.inUse[i] /\ ~(Unpublished /\ i = tm.allocated)

Holds(i, d, n) == Live(i) /\ tm.dst[i] = d /\ tm.seq[i] = n
-----------------------------------------------------------------------------
(* What the application's variables say, in each place it can be. *)
Control ==
  /\ \A d \in Peers : tm.end[d] = MaxSequenceNum => pc = "incremented" /\ d = dst
  /\ tm.allocated = NoSlot <=> pc \in {"idle", "cleared"}
  /\ Submitting => /\ dst \in Peers /\ packet \in Slots
                   /\ tm.allocated \in {packet, NoSlot}
                   /\ dst \in connected \/ removed
  /\ ~Submitting => dst = NoDst /\ ~removed
  /\ removed /\ Without({"rejoin"}) => dst \notin connected
  /\ pc # "searching" => scan = 0
  /\ pc = "written" => behind \in Peers

(* The header of the entry that is submitted, and its place in the window. *)
Header ==
  /\ Submitting /\ pc # "checked" => tm.dst[packet] = dst
  /\ pc = "numbered" /\ ~removed => tm.seq[packet] = tm.end[dst]
  /\ Submitting /\ ~Unpublished /\ ~removed => WrappedEnd(dst) = Incr(tm.seq[packet])
  /\ pc = "incremented" /\ ~removed /\ Without(Mixed \cup {"wrap"}) =>
       tm.start[dst] # WrappedEnd(dst) \/ tm.end[dst] # MaxSequenceNum

(* allocateTxPacket found room on the queue, and only its thread adds. *)
RoomOnQueue == Unpublished \/ pc \in {"incremented", "wrapped"} => ~QueueFull(tm.active)

(* The entry to submit is in use until its node leaves. *)
Reserved == Without(Mixed) /\ Unpublished => removed \/ tm.inUse[tm.allocated]

(* Every packet in a window is in the store. *)
Complete ==
  Without(Mixed \cup {"wrap"}) \/ Without(Mixed \cup {"leak"}) =>
    \A d \in Peers, n \in SeqNums :
      InWindow(d, n) /\ ~Orphaned(d) => \E i \in Slots : Holds(i, d, n)

(* And the store holds nothing else, and nothing twice. *)
Kept ==
  Without(Mixed \cup {"leak"}) =>
    /\ \A i \in Slots : Live(i) => /\ tm.dst[i] \in Peers
                                   /\ Orphaned(tm.dst[i]) \/ InWindow(tm.dst[i], tm.seq[i])
    /\ \A i, j \in Slots : Live(i) /\ Holds(j, tm.dst[i], tm.seq[i]) =>
                             Orphaned(tm.dst[i]) \/ i = j

(* The search of nodeQueueAdd looks at a queue that does not move. *)
Searched ==
  Without({"shift"}) =>
    /\ \A j, k \in 1 .. numNodes(tm.active) :
         tm.active.nodeIds[j] = tm.active.nodeIds[k] => j = k
    /\ scan <= numNodes(tm.active)
    /\ \A k \in 1 .. scan : tm.active.nodeIds[k] # dst
    /\ pc \in {"absent", "written"} => ~OnQueue(dst)
    /\ pc = "written" => behind = dst

(* Nothing is known of an absent node: neither a window, nor a place on    *)
(* the queue, nor a packet.                                                *)
AbsentForgotten ==
  \A d \in Peers \ connected :
    \/ d = dst
    \/ /\ tm.start[d] = 0 /\ tm.end[d] = 0
       /\ Without({"shift"}) => ~OnQueue(d)
       /\ Without({"leak"}) =>
            \A i \in Slots : tm.inUse[i] /\ tm.dst[i] = d => i = tm.allocated

(* A node expects a number of its window, or the next one to be submitted, *)
(* and that of a window it has not been sent anything of is the first.     *)
Expected ==
  Without(Mixed \cup {"wrap"}) =>
    \A d \in connected :
      /\ Dist(tm.start[d], expectedSeqNum(rxSeqNum[d])) <= Pending(d)
      /\ ~OnQueue(d) => expectedSeqNum(rxSeqNum[d]) = tm.start[d]

(* txSeqNumNext lies in the window or behind its last packet. *)
NextInWindow ==
  Without(Mixed \cup {"wrap"}) =>
    \A d \in Peers : Orphaned(d) \/ Dist(tm.start[d], tm.next[d]) <= Pending(d)

(* Between the increment of txSeqNumEnd and that of numNodes the window of *)
(* the destination may be missing from the queue, and then it holds the    *)
(* new packet only.                                                        *)
QueueKept ==
  Without(Mixed \cup {"shift", "empty", "wrap"}) =>
    /\ \A d \in Peers :
         \/ Orphaned(d)
         \/ OnQueue(d) <=> Pending(d) # 0
         \/ /\ d = dst /\ pc \in {"incremented", "wrapped", "searching", "absent", "written"}
            /\ ~OnQueue(d) /\ tm.start[d] = tm.seq[packet]
    /\ pc \in {"searching", "absent", "written"} => Orphaned(dst) \/ Pending(dst) # 0
-----------------------------------------------------------------------------
Inductive ==
  /\ TypeOK
  /\ Control
  /\ Header
  /\ RoomOnQueue
  /\ Reserved
  /\ Complete
  /\ Kept
  /\ Searched
  /\ AbsentForgotten
  /\ Expected
  /\ NextInWindow
  /\ QueueKept
  /\ NoAssertionFails
=============================================================================
