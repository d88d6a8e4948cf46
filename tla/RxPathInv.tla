----------------------------- MODULE RxPathInv -----------------------------
(***************************************************************************)
(* The inductive invariant of RxPath: why the two indices of the queue     *)
(* and the in-use flags stay right although handlers and application       *)
(* change them without a lock.  TLC checks it on a small instance, and     *)
(* RxPathProofs proves it for every number of buffers and nodes.           *)
(***************************************************************************)
EXTENDS RxPath

(* The results of the pre-processing are used up by the next               *)
(* post-processing.                                                        *)
ResultsPending ==
  /\ validRx => phase = "post" /\ prevRx \in Entries
  /\ validSeq => validRx

(* The room that findFreeRxPacket found is there until the packet is       *)
(* appended: meanwhile the application only takes entries out.             *)
RoomKept == validRx => ~Full(rpm)

(* The entry that pop frees is still the first when pop moves on:          *)
(* meanwhile the handlers only append.                                     *)
FirstKept == Running /\ app = "popping" => rpm.start # rpm.end

(* The place that peek found is still the first, and holds what peek       *)
(* returned or nothing.                                                    *)
PeekedFirst ==
  Running /\ ~cutIn /\ app = "peeked" =>
    /\ rpm.start # rpm.end
    /\ peeked.entry \in Entries
    /\ rpm.queue[rpm.start] \in {peeked.entry, NoEntry}
    /\ rpm.queue[rpm.start] = peeked.entry => rpm.packet[peeked.entry] = peeked.packet

(* What one step of a handler or of the application leaves for a later one *)
(* is still true when it is used, whatever runs in between.                *)
Handoff ==
  /\ ResultsPending
  /\ RoomKept
  /\ FirstKept
  /\ PeekedFirst

(* The inductive invariant: from it follows every invariant of RxPath. *)
Inductive ==
  /\ TypeOK
  /\ NoAssertionFails
  /\ BuffersAccounted
  /\ AcceptedReachApplication
  /\ Handoff
=============================================================================
