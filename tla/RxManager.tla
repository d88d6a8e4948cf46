----------------------------- MODULE RxManager -----------------------------
(***************************************************************************)
(* rxManager.c: the receive buffers and the circular queue of received     *)
(* packets between the interrupt handlers and the application.  The state  *)
(* of one tRxPacketManager is a record; every function is an operator from *)
(* the old record to the new one.  A record rpm has the fields             *)
(*   inUse, packet  per buffer: the in-use flag, and the packet its memory *)
(*                  holds, <<srcNodeId, number>>                           *)
(*   queue          rxPacketQueue: a buffer, or NoEntry (NULL), per index  *)
(*   start, end     the queue occupies the indices from start up to end    *)
(*   fault          "none", or why the program goes no further: "assert",  *)
(*                  an assertion failed; "null", a NULL entry was          *)
(*                  followed; "loop", a loop never ends                    *)
(* Operators marked "seeded fault" are faulty variants of the operator     *)
(* they precede, named in PROJECT.json; no specification uses them.        *)
(***************************************************************************)
EXTENDS Integers, FiniteSets, FiniteSetsExt

CONSTANT MaxRxPacketEntries  \* maxRxPacketEntries

ASSUME RxManagerAssumption == MaxRxPacketEntries \in Nat /\ MaxRxPacketEntries > 2

Entries == 1 .. MaxRxPacketEntries
NoEntry == 0
Indices == 0 .. MaxRxPacketEntries - 1

(* The circular buffer macros of microbus.h. *)
IncrOnly(index) == index + 1  \* seeded fault
IncrAndWrap(index) == IF index >= MaxRxPacketEntries - 1 THEN 0 ELSE index + 1

Length(rpm) ==
  IF rpm.end < rpm.start THEN MaxRxPacketEntries - rpm.start + rpm.end
                         ELSE rpm.end - rpm.start

NeverFull(rpm) == FALSE  \* seeded fault
Full(rpm) == rpm.start = IncrAndWrap(rpm.end)

(* The indices that hold queued entries, oldest first. *)
QueuedIndex(rpm, k) == (rpm.start + k - 1) % MaxRxPacketEntries
QueuedIndices(rpm) == {QueuedIndex(rpm, k) : k \in 1 .. Length(rpm)}

Fault(rpm, kind) == [rpm EXCEPT !.fault = kind]

rxManagerInit(noPacket) ==
  [inUse  |-> [e \in Entries |-> FALSE],
   packet |-> [e \in Entries |-> noPacket],
   queue  |-> [i \in Indices |-> NoEntry],
   start  |-> 0,
   end    |-> 0,
   fault  |-> "none"]
-----------------------------------------------------------------------------
(* The entry findFreeRxPacket returns.  A full queue has no room for one   *)
(* more packet even if a buffer is free.                                   *)
findAnyRxPacket(rpm) == IF Full(rpm) THEN NoEntry ELSE Min(Entries)  \* seeded fault
findFreeRxPacket(rpm) ==
  LET free == {e \in Entries : ~rpm.inUse[e]}
  IN  IF Full(rpm) \/ free = {} THEN NoEntry ELSE Min(free)

addRxDataPacket(rpm, entry) ==
  IF rpm.start = IncrAndWrap(rpm.end) THEN Fault(rpm, "assert")
  ELSE [rpm EXCEPT !.queue[rpm.end] = entry, !.end = IncrAndWrap(@)]

(* Where the queue holds packets of some nodes. *)
IndicesOf(rpm, nodeIds) ==
  {i \in QueuedIndices(rpm) :
     rpm.queue[i] # NoEntry /\ rpm.packet[rpm.queue[i]][1] \in nodeIds}

(* The calls for the nodes that leave in one slot, in any order: their     *)
(* packets are freed and the places in the queue set to NULL.  The loop    *)
(* compares its index with end before it wraps the index to 0, so with     *)
(* end = 0 behind a non-zero start it never ends.                          *)
rxManagerRemoveAllPackets(rpm, nodeIds) ==
  LET gone  == IndicesOf(rpm, nodeIds)
      freed == {rpm.queue[i] : i \in gone}
  IN  IF nodeIds # {} /\ rpm.end = 0 /\ rpm.start # 0 THEN Fault(rpm, "loop")
      ELSE [rpm EXCEPT !.inUse = [e \in Entries |-> @[e] /\ e \notin freed],
                       !.queue = [i \in Indices |-> IF i \in gone THEN NoEntry ELSE @[i]]]

(* The places of removed packets are skipped, so that the queue starts     *)
(* with a packet, or is empty.                                             *)
peekNoSkip(rpm) == rpm  \* seeded fault
peekNextRxDataPacket(rpm) ==
  LET valid == {k \in 1 .. Length(rpm) : rpm.queue[QueuedIndex(rpm, k)] # NoEntry}
  IN  [rpm EXCEPT !.start = IF valid = {} THEN rpm.end ELSE QueuedIndex(rpm, Min(valid))]

(* popNextDataPacket in its two steps: the entry at the start of the queue *)
(* is freed, then start moves on.                                          *)
popFree(rpm) ==
  LET entry == rpm.queue[rpm.start]
  IN  IF rpm.start = rpm.end \/ entry = NoEntry THEN Fault(rpm, "null")
      ELSE [rpm EXCEPT !.inUse[entry] = FALSE]

popAdvance(rpm) ==
  IF rpm.start = rpm.end THEN Fault(rpm, "assert")
  ELSE [rpm EXCEPT !.start = IncrAndWrap(@)]
=============================================================================
