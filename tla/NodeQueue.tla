----------------------------- MODULE NodeQueue -----------------------------
(***************************************************************************)
(* tNodeQueue of microbus.h and its operations in common.c: the round      *)
(* robin lists of node IDs that the master keeps (activeNodes,             *)
(* activeTxNodes and nodeTxNodes).  A queue is a record; nodeIds holds     *)
(* only the first numNodes array entries, so numNodes is Len(nodeIds).     *)
(***************************************************************************)
EXTENDS Naturals, Sequences, SequencesExt

CONSTANT MaxNodes  \* MAX_NODES, the length of the nodeIds array

EmptyQueue == [nodeIds |-> << >>, lastIndex |-> 0]

numNodes(queue) == Len(queue.nodeIds)

QueueFull(queue) == numNodes(queue) >= MaxNodes

(* Adding an ID that is already queued leaves the queue alone.  The caller *)
(* asserts ~QueueFull(queue).                                              *)
nodeQueueAdd(queue, nodeId) ==
  IF Contains(queue.nodeIds, nodeId)
  THEN queue
  ELSE [queue EXCEPT !.nodeIds = Append(@, nodeId)]

(* Seeded fault (see TxManager): lastIndex is left alone. *)
removeKeepIndex(queue, nodeId) ==
  [queue EXCEPT !.nodeIds = RemoveFirst(@, nodeId)]

(* The entries behind the removed one are shifted down; lastIndex is only  *)
(* corrected when it would lie outside the queue.                          *)
nodeQueueRemoveIfExists(queue, nodeId) ==
  LET ids == RemoveFirst(queue.nodeIds, nodeId)
  IN  IF Contains(queue.nodeIds, nodeId)
      THEN [nodeIds   |-> ids,
            lastIndex |-> IF queue.lastIndex >= Len(ids) THEN 0 ELSE queue.lastIndex]
      ELSE queue

(* Removals in a loop.  The first entry with each of the IDs goes, so an   *)
(* entry is left if its ID is another one or has an entry before it.       *)
LeftByRemovals(nodeIds, ids) ==
  {k \in DOMAIN nodeIds : nodeIds[k] \in ids => \E j \in 1 .. k - 1 : nodeIds[j] = nodeIds[k]}

(* The entries of seq at the given places, in their order. *)
EntriesAt(seq, places) ==
  [k \in 1 .. Cardinality(places) |->
     seq[CHOOSE i \in places : Cardinality({j \in places : j <= i}) = k]]

(* Seeded fault (see TxManager): lastIndex is left alone. *)
removeEachKeepIndex(queue, ids) ==
  [queue EXCEPT !.nodeIds = EntriesAt(@, LeftByRemovals(@, ids))]

(* nodeQueueRemoveIfExists called for each of the IDs.  The order does not *)
(* matter: a position that falls outside the queue is set to 0 and stays.  *)
nodeQueueRemoveEach(queue, ids) ==
  LET left == LeftByRemovals(queue.nodeIds, ids)
  IN  IF left = DOMAIN queue.nodeIds THEN queue
      ELSE [nodeIds   |-> EntriesAt(queue.nodeIds, left),
            lastIndex |-> IF queue.lastIndex >= Cardinality(left) THEN 0 ELSE queue.lastIndex]

(* The round robin: the node whose turn it is, or several turns later.     *)
NodeAfter(queue, k) ==
  queue.nodeIds[((queue.lastIndex + k) % numNodes(queue)) + 1]

(* getNextNodeInQueue called k times. *)
getNextNodesInQueue(queue, k) ==
  [queue EXCEPT !.lastIndex = (@ + k) % numNodes(queue)]
=============================================================================
