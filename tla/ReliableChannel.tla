-------------------------- MODULE ReliableChannel --------------------------
(***************************************************************************)
(* What the sliding window protocol promises a sender (README.md: "All     *)
(* packets will arrive without loss and in order"): to every destination,  *)
(* the packets handed over are the n-th of their kind for n = 1, 2, ...,   *)
(* and the ones delivered are those same packets, in that order, each      *)
(* once, none skipped and none altered.                                    *)
(***************************************************************************)
EXTENDS Naturals, Sequences

CONSTANTS Peers, Packet(_, _)

VARIABLES sent,       \* how many packets were handed over, per destination
          delivered   \* the packets that arrived, per destination

Init == /\ sent = [d \in Peers |-> 0]
        /\ delivered = [d \in Peers |-> << >>]

Send(d) == /\ sent' = [sent EXCEPT ![d] = @ + 1]
           /\ UNCHANGED delivered

Deliver(d) ==
  /\ Len(delivered[d]) < sent[d]
  /\ delivered' = [delivered EXCEPT ![d] = Append(@, Packet(d, Len(@) + 1))]
  /\ UNCHANGED sent

Next == \E d \in Peers : Send(d) \/ Deliver(d)

Spec == Init /\ [][Next]_<<sent, delivered>>
=============================================================================
