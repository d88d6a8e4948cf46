---------------------------- MODULE MCSubmitRace ----------------------------
(* SubmitRace for TLC: the nodes are interchangeable, and a behaviour is   *)
(* followed through one harmful interruption at most, not beyond those     *)
(* that mix up the entries themselves, and after the others no packet is   *)
(* allocated while a node is absent.                                       *)
EXTENDS SubmitRaceInv, TLC

PeerSymmetry == Permutations(Peers)

OneCutIn ==
  /\ Cardinality(cutIn) <= 1 /\ Without({"header", "stale", "rejoin", "clear"})
  /\ cutIn = {} \/ pc # "idle" \/ connected = Peers
=============================================================================
