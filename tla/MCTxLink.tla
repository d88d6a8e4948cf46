------------------------------ MODULE MCTxLink ------------------------------
(***************************************************************************)
(* TxLink and its invariant for TLC: symmetry for the peers of a master.   *)
(***************************************************************************)
EXTENDS TxLinkInv

PeerSymmetry == Permutations(Peers)
=============================================================================
