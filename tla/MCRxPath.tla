------------------------------ MODULE MCRxPath ------------------------------
(***************************************************************************)
(* RxPath for TLC: symmetry for the nodes.                                 *)
(***************************************************************************)
EXTENDS RxPathInv, TLC

SourceSymmetry == Permutations(Sources)
=============================================================================
