--------------------------- MODULE MCSlotSchedule ---------------------------
(***************************************************************************)
(* SlotSchedule and its invariant for TLC: symmetry for the nodes.         *)
(***************************************************************************)
EXTENDS SlotScheduleInv

NodeSymmetry == Permutations(Nodes)
=============================================================================
